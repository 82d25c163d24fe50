------------------------ MODULE TavernTranscriptProofs ------------------------
(***************************************************************************)
(* TLAPS proofs of what a tavern room shows its readers: the steps of a    *)
(* run agree with the transcript and with the run's status, a retry        *)
(* continues what its parent left and nobody speaks twice, and the whole   *)
(* protocol implements TavernTranscript.                                   *)
(***************************************************************************)
EXTENDS TavernRunProofs, SequenceTheorems

\* A step's row takes a status and an evidence; owner and lease aside, nothing else of it
\* changes.
Turns(r, i, status, trace) ==
    /\ step'[r][i].status = status
    /\ step'[r][i].trace = trace
    /\ step'[r][i].persona = step[r][i].persona
    /\ step'[r][i].claims = step[r][i].claims
    /\ step'[r][i].message = step[r][i].message
    /\ step'[r][i].replyTo = step[r][i].replyTo

Kept(r, i) == Turns(r, i, step[r][i].status, step[r][i].trace)

OthersKept(r, i) == \A j \in Slot \ {i} : Kept(r, j)

\* No reply of run r is added or removed.
Silent(r) == \A i \in Slot : Replies(r, i)' = Replies(r, i)

\* What one step of the program is to a run: nothing but late evidence, a claim, a reply,
\* a failure, or a cancellation.
Quiet(r) ==
    /\ run'[r] = run[r]
    /\ Silent(r)
    /\ \A i \in Slot :
         \/ Kept(r, i)
         \/ step[r][i].status = "canceled" /\ Turns(r, i, "canceled", step[r][i].claims)

Claims(w, r, i) ==
    /\ pc[w] = "claim" /\ exec[w].run = r /\ exec[w].slot = i
    /\ CanClaimStep(r, i)
    /\ run'[r] = run[r]
    /\ Silent(r)
    /\ step'[r][i].status = "generating"
    /\ step'[r][i].persona = step[r][i].persona
    /\ step'[r][i].message = step[r][i].message
    /\ step'[r][i].trace = step[r][i].trace
    /\ step'[r][i].replyTo = IF i > 1 THEN exec[w].anchor ELSE step[r][i].replyTo
    /\ OthersKept(r, i)

IsLast(r, i) == \A j \in Scheduled(r) : j <= i

Speaks(r, i) ==
    /\ run[r].status = "pending"
    /\ step[r][i].status = "generating"
    /\ IsLast(r, i) => Scheduled(r) \ {i} = CompletedSlots(r)
    /\ run'[r] = IF IsLast(r, i)
                 THEN [run[r] EXCEPT !.status = "completed", !.terminalSeq = NextSeq]
                 ELSE run[r]
    /\ step'[r][i].status = "completed"
    /\ step'[r][i].persona = step[r][i].persona
    /\ step'[r][i].claims = step[r][i].claims
    /\ step'[r][i].message = NextSeq
    /\ step'[r][i].replyTo = step[r][i].replyTo
    /\ step'[r][i].trace = step[r][i].claims
    /\ OthersKept(r, i)
    /\ Replies(r, i)' = Replies(r, i) \union
         {[seq |-> NextSeq, run |-> r, slot |-> i, replyTo |-> step[r][i].replyTo,
           epoch |-> step[r][i].claims]}
    /\ \A j \in Slot \ {i} : Replies(r, j)' = Replies(r, j)

Fails(r, i) ==
    /\ run[r].status = "pending"
    /\ step[r][i].status = "generating"
    /\ run'[r] = [run[r] EXCEPT
         !.status = IF CompletedSlots(r) # {} THEN "partial" ELSE "failed",
         !.terminalSeq = room.lastSeq]
    /\ Silent(r)
    /\ \E e \in {step[r][i].claims, Exhaustion} : Turns(r, i, "failed", e)
    /\ \A j \in Slot \ {i} :
         IF j > i /\ step[r][j].status = "pending"
         THEN Turns(r, j, "blocked", step[r][j].trace)
         ELSE Kept(r, j)

Cancels(r) ==
    /\ run[r].status = "pending"
    /\ run'[r] = [run[r] EXCEPT !.status = "canceled", !.terminalSeq = room.lastSeq]
    /\ Silent(r)
    /\ \A j \in Slot :
         IF step[r][j].status \in {"pending", "generating"}
         THEN Turns(r, j, "canceled", step[r][j].trace)
         ELSE Kept(r, j)

-----------------------------------------------------------------------------
\* Which transactions write messages, and what.
LEMMA MessageWrites ==
  ASSUME Next
  PROVE  \/ \E w \in Worker, r \in Run : AdmitRun(w, r)
         \/ \E w \in Worker : CompleteStep(w)
         \/ DeleteRoom
         \/ UNCHANGED message
<1>1. ASSUME NEW w \in Worker,
             \/ RefuseAdmission(w) \/ LoadRun(w) \/ FinishRun(w) \/ DropRequest(w)
             \/ ClaimStep(w) \/ ExhaustStep(w) \/ RefuseClaim(w) \/ RenewLease(w)
             \/ LoseStep(w) \/ EndLostStep(w) \/ BeginCommit(w) \/ RefuseCommit(w)
             \/ BeginFail(w) \/ FailStep(w) \/ FailEndedRun(w) \/ RefuseFail(w)
             \/ CommitEdit(w) \/ RefuseEdit(w) \/ Crash(w)
      PROVE  UNCHANGED message
  BY <1>1 DEF RefuseAdmission, LoadRun, FinishRun, DropRequest, ClaimStep, ExhaustStep,
              RefuseClaim, RenewLease, LoseStep, EndLostStep, BeginCommit, RefuseCommit,
              BeginFail, FailStep, FailEndedRun, RefuseFail, CommitEdit, RefuseEdit, Crash
<1>2. ASSUME NEW w \in Worker,
             \/ \E s \in Schedule, t \in {"user_message", "continue"} : ReadForTurn(w, s, t)
             \/ \E q \in Run, s \in Schedule : ReadForRetry(w, q, s)
             \/ \E q \in Run : StartResume(w, q)
             \/ \E s \in {"active", "archived"}, o \in Roster : ReadForEdit(w, s, o)
      PROVE  UNCHANGED message
  BY <1>2 DEF ReadForTurn, ReadForRetry, StartResume, ReadForEdit
<1>3. CASE Tick \/ \E q \in Run : CancelRun(q)
  BY <1>3 DEF Tick, CancelRun
<1>. QED
  BY <1>1, <1>2, <1>3 DEF Next

\* An admission opens a run; it is no reply.
LEMMA AdmissionIsSilent ==
  ASSUME NEW w \in Worker, NEW q \in Run, AdmitRun(w, q), NEW r \in Run
  PROVE  Silent(r)
<1> SUFFICES ASSUME NEW i \in Slot PROVE Replies(r, i)' = Replies(r, i)
  BY DEF Silent
<1>1. \A m \in message' : m.slot = i => m \in message
  <2>1. i # 0
    BY DEF Slot
  <2>. QED
    BY <2>1 DEF AdmitRun
<1>2. message \subseteq message'
  BY DEF AdmitRun
<1>. QED
  BY <1>1, <1>2 DEF Replies

LEMMA UnchangedIsSilent ==
  ASSUME UNCHANGED message, NEW r \in Run
  PROVE  Silent(r)
BY DEF Silent, Replies

\* A reply is one of its own run.
LEMMA ReplyWrites ==
  ASSUME TypeInv, NEW w \in Worker, CompleteStep(w), NEW r \in Run, NEW i \in Slot
  PROVE  Replies(r, i)' = IF r = exec[w].run /\ i = exec[w].slot
                          THEN Replies(r, i) \union
                                 {[seq |-> NextSeq, run |-> r, slot |-> i,
                                   replyTo |-> step[r][i].replyTo, epoch |-> step[r][i].claims]}
                          ELSE Replies(r, i)
<1>. DEFINE q == exec[w].run
            k == exec[w].slot
            new == [seq |-> NextSeq, run |-> q, slot |-> k, replyTo |-> step[q][k].replyTo,
                    epoch |-> exec[w].epoch]
<1>1. message' = message \union {new} /\ exec[w].epoch = step[q][k].claims
  BY DEF CompleteStep, OwnsEpoch
<1>2. new.run = q /\ new.slot = k
  OBVIOUS
<1>3. CASE r = q /\ i = k
  <2>1. new = [seq |-> NextSeq, run |-> r, slot |-> i, replyTo |-> step[r][i].replyTo,
               epoch |-> step[r][i].claims]
    BY <1>1, <1>3
  <2>. HIDE DEF new
  <2>. QED
    BY <1>1, <1>2, <1>3, <2>1 DEF Replies
<1>4. CASE ~ (r = q /\ i = k)
  <2>. HIDE DEF new
  <2>. QED
    BY <1>1, <1>2, <1>4 DEF Replies
<1>. QED
  BY <1>3, <1>4

LEMMA SilenceOfOthers ==
  ASSUME TypeInv, Next, NEW r \in Run, ~ DeleteRoom,
         \A w \in Worker : CompleteStep(w) => exec[w].run # r
  PROVE  Silent(r)
BY MessageWrites, AdmissionIsSilent, UnchangedIsSilent, ReplyWrites DEF Silent

-----------------------------------------------------------------------------
\* The rows a transaction writes over a step, column by column.
LEMMA Columns ==
  ASSUME NEW r \in Run, NEW i \in Slot, step[r][i] \in StepRow, NEW e, NEW s,
         \/ /\ step'[r][i] = [step[r][i] EXCEPT !.status = s, !.owner = NoWorker, !.lease = 0]
            /\ e = step[r][i].trace
         \/ /\ step'[r][i] = [step[r][i] EXCEPT !.status = s, !.owner = NoWorker,
                                                !.lease = 0, !.trace = e]
         \/ /\ step'[r][i] = [step[r][i] EXCEPT !.status = s]
            /\ e = step[r][i].trace
         \/ /\ step'[r][i] = [step[r][i] EXCEPT !.trace = e]
            /\ s = step[r][i].status
         \/ /\ \E l : step'[r][i] = [step[r][i] EXCEPT !.lease = l]
            /\ s = step[r][i].status
            /\ e = step[r][i].trace
         \/ /\ step'[r][i] = step[r][i]
            /\ s = step[r][i].status
            /\ e = step[r][i].trace
  PROVE  Turns(r, i, s, e)
BY DEF Turns, StepRow

LEMMA SameRow ==
  ASSUME NEW r \in Run, NEW i \in Slot, step'[r][i] = step[r][i]
  PROVE  Kept(r, i)
BY DEF Kept, Turns

LEMMA QuietRun ==
  ASSUME NEW r \in Run, run'[r] = run[r], step'[r] = step[r], Silent(r)
  PROVE  Quiet(r)
BY SameRow DEF Quiet

LEMMA ClaimMoves ==
  ASSUME TypeInv, NEW w \in Worker, ClaimStep(w), NEW r \in Run, NEW i \in Slot,
         exec[w].run = r, exec[w].slot = i, Silent(r)
  PROVE  Claims(w, r, i)
<1>1. /\ pc[w] = "claim" /\ CanClaimStep(r, i) /\ run'[r] = run[r]
      /\ step[r][i] \in StepRow
      /\ step \in [Run -> [Slot -> StepRow]]
  BY DEF ClaimStep, TypeInv, TypeOK, Located
<1>2. step'[r][i] = ClaimedRow(w, step[r][i]) /\ \A j \in Slot \ {i} : step'[r][j] = step[r][j]
  <2>1. step' = [step EXCEPT ![r][i] = ClaimedRow(w, step[r][i])]
    BY DEF ClaimStep
  <2>. QED
    BY <1>1, <2>1
<1>3. /\ step'[r][i].status = "generating"
      /\ step'[r][i].persona = step[r][i].persona
      /\ step'[r][i].message = step[r][i].message
      /\ step'[r][i].trace = step[r][i].trace
      /\ step'[r][i].replyTo = IF i > 1 THEN exec[w].anchor ELSE step[r][i].replyTo
  BY <1>1, <1>2 DEF ClaimedRow, StepRow
<1>4. OthersKept(r, i)
  BY <1>2, SameRow DEF OthersKept
<1>. QED
  BY <1>1, <1>3, <1>4 DEF Claims

LEMMA CommitMoves ==
  ASSUME TypeInv, NEW w \in Worker, CompleteStep(w), NEW r \in Run, NEW i \in Slot,
         exec[w].run = r, exec[w].slot = i
  PROVE  Speaks(r, i)
<1>. DEFINE new == [step[r][i] EXCEPT !.status = "completed", !.owner = NoWorker, !.lease = 0,
                                      !.message = NextSeq, !.trace = exec[w].epoch]
<1>1. /\ run[r].status = "pending" /\ step[r][i].status = "generating"
      /\ exec[w].epoch = step[r][i].claims
      /\ step[r][i] \in StepRow
      /\ step \in [Run -> [Slot -> StepRow]]
      /\ run \in [Run -> RunRow]
  BY DEF CompleteStep, OwnsEpoch, TypeInv, TypeOK, Located
<1>2. step'[r][i] = new /\ \A j \in Slot \ {i} : step'[r][j] = step[r][j]
  <2>1. step' = [step EXCEPT ![r][i] = new]
    BY DEF CompleteStep
  <2>. HIDE DEF new
  <2>. QED
    BY <1>1, <2>1
<1>3. /\ step'[r][i].status = "completed"
      /\ step'[r][i].persona = step[r][i].persona
      /\ step'[r][i].claims = step[r][i].claims
      /\ step'[r][i].message = NextSeq
      /\ step'[r][i].replyTo = step[r][i].replyTo
      /\ step'[r][i].trace = step[r][i].claims
  BY <1>1, <1>2 DEF StepRow
<1>. HIDE DEF new
<1>4. OthersKept(r, i)
  BY <1>2, SameRow DEF OthersKept
<1>5. IsLast(r, i) => Scheduled(r) \ {i} = CompletedSlots(r)
  BY DEF CompleteStep, IsLast
<1>6. run'[r] = IF IsLast(r, i)
                THEN [run[r] EXCEPT !.status = "completed", !.terminalSeq = NextSeq]
                ELSE run[r]
  BY <1>1 DEF CompleteStep, IsLast
<1>7. /\ Replies(r, i)' = Replies(r, i) \union
           {[seq |-> NextSeq, run |-> r, slot |-> i, replyTo |-> step[r][i].replyTo,
             epoch |-> step[r][i].claims]}
      /\ \A j \in Slot \ {i} : Replies(r, j)' = Replies(r, j)
  <2>1. \A j \in Slot :
           Replies(r, j)' = IF r = exec[w].run /\ j = exec[w].slot
                            THEN Replies(r, j) \union
                                   {[seq |-> NextSeq, run |-> r, slot |-> j,
                                     replyTo |-> step[r][j].replyTo, epoch |-> step[r][j].claims]}
                            ELSE Replies(r, j)
    BY ReplyWrites
  <2>2. Replies(r, i)' = Replies(r, i) \union
          {[seq |-> NextSeq, run |-> r, slot |-> i, replyTo |-> step[r][i].replyTo,
            epoch |-> step[r][i].claims]}
    BY <1>1, <2>1
  <2>3. \A j \in Slot \ {i} : Replies(r, j)' = Replies(r, j)
    BY <2>1
  <2>. QED
    BY <2>2, <2>3
<1>. QED
  BY <1>1, <1>3, <1>4, <1>5, <1>6, <1>7 DEF Speaks

LEMMA FailureMoves ==
  ASSUME TypeInv, StepsInTurn, NEW w \in Worker, ExhaustStep(w) \/ FailStep(w),
         NEW r \in Run, NEW i \in Slot, exec[w].run = r, exec[w].slot = i, Silent(r)
  PROVE  Fails(r, i)
<1>1. /\ run[r].status = "pending"
      /\ step \in [Run -> [Slot -> StepRow]]
      /\ run \in [Run -> RunRow]
  BY DEF ExhaustStep, FailStep, ClaimsExhausted, OwnsEpoch, TypeInv, TypeOK, Located
<1>2. step[r][i].status = "generating"
  <2>1. CASE FailStep(w)
    BY <2>1 DEF FailStep, OwnsEpoch
  <2>2. CASE ExhaustStep(w)
    <3>1. Unheld(r, i) /\ step[r][i].claims # 0
      BY <2>2, MaxClaimsAssumption DEF ExhaustStep, ClaimsExhausted
    <3>. QED
      BY <1>1, <3>1 DEF Unheld, StepsInTurn, InTurn
  <2>. QED
    BY <2>1, <2>2
<1>3. PICK e \in {step[r][i].claims, Exhaustion} : EndFailed(r, i, e)
  BY DEF ExhaustStep, FailStep, OwnsEpoch
<1>4. \A j \in Slot : step'[r][j] = FailedSteps(r, i, e)[j]
  BY <1>1, <1>3 DEF EndFailed
<1>5. run'[r] = [run[r] EXCEPT
        !.status = IF CompletedSlots(r) # {} THEN "partial" ELSE "failed",
        !.terminalSeq = room.lastSeq]
  BY <1>1, <1>3 DEF EndFailed
<1>6. Turns(r, i, "failed", e)
  <2>1. step'[r][i] = FailedSteps(r, i, e)[i] /\ step[r][i] \in StepRow
    BY <1>1, <1>4
  <2>. DEFINE old == step[r][i]
  <2>2. FailedSteps(r, i, e)[i] =
          CASE i = i -> [old EXCEPT !.status = "failed", !.owner = NoWorker, !.lease = 0,
                                    !.trace = e]
            [] i > i /\ old.status = "pending" -> [old EXCEPT !.status = "blocked"]
            [] OTHER -> old
    BY DEF FailedSteps
  <2>3. ~ (i > i)
    BY DEF Slot
  <2>4. step'[r][i] = [old EXCEPT !.status = "failed", !.owner = NoWorker, !.lease = 0,
                                  !.trace = e]
    <3>. HIDE DEF old
    <3>. QED
      BY <2>1, <2>2, <2>3
  <2>. QED
    BY <2>1, <2>4, Columns
<1>7. ASSUME NEW j \in Slot \ {i}
      PROVE  IF j > i /\ step[r][j].status = "pending"
             THEN Turns(r, j, "blocked", step[r][j].trace)
             ELSE Kept(r, j)
  <2>1. CASE j > i /\ step[r][j].status = "pending"
    <3>1. step'[r][j] = [step[r][j] EXCEPT !.status = "blocked"]
      BY <1>4, <2>1 DEF FailedSteps
    <3>2. step[r][j] \in StepRow
      BY <1>1
    <3>3. Turns(r, j, "blocked", step[r][j].trace)
      BY <3>1, <3>2, Columns
    <3>. QED
      BY <2>1, <3>3
  <2>2. CASE ~ (j > i /\ step[r][j].status = "pending")
    <3>1. step'[r][j] = step[r][j]
      BY <1>4, <2>2 DEF FailedSteps
    <3>. QED
      BY <2>2, <3>1, SameRow
  <2>. QED
    BY <2>1, <2>2
<1>. QED
  BY <1>1, <1>2, <1>5, <1>6, <1>7 DEF Fails

LEMMA CancelMoves ==
  ASSUME TypeInv, NEW r \in Run, CancelRun(r), Silent(r)
  PROVE  Cancels(r)
<1>1. step \in [Run -> [Slot -> StepRow]] /\ run \in [Run -> RunRow]
  BY DEF TypeInv, TypeOK
<1>2. /\ run[r].status = "pending"
      /\ run'[r] = [run[r] EXCEPT !.status = "canceled", !.terminalSeq = room.lastSeq]
  BY <1>1 DEF CancelRun
<1>3. ASSUME NEW j \in Slot
      PROVE  IF step[r][j].status \in {"pending", "generating"}
             THEN Turns(r, j, "canceled", step[r][j].trace)
             ELSE Kept(r, j)
  <2>1. step'[r][j] = IF step[r][j].status \in {"pending", "generating"}
                      THEN [step[r][j] EXCEPT !.status = "canceled", !.owner = NoWorker,
                                              !.lease = 0]
                      ELSE step[r][j]
    BY <1>1 DEF CancelRun
  <2>2. CASE step[r][j].status \in {"pending", "generating"}
    <3>1. step[r][j] \in StepRow
      BY <1>1
    <3>2. Turns(r, j, "canceled", step[r][j].trace)
      BY <2>1, <2>2, <3>1, Columns
    <3>. QED
      BY <2>2, <3>2
  <2>3. CASE step[r][j].status \notin {"pending", "generating"}
    BY <2>1, <2>3, SameRow
  <2>. QED
    BY <2>2, <2>3
<1>. QED
  BY <1>2, <1>3 DEF Cancels

\* A lease that is renewed or runs down.
LEMMA LeaseMoves ==
  ASSUME TypeInv, NEW r \in Run, Silent(r), Tick \/ \E w \in Worker : RenewLease(w)
  PROVE  Quiet(r)
<1>1. step \in [Run -> [Slot -> StepRow]] /\ run'[r] = run[r]
  BY DEF Tick, RenewLease, TypeInv, TypeOK
<1>2. ASSUME NEW i \in Slot PROVE Kept(r, i)
  <2>1. step'[r][i] = step[r][i] \/ \E l : step'[r][i] = [step[r][i] EXCEPT !.lease = l]
    <3>1. CASE Tick
      BY <1>1, <3>1 DEF Tick
    <3>2. ASSUME NEW w \in Worker, RenewLease(w)
          PROVE  step'[r][i] = step[r][i] \/ \E l : step'[r][i] = [step[r][i] EXCEPT !.lease = l]
      <4>. DEFINE q == exec[w].run
                  k == exec[w].slot
      <4>1. step' = [step EXCEPT ![q][k] = [step[q][k] EXCEPT !.lease = LeaseLen]]
            /\ q \in Run /\ k \in Slot
        BY <3>2 DEF RenewLease, TypeInv, TypeOK, Located
      <4>2. CASE q = r /\ k = i
        BY <1>1, <4>1, <4>2
      <4>3. CASE ~ (q = r /\ k = i)
        BY <1>1, <4>1, <4>3
      <4>. QED
        BY <4>2, <4>3
    <3>. QED
      BY <3>1, <3>2
  <2>2. step[r][i] \in StepRow
    BY <1>1
  <2>. QED
    BY <2>1, <2>2, Columns DEF Kept
<1>. QED
  BY <1>1, <1>2 DEF Quiet

LEMMA EvidenceMoves ==
  ASSUME TypeInv, NEW r \in Run, Silent(r), NEW w \in Worker, EndLostStep(w) \/ FailEndedRun(w)
  PROVE  Quiet(r)
<1>. DEFINE q == exec[w].run
            k == exec[w].slot
            e == exec[w].epoch
<1>1. /\ step \in [Run -> [Slot -> StepRow]] /\ run'[r] = run[r]
      /\ q \in Run /\ k \in Slot
  BY DEF EndLostStep, FailEndedRun, TypeInv, TypeOK, Located
<1>2. \/ step' = step
      \/ /\ step[q][k].status = "canceled" /\ step[q][k].claims = e
         /\ step' = [step EXCEPT ![q][k] = [step[q][k] EXCEPT !.trace = e]]
  BY <1>1 DEF EndLostStep, FailEndedRun, TerminalTrace
<1>3. ASSUME NEW i \in Slot
      PROVE  \/ Kept(r, i)
             \/ step[r][i].status = "canceled" /\ Turns(r, i, "canceled", step[r][i].claims)
  <2>1. CASE step'[r][i] = step[r][i]
    BY <2>1, SameRow
  <2>2. CASE step'[r][i] # step[r][i]
    <3>1. /\ step[r][i].status = "canceled" /\ step[r][i].claims = e
          /\ step'[r][i] = [step[r][i] EXCEPT !.trace = e]
      BY <1>1, <1>2, <2>2
    <3>2. step[r][i] \in StepRow
      BY <1>1
    <3>3. Turns(r, i, "canceled", e)
      BY <3>1, <3>2, Columns
    <3>. QED
      BY <3>1, <3>3
  <2>. QED
    BY <2>1, <2>2
<1>. QED
  BY <1>1, <1>3 DEF Quiet

\* Every step of the program is one of these to each run, unless it admits the run or
\* deletes the room.
LEMMA Moves ==
  ASSUME TypeInv, StepsInTurn, Next, ~ DeleteRoom, NEW r \in Run
  PROVE  \/ \E w \in Worker : AdmitRun(w, r)
         \/ Quiet(r)
         \/ \E w \in Worker, i \in Slot : Claims(w, r, i)
         \/ \E i \in Slot : Speaks(r, i) \/ Fails(r, i)
         \/ Cancels(r)
<1>. run \in [Run -> RunRow] /\ step \in [Run -> [Slot -> StepRow]]
  BY DEF TypeInv, TypeOK
<1>1. \A w \in Worker :
         \/ ClaimStep(w) \/ CompleteStep(w) \/ ExhaustStep(w) \/ FailStep(w) =>
           exec[w].run \in Run /\ exec[w].slot \in Slot
  BY DEF ClaimStep, CompleteStep, ExhaustStep, FailStep, TypeInv, Located
<1>2. ASSUME NEW w \in Worker, NEW q \in Run, AdmitRun(w, q), q # r
      PROVE  Quiet(r)
  <2>1. run'[r] = run[r] /\ step'[r] = step[r]
    BY <1>2 DEF AdmitRun
  <2>. QED
    BY <1>2, <2>1, AdmissionIsSilent, QuietRun
<1>3. ASSUME NEW w \in Worker, CompleteStep(w)
      PROVE  Quiet(r) \/ \E i \in Slot : Speaks(r, i)
  <2>1. CASE exec[w].run = r
    BY <1>1, <1>3, <2>1, CommitMoves
  <2>2. CASE exec[w].run # r
    <3>1. run'[r] = run[r] /\ step'[r] = step[r]
      BY <1>3, <2>2 DEF CompleteStep
    <3>2. Silent(r)
      BY <1>3, <2>2, ReplyWrites DEF Silent
    <3>. QED
      BY <3>1, <3>2, QuietRun
  <2>. QED
    BY <2>1, <2>2
<1>4. ASSUME ~ \E w \in Worker : CompleteStep(w)
      PROVE  Silent(r)
  BY <1>4, MessageWrites, AdmissionIsSilent, UnchangedIsSilent
<1>5. ASSUME NEW w \in Worker, ClaimStep(w), Silent(r)
      PROVE  Quiet(r) \/ \E i \in Slot : Claims(w, r, i)
  <2>1. CASE exec[w].run = r
    BY <1>1, <1>5, <2>1, ClaimMoves
  <2>2. CASE exec[w].run # r
    <3>1. run'[r] = run[r] /\ step'[r] = step[r]
      BY <1>5, <2>2 DEF ClaimStep
    <3>. QED
      BY <1>5, <3>1, QuietRun
  <2>. QED
    BY <2>1, <2>2
<1>6. ASSUME NEW w \in Worker, ExhaustStep(w) \/ FailStep(w), Silent(r)
      PROVE  Quiet(r) \/ \E i \in Slot : Fails(r, i)
  <2>1. CASE exec[w].run = r
    BY <1>1, <1>6, <2>1, FailureMoves
  <2>2. CASE exec[w].run # r
    <3>1. run'[r] = run[r] /\ step'[r] = step[r]
      BY <1>6, <2>2 DEF ExhaustStep, FailStep, EndFailed
    <3>. QED
      BY <1>6, <3>1, QuietRun
  <2>. QED
    BY <2>1, <2>2
<1>7. ASSUME NEW q \in Run, CancelRun(q), Silent(r)
      PROVE  Quiet(r) \/ Cancels(r)
  <2>1. CASE q = r
    BY <1>7, <2>1, CancelMoves
  <2>2. CASE q # r
    <3>1. run'[r] = run[r] /\ step'[r] = step[r]
      BY <1>7, <2>2 DEF CancelRun
    <3>. QED
      BY <1>7, <3>1, QuietRun
  <2>. QED
    BY <2>1, <2>2
<1>8. ASSUME UNCHANGED <<run, step>>, Silent(r)
      PROVE  Quiet(r)
  BY <1>8, QuietRun
<1>. QED
  BY <1>2, <1>3, <1>4, <1>5, <1>6, <1>7, <1>8, LeaseMoves, EvidenceMoves, StepWrites

-----------------------------------------------------------------------------
(* The steps and the transcript, run by run.                               *)

\* What the speaker of slot i answers: the run's anchor, or the reply before it.
Answered(r, i) == IF i = 1 THEN run[r].anchor ELSE step[r][i - 1].message

\* StepMatchesTranscript and RunMatchesSteps of one run.
Told(r) ==
    \A i \in Slot :
       IF step[r][i].status = "completed"
       THEN /\ Replies(r, i) =
                   {[seq |-> step[r][i].message, run |-> r, slot |-> i,
                     replyTo |-> step[r][i].replyTo, epoch |-> step[r][i].claims]}
            /\ step[r][i].replyTo = Answered(r, i)
       ELSE Replies(r, i) = {}

\* All slots before i have spoken.
IsNext(r, i) == \A j \in Scheduled(r) : j < i => step[r][j].status = "completed"

Settled(r) ==
    \A i \in Scheduled(r) :
       /\ step[r][i].trace \in {0, step[r][i].claims, Exhaustion}
       /\ run[r].status # "absent"
       /\ run[r].status = "pending" =>
            /\ step[r][i].status \in {"completed", "generating", "pending"}
            /\ step[r][i].status # "pending" => IsNext(r, i)
       /\ run[r].status = "completed" => step[r][i].status = "completed"
       /\ run[r].status \in {"partial", "failed"} =>
            /\ step[r][i].status \in {"completed", "failed", "blocked"}
            /\ (step[r][i].status # "blocked") = IsNext(r, i)
            /\ RemainingSlots(r) # {}
            /\ (run[r].status = "partial") = (CompletedSlots(r) # {})
       /\ run[r].status = "canceled" =>
            /\ step[r][i].status \in {"completed", "canceled"}
            /\ step[r][i].status = "completed" => IsNext(r, i)

LEMMA ToldIsMatch == StepMatchesTranscript <=> \A r \in Run : Told(r)
BY DEF StepMatchesTranscript, Told, Answered

LEMMA SettledIsMatch ==
  ASSUME TypeInv
  PROVE  RunMatchesSteps <=> \A r \in Run : Settled(r)
<1>1. ASSUME NEW r \in Run
      PROVE  run[r].status \in {"absent", "pending", "completed", "partial", "failed", "canceled"}
  BY DEF TypeInv, TypeOK, RunRow, RunStatus, Terminal
<1>2. ASSUME RunMatchesSteps, NEW r \in Run
      PROVE  Settled(r)
  BY <1>1, <1>2 DEF RunMatchesSteps, Settled, IsNext
<1>3. ASSUME \A r \in Run : Settled(r)
      PROVE  RunMatchesSteps
  <2> SUFFICES ASSUME NEW r \in Run, NEW i \in Scheduled(r)
               PROVE  LET st    == step[r][i].status
                          first == \A j \in Scheduled(r) : j < i => step[r][j].status = "completed"
                      IN  /\ step[r][i].trace \in {0, step[r][i].claims, Exhaustion}
                          /\ CASE run[r].status = "pending" ->
                                    st \in {"completed", "generating", "pending"}
                                    /\ (st # "pending" => first)
                               [] run[r].status = "completed" -> st = "completed"
                               [] run[r].status \in {"partial", "failed"} ->
                                    /\ st \in {"completed", "failed", "blocked"}
                                    /\ (st # "blocked") = first
                                    /\ RemainingSlots(r) # {}
                                    /\ (run[r].status = "partial") = (CompletedSlots(r) # {})
                               [] run[r].status = "canceled" ->
                                    st \in {"completed", "canceled"}
                                    /\ (st = "completed" => first)
                               [] OTHER -> FALSE
    BY DEF RunMatchesSteps
  <2>1. Settled(r)
    BY <1>3
  <2>2. CASE run[r].status = "pending"
    BY <2>1, <2>2 DEF Settled, IsNext
  <2>3. CASE run[r].status = "completed"
    BY <2>1, <2>3 DEF Settled, IsNext
  <2>4. CASE run[r].status \in {"partial", "failed"}
    BY <2>1, <2>4 DEF Settled, IsNext
  <2>5. CASE run[r].status = "canceled"
    BY <2>1, <2>5 DEF Settled, IsNext
  <2>6. run[r].status # "absent"
    BY <2>1 DEF Settled
  <2>. QED
    BY <1>1, <2>2, <2>3, <2>4, <2>5, <2>6
<1>. QED
  BY <1>2, <1>3

\* A step that has not ended has no evidence; it answers what it should as soon as that is
\* known; the scheduled slots are the first ones.
Conforms(r) ==
    /\ \A i \in Slot :
         /\ step[r][i].status \in {"pending", "generating"} => step[r][i].trace = 0
         /\ step[r][i].status = "pending" /\ i = 1 => step[r][i].replyTo = Answered(r, i)
         /\ step[r][i].status = "generating" => step[r][i].replyTo = Answered(r, i)
    /\ \A i, j \in Slot : j < i /\ step[r][i].status # "absent" => step[r][j].status # "absent"

Executing == {"load", "claim", "hold", "commit", "fail", "lost", "unbound"}

\* A worker executes an admitted run, and the reply it read before a claim is still that of
\* the step before.  After a deletion there is no run left.
ClaimsKnow ==
    /\ room.status = "deleted" => \A r \in Run : run[r].status = "absent"
    /\ \A w \in Worker : room.status # "deleted" =>
         /\ pc[w] \in Executing => run[exec[w].run].status # "absent"
         /\ pc[w] = "claim" /\ exec[w].slot > 1 =>
              /\ step[exec[w].run][exec[w].slot - 1].status = "completed"
              /\ exec[w].anchor = step[exec[w].run][exec[w].slot - 1].message

Agreement ==
    /\ \A r \in Run : Told(r) /\ Settled(r) /\ Conforms(r)
    /\ ClaimsKnow

\* What an admission makes of its run.
LEMMA AdmissionOfRun ==
  ASSUME TypeInv, NEW w \in Worker, NEW r \in Run, AdmitRun(w, r)
  PROVE  /\ run[r].status = "absent" /\ run'[r].status = "pending"
         /\ run'[r].terminalSeq = 0
         /\ \A i \in Slot : /\ step'[r][i].status \in {"pending", "absent"}
                            /\ step'[r][i].trace = 0 /\ step'[r][i].claims = 0
                            /\ i = 1 /\ step'[r][i].status = "pending" =>
                                 step'[r][i].replyTo = run'[r].anchor
                            /\ i \in DOMAIN draft[w].schedule =>
                                 /\ step'[r][i].status = "pending"
                                 /\ step'[r][i].persona = draft[w].schedule[i]
                            /\ i \notin DOMAIN draft[w].schedule => step'[r][i].status = "absent"
         /\ \E n \in Slot : DOMAIN draft[w].schedule = 1..n
<1>. DEFINE d == draft[w]
            row == AdmittedRow(r, d)
<1>1. d \in RunDraft /\ run \in [Run -> RunRow] /\ step \in [Run -> [Slot -> StepRow]]
  BY DEF AdmitRun, TypeInv, TypeOK, Located
<1>2. /\ run'[r] = row
      /\ step'[r] = AdmittedSteps(d, row.anchor)
      /\ run[r].status = "absent"
  BY <1>1 DEF AdmitRun
<1>3. row.status = "pending" /\ row.terminalSeq = 0
  BY DEF AdmittedRow
<1>. HIDE DEF d, row
<1>4. ASSUME NEW i \in Slot
      PROVE  /\ i \in DOMAIN d.schedule =>
                  /\ step'[r][i].status = "pending" /\ step'[r][i].persona = d.schedule[i]
                  /\ step'[r][i].trace = 0 /\ step'[r][i].claims = 0
                  /\ i = 1 => step'[r][i].replyTo = row.anchor
             /\ i \notin DOMAIN d.schedule =>
                  /\ step'[r][i].status = "absent"
                  /\ step'[r][i].trace = 0 /\ step'[r][i].claims = 0
  <2>1. CASE i \in DOMAIN d.schedule
    <3>1. step'[r][i] = [NoStep EXCEPT !.status = "pending", !.persona = d.schedule[i],
                                       !.replyTo = IF i = 1 THEN row.anchor ELSE 0]
      BY <1>2, <2>1 DEF AdmittedSteps
    <3>. QED
      BY <2>1, <3>1 DEF NoStep
  <2>2. CASE i \notin DOMAIN d.schedule
    <3>1. step'[r][i] = NoStep
      BY <1>2, <2>2 DEF AdmittedSteps
    <3>. QED
      BY <2>2, <3>1 DEF NoStep
  <2>. QED
    BY <2>1, <2>2
<1>5. \E n \in Slot : DOMAIN d.schedule = 1..n
  BY <1>1 DEF RunDraft, Schedule
<1>. QED
  BY <1>2, <1>3, <1>4, <1>5 DEF d

LEMMA DeletionOfRuns ==
  ASSUME DeleteRoom, NEW r \in Run
  PROVE  /\ run'[r] = NoRow /\ run'[r].status = "absent"
         /\ \A i \in Slot : step'[r][i].status = "absent" /\ Replies(r, i)' = {}
BY DEF DeleteRoom, NoRow, NoStep, Replies

\* The same of one slot of an admitted run.
LEMMA SlotMoves ==
  ASSUME TypeInv, StepsInTurn, Next, ~ DeleteRoom, NEW r \in Run, NEW i \in Slot,
         \A w \in Worker : ~ AdmitRun(w, r)
  PROVE  \/ Speaks(r, i)
         \/ /\ Replies(r, i)' = Replies(r, i)
            /\ \/ Kept(r, i)
               \/ step[r][i].status = "canceled" /\ Turns(r, i, "canceled", step[r][i].claims)
               \/ \E w \in Worker : Claims(w, r, i)
               \/ Fails(r, i)
               \/ /\ step[r][i].status = "pending"
                  /\ Turns(r, i, "blocked", step[r][i].trace)
               \/ /\ step[r][i].status \in {"pending", "generating"}
                  /\ Turns(r, i, "canceled", step[r][i].trace)
<1>1. CASE Quiet(r)
  BY <1>1 DEF Quiet, Silent
<1>2. ASSUME NEW w \in Worker, NEW k \in Slot, Claims(w, r, k)
      PROVE  Replies(r, i)' = Replies(r, i) /\ (k = i \/ Kept(r, i))
  BY <1>2 DEF Claims, Silent, OthersKept
<1>3. ASSUME NEW k \in Slot, Speaks(r, k)
      PROVE  k = i \/ (Replies(r, i)' = Replies(r, i) /\ Kept(r, i))
  BY <1>3 DEF Speaks, OthersKept
<1>4. ASSUME NEW k \in Slot, Fails(r, k)
      PROVE  /\ Replies(r, i)' = Replies(r, i)
             /\ \/ k = i
                \/ Kept(r, i)
                \/ /\ step[r][i].status = "pending"
                   /\ Turns(r, i, "blocked", step[r][i].trace)
  BY <1>4 DEF Fails, Silent
<1>5. CASE Cancels(r)
  BY <1>5 DEF Cancels, Silent
<1>. QED
  BY <1>1, <1>2, <1>3, <1>4, <1>5, Moves

\* Of a step that moves, what a reply is compared with stands: the message of a step that
\* has spoken, and the run's anchor.
LEMMA SpokenStays ==
  ASSUME TypeInv, StepsInTurn, Next, ~ DeleteRoom, NEW r \in Run, NEW i \in Slot,
         run[r].status # "absent", step[r][i].status = "completed"
  PROVE  /\ step'[r][i].status = "completed"
         /\ step'[r][i].message = step[r][i].message
         /\ step'[r][i].persona = step[r][i].persona
         /\ step'[r][i].replyTo = step[r][i].replyTo
         /\ step'[r][i].claims = step[r][i].claims
         /\ Replies(r, i)' = Replies(r, i)
<1>1. \A w \in Worker : ~ AdmitRun(w, r)
  BY DEF AdmitRun
<1>2. ~ Speaks(r, i) /\ ~ Fails(r, i) /\ \A w \in Worker : ~ Claims(w, r, i)
  BY DEF Speaks, Fails, Claims, CanClaimStep, Unheld
<1>3. Kept(r, i) /\ Replies(r, i)' = Replies(r, i)
  BY <1>1, <1>2, SlotMoves
<1>. QED
  BY <1>3 DEF Kept, Turns

LEMMA AnchorStays ==
  ASSUME TypeInv, StepsInTurn, Next, ~ DeleteRoom, NEW r \in Run, run[r].status # "absent"
  PROVE  /\ run'[r].status # "absent"
         /\ run'[r].anchor = run[r].anchor
         /\ run'[r].parent = run[r].parent
         /\ run'[r].root = run[r].root
         /\ run'[r].expectedRevision = run[r].expectedRevision
         /\ run'[r].trigger = run[r].trigger
<1>1. \A w \in Worker : ~ AdmitRun(w, r)
  BY DEF AdmitRun
<1>2. run[r] \in RunRow
  BY DEF TypeInv, TypeOK
<1>3. CASE run'[r] = run[r]
  BY <1>3
<1>4. ASSUME NEW s \in Terminal, NEW n, run'[r] = [run[r] EXCEPT !.status = s, !.terminalSeq = n]
      PROVE  /\ run'[r].status # "absent"
             /\ run'[r].anchor = run[r].anchor
             /\ run'[r].parent = run[r].parent
             /\ run'[r].root = run[r].root
             /\ run'[r].expectedRevision = run[r].expectedRevision
             /\ run'[r].trigger = run[r].trigger
  BY <1>2, <1>4 DEF RunRow, Terminal
<1>5. \/ run'[r] = run[r]
      \/ \E s \in Terminal : \E n :
            run'[r] = [run[r] EXCEPT !.status = s, !.terminalSeq = n]
  BY <1>1, Moves DEF Quiet, Claims, Speaks, Fails, Cancels, Terminal
<1>. QED
  BY <1>3, <1>4, <1>5

\* The step before one that speaks or has spoken keeps its message.
LEMMA AnswerStays ==
  ASSUME TypeInv, StepsInTurn, Next, ~ DeleteRoom, NEW r \in Run, NEW i \in Slot,
         run[r].status # "absent",
         i = 1 \/ step[r][i].status \in {"generating", "completed"}
  PROVE  Answered(r, i)' = Answered(r, i)
<1>1. CASE i = 1
  BY <1>1, AnchorStays DEF Answered
<1>2. CASE i # 1 /\ step[r][i].status \in {"generating", "completed"}
  <2>1. i - 1 \in Slot /\ i - 1 < i
    BY <1>2, MaxStepsAssumption DEF Slot
  <2>2. step[r][i - 1].status = "completed"
    BY <1>2, <2>1 DEF StepsInTurn, InTurn
  <2>. QED
    BY <1>2, <2>1, <2>2, SpokenStays DEF Answered
<1>. QED
  BY <1>1, <1>2

LEMMA ToldStep ==
  ASSUME TypeInv, StepsInTurn, Agreement, Next, NEW r \in Run
  PROVE  Told(r)'
<1>. USE DEF Answered
<1>0. /\ Told(r) /\ Settled(r) /\ Conforms(r) /\ InTurn(r)
      /\ \A i \in Slot : step[r][i] \in StepRow
  BY DEF Agreement, StepsInTurn, TypeInv, TypeOK
<1>1. CASE DeleteRoom
  BY <1>1, DeletionOfRuns DEF Told
<1>2. ASSUME NEW w \in Worker, AdmitRun(w, r)
      PROVE  Told(r)'
  <2>1. Silent(r)
    BY <1>2, AdmissionIsSilent
  <2>2. \A i \in Slot : step[r][i].status = "absent" /\ step'[r][i].status # "completed"
    BY <1>0, <1>2, AdmissionOfRun DEF Settled, Scheduled
  <2>. QED
    BY <1>0, <2>1, <2>2 DEF Told, Silent
<1>3. ASSUME ~ DeleteRoom, \A w \in Worker : ~ AdmitRun(w, r), NEW i \in Slot
      PROVE  IF step'[r][i].status = "completed"
             THEN /\ Replies(r, i)' =
                         {[seq |-> step'[r][i].message, run |-> r, slot |-> i,
                           replyTo |-> step'[r][i].replyTo, epoch |-> step'[r][i].claims]}
                  /\ step'[r][i].replyTo = Answered(r, i)'
             ELSE Replies(r, i)' = {}
  <2>1. CASE step[r][i].status = "completed"
    <3>1. run[r].status # "absent" /\ i \in Scheduled(r)
      BY <1>0, <2>1 DEF Settled, Scheduled
    <3>2. Answered(r, i)' = Answered(r, i)
      BY <1>3, <2>1, <3>1, AnswerStays
    <3>3. /\ Replies(r, i)' = Replies(r, i)
          /\ step'[r][i].status = "completed"
          /\ step'[r][i].message = step[r][i].message
          /\ step'[r][i].replyTo = step[r][i].replyTo
          /\ step'[r][i].claims = step[r][i].claims
      BY <1>3, <2>1, <3>1, SpokenStays
    <3>. QED
      BY <1>0, <2>1, <3>2, <3>3 DEF Told
  <2>2. CASE step[r][i].status # "completed" /\ ~ Speaks(r, i)
    <3>1. Replies(r, i)' = Replies(r, i) /\ step'[r][i].status # "completed"
      BY <1>3, <2>2, SlotMoves DEF Kept, Turns, Claims, Fails
    <3>. QED
      BY <1>0, <2>2, <3>1 DEF Told
  <2>3. CASE step[r][i].status # "completed" /\ Speaks(r, i)
    <3>1. run[r].status # "absent" /\ step[r][i].status = "generating"
      BY <2>3 DEF Speaks
    <3>2. Answered(r, i)' = Answered(r, i)
      BY <1>3, <3>1, AnswerStays
    <3>3. Replies(r, i) = {} /\ step[r][i].replyTo = Answered(r, i)
      BY <1>0, <3>1 DEF Told, Conforms
    <3>. QED
      BY <2>3, <3>2, <3>3 DEF Speaks
  <2>. QED
    BY <2>1, <2>2, <2>3
<1>. QED
  BY <1>1, <1>2, <1>3 DEF Told

LEMMA ConformsStep ==
  ASSUME TypeInv, StepsInTurn, Agreement, Next, NEW r \in Run
  PROVE  Conforms(r)'
<1>0. /\ Settled(r) /\ Conforms(r) /\ InTurn(r) /\ ClaimsKnow
  BY DEF Agreement, StepsInTurn
<1>1. CASE DeleteRoom
  BY <1>1, DeletionOfRuns DEF Conforms
<1>2. ASSUME NEW w \in Worker, AdmitRun(w, r)
      PROVE  Conforms(r)'
  <2>1. \A i \in Slot : /\ step'[r][i].status \in {"pending", "absent"}
                        /\ step'[r][i].trace = 0
                        /\ i = 1 /\ step'[r][i].status = "pending" =>
                             step'[r][i].replyTo = run'[r].anchor
    BY <1>2, AdmissionOfRun
  <2>2. ASSUME NEW i \in Slot, NEW j \in Slot, j < i, step'[r][i].status # "absent"
        PROVE  step'[r][j].status # "absent"
    <3>1. i \in DOMAIN draft[w].schedule
      BY <1>2, <2>2, AdmissionOfRun
    <3>2. j \in DOMAIN draft[w].schedule
      <4>1. PICK n \in Slot : DOMAIN draft[w].schedule = 1..n
        BY <1>2, AdmissionOfRun
      <4>. QED
        BY <2>2, <3>1, <4>1 DEF Slot
    <3>3. step'[r][j].status = "pending"
      BY <1>2, <3>2, AdmissionOfRun
    <3>. QED
      BY <3>3
  <2>. QED
    BY <2>1, <2>2 DEF Conforms, Answered
<1>3. ASSUME ~ DeleteRoom, \A w \in Worker : ~ AdmitRun(w, r)
      PROVE  Conforms(r)'
  <2>1. ASSUME NEW i \in Slot
        PROVE  /\ step'[r][i].status \in {"pending", "generating"} => step'[r][i].trace = 0
               /\ (step'[r][i].status = "absent") = (step[r][i].status = "absent")
    <3>1. CASE Speaks(r, i)
      BY <3>1 DEF Speaks
    <3>2. ASSUME NEW w \in Worker, Claims(w, r, i)
          PROVE  /\ step'[r][i].trace = 0
                 /\ step'[r][i].status # "absent" /\ step[r][i].status # "absent"
      BY <1>0, <3>2 DEF Claims, CanClaimStep, Unheld, Conforms
    <3>3. CASE Fails(r, i)
      BY <3>3 DEF Fails, Turns
    <3>4. CASE Kept(r, i)
      BY <1>0, <3>4 DEF Conforms, Kept, Turns
    <3>. QED
      BY <1>3, <3>1, <3>2, <3>3, <3>4, SlotMoves DEF Turns
  <2>2. ASSUME NEW i \in Slot, i = 1, step'[r][i].status = "pending"
        PROVE  step'[r][i].replyTo = Answered(r, i)'
    <3>1. Kept(r, i) /\ step[r][i].status = "pending"
      BY <1>3, <2>2, SlotMoves DEF Kept, Turns, Claims, Speaks, Fails
    <3>2. run[r].status # "absent"
      BY <1>0, <3>1 DEF Settled, Scheduled
    <3>3. Answered(r, i)' = Answered(r, i)
      BY <1>3, <2>2, <3>2, AnswerStays
    <3>. QED
      BY <1>0, <2>2, <3>1, <3>3 DEF Conforms, Kept, Turns
  <2>3. ASSUME NEW i \in Slot, step'[r][i].status = "generating"
        PROVE  step'[r][i].replyTo = Answered(r, i)'
    <3>1. CASE Kept(r, i)
      <4>1. step[r][i].status = "generating" /\ step'[r][i].replyTo = step[r][i].replyTo
        BY <2>3, <3>1 DEF Kept, Turns
      <4>2. run[r].status # "absent"
        BY <1>0, <4>1 DEF InTurn
      <4>3. Answered(r, i)' = Answered(r, i)
        BY <1>3, <4>1, <4>2, AnswerStays
      <4>. QED
        BY <1>0, <4>1, <4>3 DEF Conforms
    <3>2. ASSUME NEW w \in Worker, Claims(w, r, i)
          PROVE  step'[r][i].replyTo = Answered(r, i)'
      <4>1. run[r].status = "pending" /\ room.status # "deleted" /\ Unheld(r, i)
        BY <1>0, <3>2 DEF Claims, CanClaimStep, ClaimsKnow
      <4>2. CASE i = 1
        <5>1. step[r][i].replyTo = Answered(r, i)
          BY <1>0, <4>1, <4>2 DEF Unheld, Conforms
        <5>2. step'[r][i].replyTo = step[r][i].replyTo
          BY <3>2, <4>2 DEF Claims
        <5>3. Answered(r, i)' = Answered(r, i)
          BY <1>3, <4>1, <4>2, AnswerStays
        <5>. QED
          BY <5>1, <5>2, <5>3
      <4>3. CASE i # 1
        <5>1. i > 1 /\ i - 1 \in Slot
          BY <4>3, MaxStepsAssumption DEF Slot
        <5>2. step[r][i - 1].status = "completed" /\ exec[w].anchor = step[r][i - 1].message
          BY <1>0, <3>2, <4>1, <5>1 DEF ClaimsKnow, Claims
        <5>3. step'[r][i - 1].message = step[r][i - 1].message
          BY <1>3, <4>1, <5>1, <5>2, SpokenStays
        <5>. QED
          BY <3>2, <4>3, <5>1, <5>2, <5>3 DEF Claims, Answered
      <4>. QED
        BY <4>2, <4>3
    <3>. QED
      BY <1>3, <2>3, <3>1, <3>2, SlotMoves DEF Turns, Speaks, Fails
  <2>4. ASSUME NEW i \in Slot, NEW j \in Slot, j < i, step'[r][i].status # "absent"
        PROVE  step'[r][j].status # "absent"
    BY <1>0, <2>1, <2>4 DEF Conforms
  <2>. QED
    BY <2>1, <2>2, <2>3, <2>4 DEF Conforms
<1>. QED
  BY <1>1, <1>2, <1>3

LEMMA SettledStep ==
  ASSUME TypeInv, StepsInTurn, Agreement, Next, NEW r \in Run
  PROVE  Settled(r)'
<1>0. /\ Settled(r) /\ Conforms(r) /\ InTurn(r) /\ InTurn(r)'
      /\ run[r] \in RunRow
      /\ \A i \in Slot : step[r][i] \in StepRow
  BY StepsInTurnStep DEF Agreement, StepsInTurn, TypeInv, TypeOK
<1>1. CASE DeleteRoom
  BY <1>1, DeletionOfRuns DEF Settled, Scheduled
<1>2. ASSUME NEW w \in Worker, AdmitRun(w, r)
      PROVE  Settled(r)'
  <2>1. run'[r].status = "pending"
    BY <1>2, AdmissionOfRun
  <2>2. \A i \in Scheduled(r)' : step'[r][i].status = "pending" /\ step'[r][i].trace = 0
    BY <1>2, AdmissionOfRun DEF Scheduled
  <2>. QED
    BY <2>1, <2>2 DEF Settled
<1>3. CASE Quiet(r)
  <2>1. run'[r] = run[r]
    BY <1>3 DEF Quiet
  <2>2. \A i \in Slot : /\ step'[r][i].status = step[r][i].status
                        /\ step'[r][i].claims = step[r][i].claims
                        /\ step'[r][i].trace \in {step[r][i].trace, step[r][i].claims}
    BY <1>3 DEF Quiet, Kept, Turns
  <2>3. /\ Scheduled(r)' = Scheduled(r)
        /\ CompletedSlots(r)' = CompletedSlots(r)
        /\ RemainingSlots(r)' = RemainingSlots(r)
    BY <2>2 DEF Scheduled, CompletedSlots, RemainingSlots
  <2>4. \A i \in Scheduled(r) : IsNext(r, i)' = IsNext(r, i) /\ i \in Slot
    BY <2>2, <2>3 DEF IsNext, Scheduled
  <2>5. \A i \in Scheduled(r) : step'[r][i].trace \in {0, step'[r][i].claims, Exhaustion}
    BY <1>0, <2>2, <2>4 DEF Settled
  <2>. QED
    BY <1>0, <2>1, <2>2, <2>3, <2>4, <2>5 DEF Settled
<1>4. ASSUME NEW w \in Worker, NEW i \in Slot, Claims(w, r, i)
      PROVE  Settled(r)'
  <2>1. run'[r] = run[r] /\ run[r].status = "pending"
    BY <1>4 DEF Claims, CanClaimStep
  <2>2. /\ step'[r][i].status = "generating" /\ step'[r][i].trace = 0
        /\ step[r][i].status \in {"pending", "generating"}
    BY <1>0, <1>4 DEF Claims, CanClaimStep, Unheld, Conforms
  <2>3. \A j \in Slot \ {i} : Kept(r, j)
    BY <1>4 DEF Claims, OthersKept
  <2>4. ASSUME NEW j \in Scheduled(r)'
        PROVE  /\ step'[r][j].trace \in {0, step'[r][j].claims, Exhaustion}
               /\ step'[r][j].status \in {"completed", "generating", "pending"}
    BY <1>0, <2>1, <2>2, <2>3 DEF Settled, Scheduled, Kept, Turns
  <2>5. ASSUME NEW j \in Scheduled(r)', step'[r][j].status # "pending"
        PROVE  IsNext(r, j)'
    BY <1>0, <2>4, <2>5 DEF InTurn, IsNext, Scheduled
  <2>. QED
    BY <2>1, <2>4, <2>5 DEF Settled
<1>5. ASSUME NEW i \in Slot, Speaks(r, i)
      PROVE  Settled(r)'
  <2>1. run[r].status = "pending" /\ i \in Scheduled(r)
    BY <1>5 DEF Speaks, Scheduled
  <2>2. \A j \in Slot \ {i} : Kept(r, j)
    BY <1>5 DEF Speaks, OthersKept
  <2>3. /\ step'[r][i].status = "completed"
        /\ step'[r][i].trace = step'[r][i].claims
    BY <1>5 DEF Speaks
  <2>4. ASSUME NEW j \in Scheduled(r)'
        PROVE  /\ step'[r][j].trace \in {0, step'[r][j].claims, Exhaustion}
               /\ step'[r][j].status \in {"completed", "generating", "pending"}
    BY <1>0, <2>1, <2>2, <2>3 DEF Settled, Scheduled, Kept, Turns
  <2>5. ASSUME NEW j \in Scheduled(r)', step'[r][j].status # "pending"
        PROVE  IsNext(r, j)'
    BY <1>0, <2>4, <2>5 DEF InTurn, IsNext, Scheduled
  <2>6. CASE ~ IsLast(r, i)
    <3>1. run'[r].status = "pending"
      BY <1>5, <2>1, <2>6 DEF Speaks
    <3>. QED
      BY <2>4, <2>5, <3>1 DEF Settled
  <2>7. CASE IsLast(r, i)
    <3>1. run'[r].status = "completed"
      BY <1>0, <1>5, <2>7 DEF Speaks, RunRow
    <3>2. Scheduled(r) \ {i} = CompletedSlots(r)
      BY <1>5, <2>7 DEF Speaks
    <3>3. \A j \in Scheduled(r)' : step'[r][j].status = "completed"
      BY <2>2, <2>3, <3>2 DEF Scheduled, CompletedSlots, Kept, Turns
    <3>. QED
      BY <2>4, <3>1, <3>3 DEF Settled
  <2>. QED
    BY <2>6, <2>7
<1>6. ASSUME NEW i \in Slot, Fails(r, i)
      PROVE  Settled(r)'
  <2>1. /\ run[r].status = "pending" /\ step[r][i].status = "generating"
        /\ i \in Scheduled(r)
    BY <1>6 DEF Fails, Scheduled
  <2>2. run'[r].status = IF CompletedSlots(r) # {} THEN "partial" ELSE "failed"
    BY <1>0, <1>6 DEF Fails, RunRow
  <2>3. /\ step'[r][i].status = "failed"
        /\ step'[r][i].trace \in {step'[r][i].claims, Exhaustion}
    BY <1>6 DEF Fails, Turns
  <2>4. ASSUME NEW j \in Slot, j < i
        PROVE  step[r][j].status = "completed" /\ Kept(r, j)
    <3>1. step[r][j].status = "completed" /\ j # i
      BY <1>0, <2>1, <2>4 DEF InTurn, Slot
    <3>. QED
      BY <1>6, <3>1 DEF Fails
  <2>5. ASSUME NEW j \in Scheduled(r), j > i
        PROVE  step[r][j].status = "pending" /\ Turns(r, j, "blocked", step[r][j].trace)
    <3>1. j \in Slot /\ j # i /\ step[r][j].status \in {"completed", "generating", "pending"}
      BY <1>0, <2>1, <2>5 DEF Settled, Scheduled, Slot
    <3>2. step[r][j].status \notin {"generating", "completed"}
      BY <1>0, <2>1, <2>5, <3>1 DEF InTurn
    <3>. QED
      BY <1>6, <2>5, <3>1, <3>2 DEF Fails
  <2>6. \A j \in Slot : j < i \/ j = i \/ j > i
    BY DEF Slot
  <2>7. \A j \in Slot : (step'[r][j].status = "absent") = (step[r][j].status = "absent")
    BY <1>6, <2>1 DEF Fails, Kept, Turns
  <2>8. Scheduled(r)' = Scheduled(r) /\ \A j \in Scheduled(r) : j \in Slot
    BY <2>7 DEF Scheduled
  <2>9. CompletedSlots(r)' = CompletedSlots(r)
    <3>1. \A j \in Slot : (step'[r][j].status = "completed") = (step[r][j].status = "completed")
      BY <1>6, <2>1 DEF Fails, Kept, Turns
    <3>. QED
      BY <3>1 DEF CompletedSlots
  <2>10. i \in RemainingSlots(r)'
    BY <2>3 DEF RemainingSlots
  <2>11. ASSUME NEW j \in Scheduled(r)
         PROVE  /\ step'[r][j].trace \in {0, step'[r][j].claims, Exhaustion}
                /\ step'[r][j].status \in {"completed", "failed", "blocked"}
                /\ (step'[r][j].status # "blocked") = (~ (j > i))
    <3>1. CASE j < i
      BY <1>0, <2>4, <2>8, <3>1 DEF Settled, Kept, Turns, Slot
    <3>2. CASE j = i
      BY <2>3, <3>2 DEF Slot
    <3>3. CASE j > i
      BY <1>0, <2>5, <3>3 DEF Settled, Turns
    <3>. QED
      BY <2>6, <2>8, <3>1, <3>2, <3>3
  <2>12. ASSUME NEW j \in Scheduled(r)
         PROVE  IsNext(r, j)' = (~ (j > i))
    <3>1. CASE j > i
      BY <2>1, <2>3, <2>8, <3>1 DEF IsNext
    <3>2. CASE ~ (j > i)
      <4>1. \A k \in Slot : k < j => k < i
        BY <2>8, <3>2 DEF Slot
      <4>2. \A k \in Slot : k < j => step'[r][k].status = "completed"
        BY <2>4, <4>1 DEF Kept, Turns
      <4>. QED
        BY <2>8, <3>2, <4>2 DEF IsNext
    <3>. QED
      BY <3>1, <3>2
  <2>. QED
    BY <2>2, <2>8, <2>9, <2>10, <2>11, <2>12 DEF Settled
<1>7. CASE Cancels(r)
  <2>1. run[r].status = "pending" /\ run'[r].status = "canceled"
    BY <1>0, <1>7 DEF Cancels, RunRow
  <2>2. \A j \in Slot : /\ (step'[r][j].status = "absent") = (step[r][j].status = "absent")
                        /\ step'[r][j].trace = step[r][j].trace
                        /\ step'[r][j].claims = step[r][j].claims
    BY <1>7 DEF Cancels, Kept, Turns
  <2>3. Scheduled(r)' = Scheduled(r)
    BY <2>2 DEF Scheduled
  <2>4. \A j \in Scheduled(r) : step'[r][j].status \in {"completed", "canceled"}
    BY <1>0, <1>7, <2>1 DEF Settled, Scheduled, Cancels, Kept, Turns
  <2>5. \A j \in Scheduled(r) : step'[r][j].trace \in {0, step'[r][j].claims, Exhaustion}
    BY <1>0, <2>2 DEF Settled, Scheduled
  <2>6. ASSUME NEW j \in Scheduled(r), step'[r][j].status = "completed"
        PROVE  IsNext(r, j)'
    BY <1>0, <2>3, <2>6 DEF InTurn, IsNext, Scheduled
  <2>. QED
    BY <2>1, <2>3, <2>4, <2>5, <2>6 DEF Settled
<1>. QED
  BY <1>1, <1>2, <1>3, <1>4, <1>5, <1>6, <1>7, Moves

-----------------------------------------------------------------------------
\* The transactions that write the room.
LEMMA RoomMoves ==
  ASSUME Next
  PROVE  \/ \E w \in Worker : CommitEdit(w) \/ CompleteStep(w) \/ \E r \in Run : AdmitRun(w, r)
         \/ DeleteRoom
         \/ room' = room
<1>1. ASSUME NEW w \in Worker,
             \/ \E s \in Schedule, t \in {"user_message", "continue"} : ReadForTurn(w, s, t)
             \/ \E q \in Run, s \in Schedule : ReadForRetry(w, q, s)
             \/ \E q \in Run : StartResume(w, q)
             \/ \E s \in {"active", "archived"}, o \in Roster : ReadForEdit(w, s, o)
             \/ RefuseAdmission(w) \/ LoadRun(w) \/ FinishRun(w) \/ DropRequest(w)
             \/ ClaimStep(w) \/ ExhaustStep(w) \/ RefuseClaim(w) \/ RenewLease(w)
             \/ LoseStep(w) \/ EndLostStep(w) \/ BeginCommit(w) \/ RefuseCommit(w)
      PROVE  room' = room
  BY <1>1 DEF ReadForTurn, ReadForRetry, StartResume, ReadForEdit, RefuseAdmission, LoadRun,
              FinishRun, DropRequest, ClaimStep, ExhaustStep, RefuseClaim, RenewLease,
              LoseStep, EndLostStep, BeginCommit, RefuseCommit
<1>2. ASSUME NEW w \in Worker,
             \/ BeginFail(w) \/ FailStep(w) \/ FailEndedRun(w) \/ RefuseFail(w)
             \/ RefuseEdit(w) \/ Crash(w)
      PROVE  room' = room
  BY <1>2 DEF BeginFail, FailStep, FailEndedRun, RefuseFail, RefuseEdit, Crash
<1>3. CASE Tick \/ \E q \in Run : CancelRun(q)
  BY <1>3 DEF Tick, CancelRun
<1>. QED
  BY <1>1, <1>2, <1>3 DEF Next

\* Only deletion makes a room deleted.
LEMMA RoomIsDeletedOnce ==
  ASSUME TypeInv, Next, room'.status = "deleted"
  PROVE  DeleteRoom \/ room.status = "deleted"
<1>. room \in Room
  BY DEF TypeInv, TypeOK
<1>1. ASSUME NEW w \in Worker, CommitEdit(w)
      PROVE  room'.status # "deleted"
  <2>1. draft[w] \in RoomDraft
    BY <1>1 DEF CommitEdit, TypeInv, Located
  <2>2. room'.status = draft[w].status
    BY <1>1 DEF CommitEdit, Room
  <2>. QED
    BY <2>1, <2>2 DEF RoomDraft
<1>2. ASSUME NEW w \in Worker, CompleteStep(w) \/ \E r \in Run : AdmitRun(w, r)
      PROVE  room'.status = room.status
  BY <1>2 DEF CompleteStep, AdmitRun, Room
<1>. QED
  BY <1>1, <1>2, RoomMoves

\* How a worker comes to execute a run, and to claim a step of it.
LEMMA Executions ==
  ASSUME TypeInv, Next, NEW w \in Worker, pc'[w] \in Executing
  PROVE  \/ /\ pc[w] \in Executing /\ exec'[w].run = exec[w].run
            /\ pc'[w] = "claim" => (pc[w] = "claim" /\ exec'[w] = exec[w]) \/ LoadRun(w)
         \/ \E r \in Run : /\ AdmitRun(w, r) \/ StartResume(w, r)
                           /\ exec'[w].run = r /\ pc'[w] = "load"
<1>. USE DEF Executing
<1>0. pc \in [Worker -> Pc] /\ exec \in [Worker -> Exec] /\ exec[w] \in Exec
  BY DEF TypeInv, TypeOK
<1>1. ASSUME NEW v \in Worker,
             \/ \E s \in Schedule, t \in {"user_message", "continue"} : ReadForTurn(v, s, t)
             \/ \E q \in Run, s \in Schedule : ReadForRetry(v, q, s)
             \/ \E s \in {"active", "archived"}, o \in Roster : ReadForEdit(v, s, o)
      PROVE  pc[w] \in Executing /\ pc'[w] = pc[w] /\ exec' = exec
  BY <1>0, <1>1 DEF ReadForTurn, ReadForRetry, ReadForEdit
<1>2. ASSUME NEW v \in Worker, NEW r \in Run, AdmitRun(v, r) \/ StartResume(v, r)
      PROVE  \/ pc[w] \in Executing /\ pc'[w] = pc[w] /\ exec'[w] = exec[w]
             \/ v = w /\ exec'[w].run = r /\ pc'[w] = "load"
  BY <1>0, <1>2, FreshExecTyped DEF AdmitRun, StartResume
<1>3. ASSUME NEW v \in Worker, pc' = [pc EXCEPT ![v] = "idle"],
             exec' = [exec EXCEPT ![v] = NoExec]
      PROVE  pc[w] \in Executing /\ pc'[w] = pc[w] /\ exec'[w] = exec[w]
  BY <1>0, <1>3
<1>4. ASSUME NEW v \in Worker,
             \/ RefuseAdmission(v) \/ DropRequest(v) \/ ExhaustStep(v) \/ RefuseClaim(v)
             \/ EndLostStep(v) \/ RefuseCommit(v) \/ FailStep(v) \/ FailEndedRun(v)
             \/ RefuseFail(v) \/ CommitEdit(v) \/ RefuseEdit(v) \/ Crash(v)
      PROVE  pc[w] \in Executing /\ pc'[w] = pc[w] /\ exec'[w] = exec[w]
  BY <1>3, <1>4 DEF RefuseAdmission, DropRequest, ExhaustStep, RefuseClaim, EndLostStep,
                    RefuseCommit, FailStep, FailEndedRun, RefuseFail, CommitEdit, RefuseEdit,
                    Crash, Release
<1>5. ASSUME NEW v \in Worker, FinishRun(v)
      PROVE  pc[w] \in Executing /\ exec'[w] = exec[w] /\ (pc'[w] = "claim" => pc[w] = "claim")
  BY <1>0, <1>3, <1>5 DEF FinishRun, Release
<1>6. ASSUME NEW v \in Worker, ClaimStep(v) \/ RenewLease(v) \/ LoseStep(v)
      PROVE  pc[w] \in Executing /\ exec' = exec /\ (pc'[w] = "claim" => pc[w] = "claim")
  BY <1>0, <1>6 DEF ClaimStep, RenewLease, LoseStep
<1>7. ASSUME NEW v \in Worker, LoadRun(v)
      PROVE  /\ pc[w] \in Executing /\ exec'[w].run = exec[w].run
             /\ v # w => pc'[w] = pc[w] /\ exec'[w] = exec[w]
  <2>1. PICK a, b, c :
          exec' = [exec EXCEPT ![v] = [exec[v] EXCEPT !.slot = a, !.epoch = b, !.anchor = c]]
    <3>1. PICK next, last :
            exec' = [exec EXCEPT ![v].slot = next,
                                 ![v].epoch = step[exec[v].run][next].claims + 1,
                                 ![v].anchor = ReplyAnchor(exec[v].run, last)]
      BY <1>7 DEF LoadRun
    <3>2. exec' = [exec EXCEPT ![v] =
                     [exec[v] EXCEPT !.slot = next,
                                     !.epoch = step[exec[v].run][next].claims + 1,
                                     !.anchor = ReplyAnchor(exec[v].run, last)]]
      BY <1>0, <3>1
    <3>. QED
      BY <3>2
  <2>. QED
    BY <1>0, <1>7, <2>1 DEF LoadRun, Exec
<1>8. ASSUME NEW v \in Worker, BeginCommit(v) \/ BeginFail(v)
      PROVE  /\ pc[w] \in Executing /\ exec'[w].run = exec[w].run
             /\ v # w => pc'[w] = pc[w] /\ exec'[w] = exec[w]
             /\ v = w => pc'[w] # "claim"
  <2>1. PICK b : exec' = [exec EXCEPT ![v] = [exec[v] EXCEPT !.live = b]]
    BY <1>0, <1>8 DEF BeginCommit, BeginFail
  <2>. QED
    BY <1>0, <1>8, <2>1 DEF BeginCommit, BeginFail, Exec
<1>9. ASSUME NEW v \in Worker, CompleteStep(v)
      PROVE  /\ pc[w] \in Executing /\ exec'[w].run = exec[w].run
             /\ v # w => pc'[w] = pc[w] /\ exec'[w] = exec[w]
             /\ v = w => pc'[w] # "claim"
  <2>1. exec' = [exec EXCEPT ![v] = [NoExec EXCEPT !.run = exec[v].run, !.bound = TRUE]]
    BY <1>9 DEF CompleteStep
  <2>2. [NoExec EXCEPT !.run = exec[v].run, !.bound = TRUE].run = exec[v].run
    BY DEF NoExec
  <2>. QED
    BY <1>0, <1>9, <2>1, <2>2 DEF CompleteStep
<1>10. CASE DeleteRoom \/ Tick \/ \E r \in Run : CancelRun(r)
  BY <1>10 DEF DeleteRoom, Tick, CancelRun
<1>11. CASE \E v \in Worker, r \in Run : AdmitRun(v, r) \/ StartResume(v, r)
  BY <1>2, <1>11
<1>12. CASE \E v \in Worker : LoadRun(v) \/ BeginCommit(v) \/ BeginFail(v) \/ CompleteStep(v)
  BY <1>7, <1>8, <1>9, <1>12
<1>. QED
  BY <1>1, <1>4, <1>5, <1>6, <1>10, <1>11, <1>12 DEF Next

\* A worker that loads a run finds the reply of the slot before the one it will claim.
LEMMA LoadFindsAnswer ==
  ASSUME TypeInv, StepsInTurn, Agreement, NEW w \in Worker, LoadRun(w), exec'[w].slot > 1
  PROVE  LET r == exec[w].run
             i == exec'[w].slot
         IN  /\ exec'[w].run = r /\ i - 1 \in Slot
             /\ step[r][i - 1].status = "completed"
             /\ exec'[w].anchor = step[r][i - 1].message
<1>. DEFINE r == exec[w].run
            open == Scheduled(r) \ CompletedSlots(r)
<1>1. /\ r \in Run /\ exec \in [Worker -> Exec] /\ exec[w] \in Exec
      /\ InTurn(r) /\ Conforms(r)
  BY DEF LoadRun, TypeInv, TypeOK, Located, StepsInTurn, Agreement
<1>2. PICK i \in open, last \in 0..MaxSteps :
        /\ \A j \in open : i <= j
        /\ IsLastSpoken(r, last)
        /\ exec' = [exec EXCEPT ![w].slot = i, ![w].epoch = step[r][i].claims + 1,
                                ![w].anchor = ReplyAnchor(r, last)]
  BY DEF LoadRun
<1>3. exec'[w].run = r /\ exec'[w].slot = i /\ exec'[w].anchor = ReplyAnchor(r, last)
  <2>1. exec'[w] = [exec[w] EXCEPT !.slot = i, !.epoch = step[r][i].claims + 1,
                                   !.anchor = ReplyAnchor(r, last)]
    BY <1>1, <1>2
  <2>. QED
    BY <1>1, <2>1 DEF Exec
<1>4. i \in Slot /\ i > 1 /\ i - 1 \in Slot /\ i - 1 < i
  BY <1>2, <1>3, MaxStepsAssumption DEF Scheduled, Slot
<1>. HIDE DEF r
<1>5. i - 1 \in Scheduled(r) /\ i - 1 \notin open
  BY <1>1, <1>2, <1>4 DEF Scheduled, Conforms, Slot
<1>6. i - 1 \in CompletedSlots(r)
  BY <1>5
<1>7. last = i - 1
  <2>1. last # 0 /\ last \in CompletedSlots(r) /\ i - 1 <= last
    BY <1>2, <1>6 DEF IsLastSpoken
  <2>2. last \in Slot /\ step[r][last].status = "completed" /\ step[r][i].status # "completed"
    BY <1>2, <2>1 DEF CompletedSlots, Scheduled
  <2>3. ~ (i < last)
    BY <1>1, <1>4, <2>2 DEF InTurn
  <2>4. last # i
    BY <2>2
  <2>. QED
    BY <1>4, <2>1, <2>2, <2>3, <2>4 DEF Slot
<1>. QED
  BY <1>3, <1>4, <1>6, <1>7, MaxStepsAssumption DEF r, ReplyAnchor, CompletedSlots, Slot

LEMMA ClaimsKnowStep ==
  ASSUME TypeInv, StepsInTurn, Agreement, Next
  PROVE  ClaimsKnow'
<1>0. ClaimsKnow /\ StepsInTurn
  BY DEF Agreement
<1>1. CASE room'.status = "deleted"
  <2>1. ASSUME NEW r \in Run PROVE run'[r].status = "absent"
    <3>1. CASE DeleteRoom
      BY <3>1, DeletionOfRuns
    <3>2. CASE ~ DeleteRoom
      <4>1. room.status = "deleted" /\ run[r].status = "absent"
        BY <1>0, <1>1, <3>2, RoomIsDeletedOnce DEF ClaimsKnow
      <4>2. \A w \in Worker : ~ AdmitRun(w, r)
        BY <4>1 DEF AdmitRun, CanAdmit, CanClaimRoom
      <4>3. run'[r] = run[r]
        BY <3>2, <4>1, <4>2, Moves DEF Quiet, Claims, CanClaimStep, Speaks, Fails, Cancels
      <4>. QED
        BY <4>1, <4>3
    <3>. QED
      BY <3>1, <3>2
  <2>. QED
    BY <1>1, <2>1 DEF ClaimsKnow
<1>2. CASE room'.status # "deleted"
  <2>0. ~ DeleteRoom /\ room.status # "deleted"
    <3>1. room \in Room
      BY DEF TypeInv, TypeOK
    <3>2. ~ DeleteRoom
      BY <1>2, <3>1 DEF DeleteRoom, Room
    <3>3. CASE room.status = "deleted"
      <4>1. ~ \E w \in Worker : CommitEdit(w)
        BY <3>3 DEF CommitEdit, CanEdit, CanClaimRoom
      <4>. QED
        BY <1>2, <3>3, <4>1, RoomWrites
    <3>. QED
      BY <3>2, <3>3
  <2>1. ASSUME NEW w \in Worker, pc'[w] \in Executing
        PROVE  run'[exec'[w].run].status # "absent"
    <3>1. ASSUME pc[w] \in Executing, exec'[w].run = exec[w].run
          PROVE  run'[exec'[w].run].status # "absent"
      <4>1. exec[w].run \in Run /\ run[exec[w].run].status # "absent"
        BY <1>0, <2>0, <3>1 DEF ClaimsKnow, TypeInv, Located, Executing
      <4>. QED
        BY <1>0, <2>0, <3>1, <4>1, AnchorStays
    <3>2. ASSUME NEW r \in Run, AdmitRun(w, r) \/ StartResume(w, r), exec'[w].run = r
          PROVE  run'[exec'[w].run].status # "absent"
      <4>1. CASE AdmitRun(w, r)
        BY <3>2, <4>1, AdmissionOfRun
      <4>2. CASE StartResume(w, r)
        BY <3>2, <4>2 DEF StartResume
      <4>. QED
        BY <3>2, <4>1, <4>2
    <3>. QED
      BY <2>1, <3>1, <3>2, Executions
  <2>2. ASSUME NEW w \in Worker, pc'[w] = "claim", exec'[w].slot > 1
        PROVE  /\ step'[exec'[w].run][exec'[w].slot - 1].status = "completed"
               /\ exec'[w].anchor = step'[exec'[w].run][exec'[w].slot - 1].message
    <3>1. \/ pc[w] = "claim" /\ exec'[w] = exec[w]
          \/ LoadRun(w)
      BY <2>2, Executions DEF Executing
    <3>2. PICK r \in Run, i \in Slot :
            /\ r = exec'[w].run /\ i = exec'[w].slot - 1
            /\ run[r].status # "absent"
            /\ step[r][i].status = "completed"
            /\ exec'[w].anchor = step[r][i].message
      <4>1. CASE pc[w] = "claim" /\ exec'[w] = exec[w]
        <5>1. exec[w].run \in Run /\ exec[w].slot \in Slot /\ exec[w].slot - 1 \in Slot
          BY <2>2, <4>1, MaxStepsAssumption DEF TypeInv, Located, Slot
        <5>. QED
          BY <1>0, <2>0, <2>2, <4>1, <5>1 DEF ClaimsKnow, Executing
      <4>2. CASE LoadRun(w)
        <5>1. exec[w].run \in Run /\ run[exec[w].run].status # "absent"
          BY <1>0, <2>0, <4>2 DEF LoadRun, ClaimsKnow, TypeInv, Located, Executing
        <5>. QED
          BY <2>2, <4>2, <5>1, LoadFindsAnswer
      <4>. QED
        BY <3>1, <4>1, <4>2
    <3>. QED
      BY <1>0, <2>0, <3>2, SpokenStays
  <2>. QED
    BY <1>2, <2>1, <2>2 DEF ClaimsKnow
<1>. QED
  BY <1>1, <1>2

LEMMA InitAgreement == Init => Agreement
<1> SUFFICES ASSUME Init PROVE Agreement
  OBVIOUS
<1>1. \A r \in Run, i \in Slot : step[r][i].status = "absent" /\ run[r].status = "absent"
  BY DEF Init, NoStep, NoRow
<1>2. \A m \in message : m.slot = 0
  BY DEF Init, OpeningMessage
<1>3. \A r \in Run, i \in Slot : Replies(r, i) = {}
  BY <1>2 DEF Replies, Slot
<1>4. ClaimsKnow
  BY <1>1 DEF Init, ClaimsKnow, Executing
<1>. QED
  BY <1>1, <1>3, <1>4 DEF Agreement, Told, Settled, Conforms, Scheduled

LEMMA AgreementStep == TypeInv /\ StepsInTurn /\ Agreement /\ [Next]_vars => Agreement'
<1> SUFFICES ASSUME TypeInv, StepsInTurn, Agreement, [Next]_vars PROVE Agreement'
  OBVIOUS
<1>1. CASE Next
  BY <1>1, ToldStep, SettledStep, ConformsStep, ClaimsKnowStep DEF Agreement
<1>2. CASE UNCHANGED vars
  <2>. USE DEF vars
  <2>1. ASSUME NEW r \in Run PROVE Told(r)' /\ Conforms(r)'
    <3>1. Told(r) /\ Conforms(r)
      BY DEF Agreement
    <3>2. Told(r)'
      BY <1>2, <3>1 DEF Told, Answered, Replies
    <3>3. Conforms(r)'
      BY <1>2, <3>1 DEF Conforms, Answered
    <3>. QED
      BY <3>2, <3>3
  <2>2. ASSUME NEW r \in Run PROVE Settled(r)'
    <3>1. Settled(r)
      BY DEF Agreement
    <3>2. /\ Scheduled(r)' = Scheduled(r) /\ CompletedSlots(r)' = CompletedSlots(r)
          /\ RemainingSlots(r)' = RemainingSlots(r) /\ \A i : IsNext(r, i)' = IsNext(r, i)
      BY <1>2 DEF Scheduled, CompletedSlots, RemainingSlots, IsNext
    <3>. QED
      BY <1>2, <3>1, <3>2 DEF Settled
  <2>3. ClaimsKnow'
    <3>1. ClaimsKnow
      BY DEF Agreement
    <3>. QED
      BY <1>2, <3>1 DEF ClaimsKnow
  <2>. QED
    BY <2>1, <2>2, <2>3 DEF Agreement
<1>. QED
  BY <1>1, <1>2

LEMMA InitInTurn == Init => StepsInTurn
BY DEF Init, NoStep, StepsInTurn, InTurn

LEMMA AgreementHolds == Spec => [](TypeInv /\ StepsInTurn /\ Agreement)
BY InitTypeInv, NextTypeInv, InitInTurn, StepsInTurnStep, InitAgreement, AgreementStep, PTL
   DEF Spec

\* A step has spoken exactly when the transcript holds its one message, committed by its
\* last claim and answering the reply before it: complete_step compares the claim epoch.
THEOREM RepliesAreTheSteps == Spec => []StepMatchesTranscript
<1>1. Agreement => StepMatchesTranscript
  BY ToldIsMatch DEF Agreement
<1>. QED
  BY <1>1, AgreementHolds, PTL

\* The statuses of a run and its steps agree, and a step's evidence is of its last claim.
THEOREM RunsAreTheirSteps == Spec => []RunMatchesSteps
<1>1. TypeInv /\ Agreement => RunMatchesSteps
  BY SettledIsMatch DEF Agreement
<1>. QED
  BY <1>1, AgreementHolds, PTL

-----------------------------------------------------------------------------
(* Retries.                                                                *)

\* Every admission takes a revision of its own; a pending run is the last one admitted; the
\* root of a chain of retries was admitted with it.
RunsInOrder ==
    /\ \A r \in Run :
         IF run[r].status = "absent" THEN run[r] = NoRow
         ELSE /\ run[r].expectedRevision < room.revision
              /\ run[r].root \in Run
              /\ run[run[r].root].status # "absent"
    /\ \A r \in Run : run[r].status = "pending" => run[r].expectedRevision + 1 = room.revision
    /\ \A r, s \in Run :
         /\ run[r].status # "absent" /\ run[s].status # "absent"
         /\ run[r].expectedRevision = run[s].expectedRevision
         => r = s

\* The speakers of every run are in the room, in the room's order.
CastInOrder ==
    \A r \in Run : \A i, j \in Scheduled(r) :
       /\ step[r][i].persona \in Persona
       /\ room.roster[step[r][i].persona] > 0
       /\ i < j => room.roster[step[r][i].persona] < room.roster[step[r][j].persona]

LastReply(r, anchor) ==
    \E last \in 0..MaxSteps : IsLastSpoken(r, last) /\ anchor = ReplyAnchor(r, last)

\* What a retry was computed from is still so.
RetryReady(d) ==
    /\ run[d.parent].status \in {"partial", "failed"}
    /\ d.root = run[d.parent].root
    /\ RetryContextUnchanged(d.parent)
    /\ IsRemainder(d.schedule, d.parent)
    /\ LastReply(d.parent, d.anchor)

\* An admission that waits was read at this revision, and then nothing has changed, or at
\* an older one.
DraftsAreFresh ==
    \A w \in Worker : \A d \in RunDraft :
       pc[w] = "admit" /\ draft[w] = d /\ room.status # "deleted" =>
         /\ d.expectedRevision <= room.revision
         /\ (d.parent = NoRun) = (d.trigger # "retry")
         /\ (d.parent = NoRun) => d.root = NoRun
         /\ d.expectedRevision = room.revision =>
              /\ room.status = "active"
              /\ InDisplayOrder(d.schedule)
              /\ d.parent # NoRun => RetryReady(d)

\* The second part of RetryLineage, of one run.
Continues(r) ==
    \A p \in Run : \A anchor \in Nat :
       run[r].parent = p /\ run[r].anchor = anchor =>
         /\ run[p].status \in {"partial", "failed"}
         /\ run[p].root = run[r].root
         /\ run[r].expectedRevision = run[p].expectedRevision + 1
         /\ Cast(r) = {step[p][i].persona : i \in RemainingSlots(p)}
         /\ LastReply(p, anchor)

\* No speaker of a run has spoken in an earlier run of its chain.
Unspoken ==
    \A r, s \in Run :
       /\ run[r].root = run[s].root
       /\ run[s].expectedRevision < run[r].expectedRevision
       => \A i \in Scheduled(r), j \in CompletedSlots(s) : step[r][i].persona # step[s][j].persona

History ==
    /\ RunsInOrder
    /\ CastInOrder
    /\ DraftsAreFresh
    /\ \A r \in Run : Continues(r)
    /\ Unspoken

\* An admission and an edit take a revision, while no run is pending.
LEMMA RevisionMoves ==
  ASSUME TypeInv, Next, ~ DeleteRoom
  PROVE  \/ room'.revision = room.revision
         \/ /\ room'.revision = room.revision + 1
            /\ NoPendingRun
<1>. room \in Room
  BY DEF TypeInv, TypeOK
<1>1. ASSUME NEW w \in Worker, CommitEdit(w) \/ \E r \in Run : AdmitRun(w, r)
      PROVE  room'.revision = room.revision + 1 /\ NoPendingRun
  BY <1>1 DEF CommitEdit, CanEdit, AdmitRun, CanAdmit, CanClaimRoom, Room
<1>2. ASSUME NEW w \in Worker, CompleteStep(w)
      PROVE  room'.revision = room.revision
  BY <1>2 DEF CompleteStep, Room
<1>. QED
  BY <1>1, <1>2, RoomMoves

\* A run that is neither admitted nor deleted keeps its schedule and what it was admitted with.
LEMMA ScheduleStays ==
  ASSUME TypeInv, StepsInTurn, Next, ~ DeleteRoom, NEW r \in Run,
         \A w \in Worker : ~ AdmitRun(w, r)
  PROVE  /\ \A i \in Slot : /\ step'[r][i].persona = step[r][i].persona
                            /\ (step'[r][i].status = "absent") = (step[r][i].status = "absent")
         /\ Scheduled(r)' = Scheduled(r)
         /\ Cast(r)' = Cast(r)
<1>1. ASSUME NEW i \in Slot
      PROVE  /\ step'[r][i].persona = step[r][i].persona
             /\ (step'[r][i].status = "absent") = (step[r][i].status = "absent")
  <2>1. CASE Speaks(r, i) \/ Fails(r, i) \/ \E w \in Worker : Claims(w, r, i)
    BY <2>1 DEF Speaks, Fails, Turns, Claims, CanClaimStep, Unheld
  <2>. QED
    BY <2>1, SlotMoves DEF Kept, Turns
<1>2. Scheduled(r)' = Scheduled(r)
  BY <1>1 DEF Scheduled
<1>3. Cast(r)' = Cast(r)
  <2>1. \A i \in Scheduled(r) : i \in Slot
    BY DEF Scheduled
  <2>. QED
    BY <1>1, <1>2, <2>1 DEF Cast
<1>. QED
  BY <1>1, <1>2, <1>3

\* A run that has ended stands still, evidence aside.
LEMMA EndedRunStands ==
  ASSUME TypeInv, StepsInTurn, Next, NEW r \in Run, run[r].status \in {"partial", "failed"},
         room'.status # "deleted"
  PROVE  /\ run'[r] = run[r]
         /\ \A i \in Slot : /\ step'[r][i].status = step[r][i].status
                            /\ step'[r][i].persona = step[r][i].persona
                            /\ step'[r][i].message = step[r][i].message
         /\ RemainingSlots(r)' = RemainingSlots(r)
         /\ \A anchor : LastReply(r, anchor) => LastReply(r, anchor)'
<1>1. run'[r] = run[r]
  BY EndedRunKept DEF Terminal
<1>2. ~ DeleteRoom
  <2>1. room \in Room
    BY DEF TypeInv, TypeOK
  <2>. QED
    BY <2>1 DEF DeleteRoom, Room
<1>3. ASSUME NEW i \in Slot
      PROVE  /\ step'[r][i].status = step[r][i].status
             /\ step'[r][i].persona = step[r][i].persona
             /\ step'[r][i].message = step[r][i].message
  <2>1. \A w \in Worker : ~ AdmitRun(w, r)
    BY DEF AdmitRun
  <2>2. Quiet(r)
    BY <1>2, <2>1, Moves DEF Claims, CanClaimStep, Speaks, Fails, Cancels
  <2>. QED
    BY <2>2 DEF Quiet, Kept, Turns
<1>4. RemainingSlots(r)' = RemainingSlots(r) /\ CompletedSlots(r)' = CompletedSlots(r)
  BY <1>3 DEF RemainingSlots, CompletedSlots
<1>5. ASSUME NEW last \in 0..MaxSteps, IsLastSpoken(r, last)
      PROVE  IsLastSpoken(r, last)' /\ ReplyAnchor(r, last)' = ReplyAnchor(r, last)
  <2>1. IsLastSpoken(r, last)'
    BY <1>4, <1>5 DEF IsLastSpoken
  <2>2. last # 0 => last \in Slot
    BY <1>5 DEF IsLastSpoken, CompletedSlots
  <2>3. ReplyAnchor(r, last)' = ReplyAnchor(r, last)
    BY <1>1, <1>3, <2>2 DEF ReplyAnchor
  <2>. QED
    BY <2>1, <2>3
<1>6. \A anchor : LastReply(r, anchor) => LastReply(r, anchor)'
  BY <1>5 DEF LastReply
<1>. QED
  BY <1>1, <1>3, <1>4, <1>6

\* An edit leaves whoever was cast in his place.
LEMMA CastKeepsItsPlace ==
  ASSUME TypeInv, Next, room'.status # "deleted", NEW p \in Persona, NEW r \in Run,
         p \in Cast(r), room.roster[p] > 0
  PROVE  room'.roster[p] = room.roster[p]
<1>1. ASSUME NEW w \in Worker, CommitEdit(w)
      PROVE  room'.roster[p] = room.roster[p]
  <2>1. room \in Room
    BY DEF TypeInv, TypeOK
  <2>2. room'.roster = draft[w].roster
    BY <1>1, <2>1 DEF CommitEdit, Room
  <2>. QED
    BY <1>1, <2>2 DEF CommitEdit, CanEdit, KeepsHistory
<1>. QED
  BY <1>1, RoomWrites

LEMMA RunsInOrderStep ==
  ASSUME TypeInv, StepsInTurn, Agreement, RunsInOrder, DraftsAreFresh, Next
  PROVE  RunsInOrder'
<1>0. /\ room \in Room /\ room.revision \in Nat
      /\ run \in [Run -> RunRow]
      /\ \A r \in Run : run[r].expectedRevision \in Nat
  BY DEF TypeInv, TypeOK, Room, RunRow
<1>1. CASE DeleteRoom
  BY <1>1, DeletionOfRuns DEF RunsInOrder
<1>2. ASSUME ~ DeleteRoom, NEW r \in Run, \A w \in Worker : ~ AdmitRun(w, r)
      PROVE  /\ IF run[r].status = "absent" THEN run'[r] = run[r]
                ELSE /\ run'[r].status # "absent"
                     /\ run'[r].root = run[r].root
                     /\ run'[r].expectedRevision = run[r].expectedRevision
             /\ run'[r].status = "pending" => run[r].status = "pending"
  <2>1. run[r].status = "absent" => run'[r] = run[r]
    BY <1>2, Moves DEF Quiet, Claims, CanClaimStep, Speaks, Fails, Cancels
  <2>2. run[r].status # "absent" => /\ run'[r].status # "absent"
                                    /\ run'[r].root = run[r].root
                                    /\ run'[r].expectedRevision = run[r].expectedRevision
    BY <1>2, AnchorStays
  <2>3. run'[r].status = "pending" => run[r].status = "pending"
    BY <1>2, Moves DEF Quiet, Claims, CanClaimStep, Speaks, Fails, Cancels
  <2>. QED
    BY <2>1, <2>2, <2>3
<1>3. CASE ~ DeleteRoom /\ ~ \E w \in Worker, r \in Run : AdmitRun(w, r)
  <2>1. room'.revision \in {room.revision, room.revision + 1}
        /\ (room'.revision # room.revision => NoPendingRun)
    BY <1>0, <1>3, RevisionMoves
  <2>2. ASSUME NEW r \in Run
        PROVE  /\ IF run[r].status = "absent" THEN run'[r] = run[r]
                  ELSE /\ run'[r].status # "absent"
                       /\ run'[r].root = run[r].root
                       /\ run'[r].expectedRevision = run[r].expectedRevision
               /\ run'[r].status = "pending" => run[r].status = "pending"
    BY <1>2, <1>3
  <2>3. ASSUME NEW r \in Run
        PROVE  IF run'[r].status = "absent" THEN run'[r] = NoRow
               ELSE /\ run'[r].expectedRevision < room'.revision
                    /\ run'[r].root \in Run
                    /\ run'[run'[r].root].status # "absent"
    BY <1>0, <2>1, <2>2 DEF RunsInOrder
  <2>4. ASSUME NEW r \in Run, run'[r].status = "pending"
        PROVE  run'[r].expectedRevision + 1 = room'.revision
    BY <1>0, <2>1, <2>2, <2>4 DEF RunsInOrder, NoPendingRun
  <2>5. ASSUME NEW r \in Run, NEW s \in Run, run'[r].status # "absent", run'[s].status # "absent",
               run'[r].expectedRevision = run'[s].expectedRevision
        PROVE  r = s
    BY <2>2, <2>5 DEF RunsInOrder
  <2>. QED
    BY <2>3, <2>4, <2>5 DEF RunsInOrder
<1>4. ASSUME NEW w \in Worker, NEW q \in Run, AdmitRun(w, q), ~ DeleteRoom
      PROVE  RunsInOrder'
  <2>. DEFINE d == draft[w]
  <2>1. /\ run[q].status = "absent" /\ run'[q] = AdmittedRow(q, d)
        /\ \A r \in Run \ {q} : run'[r] = run[r]
        /\ room'.revision = room.revision + 1
        /\ d.expectedRevision = room.revision
        /\ \A r \in Run : run[r].status # "pending"
        /\ room.status # "deleted" /\ pc[w] = "admit"
        /\ d \in RunDraft
    BY <1>0, <1>4 DEF AdmitRun, CanAdmit, CanClaimRoom, NoPendingRun, Room, TypeInv, Located
  <2>. HIDE DEF d
  <2>2. /\ run'[q].status = "pending" /\ run'[q].expectedRevision = room.revision
        /\ run'[q].root = IF d.root = NoRun THEN q ELSE d.root
    BY <2>1 DEF AdmittedRow
  <2>3. d.root # NoRun => d.root \in Run /\ run[d.root].status # "absent"
    <3> SUFFICES ASSUME d.root # NoRun
                 PROVE  d.root \in Run /\ run[d.root].status # "absent"
      OBVIOUS
    <3>1. d.parent # NoRun /\ RetryReady(d)
      BY <2>1 DEF DraftsAreFresh, d
    <3>2. d.parent \in Run /\ run[d.parent].status # "absent" /\ d.root = run[d.parent].root
      BY <2>1, <3>1 DEF RetryReady, RunDraft
    <3>. QED
      BY <3>2 DEF RunsInOrder
  <2>4. ASSUME NEW r \in Run
        PROVE  IF run'[r].status = "absent" THEN run'[r] = NoRow
               ELSE /\ run'[r].expectedRevision < room'.revision
                    /\ run'[r].root \in Run
                    /\ run'[run'[r].root].status # "absent"
    <3>1. CASE r = q
      BY <1>0, <2>1, <2>2, <2>3, <3>1
    <3>2. CASE r # q
      <4>1. run[r].status # "absent" => run[r].root # q
        BY <2>1 DEF RunsInOrder
      <4>. QED
        BY <1>0, <2>1, <3>2, <4>1 DEF RunsInOrder
    <3>. QED
      BY <3>1, <3>2
  <2>5. \A r \in Run : run'[r].status = "pending" => run'[r].expectedRevision + 1 = room'.revision
    BY <2>1, <2>2
  <2>6. ASSUME NEW r \in Run, NEW s \in Run, run'[r].status # "absent", run'[s].status # "absent",
               run'[r].expectedRevision = run'[s].expectedRevision
        PROVE  r = s
    BY <1>0, <2>1, <2>2, <2>6 DEF RunsInOrder
  <2>. QED
    BY <2>4, <2>5, <2>6 DEF RunsInOrder
<1>. QED
  BY <1>1, <1>3, <1>4

\* What an admission finds, and makes of its run.
LEMMA AdmissionIsReady ==
  ASSUME TypeInv, DraftsAreFresh, NEW w \in Worker, NEW r \in Run, AdmitRun(w, r)
  PROVE  /\ draft[w] \in RunDraft
         /\ room.status = "active" /\ room'.roster = room.roster
         /\ InDisplayOrder(draft[w].schedule)
         /\ run'[r].parent = draft[w].parent
         /\ run'[r].expectedRevision = room.revision
         /\ run'[r].root = IF draft[w].root = NoRun THEN r ELSE draft[w].root
         /\ draft[w].parent = NoRun => draft[w].root = NoRun
         /\ draft[w].parent # NoRun =>
              /\ RetryReady(draft[w])
              /\ run'[r].anchor = draft[w].anchor
              /\ room'.lastSeq = room.lastSeq
<1>1. /\ draft[w] \in RunDraft /\ room \in Room /\ run \in [Run -> RunRow]
      /\ pc[w] = "admit" /\ room.status # "deleted"
      /\ draft[w].expectedRevision = room.revision
  BY DEF AdmitRun, CanAdmit, CanClaimRoom, TypeInv, TypeOK, Located
<1>2. run'[r] = AdmittedRow(r, draft[w])
  BY <1>1 DEF AdmitRun
<1>3. /\ run'[r].parent = draft[w].parent
      /\ run'[r].expectedRevision = room.revision
      /\ run'[r].root = IF draft[w].root = NoRun THEN r ELSE draft[w].root
      /\ draft[w].trigger = "retry" => run'[r].anchor = draft[w].anchor
  BY <1>1, <1>2 DEF AdmittedRow
<1>4. room'.roster = room.roster
  BY <1>1 DEF AdmitRun, Room
<1>5. draft[w].trigger = "retry" => room'.lastSeq = room.lastSeq
  BY <1>1 DEF AdmitRun, Room
<1>. QED
  BY <1>1, <1>3, <1>4, <1>5 DEF DraftsAreFresh

LEMMA AdmittedCast ==
  ASSUME TypeInv, NEW w \in Worker, NEW r \in Run, AdmitRun(w, r)
  PROVE  /\ Scheduled(r)' = DOMAIN draft[w].schedule
         /\ DOMAIN draft[w].schedule \subseteq Slot
         /\ \A i \in DOMAIN draft[w].schedule : step'[r][i].persona = draft[w].schedule[i]
         /\ Cast(r)' = {draft[w].schedule[i] : i \in DOMAIN draft[w].schedule}
         /\ CompletedSlots(r)' = {}
<1>. DEFINE s == draft[w].schedule
<1>1. /\ \A i \in Slot : /\ step'[r][i].status \in {"pending", "absent"}
                         /\ i \in DOMAIN s =>
                              step'[r][i].status = "pending" /\ step'[r][i].persona = s[i]
                         /\ i \notin DOMAIN s => step'[r][i].status = "absent"
      /\ \E n \in Slot : DOMAIN s = 1..n
  BY AdmissionOfRun
<1>. HIDE DEF s
<1>2. DOMAIN s \subseteq Slot
  <2>1. PICK n \in Slot : DOMAIN s = 1..n
    BY <1>1
  <2>. QED
    BY <2>1, MaxStepsAssumption DEF Slot
<1>3. Scheduled(r)' = DOMAIN s
  BY <1>1, <1>2 DEF Scheduled
<1>4. CompletedSlots(r)' = {}
  BY <1>1 DEF CompletedSlots
<1>5. \A i \in DOMAIN s : step'[r][i].persona = s[i]
  BY <1>1, <1>2
<1>6. Cast(r)' = {s[i] : i \in DOMAIN s}
  BY <1>3, <1>5 DEF Cast
<1>. QED
  BY <1>2, <1>3, <1>4, <1>5, <1>6 DEF s

LEMMA CastInOrderStep ==
  ASSUME TypeInv, StepsInTurn, CastInOrder, DraftsAreFresh, Agreement, Next
  PROVE  CastInOrder'
<1>1. CASE DeleteRoom
  BY <1>1, DeletionOfRuns DEF CastInOrder, Scheduled
<1>2. CASE ~ DeleteRoom
  <2> SUFFICES ASSUME NEW r \in Run, NEW i \in Scheduled(r)', NEW j \in Scheduled(r)'
               PROVE  /\ step'[r][i].persona \in Persona
                      /\ room'.roster[step'[r][i].persona] > 0
                      /\ i < j => room'.roster[step'[r][i].persona] < room'.roster[step'[r][j].persona]
    BY DEF CastInOrder
  <2>1. ASSUME NEW w \in Worker, AdmitRun(w, r)
        PROVE  /\ step'[r][i].persona \in Persona
               /\ room'.roster[step'[r][i].persona] > 0
               /\ i < j => room'.roster[step'[r][i].persona] < room'.roster[step'[r][j].persona]
    <3>1. /\ i \in DOMAIN draft[w].schedule /\ step'[r][i].persona = draft[w].schedule[i]
          /\ j \in DOMAIN draft[w].schedule /\ step'[r][j].persona = draft[w].schedule[j]
      BY <2>1, AdmittedCast
    <3>2. room'.roster = room.roster /\ InDisplayOrder(draft[w].schedule)
      BY <2>1, AdmissionIsReady
    <3>3. draft[w].schedule[i] \in Persona
      BY <2>1, <3>1, AdmissionIsReady, ScheduleEntries DEF RunDraft
    <3>. QED
      BY <3>1, <3>2, <3>3 DEF InDisplayOrder
  <2>2. ASSUME \A w \in Worker : ~ AdmitRun(w, r)
        PROVE  /\ step'[r][i].persona \in Persona
               /\ room'.roster[step'[r][i].persona] > 0
               /\ i < j => room'.roster[step'[r][i].persona] < room'.roster[step'[r][j].persona]
    <3>1. /\ i \in Scheduled(r) /\ j \in Scheduled(r)
          /\ step'[r][i].persona = step[r][i].persona /\ step'[r][j].persona = step[r][j].persona
      BY <1>2, <2>2, ScheduleStays DEF Scheduled
    <3>2. room.roster[step[r][i].persona] > 0 /\ room.roster[step[r][j].persona] > 0
      BY <3>1 DEF CastInOrder
    <3>3. room'.status # "deleted"
      <4>1. run[r].status # "absent"
        BY <3>1 DEF Agreement, Settled
      <4>. QED
        BY <1>2, <4>1, RoomIsDeletedOnce DEF Agreement, ClaimsKnow
    <3>4. step[r][i].persona \in Cast(r) /\ step[r][j].persona \in Cast(r)
      BY <3>1 DEF Cast
    <3>5. step[r][i].persona \in Persona /\ step[r][j].persona \in Persona
      BY <3>1 DEF CastInOrder
    <3>. QED
      BY <3>1, <3>2, <3>3, <3>4, <3>5, CastKeepsItsPlace DEF CastInOrder
  <2>. QED
    BY <2>1, <2>2
<1>. QED
  BY <1>1, <1>2

\* A message is appended by an admission or by the step that speaks.
LEMMA SequenceMoves ==
  ASSUME TypeInv, Next, ~ DeleteRoom, room'.revision = room.revision,
         NoPendingRun
  PROVE  room'.lastSeq = room.lastSeq
<1>. room \in Room
  BY DEF TypeInv, TypeOK
<1>0. room.revision \in Nat /\ room.revision + 1 # room.revision
  BY DEF Room
<1>1. ASSUME NEW w \in Worker, CommitEdit(w) \/ \E r \in Run : AdmitRun(w, r)
      PROVE  FALSE
  <2>1. room'.revision = room.revision + 1
    BY <1>1 DEF CommitEdit, AdmitRun, Room
  <2>. QED
    BY <1>0, <2>1
<1>2. \A w \in Worker : ~ CompleteStep(w)
  BY DEF CompleteStep, OwnsEpoch, NoPendingRun, TypeInv, Located
<1>. QED
  BY <1>1, <1>2, RoomMoves

\* A retry that waits stays ready as long as no revision is taken.
LEMMA ReadyStays ==
  ASSUME TypeInv, StepsInTurn, RunsInOrder, Next, room'.status # "deleted",
         room'.revision = room.revision,
         NEW d \in RunDraft, d.parent # NoRun, RetryReady(d)
  PROVE  RetryReady(d)'
<1>. DEFINE p == d.parent
<1>1. p \in Run /\ run[p].status \in {"partial", "failed"}
  BY DEF RunDraft, RetryReady
<1>. HIDE DEF p
<1>2. /\ run'[p] = run[p]
      /\ \A i \in Slot : /\ step'[p][i].status = step[p][i].status
                         /\ step'[p][i].persona = step[p][i].persona
      /\ RemainingSlots(p)' = RemainingSlots(p)
      /\ \A anchor : LastReply(p, anchor) => LastReply(p, anchor)'
  BY <1>1, EndedRunStands
<1>3. NoPendingRun
  <2> SUFFICES ASSUME NEW r \in Run, run[r].status = "pending" PROVE FALSE
    BY DEF NoPendingRun
  <2>1. run[r].expectedRevision + 1 = run[p].expectedRevision + 1
    BY DEF RunsInOrder, RetryReady, RetryContextUnchanged, p
  <2>2. run[r].expectedRevision \in Nat /\ run[p].expectedRevision \in Nat
    BY <1>1 DEF TypeInv, TypeOK, RunRow
  <2>. QED
    BY <1>1, <2>1, <2>2 DEF RunsInOrder
<1>4. ~ DeleteRoom
  <2>1. room \in Room
    BY DEF TypeInv, TypeOK
  <2>. QED
    BY <2>1 DEF DeleteRoom, Room
<1>5. room'.lastSeq = room.lastSeq
  BY <1>3, <1>4, SequenceMoves
<1>6. RetryContextUnchanged(p)'
  BY <1>2, <1>5 DEF RetryReady, RetryContextUnchanged, p
<1>7. IsRemainder(d.schedule, p)'
  <2>1. IsRemainder(d.schedule, p)
    BY DEF RetryReady, p
  <2>2. \A i \in RemainingSlots(p) : step'[p][i].persona = step[p][i].persona
    BY <1>2 DEF RemainingSlots
  <2>3. {step'[p][i].persona : i \in RemainingSlots(p)'} =
            {step[p][i].persona : i \in RemainingSlots(p)}
    BY <1>2, <2>2
  <2>4. ASSUME NEW i \in DOMAIN d.schedule, NEW j \in DOMAIN d.schedule, i < j
        PROVE  \E k, l \in RemainingSlots(p)' :
                  /\ k < l
                  /\ d.schedule[i] = step'[p][k].persona
                  /\ d.schedule[j] = step'[p][l].persona
    <3>1. PICK k \in RemainingSlots(p), l \in RemainingSlots(p) :
                  /\ k < l
                  /\ d.schedule[i] = step[p][k].persona
                  /\ d.schedule[j] = step[p][l].persona
      BY <2>1, <2>4 DEF IsRemainder
    <3>. QED
      BY <1>2, <2>2, <3>1
  <2>. QED
    BY <2>1, <2>3, <2>4 DEF IsRemainder
<1>8. LastReply(p, d.anchor)'
  BY <1>2 DEF RetryReady, p
<1>. QED
  BY <1>1, <1>2, <1>6, <1>7, <1>8 DEF RetryReady, p

\* A worker that waits for admission has just read the room, or was waiting before.
LEMMA AdmissionsWait ==
  ASSUME TypeInv, Next, NEW w \in Worker, pc'[w] = "admit"
  PROVE  \/ pc[w] = "admit" /\ draft'[w] = draft[w]
         \/ \E s \in Schedule, t \in {"user_message", "continue"} : ReadForTurn(w, s, t)
         \/ \E r \in Run, s \in Schedule : ReadForRetry(w, r, s)
<1>. pc \in [Worker -> Pc] /\ draft \in [Worker -> RunDraft \union RoomDraft \union {NoDraft}]
  BY DEF TypeInv, TypeOK
<1>1. ASSUME NEW v \in Worker,
             \/ \E s \in Schedule, t \in {"user_message", "continue"} : ReadForTurn(v, s, t)
             \/ \E r \in Run, s \in Schedule : ReadForRetry(v, r, s)
      PROVE  \/ pc[w] = "admit" /\ draft'[w] = draft[w]
             \/ \E s \in Schedule, t \in {"user_message", "continue"} : ReadForTurn(w, s, t)
             \/ \E r \in Run, s \in Schedule : ReadForRetry(w, r, s)
  <2>1. CASE v = w
    BY <1>1, <2>1
  <2>2. CASE v # w
    BY <1>1, <2>2 DEF ReadForTurn, ReadForRetry
  <2>. QED
    BY <2>1, <2>2
<1>2. ASSUME NEW v \in Worker,
             \/ RefuseAdmission(v) \/ FinishRun(v) \/ DropRequest(v) \/ ExhaustStep(v)
             \/ RefuseClaim(v) \/ EndLostStep(v) \/ RefuseCommit(v) \/ FailStep(v)
             \/ FailEndedRun(v) \/ RefuseFail(v) \/ CommitEdit(v) \/ RefuseEdit(v) \/ Crash(v)
      PROVE  pc[w] = "admit" /\ draft'[w] = draft[w]
  BY <1>2 DEF RefuseAdmission, FinishRun, DropRequest, ExhaustStep, RefuseClaim, EndLostStep,
              RefuseCommit, FailStep, FailEndedRun, RefuseFail, CommitEdit, RefuseEdit, Crash,
              Release
<1>3. ASSUME NEW v \in Worker,
             \/ \E r \in Run : StartResume(v, r) \/ AdmitRun(v, r)
             \/ \E s \in {"active", "archived"}, o \in Roster : ReadForEdit(v, s, o)
             \/ LoadRun(v) \/ ClaimStep(v) \/ RenewLease(v) \/ LoseStep(v) \/ BeginCommit(v)
             \/ CompleteStep(v) \/ BeginFail(v)
      PROVE  pc[w] = "admit" /\ draft'[w] = draft[w]
  BY <1>3 DEF StartResume, AdmitRun, ReadForEdit, LoadRun, ClaimStep, RenewLease, LoseStep,
              BeginCommit, BeginFail, CompleteStep
<1>4. CASE DeleteRoom \/ Tick \/ \E r \in Run : CancelRun(r)
  BY <1>4 DEF DeleteRoom, Tick, CancelRun
<1>5. CASE \E v \in Worker, r \in Run : StartResume(v, r) \/ AdmitRun(v, r)
  BY <1>3, <1>5
<1>6. CASE \E v \in Worker, s \in {"active", "archived"}, o \in Roster : ReadForEdit(v, s, o)
  BY <1>3, <1>6
<1>. QED
  BY <1>1, <1>2, <1>3, <1>4, <1>5, <1>6 DEF Next

\* What a request reads is fresh when it is read.
LEMMA ReadsAreFresh ==
  ASSUME TypeInv, CastInOrder, NEW w \in Worker, NEW d, draft'[w] = d,
         \/ \E s \in Schedule, t \in {"user_message", "continue"} : ReadForTurn(w, s, t)
         \/ \E r \in Run, s \in Schedule : ReadForRetry(w, r, s)
  PROVE  /\ UNCHANGED <<room, run, step>>
         /\ d.expectedRevision = room.revision
         /\ (d.parent = NoRun) = (d.trigger # "retry")
         /\ d.parent = NoRun => d.root = NoRun
         /\ room.status = "active"
         /\ InDisplayOrder(d.schedule)
         /\ d.parent # NoRun => RetryReady(d)
<1>. draft \in [Worker -> RunDraft \union RoomDraft \union {NoDraft}]
  BY DEF TypeInv, TypeOK
<1>1. ASSUME NEW s \in Schedule, NEW t \in {"user_message", "continue"}, ReadForTurn(w, s, t)
      PROVE  /\ UNCHANGED <<room, run, step>>
             /\ d.expectedRevision = room.revision
             /\ d.parent = NoRun /\ d.trigger # "retry"
             /\ d.root = NoRun
             /\ room.status = "active"
             /\ InDisplayOrder(d.schedule)
  BY <1>1 DEF ReadForTurn
<1>2. ASSUME NEW r \in Run, NEW s \in Schedule, ReadForRetry(w, r, s)
      PROVE  /\ UNCHANGED <<room, run, step>>
             /\ d.expectedRevision = room.revision
             /\ d.parent # NoRun /\ d.trigger = "retry"
             /\ room.status = "active"
             /\ InDisplayOrder(d.schedule)
             /\ RetryReady(d)
  <2>1. PICK last \in 0..MaxSteps :
          /\ IsLastSpoken(r, last)
          /\ draft' = [draft EXCEPT ![w] =
               [trigger |-> "retry", parent |-> r, root |-> run[r].root,
                expectedRevision |-> room.revision, anchor |-> ReplyAnchor(r, last),
                schedule |-> s]]
    BY <1>2 DEF ReadForRetry
  <2>2. /\ d.trigger = "retry" /\ d.parent = r /\ d.root = run[r].root
        /\ d.expectedRevision = room.revision
        /\ d.anchor = ReplyAnchor(r, last) /\ d.schedule = s
    BY <2>1
  <2>3. LastReply(r, d.anchor)
    BY <2>1, <2>2 DEF LastReply
  <2>4. IsRemainder(s, r)
    BY <1>2 DEF ReadForRetry
  <2>5. InDisplayOrder(s)
    <3>1. ASSUME NEW i \in DOMAIN s, NEW j \in DOMAIN s, i < j
          PROVE  room.roster[s[i]] < room.roster[s[j]]
      <4>1. PICK k \in RemainingSlots(r), l \in RemainingSlots(r) :
              k < l /\ s[i] = step[r][k].persona /\ s[j] = step[r][l].persona
        BY <2>4, <3>1 DEF IsRemainder
      <4>2. k \in Scheduled(r) /\ l \in Scheduled(r)
        BY DEF RemainingSlots, Scheduled
      <4>. QED
        BY <4>1, <4>2 DEF CastInOrder
    <3>2. \A i \in DOMAIN s : room.roster[s[i]] > 0
      BY <1>2 DEF ReadForRetry
    <3>. QED
      BY <3>1, <3>2 DEF InDisplayOrder
  <2>6. r # NoRun
    BY NullsAssumption
  <2>7. RetryReady(d)
    BY <1>2, <2>2, <2>3, <2>4 DEF ReadForRetry, RetryReady
  <2>8. UNCHANGED <<room, run, step>> /\ room.status = "active"
    BY <1>2 DEF ReadForRetry
  <2>. QED
    BY <2>2, <2>5, <2>6, <2>7, <2>8
<1>. QED
  BY <1>1, <1>2

\* Without a new revision, a room that is not deleted keeps its status and its cast.
LEMMA RevisionGuardsCast ==
  ASSUME TypeInv, Next, room'.status # "deleted"
  PROVE  /\ room.status # "deleted" /\ ~ DeleteRoom
         /\ room'.revision = room.revision =>
              room'.status = room.status /\ room'.roster = room.roster
<1>. room \in Room /\ room.revision \in Nat
  BY DEF TypeInv, TypeOK, Room
<1>1. ~ DeleteRoom
  BY DEF DeleteRoom, Room
<1>2. ASSUME NEW w \in Worker, CommitEdit(w)
      PROVE  room.status # "deleted" /\ room'.revision # room.revision
  <2>1. room'.revision = room.revision + 1 /\ room.status # "deleted"
    BY <1>2 DEF CommitEdit, CanEdit, CanClaimRoom, Room
  <2>. QED
    BY <2>1
<1>. QED
  BY <1>1, <1>2, RoomWrites

\* A retry that is ready stays so while its room, the runs and the steps do.
LEMMA ReadyUnchanged ==
  ASSUME NEW d, UNCHANGED <<room, run, step>>
  PROVE  /\ \A r, a : LastReply(r, a) => LastReply(r, a)'
         /\ InDisplayOrder(d.schedule) => InDisplayOrder(d.schedule)'
         /\ RetryReady(d) => RetryReady(d)'
<1>1. InDisplayOrder(d.schedule) => InDisplayOrder(d.schedule)'
  BY DEF InDisplayOrder
<1>2. \A r : /\ RemainingSlots(r)' = RemainingSlots(r)
             /\ CompletedSlots(r)' = CompletedSlots(r)
             /\ RetryContextUnchanged(r)' = RetryContextUnchanged(r)
             /\ \A i : ReplyAnchor(r, i)' = ReplyAnchor(r, i)
  BY DEF RemainingSlots, CompletedSlots, RetryContextUnchanged, ReplyAnchor
<1>3. \A r, i : IsLastSpoken(r, i)' = IsLastSpoken(r, i)
  BY <1>2 DEF IsLastSpoken
<1>4. \A r, a : LastReply(r, a) => LastReply(r, a)'
  BY <1>2, <1>3 DEF LastReply
<1>5. \A r, s : IsRemainder(s, r) => IsRemainder(s, r)'
  BY <1>2 DEF IsRemainder
<1>6. RetryReady(d) => RetryReady(d)'
  BY <1>2, <1>4, <1>5 DEF RetryReady
<1>. QED
  BY <1>1, <1>4, <1>6

LEMMA DraftsAreFreshStep ==
  ASSUME TypeInv, StepsInTurn, RunsInOrder, CastInOrder, DraftsAreFresh, Next
  PROVE  DraftsAreFresh'
<1> SUFFICES ASSUME NEW w \in Worker, NEW d \in RunDraft,
                    pc'[w] = "admit", draft'[w] = d, room'.status # "deleted"
             PROVE  /\ d.expectedRevision <= room'.revision
                    /\ (d.parent = NoRun) = (d.trigger # "retry")
                    /\ d.parent = NoRun => d.root = NoRun
                    /\ d.expectedRevision = room'.revision =>
                         /\ room'.status = "active"
                         /\ InDisplayOrder(d.schedule)'
                         /\ d.parent # NoRun => RetryReady(d)'
  BY DEF DraftsAreFresh
<1>0. room.revision \in Nat /\ d.expectedRevision \in Nat
  BY DEF TypeInv, TypeOK, Room, RunDraft
<1>1. CASE \/ \E s \in Schedule, t \in {"user_message", "continue"} : ReadForTurn(w, s, t)
           \/ \E r \in Run, s \in Schedule : ReadForRetry(w, r, s)
  <2>1. /\ UNCHANGED <<room, run, step>>
        /\ d.expectedRevision = room.revision
        /\ (d.parent = NoRun) = (d.trigger # "retry")
        /\ d.parent = NoRun => d.root = NoRun
        /\ room.status = "active"
        /\ InDisplayOrder(d.schedule)
        /\ d.parent # NoRun => RetryReady(d)
    BY <1>1, ReadsAreFresh
  <2>2. InDisplayOrder(d.schedule)' /\ (d.parent # NoRun => RetryReady(d)')
    BY <2>1, ReadyUnchanged
  <2>. QED
    BY <1>0, <2>1, <2>2
<1>2. CASE pc[w] = "admit" /\ draft[w] = d
  <2>1. ~ DeleteRoom /\ room.status # "deleted"
    BY RevisionGuardsCast
  <2>2. /\ d.expectedRevision <= room.revision
        /\ (d.parent = NoRun) = (d.trigger # "retry")
        /\ d.parent = NoRun => d.root = NoRun
        /\ d.expectedRevision = room.revision =>
             /\ room.status = "active"
             /\ InDisplayOrder(d.schedule)
             /\ d.parent # NoRun => RetryReady(d)
    BY <1>2, <2>1 DEF DraftsAreFresh
  <2>3. room'.revision = room.revision \/ room'.revision = room.revision + 1
    BY <2>1, RevisionMoves
  <2>4. ASSUME d.expectedRevision = room'.revision
        PROVE  /\ room'.status = "active"
               /\ InDisplayOrder(d.schedule)'
               /\ d.parent # NoRun => RetryReady(d)'
    <3>1. room'.revision = room.revision /\ d.expectedRevision = room.revision
      BY <1>0, <2>2, <2>3, <2>4
    <3>2. room'.status = room.status /\ room'.roster = room.roster
      BY <3>1, RevisionGuardsCast
    <3>3. InDisplayOrder(d.schedule)'
      BY <2>2, <3>1, <3>2 DEF InDisplayOrder
    <3>4. d.parent # NoRun => RetryReady(d)'
      BY <2>2, <3>1, ReadyStays
    <3>. QED
      BY <2>2, <3>1, <3>2, <3>3, <3>4
  <2>. QED
    BY <1>0, <2>2, <2>3, <2>4
<1>. QED
  BY <1>1, <1>2, AdmissionsWait

\* A retry that is admitted continues its parent.
LEMMA AdmittedContinues ==
  ASSUME TypeInv, StepsInTurn, RunsInOrder, DraftsAreFresh, Next,
         NEW w \in Worker, NEW r \in Run, AdmitRun(w, r)
  PROVE  Continues(r)'
<1> SUFFICES ASSUME NEW p \in Run, NEW anchor \in Nat, p = run'[r].parent, anchor = run'[r].anchor
             PROVE  /\ run'[p].status \in {"partial", "failed"}
                    /\ run'[p].root = run'[r].root
                    /\ run'[r].expectedRevision = run'[p].expectedRevision + 1
                    /\ Cast(r)' = {step'[p][i].persona : i \in RemainingSlots(p)'}
                    /\ LastReply(p, anchor)'
  BY DEF Continues
<1>. DEFINE d == draft[w]
<1>1. /\ d \in RunDraft /\ d.parent = p /\ RetryReady(d)
      /\ d.anchor = anchor
      /\ run'[r].expectedRevision = room.revision
      /\ run'[r].root = IF d.root = NoRun THEN r ELSE d.root
  BY AdmissionIsReady, NullsAssumption
<1>2. Cast(r)' = {d.schedule[i] : i \in DOMAIN d.schedule}
  BY AdmittedCast
<1>3. room'.status # "deleted"
  BY DEF AdmitRun, CanAdmit, CanClaimRoom, TypeInv, TypeOK, Room
<1>. HIDE DEF d
<1>4. /\ run[p].status \in {"partial", "failed"} /\ run[p].root = d.root
      /\ room.revision = run[p].expectedRevision + 1
      /\ IsRemainder(d.schedule, p)
      /\ LastReply(p, anchor)
  BY <1>1 DEF RetryReady, RetryContextUnchanged
<1>5. /\ run'[p] = run[p]
      /\ \A i \in Slot : step'[p][i].persona = step[p][i].persona
      /\ RemainingSlots(p)' = RemainingSlots(p)
      /\ LastReply(p, anchor)'
  BY <1>3, <1>4, EndedRunStands
<1>6. {step'[p][i].persona : i \in RemainingSlots(p)'} = {step[p][i].persona : i \in RemainingSlots(p)}
  BY <1>5 DEF RemainingSlots
<1>7. d.root # NoRun
  BY <1>4, NullsAssumption DEF RunsInOrder
<1>. QED
  BY <1>1, <1>2, <1>4, <1>5, <1>6, <1>7 DEF IsRemainder

\* A run that continues its parent goes on doing so.
LEMMA ContinuesStep ==
  ASSUME TypeInv, StepsInTurn, Agreement, RunsInOrder, DraftsAreFresh, Next,
         NEW r \in Run, Continues(r)
  PROVE  Continues(r)'
<1>1. CASE \E w \in Worker : AdmitRun(w, r)
  BY <1>1, AdmittedContinues
<1>2. CASE run'[r].status = "absent" /\ run'[r] = NoRow
  BY <1>2, NullsAssumption DEF Continues, NoRow
<1>3. CASE DeleteRoom
  BY <1>2, <1>3, DeletionOfRuns DEF DeleteRoom, NoRow
<1>4. CASE ~ DeleteRoom /\ ~ (\E w \in Worker : AdmitRun(w, r)) /\ run[r].status = "absent"
  <2>1. run'[r] = run[r] /\ run[r] = NoRow
    BY <1>4, Moves DEF Quiet, Claims, CanClaimStep, Speaks, Fails, Cancels, RunsInOrder
  <2>. QED
    BY <1>2, <2>1 DEF NoRow
<1>5. ASSUME ~ DeleteRoom, ~ \E w \in Worker : AdmitRun(w, r), run[r].status # "absent",
             NEW p \in Run, NEW anchor \in Nat, p = run'[r].parent, anchor = run'[r].anchor
      PROVE  /\ run'[p].status \in {"partial", "failed"}
             /\ run'[p].root = run'[r].root
             /\ run'[r].expectedRevision = run'[p].expectedRevision + 1
             /\ Cast(r)' = {step'[p][i].persona : i \in RemainingSlots(p)'}
             /\ LastReply(p, anchor)'
  <2>1. /\ run'[r].parent = run[r].parent /\ run'[r].anchor = run[r].anchor
        /\ run'[r].root = run[r].root /\ run'[r].expectedRevision = run[r].expectedRevision
    BY <1>5, AnchorStays
  <2>2. /\ run[p].status \in {"partial", "failed"}
        /\ run[p].root = run[r].root
        /\ run[r].expectedRevision = run[p].expectedRevision + 1
        /\ Cast(r) = {step[p][i].persona : i \in RemainingSlots(p)}
        /\ LastReply(p, anchor)
    BY <1>5, <2>1 DEF Continues
  <2>3. room'.status # "deleted"
    BY <1>5, RoomIsDeletedOnce DEF Agreement, ClaimsKnow
  <2>4. /\ run'[p] = run[p]
        /\ \A i \in Slot : step'[p][i].persona = step[p][i].persona
        /\ RemainingSlots(p)' = RemainingSlots(p)
        /\ LastReply(p, anchor)'
    BY <2>2, <2>3, EndedRunStands
  <2>5. {step'[p][i].persona : i \in RemainingSlots(p)'} =
            {step[p][i].persona : i \in RemainingSlots(p)}
    BY <2>4 DEF RemainingSlots
  <2>6. Cast(r)' = Cast(r)
    BY <1>5, ScheduleStays
  <2>. QED
    BY <2>1, <2>2, <2>4, <2>5, <2>6
<1>6. CASE ~ DeleteRoom /\ ~ (\E w \in Worker : AdmitRun(w, r)) /\ run[r].status # "absent"
  BY <1>5, <1>6 DEF Continues
<1>. QED
  BY <1>1, <1>3, <1>4, <1>6

\* The speakers a retry casts have not spoken: its parent left them over, and they had not
\* spoken before the parent either.
LEMMA AdmittedUnspoken ==
  ASSUME TypeInv, RunsInOrder, CastInOrder, DraftsAreFresh, Unspoken,
         NEW w \in Worker, NEW r \in Run, AdmitRun(w, r), NEW s \in Run, s # r,
         run'[r].root = run[s].root, NEW i \in Scheduled(r)', NEW j \in CompletedSlots(s)
  PROVE  step'[r][i].persona # step[s][j].persona
<1>. DEFINE d == draft[w]
<1>1. /\ d \in RunDraft
      /\ d.parent = NoRun => d.root = NoRun
      /\ d.parent # NoRun => RetryReady(d)
      /\ run'[r].root = IF d.root = NoRun THEN r ELSE d.root
  BY AdmissionIsReady
<1>2. i \in DOMAIN d.schedule /\ step'[r][i].persona = d.schedule[i]
  BY AdmittedCast
<1>3. run[r].status = "absent"
  BY DEF AdmitRun
<1>. HIDE DEF d
<1>4. run[s].root # r
  BY <1>3, NullsAssumption DEF RunsInOrder, NoRow
<1>5. d.parent \in Run /\ RetryReady(d) /\ run[s].root = run[d.parent].root
  BY <1>1, <1>4, NullsAssumption DEF RunDraft, RetryReady
<1>6. PICK p \in Run : p = d.parent
  BY <1>5
<1>7. /\ run[p].status # "absent" /\ room.revision = run[p].expectedRevision + 1
      /\ IsRemainder(d.schedule, p)
  BY <1>5, <1>6 DEF RetryReady, RetryContextUnchanged
<1>8. PICK k \in RemainingSlots(p) : d.schedule[i] = step[p][k].persona
  BY <1>2, <1>7 DEF IsRemainder
<1>9. k \in Scheduled(p) /\ k \in Slot /\ j \in Scheduled(s) /\ j \in Slot
  BY DEF RemainingSlots, CompletedSlots, Scheduled
<1>10. run[s].status # "absent"
  <2> SUFFICES ASSUME run[s].status = "absent" PROVE FALSE
    OBVIOUS
  <2>1. run[s].root = NoRun
    BY DEF RunsInOrder, NoRow
  <2>2. run[p].root \in Run
    BY <1>7 DEF RunsInOrder
  <2>. QED
    BY <1>5, <1>6, <2>1, <2>2, NullsAssumption
<1>11. run[s].expectedRevision <= run[p].expectedRevision
  <2>1. run[s].expectedRevision \in Nat /\ run[p].expectedRevision \in Nat
    BY DEF TypeInv, TypeOK, RunRow
  <2>. QED
    BY <1>7, <1>10, <2>1 DEF RunsInOrder
<1>12. CASE run[s].expectedRevision = run[p].expectedRevision
  <2>1. s = p
    BY <1>7, <1>10, <1>12 DEF RunsInOrder
  <2>2. k # j
    BY <2>1 DEF RemainingSlots, CompletedSlots
  <2>3. room.roster[step[p][k].persona] # room.roster[step[p][j].persona]
    <3>1. k \in Nat /\ j \in Nat
      BY <1>9 DEF Slot
    <3>2. room.roster[step[p][k].persona] \in Nat /\ room.roster[step[p][j].persona] \in Nat
      <4>1. Place \subseteq Nat
        BY DEF Place
      <4>2. step[p][k].persona \in Persona /\ step[p][j].persona \in Persona
        BY <1>9, <2>1 DEF CastInOrder
      <4>. QED
        BY <4>1, <4>2 DEF TypeInv, TypeOK, Room
    <3>3. k < j \/ j < k
      BY <2>2, <3>1
    <3>. QED
      BY <1>9, <2>1, <3>2, <3>3 DEF CastInOrder
  <2>. QED
    BY <1>2, <1>8, <2>1, <2>3
<1>13. CASE run[s].expectedRevision < run[p].expectedRevision
  BY <1>2, <1>5, <1>6, <1>8, <1>9, <1>13 DEF Unspoken
<1>14. run[s].expectedRevision \in Nat /\ run[p].expectedRevision \in Nat
  BY DEF TypeInv, TypeOK, RunRow
<1>. QED
  BY <1>11, <1>12, <1>13, <1>14

LEMMA UnspokenStep ==
  ASSUME TypeInv, StepsInTurn, Agreement, RunsInOrder, CastInOrder, DraftsAreFresh, Unspoken, Next
  PROVE  Unspoken'
<1> SUFFICES ASSUME NEW r \in Run, NEW s \in Run, run'[r].root = run'[s].root,
                    run'[s].expectedRevision < run'[r].expectedRevision,
                    NEW i \in Scheduled(r)', NEW j \in CompletedSlots(s)'
             PROVE  step'[r][i].persona # step'[s][j].persona
  BY DEF Unspoken
<1>. i \in Slot /\ j \in Slot
  BY DEF Scheduled, CompletedSlots
<1>1. \A q \in Run : run'[q].expectedRevision \in Nat /\ run[q].expectedRevision \in Nat
  <2>1. TypeInv'
    BY NextTypeInv
  <2>. QED
    BY <2>1 DEF TypeInv, TypeOK, RunRow
<1>2. r # s
  BY <1>1
<1>3. ~ DeleteRoom
  BY DeletionOfRuns DEF Scheduled
<1>4. \A w \in Worker : ~ AdmitRun(w, s)
  BY AdmittedCast
<1>5. CASE \E w \in Worker : AdmitRun(w, r)
  <2>1. PICK w \in Worker : AdmitRun(w, r)
    BY <1>5
  <2>2. run'[s] = run[s] /\ step'[s] = step[s]
    BY <1>2, <2>1 DEF AdmitRun
  <2>3. j \in CompletedSlots(s) /\ step'[s][j] = step[s][j]
    BY <2>2 DEF CompletedSlots
  <2>. QED
    BY <1>2, <2>1, <2>2, <2>3, AdmittedUnspoken
<1>6. CASE ~ \E w \in Worker : AdmitRun(w, r)
  <2>1. /\ i \in Scheduled(r) /\ step'[r][i].persona = step[r][i].persona
        /\ j \in Scheduled(s) /\ step'[s][j].persona = step[s][j].persona
    BY <1>3, <1>4, <1>6, ScheduleStays DEF Scheduled, CompletedSlots
  <2>2. run[r].status # "absent" /\ run[s].status # "absent"
    BY <2>1 DEF Agreement, Settled
  <2>3. /\ run[r].root = run[s].root
        /\ run[s].expectedRevision < run[r].expectedRevision
    BY <1>3, <2>2, AnchorStays
  <2>4. j \in CompletedSlots(s)
    <3> SUFFICES ASSUME j \notin CompletedSlots(s) PROVE FALSE
      OBVIOUS
    <3>1. step[s][j].status # "completed" /\ step'[s][j].status = "completed"
      BY DEF CompletedSlots
    <3>2. Speaks(s, j)
      BY <1>3, <1>4, <3>1, SlotMoves DEF Kept, Turns, Claims, Fails
    <3>3. run[s].expectedRevision + 1 = room.revision
      BY <3>2 DEF Speaks, RunsInOrder
    <3>4. run[r].expectedRevision < room.revision /\ room.revision \in Nat
      BY <2>2 DEF RunsInOrder, TypeInv, TypeOK, Room
    <3>. QED
      BY <1>1, <2>3, <3>3, <3>4
  <2>. QED
    BY <2>1, <2>3, <2>4 DEF Unspoken
<1>. QED
  BY <1>5, <1>6

LEMMA InitHistory == Init => History
<1> SUFFICES ASSUME Init PROVE History
  OBVIOUS
<1>1. /\ \A r \in Run : run[r] = NoRow
      /\ \A r \in Run, i \in Slot : step[r][i] = NoStep
      /\ \A w \in Worker : pc[w] = "idle"
  BY DEF Init
<1>2. \A r \in Run : Scheduled(r) = {} /\ CompletedSlots(r) = {}
  BY <1>1 DEF Scheduled, CompletedSlots, NoStep
<1>3. RunsInOrder
  BY <1>1 DEF RunsInOrder, NoRow
<1>4. CastInOrder /\ Unspoken
  BY <1>2 DEF CastInOrder, Unspoken
<1>5. DraftsAreFresh
  BY <1>1 DEF DraftsAreFresh
<1>6. \A r \in Run : Continues(r)
  BY <1>1, NullsAssumption DEF Continues, NoRow
<1>. QED
  BY <1>3, <1>4, <1>5, <1>6 DEF History

LEMMA HistoryUnchanged == History /\ UNCHANGED vars => History'
<1> SUFFICES ASSUME History, UNCHANGED vars PROVE History'
  OBVIOUS
<1>1. UNCHANGED <<room, run, step, pc, draft>>
  BY DEF vars
<1>2. \A r : /\ Scheduled(r)' = Scheduled(r) /\ CompletedSlots(r)' = CompletedSlots(r)
             /\ RemainingSlots(r)' = RemainingSlots(r) /\ Cast(r)' = Cast(r)
  BY <1>1 DEF Scheduled, CompletedSlots, RemainingSlots, Cast
<1>3. RunsInOrder'
  BY <1>1 DEF History, RunsInOrder
<1>4. CastInOrder' /\ Unspoken'
  BY <1>1, <1>2 DEF History, CastInOrder, Unspoken
<1>5. DraftsAreFresh'
  BY <1>1, ReadyUnchanged DEF History, DraftsAreFresh
<1>6. ASSUME NEW r \in Run PROVE Continues(r)'
  <2>1. \A p, a : LastReply(p, a) => LastReply(p, a)'
    BY <1>1, ReadyUnchanged
  <2>2. Continues(r)
    BY DEF History
  <2>. QED
    BY <1>1, <1>2, <2>1, <2>2 DEF Continues
<1>. QED
  BY <1>3, <1>4, <1>5, <1>6 DEF History

LEMMA HistoryStep == TypeInv /\ StepsInTurn /\ Agreement /\ History /\ [Next]_vars => History'
<1> SUFFICES ASSUME TypeInv, StepsInTurn, Agreement, History, Next PROVE History'
  BY HistoryUnchanged
<1>1. RunsInOrder' /\ CastInOrder' /\ DraftsAreFresh' /\ Unspoken'
  BY RunsInOrderStep, CastInOrderStep, DraftsAreFreshStep, UnspokenStep DEF History
<1>2. \A r \in Run : Continues(r)'
  BY ContinuesStep DEF History
<1>. QED
  BY <1>1, <1>2 DEF History

LEMMA HistoryHolds == Spec => [](TypeInv /\ StepsInTurn /\ Agreement /\ History)
BY AgreementHolds, InitHistory, HistoryStep, PTL DEF Spec

\* A retry has a retryable parent of the same root, directly before it in the room's history,
\* casts exactly the speakers its parent left over, and answers its parent's last reply; and
\* whoever was scheduled stays in the room.
THEOREM RetriesContinueTheirParent == Spec => []RetryLineage
<1>1. TypeInv /\ History => RetryLineage
  <2> SUFFICES ASSUME TypeInv, History PROVE RetryLineage
    OBVIOUS
  <2>1. ASSUME NEW r \in Run, NEW q \in Persona, q \in Cast(r)
        PROVE  room.roster[q] > 0
    BY <2>1 DEF History, CastInOrder, Cast
  <2>2. ASSUME NEW r \in Run, NEW p, p = run[r].parent, p # NoRun
        PROVE  /\ run[p].status \in {"partial", "failed"}
               /\ run[p].root = run[r].root
               /\ run[r].expectedRevision = run[p].expectedRevision + 1
               /\ Cast(r) = {step[p][i].persona : i \in RemainingSlots(p)}
               /\ \E last \in 0..MaxSteps :
                    IsLastSpoken(p, last) /\ run[r].anchor = ReplyAnchor(p, last)
    <3>1. p \in Run /\ run[r].anchor \in Nat
      BY <2>2 DEF TypeInv, TypeOK, RunRow
    <3>2. PICK anchor \in Nat : anchor = run[r].anchor
      BY <3>1
    <3>3. /\ run[p].status \in {"partial", "failed"}
          /\ run[p].root = run[r].root
          /\ run[r].expectedRevision = run[p].expectedRevision + 1
          /\ Cast(r) = {step[p][i].persona : i \in RemainingSlots(p)}
          /\ LastReply(p, anchor)
      BY <2>2, <3>1, <3>2 DEF History, Continues
    <3>. QED
      BY <3>2, <3>3 DEF LastReply
  <2>. QED
    BY <2>1, <2>2 DEF RetryLineage
<1>. QED
  BY <1>1, HistoryHolds, PTL

\* A persona speaks at most once in a run and all its retries.
THEOREM NobodySpeaksTwice == Spec => []SpeaksOnce
<1>1. TypeInv /\ Agreement /\ History => SpeaksOnce
  <2> SUFFICES ASSUME TypeInv, Agreement, History, NEW r \in Run, NEW s \in Run,
                      NEW i \in CompletedSlots(r), NEW j \in CompletedSlots(s),
                      run[r].root = run[s].root, step[r][i].persona = step[s][j].persona
               PROVE  r = s /\ i = j
    BY DEF SpeaksOnce
  <2>1. i \in Slot /\ j \in Slot /\ i \in Scheduled(r) /\ j \in Scheduled(s)
    BY DEF CompletedSlots, Scheduled
  <2>2. run[r].status # "absent" /\ run[s].status # "absent"
    BY <2>1 DEF Agreement, Settled
  <2>3. run[r].expectedRevision \in Nat /\ run[s].expectedRevision \in Nat
    BY DEF TypeInv, TypeOK, RunRow
  <2>4. ~ (run[r].expectedRevision < run[s].expectedRevision)
    BY <2>1 DEF History, Unspoken
  <2>5. ~ (run[s].expectedRevision < run[r].expectedRevision)
    BY <2>1 DEF History, Unspoken
  <2>6. r = s
    BY <2>2, <2>3, <2>4, <2>5 DEF History, RunsInOrder
  <2>7. i = j
    <3>1. room.roster[step[r][i].persona] \in Nat
      <4>1. Place \subseteq Nat
        BY DEF Place
      <4>2. step[r][i].persona \in Persona
        BY <2>1 DEF History, CastInOrder
      <4>. QED
        BY <4>1, <4>2 DEF TypeInv, TypeOK, Room
    <3>2. ~ (i < j) /\ ~ (j < i)
      BY <2>1, <2>6, <3>1 DEF History, CastInOrder
    <3>. QED
      BY <2>1, <3>2 DEF Slot
  <2>. QED
    BY <2>6, <2>7
<1>. QED
  BY <1>1, HistoryHolds, PTL

\* Only an admission opens a run.
LEMMA AdmittedByWorker ==
  ASSUME TypeInv, StepsInTurn, Next, NEW r \in Run, Admitted(r)
  PROVE  \E w \in Worker : AdmitRun(w, r)
<1>1. ~ DeleteRoom
  BY DEF Admitted, DeleteRoom, NoRow
<1>. QED
  BY <1>1, Moves DEF Admitted, Quiet, Claims, CanClaimStep, Speaks, Fails, Cancels

\* What the service read before admission still holds when the run is admitted.
THEOREM AdmissionsAreFresh == Spec => AdmissionIsFresh
<1>1. TypeInv /\ StepsInTurn /\ History /\ Next =>
        \A r \in Run : Admitted(r) =>
          /\ room.status = "active"
          /\ \A i \in Scheduled(r)' : room.roster[step'[r][i].persona] > 0
          /\ \A i, j \in Scheduled(r)' :
               i < j => room.roster[step'[r][i].persona] < room.roster[step'[r][j].persona]
  <2> SUFFICES ASSUME TypeInv, StepsInTurn, History, Next, NEW r \in Run, Admitted(r)
               PROVE  /\ room.status = "active"
                      /\ \A i \in Scheduled(r)' : room.roster[step'[r][i].persona] > 0
                      /\ \A i, j \in Scheduled(r)' : i < j =>
                           room.roster[step'[r][i].persona] < room.roster[step'[r][j].persona]
    OBVIOUS
  <2>1. PICK w \in Worker : AdmitRun(w, r)
    BY AdmittedByWorker
  <2>2. room.status = "active" /\ InDisplayOrder(draft[w].schedule)
    BY <2>1, AdmissionIsReady DEF History
  <2>3. /\ Scheduled(r)' = DOMAIN draft[w].schedule
        /\ \A i \in DOMAIN draft[w].schedule : step'[r][i].persona = draft[w].schedule[i]
    BY <2>1, AdmittedCast
  <2>. QED
    BY <2>2, <2>3 DEF InDisplayOrder
<1>2. TypeInv /\ StepsInTurn /\ History /\ UNCHANGED vars =>
        \A r \in Run : Admitted(r) =>
          /\ room.status = "active"
          /\ \A i \in Scheduled(r)' : room.roster[step'[r][i].persona] > 0
          /\ \A i, j \in Scheduled(r)' :
               i < j => room.roster[step'[r][i].persona] < room.roster[step'[r][j].persona]
  BY DEF vars, Admitted
<1>. QED
  BY <1>1, <1>2, HistoryHolds, PTL DEF Spec, AdmissionIsFresh

\* A retry is admitted onto the transcript its parent left, with nothing said since.
THEOREM RetriesFindTheirTranscript == Spec => RetryContinuesTranscript
<1>1. TypeInv /\ StepsInTurn /\ History /\ Next =>
        \A r \in Run : Admitted(r) /\ run'[r].parent # NoRun =>
          room'.lastSeq = run[run'[r].parent].terminalSeq
  <2> SUFFICES ASSUME TypeInv, StepsInTurn, History, Next, NEW r \in Run, Admitted(r),
                      run'[r].parent # NoRun
               PROVE  room'.lastSeq = run[run'[r].parent].terminalSeq
    OBVIOUS
  <2>1. PICK w \in Worker : AdmitRun(w, r)
    BY AdmittedByWorker
  <2>2. /\ run'[r].parent = draft[w].parent
        /\ RetryReady(draft[w])
        /\ room'.lastSeq = room.lastSeq
    BY <2>1, AdmissionIsReady DEF History
  <2>. QED
    BY <2>2 DEF RetryReady, RetryContextUnchanged
<1>2. TypeInv /\ StepsInTurn /\ History /\ UNCHANGED vars =>
        \A r \in Run : Admitted(r) /\ run'[r].parent # NoRun =>
          room'.lastSeq = run[run'[r].parent].terminalSeq
  BY DEF vars, Admitted
<1>. QED
  BY <1>1, <1>2, HistoryHolds, PTL DEF Spec, RetryContinuesTranscript

-----------------------------------------------------------------------------
(* The room as its readers see it.                                         *)

\* The messages of a room are numbered without a gap.
Numbered ==
    /\ \A m \in message : m.seq \in 1..room.lastSeq
    /\ \A k \in 1..room.lastSeq : \E m \in message : m.seq = k
    /\ \A m, n \in message : m.seq = n.seq => m = n

\* A step adds one message, in the name of run r and slot i, or none.
Grows(r, i) ==
    /\ room'.lastSeq = NextSeq
    /\ \E m : m.seq = NextSeq /\ m.run = r /\ m.slot = i /\ message' = message \union {m}

Adds == message' # message \/ room'.lastSeq # room.lastSeq

LEMMA AdmissionGrows ==
  ASSUME TypeInv, NEW w \in Worker, NEW r \in Run, AdmitRun(w, r)
  PROVE  ~ Adds \/ Grows(r, 0)
<1>. room \in Room
  BY DEF TypeInv, TypeOK
<1>. DEFINE new == [seq |-> NextSeq, run |-> r, slot |-> 0, replyTo |-> 0, epoch |-> 0]
<1>1. CASE draft[w].trigger = "user_message"
  <2>1. room'.lastSeq = NextSeq /\ message' = message \union {new}
    BY <1>1 DEF AdmitRun, NextSeq, Room
  <2>2. new.seq = NextSeq /\ new.run = r /\ new.slot = 0
    OBVIOUS
  <2>. HIDE DEF new
  <2>. QED
    BY <2>1, <2>2 DEF Grows
<1>2. CASE draft[w].trigger # "user_message"
  BY <1>2 DEF AdmitRun, Adds, Room
<1>. QED
  BY <1>1, <1>2

LEMMA ReplyGrows ==
  ASSUME TypeInv, NEW w \in Worker, CompleteStep(w)
  PROVE  \E r \in Run, i \in Slot : exec[w].run = r /\ exec[w].slot = i /\ Grows(r, i)
<1>1. PICK r \in Run : exec[w].run = r
  BY DEF CompleteStep, TypeInv, Located
<1>2. PICK i \in Slot : exec[w].slot = i
  BY DEF CompleteStep, TypeInv, Located
<1>. DEFINE new == [seq |-> NextSeq, run |-> r, slot |-> i, replyTo |-> step[r][i].replyTo,
                    epoch |-> exec[w].epoch]
<1>3. room'.lastSeq = NextSeq /\ message' = message \union {new}
  BY <1>1, <1>2 DEF CompleteStep, NextSeq, TypeInv, TypeOK, Room
<1>4. new.seq = NextSeq /\ new.run = r /\ new.slot = i
  OBVIOUS
<1>. HIDE DEF new
<1>5. Grows(r, i)
  BY <1>3, <1>4 DEF Grows
<1>. QED
  BY <1>1, <1>2, <1>5

LEMMA OthersAddNothing ==
  ASSUME TypeInv, Next, ~ DeleteRoom, \A w \in Worker : ~ CompleteStep(w),
         \A w \in Worker, r \in Run : ~ AdmitRun(w, r)
  PROVE  ~ Adds
<1>1. message' = message
  BY MessageWrites
<1>2. ASSUME NEW w \in Worker, CommitEdit(w)
      PROVE  room'.lastSeq = room.lastSeq
  BY <1>2 DEF CommitEdit, TypeInv, TypeOK, Room
<1>3. room'.lastSeq = room.lastSeq
  BY <1>2, RoomMoves
<1>. QED
  BY <1>1, <1>3 DEF Adds

LEMMA NumberedGrows ==
  ASSUME TypeInv, Numbered, NEW r, NEW i, Grows(r, i)
  PROVE  Numbered'
<1>1. room.lastSeq \in Nat
  BY DEF TypeInv, TypeOK, Room
<1>2. PICK new : new.seq = NextSeq /\ message' = message \union {new}
  BY DEF Grows
<1>3. room'.lastSeq = room.lastSeq + 1 /\ NextSeq = room.lastSeq + 1
  BY DEF Grows, NextSeq
<1>4. \A m \in message' : m.seq \in 1..room'.lastSeq
  BY <1>1, <1>2, <1>3 DEF Numbered
<1>5. ASSUME NEW k \in 1..room'.lastSeq
      PROVE  \E m \in message' : m.seq = k
  <2>1. k \in 1..room.lastSeq \/ k = NextSeq
    BY <1>1, <1>3
  <2>. QED
    BY <1>2, <2>1 DEF Numbered
<1>6. ASSUME NEW m \in message', NEW n \in message', m.seq = n.seq
      PROVE  m = n
  <2>1. \A l \in message : l.seq # NextSeq
    BY <1>1, <1>3 DEF Numbered
  <2>. QED
    BY <1>2, <1>6, <2>1 DEF Numbered
<1>. QED
  BY <1>4, <1>5, <1>6 DEF Numbered

LEMMA NumberedStep == TypeInv /\ Numbered /\ [Next]_vars => Numbered'
<1> SUFFICES ASSUME TypeInv, Numbered, Next PROVE Numbered'
  BY DEF vars, Numbered
<1>1. CASE DeleteRoom
  <2>1. room'.lastSeq = 0 /\ message' = {}
    BY <1>1 DEF DeleteRoom, TypeInv, TypeOK, Room
  <2>. QED
    BY <2>1 DEF Numbered
<1>2. ASSUME ~ Adds PROVE Numbered'
  BY <1>2 DEF Adds, Numbered
<1>3. ASSUME NEW w \in Worker, NEW r \in Run, AdmitRun(w, r) PROVE Numbered'
  BY <1>2, <1>3, AdmissionGrows, NumberedGrows
<1>4. ASSUME NEW w \in Worker, CompleteStep(w) PROVE Numbered'
  BY <1>4, ReplyGrows, NumberedGrows
<1>. QED
  BY <1>1, <1>2, <1>3, <1>4, OthersAddNothing

LEMMA InitNumbered == Init => Numbered
<1> SUFFICES ASSUME Init PROVE Numbered
  OBVIOUS
<1>1. \/ room.lastSeq = 0 /\ message = {}
      \/ room.lastSeq = 1 /\ message = {OpeningMessage}
  <2>1. PICK opening \in SUBSET {OpeningMessage} :
          room.lastSeq = (IF opening = {} THEN 0 ELSE 1) /\ message = opening
    BY DEF Init
  <2>. QED
    BY <2>1
<1>2. OpeningMessage.seq = 1
  BY DEF OpeningMessage
<1>. HIDE DEF OpeningMessage
<1>. QED
  BY <1>1, <1>2 DEF Numbered

\* The line of a message is at its number.
LEMMA TranscriptLines ==
  TypeInv /\ Numbered =>
    /\ Transcript \in Seq(Reader!Line)
    /\ DOMAIN Transcript = 1..room.lastSeq
    /\ Len(Transcript) = room.lastSeq
    /\ \A m \in message : Transcript[m.seq] = [run |-> m.run, slot |-> m.slot]
<1> SUFFICES ASSUME TypeInv, Numbered
             PROVE  /\ Transcript \in Seq(Reader!Line)
                    /\ DOMAIN Transcript = 1..room.lastSeq
                    /\ Len(Transcript) = room.lastSeq
                    /\ \A m \in message : Transcript[m.seq] = [run |-> m.run, slot |-> m.slot]
  OBVIOUS
<1>0. room.lastSeq \in Nat /\ message \subseteq Message
  BY DEF TypeInv, TypeOK, Room
<1>. DEFINE at(k) == CHOOSE m \in message : m.seq = k
<1>1. Transcript = [k \in 1..room.lastSeq |-> [run |-> at(k).run, slot |-> at(k).slot]]
  BY DEF Transcript
<1>2. ASSUME NEW m \in message PROVE at(m.seq) = m
  BY DEF Numbered
<1>3. ASSUME NEW k \in 1..room.lastSeq PROVE at(k) \in message
  BY DEF Numbered
<1>. HIDE DEF at
<1>4. ASSUME NEW m \in message
      PROVE  Transcript[m.seq] = [run |-> m.run, slot |-> m.slot]
  BY <1>1, <1>2 DEF Numbered
<1>5. ASSUME NEW k \in 1..room.lastSeq
      PROVE  [run |-> at(k).run, slot |-> at(k).slot] \in Reader!Line
  BY <1>0, <1>3 DEF Message, Reader!Line
<1>6. Transcript \in [1..room.lastSeq -> Reader!Line]
  BY <1>1, <1>5
<1>7. Transcript \in Seq(Reader!Line) /\ Len(Transcript) = room.lastSeq
  BY <1>0, <1>6, IsASeq
<1>. QED
  BY <1>1, <1>4, <1>7

LEMMA TranscriptLinesNext ==
  (TypeInv /\ Numbered =>
    /\ Transcript \in Seq(Reader!Line)
    /\ DOMAIN Transcript = 1..room.lastSeq
    /\ Len(Transcript) = room.lastSeq
    /\ \A m \in message : Transcript[m.seq] = [run |-> m.run, slot |-> m.slot])'
BY TranscriptLines, PTL

\* A message added to the room is a line appended to the transcript.
LEMMA GrowthAppends ==
  ASSUME TypeInv, Numbered, TypeInv', Numbered', NEW r, NEW i, Grows(r, i)
  PROVE  Transcript' = Append(Transcript, [run |-> r, slot |-> i])
<1>. DEFINE line == [run |-> r, slot |-> i]
<1>0. room.lastSeq \in Nat
  BY DEF TypeInv, TypeOK, Room
<1>1. PICK new : new.seq = NextSeq /\ new.run = r /\ new.slot = i /\ message' = message \union {new}
  BY DEF Grows
<1>2. room'.lastSeq = room.lastSeq + 1 /\ NextSeq = room.lastSeq + 1
  BY DEF Grows, NextSeq
<1>3. /\ Transcript \in Seq(Reader!Line) /\ Len(Transcript) = room.lastSeq
      /\ \A m \in message : Transcript[m.seq] = [run |-> m.run, slot |-> m.slot]
  BY TranscriptLines
<1>4. /\ Transcript' \in Seq(Reader!Line) /\ Len(Transcript') = room'.lastSeq
      /\ \A m \in message' : Transcript'[m.seq] = [run |-> m.run, slot |-> m.slot]
  BY TranscriptLinesNext DEF Reader!Line
<1>5. line \in Reader!Line
  <2>1. new \in Message
    BY <1>1 DEF TypeInv, TypeOK
  <2>. QED
    BY <1>1, <2>1 DEF Message, Reader!Line
<1>. HIDE DEF line
<1>6. /\ Append(Transcript, line) \in Seq(Reader!Line)
      /\ Len(Append(Transcript, line)) = room.lastSeq + 1
      /\ \A k \in 1..room.lastSeq : Append(Transcript, line)[k] = Transcript[k]
      /\ Append(Transcript, line)[room.lastSeq + 1] = line
  BY <1>3, <1>5, AppendProperties
<1>7. ASSUME NEW k \in 1..Len(Transcript')
      PROVE  Transcript'[k] = Append(Transcript, line)[k]
  <2>1. CASE k \in 1..room.lastSeq
    <3>1. PICK m \in message : m.seq = k
      BY <2>1 DEF Numbered
    <3>2. m \in message'
      BY <1>1
    <3>. QED
      BY <1>3, <1>4, <1>6, <2>1, <3>1, <3>2
  <2>2. CASE k = room.lastSeq + 1
    BY <1>1, <1>2, <1>4, <1>6, <2>2 DEF line
  <2>3. k \in 1..(room.lastSeq + 1)
    BY <1>2, <1>4
  <2>4. k \in 1..room.lastSeq \/ k = room.lastSeq + 1
    BY <1>0, <2>3
  <2>. QED
    BY <2>1, <2>2, <2>4
<1>8. Transcript' = Append(Transcript, line)
  BY <1>2, <1>4, <1>6, <1>7, SeqEqual
<1>. QED
  BY <1>8 DEF line

LEMMA NoGrowthKeeps ==
  ASSUME ~ Adds
  PROVE  Transcript' = Transcript
BY DEF Adds, Transcript

\* Who has spoken in the transcript.
LEMMA SpokenAreReplies ==
  ASSUME TypeInv, Numbered, NEW r \in Run, NEW i
  PROVE  i \in Reader!Spoken(r) <=> \E m \in message : m.run = r /\ m.slot = i
<1>1. /\ DOMAIN Transcript = 1..room.lastSeq
      /\ \A m \in message : Transcript[m.seq] = [run |-> m.run, slot |-> m.slot]
  BY TranscriptLines
<1>2. ASSUME NEW m \in message, m.run = r, m.slot = i
      PROVE  i \in Reader!Spoken(r)
  <2>1. m.seq \in DOMAIN Transcript
    BY <1>1 DEF Numbered
  <2>2. Transcript[m.seq] = [run |-> r, slot |-> i]
    BY <1>1, <1>2
  <2>. QED
    BY <2>1, <2>2 DEF Reader!Spoken
<1>3. ASSUME i \in Reader!Spoken(r)
      PROVE  \E m \in message : m.run = r /\ m.slot = i
  <2>1. PICK k \in DOMAIN Transcript : Transcript[k].run = r /\ Transcript[k].slot = i
    BY <1>3 DEF Reader!Spoken
  <2>2. PICK m \in message : m.seq = k
    BY <1>1, <2>1 DEF Numbered
  <2>3. Transcript[k] = [run |-> m.run, slot |-> m.slot]
    BY <1>1, <2>2
  <2>. QED
    BY <2>1, <2>3
<1>. QED
  BY <1>2, <1>3

\* The speaker of a claimed step is the next to speak.
LEMMA SpeakerIsNext ==
  ASSUME TypeInv, StepsInTurn, Agreement, Numbered, NEW r \in Run, NEW i \in Slot,
         step[r][i].status = "generating"
  PROVE  i \notin Reader!Spoken(r) /\ 1..(i - 1) \subseteq Reader!Spoken(r)
<1>1. i \notin Reader!Spoken(r)
  <2>1. Replies(r, i) = {}
    BY DEF Agreement, Told
  <2>. QED
    BY <2>1, SpokenAreReplies DEF Replies
<1>2. ASSUME NEW j \in 1..(i - 1) PROVE j \in Reader!Spoken(r)
  <2>1. j \in Slot /\ j < i
    BY MaxStepsAssumption DEF Slot
  <2>2. step[r][j].status = "completed"
    BY <2>1 DEF StepsInTurn, InTurn
  <2>3. \E m : m \in Replies(r, j)
    BY <2>1, <2>2 DEF Agreement, Told
  <2>. QED
    BY <2>3, SpokenAreReplies DEF Replies
<1>. QED
  BY <1>1, <1>2

\* The phases of the runs when one run changes its status.
LEMMA PhaseMoves ==
  ASSUME TypeInv, NEW r \in Run, \A s \in Run \ {r} : run'[s].status = run[s].status,
         NEW ph, ph = CASE run'[r].status = "absent"  -> "new"
                        [] run'[r].status = "pending" -> "open"
                        [] OTHER -> "closed"
  PROVE  Phase' = [Phase EXCEPT ![r] = ph]
BY DEF Phase

LEMMA DeletionErases ==
  ASSUME TypeInv, DeleteRoom
  PROVE  Reader!Erase
<1>1. room'.status = "deleted" /\ room'.lastSeq = 0 /\ \A r \in Run : run[r].status # "pending"
  BY DEF DeleteRoom, CanClaimRoom, NoPendingRun, TypeInv, TypeOK, Room
<1>2. Transcript' = <<>>
  BY <1>1 DEF Transcript
<1>3. Phase' = [r \in Run |-> "new"]
  BY DEF DeleteRoom, Phase, NoRow
<1>4. \A r \in Run : Phase[r] # "open"
  BY <1>1 DEF Phase
<1>. QED
  BY <1>1, <1>2, <1>3, <1>4 DEF Reader!Erase

LEMMA AdmissionOpens ==
  ASSUME TypeInv, Numbered, TypeInv', Numbered', NEW w \in Worker, NEW r \in Run, AdmitRun(w, r)
  PROVE  Reader!Open(r)
<1>1. /\ run[r].status = "absent" /\ run'[r].status = "pending"
      /\ \A s \in Run \ {r} : run'[s] = run[s]
      /\ \A s \in Run : run[s].status # "pending"
      /\ room.status # "deleted" /\ room'.status = room.status
  BY DEF AdmitRun, CanAdmit, CanClaimRoom, NoPendingRun, AdmittedRow, TypeInv, TypeOK, Room
<1>2. Phase[r] = "new" /\ \A s \in Run : Phase[s] # "open"
  BY <1>1 DEF Phase
<1>3. Phase' = [Phase EXCEPT ![r] = "open"]
  BY <1>1, PhaseMoves
<1>4. Transcript' = Append(Transcript, [run |-> r, slot |-> 0]) \/ Transcript' = Transcript
  BY AdmissionGrows, GrowthAppends, NoGrowthKeeps
<1>. QED
  BY <1>1, <1>2, <1>3, <1>4 DEF Reader!Open

LEMMA ReplySpeaks ==
  ASSUME TypeInv, StepsInTurn, Agreement, Numbered, TypeInv', Numbered',
         NEW w \in Worker, CompleteStep(w)
  PROVE  \E r \in Run, i \in Slot : Reader!Speak(r, i)
<1>1. PICK r \in Run, i \in Slot : exec[w].run = r /\ exec[w].slot = i /\ Grows(r, i)
  BY ReplyGrows
<1>2. /\ run[r].status = "pending" /\ step[r][i].status = "generating"
      /\ room'.status = room.status
  BY <1>1 DEF CompleteStep, OwnsEpoch, TypeInv, TypeOK, Room
<1>3. run' = run \/ /\ \A s \in Run \ {r} : run'[s] = run[s]
                    /\ run'[r].status = "completed"
  BY <1>1 DEF CompleteStep, TypeInv, TypeOK, RunRow
<1>4. Phase' = Phase \/ Phase' = [Phase EXCEPT ![r] = "closed"]
  <2>1. run' = run => Phase' = Phase
    BY DEF Phase
  <2>. QED
    BY <1>3, <2>1, PhaseMoves
<1>5. Transcript' = Append(Transcript, [run |-> r, slot |-> i])
  BY <1>1, GrowthAppends
<1>6. Phase[r] = "open"
  BY <1>2 DEF Phase
<1>7. i \notin Reader!Spoken(r) /\ 1..(i - 1) \subseteq Reader!Spoken(r)
  BY <1>2, SpeakerIsNext
<1>8. Reader!Speak(r, i)
  BY <1>2, <1>4, <1>5, <1>6, <1>7 DEF Reader!Speak
<1>. QED
  BY <1>8

\* Any other step closes a run or shows nothing.
LEMMA OthersClose ==
  ASSUME TypeInv, Next, ~ DeleteRoom, \A w \in Worker : ~ CompleteStep(w),
         \A w \in Worker, r \in Run : ~ AdmitRun(w, r)
  PROVE  (\E r \in Run : Reader!Close(r)) \/ UNCHANGED Reader!vars
<1>1. Transcript' = Transcript
  BY OthersAddNothing, NoGrowthKeeps
<1>2. (room'.status = "deleted") = (room.status = "deleted")
  <2>1. ASSUME NEW w \in Worker, CommitEdit(w)
        PROVE  room.status # "deleted"
    BY <2>1 DEF CommitEdit, CanEdit, CanClaimRoom
  <2>. QED
    BY <2>1, RoomMoves, RoomIsDeletedOnce
<1>3. ASSUME NEW r \in Run, EndsRun(r)
      PROVE  Reader!Close(r)
  <2>1. /\ run[r].status = "pending" /\ run'[r].status \in Terminal
        /\ \A s \in Run \ {r} : run'[s] = run[s]
    BY <1>3 DEF EndsRun, TypeInv, TypeOK, RunRow
  <2>2. Phase' = [Phase EXCEPT ![r] = "closed"]
    BY <2>1, PhaseMoves DEF Terminal
  <2>3. Phase[r] = "open"
    BY <2>1 DEF Phase
  <2>. QED
    BY <1>1, <1>2, <2>2, <2>3 DEF Reader!Close
<1>4. run' = run => Phase' = Phase
  BY DEF Phase
<1>. QED
  BY <1>1, <1>2, <1>3, <1>4, RunWrites DEF Reader!vars

LEMMA ReaderInit == Init => Reader!Init
<1> SUFFICES ASSUME Init PROVE Reader!Init
  OBVIOUS
<1>1. Phase = [r \in Run |-> "new"]
  BY DEF Init, Phase, NoRow
<1>2. Transcript \in {<<>>, <<[run |-> NoRun, slot |-> 0]>>}
  <2>1. \/ room.lastSeq = 0
        \/ room.lastSeq = 1 /\ message = {OpeningMessage}
    <3>1. PICK opening \in SUBSET {OpeningMessage} :
            room.lastSeq = (IF opening = {} THEN 0 ELSE 1) /\ message = opening
      BY DEF Init
    <3>. QED
      BY <3>1
  <2>2. CASE room.lastSeq = 0
    BY <2>2 DEF Transcript
  <2>3. CASE room.lastSeq = 1 /\ message = {OpeningMessage}
    <3>1. (CHOOSE m \in message : m.seq = 1) = OpeningMessage
      BY <2>3 DEF OpeningMessage
    <3>2. Transcript = [k \in 1..1 |-> [run |-> NoRun, slot |-> 0]]
      BY <2>3, <3>1 DEF Transcript, OpeningMessage
    <3>. QED
      BY <3>2
  <2>. QED
    BY <2>1, <2>2, <2>3
<1>3. room.status # "deleted"
  BY DEF Init
<1>. QED
  BY <1>1, <1>2, <1>3 DEF Reader!Init

\* The leased, fenced and retried execution implements the room's promise: one growing
\* transcript, written by one run at a time, every speaker in order and once.
THEOREM RoomImplementsTranscript == Spec => ImplementsTranscript
<1>1. ASSUME TypeInv, StepsInTurn, Agreement, Numbered, TypeInv', Numbered', [Next]_vars
      PROVE  [Reader!Next]_(Reader!vars)
  <2>1. CASE UNCHANGED vars
    BY <2>1 DEF vars, Reader!vars, Transcript, Phase
  <2>2. CASE DeleteRoom
    BY <1>1, <2>2, DeletionErases DEF Reader!Next
  <2>3. ASSUME NEW w \in Worker, NEW r \in Run, AdmitRun(w, r)
        PROVE  Reader!Next
    BY <1>1, <2>3, AdmissionOpens DEF Reader!Next
  <2>4. ASSUME NEW w \in Worker, CompleteStep(w)
        PROVE  Reader!Next
    BY <1>1, <2>4, ReplySpeaks DEF Reader!Next, Slot
  <2>5. ASSUME Next, ~ DeleteRoom, \A w \in Worker : ~ CompleteStep(w),
               \A w \in Worker, r \in Run : ~ AdmitRun(w, r)
        PROVE  [Reader!Next]_(Reader!vars)
    BY <1>1, <2>5, OthersClose DEF Reader!Next
  <2>. QED
    BY <1>1, <2>1, <2>2, <2>3, <2>4, <2>5
<1>2. TypeInv /\ StepsInTurn /\ Agreement /\ Numbered /\ TypeInv' /\ Numbered' /\ [Next]_vars
        => [Reader!Next]_(Reader!vars)
  BY <1>1
<1>. QED
  BY <1>2, ReaderInit, AgreementHolds, InitNumbered, NumberedStep, PTL
     DEF Spec, ImplementsTranscript, Reader!Spec
=============================================================================
