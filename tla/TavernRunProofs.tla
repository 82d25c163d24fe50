--------------------------- MODULE TavernRunProofs ---------------------------
(***************************************************************************)
(* What TLAPS proves of TavernRun, for any number of personas, workers,    *)
(* runs, steps and claims: types, one pending run, no lost edit, and that  *)
(* a run that has ended is frozen.  TavernTranscriptProofs goes on from    *)
(* here to the transcript and to retries.                                  *)
(***************************************************************************)
EXTENDS TavernRun, FiniteSetTheorems, TLAPS

\* What a worker remembers matches where it stands: an admission holds a run, an edit
\* holds a room, an execution names a run and, once it claims, a slot.
Located ==
    \A w \in Worker :
       /\ pc[w] = "admit" => draft[w] \in RunDraft
       /\ pc[w] = "edit" => draft[w] \in RoomDraft
       /\ pc[w] \in {"load", "claim", "hold", "commit", "fail", "lost", "unbound"} =>
                                exec[w].run \in Run
       /\ pc[w] \in {"claim", "hold", "commit", "fail", "lost"} => exec[w].slot \in Slot

TypeInv == TypeOK /\ Located

USE DEF PersonaAssumption, MaxStepsAssumption, MaxClaimsAssumption, LeaseLenAssumption,
        BoundsAssumption

LEMMA PlaceHasZero == 0 \in Place
<1>1. Cardinality(Persona) \in Nat
  BY PersonaAssumption, FS_CardinalityType
<1>. QED
  BY <1>1 DEF Place

LEMMA ScheduleEntries ==
  ASSUME NEW s \in Schedule, NEW i \in DOMAIN s
  PROVE  s[i] \in Persona
BY MaxStepsAssumption DEF Schedule, Slot

LEMMA NullRowsTyped == NoRow \in RunRow /\ NoStep \in StepRow /\ NoExec \in Exec
BY MaxStepsAssumption, MaxClaimsAssumption, LeaseLenAssumption
   DEF NoRow, RunRow, RunStatus, Terminal, NoStep, StepRow, StepStatus, NoExec, Exec

LEMMA FreshExecTyped ==
  ASSUME NEW r \in Run
  PROVE  /\ [NoExec EXCEPT !.run = r] \in Exec
         /\ [NoExec EXCEPT !.run = r].run = r
<1>1. NoExec \in Exec
  BY NullRowsTyped
<1>. QED
  BY <1>1 DEF Exec

LEMMA InitTypeInv == Init => TypeInv
<1> SUFFICES ASSUME Init PROVE TypeInv
  OBVIOUS
<1>1. room \in Room /\ message \subseteq Message
  BY MaxStepsAssumption DEF Init, Room, Roster, Message, OpeningMessage
<1>2. run \in [Run -> RunRow] /\ step \in [Run -> [Slot -> StepRow]] /\ exec \in [Worker -> Exec]
  BY NullRowsTyped DEF Init
<1>3. pc \in [Worker -> Pc] /\ draft \in [Worker -> RunDraft \union RoomDraft \union {NoDraft}]
      /\ crashes \in 0..MaxCrashes
  BY BoundsAssumption DEF Init, Pc
<1>4. Located
  BY DEF Init, Located
<1>. QED
  BY <1>1, <1>2, <1>3, <1>4 DEF TypeInv, TypeOK

\* A request that ends leaves nothing behind that an invariant could ask about.
LEMMA ReleaseTyped ==
  ASSUME TypeInv, NEW w \in Worker, Release(w)
  PROVE  /\ pc' \in [Worker -> Pc]
         /\ draft' \in [Worker -> RunDraft \union RoomDraft \union {NoDraft}]
         /\ exec' \in [Worker -> Exec]
         /\ Located'
<1>1. pc' \in [Worker -> Pc] /\ draft' \in [Worker -> RunDraft \union RoomDraft \union {NoDraft}]
  BY DEF TypeInv, TypeOK, Release, Pc
<1>2. exec' \in [Worker -> Exec]
  BY NullRowsTyped DEF TypeInv, TypeOK, Release
<1>3. Located'
  BY DEF TypeInv, TypeOK, Located, Release
<1>. QED
  BY <1>1, <1>2, <1>3

LEMMA ReplyAnchorTyped ==
  ASSUME TypeOK, NEW r \in Run, NEW last \in 0..MaxSteps
  PROVE  ReplyAnchor(r, last) \in Nat
<1>1. CASE last = 0
  BY <1>1 DEF TypeOK, RunRow, ReplyAnchor
<1>2. CASE last # 0
  <2>1. last \in Slot
    BY <1>2, MaxStepsAssumption DEF Slot
  <2>2. step[r][last] \in StepRow
    BY <2>1 DEF TypeOK
  <2>. QED
    BY <1>2, <2>2 DEF StepRow, ReplyAnchor
<1>. QED
  BY <1>1, <1>2

LEMMA ReadsTyped ==
  ASSUME TypeInv, NEW w \in Worker,
         \/ \E s \in Schedule, t \in {"user_message", "continue"} : ReadForTurn(w, s, t)
         \/ \E r \in Run, s \in Schedule : ReadForRetry(w, r, s)
         \/ \E s \in {"active", "archived"}, o \in Roster : ReadForEdit(w, s, o)
  PROVE  TypeInv'
<1>1. ASSUME NEW s \in Schedule, NEW t \in {"user_message", "continue"}, ReadForTurn(w, s, t)
      PROVE  TypeInv'
  <2>1. draft'[w] \in RunDraft
    BY <1>1 DEF ReadForTurn, TypeInv, TypeOK, RunDraft, Room
  <2>. QED
    BY <1>1, <2>1 DEF ReadForTurn, TypeInv, TypeOK, Located, Pc
<1>2. ASSUME NEW r \in Run, NEW s \in Schedule, ReadForRetry(w, r, s)
      PROVE  TypeInv'
  <2>1. \A last \in 0..MaxSteps : ReplyAnchor(r, last) \in Nat
    BY ReplyAnchorTyped DEF TypeInv
  <2>2. draft'[w] \in RunDraft
    BY <1>2, <2>1 DEF ReadForRetry, TypeInv, TypeOK, RunDraft, Room, RunRow
  <2>. QED
    BY <1>2, <2>2 DEF ReadForRetry, TypeInv, TypeOK, Located, Pc
<1>3. ASSUME NEW s \in {"active", "archived"}, NEW o \in Roster, ReadForEdit(w, s, o)
      PROVE  TypeInv'
  <2>1. draft'[w] \in RoomDraft
    BY <1>3 DEF ReadForEdit, TypeInv, TypeOK, RoomDraft, Room, Roster
  <2>. QED
    BY <1>3, <2>1 DEF ReadForEdit, TypeInv, TypeOK, Located, Pc
<1>. QED
  BY <1>1, <1>2, <1>3

\* A table of steps stays one when the row of a slot is replaced by a row.
LEMMA StepReplaced ==
  ASSUME TypeOK, NEW r \in Run, NEW i \in Slot, NEW new \in StepRow
  PROVE  [step EXCEPT ![r][i] = new] \in [Run -> [Slot -> StepRow]]
BY DEF TypeOK

\* The same for the steps of a run.
LEMMA StepsReplaced ==
  ASSUME TypeOK, NEW r \in Run, NEW new \in [Slot -> StepRow]
  PROVE  [step EXCEPT ![r] = new] \in [Run -> [Slot -> StepRow]]
BY DEF TypeOK

LEMMA AdmissionTyped ==
  ASSUME TypeInv, NEW w \in Worker, NEW r \in Run, AdmitRun(w, r)
  PROVE  TypeInv'
<1>. DEFINE d == draft[w]
<1>1. d \in RunDraft
  BY DEF AdmitRun, TypeInv, Located
<1>2. room' \in Room
  <2>1. room \in Room
    BY DEF TypeInv, TypeOK
  <2>2. room.revision + 1 \in Nat /\ room.lastSeq \in Nat /\ room.lastSeq + 1 \in Nat
    BY <2>1 DEF Room
  <2>3. CASE d.trigger = "user_message"
    BY <2>1, <2>2, <2>3 DEF AdmitRun, Room
  <2>4. CASE d.trigger # "user_message"
    BY <2>1, <2>2, <2>4 DEF AdmitRun, Room
  <2>. QED
    BY <2>3, <2>4
<1>3. AdmittedRow(r, d) \in RunRow
  BY <1>1 DEF AdmittedRow, RunDraft, RunRow, RunStatus, TypeInv, TypeOK, Room, NextSeq
<1>4. run' \in [Run -> RunRow]
  BY <1>3 DEF AdmitRun, TypeInv, TypeOK
<1>5. AdmittedSteps(d, AdmittedRow(r, d).anchor) \in [Slot -> StepRow]
  <2>1. AdmittedRow(r, d).anchor \in Nat
    BY <1>3 DEF RunRow
  <2>2. \A i \in DOMAIN d.schedule : d.schedule[i] \in Persona
    BY <1>1, ScheduleEntries DEF RunDraft
  <2>. QED
    BY <2>1, <2>2, NullRowsTyped, MaxClaimsAssumption, LeaseLenAssumption
       DEF AdmittedSteps, NoStep, StepRow, StepStatus
<1>6. step' \in [Run -> [Slot -> StepRow]]
  BY <1>5, StepsReplaced DEF AdmitRun, TypeInv
<1>7. message' \subseteq Message
  BY MaxStepsAssumption DEF AdmitRun, TypeInv, TypeOK, Message, Room, NextSeq
<1>8. exec' \in [Worker -> Exec]
  BY FreshExecTyped DEF AdmitRun, TypeInv, TypeOK
<1>9. pc' \in [Worker -> Pc] /\ draft' \in [Worker -> RunDraft \union RoomDraft \union {NoDraft}]
      /\ crashes' \in 0..MaxCrashes
  BY DEF AdmitRun, TypeInv, TypeOK, Pc
<1>10. Located'
  BY FreshExecTyped DEF AdmitRun, TypeInv, TypeOK, Located
<1>. QED
  BY <1>2, <1>4, <1>6, <1>7, <1>8, <1>9, <1>10 DEF TypeInv, TypeOK

LEMMA LoadTyped ==
  ASSUME TypeInv, NEW w \in Worker,
         \/ \E r \in Run : StartResume(w, r)
         \/ LoadRun(w)
         \/ FinishRun(w)
  PROVE  TypeInv'
<1>1. ASSUME NEW r \in Run, StartResume(w, r)
      PROVE  TypeInv'
  <2>1. exec' \in [Worker -> Exec]
    BY <1>1, FreshExecTyped DEF StartResume, TypeInv, TypeOK
  <2>2. Located'
    BY <1>1, FreshExecTyped DEF StartResume, TypeInv, TypeOK, Located
  <2>. QED
    BY <1>1, <2>1, <2>2 DEF StartResume, TypeInv, TypeOK, Pc
<1>2. ASSUME LoadRun(w)
      PROVE  TypeInv'
  <2>1. exec[w].run \in Run
    BY <1>2 DEF LoadRun, TypeInv, Located
  <2>2. PICK next \in Slot, last \in 0..MaxSteps :
          exec' = [exec EXCEPT ![w].slot = next,
                               ![w].epoch = step[exec[w].run][next].claims + 1,
                               ![w].anchor = ReplyAnchor(exec[w].run, last)]
    BY <1>2 DEF LoadRun, Scheduled
  <2>3. step[exec[w].run][next].claims + 1 \in Nat
    <3>1. step[exec[w].run][next] \in StepRow
      BY <2>1, <2>2 DEF TypeInv, TypeOK
    <3>. QED
      BY <3>1, MaxClaimsAssumption DEF StepRow
  <2>4. ReplyAnchor(exec[w].run, last) \in Nat
    BY <2>1, <2>2, ReplyAnchorTyped DEF TypeInv
  <2>5. exec'[w] \in Exec /\ exec'[w].run = exec[w].run /\ exec'[w].slot = next
    <3>1. exec[w] \in Exec /\ next \in 0..MaxSteps
      BY <2>2, MaxStepsAssumption DEF TypeInv, TypeOK, Slot
    <3>2. exec'[w] = [exec[w] EXCEPT !.slot = next,
                                     !.epoch = step[exec[w].run][next].claims + 1,
                                     !.anchor = ReplyAnchor(exec[w].run, last)]
      BY <2>2 DEF TypeInv, TypeOK
    <3>. HIDE DEF ReplyAnchor
    <3>. QED
      BY <3>1, <3>2, <2>3, <2>4 DEF Exec
  <2>6. exec' \in [Worker -> Exec]
    BY <2>2, <2>5 DEF TypeInv, TypeOK
  <2>7. Located'
    BY <1>2, <2>1, <2>2, <2>5 DEF LoadRun, TypeInv, TypeOK, Located
  <2>. QED
    BY <1>2, <2>6, <2>7 DEF LoadRun, TypeInv, TypeOK, Pc
<1>3. ASSUME FinishRun(w)
      PROVE  TypeInv'
  <2>1. CASE exec[w].bound
    BY <1>3, <2>1, ReleaseTyped DEF FinishRun, TypeInv, TypeOK
  <2>2. CASE ~ exec[w].bound
    BY <1>3, <2>2 DEF FinishRun, TypeInv, TypeOK, Located, Pc
  <2>. QED
    BY <2>1, <2>2
<1>. QED
  BY <1>1, <1>2, <1>3

\* Every row a transaction writes over a step is a row again.
LEMMA RowsWritten ==
  ASSUME NEW old \in StepRow, NEW n \in Nat, NEW e \in Nat
  PROVE  /\ [old EXCEPT !.trace = e] \in StepRow
         /\ [old EXCEPT !.status = "blocked"] \in StepRow
         /\ [old EXCEPT !.status = "canceled", !.owner = NoWorker, !.lease = 0] \in StepRow
         /\ [old EXCEPT !.status = "failed", !.owner = NoWorker, !.lease = 0,
                        !.trace = e] \in StepRow
         /\ [old EXCEPT !.status = "completed", !.owner = NoWorker, !.lease = 0,
                        !.message = n, !.trace = e] \in StepRow
<1>1. 0 \in 0..LeaseLen
  BY LeaseLenAssumption
<1>. QED
  BY <1>1 DEF StepRow, StepStatus

LEMMA RunRowsWritten ==
  ASSUME NEW old \in RunRow, NEW n \in Nat, NEW s \in Terminal
  PROVE  [old EXCEPT !.status = s, !.terminalSeq = n] \in RunRow
BY DEF RunRow, RunStatus

\* The ways a claim ends: the step is held, or its claims are exhausted.
LEMMA ClaimTyped ==
  ASSUME TypeInv, NEW w \in Worker, ClaimStep(w)
  PROVE  TypeInv'
<1>. DEFINE r == exec[w].run
            i == exec[w].slot
            old == step[r][i]
            new == ClaimedRow(w, old)
<1>1. r \in Run /\ i \in Slot
  BY DEF ClaimStep, TypeInv, Located
<1>2. old \in StepRow /\ old.claims + 1 \in 0..MaxClaims /\ LeaseLen \in 0..LeaseLen
  <2>1. old \in StepRow
    BY <1>1 DEF TypeInv, TypeOK
  <2>2. old.claims < MaxClaims
    BY DEF ClaimStep, CanClaimStep
  <2>. QED
    BY <2>1, <2>2, MaxClaimsAssumption, LeaseLenAssumption DEF StepRow
<1>3. exec[w].anchor \in Nat
  BY DEF TypeInv, TypeOK, Exec
<1>4. new \in StepRow
  BY <1>2, <1>3 DEF ClaimedRow, StepRow, StepStatus
<1>5. step' = [step EXCEPT ![r][i] = new]
  BY DEF ClaimStep
<1>6. step' \in [Run -> [Slot -> StepRow]]
  BY <1>1, <1>4, <1>5, StepReplaced DEF TypeInv
<1>7. Located' /\ pc' \in [Worker -> Pc]
  BY DEF ClaimStep, TypeInv, TypeOK, Located, Pc
<1>. QED
  BY <1>6, <1>7 DEF ClaimStep, TypeInv, TypeOK

LEMMA FailedStepsTyped ==
  ASSUME TypeOK, NEW r \in Run, NEW i \in Slot, NEW evidence \in Nat
  PROVE  FailedSteps(r, i, evidence) \in [Slot -> StepRow]
<1>1. ASSUME NEW j \in Slot
      PROVE  FailedSteps(r, i, evidence)[j] \in StepRow
  <2>1. step[r][j] \in StepRow
    BY DEF TypeOK
  <2>. QED
    BY <2>1, RowsWritten DEF FailedSteps
<1>. QED
  BY <1>1 DEF FailedSteps

LEMMA EndFailedTyped ==
  ASSUME TypeOK, NEW r \in Run, NEW i \in Slot, NEW evidence \in Nat, EndFailed(r, i, evidence)
  PROVE  step' \in [Run -> [Slot -> StepRow]] /\ run' \in [Run -> RunRow]
<1>1. step' \in [Run -> [Slot -> StepRow]]
  BY FailedStepsTyped, StepsReplaced DEF EndFailed
<1>2. run' \in [Run -> RunRow]
  <2>1. run[r] \in RunRow /\ room.lastSeq \in Nat
    BY DEF TypeOK, Room
  <2>2. \A s \in {"partial", "failed"} :
          [run[r] EXCEPT !.status = s, !.terminalSeq = room.lastSeq] \in RunRow
    BY <2>1, RunRowsWritten DEF Terminal
  <2>3. \E s \in {"partial", "failed"} :
          run' = [run EXCEPT ![r] = [run[r] EXCEPT !.status = s, !.terminalSeq = room.lastSeq]]
    BY DEF EndFailed, TypeOK
  <2>. QED
    BY <2>2, <2>3 DEF TypeOK
<1>. QED
  BY <1>1, <1>2

LEMMA TerminalTraceTyped ==
  ASSUME TypeOK, NEW r \in Run, NEW i \in Slot, NEW epoch \in Nat
  PROVE  TerminalTrace(r, i, epoch) \in [Run -> [Slot -> StepRow]]
<1>1. [step[r][i] EXCEPT !.trace = epoch] \in StepRow
  <2>1. step[r][i] \in StepRow
    BY DEF TypeOK
  <2>. QED
    BY <2>1, RowsWritten
<1>. QED
  BY <1>1 DEF TerminalTrace, TypeOK

LEMMA CompletionTyped ==
  ASSUME TypeInv, NEW w \in Worker, CompleteStep(w)
  PROVE  TypeInv'
<1>. DEFINE r == exec[w].run
            i == exec[w].slot
            new == [step[r][i] EXCEPT !.status = "completed", !.owner = NoWorker, !.lease = 0,
                                      !.message = NextSeq, !.trace = exec[w].epoch]
<1>1. r \in Run /\ i \in Slot /\ exec[w].epoch \in Nat
  BY DEF CompleteStep, TypeInv, TypeOK, Located, Exec
<1>2. room \in Room /\ room.lastSeq + 1 \in Nat /\ NextSeq \in Nat
  BY DEF TypeInv, TypeOK, Room, NextSeq
<1>3. room' \in Room
  BY <1>2 DEF CompleteStep, Room
<1>4. step[r][i] \in StepRow
  BY <1>1 DEF TypeInv, TypeOK
<1>5. new \in StepRow
  BY <1>1, <1>2, <1>4, RowsWritten
<1>6. step' \in [Run -> [Slot -> StepRow]]
  <2>1. step' = [step EXCEPT ![r][i] = new]
    BY <1>1 DEF CompleteStep, TypeInv, TypeOK
  <2>. QED
    BY <1>1, <1>5, <2>1, StepReplaced DEF TypeInv
<1>7. run' \in [Run -> RunRow]
  <2>1. [run[r] EXCEPT !.status = "completed", !.terminalSeq = NextSeq] \in RunRow
    <3>1. run[r] \in RunRow /\ "completed" \in Terminal
      BY <1>1 DEF TypeInv, TypeOK, Terminal
    <3>. QED
      BY <1>2, <3>1, RunRowsWritten
  <2>2. run' = run \/ run' = [run EXCEPT ![r] =
                                [run[r] EXCEPT !.status = "completed", !.terminalSeq = NextSeq]]
    BY DEF CompleteStep, TypeInv, TypeOK
  <2>. QED
    BY <2>1, <2>2 DEF TypeInv, TypeOK
<1>8. message' \subseteq Message
  <2>. DEFINE said == [seq |-> NextSeq, run |-> r, slot |-> i,
                       replyTo |-> step[r][i].replyTo, epoch |-> exec[w].epoch]
  <2>1. step[r][i].replyTo \in Nat /\ exec[w].epoch \in Nat /\ i \in 0 .. MaxSteps
    BY <1>1, <1>4, MaxStepsAssumption DEF TypeInv, TypeOK, Exec, StepRow, Slot
  <2>2. said \in Message
    BY <1>1, <1>2, <2>1 DEF Message
  <2>3. message' = message \union {said} /\ message \subseteq Message
    BY DEF CompleteStep, TypeInv, TypeOK
  <2>. HIDE DEF said
  <2>. QED
    BY <2>2, <2>3
<1>9. exec' \in [Worker -> Exec] /\ exec'[w].run = r
  <2>1. [NoExec EXCEPT !.run = r, !.bound = TRUE] \in Exec
        /\ [NoExec EXCEPT !.run = r, !.bound = TRUE].run = r
    BY <1>1, NullRowsTyped DEF Exec
  <2>. QED
    BY <2>1 DEF CompleteStep, TypeInv, TypeOK
<1>10. Located' /\ pc' \in [Worker -> Pc]
  BY <1>1, <1>9 DEF CompleteStep, TypeInv, TypeOK, Located, Pc
<1>. QED
  BY <1>3, <1>6, <1>7, <1>8, <1>9, <1>10 DEF CompleteStep, TypeInv, TypeOK

\* The other steps of an execution: the lease is renewed, the end of the step is begun.
LEMMA HoldTyped ==
  ASSUME TypeInv, NEW w \in Worker, RenewLease(w) \/ BeginCommit(w) \/ BeginFail(w) \/ LoseStep(w)
  PROVE  TypeInv'
<1>1. ASSUME RenewLease(w)
      PROVE  TypeInv'
  <2>. DEFINE r == exec[w].run
              i == exec[w].slot
  <2>1. r \in Run /\ i \in Slot
    BY <1>1 DEF RenewLease, TypeInv, Located
  <2>2. [step[r][i] EXCEPT !.lease = LeaseLen] \in StepRow
    <3>1. step[r][i] \in StepRow /\ LeaseLen \in 0..LeaseLen
      BY <2>1, LeaseLenAssumption DEF TypeInv, TypeOK
    <3>. QED
      BY <3>1 DEF StepRow
  <2>3. step' = [step EXCEPT ![r][i] = [step[r][i] EXCEPT !.lease = LeaseLen]]
    BY <1>1, <2>1 DEF RenewLease, TypeInv, TypeOK
  <2>. QED
    BY <1>1, <2>1, <2>2, <2>3, StepReplaced DEF RenewLease, TypeInv, TypeOK, Located
<1>2. ASSUME BeginCommit(w) \/ BeginFail(w)
      PROVE  TypeInv'
  <2>1. PICK b \in BOOLEAN : exec' = [exec EXCEPT ![w].live = b]
    <3>1. CASE BeginCommit(w)
      BY <3>1 DEF BeginCommit
    <3>2. CASE BeginFail(w)
      <4>. DEFINE b == step[exec[w].run][exec[w].slot].lease > 0
      <4>1. b \in BOOLEAN
        OBVIOUS
      <4>2. exec' = [exec EXCEPT ![w].live = b]
        BY <3>2 DEF BeginFail
      <4>. HIDE DEF b
      <4>. QED
        BY <4>1, <4>2
    <3>. QED
      BY <1>2, <3>1, <3>2
  <2>2. exec' \in [Worker -> Exec] /\ exec'[w].run = exec[w].run /\ exec'[w].slot = exec[w].slot
    BY <2>1 DEF TypeInv, TypeOK, Exec
  <2>3. Located' /\ pc' \in [Worker -> Pc]
    BY <1>2, <2>1, <2>2 DEF BeginCommit, BeginFail, TypeInv, TypeOK, Located, Pc
  <2>. QED
    BY <1>2, <2>2, <2>3 DEF BeginCommit, BeginFail, TypeInv, TypeOK
<1>3. ASSUME LoseStep(w)
      PROVE  TypeInv'
  <2>1. pc[w] \in {"hold", "commit"}
    BY <1>3 DEF LoseStep
  <2>2. Located' /\ pc' \in [Worker -> Pc]
    BY <1>3, <2>1 DEF LoseStep, TypeInv, TypeOK, Located, Pc
  <2>. QED
    BY <1>3, <2>2 DEF LoseStep, TypeInv, TypeOK
<1>. QED
  BY <1>1, <1>2, <1>3

\* A request that ends without writing, or writes only evidence or the end of its run.
LEMMA EndsTyped ==
  ASSUME TypeInv, NEW w \in Worker,
         \/ RefuseAdmission(w) \/ DropRequest(w) \/ RefuseClaim(w) \/ RefuseCommit(w)
         \/ RefuseFail(w) \/ RefuseEdit(w) \/ Crash(w)
         \/ ExhaustStep(w) \/ FailStep(w) \/ EndLostStep(w) \/ FailEndedRun(w)
  PROVE  TypeInv'
<1>. DEFINE r == exec[w].run
            i == exec[w].slot
<1>1. CASE \/ RefuseAdmission(w) \/ DropRequest(w) \/ RefuseClaim(w) \/ RefuseCommit(w)
           \/ RefuseFail(w) \/ RefuseEdit(w)
  BY <1>1, ReleaseTyped
     DEF RefuseAdmission, DropRequest, RefuseClaim, RefuseCommit, RefuseFail, RefuseEdit,
         TypeInv, TypeOK
<1>2. CASE Crash(w)
  BY <1>2, ReleaseTyped, BoundsAssumption DEF Crash, TypeInv, TypeOK
<1>3. CASE ExhaustStep(w) \/ FailStep(w)
  <2>1. r \in Run /\ i \in Slot
    BY <1>3 DEF ExhaustStep, FailStep, TypeInv, Located
  <2>2. exec[w].epoch \in Nat /\ Exhaustion \in Nat
    BY MaxClaimsAssumption DEF TypeInv, TypeOK, Exec, Exhaustion
  <2>3. \E e \in Nat : EndFailed(r, i, e)
    BY <1>3, <2>2 DEF ExhaustStep, FailStep
  <2>4. step' \in [Run -> [Slot -> StepRow]] /\ run' \in [Run -> RunRow]
    BY <2>1, <2>3, EndFailedTyped DEF TypeInv
  <2>. QED
    BY <1>3, <2>4, ReleaseTyped DEF ExhaustStep, FailStep, TypeInv, TypeOK
<1>4. CASE EndLostStep(w) \/ FailEndedRun(w)
  <2>1. r \in Run /\ i \in Slot /\ exec[w].epoch \in Nat
    BY <1>4 DEF EndLostStep, FailEndedRun, TypeInv, TypeOK, Located, Exec
  <2>2. step' \in [Run -> [Slot -> StepRow]]
    BY <1>4, <2>1, TerminalTraceTyped DEF EndLostStep, FailEndedRun, TypeInv, TypeOK
  <2>. QED
    BY <1>4, <2>2, ReleaseTyped DEF EndLostStep, FailEndedRun, TypeInv, TypeOK
<1>. QED
  BY <1>1, <1>2, <1>3, <1>4

LEMMA RoomActionsTyped ==
  ASSUME TypeInv, \/ \E r \in Run : CancelRun(r)
                  \/ \E w \in Worker : CommitEdit(w)
                  \/ DeleteRoom
                  \/ Tick
  PROVE  TypeInv'
<1>1. ASSUME NEW r \in Run, CancelRun(r)
      PROVE  TypeInv'
  <2>1. [run[r] EXCEPT !.status = "canceled", !.terminalSeq = room.lastSeq] \in RunRow
    <3>1. run[r] \in RunRow /\ room.lastSeq \in Nat /\ "canceled" \in Terminal
      BY DEF TypeInv, TypeOK, Room, Terminal
    <3>. QED
      BY <3>1, RunRowsWritten
  <2>2. run' \in [Run -> RunRow]
    BY <1>1, <2>1 DEF CancelRun, TypeInv, TypeOK
  <2>3. [i \in Slot |->
           IF step[r][i].status \in {"pending", "generating"}
           THEN [step[r][i] EXCEPT !.status = "canceled", !.owner = NoWorker, !.lease = 0]
           ELSE step[r][i]] \in [Slot -> StepRow]
    <3>1. \A i \in Slot : step[r][i] \in StepRow
      BY DEF TypeInv, TypeOK
    <3>2. \A i \in Slot :
            [step[r][i] EXCEPT !.status = "canceled", !.owner = NoWorker, !.lease = 0] \in StepRow
      BY <3>1, RowsWritten
    <3>. QED
      BY <3>1, <3>2
  <2>4. step' \in [Run -> [Slot -> StepRow]]
    BY <1>1, <2>3, StepsReplaced DEF CancelRun, TypeInv
  <2>. QED
    BY <1>1, <2>2, <2>4 DEF CancelRun, TypeInv, TypeOK, Located
<1>2. ASSUME NEW w \in Worker, CommitEdit(w)
      PROVE  TypeInv'
  <2>1. draft[w] \in RoomDraft
    BY <1>2 DEF CommitEdit, TypeInv, Located
  <2>2. room \in Room /\ room.revision + 1 \in Nat
    BY DEF TypeInv, TypeOK, Room
  <2>3. room' \in Room
    BY <1>2, <2>1, <2>2 DEF CommitEdit, Room, RoomDraft
  <2>. QED
    BY <1>2, <2>3, ReleaseTyped DEF CommitEdit, TypeInv, TypeOK
<1>3. ASSUME DeleteRoom
      PROVE  TypeInv'
  <2>1. room' \in Room
    BY <1>3, PlaceHasZero DEF DeleteRoom, TypeInv, TypeOK, Room
  <2>2. /\ run' \in [Run -> RunRow]
        /\ step' \in [Run -> [Slot -> StepRow]]
        /\ message' \subseteq Message
    BY <1>3, NullRowsTyped DEF DeleteRoom
  <2>. QED
    BY <1>3, <2>1, <2>2 DEF DeleteRoom, TypeInv, TypeOK, Located
<1>4. ASSUME Tick
      PROVE  TypeInv'
  <2>1. ASSUME NEW r \in Run, NEW i \in Slot
        PROVE  (IF step[r][i].lease > 0 THEN [step[r][i] EXCEPT !.lease = @ - 1]
                ELSE step[r][i]) \in StepRow
    <3>1. step[r][i] \in StepRow
      BY DEF TypeInv, TypeOK
    <3>2. step[r][i].lease > 0 => step[r][i].lease - 1 \in 0..LeaseLen
      BY <3>1, LeaseLenAssumption DEF StepRow
    <3>. QED
      BY <3>1, <3>2 DEF StepRow
  <2>2. step' \in [Run -> [Slot -> StepRow]]
    BY <1>4, <2>1 DEF Tick
  <2>. QED
    BY <1>4, <2>2 DEF Tick, TypeInv, TypeOK, Located
<1>. QED
  BY <1>1, <1>2, <1>3, <1>4

LEMMA NextTypeInv == TypeInv /\ [Next]_vars => TypeInv'
<1> SUFFICES ASSUME TypeInv, [Next]_vars PROVE TypeInv'
  OBVIOUS
<1>1. CASE UNCHANGED vars
  BY <1>1 DEF vars, TypeInv, TypeOK, Located
<1>2. CASE Next
  BY <1>2, ReadsTyped, AdmissionTyped, LoadTyped, ClaimTyped, CompletionTyped, HoldTyped,
     EndsTyped, RoomActionsTyped
     DEF Next
<1>. QED
  BY <1>1, <1>2

\* Type correctness, with the claim budget of every step and the place of every worker.
THEOREM TypeCorrect == Spec => []TypeOK
<1>1. Spec => []TypeInv
  BY InitTypeInv, NextTypeInv, PTL DEF Spec
<1>2. TypeInv => TypeOK
  BY DEF TypeInv
<1>. QED
  BY <1>1, <1>2, PTL

-----------------------------------------------------------------------------
\* The end of a run: a pending run is given a terminal status, no other run is touched.
EndsRun(r) ==
    /\ run[r].status = "pending"
    /\ \E s \in Terminal, n \in Nat :
         run' = [run EXCEPT ![r] = [run[r] EXCEPT !.status = s, !.terminalSeq = n]]

\* A run's row is written when the run is admitted, when it ends and with its room.
LEMMA RunWrites ==
  ASSUME TypeInv, Next
  PROVE  \/ \E w \in Worker, r \in Run : AdmitRun(w, r)
         \/ \E r \in Run : EndsRun(r)
         \/ DeleteRoom
         \/ UNCHANGED run
<1>1. ASSUME NEW r \in Run, NEW i, NEW e, run[r].status = "pending", EndFailed(r, i, e)
      PROVE  EndsRun(r)
  <2>1. room.lastSeq \in Nat /\ "partial" \in Terminal /\ "failed" \in Terminal
    BY DEF TypeInv, TypeOK, Room, Terminal
  <2>2. \E s \in {"partial", "failed"} :
          run' = [run EXCEPT ![r] = [run[r] EXCEPT !.status = s, !.terminalSeq = room.lastSeq]]
    BY <1>1 DEF EndFailed, TypeInv, TypeOK
  <2>. QED
    BY <1>1, <2>1, <2>2 DEF EndsRun
<1>2. ASSUME NEW w \in Worker, ExhaustStep(w) \/ FailStep(w)
      PROVE  \E r \in Run : EndsRun(r)
  <2>1. exec[w].run \in Run
    BY <1>2 DEF ExhaustStep, FailStep, TypeInv, Located
  <2>. QED
    BY <1>1, <1>2, <2>1 DEF ExhaustStep, FailStep, ClaimsExhausted, OwnsEpoch
<1>3. ASSUME NEW w \in Worker, CompleteStep(w)
      PROVE  UNCHANGED run \/ \E r \in Run : EndsRun(r)
  <2>. DEFINE r == exec[w].run
  <2>1. r \in Run /\ run[r].status = "pending"
    BY <1>3 DEF CompleteStep, TypeInv, Located, OwnsEpoch
  <2>2. NextSeq \in Nat /\ "completed" \in Terminal
    BY DEF TypeInv, TypeOK, Room, NextSeq, Terminal
  <2>3. run' = run \/ run' = [run EXCEPT ![r] =
                                [run[r] EXCEPT !.status = "completed", !.terminalSeq = NextSeq]]
    BY <1>3 DEF CompleteStep, TypeInv, TypeOK
  <2>. QED
    BY <2>1, <2>2, <2>3 DEF EndsRun
<1>4. ASSUME NEW r \in Run, CancelRun(r)
      PROVE  EndsRun(r)
  <2>1. room.lastSeq \in Nat /\ "canceled" \in Terminal
    BY DEF TypeInv, TypeOK, Room, Terminal
  <2>2. run' = [run EXCEPT ![r] =
                  [run[r] EXCEPT !.status = "canceled", !.terminalSeq = room.lastSeq]]
    BY <1>4 DEF CancelRun, TypeInv, TypeOK
  <2>. QED
    BY <1>4, <2>1, <2>2 DEF CancelRun, EndsRun
<1>5. ASSUME NEW v \in Worker,
             \/ \E s \in Schedule, t \in {"user_message", "continue"} : ReadForTurn(v, s, t)
             \/ \E r \in Run, s \in Schedule : ReadForRetry(v, r, s)
             \/ \E s \in {"active", "archived"}, o \in Roster : ReadForEdit(v, s, o)
             \/ \E r \in Run : StartResume(v, r)
             \/ RefuseAdmission(v) \/ LoadRun(v) \/ FinishRun(v) \/ DropRequest(v)
             \/ ClaimStep(v) \/ RefuseClaim(v) \/ RenewLease(v) \/ LoseStep(v)
      PROVE  UNCHANGED run
  BY <1>5 DEF ReadForTurn, ReadForRetry, ReadForEdit, StartResume, RefuseAdmission, LoadRun,
              FinishRun, DropRequest, ClaimStep, RefuseClaim, RenewLease, LoseStep
<1>6. ASSUME NEW v \in Worker,
             \/ EndLostStep(v) \/ BeginCommit(v) \/ RefuseCommit(v) \/ BeginFail(v)
             \/ FailEndedRun(v) \/ RefuseFail(v) \/ CommitEdit(v) \/ RefuseEdit(v) \/ Crash(v)
      PROVE  UNCHANGED run
  BY <1>6 DEF EndLostStep, BeginCommit, RefuseCommit, BeginFail, FailEndedRun, RefuseFail,
              CommitEdit, RefuseEdit, Crash
<1>7. Tick => UNCHANGED run
  BY DEF Tick
<1>. QED
  BY <1>2, <1>3, <1>4, <1>5, <1>6, <1>7 DEF Next

\* Only an admission makes a run pending, and it has found no other pending one: whatever
\* requests race, at most one run of the room is pending.
LEMMA OnePendingStep == TypeInv /\ OnePendingRun /\ [Next]_vars => OnePendingRun'
<1> SUFFICES ASSUME TypeInv, OnePendingRun, Next PROVE OnePendingRun'
  BY DEF vars, OnePendingRun
<1>1. ASSUME NEW w \in Worker, NEW r \in Run, AdmitRun(w, r)
      PROVE  OnePendingRun'
  <2>1. \A s \in Run \ {r} : run'[s].status # "pending"
    BY <1>1 DEF AdmitRun, CanAdmit, CanClaimRoom, NoPendingRun, TypeInv, TypeOK
  <2>. QED
    BY <2>1 DEF OnePendingRun
<1>2. ASSUME NEW r \in Run, EndsRun(r)
      PROVE  OnePendingRun'
  <2>1. \A s \in Run : run'[s].status = "pending" => run[s].status = "pending"
    BY <1>2 DEF EndsRun, Terminal, TypeInv, TypeOK, RunRow
  <2>. QED
    BY <2>1 DEF OnePendingRun
<1>3. CASE DeleteRoom
  BY <1>3 DEF DeleteRoom, NoRow, OnePendingRun
<1>4. CASE UNCHANGED run
  BY <1>4 DEF OnePendingRun
<1>. QED
  BY <1>1, <1>2, <1>3, <1>4, RunWrites

\* At most one run of a room is pending.
THEOREM AtMostOnePendingRun == Spec => []OnePendingRun
<1>1. Init => OnePendingRun
  BY DEF Init, NoRow, OnePendingRun
<1>. QED
  BY InitTypeInv, NextTypeInv, <1>1, OnePendingStep, PTL DEF Spec

-----------------------------------------------------------------------------
\* An edit waiting to be written was copied from this room or from an older revision of
\* it.  Deletion keeps the revision, so the copy is not compared with a deleted room.
EditFresh ==
    \A w \in Worker : pc[w] = "edit" /\ room.status # "deleted" =>
       /\ draft[w].expectedRevision <= room.revision
       /\ draft[w].expectedRevision = room.revision =>
            draft[w].status = room.status \/ draft[w].roster = room.roster

\* A room's revision counts the writes to its status and cast.
LEMMA RoomWrites ==
  ASSUME TypeInv, Next
  PROVE  \/ /\ room'.status = room.status
            /\ room'.roster = room.roster
            /\ room'.revision \in {room.revision, room.revision + 1}
         \/ \E w \in Worker : CommitEdit(w)
         \/ room'.status = "deleted"
<1>. room \in Room
  BY DEF TypeInv, TypeOK
<1>1. ASSUME NEW w \in Worker, NEW r \in Run, AdmitRun(w, r)
      PROVE  /\ room'.status = room.status
             /\ room'.roster = room.roster
             /\ room'.revision = room.revision + 1
  BY <1>1 DEF AdmitRun, Room
<1>2. ASSUME NEW w \in Worker, CompleteStep(w)
      PROVE  /\ room'.status = room.status
             /\ room'.roster = room.roster
             /\ room'.revision = room.revision
  BY <1>2 DEF CompleteStep, Room
<1>3. ASSUME DeleteRoom
      PROVE  room'.status = "deleted"
  BY <1>3 DEF DeleteRoom, Room
<1>4. ASSUME NEW v \in Worker,
             \/ \E s \in Schedule, t \in {"user_message", "continue"} : ReadForTurn(v, s, t)
             \/ \E r \in Run, s \in Schedule : ReadForRetry(v, r, s)
             \/ \E s \in {"active", "archived"}, o \in Roster : ReadForEdit(v, s, o)
             \/ \E r \in Run : StartResume(v, r)
             \/ RefuseAdmission(v) \/ LoadRun(v) \/ FinishRun(v) \/ DropRequest(v)
             \/ ClaimStep(v) \/ ExhaustStep(v) \/ RefuseClaim(v) \/ RefuseEdit(v) \/ Crash(v)
      PROVE  UNCHANGED room
  BY <1>4 DEF ReadForTurn, ReadForRetry, ReadForEdit, StartResume, RefuseAdmission, LoadRun,
              FinishRun, DropRequest, ClaimStep, ExhaustStep, RefuseClaim, RefuseEdit, Crash
<1>5. ASSUME NEW v \in Worker,
             \/ RenewLease(v) \/ LoseStep(v) \/ EndLostStep(v) \/ BeginCommit(v)
             \/ RefuseCommit(v) \/ BeginFail(v) \/ FailStep(v) \/ FailEndedRun(v)
             \/ RefuseFail(v)
      PROVE  UNCHANGED room
  BY <1>5 DEF RenewLease, LoseStep, EndLostStep, BeginCommit, RefuseCommit, BeginFail,
              FailStep, FailEndedRun, RefuseFail
<1>6. (\E r \in Run : CancelRun(r)) \/ Tick => UNCHANGED room
  BY DEF CancelRun, Tick
<1>7. CASE \E w \in Worker, r \in Run : AdmitRun(w, r)
  BY <1>1, <1>7
<1>8. CASE \E w \in Worker : CompleteStep(w)
  BY <1>2, <1>8
<1>. QED
  BY <1>3, <1>4, <1>5, <1>6, <1>7, <1>8 DEF Next

\* A worker that waits to write an edit has just read the room or was waiting before.
LEMMA EditsWait ==
  ASSUME TypeInv, Next, NEW w \in Worker, pc'[w] = "edit"
  PROVE  \/ pc[w] = "edit" /\ draft'[w] = draft[w]
         \/ /\ \E s \in {"active", "archived"}, o \in Roster : ReadForEdit(w, s, o)
            /\ UNCHANGED room
<1>. pc \in [Worker -> Pc] /\ draft \in [Worker -> RunDraft \union RoomDraft \union {NoDraft}]
  BY DEF TypeInv, TypeOK
<1>1. ASSUME NEW v \in Worker,
             \/ \E s \in Schedule, t \in {"user_message", "continue"} : ReadForTurn(v, s, t)
             \/ \E r \in Run, s \in Schedule : ReadForRetry(v, r, s)
             \/ \E r \in Run : AdmitRun(v, r)
             \/ \E s \in {"active", "archived"}, o \in Roster : ReadForEdit(v, s, o)
      PROVE  \/ pc[w] = "edit" /\ draft'[w] = draft[w]
             \/ /\ \E s \in {"active", "archived"}, o \in Roster : ReadForEdit(w, s, o)
                /\ UNCHANGED room
  BY <1>1 DEF ReadForTurn, ReadForRetry, AdmitRun, ReadForEdit
<1>2. ASSUME NEW v \in Worker,
             \/ RefuseAdmission(v) \/ FinishRun(v) \/ DropRequest(v) \/ ExhaustStep(v)
             \/ RefuseClaim(v) \/ EndLostStep(v) \/ RefuseCommit(v) \/ FailStep(v)
             \/ FailEndedRun(v) \/ RefuseFail(v) \/ CommitEdit(v) \/ RefuseEdit(v) \/ Crash(v)
      PROVE  pc[w] = "edit" /\ draft'[w] = draft[w]
  BY <1>2 DEF RefuseAdmission, FinishRun, DropRequest, ExhaustStep, RefuseClaim, EndLostStep,
              RefuseCommit, FailStep, FailEndedRun, RefuseFail, CommitEdit, RefuseEdit, Crash,
              Release
<1>3. ASSUME NEW v \in Worker,
             \/ \E r \in Run : StartResume(v, r)
             \/ LoadRun(v) \/ ClaimStep(v) \/ RenewLease(v) \/ LoseStep(v) \/ BeginCommit(v)
             \/ CompleteStep(v) \/ BeginFail(v)
      PROVE  pc[w] = "edit" /\ draft'[w] = draft[w]
  BY <1>3 DEF StartResume, LoadRun, ClaimStep, RenewLease, LoseStep, BeginCommit, BeginFail,
              CompleteStep
<1>4. CASE \E r \in Run : CancelRun(r)
  BY <1>4 DEF CancelRun
<1>5. CASE DeleteRoom \/ Tick
  BY <1>5 DEF DeleteRoom, Tick
<1>. QED
  BY <1>1, <1>2, <1>3, <1>4, <1>5 DEF Next

LEMMA EditFreshStep == TypeInv /\ EditFresh /\ [Next]_vars => EditFresh'
<1> SUFFICES ASSUME TypeInv, EditFresh, Next PROVE EditFresh'
  BY DEF vars, EditFresh
<1> SUFFICES ASSUME NEW w \in Worker, pc'[w] = "edit", room'.status # "deleted"
             PROVE  /\ draft'[w].expectedRevision <= room'.revision
                    /\ draft'[w].expectedRevision = room'.revision =>
                         draft'[w].status = room'.status \/ draft'[w].roster = room'.roster
  BY DEF EditFresh
<1>1. room \in Room /\ room.revision \in Nat
  BY DEF TypeInv, TypeOK, Room
<1>2. ASSUME pc[w] = "edit", draft'[w] = draft[w],
             room'.status = room.status, room'.roster = room.roster,
             room'.revision \in {room.revision, room.revision + 1}
      PROVE  /\ draft'[w].expectedRevision <= room'.revision
             /\ draft'[w].expectedRevision = room'.revision =>
                  draft'[w].status = room'.status \/ draft'[w].roster = room'.roster
  <2>1. draft[w].expectedRevision \in Nat
    BY <1>2 DEF TypeInv, Located, RoomDraft
  <2>. QED
    BY <1>1, <1>2, <2>1 DEF EditFresh
<1>3. ASSUME pc[w] = "edit", draft'[w] = draft[w], NEW v \in Worker, CommitEdit(v)
      PROVE  /\ draft'[w].expectedRevision <= room'.revision
             /\ draft'[w].expectedRevision # room'.revision
  <2>1. draft[w].expectedRevision \in Nat
    BY <1>3 DEF TypeInv, Located, RoomDraft
  <2>2. room.status # "deleted" /\ room'.revision = room.revision + 1
    BY <1>1, <1>3 DEF CommitEdit, CanEdit, CanClaimRoom, Room
  <2>. QED
    BY <1>1, <1>3, <2>1, <2>2 DEF EditFresh
<1>4. ASSUME NEW s \in {"active", "archived"}, NEW o \in Roster, ReadForEdit(w, s, o),
             UNCHANGED room
      PROVE  /\ draft'[w].expectedRevision <= room'.revision
             /\ draft'[w].status = room'.status \/ draft'[w].roster = room'.roster
  BY <1>1, <1>4 DEF ReadForEdit, TypeInv, TypeOK
<1>. QED
  BY <1>2, <1>3, <1>4, RoomWrites, EditsWait

\* An edit overwrites only what its author asked to change.
THEOREM EditsLoseNothing == Spec => NoLostEdit
<1>1. Init => EditFresh
  BY DEF Init, EditFresh
<1>2. TypeInv /\ EditFresh /\ [Next]_vars =>
        [room'.status = "deleted" \/ room'.status = room.status \/ room'.roster = room.roster]_vars
  <2> SUFFICES ASSUME TypeInv, EditFresh, Next
               PROVE  \/ room'.status = "deleted"
                      \/ room'.status = room.status
                      \/ room'.roster = room.roster
    OBVIOUS
  <2>1. ASSUME NEW w \in Worker, CommitEdit(w)
        PROVE  room'.status = room.status \/ room'.roster = room.roster
    <3>1. room \in Room /\ pc[w] = "edit" /\ room.status # "deleted"
          /\ draft[w].expectedRevision = room.revision
      BY <2>1 DEF CommitEdit, CanEdit, CanClaimRoom, TypeInv, TypeOK
    <3>2. room'.status = draft[w].status /\ room'.roster = draft[w].roster
      BY <2>1, <3>1 DEF CommitEdit, Room
    <3>. QED
      BY <3>1, <3>2 DEF EditFresh
  <2>. QED
    BY <2>1, RoomWrites
<1>. QED
  BY InitTypeInv, NextTypeInv, <1>1, EditFreshStep, <1>2, PTL DEF Spec, NoLostEdit

-----------------------------------------------------------------------------
\* The steps of a run, one after the other: a step that is being spoken or has spoken
\* comes after steps that have all spoken, an unstarted one was never claimed, a lease is
\* held on a step that is being spoken only, and that only while the run is pending.
InTurn(r) ==
    /\ \A i \in Slot :
         /\ step[r][i].lease > 0 => step[r][i].status = "generating"
         /\ step[r][i].status = "generating" => run[r].status = "pending"
         /\ step[r][i].status = "pending" => step[r][i].claims = 0
    /\ \A i, j \in Slot :
         step[r][i].status \in {"generating", "completed"} /\ j < i =>
           step[r][j].status = "completed"

StepsInTurn == \A r \in Run : InTurn(r)

\* What a write to the steps of run r leaves of the others.
TouchesOnly(r) ==
    \A s \in Run \ {r} : step'[s] = step[s] /\ run'[s] = run[s]

LEMMA OthersInTurn ==
  ASSUME StepsInTurn, NEW r \in Run, TouchesOnly(r), InTurn(r)'
  PROVE  StepsInTurn'
BY DEF StepsInTurn, InTurn, TouchesOnly

\* A step that is claimed, being spoken or ended, and what may be written over it.
LEMMA EndFailedInTurn ==
  ASSUME TypeInv, StepsInTurn, NEW r \in Run, NEW i \in Slot, NEW e \in Nat,
         EndFailed(r, i, e), step[r][i].status = "generating"
  PROVE  TouchesOnly(r) /\ InTurn(r)'
<1>1. TouchesOnly(r)
  BY DEF EndFailed, TouchesOnly, TypeInv, TypeOK
<1>2. \A j \in Slot : step[r][j] \in StepRow /\ step'[r][j] = FailedSteps(r, i, e)[j]
  BY DEF EndFailed, TypeInv, TypeOK
<1>3. \A j \in Slot : /\ step'[r][j].status = IF j = i THEN "failed"
                                             ELSE IF j > i /\ step[r][j].status = "pending"
                                             THEN "blocked" ELSE step[r][j].status
                      /\ step'[r][j].lease = IF j = i THEN 0 ELSE step[r][j].lease
                      /\ step'[r][j].claims = step[r][j].claims
  <2> SUFFICES ASSUME NEW j \in Slot
               PROVE  /\ step'[r][j].status = IF j = i THEN "failed"
                                             ELSE IF j > i /\ step[r][j].status = "pending"
                                             THEN "blocked" ELSE step[r][j].status
                      /\ step'[r][j].lease = IF j = i THEN 0 ELSE step[r][j].lease
                      /\ step'[r][j].claims = step[r][j].claims
    OBVIOUS
  <2>. DEFINE old == step[r][j]
  <2>1. old \in StepRow /\ step'[r][j] = FailedSteps(r, i, e)[j]
    BY <1>2
  <2>2. CASE j = i
    <3>1. step'[r][j] = [old EXCEPT !.status = "failed", !.owner = NoWorker,
                                    !.lease = 0, !.trace = e]
      BY <2>1, <2>2 DEF FailedSteps
    <3>. HIDE DEF old
    <3>2. /\ step'[r][j].status = "failed" /\ step'[r][j].lease = 0
          /\ step'[r][j].claims = old.claims
      BY <2>1, <3>1 DEF StepRow
    <3>. QED
      BY <2>2, <3>2 DEF old
  <2>3. CASE j # i /\ j > i /\ old.status = "pending"
    <3>1. step'[r][j] = [old EXCEPT !.status = "blocked"]
      BY <2>1, <2>3 DEF FailedSteps
    <3>. HIDE DEF old
    <3>2. /\ step'[r][j].status = "blocked" /\ step'[r][j].lease = old.lease
          /\ step'[r][j].claims = old.claims
      BY <2>1, <3>1 DEF StepRow
    <3>. QED
      BY <2>3, <3>2 DEF old
  <2>4. CASE j # i /\ ~ (j > i /\ old.status = "pending")
    <3>1. step'[r][j] = old
      BY <2>1, <2>4 DEF FailedSteps
    <3>. QED
      BY <2>4, <3>1
  <2>. QED
    BY <2>2, <2>3, <2>4
<1>4. \A j \in Slot : j < i => step[r][j].status = "completed"
  BY DEF StepsInTurn, InTurn
<1>5. \A j \in Slot : j > i => step[r][j].status \notin {"generating", "completed"}
  BY DEF StepsInTurn, InTurn, Slot
<1>6. \A j \in Slot : j < i \/ j = i \/ j > i
  BY DEF Slot
<1>7. \A j \in Slot :
         /\ step'[r][j].lease > 0 => step'[r][j].status = "generating"
         /\ step'[r][j].status # "generating"
         /\ step'[r][j].status = "pending" => step'[r][j].claims = 0
  BY <1>3, <1>4, <1>5, <1>6 DEF StepsInTurn, InTurn
<1>8. \A j, k \in Slot : step'[r][j].status \in {"generating", "completed"} /\ k < j =>
                           step'[r][k].status = "completed"
  <2> SUFFICES ASSUME NEW j \in Slot, NEW k \in Slot, k < j,
                      step'[r][j].status \in {"generating", "completed"}
               PROVE  step'[r][k].status = "completed"
    OBVIOUS
  <2>1. j < i
    BY <1>3, <1>5, <1>6
  <2>2. k < i
    BY <2>1 DEF Slot
  <2>. QED
    BY <1>3, <1>4, <2>2 DEF Slot
<1>. QED
  BY <1>1, <1>7, <1>8 DEF InTurn

\* The transactions that write the runs or the steps.
LEMMA StepWrites ==
  ASSUME Next
  PROVE  \/ \E w \in Worker, r \in Run : AdmitRun(w, r)
         \/ \E w \in Worker : \/ ClaimStep(w) \/ RenewLease(w) \/ CompleteStep(w) \/ ExhaustStep(w)
                              \/ FailStep(w) \/ EndLostStep(w) \/ FailEndedRun(w)
         \/ \E r \in Run : CancelRun(r)
         \/ DeleteRoom
         \/ Tick
         \/ UNCHANGED <<run, step>>
<1>1. ASSUME NEW w \in Worker,
             \/ \E s \in Schedule, t \in {"user_message", "continue"} : ReadForTurn(w, s, t)
             \/ \E r \in Run, s \in Schedule : ReadForRetry(w, r, s)
             \/ \E r \in Run : StartResume(w, r)
             \/ \E s \in {"active", "archived"}, o \in Roster : ReadForEdit(w, s, o)
             \/ RefuseAdmission(w) \/ LoadRun(w) \/ FinishRun(w) \/ DropRequest(w)
             \/ RefuseClaim(w) \/ BeginCommit(w) \/ RefuseCommit(w) \/ BeginFail(w)
             \/ LoseStep(w) \/ RefuseFail(w) \/ CommitEdit(w) \/ RefuseEdit(w) \/ Crash(w)
      PROVE  UNCHANGED run /\ UNCHANGED step
  BY <1>1 DEF ReadForTurn, ReadForRetry, RefuseAdmission, StartResume, LoadRun, FinishRun,
              DropRequest, RefuseClaim, BeginCommit, RefuseCommit, BeginFail, LoseStep, RefuseFail,
              ReadForEdit, CommitEdit, RefuseEdit, Crash
<1>. QED
  BY <1>1 DEF Next

LEMMA StepsInTurnStep == TypeInv /\ StepsInTurn /\ [Next]_vars => StepsInTurn'
<1> SUFFICES ASSUME TypeInv, StepsInTurn, Next PROVE StepsInTurn'
  BY DEF vars, StepsInTurn, InTurn
<1>. step \in [Run -> [Slot -> StepRow]] /\ run \in [Run -> RunRow]
  BY DEF TypeInv, TypeOK
<1>1. ASSUME NEW w \in Worker, NEW r \in Run, AdmitRun(w, r)
      PROVE  StepsInTurn'
  <2>1. TouchesOnly(r)
    BY <1>1 DEF AdmitRun, TouchesOnly
  <2>2. \A i \in Slot : /\ step'[r][i].lease = 0 /\ step'[r][i].claims = 0
                        /\ step'[r][i].status \in {"pending", "absent"}
    BY <1>1 DEF AdmitRun, AdmittedSteps, NoStep
  <2>3. InTurn(r)'
    BY <2>2 DEF InTurn
  <2>. QED
    BY <2>1, <2>3, OthersInTurn
<1>2. ASSUME NEW w \in Worker, NEW r \in Run, NEW i \in Slot,
             r = exec[w].run, i = exec[w].slot, ClaimStep(w)
      PROVE  StepsInTurn'
  <2>1. r \in Run /\ i \in Slot /\ UNCHANGED run
    BY <1>2 DEF ClaimStep, TypeInv, Located
  <2>2. TouchesOnly(r)
    BY <1>2, <2>1 DEF ClaimStep, TouchesOnly
  <2>3. /\ run'[r].status = "pending"
        /\ step'[r][i].status = "generating"
        /\ \A j \in Slot \ {i} : step'[r][j] = step[r][j]
    <3>. DEFINE new == ClaimedRow(w, step[r][i])
    <3>1. step[r][i] \in StepRow
      BY <2>1
    <3>2. new.status = "generating"
      BY <3>1 DEF ClaimedRow, StepRow
    <3>3. step' = [step EXCEPT ![r][i] = new] /\ run[r].status = "pending"
      BY <1>2 DEF ClaimStep, CanClaimStep
    <3>. HIDE DEF new
    <3>. QED
      BY <2>1, <3>2, <3>3
  <2>4. \A j \in Slot : j < i => step[r][j].status = "completed"
    <3>1. CASE i = 1
      BY <3>1 DEF Slot
    <3>2. CASE i > 1
      <4>1. step[r][i - 1].status = "completed" /\ i - 1 \in Slot
        BY <1>2, <2>1, <3>2, MaxStepsAssumption DEF ClaimStep, CanClaimStep, Slot
      <4>2. \A j \in Slot : j < i - 1 => step[r][j].status = "completed"
        BY <2>1, <4>1 DEF StepsInTurn, InTurn
      <4>3. \A j \in Slot : j < i => j < i - 1 \/ j = i - 1
        BY <2>1 DEF Slot
      <4>. QED
        BY <4>1, <4>2, <4>3
    <3>. QED
      BY <2>1, <3>1, <3>2 DEF Slot
  <2>5. InTurn(r)'
    <3>1. \A j \in Slot : /\ step'[r][j].lease > 0 => step'[r][j].status = "generating"
                          /\ step'[r][j].status = "generating" => run'[r].status = "pending"
                          /\ step'[r][j].status = "pending" => step'[r][j].claims = 0
      BY <2>1, <2>3 DEF StepsInTurn, InTurn
    <3>2. step[r][i].status # "completed"
      BY <1>2 DEF ClaimStep, CanClaimStep, Unheld
    <3>3. \A j, k \in Slot : step'[r][j].status \in {"generating", "completed"} /\ k < j =>
                               step'[r][k].status = "completed"
      <4> SUFFICES ASSUME NEW j \in Slot, NEW k \in Slot, k < j,
                          step'[r][j].status \in {"generating", "completed"}
                   PROVE  step'[r][k].status = "completed"
        OBVIOUS
      <4>1. CASE j = i
        BY <2>1, <2>3, <2>4, <4>1 DEF Slot
      <4>2. CASE j # i
        <5>1. step[r][k].status = "completed"
          BY <2>1, <2>3, <4>2 DEF StepsInTurn, InTurn
        <5>. QED
          BY <2>3, <3>2, <5>1
      <4>. QED
        BY <4>1, <4>2
    <3>. QED
      BY <3>1, <3>3 DEF InTurn
  <2>. QED
    BY <2>1, <2>2, <2>5, OthersInTurn
<1>3. ASSUME NEW w \in Worker, NEW r \in Run, NEW i \in Slot,
             r = exec[w].run, i = exec[w].slot, RenewLease(w)
      PROVE  StepsInTurn'
  <2>1. r \in Run /\ i \in Slot /\ UNCHANGED run
    BY <1>3 DEF RenewLease, TypeInv, Located
  <2>2. TouchesOnly(r)
    BY <1>3, <2>1 DEF RenewLease, TouchesOnly
  <2>3. step[r][i].status = "generating"
    BY <1>3 DEF RenewLease, OwnsEpoch
  <2>4. \A j \in Slot : /\ step'[r][j].status = step[r][j].status
                        /\ step'[r][j].claims = step[r][j].claims
                        /\ step'[r][j].lease > 0 => step[r][j].lease > 0 \/ j = i
    <3>. DEFINE new == [step[r][i] EXCEPT !.lease = LeaseLen]
    <3>1. step[r][i] \in StepRow
      BY <2>1
    <3>2. new.status = step[r][i].status /\ new.claims = step[r][i].claims
      BY <3>1 DEF StepRow
    <3>3. step' = [step EXCEPT ![r][i] = new]
      BY <1>3, <2>1 DEF RenewLease
    <3>. HIDE DEF new
    <3>. QED
      BY <2>1, <3>2, <3>3
  <2>5. InTurn(r) /\ \A j \in Slot : step'[r][j].lease > 0 => step[r][j].status = "generating"
    BY <2>1, <2>3, <2>4 DEF StepsInTurn, InTurn
  <2>6. InTurn(r)'
    BY <2>1, <2>4, <2>5 DEF InTurn
  <2>. QED
    BY <2>1, <2>2, <2>6, OthersInTurn
<1>4. ASSUME NEW w \in Worker, NEW r \in Run, NEW i \in Slot,
             r = exec[w].run, i = exec[w].slot, CompleteStep(w)
      PROVE  StepsInTurn'
  <2>. DEFINE new == [step[r][i] EXCEPT !.status = "completed", !.owner = NoWorker, !.lease = 0,
                                        !.message = NextSeq, !.trace = exec[w].epoch]
  <2>1. r \in Run /\ i \in Slot /\ step' = [step EXCEPT ![r][i] = new]
    BY <1>4 DEF CompleteStep, TypeInv, Located
  <2>2. TouchesOnly(r)
    BY <1>4, <2>1 DEF CompleteStep, TouchesOnly
  <2>3. new.status = "completed" /\ new.lease = 0
    BY <2>1 DEF StepRow
  <2>4. /\ step'[r][i] = new
        /\ \A j \in Slot \ {i} : step'[r][j] = step[r][j]
    BY <2>1
  <2>5. step[r][i].status = "generating"
    BY <1>4 DEF CompleteStep, OwnsEpoch
  <2>. HIDE DEF new
  <2>6. \A j \in Slot : step'[r][j].status = "generating" => run'[r].status = "pending"
    <3>1. CASE UNCHANGED run
      BY <2>1, <2>3, <2>4, <3>1 DEF StepsInTurn, InTurn
    <3>2. CASE run' # run
      <4>1. Scheduled(r) \ {i} = CompletedSlots(r)
        BY <1>4, <3>2 DEF CompleteStep
      <4>. QED
        BY <2>3, <2>4, <4>1 DEF Scheduled, CompletedSlots
    <3>. QED
      BY <3>1, <3>2
  <2>7. \A j, k \in Slot : step'[r][j].status \in {"generating", "completed"} /\ k < j =>
                             step'[r][k].status = "completed"
    BY <2>1, <2>3, <2>4, <2>5 DEF StepsInTurn, InTurn
  <2>8. InTurn(r)'
    BY <2>1, <2>3, <2>4, <2>6, <2>7 DEF StepsInTurn, InTurn
  <2>. QED
    BY <2>1, <2>2, <2>8, OthersInTurn
<1>5. ASSUME NEW w \in Worker, NEW r \in Run, NEW i \in Slot,
             r = exec[w].run, i = exec[w].slot, ExhaustStep(w) \/ FailStep(w)
      PROVE  StepsInTurn'
  <2>1. r \in Run /\ i \in Slot /\ exec[w].epoch \in Nat /\ Exhaustion \in Nat
    BY <1>5, MaxClaimsAssumption
       DEF ExhaustStep, FailStep, TypeInv, TypeOK, Located, Exec, Exhaustion
  <2>2. step[r][i].status = "generating"
    <3>1. CASE FailStep(w)
      BY <1>5, <3>1 DEF FailStep, OwnsEpoch
    <3>2. CASE ExhaustStep(w)
      <4>1. Unheld(r, i) /\ step[r][i].claims # 0
        BY <1>5, <3>2, MaxClaimsAssumption DEF ExhaustStep, ClaimsExhausted
      <4>. QED
        BY <2>1, <4>1 DEF Unheld, StepsInTurn, InTurn
    <3>. QED
      BY <1>5, <3>1, <3>2
  <2>3. \E e \in Nat : EndFailed(r, i, e)
    BY <1>5, <2>1 DEF ExhaustStep, FailStep
  <2>. QED
    BY <2>1, <2>2, <2>3, EndFailedInTurn, OthersInTurn
<1>6. ASSUME NEW w \in Worker, EndLostStep(w) \/ FailEndedRun(w)
      PROVE  StepsInTurn'
  <2>1. PICK q \in Run, k \in Slot, e \in Nat :
          step' = step \/ step' = TerminalTrace(q, k, e)
    <3>1. exec[w].run \in Run /\ exec[w].slot \in Slot /\ exec[w].epoch \in Nat
      BY <1>6 DEF EndLostStep, FailEndedRun, TypeInv, TypeOK, Located, Exec
    <3>. QED
      BY <1>6, <3>1 DEF EndLostStep, FailEndedRun
  <2>2. run' = run
    BY <1>6 DEF EndLostStep, FailEndedRun
  <2>3. \A r \in Run, i \in Slot : /\ step'[r][i].status = step[r][i].status
                                   /\ step'[r][i].claims = step[r][i].claims
                                   /\ step'[r][i].lease > 0 => step[r][i].lease > 0
    <3>1. CASE step' = step
      BY <3>1
    <3>2. CASE step' = [step EXCEPT ![q][k].trace = e]
      <4>. DEFINE new == [step[q][k] EXCEPT !.trace = e]
      <4>1. step' = [step EXCEPT ![q][k] = new]
        BY <3>2
      <4>2. /\ new.status = step[q][k].status
            /\ new.claims = step[q][k].claims
            /\ new.lease = step[q][k].lease
        <5>1. step[q][k] \in StepRow
          OBVIOUS
        <5>. QED
          BY <5>1 DEF StepRow
      <4>. HIDE DEF new
      <4>. QED
        BY <4>1, <4>2
    <3>. QED
      BY <2>1, <3>1, <3>2 DEF TerminalTrace
  <2>4. SUFFICES ASSUME NEW r \in Run PROVE InTurn(r)'
    BY DEF StepsInTurn
  <2>5. InTurn(r)
    BY DEF StepsInTurn
  <2>6. \A i \in Slot :
           /\ step'[r][i].lease > 0 => step'[r][i].status = "generating"
           /\ step'[r][i].status = "generating" => run'[r].status = "pending"
           /\ step'[r][i].status = "pending" => step'[r][i].claims = 0
    BY <2>2, <2>3, <2>5 DEF InTurn
  <2>7. ASSUME NEW i \in Slot, NEW j \in Slot, j < i,
               step'[r][i].status \in {"generating", "completed"}
        PROVE  step'[r][j].status = "completed"
    <3>1. step'[r][i].status = step[r][i].status
      BY <2>3
    <3>2. step'[r][j].status = step[r][j].status
      BY <2>3
    <3>3. step[r][j].status = "completed"
      BY <2>5, <2>7, <3>1 DEF InTurn
    <3>. QED
      BY <3>2, <3>3
  <2>. QED
    BY <2>6, <2>7 DEF InTurn
<1>7. ASSUME NEW r \in Run, CancelRun(r)
      PROVE  StepsInTurn'
  <2>1. TouchesOnly(r)
    BY <1>7 DEF CancelRun, TouchesOnly
  <2>2. \A i \in Slot :
           step'[r][i] = IF step[r][i].status \in {"pending", "generating"}
                         THEN [step[r][i] EXCEPT !.status = "canceled", !.owner = NoWorker,
                                                 !.lease = 0]
                         ELSE step[r][i]
    BY <1>7 DEF CancelRun
  <2>3. \A i \in Slot :
           \/ step'[r][i] = step[r][i] /\ step[r][i].status \notin {"pending", "generating"}
           \/ step'[r][i].status = "canceled" /\ step'[r][i].lease = 0
              /\ step[r][i].status \in {"pending", "generating"}
    <3> SUFFICES ASSUME NEW i \in Slot,
                        step[r][i].status \in {"pending", "generating"}
                 PROVE  step'[r][i].status = "canceled" /\ step'[r][i].lease = 0
      BY <2>2
    <3>1. step[r][i] \in StepRow
      OBVIOUS
    <3>. QED
      BY <2>2, <3>1 DEF StepRow
  <2>4. InTurn(r)'
    BY <2>3 DEF StepsInTurn, InTurn
  <2>. QED
    BY <2>1, <2>4, OthersInTurn
<1>8. CASE DeleteRoom
  BY <1>8 DEF DeleteRoom, NoStep, NoRow, StepsInTurn, InTurn
<1>9. CASE Tick
  <2>1. \A r \in Run, i \in Slot : /\ step'[r][i].status = step[r][i].status
                                   /\ step'[r][i].claims = step[r][i].claims
                                   /\ step'[r][i].lease > 0 => step[r][i].lease > 0
    BY <1>9 DEF Tick, StepRow
  <2>. QED
    BY <1>9, <2>1 DEF Tick, StepsInTurn, InTurn
<1>10. CASE UNCHANGED <<run, step>>
  BY <1>10 DEF StepsInTurn, InTurn
<1>11. \A w \in Worker :
          ClaimStep(w) \/ RenewLease(w) \/ CompleteStep(w) \/ ExhaustStep(w) \/ FailStep(w) =>
            exec[w].run \in Run /\ exec[w].slot \in Slot
  BY DEF ClaimStep, RenewLease, CompleteStep, ExhaustStep, FailStep, TypeInv, Located
<1>. QED
  BY <1>1, <1>2, <1>3, <1>4, <1>5, <1>6, <1>7, <1>8, <1>9, <1>10, <1>11, StepWrites

-----------------------------------------------------------------------------
\* A write to another run's steps leaves those of r alone.
LEMMA EndedRunKept ==
  ASSUME TypeInv, Next, NEW r \in Run, run[r].status \in Terminal, room'.status # "deleted"
  PROVE  run'[r] = run[r]
<1>1. room \in Room /\ run[r].status \notin {"absent", "pending"}
  BY DEF TypeInv, TypeOK, Terminal
<1>2. ASSUME NEW w \in Worker, NEW q \in Run, AdmitRun(w, q)
      PROVE  run'[r] = run[r]
  BY <1>1, <1>2 DEF AdmitRun
<1>3. ASSUME NEW q \in Run, EndsRun(q)
      PROVE  run'[r] = run[r]
  BY <1>1, <1>3 DEF EndsRun
<1>4. ~ DeleteRoom
  BY <1>1 DEF DeleteRoom, Room
<1>. QED
  BY <1>2, <1>3, <1>4, RunWrites

LEMMA EndedStepsKept ==
  ASSUME TypeInv, StepsInTurn, Next, NEW r \in Run, NEW i \in Slot,
         run[r].status \in Terminal, room'.status # "deleted"
  PROVE  StepWithoutLateTrace(r, i)' = StepWithoutLateTrace(r, i)
<1>1. /\ room \in Room
      /\ run[r].status \notin {"absent", "pending"}
      /\ step \in [Run -> [Slot -> StepRow]]
  BY DEF TypeInv, TypeOK, Terminal
<1> SUFFICES \/ step'[r][i] = step[r][i]
             \/ /\ step[r][i].status = "canceled"
                /\ \E e : step'[r][i] = [step[r][i] EXCEPT !.trace = e]
  <2>1. step[r][i] \in StepRow
    BY <1>1
  <2>. QED
    BY <2>1 DEF StepWithoutLateTrace, StepRow
<1>2. ASSUME NEW w \in Worker, NEW q \in Run, AdmitRun(w, q)
      PROVE  step'[r][i] = step[r][i]
  BY <1>1, <1>2 DEF AdmitRun
<1>3. ASSUME NEW w \in Worker, ClaimStep(w) \/ RenewLease(w) \/ CompleteStep(w)
      PROVE  step'[r][i] = step[r][i]
  <2>1. exec[w].run # r
    BY <1>1, <1>3 DEF ClaimStep, RenewLease, CompleteStep, CanClaimStep, OwnsEpoch
  <2>. QED
    BY <1>1, <1>3, <2>1 DEF ClaimStep, RenewLease, CompleteStep
<1>4. ASSUME NEW w \in Worker, ExhaustStep(w) \/ FailStep(w)
      PROVE  step'[r][i] = step[r][i]
  <2>1. exec[w].run # r
    BY <1>1, <1>4 DEF ExhaustStep, FailStep, ClaimsExhausted, OwnsEpoch
  <2>. QED
    BY <1>1, <1>4, <2>1 DEF ExhaustStep, FailStep, EndFailed
<1>5. ASSUME NEW w \in Worker, EndLostStep(w) \/ FailEndedRun(w)
      PROVE  \/ step'[r][i] = step[r][i]
             \/ /\ step[r][i].status = "canceled"
                /\ \E e : step'[r][i] = [step[r][i] EXCEPT !.trace = e]
  <2>. DEFINE q == exec[w].run
              k == exec[w].slot
  <2>1. q \in Run /\ k \in Slot
    BY <1>5 DEF EndLostStep, FailEndedRun, TypeInv, Located
  <2>2. \/ step' = step
        \/ /\ step[q][k].status = "canceled"
           /\ \E e : step' = [step EXCEPT ![q][k] = [step[q][k] EXCEPT !.trace = e]]
    BY <1>5 DEF EndLostStep, FailEndedRun, TerminalTrace
  <2>3. CASE step' = step
    BY <2>3
  <2>4. ASSUME NEW e, step' = [step EXCEPT ![q][k] = [step[q][k] EXCEPT !.trace = e]],
               step[q][k].status = "canceled"
        PROVE  \/ step'[r][i] = step[r][i]
               \/ /\ step[r][i].status = "canceled"
                  /\ step'[r][i] = [step[r][i] EXCEPT !.trace = e]
    <3>1. CASE r = q /\ i = k
      BY <1>1, <2>4, <3>1
    <3>2. CASE r # q \/ i # k
      BY <1>1, <2>1, <2>4, <3>2
    <3>. QED
      BY <3>1, <3>2
  <2>. QED
    BY <2>2, <2>3, <2>4
<1>6. ASSUME NEW q \in Run, CancelRun(q)
      PROVE  step'[r][i] = step[r][i]
  BY <1>1, <1>6 DEF CancelRun
<1>7. ~ DeleteRoom
  BY <1>1 DEF DeleteRoom, Room
<1>8. CASE Tick
  <2>1. step[r][i] \in StepRow /\ ~ step[r][i].lease > 0
    BY <1>1 DEF StepsInTurn, InTurn
  <2>. QED
    BY <1>8, <2>1 DEF Tick
<1>9. CASE UNCHANGED run /\ UNCHANGED step
  BY <1>9
<1>. QED
  BY <1>2, <1>3, <1>4, <1>5, <1>6, <1>7, <1>8, <1>9, StepWrites

LEMMA EndedMessagesKept ==
  ASSUME TypeInv, Next, NEW r \in Run, run[r].status \in Terminal, room'.status # "deleted"
  PROVE  {m \in message' : m.run = r} = {m \in message : m.run = r}
<1>1. room \in Room /\ run[r].status \notin {"absent", "pending"}
  BY DEF TypeInv, TypeOK, Terminal
<1>2. ASSUME NEW w \in Worker, NEW q \in Run, AdmitRun(w, q)
      PROVE  \A m \in message' : m.run = r => m \in message
  BY <1>1, <1>2 DEF AdmitRun
<1>3. ASSUME NEW w \in Worker, CompleteStep(w)
      PROVE  \A m \in message' : m.run = r => m \in message
  <2>. DEFINE new == [seq |-> NextSeq, run |-> exec[w].run, slot |-> exec[w].slot,
                      replyTo |-> step[exec[w].run][exec[w].slot].replyTo,
                      epoch |-> exec[w].epoch]
  <2>1. message' = message \union {new}
    BY <1>3 DEF CompleteStep
  <2>2. new.run = exec[w].run /\ run[exec[w].run].status = "pending"
    BY <1>3 DEF CompleteStep, OwnsEpoch
  <2>. HIDE DEF new
  <2>. QED
    BY <1>1, <2>1, <2>2
<1>4. ~ DeleteRoom
  BY <1>1 DEF DeleteRoom, Room
<1>5. \/ \E w \in Worker, q \in Run : AdmitRun(w, q)
      \/ \E w \in Worker : CompleteStep(w)
      \/ DeleteRoom
      \/ UNCHANGED message
  <2>1. ASSUME NEW w \in Worker,
               \/ RefuseAdmission(w) \/ LoadRun(w) \/ FinishRun(w) \/ DropRequest(w)
               \/ ClaimStep(w) \/ ExhaustStep(w) \/ RefuseClaim(w) \/ RenewLease(w)
               \/ LoseStep(w) \/ EndLostStep(w) \/ BeginCommit(w) \/ RefuseCommit(w)
               \/ BeginFail(w) \/ FailStep(w) \/ FailEndedRun(w) \/ RefuseFail(w)
               \/ CommitEdit(w) \/ RefuseEdit(w) \/ Crash(w)
        PROVE  UNCHANGED message
    BY <2>1 DEF RefuseAdmission, LoadRun, FinishRun, DropRequest, ClaimStep, ExhaustStep,
                RefuseClaim, RenewLease, LoseStep, EndLostStep, BeginCommit, RefuseCommit,
                BeginFail, FailStep, FailEndedRun, RefuseFail, CommitEdit, RefuseEdit, Crash
  <2>2. ASSUME NEW w \in Worker,
               \/ \E s \in Schedule, t \in {"user_message", "continue"} : ReadForTurn(w, s, t)
               \/ \E q \in Run, s \in Schedule : ReadForRetry(w, q, s)
               \/ \E q \in Run : StartResume(w, q)
               \/ \E s \in {"active", "archived"}, o \in Roster : ReadForEdit(w, s, o)
        PROVE  UNCHANGED message
    BY <2>2 DEF ReadForTurn, ReadForRetry, StartResume, ReadForEdit
  <2>3. CASE Tick \/ \E q \in Run : CancelRun(q)
    BY <2>3 DEF Tick, CancelRun
  <2>. QED
    BY <2>1, <2>2, <2>3 DEF Next
<1>6. message \subseteq message' \/ DeleteRoom
  BY <1>5 DEF AdmitRun, CompleteStep
<1>. QED
  BY <1>2, <1>3, <1>4, <1>5, <1>6

\* A run that has ended never changes again, nor do its steps and messages.
THEOREM EndedRunsStayAsTheyAre == Spec => EndedRunsAreFrozen
<1>1. Init => StepsInTurn
  BY DEF Init, NoStep, StepsInTurn, InTurn
<1>2. TypeInv /\ StepsInTurn /\ [Next]_vars =>
        [\A r \in Run :
           run[r].status \in Terminal /\ room'.status # "deleted" =>
             /\ run'[r] = run[r]
             /\ \A i \in Slot : StepWithoutLateTrace(r, i)' = StepWithoutLateTrace(r, i)
             /\ {m \in message' : m.run = r} = {m \in message : m.run = r}]_vars
  BY EndedRunKept, EndedStepsKept, EndedMessagesKept
<1>. QED
  BY InitTypeInv, NextTypeInv, <1>1, StepsInTurnStep, <1>2, PTL DEF Spec, EndedRunsAreFrozen
=============================================================================
