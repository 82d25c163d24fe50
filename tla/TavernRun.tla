------------------------------ MODULE TavernRun ------------------------------
(***************************************************************************)
(* One tavern room of the AI service: admission of runs, the leased        *)
(* execution of their speaker steps by several request workers, retries,   *)
(* cancellation, and edits of the room, all against one database.          *)
(*                                                                         *)
(* A database transaction of persistence/tavern_repository.py is one       *)
(* action; everything a worker (an HTTP request of services/tavern.py)     *)
(* remembers between two transactions is in pc, draft and exec.  A message *)
(* is named by its sequence number, which is unique in the room.  A lease  *)
(* is the time it has left: 0 is the source's lease_expires_at <= now.     *)
(***************************************************************************)
EXTENDS Naturals, FiniteSets

CONSTANTS
    Persona,     \* personas that can be cast in the room
    Worker,      \* request workers, over all server processes
    Run,         \* identifiers of runs: bounds how many a behaviour admits
    NoRun,       \* the parent of a run that retries nothing
    NoWorker,    \* the lease owner of a step nobody holds
    NoDraft,     \* what a worker that prepares no room transaction remembers
    NoPersona,   \* the persona of a slot that is not scheduled
    MaxSteps,    \* most speakers of one run
    MaxClaims,   \* ownership claims of one step (max_step_claims)
    LeaseLen,    \* ticks a lease lasts (step_lease_seconds)
    MaxEditRevision, \* bound: edits start from revisions below it
    MaxCrashes   \* bound on worker crashes

ASSUME PersonaAssumption == IsFiniteSet(Persona)
ASSUME MaxStepsAssumption == MaxSteps \in Nat \ {0}
ASSUME MaxClaimsAssumption == MaxClaims \in Nat \ {0}
ASSUME LeaseLenAssumption == LeaseLen \in Nat \ {0}
ASSUME BoundsAssumption == MaxEditRevision \in Nat /\ MaxCrashes \in Nat
ASSUME NullsAssumption == NoRun \notin Run /\ NoWorker \notin Worker /\ NoPersona \notin Persona

VARIABLES
    room,     \* the room's row and its participants' rows
    run,      \* the runs' rows
    step,     \* the speaker steps' rows, by run and slot
    message,  \* the messages' rows
    pc,       \* where each worker stands
    draft,    \* the run or room a worker computed and has not yet written
    exec,     \* the step a worker executes and what it remembers of it
    crashes   \* crashes so far

vars == <<room, run, step, message, pc, draft, exec, crashes>>

-----------------------------------------------------------------------------
Slot == 1..MaxSteps
Place == 0..Cardinality(Persona)          \* display_order, 0: not in the room
Roster == {order \in [Persona -> Place] :
             \E n \in Place \ {0} :
               /\ \A k \in 1..n : \E p \in Persona : order[p] = k
               /\ \A p \in Persona : order[p] <= n
               /\ \A p, q \in Persona : order[p] = order[q] /\ p # q => order[p] = 0}
Schedule == UNION {[1..n -> Persona] : n \in Slot}

Terminal == {"completed", "partial", "failed", "canceled"}
RunStatus == {"absent", "pending"} \union Terminal
StepStatus == {"absent", "pending", "generating", "completed", "failed",
               "blocked", "canceled"}
Pc == {"idle", "admit", "edit", "load", "claim", "hold", "commit", "fail", "lost", "unbound"}

Room == [status : {"active", "archived", "deleted"}, revision : Nat,
         lastSeq : Nat, roster : [Persona -> Place]]
RunRow == [status : RunStatus, trigger : {"none", "user_message", "continue", "retry"},
           parent : Run \union {NoRun}, root : Run \union {NoRun},
           expectedRevision : Nat, anchor : Nat, terminalSeq : Nat]
StepRow == [status : StepStatus, persona : Persona \union {NoPersona},
            owner : Worker \union {NoWorker}, lease : 0..LeaseLen,
            claims : 0..MaxClaims, message : Nat, replyTo : Nat, trace : Nat]
Message == [seq : Nat, run : Run \union {NoRun}, slot : 0..MaxSteps, replyTo : Nat, epoch : Nat]
RunDraft == [trigger : {"user_message", "continue", "retry"},
             parent : Run \union {NoRun}, root : Run \union {NoRun},
             expectedRevision : Nat, anchor : Nat, schedule : Schedule]
RoomDraft == [status : {"active", "archived"}, roster : [Persona -> Place],
              expectedRevision : Nat]
Exec == [run : Run \union {NoRun}, slot : 0..MaxSteps, epoch : Nat,
         anchor : Nat, live : BOOLEAN, bound : BOOLEAN]

NoRow == [status |-> "absent", trigger |-> "none", parent |-> NoRun, root |-> NoRun,
          expectedRevision |-> 0, anchor |-> 0, terminalSeq |-> 0]
NoStep == [status |-> "absent", persona |-> NoPersona, owner |-> NoWorker, lease |-> 0,
           claims |-> 0, message |-> 0, replyTo |-> 0, trace |-> 0]
\* A step's evidence: the claim it is of, 0 for none, or the server's own record that
\* the claims are exhausted.
Exhaustion == MaxClaims + 1
NoExec == [run |-> NoRun, slot |-> 0, epoch |-> 0, anchor |-> 0,
           live |-> FALSE, bound |-> FALSE]

\* What the tables may hold.  The code behaviour: every column keeps its type and the
\* claim counter of a step stays within the claim budget.
TypeOK ==
    /\ room \in Room
    /\ run \in [Run -> RunRow]
    /\ step \in [Run -> [Slot -> StepRow]]
    /\ message \subseteq Message
    /\ pc \in [Worker -> Pc]
    /\ draft \in [Worker -> RunDraft \union RoomDraft \union {NoDraft}]
    /\ exec \in [Worker -> Exec]
    /\ crashes \in 0..MaxCrashes

\* A created room: revision 0, a non-empty cast, and a director's opening message or
\* none (create_room).
OpeningMessage == [seq |-> 1, run |-> NoRun, slot |-> 0, replyTo |-> 0, epoch |-> 0]
Init ==
    /\ \E roster \in Roster, opening \in SUBSET {OpeningMessage} :
         /\ room = [status |-> "active", revision |-> 0,
                    lastSeq |-> IF opening = {} THEN 0 ELSE 1, roster |-> roster]
         /\ message = opening
    /\ run = [r \in Run |-> NoRow]
    /\ step = [r \in Run |-> [i \in Slot |-> NoStep]]
    /\ pc = [w \in Worker |-> "idle"]
    /\ draft = [w \in Worker |-> NoDraft]
    /\ exec = [w \in Worker |-> NoExec]
    /\ crashes = 0

-----------------------------------------------------------------------------
(* What a transaction asks of the tables.                                  *)

Scheduled(r) == {i \in Slot : step[r][i].status # "absent"}
CompletedSlots(r) == {i \in Slot : step[r][i].status = "completed"}
\* Defect: a retry that schedules every speaker of its source again.
RemainingSlotsAll(r) == Scheduled(r)
RemainingSlots(r) == {i \in Slot : step[r][i].status \in {"failed", "blocked"}}
Cast(r) == {step[r][i].persona : i \in Scheduled(r)}

\* The number of the next message: the room's sequence, read back after its increment.
NextSeq == room.lastSeq + 1

NoPendingRun == \A r \in Run : run[r].status # "pending"

\* Defect: the room is claimed without asking for a pending run.
CanClaimRoomWhilePending(revision) == room.status # "deleted" /\ room.revision = revision
\* Defect: the room is claimed without comparing its revision.
CanClaimRoomUnversioned(revision) == room.status # "deleted" /\ NoPendingRun
\* The revision compare-and-swap that admission, edit and deletion compete for.
CanClaimRoom(revision) ==
    /\ room.status # "deleted"
    /\ room.revision = revision
    /\ NoPendingRun

\* Defect: an expired lease is never taken over.
UnheldPending(r, i) == step[r][i].status = "pending"
\* A claimable step: nobody started it, or its lease ran out.
Unheld(r, i) ==
    \/ step[r][i].status = "pending"
    \/ step[r][i].status = "generating" /\ step[r][i].lease = 0

\* Defect: the owner is compared, the claim epoch is not.
OwnsStep(w, r, i) ==
    run[r].status = "pending" /\ step[r][i].status = "generating" /\ step[r][i].owner = w
\* The fence of every transaction that ends a step: the step is still generating under
\* the claim this worker believes it owns.
OwnsEpoch(w, r, i) ==
    /\ run[r].status = "pending"
    /\ step[r][i].status = "generating"
    /\ step[r][i].owner = w
    /\ step[r][i].claims = exec[w].epoch

\* A worker's request ends, with an answer, an error or a crash.
Release(w) ==
    /\ pc' = [pc EXCEPT ![w] = "idle"]
    /\ draft' = [draft EXCEPT ![w] = NoDraft]
    /\ exec' = [exec EXCEPT ![w] = NoExec]

-----------------------------------------------------------------------------
(* Reading what a new run is computed from (run_turn, retry_run).  The     *)
(* reads before admission are one action at the last of them: admission    *)
(* compares the revision, and status and roster change only with it.  The  *)
(* client's expected revision is one it was shown, so at most the current  *)
(* one; a smaller one never wins the comparison.                           *)

\* schedule-v1: the chosen personas in the room's display order.
InDisplayOrder(schedule) ==
    /\ \A i \in DOMAIN schedule : room.roster[schedule[i]] > 0
    /\ \A i, j \in DOMAIN schedule :
         i < j => room.roster[schedule[i]] < room.roster[schedule[j]]

ReadForTurn(w, schedule, trigger) ==
    /\ pc[w] = "idle"
    /\ room.status = "active"
    /\ InDisplayOrder(schedule)
    /\ trigger = "continue" => room.lastSeq > 0
    /\ draft' = [draft EXCEPT ![w] =
         [trigger |-> trigger, parent |-> NoRun, root |-> NoRun,
          expectedRevision |-> room.revision,
          anchor |-> IF trigger = "continue" THEN room.lastSeq ELSE 0,
          schedule |-> schedule]]
    /\ pc' = [pc EXCEPT ![w] = "admit"]
    /\ UNCHANGED <<room, run, step, message, exec, crashes>>

\* The schedule of a retry: the source's failed and blocked speakers, in its order.
IsRemainder(schedule, source) ==
    /\ {schedule[i] : i \in DOMAIN schedule} =
         {step[source][i].persona : i \in RemainingSlots(source)}
    /\ \A i, j \in DOMAIN schedule : i < j =>
         \E k, l \in RemainingSlots(source) :
            /\ k < l
            /\ schedule[i] = step[source][k].persona
            /\ schedule[j] = step[source][l].persona

\* The last slot that has spoken, 0 before anybody has.
IsLastSpoken(r, i) ==
    IF i = 0 THEN CompletedSlots(r) = {}
    ELSE i \in CompletedSlots(r) /\ \A j \in CompletedSlots(r) : j <= i

\* What the speaker after slot last answers.
ReplyAnchor(r, last) == IF last = 0 THEN run[r].anchor ELSE step[r][last].message

\* Defect: a retry is accepted whatever happened to the room since its source ended.
RetryContextIgnored(source) == run[source].terminalSeq <= room.lastSeq
\* Nothing but the source itself has touched the room since it was admitted.
RetryContextUnchanged(source) ==
    /\ room.revision = run[source].expectedRevision + 1
    /\ room.lastSeq = run[source].terminalSeq

ReadForRetry(w, source, schedule) ==
    /\ pc[w] = "idle"
    /\ room.status = "active"
    /\ run[source].status \in {"partial", "failed"}
    /\ \A r \in Run : run[r].parent # source
    /\ RetryContextUnchanged(source)
    /\ IsRemainder(schedule, source)
    /\ \A i \in DOMAIN schedule : room.roster[schedule[i]] > 0
    /\ \E last \in 0..MaxSteps :
         /\ IsLastSpoken(source, last)
         /\ draft' = [draft EXCEPT ![w] =
              [trigger |-> "retry", parent |-> source, root |-> run[source].root,
               expectedRevision |-> room.revision, anchor |-> ReplyAnchor(source, last),
               schedule |-> schedule]]
    /\ pc' = [pc EXCEPT ![w] = "admit"]
    /\ UNCHANGED <<room, run, step, message, exec, crashes>>

-----------------------------------------------------------------------------
(* Admission (begin_run): the room row is claimed by its revision, then    *)
(* the run, its steps and the user's message are inserted with it.         *)

\* The unique index on parent_run_id: a run is retried by at most one run.
ParentFree(d) == d.parent = NoRun \/ \A r \in Run : run[r].parent # d.parent

CanAdmit(d) == CanClaimRoom(d.expectedRevision) /\ ParentFree(d)

AdmittedRow(r, d) ==
    [status |-> "pending", trigger |-> d.trigger, parent |-> d.parent,
     root |-> IF d.root = NoRun THEN r ELSE d.root,
     expectedRevision |-> d.expectedRevision,
     anchor |-> IF d.trigger = "user_message" THEN NextSeq ELSE d.anchor,
     terminalSeq |-> 0]

AdmittedSteps(d, anchor) ==
    [i \in Slot |->
       IF i \in DOMAIN d.schedule
       THEN [NoStep EXCEPT !.status = "pending", !.persona = d.schedule[i],
                           !.replyTo = IF i = 1 THEN anchor ELSE 0]
       ELSE NoStep]

AdmitRun(w, r) ==
    LET d   == draft[w]
        row == AdmittedRow(r, d)
    IN  /\ pc[w] = "admit"
        /\ run[r].status = "absent"
        /\ CanAdmit(d)
        /\ room' = [room EXCEPT !.revision = @ + 1,
                                !.lastSeq = IF d.trigger = "user_message" THEN @ + 1 ELSE @]
        /\ run' = [run EXCEPT ![r] = row]
        /\ step' = [step EXCEPT ![r] = AdmittedSteps(d, row.anchor)]
        /\ message' = IF d.trigger = "user_message"
                      THEN message \union {[seq |-> NextSeq, run |-> r, slot |-> 0,
                                            replyTo |-> 0, epoch |-> 0]}
                      ELSE message
        /\ pc' = [pc EXCEPT ![w] = "load"]
        /\ draft' = [draft EXCEPT ![w] = NoDraft]
        /\ exec' = [exec EXCEPT ![w] = [NoExec EXCEPT !.run = r]]
        /\ UNCHANGED crashes

\* A replay, a conflict or a missing room: nothing is written.
RefuseAdmission(w) ==
    /\ pc[w] = "admit"
    /\ ~ CanAdmit(draft[w])
    /\ Release(w)
    /\ UNCHANGED <<room, run, step, message, crashes>>

-----------------------------------------------------------------------------
(* Execution (_execute_run): load the run, then claim, generate and commit *)
(* one step after the other.  complete_step reads the run again after its  *)
(* transaction, and the loop goes on with what it read.                    *)

\* resume_run, or a turn or retry repeated under its idempotency key.
StartResume(w, r) ==
    /\ pc[w] = "idle"
    /\ run[r].status = "pending"
    /\ room.status = "active"
    /\ room.revision = run[r].expectedRevision + 1
    /\ pc' = [pc EXCEPT ![w] = "load"]
    /\ exec' = [exec EXCEPT ![w] = [NoExec EXCEPT !.run = r]]
    /\ UNCHANGED <<room, run, step, message, draft, crashes>>

\* Committed steps are skipped; the next one is claimed under the epoch after the one
\* read here.
LoadRun(w) ==
    LET r    == exec[w].run
        open == Scheduled(r) \ CompletedSlots(r)
    IN  /\ pc[w] = "load"
        /\ \E next \in open, last \in 0..MaxSteps :
             /\ \A j \in open : next <= j
             /\ IsLastSpoken(r, last)
             /\ exec' = [exec EXCEPT ![w].slot = next,
                                     ![w].epoch = step[r][next].claims + 1,
                                     ![w].anchor = ReplyAnchor(r, last)]
        /\ pc' = [pc EXCEPT ![w] = "claim"]
        /\ UNCHANGED <<room, run, step, message, draft, crashes>>

\* No step is left to execute.  The answer is built from completed_run, which only a
\* commit of this very execution binds.
FinishRun(w) ==
    /\ pc[w] = "load"
    /\ run[exec[w].run].status # "absent"
    /\ Scheduled(exec[w].run) = CompletedSlots(exec[w].run)
    /\ IF exec[w].bound
       THEN Release(w)
       ELSE pc' = [pc EXCEPT ![w] = "unbound"] /\ UNCHANGED <<draft, exec>>
    /\ UNCHANGED <<room, run, step, message, crashes>>

\* The run is gone with its room (404), or the answer could not be built (500).
DropRequest(w) ==
    /\ \/ pc[w] = "load" /\ run[exec[w].run].status = "absent"
       \/ pc[w] = "unbound"
    /\ Release(w)
    /\ UNCHANGED <<room, run, step, message, crashes>>

\* Defect: the claim budget is not asked for.
CanClaimStepUnbudgeted(r, i) ==
    /\ run[r].status = "pending"
    /\ Unheld(r, i)
    /\ i > 1 => step[r][i - 1].status = "completed"

CanClaimStep(r, i) ==
    /\ run[r].status = "pending"
    /\ Unheld(r, i)
    /\ step[r][i].claims < MaxClaims
    /\ i > 1 => step[r][i - 1].status = "completed"

ClaimsExhausted(r, i) ==
    /\ run[r].status = "pending"
    /\ Unheld(r, i)
    /\ step[r][i].claims >= MaxClaims

ClaimedRow(w, old) ==
    [old EXCEPT !.status = "generating", !.owner = w, !.lease = LeaseLen,
                !.claims = old.claims + 1,
                !.replyTo = IF exec[w].slot > 1 THEN exec[w].anchor ELSE old.replyTo]

ClaimStep(w) ==
    LET r == exec[w].run
        i == exec[w].slot
    IN  /\ pc[w] = "claim"
        /\ CanClaimStep(r, i)
        /\ step' = [step EXCEPT ![r][i] = ClaimedRow(w, step[r][i])]
        /\ pc' = [pc EXCEPT ![w] = "hold"]
        /\ UNCHANGED <<room, run, message, draft, exec, crashes>>

\* Defect: the steps after a failed one stay pending.
FailedStepOnly(r, i, evidence) ==
    [step[r] EXCEPT ![i] = [@ EXCEPT !.status = "failed", !.owner = NoWorker,
                                     !.lease = 0, !.trace = evidence]]

\* Step i ends as failed, the steps after it are blocked, the run ends as partial if
\* anybody spoke: fail_step and the exhausted branch of claim_step.
FailedSteps(r, i, evidence) ==
    [j \in Slot |->
       CASE j = i -> [step[r][j] EXCEPT !.status = "failed", !.owner = NoWorker,
                                        !.lease = 0, !.trace = evidence]
         [] j > i /\ step[r][j].status = "pending" ->
              [step[r][j] EXCEPT !.status = "blocked"]
         [] OTHER -> step[r][j]]

EndFailed(r, i, evidence) ==
    /\ step' = [step EXCEPT ![r] = FailedSteps(r, i, evidence)]
    /\ run' = [run EXCEPT ![r].status = IF CompletedSlots(r) # {} THEN "partial" ELSE "failed",
                          ![r].terminalSeq = room.lastSeq]

ExhaustStep(w) ==
    LET r == exec[w].run
        i == exec[w].slot
    IN  /\ pc[w] = "claim"
        /\ ClaimsExhausted(r, i)
        /\ EndFailed(r, i, Exhaustion)
        /\ Release(w)
        /\ UNCHANGED <<room, message, crashes>>

\* Somebody else holds the step, or the run has ended, or it is gone.
RefuseClaim(w) ==
    /\ pc[w] = "claim"
    /\ ~ CanClaimStep(exec[w].run, exec[w].slot)
    /\ ~ ClaimsExhausted(exec[w].run, exec[w].slot)
    /\ Release(w)
    /\ UNCHANGED <<room, run, step, message, crashes>>

-----------------------------------------------------------------------------
(* Generation, under a heartbeat, and the transaction that ends the step.  *)

RenewLease(w) ==
    LET r == exec[w].run
        i == exec[w].slot
    IN  /\ pc[w] \in {"hold", "commit"}
        /\ OwnsEpoch(w, r, i)
        /\ step[r][i].lease > 0
        /\ step' = [step EXCEPT ![r][i].lease = LeaseLen]
        /\ UNCHANGED <<room, run, message, pc, draft, exec, crashes>>

\* The reply is generated and ensure_active still sees the lease.
BeginCommit(w) ==
    LET r == exec[w].run
        i == exec[w].slot
    IN  /\ pc[w] = "hold"
        /\ OwnsEpoch(w, r, i)
        /\ step[r][i].lease > 0
        /\ pc' = [pc EXCEPT ![w] = "commit"]
        /\ exec' = [exec EXCEPT ![w].live = TRUE]
        /\ UNCHANGED <<room, run, step, message, draft, crashes>>

\* Generation or the commit raised.  fail_step reads the clock before it waits for the
\* run's row, so it may judge the lease by the time it started.
BeginFail(w) ==
    /\ pc[w] \in {"hold", "commit"}
    /\ pc' = [pc EXCEPT ![w] = "fail"]
    /\ exec' = [exec EXCEPT ![w].live = step[exec[w].run][exec[w].slot].lease > 0]
    /\ UNCHANGED <<room, run, step, message, draft, crashes>>

\* Defect: late evidence is attached to a step however it ended.
TerminalTraceAnyStatus(r, i, epoch) ==
    IF step[r][i].claims = epoch THEN [step EXCEPT ![r][i].trace = epoch] ELSE step
\* Evidence of a late failure is attached to a canceled step of the same claim
\* (record_terminal_step_trace).
TerminalTrace(r, i, epoch) ==
    IF step[r][i].status = "canceled" /\ step[r][i].claims = epoch
    THEN [step EXCEPT ![r][i].trace = epoch]
    ELSE step

\* ensure_active finds the lease lost, or a heartbeat that failed to renew it; or
\* complete_step finds the fence broken or the lease expired.
LoseStep(w) ==
    LET r == exec[w].run
        i == exec[w].slot
    IN  /\ \/ pc[w] = "hold"
           \/ /\ pc[w] = "commit"
              /\ run[r].status = "pending"
              /\ ~ OwnsEpoch(w, r, i) \/ step[r][i].lease = 0
        /\ pc' = [pc EXCEPT ![w] = "lost"]
        /\ UNCHANGED <<room, run, step, message, draft, exec, crashes>>

\* The lost reply leaves its evidence if the run was canceled meanwhile.
EndLostStep(w) ==
    /\ pc[w] = "lost"
    /\ step' = TerminalTrace(exec[w].run, exec[w].slot, exec[w].epoch)
    /\ Release(w)
    /\ UNCHANGED <<room, run, message, crashes>>

\* complete_step: the message, the room's sequence, the step and, with the last step,
\* the run change together.
CompleteStep(w) ==
    LET r    == exec[w].run
        i    == exec[w].slot
        last == \A j \in Scheduled(r) : j <= i
    IN  /\ pc[w] = "commit"
        /\ OwnsEpoch(w, r, i)
        /\ exec[w].live
        /\ last => Scheduled(r) \ {i} = CompletedSlots(r)
        /\ room' = [room EXCEPT !.lastSeq = @ + 1]
        /\ message' = message \union
             {[seq |-> NextSeq, run |-> r, slot |-> i, replyTo |-> step[r][i].replyTo,
               epoch |-> exec[w].epoch]}
        /\ step' = [step EXCEPT ![r][i] =
             [step[r][i] EXCEPT !.status = "completed", !.owner = NoWorker, !.lease = 0,
                                !.message = NextSeq, !.trace = exec[w].epoch]]
        /\ run' = IF last
                  THEN [run EXCEPT ![r].status = "completed", ![r].terminalSeq = NextSeq]
                  ELSE run
        /\ pc' = [pc EXCEPT ![w] = "load"]
        /\ exec' = [exec EXCEPT ![w] = [NoExec EXCEPT !.run = r, !.bound = TRUE]]
        /\ UNCHANGED <<draft, crashes>>

\* The run has ended, or it is gone.
RefuseCommit(w) ==
    /\ pc[w] = "commit"
    /\ run[exec[w].run].status # "pending"
    /\ Release(w)
    /\ UNCHANGED <<room, run, step, message, crashes>>

FailStep(w) ==
    LET r == exec[w].run
        i == exec[w].slot
    IN  /\ pc[w] = "fail"
        /\ OwnsEpoch(w, r, i)
        /\ exec[w].live
        /\ EndFailed(r, i, exec[w].epoch)
        /\ Release(w)
        /\ UNCHANGED <<room, message, crashes>>

\* The run has ended: an actor's failure leaves its evidence on a canceled step, any
\* other failure leaves nothing.
FailEndedRun(w) ==
    LET r == exec[w].run
        i == exec[w].slot
    IN  /\ pc[w] = "fail"
        /\ run[r].status # "pending"
        /\ \/ step' = TerminalTrace(r, i, exec[w].epoch)
           \/ UNCHANGED step
        /\ Release(w)
        /\ UNCHANGED <<room, run, message, crashes>>

RefuseFail(w) ==
    LET r == exec[w].run
        i == exec[w].slot
    IN  /\ pc[w] = "fail"
        /\ run[r].status = "pending"
        /\ \/ ~ OwnsEpoch(w, r, i)
           \/ ~ exec[w].live
           \/ step[r][i].lease = 0
        /\ Release(w)
        /\ UNCHANGED <<room, run, step, message, crashes>>

-----------------------------------------------------------------------------
(* Cancellation, edits and deletion of the room, and the environment.      *)

CancelRun(r) ==
    /\ run[r].status = "pending"
    /\ run' = [run EXCEPT ![r].status = "canceled", ![r].terminalSeq = room.lastSeq]
    /\ step' = [step EXCEPT ![r] = [i \in Slot |->
         IF step[r][i].status \in {"pending", "generating"}
         THEN [step[r][i] EXCEPT !.status = "canceled", !.owner = NoWorker, !.lease = 0]
         ELSE step[r][i]]]
    /\ UNCHANGED <<room, message, pc, draft, exec, crashes>>

\* An edit names a new status or a new cast; the other is copied from the room it read.
ReadForEdit(w, status, roster) ==
    /\ pc[w] = "idle"
    /\ room.status # "deleted"
    /\ room.revision < MaxEditRevision
    /\ status = room.status \/ roster = room.roster
    /\ draft' = [draft EXCEPT ![w] = [status |-> status, roster |-> roster,
                                      expectedRevision |-> room.revision]]
    /\ pc' = [pc EXCEPT ![w] = "edit"]
    /\ UNCHANGED <<room, run, step, message, exec, crashes>>

\* A persona of the room that was scheduled in any run keeps its place.
KeepsHistory(roster) ==
    \A p \in Persona :
       room.roster[p] > 0 /\ roster[p] # room.roster[p] => \A r \in Run : p \notin Cast(r)

CanEdit(d) == CanClaimRoom(d.expectedRevision) /\ KeepsHistory(d.roster)

CommitEdit(w) ==
    /\ pc[w] = "edit"
    /\ CanEdit(draft[w])
    /\ room' = [room EXCEPT !.status = draft[w].status, !.roster = draft[w].roster,
                            !.revision = @ + 1]
    /\ Release(w)
    /\ UNCHANGED <<run, step, message, crashes>>

RefuseEdit(w) ==
    /\ pc[w] = "edit"
    /\ ~ CanEdit(draft[w])
    /\ Release(w)
    /\ UNCHANGED <<room, run, step, message, crashes>>

\* Deletion under the current revision; any other is refused.
DeleteRoom ==
    /\ CanClaimRoom(room.revision)
    /\ room' = [room EXCEPT !.status = "deleted", !.lastSeq = 0,
                            !.roster = [p \in Persona |-> 0]]
    /\ run' = [r \in Run |-> NoRow]
    /\ step' = [r \in Run |-> [i \in Slot |-> NoStep]]
    /\ message' = {}
    /\ UNCHANGED <<pc, draft, exec, crashes>>

\* The worker's process dies between two of its transactions.
Crash(w) ==
    /\ pc[w] # "idle"
    /\ crashes < MaxCrashes
    /\ crashes' = crashes + 1
    /\ Release(w)
    /\ UNCHANGED <<room, run, step, message>>

\* The database clock advances: every lease has less time left.
Tick ==
    /\ \E r \in Run, i \in Slot : step[r][i].lease > 0
    /\ step' = [r \in Run |-> [i \in Slot |->
         IF step[r][i].lease > 0 THEN [step[r][i] EXCEPT !.lease = @ - 1] ELSE step[r][i]]]
    /\ UNCHANGED <<room, run, message, pc, draft, exec, crashes>>

Next ==
    \/ \E w \in Worker :
         \/ \E s \in Schedule, t \in {"user_message", "continue"} : ReadForTurn(w, s, t)
         \/ \E r \in Run, s \in Schedule : ReadForRetry(w, r, s)
         \/ \E r \in Run : AdmitRun(w, r)
         \/ RefuseAdmission(w)
         \/ \E r \in Run : StartResume(w, r)
         \/ LoadRun(w) \/ FinishRun(w) \/ DropRequest(w)
         \/ ClaimStep(w) \/ ExhaustStep(w) \/ RefuseClaim(w)
         \/ RenewLease(w) \/ LoseStep(w) \/ EndLostStep(w)
         \/ BeginCommit(w) \/ CompleteStep(w) \/ RefuseCommit(w)
         \/ BeginFail(w) \/ FailStep(w) \/ FailEndedRun(w) \/ RefuseFail(w)
         \/ \E s \in {"active", "archived"}, o \in Roster : ReadForEdit(w, s, o)
         \/ CommitEdit(w) \/ RefuseEdit(w)
         \/ Crash(w)
    \/ \E r \in Run : CancelRun(r)
    \/ DeleteRoom
    \/ Tick

Spec == Init /\ [][Next]_vars

-----------------------------------------------------------------------------
(* Safety.                                                                 *)

\* At most one run of a room is pending, whichever requests race for admission:
\* begin_run admits under the room's revision and the absence of a pending run.
OnePendingRun ==
    \A r, s \in Run : run[r].status = "pending" /\ run[s].status = "pending" => r = s

Replies(r, i) == {m \in message : m.run = r /\ m.slot = i}

\* A step has spoken exactly when the transcript holds its one message, committed by
\* the last claim of the step; no fenced or crashed execution left a message behind.
\* The first reply answers the run's anchor, every later one the reply before it, also
\* when another worker took the run over in between.
StepMatchesTranscript ==
    \A r \in Run, i \in Slot :
       IF step[r][i].status = "completed"
       THEN /\ Replies(r, i) =
                   {[seq |-> step[r][i].message, run |-> r, slot |-> i,
                     replyTo |-> step[r][i].replyTo, epoch |-> step[r][i].claims]}
            /\ step[r][i].replyTo =
                   IF i = 1 THEN run[r].anchor ELSE step[r][i - 1].message
       ELSE Replies(r, i) = {}

\* The statuses of a run and of its steps agree: replies first, then at most one step
\* that is being spoken or failed, then the untouched ones; and the evidence of a step
\* is that of its last claim, also when an overtaken execution fails late.
RunMatchesSteps ==
    \A r \in Run : \A i \in Scheduled(r) :
       LET st    == step[r][i].status
           first == \A j \in Scheduled(r) : j < i => step[r][j].status = "completed"
       IN  /\ step[r][i].trace \in {0, step[r][i].claims, Exhaustion}
           /\ CASE run[r].status = "pending" ->
                     st \in {"completed", "generating", "pending"}
                     /\ (st # "pending" => first)
                [] run[r].status = "completed" -> st = "completed"
                [] run[r].status \in {"partial", "failed"} ->
                     /\ st \in {"completed", "failed", "blocked"}
                     /\ (st # "blocked") = first
                     /\ RemainingSlots(r) # {}
                     /\ (run[r].status = "partial") = (CompletedSlots(r) # {})
                [] run[r].status = "canceled" ->
                     st \in {"completed", "canceled"} /\ (st = "completed" => first)
                [] OTHER -> FALSE

\* A persona speaks at most once in a run and all its retries.
SpeaksOnce ==
    \A r, s \in Run : \A i \in CompletedSlots(r), j \in CompletedSlots(s) :
       run[r].root = run[s].root /\ step[r][i].persona = step[s][j].persona
         => r = s /\ i = j

\* What the run-recovery view relies on (and raises an error on when it fails): a retry
\* has a retryable parent of the same root, directly before it in the room's history,
\* and casts exactly the speakers its parent left over.  Whoever was scheduled stays
\* in the room, where a resumed or retried run looks the cast up.
RetryLineage ==
    /\ \A r \in Run, p \in Persona : p \in Cast(r) => room.roster[p] > 0
    /\ \A r \in Run : run[r].parent # NoRun =>
       LET p == run[r].parent
       IN  /\ run[p].status \in {"partial", "failed"}
           /\ run[p].root = run[r].root
           /\ run[r].expectedRevision = run[p].expectedRevision + 1
           /\ Cast(r) = {step[p][i].persona : i \in RemainingSlots(p)}
           /\ \E last \in 0..MaxSteps :
                IsLastSpoken(p, last) /\ run[r].anchor = ReplyAnchor(p, last)

-----------------------------------------------------------------------------
(* What a step may never do.                                               *)

StepWithoutLateTrace(r, i) ==
    IF step[r][i].status = "canceled" THEN [step[r][i] EXCEPT !.trace = 0] ELSE step[r][i]

\* A run that has ended never changes again, nor do its steps and messages, until the
\* room is deleted; only late evidence may reach a canceled step.
EndedRunsAreFrozen ==
    [][\A r \in Run :
         run[r].status \in Terminal /\ room'.status # "deleted" =>
           /\ run'[r] = run[r]
           /\ \A i \in Slot : StepWithoutLateTrace(r, i)' = StepWithoutLateTrace(r, i)
           /\ {m \in message' : m.run = r} = {m \in message : m.run = r}]_vars

\* An edit overwrites only what its author asked to change: an edit of the status never
\* restores an old cast, nor the other way round.
NoLostEdit ==
    [][room'.status = "deleted" \/ room'.status = room.status \/ room'.roster = room.roster]_vars

Admitted(r) == run[r].status = "absent" /\ run'[r].status = "pending"

\* What the service read before admission still holds when the run is admitted: the room
\* is active and the schedule is in the room's display order.
AdmissionIsFresh ==
    [][\A r \in Run : Admitted(r) =>
         /\ room.status = "active"
         /\ \A i \in Scheduled(r)' : room.roster[step'[r][i].persona] > 0
         /\ \A i, j \in Scheduled(r)' :
              i < j => room.roster[step'[r][i].persona] < room.roster[step'[r][j].persona]]_vars

\* A retry is admitted onto the transcript its parent left, with nothing said since.
RetryContinuesTranscript ==
    [][\A r \in Run : Admitted(r) /\ run'[r].parent # NoRun =>
         room'.lastSeq = run[run'[r].parent].terminalSeq]_vars

-----------------------------------------------------------------------------
(* The room as its readers see it.                                         *)

Transcript ==
    [k \in 1..room.lastSeq |->
       LET m == CHOOSE m \in message : m.seq = k IN [run |-> m.run, slot |-> m.slot]]

Phase ==
    [r \in Run |-> CASE run[r].status = "absent"  -> "new"
                     [] run[r].status = "pending" -> "open"
                     [] OTHER -> "closed"]

Reader == INSTANCE TavernTranscript WITH
            transcript <- Transcript, phase <- Phase, erased <- room.status = "deleted"

\* The leased, fenced and retried execution implements the room's promise: one growing
\* transcript, written by one run at a time, every speaker in order and once.
ImplementsTranscript == Reader!Spec

-----------------------------------------------------------------------------
(* Liveness.  A request that has begun keeps running unless its process    *)
(* dies, the database clock advances, and clients resume a pending run.    *)

Execute(w) ==
    \/ LoadRun(w) \/ FinishRun(w) \/ DropRequest(w)
    \/ ClaimStep(w) \/ ExhaustStep(w) \/ RefuseClaim(w)
    \/ BeginCommit(w) \/ CompleteStep(w) \/ RefuseCommit(w)
    \/ BeginFail(w) \/ FailStep(w) \/ FailEndedRun(w) \/ RefuseFail(w)
    \/ LoseStep(w) \/ EndLostStep(w)
    \/ RefuseAdmission(w) \/ RefuseEdit(w) \/ CommitEdit(w)
    \/ \E r \in Run : AdmitRun(w, r)

Fairness ==
    /\ \A w \in Worker : WF_vars(Execute(w))
    /\ WF_vars(Tick)
    /\ \A r \in Run : SF_vars(\E w \in Worker : StartResume(w, r))

FairSpec == Spec /\ Fairness

\* Every admitted run ends, whatever workers crash: an expired lease is taken over, and
\* the claim budget bounds how often.
PendingRunsEnd ==
    \A r \in Run : run[r].status = "pending" ~> run[r].status # "pending"
=============================================================================
