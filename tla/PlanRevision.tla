------------------------------ MODULE PlanRevision ------------------------------
(***************************************************************************)
(* One learning plan and everything that writes it: learners' edits, the   *)
(* confirmations of a study session, and revisions that a model previews   *)
(* and the learner accepts or rejects.  Each write replaces the revision   *)
(* it read and archives it; a revision's own row, its receipt and the      *)
(* harness trace of the stage commit with it.  A statement that only reads *)
(* is a step of its own: no transaction protects it from what follows.     *)
(***************************************************************************)
EXTENDS Naturals

CONSTANTS Learner,    \* requests that edit or delete the plan
          Approver,   \* requests that decide the confirmation
          Op,         \* revision operations, one per client_request_id
          MaxTurns    \* bound: chat turns that move the session's revision

ASSUME NameAssumption == "confirmed" \notin Learner /\ "created" \notin Op

VARIABLES
    plan,     \* LearningPlanRow
    history,  \* LearningPlanRevisionRow of each revision
    edit,     \* each learner's request: where it is and the row it read
    session,  \* the StudySessionRow that holds the confirmation
    approval, \* each approver's request: where it is and the rows it read
    op,       \* PlanRevisionOperationRow of each operation
    trace,    \* HarnessRuntimeExecutionRow of each operation's two slots
    pc,       \* where the worker of each slot is in create or decide
    got       \* workers whose stage returned a prepared output

planVars == <<plan, history>>
clientVars == <<edit, session, approval>>
stageVars == <<op, trace, pc, got>>
vars == <<plan, history, edit, session, approval, op, trace, pc, got>>

-----------------------------------------------------------------------------
(* Rows *)

\* A plan's content: the revision its text is from, and the edits it holds.
Confirmed == "confirmed"
Mark == Learner \union {Confirmed}
Text == Op \union {"created"}
Content == [text: Text, marks: SUBSET Mark]
Snapshot == [rev: Nat, body: Content]

NoPlan == [rev |-> 0, body |-> [text |-> "created", marks |-> {}]]

\* The row a request read.
Current == [rev |-> plan.rev, body |-> plan.body]

EditLabel == {"idle", "opened", "read", "done", "deleted", "refused"}
ApprovalLabel == {"idle", "read", "done", "refused"}
Decision == {"approved", "rejected"}

Slot == {"preview", "accept"}     \* trace_slot 0 and 1
Worker == Op \X Slot

\* begin_accept, reject and fail move these no further.
Settled == {"accepted", "rejected", "failed", "conflict", "uncertain"}
OpStatus == {"none", "generating", "ready", "applying"} \union Settled

Failure == {"failed", "conflict", "uncertain"}
Label == {"idle", "prepare", "claim", "run", "append", "prepared", "commit"}
             \union Failure

\* attempt_records is its last item; outcome is the one terminal_trace ends with.
Attempt == {"phase", "committed", "failed", "interrupted"}
NoTrace == [state |-> "none", live |-> FALSE, last |-> "none", outcome |-> "none"]

Expected(w) == IF w[2] = "preview" THEN "generating" ELSE "applying"

\* _require_active_claim
Active(w) == trace[w].state = "claimed" /\ trace[w].live

\* append_attempt_in_session and terminalize_in_session in one transaction
Terminal(attempt) == [state |-> "terminal", live |-> FALSE,
                      last |-> attempt, outcome |-> attempt]

SetTrace(w, state, live, last) ==
    trace' = [trace EXCEPT ![w] = [state |-> state, live |-> live, last |-> last,
                                   outcome |-> trace[w].outcome]]

Goto(w, label) == pc' = [pc EXCEPT ![w] = label]

Marked(body, mark) == [text |-> body.text, marks |-> body.marks \union {mark}]

\* Mutant: the row is written whatever its revision.
ReplacesAny(rev) == ~plan.gone

\* UPDATE ... WHERE revision = base AND deleted = 0
Replaces(rev) == ~plan.gone /\ plan.rev = rev

\* The new row, with the archive of the row it replaces and of its own.
Archive(rev, body) ==
    history' = [r \in 1..rev |-> IF r = rev THEN body ELSE
                                 IF r = plan.rev THEN plan.body ELSE history[r]]

Write(base, body, gone) ==
    /\ plan' = [rev |-> base + 1, body |-> body, gone |-> gone]
    /\ Archive(base + 1, body)

-----------------------------------------------------------------------------
Init ==
    /\ plan = [rev |-> 1, body |-> NoPlan.body, gone |-> FALSE]
    /\ history = [r \in {1} |-> NoPlan.body]
    /\ edit = [l \in Learner |-> [at |-> "idle", seen |-> 0, row |-> NoPlan]]
    /\ session = [rev |-> 0, decision |-> "pending"]
    /\ approval = [a \in Approver |-> [at |-> "idle", target |-> "approved",
                                       rev |-> 0, row |-> NoPlan]]
    /\ op = [o \in Op |-> [status |-> "none", base |-> NoPlan]]
    /\ trace = [w \in Worker |-> NoTrace]
    /\ pc = [w \in Worker |-> "idle"]
    /\ got = {}

-----------------------------------------------------------------------------
(* Learners' edits *)

EditStep(l, label, seen, row) ==
    edit' = [edit EXCEPT ![l] = [at |-> label, seen |-> seen, row |-> row]]

\* A client that sends expected_revision has looked at the plan.
OpenPlan(l) ==
    /\ edit[l].at = "idle"
    /\ ~plan.gone
    /\ EditStep(l, "opened", plan.rev, NoPlan)
    /\ UNCHANGED <<planVars, session, approval, stageVars>>

\* mutate reads the row; a legacy client expects no revision.
ReadForEdit(l) ==
    /\ edit[l].at \in {"idle", "opened"}
    /\ \/ /\ plan.gone \/ (edit[l].at = "opened" /\ edit[l].seen # plan.rev)
          /\ EditStep(l, "refused", 0, NoPlan)
       \/ /\ ~plan.gone
          /\ edit[l].at = "idle" \/ edit[l].seen = plan.rev
          /\ EditStep(l, "read", edit[l].seen, Current)
    /\ UNCHANGED <<planVars, session, approval, stageVars>>

\* The mutation is written over the row that was read, or not at all.
WriteEdit(l) ==
    LET row == edit[l].row
        after == Marked(row.body, l) IN
    /\ edit[l].at = "read"
    /\ Replaces(row.rev)
    /\ \/ /\ Write(row.rev, after, FALSE)
          /\ EditStep(l, "done", 0, NoPlan)
       \/ /\ Write(row.rev, row.body, TRUE)
          /\ EditStep(l, "deleted", 0, NoPlan)
    /\ UNCHANGED <<session, approval, stageVars>>

\* A lost race: a legacy mutation reads again, up to eight times.
LoseEdit(l) ==
    /\ edit[l].at = "read"
    /\ ~Replaces(edit[l].row.rev)
    /\ \/ EditStep(l, "refused", 0, NoPlan)
       \/ edit[l].seen = 0 /\ EditStep(l, "idle", 0, NoPlan)
    /\ UNCHANGED <<planVars, session, approval, stageVars>>

-----------------------------------------------------------------------------
(* Confirmations of a study session *)

ApprovalStep(a, label, target, rev, row) ==
    approval' = [approval EXCEPT ![a] = [at |-> label, target |-> target,
                                         rev |-> rev, row |-> row]]

\* Another writer of the session's payload.
Turn ==
    /\ session.rev < MaxTurns
    /\ session' = [rev |-> session.rev + 1, decision |-> session.decision]
    /\ UNCHANGED <<planVars, edit, approval, stageVars>>

ReadConfirmation(a, target) ==
    /\ approval[a].at = "idle"
    /\ \/ /\ session.decision = target
          /\ ApprovalStep(a, "done", "approved", 0, NoPlan)
       \/ /\ session.decision # target
          /\ session.decision # "pending" \/ (target = "approved" /\ plan.gone)
          /\ ApprovalStep(a, "refused", "approved", 0, NoPlan)
       \/ /\ session.decision = "pending"
          /\ target = "rejected" \/ ~plan.gone
          /\ ApprovalStep(a, "read", target, session.rev, Current)
    /\ UNCHANGED <<planVars, edit, session, stageVars>>

\* The plan, if it is approved, and the session: both, or neither.
WriteConfirmation(a) ==
    LET row == approval[a].row
        after == Marked(row.body, Confirmed) IN
    /\ approval[a].at = "read"
    /\ session.rev = approval[a].rev
    /\ \/ /\ approval[a].target = "approved"
          /\ Replaces(row.rev)
          /\ Write(row.rev, after, FALSE)
       \/ /\ approval[a].target = "rejected"
          /\ UNCHANGED planVars
    /\ session' = [rev |-> approval[a].rev + 1, decision |-> approval[a].target]
    /\ ApprovalStep(a, "done", "approved", 0, NoPlan)
    /\ UNCHANGED <<edit, stageVars>>

\* _ConfirmationRace: it starts again, up to eight times.
LoseConfirmation(a) ==
    /\ approval[a].at = "read"
    /\ \/ session.rev # approval[a].rev
       \/ approval[a].target = "approved" /\ ~Replaces(approval[a].row.rev)
    /\ \E label \in {"idle", "refused"} :
           ApprovalStep(a, label, "approved", 0, NoPlan)
    /\ UNCHANGED <<planVars, edit, session, stageVars>>

-----------------------------------------------------------------------------
(* Revisions: admission and decision *)

OpStep(o, status) == op' = [op EXCEPT ![o] = [status |-> status, base |-> op[o].base]]

\* The client's base_revision is the current one, or nothing is admitted.
Admit(o) ==
    /\ op[o].status = "none"
    /\ ~plan.gone
    /\ op' = [op EXCEPT ![o] = [status |-> "generating", base |-> Current]]
    /\ Goto(<<o, "preview">>, "prepare")
    /\ UNCHANGED <<planVars, clientVars, trace, got>>

BeginAccept(o) ==
    /\ op[o].status = "ready"
    /\ OpStep(o, "applying")
    /\ Goto(<<o, "accept">>, "prepare")
    /\ UNCHANGED <<planVars, clientVars, trace, got>>

Reject(o) ==
    /\ op[o].status = "ready"
    /\ OpStep(o, "rejected")
    /\ UNCHANGED <<planVars, clientVars, trace, pc, got>>

\* Mutant: the status it read has changed since.
InterruptLate(o) ==
    /\ op[o].status \in {"generating", "applying", "accepted"}
    /\ OpStep(o, IF op[o].status = "generating" THEN "uncertain" ELSE "failed")
    /\ UNCHANGED <<planVars, clientVars, trace, pc, got>>

\* Mutant: the reason goes where the status belongs.
InterruptReason(o) ==
    /\ op[o].status \in {"generating", "applying"}
    /\ OpStep(o, "plan_revision_interrupted")
    /\ UNCHANGED <<planVars, clientVars, trace, pc, got>>

\* A reader after 240 seconds settles the operation and ends its stage's trace.
Interrupt(o) ==
    /\ op[o].status \in {"generating", "applying"}
    /\ OpStep(o, IF op[o].status = "generating" THEN "uncertain" ELSE "failed")
    /\ LET w == <<o, IF op[o].status = "generating" THEN "preview" ELSE "accept">> IN
       trace' = [trace EXCEPT ![w] = IF trace[w].state \in {"prepared", "claimed"}
                                     THEN Terminal("interrupted") ELSE trace[w]]
    /\ UNCHANGED <<planVars, clientVars, pc, got>>

-----------------------------------------------------------------------------
(* The stage of a slot, one worker each: one whose process has stopped is one
   that takes no further step *)

Prepare(w) ==
    /\ pc[w] = "prepare"
    /\ trace[w].state = "none"
    /\ SetTrace(w, "prepared", FALSE, "none")
    /\ Goto(w, "claim")
    /\ UNCHANGED <<planVars, clientVars, op, got>>

\* claim and mark_execution_started; an interrupted trace cannot be claimed.
Claim(w) ==
    /\ pc[w] = "claim"
    /\ \/ /\ trace[w].state = "prepared"
          /\ SetTrace(w, "claimed", TRUE, trace[w].last)
          /\ Goto(w, "run")
       \/ /\ trace[w].state # "prepared"
          /\ Goto(w, "failed")
          /\ UNCHANGED trace
    /\ UNCHANGED <<planVars, clientVars, op, got>>

LeaseExpires(w) ==
    /\ Active(w)
    /\ SetTrace(w, "claimed", FALSE, trace[w].last)
    /\ UNCHANGED <<planVars, clientVars, op, pc, got>>

\* append_attempt reads the row it will write ...
ReadForAppend(w) ==
    /\ pc[w] = "run"
    /\ Active(w)
    /\ Goto(w, "append")
    /\ UNCHANGED <<planVars, clientVars, op, trace, got>>

\* Mutant: no trigger protects a terminal row.
AppendsToAny(w) ==
    /\ pc[w] = "append"
    /\ SetTrace(w, trace[w].state, trace[w].live, "phase")
    /\ Goto(w, "run")
    /\ UNCHANGED <<planVars, clientVars, op, got>>

\* ... and writes it by its primary key, its claim unchecked.
WriteAppend(w) ==
    /\ pc[w] = "append"
    /\ trace[w].state # "terminal"
    /\ SetTrace(w, trace[w].state, trace[w].live, "phase")
    /\ Goto(w, "run")
    /\ UNCHANGED <<planVars, clientVars, op, got>>

\* A stage that raises before its output is prepared; "uncertain" is a provider
\* that was asked and never answered.
StageRaises(w) ==
    \/ Goto(w, "failed")
    \/ w[2] = "preview" /\ Goto(w, "uncertain")

\* The database's trigger aborts an update of a terminal row.
AppendRefused(w) ==
    /\ pc[w] = "append"
    /\ trace[w].state = "terminal"
    /\ StageRaises(w)
    /\ UNCHANGED <<planVars, clientVars, op, trace, got>>

\* The output passed its checks, which were appended.
Validated(w) ==
    /\ pc[w] = "run"
    /\ trace[w].last = "phase"
    /\ Goto(w, "prepared")
    /\ got' = got \union {w}
    /\ UNCHANGED <<planVars, clientVars, op, trace>>

\* The stage fails: its trace ends if the claim still holds it.
RaiseStage(w) ==
    /\ pc[w] = "run"
    /\ trace' = [trace EXCEPT ![w] = IF Active(w) THEN Terminal("failed") ELSE trace[w]]
    /\ StageRaises(w)
    /\ UNCHANGED <<planVars, clientVars, op, got>>

ReadForCommit(w) ==
    LET o == w[1] IN
    /\ pc[w] = "prepared"
    /\ \/ /\ op[o].status = Expected(w)
          /\ w[2] = "accept" => ~plan.gone /\ Current = op[o].base
          /\ Goto(w, "commit")
       \/ /\ op[o].status # Expected(w)
          /\ Goto(w, IF w[2] = "preview" THEN "failed" ELSE "conflict")
       \/ /\ op[o].status = Expected(w)
          /\ w[2] = "accept" /\ (plan.gone \/ plan.rev # op[o].base.rev)
          /\ Goto(w, "conflict")
    /\ UNCHANGED <<planVars, clientVars, op, trace, got>>

\* Mutant: the plan's revision is not compared again.
CommitsAnyRevision(w) ==
    op[w[1]].status = Expected(w) /\ Active(w)

\* What the transaction of commit checks again.
Commits(w) ==
    /\ op[w[1]].status = Expected(w)
    /\ Active(w)
    /\ w[2] = "accept" => Replaces(op[w[1]].base.rev)

\* Plan, archive, receipt and trace together; the worker may not hear of it.
Commit(w) ==
    LET o == w[1]
        base == op[o].base IN
    /\ pc[w] = "commit"
    /\ Commits(w)
    /\ IF w[2] = "preview"
       THEN OpStep(o, "ready") /\ UNCHANGED planVars
       ELSE /\ OpStep(o, "accepted")
            /\ Write(base.rev, [text |-> o, marks |-> base.body.marks], FALSE)
    /\ trace' = [trace EXCEPT ![w] = Terminal("committed")]
    /\ \/ Goto(w, "idle") /\ got' = got \ {w}
       \/ Goto(w, "failed") /\ UNCHANGED got
    /\ UNCHANGED clientVars

\* It rolls back: HTTP 409 is a conflict of the accepted revision only.
CommitFails(w) ==
    /\ pc[w] = "commit"
    /\ \/ /\ ~Commits(w)
          /\ w[2] = "accept"
          /\ op[w[1]].status # Expected(w) \/ ~Replaces(op[w[1]].base.rev)
          /\ Goto(w, "conflict")
       \/ Goto(w, "failed")
    /\ UNCHANGED <<planVars, clientVars, op, trace, got>>

\* fail: the row and the prepared trace in one transaction, which rolls back
\* when the claim is lost.
Fail(w) ==
    LET o == w[1] IN
    /\ pc[w] \in Failure
    /\ \/ /\ w \in got => Active(w)
          /\ IF op[o].status \in {"generating", "applying"}
             THEN OpStep(o, pc[w]) ELSE UNCHANGED op
          /\ trace' = [trace EXCEPT ![w] = IF w \in got THEN Terminal("failed")
                                                       ELSE trace[w]]
       \/ /\ w \in got /\ ~Active(w)
          /\ UNCHANGED <<op, trace>>
    /\ Goto(w, "idle")
    /\ got' = got \ {w}
    /\ UNCHANGED <<planVars, clientVars>>

-----------------------------------------------------------------------------
LearnerStep(l) == OpenPlan(l) \/ ReadForEdit(l) \/ WriteEdit(l) \/ LoseEdit(l)

ApproverStep(a) ==
    \/ \E target \in Decision : ReadConfirmation(a, target)
    \/ WriteConfirmation(a) \/ LoseConfirmation(a)

OpDecision(o) == Admit(o) \/ BeginAccept(o) \/ Reject(o) \/ Interrupt(o)

WorkerStep(w) ==
    \/ Prepare(w) \/ Claim(w) \/ ReadForAppend(w) \/ WriteAppend(w)
    \/ AppendRefused(w) \/ Validated(w) \/ RaiseStage(w)
    \/ ReadForCommit(w) \/ Commit(w) \/ CommitFails(w) \/ Fail(w)

Next ==
    \/ \E l \in Learner : LearnerStep(l)
    \/ Turn
    \/ \E a \in Approver : ApproverStep(a)
    \/ \E o \in Op : OpDecision(o)
    \/ \E w \in Worker : WorkerStep(w) \/ LeaseExpires(w)

Spec == Init /\ [][Next]_vars

-----------------------------------------------------------------------------
(* Properties *)

\* The rows and the requests keep their shape.
RevisionTypeOK ==
    /\ plan \in [rev: Nat \ {0}, body: Content, gone: BOOLEAN]
    /\ edit \in [Learner -> [at: EditLabel, seen: Nat, row: Snapshot]]
    /\ session \in [rev: Nat, decision: Decision \union {"pending"}]
    /\ approval \in [Approver -> [at: ApprovalLabel, target: Decision,
                                  rev: Nat, row: Snapshot]]
    /\ op \in [Op -> [status: OpStatus, base: Snapshot]]
    /\ trace \in [Worker -> [state: {"none", "prepared", "claimed", "terminal"},
                             live: BOOLEAN, last: Attempt \union {"none"},
                             outcome: Attempt \union {"none"}]]
    /\ pc \in [Worker -> Label]
    /\ got \in SUBSET Worker

\* Every revision of the plan is archived, the current one as it is: the
\* archive and the row are written by one transaction of every writer.
HistoryFollowsPlan ==
    /\ DOMAIN history = 1..plan.rev
    /\ history[plan.rev] = plan.body

\* The plan holds exactly the edits its writers were told are saved, whatever
\* the races between them: no write is lost, and no refused one is kept.
NoEditIsLost ==
    plan.body.marks = {l \in Learner : edit[l].at = "done"}
                          \union {c \in {Confirmed} : session.decision = "approved"}

\* A revision counts as accepted exactly when its stage's trace is committed
\* and the plan's history has it next to the revision it was previewed on.
AcceptCommitsTogether ==
    \A o \in Op :
        LET base == op[o].base IN
        /\ (op[o].status = "accepted") <=> (trace[<<o, "accept">>].outcome = "committed")
        /\ (op[o].status = "accepted")
               <=> \E r \in DOMAIN history : history[r].text = o /\ r = base.rev + 1
        /\ op[o].status \in {"ready", "applying", "accepted", "rejected"}
               => trace[<<o, "preview">>].outcome = "committed"

\* An archived revision is never rewritten and none disappears.
HistoryIsFixed ==
    [][\A r \in DOMAIN history : r \in DOMAIN history' /\ history'[r] = history[r]]_vars

\* The plan's history is complete and is never rewritten.
HistoryIsKept == []HistoryFollowsPlan /\ HistoryIsFixed

\* What was decided stays decided: the operation's row, the confirmation, and
\* an ended trace with the attempts it ended with, whichever worker comes late
\* and however long before it read the row it writes.
DecisionsStand ==
    [][/\ \A o \in Op : op[o].status \in Settled => op'[o] = op[o]
       /\ session.decision # "pending" => session'.decision = session.decision
       /\ \A w \in Worker : trace[w].state = "terminal" => trace'[w] = trace[w]]_vars

=============================================================================
