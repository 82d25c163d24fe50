--------------------------- MODULE PlanRevisionProofs ---------------------------
(***************************************************************************)
(* Proofs about the writers of one learning plan, for every number of      *)
(* learners, approvers and revision operations.  The argument rests on     *)
(* one fact: a row that a request read is a row of the archive, so that a  *)
(* request whose row still has the current revision holds the current      *)
(* content.                                                                *)
(***************************************************************************)
EXTENDS PlanRevision, TLAPS

\* A row that was read is, or was once, the plan's.
Archived(row) == row.rev \in 1..plan.rev /\ history[row.rev] = row.body

RowsAreArchived ==
    /\ \A l \in Learner : edit[l].at = "read" => Archived(edit[l].row)
    /\ \A a \in Approver : approval[a].at = "read" => Archived(approval[a].row)
    /\ \A o \in Op : op[o].status # "none" => Archived(op[o].base)

\* A session whose revision is the one read is as undecided as it was.
ReadUndecided ==
    \A a \in Approver : approval[a].at = "read" =>
        /\ approval[a].rev <= session.rev
        /\ approval[a].rev = session.rev => session.decision = "pending"

\* A revision's text is in the archive once it is accepted, and from then on.
TextIsAccepted ==
    \A o \in Op :
        /\ \A r \in DOMAIN history : history[r].text = o => op[o].status = "accepted"
        /\ op[o].status = "accepted" => /\ op[o].base.rev + 1 \in DOMAIN history
                                        /\ history[op[o].base.rev + 1].text = o

\* What the trace of a slot says of its operation.
TraceTells ==
    /\ \A w \in Worker : trace[w].outcome = "committed" => trace[w].state = "terminal"
    /\ \A o \in Op :
        /\ (op[o].status = "accepted") <=> (trace[<<o, "accept">>].outcome = "committed")
        /\ op[o].status \in {"ready", "applying", "accepted", "rejected"}
               => trace[<<o, "preview">>].outcome = "committed"

PlanInv == RevisionTypeOK /\ HistoryFollowsPlan /\ RowsAreArchived

-----------------------------------------------------------------------------
(* The one write *)

\* Replacing the current revision archives it, and leaves the archive as it was.
LEMMA WriteArchives ==
    ASSUME RevisionTypeOK, HistoryFollowsPlan,
           NEW base, base = plan.rev,
           NEW body \in Content, NEW gone \in BOOLEAN,
           Write(base, body, gone)
    PROVE  /\ plan' = [rev |-> plan.rev + 1, body |-> body, gone |-> gone]
           /\ plan' \in [rev: Nat \ {0}, body: Content, gone: BOOLEAN]
           /\ HistoryFollowsPlan'
           /\ \A r \in DOMAIN history : r \in DOMAIN history' /\ history'[r] = history[r]
           /\ \A row \in Snapshot : Archived(row) => Archived(row)'
           /\ \A r \in DOMAIN history' : r \in DOMAIN history \/ history'[r] = body
           /\ plan.rev + 1 \in DOMAIN history' /\ history'[plan.rev + 1] = body
  <1>1. plan.rev \in Nat \ {0} BY DEF RevisionTypeOK
  <1>2. plan' = [rev |-> plan.rev + 1, body |-> body, gone |-> gone] BY DEF Write
  <1>3. plan' \in [rev: Nat \ {0}, body: Content, gone: BOOLEAN] BY <1>1, <1>2
  <1>4. history' = [r \in 1..(plan.rev + 1) |->
                      IF r = plan.rev + 1 THEN body ELSE
                      IF r = plan.rev THEN plan.body ELSE history[r]]
    BY DEF Write, Archive
  <1>5. DOMAIN history = 1..plan.rev /\ history[plan.rev] = plan.body
    BY DEF HistoryFollowsPlan
  <1>6. HistoryFollowsPlan' BY <1>1, <1>2, <1>4 DEF HistoryFollowsPlan
  <1>7. \A r \in DOMAIN history : r \in DOMAIN history' /\ history'[r] = history[r]
    BY <1>1, <1>4, <1>5
  <1>8. \A row \in Snapshot : Archived(row) => Archived(row)'
    BY <1>1, <1>2, <1>5, <1>7 DEF Archived
  <1>9. \A r \in DOMAIN history' : r \in DOMAIN history \/ history'[r] = body
    BY <1>1, <1>4, <1>5
  <1>10. plan.rev + 1 \in DOMAIN history' /\ history'[plan.rev + 1] = body
    BY <1>1, <1>4
  <1> QED BY <1>2, <1>3, <1>6, <1>7, <1>8, <1>9, <1>10

\* The three writers of the plan, each over the current revision.
LEMMA EditWrites ==
    ASSUME RevisionTypeOK, NEW l \in Learner, WriteEdit(l)
    PROVE  \E body \in Content, gone \in BOOLEAN :
               /\ edit[l].row.rev = plan.rev
               /\ Write(edit[l].row.rev, body, gone)
               /\ \/ body = Marked(edit[l].row.body, l) /\ ~gone
                        /\ EditStep(l, "done", 0, NoPlan)
                  \/ body = edit[l].row.body /\ gone
                        /\ EditStep(l, "deleted", 0, NoPlan)
  <1> DEFINE row == edit[l].row
  <1>1. row \in Snapshot BY DEF RevisionTypeOK
  <1>2. row.body \in Content /\ Marked(row.body, l) \in Content
    BY <1>1 DEF Snapshot, Content, Marked, Mark
  <1>3. row.rev = plan.rev BY DEF WriteEdit, Replaces
  <1>4. CASE Write(row.rev, Marked(row.body, l), FALSE) /\ EditStep(l, "done", 0, NoPlan)
    BY <1>2, <1>3, <1>4
  <1>5. CASE Write(row.rev, row.body, TRUE) /\ EditStep(l, "deleted", 0, NoPlan)
    BY <1>2, <1>3, <1>5
  <1> QED BY <1>4, <1>5 DEF WriteEdit

LEMMA ConfirmationWrites ==
    ASSUME RevisionTypeOK, NEW a \in Approver, WriteConfirmation(a)
    PROVE  \/ /\ approval[a].target = "approved"
              /\ approval[a].row.rev = plan.rev
              /\ Marked(approval[a].row.body, Confirmed) \in Content
              /\ Write(approval[a].row.rev, Marked(approval[a].row.body, Confirmed), FALSE)
           \/ approval[a].target = "rejected" /\ UNCHANGED planVars
  <1>1. approval[a].row \in Snapshot BY DEF RevisionTypeOK
  <1>2. Marked(approval[a].row.body, Confirmed) \in Content
    BY <1>1 DEF Snapshot, Content, Marked, Mark
  <1> QED BY <1>2 DEF WriteConfirmation, Replaces

LEMMA CommitWrites ==
    ASSUME RevisionTypeOK, NEW w \in Worker, Commit(w)
    PROVE  \/ /\ w[2] = "preview" /\ op[w[1]].status = "generating"
              /\ OpStep(w[1], "ready") /\ UNCHANGED planVars
           \/ /\ w[2] = "accept" /\ op[w[1]].status = "applying"
              /\ OpStep(w[1], "accepted")
              /\ op[w[1]].base.rev = plan.rev
              /\ [text |-> w[1], marks |-> op[w[1]].base.body.marks] \in Content
              /\ Write(op[w[1]].base.rev,
                       [text |-> w[1], marks |-> op[w[1]].base.body.marks], FALSE)
  <1>1. w[1] \in Op /\ w[2] \in {"preview", "accept"} BY DEF Worker, Slot
  <1>2. op[w[1]].base \in Snapshot BY <1>1 DEF RevisionTypeOK
  <1>3. [text |-> w[1], marks |-> op[w[1]].base.body.marks] \in Content
    BY <1>1, <1>2 DEF Snapshot, Content, Text
  <1> QED BY <1>1, <1>3 DEF Commit, Commits, Expected, Replaces

-----------------------------------------------------------------------------
(* Every step keeps the shape of the rows *)

LEMMA RowTypes ==
    /\ NoPlan \in Snapshot
    /\ NoTrace \in [state: {"none", "prepared", "claimed", "terminal"}, live: BOOLEAN,
                    last: Attempt \union {"none"}, outcome: Attempt \union {"none"}]
    /\ \A attempt \in Attempt :
           Terminal(attempt) \in [state: {"none", "prepared", "claimed", "terminal"},
                                  live: BOOLEAN, last: Attempt \union {"none"},
                                  outcome: Attempt \union {"none"}]
    /\ RevisionTypeOK => Current \in Snapshot
  BY DEF NoPlan, Snapshot, Content, Text, Mark, NoTrace, Terminal, Current, RevisionTypeOK

LEMMA EditTypes ==
    ASSUME RevisionTypeOK, NEW l \in Learner, NEW label \in EditLabel,
           NEW seen \in Nat, NEW row \in Snapshot, EditStep(l, label, seen, row)
    PROVE  edit' \in [Learner -> [at: EditLabel, seen: Nat, row: Snapshot]]
  BY DEF RevisionTypeOK, EditStep

LEMMA ApprovalTypes ==
    ASSUME RevisionTypeOK, NEW a \in Approver, NEW label \in ApprovalLabel,
           NEW target \in Decision, NEW rev \in Nat, NEW row \in Snapshot,
           ApprovalStep(a, label, target, rev, row)
    PROVE  approval' \in [Approver -> [at: ApprovalLabel, target: Decision,
                                       rev: Nat, row: Snapshot]]
  BY DEF RevisionTypeOK, ApprovalStep

LEMMA OpTypes ==
    ASSUME RevisionTypeOK, NEW o \in Op, NEW status \in OpStatus, OpStep(o, status)
    PROVE  op' \in [Op -> [status: OpStatus, base: Snapshot]]
  BY DEF RevisionTypeOK, OpStep

LEMMA TraceTypes ==
    ASSUME RevisionTypeOK, NEW w \in Worker,
           NEW state \in {"none", "prepared", "claimed", "terminal"}, NEW live \in BOOLEAN,
           NEW last \in Attempt \union {"none"}, SetTrace(w, state, live, last)
    PROVE  trace' \in [Worker -> [state: {"none", "prepared", "claimed", "terminal"},
                                  live: BOOLEAN, last: Attempt \union {"none"},
                                  outcome: Attempt \union {"none"}]]
  BY DEF RevisionTypeOK, SetTrace

LEMMA GotoTypes ==
    ASSUME RevisionTypeOK, NEW w \in Worker, NEW label \in Label, Goto(w, label)
    PROVE  pc' \in [Worker -> Label]
  BY DEF RevisionTypeOK, Goto

LEMMA LearnerTypes ==
    ASSUME RevisionTypeOK, HistoryFollowsPlan, NEW l \in Learner, LearnerStep(l)
    PROVE  RevisionTypeOK'
  <1> USE RowTypes
  <1>1. plan.rev \in Nat /\ edit[l].seen \in Nat /\ 0 \in Nat BY DEF RevisionTypeOK
  <1>2. {"idle", "opened", "read", "done", "deleted", "refused"} = EditLabel BY DEF EditLabel
  <1>3. CASE OpenPlan(l)
    <2>1. edit' \in [Learner -> [at: EditLabel, seen: Nat, row: Snapshot]]
      BY <1>1, <1>2, <1>3, EditTypes DEF OpenPlan
    <2> QED BY <1>3, <2>1 DEF OpenPlan, RevisionTypeOK, planVars, stageVars
  <1>4. CASE ReadForEdit(l)
    <2>1. edit' \in [Learner -> [at: EditLabel, seen: Nat, row: Snapshot]]
      BY <1>1, <1>2, <1>4, EditTypes DEF ReadForEdit
    <2> QED BY <1>4, <2>1 DEF ReadForEdit, RevisionTypeOK, planVars, stageVars
  <1>5. CASE WriteEdit(l)
    <2>1. edit' \in [Learner -> [at: EditLabel, seen: Nat, row: Snapshot]]
      BY <1>1, <1>2, <1>5, EditTypes DEF WriteEdit
    <2>2. plan' \in [rev: Nat \ {0}, body: Content, gone: BOOLEAN]
      BY <1>5, EditWrites, WriteArchives
    <2> QED BY <1>5, <2>1, <2>2 DEF WriteEdit, RevisionTypeOK, stageVars
  <1>6. CASE LoseEdit(l)
    <2>1. edit' \in [Learner -> [at: EditLabel, seen: Nat, row: Snapshot]]
      BY <1>1, <1>2, <1>6, EditTypes DEF LoseEdit
    <2> QED BY <1>6, <2>1 DEF LoseEdit, RevisionTypeOK, planVars, stageVars
  <1> QED BY <1>3, <1>4, <1>5, <1>6 DEF LearnerStep

LEMMA ApproverTypes ==
    ASSUME RevisionTypeOK, HistoryFollowsPlan, NEW a \in Approver, ApproverStep(a)
    PROVE  RevisionTypeOK'
  <1> USE RowTypes
  <1>1. session.rev \in Nat /\ approval[a].rev \in Nat /\ 0 \in Nat
        /\ approval[a].target \in Decision
    BY DEF RevisionTypeOK
  <1>2. {"idle", "read", "done", "refused"} = ApprovalLabel /\ "approved" \in Decision
    BY DEF ApprovalLabel, Decision
  <1>3. ASSUME NEW target \in Decision, ReadConfirmation(a, target) PROVE RevisionTypeOK'
    <2>1. approval' \in [Approver -> [at: ApprovalLabel, target: Decision,
                                      rev: Nat, row: Snapshot]]
      BY <1>1, <1>2, <1>3, ApprovalTypes DEF ReadConfirmation
    <2> QED BY <1>3, <2>1 DEF ReadConfirmation, RevisionTypeOK, planVars, stageVars
  <1>4. CASE WriteConfirmation(a)
    <2>1. approval' \in [Approver -> [at: ApprovalLabel, target: Decision,
                                      rev: Nat, row: Snapshot]]
      BY <1>1, <1>2, <1>4, ApprovalTypes DEF WriteConfirmation
    <2>2. plan' \in [rev: Nat \ {0}, body: Content, gone: BOOLEAN]
      <3>1. plan \in [rev: Nat \ {0}, body: Content, gone: BOOLEAN] BY DEF RevisionTypeOK
      <3>2. CASE UNCHANGED planVars BY <3>1, <3>2 DEF planVars
      <3>3. CASE ~UNCHANGED planVars BY <1>4, <3>3, ConfirmationWrites, WriteArchives
      <3> QED BY <3>2, <3>3
    <2>3. session' \in [rev: Nat, decision: Decision \union {"pending"}]
      BY <1>1, <1>4 DEF WriteConfirmation
    <2> QED BY <1>4, <2>1, <2>2, <2>3 DEF WriteConfirmation, RevisionTypeOK, stageVars
  <1>5. CASE LoseConfirmation(a)
    <2>1. approval' \in [Approver -> [at: ApprovalLabel, target: Decision,
                                      rev: Nat, row: Snapshot]]
      BY <1>1, <1>2, <1>5, ApprovalTypes DEF LoseConfirmation
    <2> QED BY <1>5, <2>1 DEF LoseConfirmation, RevisionTypeOK, planVars, stageVars
  <1> QED BY <1>3, <1>4, <1>5 DEF ApproverStep

LEMMA OpTypesOK ==
    ASSUME RevisionTypeOK, NEW o \in Op, OpDecision(o)
    PROVE  RevisionTypeOK'
  <1> USE RowTypes
  <1>1. <<o, "preview">> \in Worker /\ <<o, "accept">> \in Worker BY DEF Worker, Slot
  <1>2. /\ "prepare" \in Label /\ "ready" \in OpStatus /\ "generating" \in OpStatus
        /\ "applying" \in OpStatus /\ "rejected" \in OpStatus /\ "uncertain" \in OpStatus
        /\ "failed" \in OpStatus /\ "interrupted" \in Attempt
    BY DEF Label, OpStatus, Settled, Attempt
  <1>3. CASE Admit(o)
    <2>1. op' \in [Op -> [status: OpStatus, base: Snapshot]]
      BY <1>2, <1>3 DEF Admit, RevisionTypeOK
    <2>2. pc' \in [Worker -> Label] BY <1>1, <1>2, <1>3, GotoTypes DEF Admit
    <2> QED BY <1>3, <2>1, <2>2 DEF Admit, RevisionTypeOK, planVars, clientVars
  <1>4. CASE BeginAccept(o)
    <2>1. op' \in [Op -> [status: OpStatus, base: Snapshot]]
      BY <1>2, <1>4, OpTypes DEF BeginAccept
    <2>2. pc' \in [Worker -> Label] BY <1>1, <1>2, <1>4, GotoTypes DEF BeginAccept
    <2> QED BY <1>4, <2>1, <2>2 DEF BeginAccept, RevisionTypeOK, planVars, clientVars
  <1>5. CASE Reject(o)
    <2>1. op' \in [Op -> [status: OpStatus, base: Snapshot]]
      BY <1>2, <1>5, OpTypes DEF Reject
    <2> QED BY <1>5, <2>1 DEF Reject, RevisionTypeOK, planVars, clientVars
  <1>6. CASE Interrupt(o)
    <2>1. op' \in [Op -> [status: OpStatus, base: Snapshot]]
      BY <1>2, <1>6, OpTypes DEF Interrupt
    <2>2. trace' \in [Worker -> [state: {"none", "prepared", "claimed", "terminal"},
                                 live: BOOLEAN, last: Attempt \union {"none"},
                                 outcome: Attempt \union {"none"}]]
      BY <1>1, <1>2, <1>6 DEF Interrupt, RevisionTypeOK
    <2> QED BY <1>6, <2>1, <2>2 DEF Interrupt, RevisionTypeOK, planVars, clientVars
  <1> QED BY <1>3, <1>4, <1>5, <1>6 DEF OpDecision

\* The steps of a stage that write neither the plan nor the operation's row.
StageStep(w) ==
    \/ Prepare(w) \/ Claim(w) \/ ReadForAppend(w) \/ WriteAppend(w)
    \/ AppendRefused(w) \/ Validated(w) \/ RaiseStage(w) \/ ReadForCommit(w) \/ CommitFails(w)
    \/ LeaseExpires(w)

LEMMA StageSame ==
    ASSUME NEW w \in Worker, StageStep(w)
    PROVE  UNCHANGED <<plan, history, edit, session, approval, op>>
  BY DEF StageStep, Prepare, Claim, ReadForAppend, WriteAppend, AppendRefused, Validated,
         RaiseStage, ReadForCommit, CommitFails, LeaseExpires, planVars, clientVars

\* Such a step gives the trace of its slot no outcome but a failure.
LEMMA StageTrace ==
    ASSUME RevisionTypeOK, NEW w \in Worker, StageStep(w)
    PROVE  /\ trace' \in [Worker -> [state: {"none", "prepared", "claimed", "terminal"},
                                     live: BOOLEAN, last: Attempt \union {"none"},
                                     outcome: Attempt \union {"none"}]]
           /\ \A v \in Worker :
                \/ trace'[v].outcome = trace[v].outcome
                       /\ (trace[v].state = "terminal" => trace'[v] = trace[v])
                \/ trace[v].state = "claimed" /\ trace'[v].outcome = "failed"
                       /\ trace'[v].state = "terminal"
  <1> DEFINE T == [state: {"none", "prepared", "claimed", "terminal"},
                   live: BOOLEAN, last: Attempt \union {"none"},
                   outcome: Attempt \union {"none"}]
  <1>1. trace \in [Worker -> T] /\ trace[w].last \in Attempt \union {"none"}
        /\ trace[w].state \in {"none", "prepared", "claimed", "terminal"}
        /\ trace[w].live \in BOOLEAN
    BY DEF RevisionTypeOK
  <1>2. "phase" \in Attempt /\ "failed" \in Attempt BY DEF Attempt
  <1>3. ASSUME NEW state \in {"none", "prepared", "claimed", "terminal"},
               NEW live \in BOOLEAN, NEW last \in Attempt \union {"none"},
               SetTrace(w, state, live, last),
               trace[w].state # "terminal"
        PROVE  /\ trace' \in [Worker -> T]
               /\ \A v \in Worker : trace'[v].outcome = trace[v].outcome
                      /\ (trace[v].state = "terminal" => trace'[v] = trace[v])
    BY <1>1, <1>3 DEF SetTrace
  <1>4. CASE UNCHANGED trace BY <1>1, <1>4
  <1>5. CASE Prepare(w) BY <1>3, <1>5 DEF Prepare
  <1>6. CASE Claim(w) /\ ~UNCHANGED trace BY <1>1, <1>3, <1>6 DEF Claim
  <1>7. CASE LeaseExpires(w)
    <2>1. trace[w].state # "terminal" BY <1>7 DEF LeaseExpires, Active
    <2> QED BY <1>1, <1>3, <1>7, <2>1 DEF LeaseExpires
  <1>8. CASE WriteAppend(w) BY <1>1, <1>2, <1>3, <1>8 DEF WriteAppend
  <1>9. CASE RaiseStage(w)
    <2>1. Terminal("failed") \in T BY <1>2 DEF Terminal
    <2>2. CASE Active(w)
      <3>1. trace' = [trace EXCEPT ![w] = Terminal("failed")] BY <1>9, <2>2 DEF RaiseStage
      <3> QED BY <1>1, <2>1, <2>2, <3>1 DEF Terminal, Active
    <2>3. CASE ~Active(w)
      <3>1. trace' = trace BY <1>1, <1>9, <2>3 DEF RaiseStage
      <3> QED BY <1>4, <3>1
    <2> QED BY <2>2, <2>3
  <1> QED BY <1>4, <1>5, <1>6, <1>7, <1>8, <1>9
      DEF StageStep, ReadForAppend, AppendRefused, Validated, ReadForCommit, CommitFails

LEMMA StageTypes ==
    ASSUME RevisionTypeOK, NEW w \in Worker, StageStep(w)
    PROVE  RevisionTypeOK'
  <1>1. /\ "claim" \in Label /\ "run" \in Label /\ "append" \in Label
        /\ "prepared" \in Label /\ "commit" \in Label /\ "failed" \in Label
        /\ "conflict" \in Label /\ "uncertain" \in Label
    BY DEF Label, Failure
  <1>2. pc' \in [Worker -> Label]
    <2>1. CASE UNCHANGED pc BY <2>1 DEF RevisionTypeOK
    <2> QED BY <1>1, <2>1, GotoTypes
        DEF StageStep, Prepare, Claim, ReadForAppend, WriteAppend, AppendRefused, Validated,
            RaiseStage, StageRaises, ReadForCommit, CommitFails, LeaseExpires
  <1>3. got' \in SUBSET Worker
    BY DEF StageStep, Prepare, Claim, ReadForAppend, WriteAppend, AppendRefused, Validated,
           RaiseStage, ReadForCommit, CommitFails, LeaseExpires, RevisionTypeOK
  <1> QED BY <1>2, <1>3, StageSame, StageTrace DEF RevisionTypeOK

LEMMA CommitTypes ==
    ASSUME RevisionTypeOK, HistoryFollowsPlan, NEW w \in Worker, Commit(w)
    PROVE  RevisionTypeOK'
  <1>1. w[1] \in Op BY DEF Worker
  <1>2. op' \in [Op -> [status: OpStatus, base: Snapshot]]
    <2>1. "ready" \in OpStatus /\ "accepted" \in OpStatus BY DEF OpStatus, Settled
    <2> QED BY <1>1, <2>1, OpTypes, CommitWrites
  <1>3. plan' \in [rev: Nat \ {0}, body: Content, gone: BOOLEAN]
    <2>1. plan \in [rev: Nat \ {0}, body: Content, gone: BOOLEAN] BY DEF RevisionTypeOK
    <2>2. CASE UNCHANGED planVars BY <2>1, <2>2 DEF planVars
    <2>3. CASE ~UNCHANGED planVars BY <2>3, CommitWrites, WriteArchives
    <2> QED BY <2>2, <2>3
  <1>4. trace' \in [Worker -> [state: {"none", "prepared", "claimed", "terminal"},
                               live: BOOLEAN, last: Attempt \union {"none"},
                               outcome: Attempt \union {"none"}]]
    <2>1. "committed" \in Attempt BY DEF Attempt
    <2> QED BY <2>1, RowTypes DEF Commit, RevisionTypeOK
  <1>5. pc' \in [Worker -> Label]
    <2>1. "idle" \in Label /\ "failed" \in Label BY DEF Label, Failure
    <2> QED BY <2>1, GotoTypes DEF Commit
  <1>6. got' \in SUBSET Worker BY DEF Commit, RevisionTypeOK
  <1> QED BY <1>2, <1>3, <1>4, <1>5, <1>6 DEF Commit, RevisionTypeOK, clientVars

\* fail settles an operation that is still being worked on, and ends a trace
\* only while its claim is active.
LEMMA FailWrites ==
    ASSUME RevisionTypeOK, NEW w \in Worker, Fail(w)
    PROVE  /\ UNCHANGED <<plan, history, edit, session, approval>>
           /\ \/ UNCHANGED op
              \/ /\ op[w[1]].status \in {"generating", "applying"}
                 /\ \E status \in Failure : OpStep(w[1], status)
           /\ \/ UNCHANGED trace
              \/ Active(w) /\ trace' = [trace EXCEPT ![w] = Terminal("failed")]
  <1>1. UNCHANGED <<plan, history, edit, session, approval>>
    BY DEF Fail, planVars, clientVars
  <1>2. pc[w] \in Failure BY DEF Fail
  <1>3. w \notin got => trace' = trace BY DEF Fail, RevisionTypeOK
  <1> QED BY <1>1, <1>2, <1>3 DEF Fail

LEMMA FailTypes ==
    ASSUME RevisionTypeOK, NEW w \in Worker, Fail(w)
    PROVE  RevisionTypeOK'
  <1>1. w[1] \in Op BY DEF Worker
  <1>2. op' \in [Op -> [status: OpStatus, base: Snapshot]]
    <2>1. Failure \subseteq OpStatus BY DEF Failure, OpStatus, Settled
    <2>2. CASE UNCHANGED op BY <2>2 DEF RevisionTypeOK
    <2> QED BY <1>1, <2>1, <2>2, OpTypes, FailWrites
  <1>3. trace' \in [Worker -> [state: {"none", "prepared", "claimed", "terminal"},
                               live: BOOLEAN, last: Attempt \union {"none"},
                               outcome: Attempt \union {"none"}]]
    <2>1. "failed" \in Attempt BY DEF Attempt
    <2>2. CASE UNCHANGED trace BY <2>2 DEF RevisionTypeOK
    <2> QED BY <2>1, <2>2, RowTypes, FailWrites DEF RevisionTypeOK
  <1>4. pc' \in [Worker -> Label]
    <2>1. "idle" \in Label BY DEF Label
    <2> QED BY <2>1, GotoTypes DEF Fail
  <1>5. got' \in SUBSET Worker BY DEF Fail, RevisionTypeOK
  <1> QED BY <1>2, <1>3, <1>4, <1>5, FailWrites DEF RevisionTypeOK

\* What the steps of each party leave alone.
LEMMA Frames ==
    /\ \A l \in Learner : LearnerStep(l) =>
           UNCHANGED <<session, approval, op, trace, pc, got>>
    /\ \A a \in Approver : ApproverStep(a) => UNCHANGED <<edit, op, trace, pc, got>>
    /\ Turn => UNCHANGED <<plan, history, edit, approval, op, trace, pc, got>>
    /\ \A o \in Op : OpDecision(o) =>
           UNCHANGED <<plan, history, edit, session, approval, got>>
    /\ \A w \in Worker : StageStep(w) =>
           UNCHANGED <<plan, history, edit, session, approval, op>>
    /\ \A w \in Worker : Fail(w) => UNCHANGED <<plan, history, edit, session, approval>>
    /\ \A w \in Worker : Commit(w) => UNCHANGED <<edit, session, approval>>
  <1>1. ASSUME NEW l \in Learner, LearnerStep(l)
        PROVE  UNCHANGED <<session, approval, op, trace, pc, got>>
    BY <1>1 DEF LearnerStep, OpenPlan, ReadForEdit, WriteEdit, LoseEdit, stageVars
  <1>2. ASSUME NEW a \in Approver, ApproverStep(a)
        PROVE  UNCHANGED <<edit, op, trace, pc, got>>
    BY <1>2 DEF ApproverStep, ReadConfirmation, WriteConfirmation, LoseConfirmation, stageVars
  <1>3. Turn => UNCHANGED <<plan, history, edit, approval, op, trace, pc, got>>
    BY DEF Turn, planVars, stageVars
  <1>4. ASSUME NEW o \in Op, OpDecision(o)
        PROVE  UNCHANGED <<plan, history, edit, session, approval, got>>
    BY <1>4 DEF OpDecision, Admit, BeginAccept, Reject, Interrupt, planVars, clientVars
  <1>5. ASSUME NEW w \in Worker, Fail(w)
        PROVE  UNCHANGED <<plan, history, edit, session, approval>>
    BY <1>5 DEF Fail, planVars, clientVars
  <1>6. ASSUME NEW w \in Worker, Commit(w) PROVE UNCHANGED <<edit, session, approval>>
    BY <1>6 DEF Commit, clientVars
  <1> QED BY <1>1, <1>2, <1>3, <1>4, <1>5, <1>6, StageSame

\* Every step is one party's.
LEMMA Parties ==
    ASSUME [Next]_vars
    PROVE  \/ UNCHANGED <<plan, history, edit, session, approval, op, trace, pc, got>>
           \/ Turn
           \/ \E l \in Learner : LearnerStep(l)
           \/ \E a \in Approver : ApproverStep(a)
           \/ \E o \in Op : OpDecision(o)
           \/ \E w \in Worker : StageStep(w) \/ Commit(w) \/ Fail(w)
  BY DEF Next, WorkerStep, StageStep, vars

LEMMA TypesInit == Init => RevisionTypeOK
  <1> SUFFICES ASSUME Init PROVE RevisionTypeOK OBVIOUS
  <1> USE RowTypes DEF Init
  <1>1. plan \in [rev: Nat \ {0}, body: Content, gone: BOOLEAN]
    BY DEF NoPlan, Snapshot
  <1>2. /\ edit \in [Learner -> [at: EditLabel, seen: Nat, row: Snapshot]]
        /\ approval \in [Approver -> [at: ApprovalLabel, target: Decision,
                                      rev: Nat, row: Snapshot]]
        /\ session \in [rev: Nat, decision: Decision \union {"pending"}]
    BY DEF EditLabel, ApprovalLabel, Decision
  <1>3. op \in [Op -> [status: OpStatus, base: Snapshot]] BY DEF OpStatus
  <1> QED BY <1>1, <1>2, <1>3 DEF RevisionTypeOK, Label

LEMMA TypesStep ==
    ASSUME RevisionTypeOK, HistoryFollowsPlan, [Next]_vars
    PROVE  RevisionTypeOK'
  <1>1. CASE UNCHANGED vars BY <1>1 DEF vars, RevisionTypeOK
  <1>2. CASE Turn
    <2>1. session' \in [rev: Nat, decision: Decision \union {"pending"}]
      BY <1>2 DEF Turn, RevisionTypeOK
    <2> QED BY <1>2, <2>1 DEF Turn, RevisionTypeOK, planVars, stageVars
  <1>3. ASSUME NEW l \in Learner, LearnerStep(l) PROVE RevisionTypeOK' BY <1>3, LearnerTypes
  <1>4. ASSUME NEW a \in Approver, ApproverStep(a) PROVE RevisionTypeOK' BY <1>4, ApproverTypes
  <1>5. ASSUME NEW o \in Op, OpDecision(o) PROVE RevisionTypeOK' BY <1>5, OpTypesOK
  <1>6. ASSUME NEW w \in Worker, StageStep(w) \/ Commit(w) \/ Fail(w) PROVE RevisionTypeOK'
    BY <1>6, StageTypes, CommitTypes, FailTypes
  <1> QED BY <1>1, <1>2, <1>3, <1>4, <1>5, <1>6 DEF Next, WorkerStep, StageStep

-----------------------------------------------------------------------------
(* The archive *)

\* A step writes the plan by replacing its current revision, or not at all.
LEMMA OneWriter ==
    ASSUME RevisionTypeOK, HistoryFollowsPlan, [Next]_vars
    PROVE  \/ UNCHANGED planVars
           \/ \E body \in Content, gone \in BOOLEAN : Write(plan.rev, body, gone)
  <1>1. CASE UNCHANGED vars BY <1>1 DEF vars, planVars
  <1>2. CASE Turn BY <1>2 DEF Turn, planVars
  <1>3. ASSUME NEW l \in Learner, LearnerStep(l), ~UNCHANGED planVars
        PROVE  \E body \in Content, gone \in BOOLEAN : Write(plan.rev, body, gone)
    <2>1. WriteEdit(l)
      BY <1>3 DEF LearnerStep, OpenPlan, ReadForEdit, LoseEdit, planVars
    <2> QED BY <2>1, EditWrites
  <1>4. ASSUME NEW a \in Approver, ApproverStep(a), ~UNCHANGED planVars
        PROVE  \E body \in Content, gone \in BOOLEAN : Write(plan.rev, body, gone)
    <2>1. WriteConfirmation(a)
      BY <1>4 DEF ApproverStep, ReadConfirmation, LoseConfirmation, planVars
    <2> QED BY <1>4, <2>1, ConfirmationWrites
  <1>5. ASSUME NEW o \in Op, OpDecision(o) PROVE UNCHANGED planVars
    BY <1>5 DEF OpDecision, Admit, BeginAccept, Reject, Interrupt, planVars
  <1>6. ASSUME NEW w \in Worker, StageStep(w) \/ Fail(w) PROVE UNCHANGED planVars
    BY <1>6, StageSame, FailWrites DEF planVars
  <1>7. ASSUME NEW w \in Worker, Commit(w), ~UNCHANGED planVars
        PROVE  \E body \in Content, gone \in BOOLEAN : Write(plan.rev, body, gone)
    BY <1>7, CommitWrites
  <1> QED BY <1>1, <1>2, <1>3, <1>4, <1>5, <1>6, <1>7 DEF Next, WorkerStep, StageStep

LEMMA HistoryStep ==
    ASSUME RevisionTypeOK, HistoryFollowsPlan, [Next]_vars
    PROVE  /\ HistoryFollowsPlan'
           /\ \A r \in DOMAIN history : r \in DOMAIN history' /\ history'[r] = history[r]
           /\ \A row \in Snapshot : Archived(row) => Archived(row)'
  <1>1. CASE UNCHANGED planVars BY <1>1 DEF planVars, HistoryFollowsPlan, Archived
  <1>2. CASE ~UNCHANGED planVars BY <1>2, OneWriter, WriteArchives
  <1> QED BY <1>1, <1>2

\* The current row is in the archive, and whatever a request reads is it.
LEMMA RowsStep ==
    ASSUME PlanInv, [Next]_vars
    PROVE  RowsAreArchived'
  <1> USE DEF PlanInv
  <1>1. \A row \in Snapshot : Archived(row) => Archived(row)' BY HistoryStep
  <1>2. Current \in Snapshot /\ Archived(Current)
    <2>1. plan.rev \in 1..plan.rev BY DEF RevisionTypeOK
    <2> QED BY <2>1, RowTypes DEF Archived, Current, HistoryFollowsPlan
  <1>3. ASSUME NEW l \in Learner, edit'[l].at = "read" PROVE Archived(edit[l].row)'
    <2>1. \/ edit'[l] = edit[l]
          \/ edit'[l].row = Current
      <3>1. CASE UNCHANGED edit BY <3>1
      <3>2. ASSUME NEW m \in Learner, LearnerStep(m)
            PROVE  edit'[l] = edit[l] \/ edit'[l].row = Current
        <4>1. edit \in [Learner -> [at: EditLabel, seen: Nat, row: Snapshot]]
          BY DEF RevisionTypeOK
        <4>2. ASSUME NEW label, NEW seen, NEW row, EditStep(m, label, seen, row)
              PROVE  edit'[l] = edit[l] \/ (edit'[l].at = label /\ edit'[l].row = row)
          BY <4>1, <4>2 DEF EditStep
        <4>3. CASE ReadForEdit(m) BY <1>3, <4>2, <4>3 DEF ReadForEdit
        <4>4. CASE OpenPlan(m) \/ LoseEdit(m) BY <1>3, <4>2, <4>4 DEF OpenPlan, LoseEdit
        <4>5. CASE WriteEdit(m)
          <5>1. EditStep(m, "done", 0, NoPlan) \/ EditStep(m, "deleted", 0, NoPlan)
            BY <4>5, EditWrites
          <5> QED BY <1>3, <4>2, <5>1
        <4> QED BY <3>2, <4>3, <4>4, <4>5 DEF LearnerStep
      <3> QED BY <3>1, <3>2, Parties, Frames
    <2>2. edit[l].row \in Snapshot BY DEF RevisionTypeOK
    <2> QED BY <1>1, <1>2, <1>3, <2>1, <2>2 DEF RowsAreArchived, Archived
  <1>4. ASSUME NEW a \in Approver, approval'[a].at = "read" PROVE Archived(approval[a].row)'
    <2>1. \/ approval'[a] = approval[a]
          \/ approval'[a].row = Current
      <3>1. CASE UNCHANGED approval BY <3>1
      <3>2. ASSUME NEW b \in Approver, ApproverStep(b)
            PROVE  approval'[a] = approval[a] \/ approval'[a].row = Current
        <4>1. approval \in [Approver -> [at: ApprovalLabel, target: Decision,
                                         rev: Nat, row: Snapshot]]
          BY DEF RevisionTypeOK
        <4>2. ASSUME NEW label, NEW target, NEW rev, NEW row,
                     ApprovalStep(b, label, target, rev, row)
              PROVE  \/ approval'[a] = approval[a]
                     \/ approval'[a].at = label /\ approval'[a].row = row
          BY <4>1, <4>2 DEF ApprovalStep
        <4>3. ASSUME NEW target \in Decision, ReadConfirmation(b, target)
              PROVE  approval'[a] = approval[a] \/ approval'[a].row = Current
          BY <1>4, <4>2, <4>3 DEF ReadConfirmation
        <4>4. CASE WriteConfirmation(b) BY <1>4, <4>2, <4>4 DEF WriteConfirmation
        <4>5. CASE LoseConfirmation(b) BY <1>4, <4>2, <4>5 DEF LoseConfirmation
        <4> QED BY <3>2, <4>3, <4>4, <4>5 DEF ApproverStep
      <3> QED BY <3>1, <3>2, Parties, Frames
    <2>2. approval[a].row \in Snapshot BY DEF RevisionTypeOK
    <2> QED BY <1>1, <1>2, <1>4, <2>1, <2>2 DEF RowsAreArchived, Archived
  <1>5. ASSUME NEW o \in Op, op'[o].status # "none" PROVE Archived(op[o].base)'
    <2>1. \/ op[o].status # "none" /\ op'[o].base = op[o].base
          \/ op'[o].base = Current
      <3>0. op \in [Op -> [status: OpStatus, base: Snapshot]] BY DEF RevisionTypeOK
      <3>1. CASE UNCHANGED op BY <1>5, <3>1
      <3>2. ASSUME NEW p \in Op, NEW status \in OpStatus, OpStep(p, status),
                   op[p].status # "none"
            PROVE  op[o].status # "none" /\ op'[o].base = op[o].base
        BY <1>5, <3>0, <3>2 DEF OpStep
      <3>3. ASSUME NEW p \in Op, OpDecision(p)
            PROVE  \/ op[o].status # "none" /\ op'[o].base = op[o].base
                   \/ op'[o].base = Current
        <4>1. CASE Admit(p) BY <1>5, <3>0, <4>1 DEF Admit
        <4>2. CASE ~Admit(p)
          <5>1. /\ "applying" \in OpStatus /\ "rejected" \in OpStatus
                /\ "uncertain" \in OpStatus /\ "failed" \in OpStatus
            BY DEF OpStatus, Settled
          <5> QED BY <3>2, <3>3, <4>2, <5>1 DEF OpDecision, BeginAccept, Reject, Interrupt
        <4> QED BY <4>1, <4>2
      <3>4. ASSUME NEW w \in Worker, Commit(w) \/ Fail(w), ~UNCHANGED op
            PROVE  op[o].status # "none" /\ op'[o].base = op[o].base
        <4>1. w[1] \in Op BY DEF Worker
        <4>2. "ready" \in OpStatus /\ "accepted" \in OpStatus /\ Failure \subseteq OpStatus
          BY DEF OpStatus, Settled, Failure
        <4> QED BY <3>2, <3>4, <4>1, <4>2, CommitWrites, FailWrites
      <3> QED BY <3>1, <3>3, <3>4, Parties, Frames
    <2>2. op[o].base \in Snapshot BY DEF RevisionTypeOK
    <2> QED BY <1>1, <1>2, <2>1, <2>2 DEF RowsAreArchived, Archived
  <1> QED BY <1>3, <1>4, <1>5 DEF RowsAreArchived

LEMMA InitPlanInv == Init => PlanInv
  <1> SUFFICES ASSUME Init PROVE PlanInv OBVIOUS
  <1>1. RevisionTypeOK BY TypesInit
  <1>2. HistoryFollowsPlan BY DEF Init, HistoryFollowsPlan
  <1>3. RowsAreArchived BY DEF Init, RowsAreArchived
  <1> QED BY <1>1, <1>2, <1>3 DEF PlanInv

LEMMA PlanInvStep == PlanInv /\ [Next]_vars => PlanInv'
  BY TypesStep, HistoryStep, RowsStep DEF PlanInv

LEMMA PlanInvariant == Spec => []PlanInv
  BY InitPlanInv, PlanInvStep, PTL DEF Spec

\* The rows and the requests keep their shape.
THEOREM RevisionTypes == Spec => []RevisionTypeOK
  BY PlanInvariant, PTL DEF PlanInv

\* Every revision of the plan is archived, the current one as it is.
THEOREM HistoryIsComplete == Spec => []HistoryFollowsPlan
  BY PlanInvariant, PTL DEF PlanInv

\* An archived revision is never rewritten and none disappears.
THEOREM HistoryStays == Spec => HistoryIsFixed
  <1>1. PlanInv /\ [Next]_vars =>
            [\A r \in DOMAIN history : r \in DOMAIN history' /\ history'[r] = history[r]]_vars
    BY HistoryStep DEF PlanInv
  <1> QED BY <1>1, PlanInvariant, PTL DEF Spec, HistoryIsFixed

\* The archive has every revision of the plan, as it was and for good.
THEOREM HistoryStands == Spec => HistoryIsKept
  BY HistoryIsComplete, HistoryStays DEF HistoryIsKept

-----------------------------------------------------------------------------
(* No edit is lost *)

\* A row that was read and still has the plan's revision is the plan.
LEMMA ReadIsCurrent ==
    ASSUME HistoryFollowsPlan, NEW row, Archived(row), row.rev = plan.rev
    PROVE  row.body = plan.body
  BY DEF HistoryFollowsPlan, Archived

LEMMA UndecidedStep ==
    ASSUME RevisionTypeOK, ReadUndecided, [Next]_vars
    PROVE  ReadUndecided'
  <1>1. /\ session.rev \in Nat
        /\ \A a \in Approver : approval[a].rev \in Nat
        /\ approval \in [Approver -> [at: ApprovalLabel, target: Decision,
                                      rev: Nat, row: Snapshot]]
    BY DEF RevisionTypeOK
  <1>2. CASE UNCHANGED <<session, approval>> BY <1>2 DEF ReadUndecided
  <1>3. CASE Turn
    <2>1. session'.rev = session.rev + 1 /\ UNCHANGED approval BY <1>3 DEF Turn
    <2> QED BY <1>1, <2>1 DEF ReadUndecided
  <1>4. ASSUME NEW b \in Approver, ApproverStep(b) PROVE ReadUndecided'
    <2>1. ASSUME NEW label, NEW target, NEW rev, NEW row,
                 ApprovalStep(b, label, target, rev, row), NEW a \in Approver
          PROVE  IF a = b THEN approval'[a].at = label /\ approval'[a].rev = rev
                          ELSE approval'[a] = approval[a]
      BY <1>1, <2>1 DEF ApprovalStep
    <2>2. ASSUME NEW target \in Decision, ReadConfirmation(b, target) PROVE ReadUndecided'
      <3>1. UNCHANGED session BY <2>2 DEF ReadConfirmation
      <3>2. CASE \E label \in {"done", "refused"} : ApprovalStep(b, label, "approved", 0, NoPlan)
        BY <2>1, <3>1, <3>2 DEF ReadUndecided
      <3>3. CASE /\ session.decision = "pending"
                 /\ ApprovalStep(b, "read", target, session.rev, Current)
        BY <1>1, <2>1, <3>1, <3>3 DEF ReadUndecided
      <3> QED BY <2>2, <3>2, <3>3 DEF ReadConfirmation
    <2>3. CASE WriteConfirmation(b)
      <3>1. ApprovalStep(b, "done", "approved", 0, NoPlan) BY <2>3 DEF WriteConfirmation
      <3>2. session'.rev = session.rev + 1 BY <2>3 DEF WriteConfirmation
      <3> QED BY <1>1, <2>1, <3>1, <3>2 DEF ReadUndecided
    <2>4. CASE LoseConfirmation(b)
      <3>1. UNCHANGED session BY <2>4 DEF LoseConfirmation
      <3>2. PICK label \in {"idle", "refused"} : ApprovalStep(b, label, "approved", 0, NoPlan)
        BY <2>4 DEF LoseConfirmation
      <3> QED BY <2>1, <3>1, <3>2 DEF ReadUndecided
    <2> QED BY <1>4, <2>2, <2>3, <2>4 DEF ApproverStep
  <1> QED BY <1>2, <1>3, <1>4, Parties, Frames

LEMMA EditsStep ==
    ASSUME PlanInv, ReadUndecided, NoEditIsLost, [Next]_vars
    PROVE  NoEditIsLost'
  <1> USE DEF PlanInv
  <1>1. /\ plan \in [rev: Nat \ {0}, body: Content, gone: BOOLEAN]
        /\ edit \in [Learner -> [at: EditLabel, seen: Nat, row: Snapshot]]
        /\ "confirmed" \notin Learner
    BY NameAssumption DEF RevisionTypeOK
  <1> DEFINE Done == {l \in Learner : edit[l].at = "done"}
             Approved == {c \in {Confirmed} : session.decision = "approved"}
  <1>2. plan.body.marks = Done \union Approved BY DEF NoEditIsLost
  <1>3. ASSUME plan'.body.marks = plan.body.marks, Done' = Done, Approved' = Approved
        PROVE  NoEditIsLost'
    BY <1>2, <1>3 DEF NoEditIsLost
  <1>4. CASE UNCHANGED <<plan, edit, session>> BY <1>3, <1>4
  <1>5. CASE Turn
    <2>1. session'.decision = session.decision BY <1>5 DEF Turn
    <2> QED BY <1>3, <1>5, <2>1, Frames
  <1>6. ASSUME NEW m \in Learner, LearnerStep(m) PROVE NoEditIsLost'
    <2>1. UNCHANGED session BY <1>6, Frames
    <2>2. ASSUME NEW label, NEW seen, NEW row, EditStep(m, label, seen, row)
          PROVE  \A l \in Learner : IF l = m THEN edit'[l].at = label
                                             ELSE edit'[l] = edit[l]
      BY <1>1, <2>2 DEF EditStep
    <2>3. CASE UNCHANGED plan /\ ~WriteEdit(m)
      <3>1. edit[m].at # "done" BY <1>6, <2>3 DEF LearnerStep, OpenPlan, ReadForEdit, LoseEdit
      <3>2. \E label \in EditLabel \ {"done"} : \E seen, row : EditStep(m, label, seen, row)
        BY <1>6, <2>3 DEF LearnerStep, OpenPlan, ReadForEdit, LoseEdit, EditLabel
      <3>3. Done' = Done BY <2>2, <3>1, <3>2
      <3> QED BY <1>3, <2>1, <2>3, <3>3
    <2>4. CASE WriteEdit(m)
      <3>1. edit[m].at = "read" BY <2>4 DEF WriteEdit
      <3>2. edit[m].row \in Snapshot /\ Archived(edit[m].row)
        BY <3>1 DEF RowsAreArchived, RevisionTypeOK
      <3>3. edit[m].row.rev = plan.rev BY <2>4, EditWrites
      <3>4. edit[m].row.body = plan.body BY <3>2, <3>3, ReadIsCurrent
      <3>5. CASE plan'.body = Marked(edit[m].row.body, m) /\ EditStep(m, "done", 0, NoPlan)
        <4>1. plan'.body.marks = plan.body.marks \union {m} BY <3>4, <3>5 DEF Marked
        <4>2. Done' = Done \union {m} BY <2>2, <3>5
        <4> QED BY <1>2, <2>1, <4>1, <4>2 DEF NoEditIsLost
      <3>6. CASE plan'.body = edit[m].row.body /\ EditStep(m, "deleted", 0, NoPlan)
        <4>1. Done' = Done BY <2>2, <3>1, <3>6
        <4> QED BY <1>3, <2>1, <3>4, <3>6, <4>1
      <3> QED BY <2>4, <3>5, <3>6 DEF WriteEdit, Write
    <2> QED BY <1>6, <2>3, <2>4
        DEF LearnerStep, OpenPlan, ReadForEdit, LoseEdit, planVars
  <1>7. ASSUME NEW a \in Approver, ApproverStep(a) PROVE NoEditIsLost'
    <2>1. UNCHANGED edit BY <1>7, Frames
    <2>2. CASE UNCHANGED <<plan, session>> BY <1>3, <2>1, <2>2
    <2>3. CASE WriteConfirmation(a)
      <3>1. approval[a].at = "read" /\ session.rev = approval[a].rev
            /\ session'.decision = approval[a].target
        BY <2>3 DEF WriteConfirmation
      <3>2. session.decision = "pending" BY <3>1 DEF ReadUndecided
      <3>3. CASE /\ approval[a].target = "approved"
                 /\ approval[a].row.rev = plan.rev
                 /\ Write(approval[a].row.rev, Marked(approval[a].row.body, Confirmed), FALSE)
        <4>1. Archived(approval[a].row) BY <3>1 DEF RowsAreArchived
        <4>2. approval[a].row.body = plan.body BY <3>3, <4>1, ReadIsCurrent
        <4>3. plan'.body = Marked(approval[a].row.body, Confirmed) BY <3>3 DEF Write
        <4>4. plan'.body.marks = plan.body.marks \union {Confirmed}
          BY <4>2, <4>3 DEF Marked
        <4> QED BY <1>2, <2>1, <3>1, <3>2, <3>3, <4>4 DEF NoEditIsLost
      <3>4. CASE approval[a].target = "rejected" /\ UNCHANGED planVars
        BY <1>3, <2>1, <3>1, <3>2, <3>4 DEF planVars
      <3> QED BY <2>3, <3>3, <3>4, ConfirmationWrites
    <2> QED BY <1>7, <2>2, <2>3
        DEF ApproverStep, ReadConfirmation, LoseConfirmation, planVars
  <1>8. ASSUME NEW w \in Worker, Commit(w) PROVE NoEditIsLost'
    <2>1. UNCHANGED <<edit, session>> BY <1>8, Frames
    <2>2. CASE UNCHANGED planVars BY <1>3, <2>1, <2>2 DEF planVars
    <2>3. CASE ~UNCHANGED planVars
      <3>1. /\ w[2] = "accept" /\ op[w[1]].status = "applying"
            /\ op[w[1]].base.rev = plan.rev
            /\ Write(op[w[1]].base.rev,
                     [text |-> w[1], marks |-> op[w[1]].base.body.marks], FALSE)
        BY <1>8, <2>3, CommitWrites
      <3>2. w[1] \in Op BY DEF Worker
      <3>3. Archived(op[w[1]].base) BY <3>1, <3>2 DEF RowsAreArchived
      <3>4. op[w[1]].base.body = plan.body BY <3>1, <3>3, ReadIsCurrent
      <3>5. plan'.body.marks = plan.body.marks BY <3>1, <3>4 DEF Write
      <3> QED BY <1>3, <2>1, <3>5
    <2> QED BY <2>2, <2>3
  <1> QED BY <1>4, <1>5, <1>6, <1>7, <1>8, Parties, Frames

EditInv == PlanInv /\ ReadUndecided /\ NoEditIsLost

LEMMA InitEditInv == Init => EditInv
  <1> SUFFICES ASSUME Init PROVE EditInv OBVIOUS
  <1>1. ReadUndecided /\ NoEditIsLost
    BY DEF Init, ReadUndecided, NoEditIsLost, NoPlan
  <1> QED BY <1>1, InitPlanInv DEF EditInv

LEMMA EditInvStep == EditInv /\ [Next]_vars => EditInv'
  BY PlanInvStep, UndecidedStep, EditsStep DEF EditInv, PlanInv

\* No write of the plan is lost and no refused one is kept.
THEOREM EditsAreKept == Spec => []NoEditIsLost
  BY InitEditInv, EditInvStep, PTL DEF Spec, EditInv

-----------------------------------------------------------------------------
(* An accepted revision: its row, its trace and the plan's history *)

\* What a step does to the row of an operation.
LEMMA OpMoves ==
    ASSUME RevisionTypeOK, [Next]_vars, NEW o \in Op
    PROVE  \/ op'[o] = op[o]
           \/ Admit(o)
           \/ BeginAccept(o) \/ Reject(o) \/ Interrupt(o)
           \/ \E w \in Worker : w[1] = o /\ Commit(w)
           \/ \E w \in Worker : /\ w[1] = o
                                /\ op[o].status \in {"generating", "applying"}
                                /\ \E status \in Failure : OpStep(o, status)
                                /\ UNCHANGED <<plan, history>> /\ Fail(w)
  <1>0. op \in [Op -> [status: OpStatus, base: Snapshot]] BY DEF RevisionTypeOK
  <1>1. ASSUME NEW p \in Op, p # o, OpDecision(p) PROVE op'[o] = op[o]
    BY <1>0, <1>1 DEF OpDecision, Admit, BeginAccept, Reject, Interrupt, OpStep
  <1>2. ASSUME NEW w \in Worker, w[1] # o, Commit(w) PROVE op'[o] = op[o]
    BY <1>0, <1>2, CommitWrites DEF OpStep
  <1>3. ASSUME NEW w \in Worker, w[1] # o, Fail(w) PROVE op'[o] = op[o]
    BY <1>0, <1>3, FailWrites DEF OpStep
  <1>4. ASSUME NEW w \in Worker, w[1] = o, Fail(w), op'[o] # op[o]
        PROVE  /\ op[o].status \in {"generating", "applying"}
               /\ \E status \in Failure : OpStep(o, status)
               /\ UNCHANGED <<plan, history>>
    BY <1>4, FailWrites
  <1>5. ASSUME NEW p \in Op, p = o, OpDecision(p)
        PROVE  Admit(o) \/ BeginAccept(o) \/ Reject(o) \/ Interrupt(o)
    BY <1>5 DEF OpDecision
  <1> QED BY <1>1, <1>2, <1>3, <1>4, <1>5, Parties, Frames

\* Text enters the archive by the commit of its own operation only.
LEMMA TextEnters ==
    ASSUME PlanInv, [Next]_vars, NEW o \in Op, NEW r \in DOMAIN history',
           history'[r].text = o, \A q \in DOMAIN history : history[q].text # o
    PROVE  \E w \in Worker : w[1] = o /\ w[2] = "accept" /\ Commit(w)
  <1> USE DEF PlanInv
  <1>1. plan.rev \in DOMAIN history /\ history[plan.rev] = plan.body
    BY DEF HistoryFollowsPlan, RevisionTypeOK
  <1>2. ~UNCHANGED planVars BY DEF planVars
  <1>3. ASSUME NEW body \in Content, NEW gone \in BOOLEAN, Write(plan.rev, body, gone)
        PROVE  body.text = o
    BY <1>3, WriteArchives
  <1>4. ASSUME NEW l \in Learner, LearnerStep(l) PROVE FALSE
    <2>1. WriteEdit(l)
      BY <1>2, <1>4 DEF LearnerStep, OpenPlan, ReadForEdit, LoseEdit, planVars
    <2>2. Archived(edit[l].row) BY <2>1 DEF WriteEdit, RowsAreArchived
    <2>3. PICK body \in Content, gone \in BOOLEAN :
              /\ edit[l].row.rev = plan.rev
              /\ Write(edit[l].row.rev, body, gone)
              /\ body = Marked(edit[l].row.body, l) \/ body = edit[l].row.body
      BY <2>1, EditWrites
    <2>4. edit[l].row.body = plan.body BY <2>2, <2>3, ReadIsCurrent
    <2>5. body.text = plan.body.text BY <2>3, <2>4 DEF Marked
    <2> QED BY <1>1, <1>3, <2>3, <2>5
  <1>5. ASSUME NEW a \in Approver, ApproverStep(a) PROVE FALSE
    <2>1. WriteConfirmation(a)
      BY <1>2, <1>5 DEF ApproverStep, ReadConfirmation, LoseConfirmation, planVars
    <2>2. Archived(approval[a].row) BY <2>1 DEF WriteConfirmation, RowsAreArchived
    <2>3. /\ approval[a].row.rev = plan.rev
          /\ Marked(approval[a].row.body, Confirmed) \in Content
          /\ Write(approval[a].row.rev, Marked(approval[a].row.body, Confirmed), FALSE)
      BY <1>2, <2>1, ConfirmationWrites
    <2>4. approval[a].row.body = plan.body BY <2>2, <2>3, ReadIsCurrent
    <2>5. Marked(approval[a].row.body, Confirmed).text = plan.body.text
      BY <2>4 DEF Marked
    <2>6. Marked(approval[a].row.body, Confirmed).text = o BY <1>3, <2>3
    <2> QED BY <1>1, <2>5, <2>6
  <1>6. ASSUME NEW w \in Worker, Commit(w) PROVE w[1] = o /\ w[2] = "accept"
    <2>1. /\ w[2] = "accept"
          /\ [text |-> w[1], marks |-> op[w[1]].base.body.marks] \in Content
          /\ Write(plan.rev, [text |-> w[1], marks |-> op[w[1]].base.body.marks], FALSE)
      BY <1>2, <1>6, CommitWrites
    <2>2. [text |-> w[1], marks |-> op[w[1]].base.body.marks].text = o BY <1>3, <2>1
    <2> QED BY <2>1, <2>2
  <1> QED BY <1>2, <1>4, <1>5, <1>6, Parties, Frames DEF planVars

LEMMA TextStep ==
    ASSUME PlanInv, TextIsAccepted, [Next]_vars
    PROVE  TextIsAccepted'
  <1> USE DEF PlanInv
  <1> SUFFICES ASSUME NEW o \in Op
               PROVE  /\ \A r \in DOMAIN history' : history'[r].text = o
                                                       => op'[o].status = "accepted"
                      /\ op'[o].status = "accepted" =>
                             /\ op'[o].base.rev + 1 \in DOMAIN history'
                             /\ history'[op'[o].base.rev + 1].text = o
    BY DEF TextIsAccepted
  <1>0. op \in [Op -> [status: OpStatus, base: Snapshot]] BY DEF RevisionTypeOK
  <1>1. \A r \in DOMAIN history : r \in DOMAIN history' /\ history'[r] = history[r]
    BY HistoryStep
  <1>2. ASSUME NEW w \in Worker, w[1] = o, Commit(w), w[2] = "accept"
        PROVE  /\ op'[o].status = "accepted" /\ op'[o].base = op[o].base
               /\ op[o].base.rev + 1 \in DOMAIN history'
               /\ history'[op[o].base.rev + 1].text = o
    <2>1. w[2] # "preview" BY <1>2
    <2>2. /\ OpStep(o, "accepted") /\ op[o].base.rev = plan.rev
          /\ [text |-> o, marks |-> op[o].base.body.marks] \in Content
          /\ Write(plan.rev, [text |-> o, marks |-> op[o].base.body.marks], FALSE)
      BY <1>2, <2>1, CommitWrites
    <2>3. plan.rev + 1 \in DOMAIN history'
          /\ history'[plan.rev + 1] = [text |-> o, marks |-> op[o].base.body.marks]
      BY <2>2, WriteArchives
    <2> QED BY <1>0, <2>2, <2>3 DEF OpStep
  <1>3. op[o].status = "accepted" => op'[o] = op[o]
    <2>1. ASSUME NEW w \in Worker, w[1] = o, Commit(w) PROVE op[o].status # "accepted"
      BY <2>1, CommitWrites
    <2> QED BY <2>1, OpMoves DEF Admit, BeginAccept, Reject, Interrupt
  <1>4. ASSUME NEW r \in DOMAIN history', history'[r].text = o
        PROVE  op'[o].status = "accepted"
    <2>1. CASE \E q \in DOMAIN history : history[q].text = o
      BY <1>3, <2>1 DEF TextIsAccepted
    <2>2. CASE \A q \in DOMAIN history : history[q].text # o
      BY <1>2, <1>4, <2>2, TextEnters
    <2> QED BY <2>1, <2>2
  <1>5. ASSUME op'[o].status = "accepted"
        PROVE  /\ op'[o].base.rev + 1 \in DOMAIN history'
               /\ history'[op'[o].base.rev + 1].text = o
    <2>1. CASE op[o].status = "accepted" BY <1>1, <1>3, <2>1 DEF TextIsAccepted
    <2>2. CASE op[o].status # "accepted"
      <3>1. ASSUME Admit(o) \/ BeginAccept(o) \/ Reject(o) \/ Interrupt(o) PROVE FALSE
        BY <1>0, <1>5, <3>1 DEF Admit, BeginAccept, Reject, Interrupt, OpStep
      <3>2. ASSUME NEW status \in Failure, OpStep(o, status) PROVE FALSE
        BY <1>0, <1>5, <3>2 DEF OpStep, Failure
      <3>3. ASSUME NEW w \in Worker, w[1] = o, Commit(w) PROVE w[2] = "accept"
        <4>1. ~OpStep(o, "ready") BY <1>0, <1>5 DEF OpStep
        <4> QED BY <3>3, <4>1, CommitWrites
      <3>4. op'[o] # op[o] BY <1>5, <2>2
      <3>5. \E w \in Worker : w[1] = o /\ Commit(w) BY <3>1, <3>2, <3>4, OpMoves
      <3> QED BY <1>2, <3>3, <3>5
    <2> QED BY <2>1, <2>2
  <1> QED BY <1>4, <1>5

\* What a step does to a trace and its outcome: the commit of its operation
\* writes "committed", and only an unfinished trace gets any other.
LEMMA OutcomeMoves ==
    ASSUME RevisionTypeOK, [Next]_vars, NEW v \in Worker
    PROVE  \/ trace'[v].outcome = trace[v].outcome
                  /\ (trace[v].state = "terminal" => trace'[v] = trace[v])
           \/ /\ trace[v].state \in {"prepared", "claimed"}
              /\ trace'[v].state = "terminal"
              /\ \/ trace'[v].outcome \in {"failed", "interrupted"}
                 \/ trace'[v].outcome = "committed" /\ Commit(v)
  <1>0. DOMAIN trace = Worker BY DEF RevisionTypeOK
  <1>1. CASE UNCHANGED trace BY <1>1
  <1>2. ASSUME NEW w \in Worker, NEW attempt, w # v,
               trace' = [trace EXCEPT ![w] = attempt]
        PROVE  trace'[v] = trace[v]
    BY <1>0, <1>2
  <1>3. ASSUME NEW w \in Worker, StageStep(w)
        PROVE  \/ trace'[v].outcome = trace[v].outcome
                      /\ (trace[v].state = "terminal" => trace'[v] = trace[v])
               \/ /\ trace[v].state \in {"prepared", "claimed"}
                  /\ trace'[v].state = "terminal" /\ trace'[v].outcome = "failed"
    BY <1>3, StageTrace
  <1>4. ASSUME NEW w \in Worker, Commit(w)
        PROVE  \/ trace'[v] = trace[v]
               \/ /\ trace[v].state = "claimed" /\ trace'[v].state = "terminal"
                  /\ trace'[v].outcome = "committed" /\ Commit(v)
    <2>1. trace' = [trace EXCEPT ![w] = Terminal("committed")] /\ Active(w)
      BY <1>4 DEF Commit, Commits
    <2> QED BY <1>0, <1>2, <1>4, <2>1 DEF Active, Terminal
  <1>5. ASSUME NEW w \in Worker, Fail(w)
        PROVE  \/ trace'[v] = trace[v]
               \/ /\ trace[v].state = "claimed" /\ trace'[v].state = "terminal"
                  /\ trace'[v].outcome = "failed"
    <2>1. UNCHANGED trace \/ (Active(w) /\ trace' = [trace EXCEPT ![w] = Terminal("failed")])
      BY <1>5, FailWrites
    <2> QED BY <1>0, <1>2, <2>1 DEF Active, Terminal
  <1>6. ASSUME NEW o \in Op, OpDecision(o)
        PROVE  \/ trace'[v] = trace[v]
               \/ /\ trace[v].state \in {"prepared", "claimed"}
                  /\ trace'[v].state = "terminal" /\ trace'[v].outcome = "interrupted"
    <2>1. CASE UNCHANGED trace BY <2>1
    <2>2. CASE Interrupt(o)
      <3> DEFINE w == <<o, IF op[o].status = "generating" THEN "preview" ELSE "accept">>
      <3>1. w \in Worker BY DEF Worker, Slot
      <3>2. trace' = [trace EXCEPT ![w] = IF trace[w].state \in {"prepared", "claimed"}
                                          THEN Terminal("interrupted") ELSE trace[w]]
        BY <2>2 DEF Interrupt
      <3>3. CASE w # v BY <1>2, <3>1, <3>2, <3>3
      <3>4. CASE w = v
        <4>1. trace'[v] = IF trace[v].state \in {"prepared", "claimed"}
                          THEN Terminal("interrupted") ELSE trace[v]
          BY <1>0, <3>2, <3>4
        <4> QED BY <4>1 DEF Terminal
      <3> QED BY <3>3, <3>4
    <2> QED BY <1>6, <2>1, <2>2 DEF OpDecision, Admit, BeginAccept, Reject
  <1> QED BY <1>1, <1>3, <1>4, <1>5, <1>6, Parties, Frames

LEMMA TraceStep ==
    ASSUME RevisionTypeOK, TraceTells, [Next]_vars
    PROVE  TraceTells'
  <1>0. op \in [Op -> [status: OpStatus, base: Snapshot]] BY DEF RevisionTypeOK
  <1>1. ASSUME NEW w \in Worker, trace'[w].outcome = "committed"
        PROVE  trace'[w].state = "terminal"
    BY <1>1, OutcomeMoves DEF TraceTells
  <1>2. ASSUME NEW o \in Op
        PROVE  (op'[o].status = "accepted") <=> (trace'[<<o, "accept">>].outcome = "committed")
    <2> DEFINE v == <<o, "accept">>
    <2>1. v \in Worker BY DEF Worker, Slot
    <2>2. (op[o].status = "accepted") <=> (trace[v].outcome = "committed")
      BY DEF TraceTells
    <2>3. CASE Commit(v)
      <3>1. op'[o].status = "accepted"
        <4>1. OpStep(o, "accepted") BY <2>1, <2>3, CommitWrites
        <4> QED BY <1>0, <4>1 DEF OpStep
      <3>2. trace'[v].outcome = "committed" BY <2>1, <2>3 DEF Commit, Terminal, RevisionTypeOK
      <3> QED BY <3>1, <3>2
    <2>4. CASE ~Commit(v)
      <3>1. trace[v].outcome = "committed" <=> trace'[v].outcome = "committed"
        BY <2>1, <2>4, OutcomeMoves DEF TraceTells
      <3>2. op[o].status = "accepted" <=> op'[o].status = "accepted"
        <4>1. ASSUME Admit(o) \/ BeginAccept(o) \/ Reject(o) \/ Interrupt(o)
              PROVE  op[o].status # "accepted" /\ op'[o].status # "accepted"
          BY <1>0, <4>1 DEF Admit, BeginAccept, Reject, Interrupt, OpStep
        <4>2. ASSUME NEW status \in Failure, OpStep(o, status)
              PROVE  op'[o].status # "accepted"
          BY <1>0, <4>2 DEF OpStep, Failure
        <4>3. ASSUME NEW w \in Worker, w[1] = o, Commit(w)
              PROVE  op[o].status # "accepted" /\ op'[o].status # "accepted"
          <5>1. w[2] = "preview" BY <2>4, <4>3 DEF Worker, Slot
          <5>2. op[o].status = "generating" /\ OpStep(o, "ready")
            BY <4>3, <5>1, CommitWrites
          <5> QED BY <1>0, <5>2 DEF OpStep
        <4> QED BY <4>1, <4>2, <4>3, OpMoves
      <3> QED BY <2>2, <3>1, <3>2
    <2> QED BY <2>3, <2>4
  <1>3. ASSUME NEW o \in Op,
               op'[o].status \in {"ready", "applying", "accepted", "rejected"}
        PROVE  trace'[<<o, "preview">>].outcome = "committed"
    <2> DEFINE v == <<o, "preview">>
    <2>1. v \in Worker BY DEF Worker, Slot
    <2>2. CASE op[o].status \in {"ready", "applying", "accepted", "rejected"}
      <3>1. trace[v].outcome = "committed" /\ trace[v].state = "terminal"
        BY <2>1, <2>2 DEF TraceTells
      <3> QED BY <2>1, <3>1, OutcomeMoves
    <2>3. CASE op[o].status \notin {"ready", "applying", "accepted", "rejected"}
      <3>1. ~(Admit(o) \/ BeginAccept(o) \/ Reject(o) \/ Interrupt(o))
        BY <1>0, <1>3, <2>3 DEF Admit, BeginAccept, Reject, Interrupt, OpStep
      <3>2. \A status \in Failure : ~OpStep(o, status)
        BY <1>0, <1>3 DEF OpStep, Failure
      <3>3. op'[o] # op[o] BY <1>3, <2>3
      <3>4. PICK w \in Worker : w[1] = o /\ Commit(w) BY <3>1, <3>2, <3>3, OpMoves
      <3>5. w[2] = "preview" BY <2>3, <3>4, CommitWrites
      <3>6. w = v BY <3>4, <3>5 DEF Worker
      <3> QED BY <2>1, <3>4, <3>6 DEF Commit, Terminal, RevisionTypeOK
    <2> QED BY <2>2, <2>3
  <1> QED BY <1>1, <1>2, <1>3 DEF TraceTells

AcceptInv == PlanInv /\ TextIsAccepted /\ TraceTells

LEMMA InitAcceptInv == Init => AcceptInv
  <1> SUFFICES ASSUME Init PROVE AcceptInv OBVIOUS
  <1>1. TextIsAccepted BY NameAssumption DEF Init, TextIsAccepted, NoPlan
  <1>2. TraceTells BY DEF Init, TraceTells, NoTrace, Worker, Slot
  <1> QED BY <1>1, <1>2, InitPlanInv DEF AcceptInv

LEMMA AcceptInvStep == AcceptInv /\ [Next]_vars => AcceptInv'
  BY PlanInvStep, TextStep, TraceStep DEF AcceptInv, PlanInv

LEMMA AcceptFromInv == AcceptInv => AcceptCommitsTogether
  BY DEF AcceptInv, TextIsAccepted, TraceTells, AcceptCommitsTogether

\* A revision's row, its trace and the plan's history tell one story.
THEOREM AcceptIsOneCommit == Spec => []AcceptCommitsTogether
  BY InitAcceptInv, AcceptInvStep, AcceptFromInv, PTL DEF Spec

LEMMA SettledStays ==
  ASSUME RevisionTypeOK, HistoryFollowsPlan, ReadUndecided, [Next]_vars,
         NEW o \in Op, op[o].status \in Settled
  PROVE  op'[o] = op[o]
  <1>1. op[o].status \notin {"none", "generating", "ready", "applying"} BY DEF Settled
  <1>2. ASSUME NEW w \in Worker, w[1] = o, Commit(w) PROVE FALSE
    BY <1>1, <1>2, CommitWrites
  <1> QED BY <1>1, <1>2, OpMoves DEF Admit, BeginAccept, Reject, Interrupt

LEMMA DecisionStays ==
  ASSUME ReadUndecided, [Next]_vars, session.decision # "pending"
  PROVE  session'.decision = session.decision
  <1>1. ASSUME NEW a \in Approver, ApproverStep(a) PROVE UNCHANGED session
    <2>1. ~WriteConfirmation(a) BY DEF WriteConfirmation, ReadUndecided
    <2> QED BY <1>1, <2>1 DEF ApproverStep, ReadConfirmation, LoseConfirmation
  <1>2. Turn => session'.decision = session.decision BY DEF Turn
  <1> QED BY <1>1, <1>2, Parties, Frames

\* What was decided stays decided, whichever worker or approver comes late.
THEOREM DecisionsStay == Spec => DecisionsStand
  <1> DEFINE Stand ==
        /\ \A o \in Op : op[o].status \in Settled => op'[o] = op[o]
        /\ session.decision # "pending" => session'.decision = session.decision
        /\ \A w \in Worker : trace[w].state = "terminal" => trace'[w] = trace[w]
  <1>1. EditInv /\ [Next]_vars => Stand
    <2> SUFFICES ASSUME EditInv, [Next]_vars PROVE Stand OBVIOUS
    <2> USE DEF EditInv, PlanInv
    <2>1. \A o \in Op : op[o].status \in Settled => op'[o] = op[o] BY SettledStays
    <2>2. session.decision # "pending" => session'.decision = session.decision
      BY DecisionStays
    <2>3. ASSUME NEW w \in Worker, trace[w].state = "terminal"
          PROVE  trace'[w] = trace[w]
      BY <2>3, OutcomeMoves
    <2> QED BY <2>1, <2>2, <2>3
  <1>2. EditInv /\ [Next]_vars => [Stand]_vars BY <1>1
  <1> QED BY <1>2, InitEditInv, EditInvStep, PTL DEF Spec, DecisionsStand

=============================================================================
