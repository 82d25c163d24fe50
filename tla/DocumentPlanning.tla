---------------------------- MODULE DocumentPlanning ----------------------------
(***************************************************************************)
(* Learning plans on a document that is being processed and renamed.  A    *)
(* plan is generated from the document its request read, and is stored     *)
(* only while the document is still that one.  It may suggest a revision   *)
(* of the document's study units, which the learner accepts or rejects     *)
(* later, once, against the same document.  One process runs, as on a      *)
(* learner's own machine: what it finds unfinished when it starts is its   *)
(* own.                                                                    *)
(***************************************************************************)
EXTENDS DocumentProcess

CONSTANT Plan    \* requests for a plan, each with its client_request_id

ASSUME PlanningAssumption == \E s \in Server : Server = {s}

VARIABLES
    plan,    \* LearningPlanOperationRow of each request
    made,    \* requests whose LearningPlanRow is stored
    unit,    \* status of StudyUnitRevisionOperationRow of each plan
    at,      \* where the worker of each request is in create_plan
    deciding \* and where the one that accepts the suggestion is in decide

plans == <<plan, made>>
planning == <<plan, made, unit, at, deciding>>
allVars == <<vars, planning>>

-----------------------------------------------------------------------------
(* Rows *)

NotMade == {"not_committed", "interrupted", "uncertain"}

\* base is the document its request read, and with it the debug projection.
PlanRow == [status: {"none", "running", "committed"} \union NotMade,
            base: Document, started: BOOLEAN]

NoPlan == [status |-> "none", base |-> Uploaded, started |-> FALSE]

\* A suggestion has its plan's base as preview.base_document.
Decided == {"accepted", "rejected", "conflict", "failed"}
UnitStatus == {"none", "ready", "applying"} \union Decided

\* "withdraw" marks the end of a prepared output; "lapsed", its worker has left
\* without that mark.
PlanLabel == {"idle", "admit", "prepare", "provider", "built", "commit", "readback",
              "withdraw", "lapsed"} \union NotMade
UnitLabel == {"idle", "apply", "conflict", "failed"}

\* The document and the debug projection are those the request read.
OnBase(p) == doc = plan[p].base /\ debug = plan[p].base.units

Edited == [doc EXCEPT !.revision = doc.revision + 1,
                      !.units = [by |-> doc.units.by, edit |-> doc.units.edit + 1]]

PlanGoto(p, label) == at' = [at EXCEPT ![p] = label]

UnitGoto(p, label) == deciding' = [deciding EXCEPT ![p] = label]

\* What planning leaves alone of document processing.
SameProcess == UNCHANGED <<op, saved, up, pc, job, stream, bounds>>

SameDocument == UNCHANGED <<doc, debug>>

-----------------------------------------------------------------------------
(* Plans *)

PlanningInit ==
    /\ Init
    /\ plan = [p \in Plan |-> NoPlan]
    /\ made = {}
    /\ unit = [p \in Plan |-> "none"]
    /\ at = [p \in Plan |-> "idle"]
    /\ deciding = [p \in Plan |-> "idle"]

\* The route reads the document, whatever its status.
AskPlan(p) ==
    /\ up # {}
    /\ plan[p].status = "none"
    /\ at[p] = "idle"
    /\ plan' = [plan EXCEPT ![p].base = doc]
    /\ PlanGoto(p, "admit")
    /\ UNCHANGED <<made, unit, deciding>> /\ SameDocument /\ SameProcess

\* The unique active slot of the document decides; the document is compared in
\* a read of its own, which may have been before a change.
AdmitPlan(p) ==
    /\ at[p] = "admit"
    /\ \A q \in Plan : plan[q].status # "running"
    /\ plan' = [plan EXCEPT ![p].status = "running"]
    /\ PlanGoto(p, "prepare")
    /\ UNCHANGED <<made, unit, deciding>> /\ SameDocument /\ SameProcess

RefusePlan(p) ==
    /\ at[p] = "admit"
    /\ ~OnBase(p) \/ \E q \in Plan : plan[q].status = "running"
    /\ PlanGoto(p, "idle")
    /\ UNCHANGED <<plans, unit, deciding>> /\ SameDocument /\ SameProcess

\* A document without study units has nothing to plan.
MarkProviderStarted(p) ==
    /\ at[p] = "prepare"
    /\ plan[p].status = "running"
    /\ plan[p].base.units.by # NoOp
    /\ plan' = [plan EXCEPT ![p].started = TRUE]
    /\ PlanGoto(p, "provider")
    /\ UNCHANGED <<made, unit, deciding>> /\ SameDocument /\ SameProcess

Generate(p) ==
    /\ at[p] = "provider"
    /\ PlanGoto(p, "built")
    /\ UNCHANGED <<plans, unit, deciding>> /\ SameDocument /\ SameProcess

\* What each exception is marked as: before the provider and after the
\* candidate nothing was made, between them it depends on what was raised.
RaisePlan(p) ==
    /\ \/ at[p] = "prepare" /\ \E end \in {"not_committed", "interrupted"} : PlanGoto(p, end)
       \/ at[p] = "provider" /\ \E end \in NotMade : PlanGoto(p, end)
       \/ at[p] \in {"built", "commit"} /\ PlanGoto(p, "withdraw")
    /\ UNCHANGED <<plans, unit, deciding>> /\ SameDocument /\ SameProcess

\* commit_success first reads the operation, the document and the debug
\* projection, which nothing holds yet.
CommitReads(p) ==
    /\ at[p] = "built"
    /\ plan[p].status = "running"
    /\ PlanGoto(p, IF OnBase(p) THEN "commit" ELSE "withdraw")
    /\ UNCHANGED <<plans, unit, deciding>> /\ SameDocument /\ SameProcess

Stored(p, suggestion) ==
    /\ plan' = [plan EXCEPT ![p].status = "committed"]
    /\ made' = made \union {p}
    /\ unit' = [unit EXCEPT ![p] = suggestion]
    /\ PlanGoto(p, "readback")

CommitUnfenced(p) ==
    /\ at[p] = "commit"
    /\ \E suggestion \in {"none", "ready"} : Stored(p, suggestion)
    /\ UNCHANGED deciding /\ SameDocument /\ SameProcess

\* Then its first write fences the document's revision, and plan, suggestion
\* and receipt are stored together.
CommitPlan(p) ==
    /\ at[p] = "commit"
    /\ \/ /\ doc.revision = plan[p].base.revision
          /\ \E suggestion \in {"none", "ready"} : Stored(p, suggestion)
       \/ /\ doc.revision # plan[p].base.revision
          /\ PlanGoto(p, "withdraw")
          /\ UNCHANGED <<plans, unit>>
    /\ UNCHANGED deciding /\ SameDocument /\ SameProcess

\* require: a document that changed since the commit makes it raise.
ReadBackPlan(p) ==
    /\ at[p] = "readback"
    /\ PlanGoto(p, IF OnBase(p) THEN "idle" ELSE "not_committed")
    /\ UNCHANGED <<plans, unit, deciding>> /\ SameDocument /\ SameProcess

\* Mutant: any operation is marked.
MarkAnyway(p) ==
    /\ at[p] \in NotMade
    /\ plan' = [plan EXCEPT ![p].status = at[p]]
    /\ PlanGoto(p, "idle")
    /\ UNCHANGED <<made, unit, deciding>> /\ SameDocument /\ SameProcess

\* mark_terminal, on a running operation only.
MarkTerminal(p) ==
    /\ at[p] \in NotMade
    /\ plan' = IF plan[p].status = "running" THEN [plan EXCEPT ![p].status = at[p]] ELSE plan
    /\ PlanGoto(p, "idle")
    /\ UNCHANGED <<made, unit, deciding>> /\ SameDocument /\ SameProcess

\* With a prepared output it writes the end of the trace as well, fenced by the
\* claim of the stage: once that lease has lapsed it raises, and all of it is
\* rolled back.
Withdraw(p) ==
    /\ at[p] = "withdraw"
    /\ \/ plan' = [plan EXCEPT ![p].status = "not_committed"] /\ PlanGoto(p, "idle")
       \/ UNCHANGED plan /\ PlanGoto(p, "lapsed")
    /\ UNCHANGED <<made, unit, deciding>> /\ SameDocument /\ SameProcess

-----------------------------------------------------------------------------
(* The suggested revision of the study units *)

\* begin_accept: of several acceptances one is applied.
BeginAccept(p) ==
    /\ up # {}
    /\ unit[p] = "ready"
    /\ unit' = [unit EXCEPT ![p] = "applying"]
    /\ UnitGoto(p, "apply")
    /\ UNCHANGED <<plans, at>> /\ SameDocument /\ SameProcess

Reject(p) ==
    /\ up # {}
    /\ unit[p] = "ready"
    /\ unit' = [unit EXCEPT ![p] = "rejected"]
    /\ UNCHANGED <<plans, at, deciding>> /\ SameDocument /\ SameProcess

ApplyRevisionOnly(p) ==
    /\ deciding[p] = "apply"
    /\ \/ /\ unit[p] = "applying" /\ doc.revision >= plan[p].base.revision
          /\ doc' = Edited
          /\ debug' = Edited.units
          /\ unit' = [unit EXCEPT ![p] = "accepted"]
          /\ UnitGoto(p, "idle")
       \/ /\ ~(unit[p] = "applying" /\ doc.revision >= plan[p].base.revision)
          /\ UnitGoto(p, "conflict")
          /\ UNCHANGED <<unit, doc, debug>>
    /\ UNCHANGED <<plans, at>> /\ SameProcess

ApplyUnfenced(p) ==
    /\ deciding[p] = "apply"
    /\ \/ /\ OnBase(p)
          /\ doc' = Edited
          /\ debug' = Edited.units
          /\ unit' = [unit EXCEPT ![p] = "accepted"]
          /\ UnitGoto(p, "idle")
       \/ /\ ~OnBase(p)
          /\ UnitGoto(p, "conflict")
          /\ UNCHANGED <<unit, doc, debug>>
    /\ UNCHANGED <<plans, at>> /\ SameProcess

\* commit: fenced by the row that is applying, it compares document and debug
\* projection with the preview's and replaces both, the status kept.
Apply(p) ==
    /\ deciding[p] = "apply"
    /\ \/ /\ unit[p] = "applying" /\ OnBase(p)
          /\ doc' = Edited
          /\ debug' = Edited.units
          /\ unit' = [unit EXCEPT ![p] = "accepted"]
          /\ UnitGoto(p, "idle")
       \/ /\ ~(unit[p] = "applying" /\ OnBase(p))
          /\ UnitGoto(p, "conflict")
          /\ UNCHANGED <<unit, doc, debug>>
    /\ UNCHANGED <<plans, at>> /\ SameProcess

\* The harness raises before the commit.
RaiseUnit(p) ==
    /\ deciding[p] = "apply"
    /\ UnitGoto(p, "failed")
    /\ UNCHANGED <<plans, unit, at>> /\ SameDocument /\ SameProcess

\* fail, in a transaction of its own: only what is still applying.
Fail(p) ==
    /\ deciding[p] \in {"conflict", "failed"}
    /\ unit' = IF unit[p] = "applying" THEN [unit EXCEPT ![p] = deciding[p]] ELSE unit
    /\ UnitGoto(p, "idle")
    /\ UNCHANGED <<plans, at>> /\ SameDocument /\ SameProcess

\* A reader after 240 seconds, which a slow worker may take as well.
RecoverUnit(p) ==
    /\ up # {}
    /\ unit[p] = "applying"
    /\ unit' = [unit EXCEPT ![p] = "failed"]
    /\ UNCHANGED <<plans, at, deciding>> /\ SameDocument /\ SameProcess

-----------------------------------------------------------------------------
(* The process *)

RecoveredBeforeProvider(row) ==
    IF row.status # "running" \/ row.started THEN row
    ELSE [row EXCEPT !.status = "not_committed"]

\* recover_abandoned of the plans, after that of the documents.
Recovered(row) ==
    IF row.status # "running" THEN row
    ELSE [row EXCEPT !.status = IF row.started THEN "uncertain" ELSE "not_committed"]

Restart(s) ==
    /\ Start(s)
    /\ plan' = [p \in Plan |-> Recovered(plan[p])]
    /\ UNCHANGED <<made, unit, at, deciding>>

Die(s) ==
    /\ Crash(s)
    /\ at' = [p \in Plan |-> "idle"]
    /\ deciding' = [p \in Plan |-> "idle"]
    /\ UNCHANGED <<plans, unit>>

\* What the worker of a request may do next.
PlanStep(p) ==
    \/ AdmitPlan(p) \/ RefusePlan(p)
    \/ MarkProviderStarted(p) \/ Generate(p) \/ RaisePlan(p)
    \/ CommitReads(p) \/ CommitPlan(p) \/ ReadBackPlan(p)
    \/ MarkTerminal(p) \/ Withdraw(p)

UnitStep(p) == Apply(p) \/ RaiseUnit(p) \/ Fail(p)

PlanningNext ==
    \/ Work /\ UNCHANGED planning
    \/ \E p \in Plan :
        \/ AskPlan(p)
        \/ PlanStep(p)
        \/ BeginAccept(p) \/ Reject(p)
        \/ UnitStep(p)
        \/ RecoverUnit(p)
    \/ \E s \in Server : Die(s) \/ Restart(s)

PlanningSpec == PlanningInit /\ [][PlanningNext]_allVars

-----------------------------------------------------------------------------
(* Properties *)

\* The rows keep their shape and say the same: a plan is stored exactly when its
\* operation says so, whatever a read-back, a cancel or a restart did after the
\* commit, and a suggestion has a plan.
ReceiptHasPlan ==
    /\ plan \in [Plan -> PlanRow]
    /\ unit \in [Plan -> UnitStatus]
    /\ at \in [Plan -> PlanLabel]
    /\ deciding \in [Plan -> UnitLabel]
    /\ \A p \in Plan :
        /\ p \in made <=> plan[p].status = "committed"
        /\ unit[p] # "none" => p \in made

\* A plan is stored on the very document it was generated from, however the
\* document was processed, restored or renamed meanwhile.
PlanFitsDocument == [][\A p \in made' \ made : OnBase(p)]_allVars

\* A suggestion is applied to the very study units it was shown with: of
\* suggestions on one document, no two are.
AppliedOncePerBase ==
    \A p, q \in Plan :
        unit[p] = "accepted" /\ unit[q] = "accepted" /\ p # q
            => plan[p].base.revision # plan[q].base.revision

\* What was decided stays: a late worker or reader changes neither a suggestion
\* that was rejected, given up or accepted, nor a plan's outcome.
DecisionsStay ==
    [][\A p \in Plan :
        /\ unit[p] \in Decided => unit'[p] = unit[p]
        /\ plan[p].status \in NotMade \union {"committed"} =>
              plan'[p].status = plan[p].status]_allVars

\* The document's slot is never lost without a trace: the plan in it is the only
\* one that runs, and has its worker, or a process that starts will end it.  But
\* one whose lease lapsed after the provider's answer keeps the slot till then.
NoPlanStranded ==
    \A p \in Plan : plan[p].status = "running" =>
        /\ up = {} \/ at[p] \notin {"idle", "admit", "readback"}
        /\ at[p] = "lapsed" => plan[p].started
        /\ \A q \in Plan : plan[q].status = "running" => q = p

\* "cleanup or projection failure records not_committed and returns the
\* Document to a durable non-processing state" (docs/api-reference.md): no
\* document is in processing without an operation that runs.
FailureFreesDocument == doc.status = "processing" => ~NoneActive
=============================================================================
