------------------------- MODULE DocumentPlanningProofs -------------------------
(***************************************************************************)
(* Proofs about learning plans on one document, for every number of plans  *)
(* and operations.  The document is the clock: each step that changes it   *)
(* or its debug projection is one revision more (DocumentMoves), so what   *)
(* was read at a revision still holds while the revision is that one.      *)
(***************************************************************************)
EXTENDS DocumentPlanning, DocumentProcessProofs

USE PlanningAssumption DEF PlanningAssumption

\* The worker has gone to the provider, and is not done with what came back.
Asked == {"provider", "built", "commit", "withdraw", "lapsed"}

USE DEF Asked

\* Where the worker of a request is, its row is; and a worker about to commit
\* read a document that is still there, or has moved on.
Stage(p) ==
    /\ at[p] = "admit" => plan[p].status = "none"
    /\ at[p] \in {"prepare"} \union Asked => plan[p].status = "running"
    /\ at[p] \in Asked => plan[p].started
    /\ at[p] = "readback" => plan[p].status = "committed"
    /\ at[p] \in NotMade => plan[p].status \in {"running", "committed"}
    /\ at[p] = "commit" =>
          /\ plan[p].base.revision <= doc.revision
          /\ plan[p].base.revision = doc.revision => OnBase(p)

\* A suggestion that was applied moved the document on from its base.
Applied(p) == unit[p] = "accepted" => plan[p].base.revision < doc.revision

\* The workers of requests die with the process.
Alone == up = {} => \A p \in Plan : at[p] = "idle"

Planned ==
    /\ ReceiptHasPlan
    /\ NoPlanStranded
    /\ AppliedOncePerBase
    /\ Alone
    /\ made \subseteq Plan
    /\ \A p \in Plan : Stage(p) /\ Applied(p)

-----------------------------------------------------------------------------
(* The document under planning *)

LEMMA OneServer == \A s, t \in Server : s = t
OBVIOUS

LEMMA SameTyped == ASSUME TypeInv, SameDocument, SameProcess PROVE TypeInv'
BY DEF SameDocument, SameProcess, stream, bounds, TypeInv, Shaped, Located

LEMMA EditedTyped ==
  ASSUME TypeInv
  PROVE  /\ Edited \in Document /\ Edited.units \in Units
         /\ Edited.revision = doc.revision + 1
<1>1. doc \in Document /\ doc.revision + 1 \in Nat /\ doc.units \in Units
  BY DEF TypeInv, Shaped, Document
<1>2. [by |-> doc.units.by, edit |-> doc.units.edit + 1] \in Units
  BY <1>1 DEF Units
<1>. QED
  BY <1>1, <1>2 DEF Edited, Document

\* Everything a plan's worker does but applying a suggestion.
Quiet(p) ==
    \/ AskPlan(p) \/ PlanStep(p) \/ BeginAccept(p) \/ Reject(p)
    \/ RaiseUnit(p) \/ Fail(p) \/ RecoverUnit(p)

LEMMA QuietKeeps ==
  ASSUME NEW p \in Plan, Quiet(p)
  PROVE  SameDocument /\ SameProcess
BY DEF Quiet, AskPlan, PlanStep, AdmitPlan, RefusePlan, MarkProviderStarted, Generate, RaisePlan,
   CommitReads, CommitPlan, ReadBackPlan, MarkTerminal, Withdraw, BeginAccept, Reject, RaiseUnit, Fail,
   RecoverUnit

LEMMA ApplyKeeps ==
  ASSUME NEW p \in Plan, Apply(p)
  PROVE  /\ SameProcess /\ UNCHANGED <<plan, made, at>>
         /\ \/ /\ unit[p] = "applying" /\ OnBase(p) /\ doc' = Edited /\ debug' = Edited.units
               /\ unit' = [unit EXCEPT ![p] = "accepted"]
            \/ SameDocument /\ unit' = unit
BY DEF Apply, SameDocument, plans

\* Ending, committing, admitting and renaming move the document on.
LEMMA RowsMove ==
  ASSUME TypeInv, RowStep
  PROVE  SameDocument \/ doc'.revision = doc.revision + 1
<1>0. doc \in Document /\ doc.revision \in Nat /\ op \in [Op -> Row]
      /\ \A o \in Op : op[o].base.revision \in Nat
  BY DEF TypeInv, Shaped, Document, Row
<1>1. ASSUME NEW s \in Server, NEW o \in Op, Admit(s, o) PROVE doc'.revision = doc.revision + 1
  BY <1>0, <1>1 DEF Admit, ProcessingDocument, Document
<1>2. ASSUME NEW s \in Server, CommitSuccess(s) PROVE doc'.revision = doc.revision + 1
  <2>1. job[s].op \in Op
    BY <1>2 DEF CommitSuccess, TypeInv, Located, Executing, Working
  <2>. QED
    BY <1>0, <1>2, <2>1 DEF CommitSuccess, CanPublish, ProcessedDocument
<1>3. ASSUME NEW o \in Op, NEW status \in {"failed", "interrupted"}, Ends(o, status)
      PROVE  SameDocument \/ doc'.revision = doc.revision + 1
  <2>1. CASE Holds(o)
    <3>1. doc' = RestoredDocument(o, status) /\ doc.revision = op[o].base.revision + 1
      BY <1>3, <2>1 DEF Ends, Holds
    <3>. QED
      BY <1>0, <3>1 DEF RestoredDocument
  <2>2. CASE ~Holds(o)
    BY <1>3, <2>2 DEF Ends, SameDocument
  <2>. QED
    BY <2>1, <2>2
<1>4. CASE Rename
  BY <1>0, <1>4 DEF Rename, Document
<1>5. CASE UNCHANGED <<doc, debug, op>>
  BY <1>5 DEF SameDocument
<1>. QED
  BY <1>1, <1>2, <1>3, <1>4, <1>5 DEF RowStep

LEMMA StartMoves ==
  ASSUME TypeInv, NEW s \in Server, Start(s)
  PROVE  SameDocument \/ doc'.revision = doc.revision + 1
<1>1. CASE \E o \in Op : Running(o) /\ Holds(o)
  <2>1. PICK o \in Op : Holds(o) /\ doc' = RestoredDocument(o, "failed")
    BY <1>1 DEF Start
  <2>2. op[o].base.revision \in Nat
    BY DEF TypeInv, Shaped, Document, Row
  <2>. QED
    BY <2>1, <2>2 DEF Holds, RestoredDocument
<1>2. CASE ~\E o \in Op : Running(o) /\ Holds(o)
  BY <1>2 DEF Start, SameDocument
<1>. QED
  BY <1>1, <1>2

\* Who takes a step: the processing of the document, a plan's worker, or the
\* process.
LEMMA PlanningSteps ==
  ASSUME [PlanningNext]_allVars
  PROVE  \/ Work /\ UNCHANGED planning
         \/ UNCHANGED allVars
         \/ \E p \in Plan : Quiet(p) \/ Apply(p)
         \/ \E s \in Server : Die(s) \/ Restart(s)
BY DEF PlanningNext, UnitStep, Quiet

LEMMA DocumentMoves ==
  ASSUME TypeInv, [PlanningNext]_allVars
  PROVE  TypeInv' /\ (SameDocument \/ doc'.revision = doc.revision + 1)
<1>1. CASE Work
  BY <1>1, WorkTyped, WorkRows, RowsMove
<1>2. CASE UNCHANGED allVars
  BY <1>2, TypeInvStep DEF allVars, vars, store, SameDocument
<1>3. ASSUME NEW p \in Plan, Quiet(p)
      PROVE  TypeInv' /\ (SameDocument \/ doc'.revision = doc.revision + 1)
  BY <1>3, QuietKeeps, SameTyped
<1>4. ASSUME NEW p \in Plan, Apply(p)
      PROVE  TypeInv' /\ (SameDocument \/ doc'.revision = doc.revision + 1)
  <2>1. CASE SameDocument
    BY <1>4, <2>1, ApplyKeeps, SameTyped
  <2>2. CASE doc' = Edited /\ debug' = Edited.units
    <3>1. TypeInv'
      BY <1>4, <2>2, ApplyKeeps, EditedTyped DEF SameProcess, stream, bounds, TypeInv, Shaped, Located
    <3>. QED
      BY <2>2, <3>1, EditedTyped
  <2>. QED
    BY <1>4, <2>1, <2>2, ApplyKeeps
<1>5. ASSUME NEW s \in Server, Die(s)
      PROVE  TypeInv' /\ (SameDocument \/ doc'.revision = doc.revision + 1)
  BY <1>5, CrashTyped DEF Die, Crash, store, SameDocument
<1>6. ASSUME NEW s \in Server, Restart(s)
      PROVE  TypeInv' /\ (SameDocument \/ doc'.revision = doc.revision + 1)
  BY <1>6, StartTyped, StartMoves DEF Restart
<1>. QED
  BY <1>1, <1>2, <1>3, <1>4, <1>5, <1>6, PlanningSteps

-----------------------------------------------------------------------------
(* One request's turn *)

\* What the worker of p, or whoever decides on its suggestion, may do to the
\* rows and to itself.
Touches(p) ==
    /\ plan' \in [Plan -> PlanRow]
    /\ unit' \in [Plan -> UnitStatus]
    /\ at' \in [Plan -> PlanLabel]
    /\ deciding' \in [Plan -> UnitLabel]
    /\ made \subseteq made' /\ made' \subseteq made \union {p}
    /\ \A q \in Plan \ {p} :
          plan'[q] = plan[q] /\ unit'[q] = unit[q] /\ at'[q] = at[q]

\* What a row p says afterwards is true, and no decision about it is undone.
Tells(p) ==
    /\ p \in made' <=> plan'[p].status = "committed"
    /\ unit'[p] # "none" => p \in made'
    /\ p \in made' /\ p \notin made => OnBase(p)
    /\ unit[p] \in Decided => unit'[p] = unit[p]
    /\ plan[p].status \in NotMade \union {"committed"} => plan'[p].status = plan[p].status
    /\ unit'[p] = "accepted" =>
          /\ plan'[p].base = plan[p].base
          /\ unit[p] = "accepted" \/ (OnBase(p) /\ doc'.revision = doc.revision + 1)

\* Where p's worker is afterwards, its row is, and the slot has room for it.
Places(p) ==
    /\ up # {} \/ at' = at
    /\ at'[p] = "admit" => plan'[p].status = "none"
    /\ at'[p] \in {"prepare"} \union Asked => plan'[p].status = "running"
    /\ at'[p] \in Asked => plan'[p].started
    /\ at'[p] = "readback" => plan'[p].status = "committed"
    /\ at'[p] \in NotMade => plan'[p].status \in {"running", "committed"}
    /\ at'[p] = "commit" =>
          /\ plan'[p].base = plan[p].base
          /\ at[p] = "commit" \/ OnBase(p)
    /\ plan'[p].status = "running" =>
          /\ up = {} \/ at'[p] \notin {"idle", "admit", "readback"}
          /\ \A q \in Plan : plan[q].status = "running" => q = p

Turn(p) == Touches(p) /\ Tells(p) /\ Places(p)

\* What the rows say before a turn.
LEMMA BeforeTurn ==
  ASSUME TypeInv, Planned, NEW p \in Plan
  PROVE  /\ plan[p] \in PlanRow /\ plan \in [Plan -> PlanRow] /\ unit \in [Plan -> UnitStatus]
         /\ at \in [Plan -> PlanLabel] /\ deciding \in [Plan -> UnitLabel]
         /\ plan[p].base \in Document /\ plan[p].base.revision \in Nat
         /\ doc \in Document /\ doc.revision \in Nat
         /\ p \in made <=> plan[p].status = "committed"
         /\ unit[p] # "none" => p \in made
         /\ plan[p].status = "running" =>
              /\ up = {} \/ at[p] \notin {"idle", "admit", "readback"}
              /\ \A q \in Plan : plan[q].status = "running" => q = p
         /\ at[p] # "idle" => up # {}
         /\ Stage(p)
BY DEF Planned, ReceiptHasPlan, NoPlanStranded, Alone, PlanRow, Document, TypeInv, Shaped

LEMMA AskTurn == ASSUME TypeInv, Planned, NEW p \in Plan, AskPlan(p) PROVE Turn(p)
<1>1. plan' \in [Plan -> PlanRow] /\ at' \in [Plan -> PlanLabel]
  <2>1. [plan[p] EXCEPT !.base = doc] \in PlanRow
    BY BeforeTurn DEF PlanRow
  <2>. QED
    BY <2>1, BeforeTurn DEF AskPlan, PlanGoto, PlanLabel
<1>2. plan'[p].status = "none" /\ at'[p] = "admit" /\ unit'[p] = "none" /\ p \notin made
  BY BeforeTurn DEF AskPlan, PlanGoto, PlanRow
<1>. QED
  BY <1>1, <1>2, BeforeTurn DEF Turn, Touches, Tells, Places, AskPlan, PlanGoto, Decided, NotMade

\* A step of the worker that only changes the status of its row.
Marks(p, status, label) ==
    /\ plan' = [plan EXCEPT ![p].status = status]
    /\ at' = [at EXCEPT ![p] = label]

LEMMA Marked ==
  ASSUME TypeInv, Planned, NEW p \in Plan,
         NEW status \in {"none", "running", "committed"} \union NotMade, NEW label \in PlanLabel,
         Marks(p, status, label)
  PROVE  /\ plan' \in [Plan -> PlanRow] /\ at' \in [Plan -> PlanLabel]
         /\ plan'[p].status = status /\ plan'[p].base = plan[p].base /\ at'[p] = label
         /\ plan'[p].started = plan[p].started
         /\ \A q \in Plan \ {p} : plan'[q] = plan[q] /\ at'[q] = at[q]
<1>1. [plan[p] EXCEPT !.status = status] \in PlanRow
  BY BeforeTurn DEF PlanRow
<1>2. plan'[p] = [plan[p] EXCEPT !.status = status]
  BY BeforeTurn DEF Marks
<1>3. plan'[p].status = status /\ plan'[p].base = plan[p].base /\ plan'[p].started = plan[p].started
  BY <1>2, BeforeTurn DEF PlanRow
<1>. QED
  BY <1>1, <1>3, BeforeTurn DEF Marks

\* A step of the worker that leaves every row alone.
LEMMA Moved ==
  ASSUME TypeInv, Planned, NEW p \in Plan, NEW label \in PlanLabel,
         UNCHANGED <<plan, made, unit, deciding>>, at' = [at EXCEPT ![p] = label],
         at[p] # "idle", label # "admit",
         label \in {"prepare"} \union Asked => plan[p].status = "running",
         label \in Asked => plan[p].started,
         label = "readback" => plan[p].status = "committed",
         label \in NotMade => plan[p].status \in {"running", "committed"},
         label = "commit" => OnBase(p),
         label = "idle" => plan[p].status # "running"
  PROVE  Turn(p)
<1>1. Touches(p)
  BY BeforeTurn DEF Touches
<1>2. Tells(p)
  BY BeforeTurn DEF Tells
<1>3. Places(p)
  BY BeforeTurn DEF Places
<1>. QED
  BY <1>1, <1>2, <1>3 DEF Turn

LEMMA AdmitTurn == ASSUME TypeInv, Planned, NEW p \in Plan, AdmitPlan(p) PROVE Turn(p)
<1>1. Marks(p, "running", "prepare")
  BY DEF AdmitPlan, PlanGoto, Marks
<1>2. at[p] = "admit" /\ plan[p].status = "none" /\ p \notin made /\ unit[p] = "none" /\ up # {}
  BY BeforeTurn DEF AdmitPlan, Stage
<1>3. /\ plan' \in [Plan -> PlanRow] /\ at' \in [Plan -> PlanLabel]
      /\ plan'[p].status = "running" /\ plan'[p].base = plan[p].base /\ at'[p] = "prepare"
      /\ \A q \in Plan \ {p} : plan'[q] = plan[q] /\ at'[q] = at[q]
  BY <1>1, Marked DEF PlanLabel
<1>4. Touches(p)
  BY <1>3, BeforeTurn DEF Touches, AdmitPlan
<1>5. Tells(p)
  BY <1>2, <1>3, BeforeTurn DEF Tells, AdmitPlan, NotMade, Decided
<1>6. Places(p)
  BY <1>2, <1>3 DEF Places, AdmitPlan, NotMade
<1>. QED
  BY <1>4, <1>5, <1>6 DEF Turn

LEMMA StartedTurn == ASSUME TypeInv, Planned, NEW p \in Plan, MarkProviderStarted(p) PROVE Turn(p)
<1>1. [plan[p] EXCEPT !.started = TRUE] \in PlanRow
  BY BeforeTurn DEF PlanRow
<1>2. plan'[p] = [plan[p] EXCEPT !.started = TRUE]
  BY BeforeTurn DEF MarkProviderStarted
<1>3. plan'[p].status = plan[p].status /\ plan'[p].base = plan[p].base /\ plan'[p].started
  BY <1>2, BeforeTurn DEF PlanRow
<1>4. /\ plan' \in [Plan -> PlanRow] /\ at' \in [Plan -> PlanLabel] /\ at'[p] = "provider"
      /\ \A q \in Plan \ {p} : plan'[q] = plan[q] /\ at'[q] = at[q]
  BY <1>1, BeforeTurn DEF MarkProviderStarted, PlanGoto, PlanLabel
<1>5. at[p] = "prepare" /\ plan[p].status = "running" /\ up # {}
  BY BeforeTurn DEF MarkProviderStarted
<1>. QED
  BY <1>3, <1>4, <1>5, BeforeTurn DEF Turn, Touches, Tells, Places, MarkProviderStarted, NotMade, Decided

LEMMA CommitTurn == ASSUME TypeInv, Planned, NEW p \in Plan, CommitPlan(p) PROVE Turn(p)
<1>0. /\ at[p] = "commit" /\ plan[p].status = "running" /\ p \notin made /\ unit[p] = "none"
      /\ plan[p].started
      /\ up # {} /\ deciding' = deciding
  BY BeforeTurn DEF CommitPlan, Stage
<1>1. ASSUME doc.revision = plan[p].base.revision, NEW suggestion \in {"none", "ready"},
             Stored(p, suggestion)
      PROVE  Turn(p)
  <2>1. Marks(p, "committed", "readback")
    BY <1>1 DEF Stored, PlanGoto, Marks
  <2>2. OnBase(p)
    BY <1>0, <1>1, BeforeTurn DEF Stage
  <2>3. unit' \in [Plan -> UnitStatus] /\ unit'[p] = suggestion
        /\ \A q \in Plan \ {p} : unit'[q] = unit[q]
    BY <1>1, BeforeTurn DEF Stored, UnitStatus
  <2>4. made' = made \union {p}
    BY <1>1 DEF Stored
  <2>. QED
    BY <1>0, <2>1, <2>2, <2>3, <2>4, Marked, BeforeTurn
    DEF Turn, Touches, Tells, Places, PlanLabel, NotMade, Decided
<1>2. CASE PlanGoto(p, "withdraw") /\ UNCHANGED <<plans, unit>>
  BY <1>0, <1>2, Moved DEF PlanGoto, plans, PlanLabel, NotMade
<1>. QED
  BY <1>1, <1>2 DEF CommitPlan

LEMMA EndTurn == ASSUME TypeInv, Planned, NEW p \in Plan, MarkTerminal(p) PROVE Turn(p)
<1>0. at[p] \in NotMade /\ plan[p].status \in {"running", "committed"} /\ up # {}
  BY BeforeTurn DEF MarkTerminal, Stage, NotMade
<1>1. CASE plan[p].status = "running"
  <2>1. Marks(p, at[p], "idle")
    BY <1>1 DEF MarkTerminal, PlanGoto, Marks
  <2>2. p \notin made /\ unit[p] = "none" /\ at[p] # "committed"
    BY <1>0, <1>1, BeforeTurn DEF NotMade
  <2>3. /\ plan' \in [Plan -> PlanRow] /\ at' \in [Plan -> PlanLabel]
        /\ plan'[p].status = at[p] /\ plan'[p].base = plan[p].base /\ at'[p] = "idle"
        /\ \A q \in Plan \ {p} : plan'[q] = plan[q] /\ at'[q] = at[q]
    <3>1. at[p] \in {"none", "running", "committed"} \union NotMade /\ "idle" \in PlanLabel
      BY <1>0 DEF PlanLabel
    <3>. QED
      BY <2>1, <3>1, Marked
  <2>4. Touches(p)
    BY <2>3, BeforeTurn DEF Touches, MarkTerminal
  <2>5. Tells(p)
    BY <1>1, <2>2, <2>3 DEF Tells, MarkTerminal, NotMade, Decided
  <2>6. Places(p)
    BY <1>0, <2>3 DEF Places, NotMade
  <2>. QED
    BY <2>4, <2>5, <2>6 DEF Turn
<1>2. CASE plan[p].status # "running"
  BY <1>0, <1>2, Moved DEF MarkTerminal, PlanGoto, PlanLabel, NotMade
<1>. QED
  BY <1>1, <1>2

LEMMA WithdrawTurn == ASSUME TypeInv, Planned, NEW p \in Plan, Withdraw(p) PROVE Turn(p)
<1>0. /\ at[p] = "withdraw" /\ plan[p].status = "running" /\ p \notin made /\ unit[p] = "none"
      /\ plan[p].started /\ up # {}
  BY BeforeTurn DEF Withdraw, Stage, Asked
<1>1. CASE plan' = [plan EXCEPT ![p].status = "not_committed"] /\ PlanGoto(p, "idle")
  <2>1. Marks(p, "not_committed", "idle")
    BY <1>1 DEF PlanGoto, Marks
  <2>2. /\ plan' \in [Plan -> PlanRow] /\ at' \in [Plan -> PlanLabel]
        /\ plan'[p].status = "not_committed" /\ plan'[p].base = plan[p].base /\ at'[p] = "idle"
        /\ \A q \in Plan \ {p} : plan'[q] = plan[q] /\ at'[q] = at[q]
    BY <2>1, Marked DEF PlanLabel, NotMade
  <2>3. Touches(p)
    BY <2>2, BeforeTurn DEF Touches, Withdraw
  <2>4. Tells(p)
    BY <1>0, <2>2 DEF Tells, Withdraw, NotMade, Decided
  <2>5. Places(p)
    BY <1>0, <2>2 DEF Places, NotMade, Asked
  <2>. QED
    BY <2>3, <2>4, <2>5 DEF Turn
<1>2. CASE UNCHANGED plan /\ PlanGoto(p, "lapsed")
  BY <1>0, <1>2, Moved DEF Withdraw, PlanGoto, PlanLabel, NotMade, Asked
<1>. QED
  BY <1>1, <1>2 DEF Withdraw

LEMMA WorkerTurn == ASSUME TypeInv, Planned, NEW p \in Plan, PlanStep(p) PROVE Turn(p)
<1>. USE DEF PlanGoto, plans, Stage, Asked
<1>1. CASE RefusePlan(p)
  BY <1>1, BeforeTurn, Moved DEF RefusePlan, PlanLabel, NotMade
<1>2. CASE Generate(p)
  BY <1>2, BeforeTurn, Moved DEF Generate, PlanLabel, NotMade
<1>3. CASE RaisePlan(p)
  <2>1. PICK end \in NotMade \union {"withdraw"} :
          /\ at[p] \in {"prepare", "provider", "built", "commit"} /\ PlanGoto(p, end)
          /\ end = "withdraw" => at[p] \in {"built", "commit"}
    BY <1>3 DEF RaisePlan, NotMade
  <2>. QED
    BY <1>3, <2>1, BeforeTurn, Moved DEF RaisePlan, PlanLabel, NotMade
<1>4. CASE CommitReads(p)
  BY <1>4, BeforeTurn, Moved DEF CommitReads, PlanLabel, NotMade
<1>5. CASE ReadBackPlan(p)
  BY <1>5, BeforeTurn, Moved DEF ReadBackPlan, PlanLabel, NotMade
<1>. QED
  BY <1>1, <1>2, <1>3, <1>4, <1>5, AdmitTurn, StartedTurn, CommitTurn, EndTurn, WithdrawTurn DEF PlanStep

\* Whoever decides leaves the plan and its worker alone.
LEMMA Decides ==
  ASSUME TypeInv, Planned, NEW p \in Plan, NEW status \in UnitStatus, NEW label \in UnitLabel,
         UNCHANGED <<plan, made, at>>,
         unit' = [unit EXCEPT ![p] = status], deciding' = [deciding EXCEPT ![p] = label],
         unit[p] \in Decided => status = unit[p],
         p \in made \/ status = unit[p],
         status = "accepted" =>
            unit[p] = "accepted" \/ (OnBase(p) /\ doc'.revision = doc.revision + 1)
  PROVE  Turn(p)
<1>1. Touches(p)
  BY BeforeTurn DEF Touches
<1>2. Tells(p)
  BY BeforeTurn DEF Tells
<1>3. Places(p)
  BY BeforeTurn DEF Places, Stage
<1>. QED
  BY <1>1, <1>2, <1>3 DEF Turn

LEMMA QuietTurn == ASSUME TypeInv, Planned, NEW p \in Plan, Quiet(p) PROVE Turn(p)
<1>0. /\ unit = [unit EXCEPT ![p] = unit[p]] /\ deciding = [deciding EXCEPT ![p] = deciding[p]]
      /\ unit[p] \in UnitStatus /\ deciding[p] \in UnitLabel
  BY BeforeTurn
<1>. USE DEF UnitGoto, plans, UnitStatus, Decided
<1>1. CASE BeginAccept(p)
  BY <1>0, <1>1, BeforeTurn, Decides DEF BeginAccept, UnitLabel
<1>2. CASE Reject(p)
  BY <1>0, <1>2, BeforeTurn, Decides DEF Reject
<1>3. CASE RaiseUnit(p)
  BY <1>0, <1>3, BeforeTurn, Decides DEF RaiseUnit, UnitLabel
<1>4. CASE Fail(p)
  <2>1. CASE unit[p] = "applying"
    BY <1>0, <1>4, <2>1, BeforeTurn, Decides DEF Fail, UnitLabel
  <2>2. CASE unit[p] # "applying"
    BY <1>0, <1>4, <2>2, BeforeTurn, Decides DEF Fail, UnitLabel
  <2>. QED
    BY <2>1, <2>2
<1>5. CASE RecoverUnit(p)
  BY <1>0, <1>5, BeforeTurn, Decides DEF RecoverUnit
<1>. QED
  BY <1>1, <1>2, <1>3, <1>4, <1>5, AskTurn, WorkerTurn DEF Quiet

LEMMA ApplyTurn == ASSUME TypeInv, Planned, NEW p \in Plan, Apply(p) PROVE Turn(p)
<1>0. /\ unit = [unit EXCEPT ![p] = unit[p]]
      /\ unit[p] \in UnitStatus /\ UNCHANGED <<plan, made, at>>
  BY BeforeTurn, ApplyKeeps
<1>1. CASE unit[p] = "applying" /\ OnBase(p) /\ doc' = Edited /\ unit' = [unit EXCEPT ![p] = "accepted"]
           /\ UnitGoto(p, "idle")
  BY <1>0, <1>1, BeforeTurn, EditedTyped, Decides DEF UnitGoto, UnitStatus, UnitLabel, Decided
<1>2. CASE unit' = unit /\ UnitGoto(p, "conflict")
  BY <1>0, <1>2, BeforeTurn, Decides DEF UnitGoto, UnitLabel
<1>. QED
  BY <1>1, <1>2 DEF Apply

-----------------------------------------------------------------------------
(* Plans stay in step *)

LEMMA WorkAlone == ASSUME Work PROVE up' = up
<1>1. ASSUME NEW s \in Server, Step(s) PROVE up' = up
  BY <1>1 DEF Step, Snapshot, Admit, AdmitRefused, OpenCheckpoint, ReuseOutput, ReuseReport,
     BeginParsing, ParsePage, SaveReport, BuildUnits, Prepare, NoticeCancel, CommitSuccess,
     CommitRefused, ReadBack, MarkFailed, MarkInterrupted, MarkNotCommitted, MarkRolledBack,
     ReadChild, ClaimTerminal, Tell
<1>. QED
  BY <1>1 DEF Work, Rename, Ask, Cancel, Raise

\* A process that dies or starts changes a plan's row only to end it.
Closed(p) ==
    /\ plan'[p] = plan[p] \/ plan'[p] = Recovered(plan[p])
    /\ plan'[p].base = plan[p].base
    /\ plan'[p].status = "running" => plan[p].status = "running"
    /\ plan[p].status # "running" => plan'[p].status = plan[p].status
    /\ plan'[p].status = "committed" <=> plan[p].status = "committed"

LEMMA RecoveredTyped ==
  ASSUME NEW row \in PlanRow
  PROVE  /\ Recovered(row) \in PlanRow /\ Recovered(row).base = row.base
         /\ row.status # "running" => Recovered(row) = row
         /\ row.status = "running" => Recovered(row).status \in NotMade
         /\ Recovered(row).status # "running"
<1>1. CASE row.status # "running"
  BY <1>1 DEF Recovered
<1>2. CASE row.status = "running"
  <2>. DEFINE end == IF row.started THEN "uncertain" ELSE "not_committed"
  <2>1. Recovered(row) = [row EXCEPT !.status = end]
    BY <1>2 DEF Recovered
  <2>2. end \in NotMade /\ end \in {"none", "running", "committed"} \union NotMade /\ end # "running"
    BY DEF NotMade
  <2>. HIDE DEF end
  <2>. QED
    BY <1>2, <2>1, <2>2 DEF PlanRow
<1>. QED
  BY <1>1, <1>2

LEMMA InitPlanned == PlanningInit => TypeInv /\ Planned
<1> SUFFICES ASSUME PlanningInit PROVE TypeInv /\ Planned
  OBVIOUS
<1>1. TypeInv
  BY InitTypeInv DEF PlanningInit
<1>2. NoPlan \in PlanRow /\ NoPlan.status = "none"
  BY NullsTyped DEF NoPlan, PlanRow
<1>3. ReceiptHasPlan
  BY <1>2 DEF PlanningInit, ReceiptHasPlan, UnitStatus, PlanLabel, UnitLabel
<1>4. NoPlanStranded /\ Alone /\ AppliedOncePerBase
  BY <1>2 DEF PlanningInit, NoPlanStranded, Alone, AppliedOncePerBase
<1>5. ASSUME NEW p \in Plan PROVE Stage(p) /\ Applied(p)
  BY DEF PlanningInit, Stage, Applied, NotMade
<1>. QED
  BY <1>1, <1>3, <1>4, <1>5 DEF Planned, PlanningInit

\* The document after a step is the one before, or a later one.
Later == SameDocument \/ doc'.revision = doc.revision + 1

\* A worker's reading outlives what happens to the document meanwhile.
LEMMA StillThere ==
  ASSUME TypeInv, Later, NEW p \in Plan, plan[p].base.revision \in Nat,
         plan'[p].base = plan[p].base,
         plan[p].base.revision <= doc.revision,
         plan[p].base.revision = doc.revision => OnBase(p)
  PROVE  /\ plan'[p].base.revision <= doc'.revision
         /\ plan'[p].base.revision = doc'.revision => OnBase(p)'
<1>1. doc.revision \in Nat
  BY DEF TypeInv, Shaped, Document
<1>2. CASE SameDocument
  BY <1>2 DEF SameDocument, OnBase
<1>3. CASE doc'.revision = doc.revision + 1
  BY <1>1, <1>3
<1>. QED
  BY <1>2, <1>3 DEF Later

LEMMA TurnKeeps ==
  ASSUME TypeInv, Planned, Later, up' = up, NEW p \in Plan, Turn(p)
  PROVE  Planned'
<1>. USE DEF Turn
<1>1. ReceiptHasPlan'
  BY DEF Planned, ReceiptHasPlan, Touches, Tells
<1>2. NoPlanStranded'
  <2>1. ASSUME NEW q \in Plan, plan'[q].status = "running"
        PROVE  /\ up = {} \/ at'[q] \notin {"idle", "admit", "readback"}
               /\ \A r \in Plan : plan'[r].status = "running" => r = q
    BY <2>1 DEF Planned, NoPlanStranded, Touches, Places
  <2>2. ASSUME NEW q \in Plan, plan'[q].status = "running", at'[q] = "lapsed" PROVE plan'[q].started
    BY <2>2 DEF Planned, Stage, Touches, Places
  <2>. QED
    BY <2>1, <2>2 DEF NoPlanStranded
<1>3. Alone' /\ (made \subseteq Plan)'
  BY DEF Planned, Alone, Touches, Places
<1>4. ASSUME NEW q \in Plan PROVE Stage(q)'
  <2>1. ASSUME at'[q] = "commit"
        PROVE  /\ plan'[q].base.revision <= doc'.revision
               /\ plan'[q].base.revision = doc'.revision => OnBase(q)'
    <3>1. plan'[q].base = plan[q].base
      BY <2>1 DEF Touches, Places
    <3>2. at[q] = "commit" \/ OnBase(q)
      BY <2>1 DEF Touches, Places
    <3>3. /\ plan[q].base.revision <= doc.revision
          /\ plan[q].base.revision = doc.revision => OnBase(q)
      BY <3>2, BeforeTurn DEF Stage, OnBase
    <3>. QED
      BY <3>1, <3>3, StillThere, BeforeTurn
  <2>2. CASE q = p
    BY <2>1, <2>2 DEF Stage, Places
  <2>3. CASE q # p
    BY <2>1, <2>3 DEF Stage, Touches, Planned
  <2>. QED
    BY <2>2, <2>3
<1>5. ASSUME NEW q \in Plan PROVE Applied(q)'
  <2>. SUFFICES ASSUME unit'[q] = "accepted" PROVE plan'[q].base.revision < doc'.revision
    BY DEF Applied
  <2>1. plan'[q].base = plan[q].base
    BY DEF Touches, Tells
  <2>2. CASE unit[q] = "accepted"
    BY <2>1, <2>2, BeforeTurn DEF Planned, Applied, Later, SameDocument
  <2>3. CASE OnBase(q) /\ doc'.revision = doc.revision + 1
    BY <2>1, <2>3, BeforeTurn DEF OnBase
  <2>. QED
    BY <2>2, <2>3 DEF Touches, Tells
<1>6. AppliedOncePerBase'
  <2>. SUFFICES ASSUME NEW q \in Plan, NEW r \in Plan, q # r, unit'[q] = "accepted", unit'[r] = "accepted"
               PROVE  plan'[q].base.revision # plan'[r].base.revision
    BY DEF AppliedOncePerBase
  <2>1. plan'[q].base = plan[q].base /\ plan'[r].base = plan[r].base
    BY DEF Touches, Tells
  <2>2. CASE unit[q] = "accepted" /\ unit[r] = "accepted"
    BY <2>1, <2>2 DEF Planned, AppliedOncePerBase
  <2>3. CASE unit[q] # "accepted" /\ unit[r] = "accepted"
    <3>1. OnBase(q)
      BY <2>3 DEF Touches, Tells
    <3>. QED
      BY <2>1, <2>3, <3>1, BeforeTurn DEF OnBase, Planned, Applied
  <2>4. CASE unit[q] = "accepted" /\ unit[r] # "accepted"
    <3>1. OnBase(r)
      BY <2>4 DEF Touches, Tells
    <3>. QED
      BY <2>1, <2>4, <3>1, BeforeTurn DEF OnBase, Planned, Applied
  <2>. QED
    BY <2>2, <2>3, <2>4 DEF Touches
<1>. QED
  BY <1>1, <1>2, <1>3, <1>4, <1>5, <1>6 DEF Planned

\* A process dies or starts, or the document is processed.
Elsewhere ==
    /\ plan' \in [Plan -> PlanRow]
    /\ \A p \in Plan : Closed(p)
    /\ UNCHANGED <<made, unit>>
    /\ at' \in [Plan -> PlanLabel] /\ deciding' \in [Plan -> UnitLabel]
    /\ \A p \in Plan : at'[p] = "idle" \/ (at'[p] = at[p] /\ plan' = plan)
    /\ \/ up' = {} /\ \A p \in Plan : at'[p] = "idle"
       \/ up' # {} /\ \A p \in Plan : plan'[p].status # "running"
       \/ up' = up /\ at' = at

LEMMA ElsewhereKeeps ==
  ASSUME TypeInv, Planned, Later, Elsewhere
  PROVE  Planned'
<1>. USE DEF Elsewhere
<1>1. ReceiptHasPlan'
  BY DEF Planned, ReceiptHasPlan, Closed
<1>2. NoPlanStranded'
  BY DEF Planned, NoPlanStranded, Closed
<1>3. Alone' /\ (made \subseteq Plan)'
  <2>1. CASE up' # {} /\ \A p \in Plan : plan'[p].status # "running"
    BY <2>1 DEF Planned, Alone
  <2>. QED
    BY <2>1 DEF Planned, Alone
<1>4. ASSUME NEW p \in Plan PROVE Stage(p)'
  <2>1. CASE at'[p] = "idle"
    BY <2>1 DEF Stage, NotMade
  <2>2. CASE at'[p] = at[p] /\ plan' = plan
    BY <2>2, BeforeTurn, StillThere DEF Stage
  <2>. QED
    BY <2>1, <2>2
<1>5. ASSUME NEW p \in Plan PROVE Applied(p)'
  BY BeforeTurn DEF Planned, Applied, Later, SameDocument, Closed
<1>6. AppliedOncePerBase'
  BY DEF Planned, AppliedOncePerBase, Closed
<1>. QED
  BY <1>1, <1>2, <1>3, <1>4, <1>5, <1>6 DEF Planned

LEMMA DieElsewhere == ASSUME TypeInv, Planned, NEW s \in Server, Die(s) PROVE Elsewhere
<1>1. up' = {}
  BY DEF Die, Crash, TypeInv, Shaped
<1>. QED
  BY <1>1 DEF Die, plans, Elsewhere, Planned, ReceiptHasPlan, Closed, PlanLabel, UnitLabel

LEMMA RestartElsewhere == ASSUME TypeInv, Planned, NEW s \in Server, Restart(s) PROVE Elsewhere
<1>1. up = {} /\ up' # {}
  BY DEF Restart, Start, TypeInv, Shaped
<1>2. \A p \in Plan : at'[p] = "idle"
  BY <1>1 DEF Restart, Planned, Alone
<1>3. ASSUME NEW p \in Plan PROVE Closed(p) /\ plan'[p] \in PlanRow /\ plan'[p].status # "running"
  BY RecoveredTyped DEF Restart, Planned, ReceiptHasPlan, Closed, NotMade
<1>4. plan' \in [Plan -> PlanRow]
  BY <1>3 DEF Restart
<1>. QED
  BY <1>1, <1>2, <1>3, <1>4 DEF Restart, Elsewhere, Planned, ReceiptHasPlan

LEMMA QuietUp == ASSUME NEW p \in Plan, Quiet(p) \/ Apply(p) PROVE up' = up
BY QuietKeeps, ApplyKeeps DEF SameProcess

\* A step is one request's turn, or happens elsewhere.
LEMMA TurnOrElsewhere ==
  ASSUME TypeInv, Planned, [PlanningNext]_allVars
  PROVE  Elsewhere \/ \E p \in Plan : Turn(p) /\ up' = up
<1>1. CASE Work /\ UNCHANGED planning
  BY <1>1, WorkAlone DEF planning, Elsewhere, Planned, ReceiptHasPlan, Closed
<1>2. CASE UNCHANGED allVars
  BY <1>2 DEF allVars, vars, planning, Elsewhere, Planned, ReceiptHasPlan, Closed
<1>. QED
  BY <1>1, <1>2, PlanningSteps, QuietTurn, ApplyTurn, QuietUp, DieElsewhere, RestartElsewhere

LEMMA PlannedStep ==
  ASSUME TypeInv, Planned, [PlanningNext]_allVars
  PROVE  TypeInv' /\ Planned'
<1>1. TypeInv' /\ Later
  BY DocumentMoves DEF Later
<1>. QED
  BY <1>1, TurnOrElsewhere, TurnKeeps, ElsewhereKeeps

LEMMA PlannedAlways == PlanningSpec => [](TypeInv /\ Planned)
BY InitPlanned, PlannedStep, PTL DEF PlanningSpec

-----------------------------------------------------------------------------
(* Theorems *)

\* Whatever deaths, restarts and late workers did, a stored plan and the row of
\* its request say the same, and a suggestion has a plan: commit_success stores
\* the three together, and mark_terminal and recover_abandoned pass over it.
THEOREM ReceiptsHavePlans == PlanningSpec => []ReceiptHasPlan
<1>1. TypeInv /\ Planned => ReceiptHasPlan
  BY DEF Planned
<1>. QED
  BY <1>1, PlannedAlways, PTL

\* The document's slot for a running plan is held by one worker that will leave
\* it, or by a dead one whose process ends it when it starts.
THEOREM SlotIsFreed == PlanningSpec => []NoPlanStranded
<1>1. TypeInv /\ Planned => NoPlanStranded
  BY DEF Planned
<1>. QED
  BY <1>1, PlannedAlways, PTL

\* Of the suggestions made on one revision of a document at most one is
\* accepted: accepting it moves the document on.
THEOREM OneSuggestionPerBase == PlanningSpec => []AppliedOncePerBase
<1>1. TypeInv /\ Planned => AppliedOncePerBase
  BY DEF Planned
<1>. QED
  BY <1>1, PlannedAlways, PTL

\* commit_success stores a plan only on the document its request read, although
\* it fences no more than the revision.
THEOREM PlansFit == PlanningSpec => PlanFitsDocument
<1>1. TypeInv /\ Planned /\ [PlanningNext]_allVars => [\A p \in made' \ made : OnBase(p)]_allVars
  <2> SUFFICES ASSUME TypeInv, Planned, [PlanningNext]_allVars, NEW p \in made' \ made PROVE OnBase(p)
    OBVIOUS
  <2>. QED
    BY TurnOrElsewhere DEF Elsewhere, Turn, Touches, Tells
<1>. QED
  BY <1>1, PlannedAlways, PTL DEF PlanningSpec, PlanFitsDocument

\* No late worker, reader or restart changes a decision about a suggestion or a
\* plan's outcome.
THEOREM DecisionsAreFinal == PlanningSpec => DecisionsStay
<1>. DEFINE Stays(p) ==
       /\ unit[p] \in Decided => unit'[p] = unit[p]
       /\ plan[p].status \in NotMade \union {"committed"} => plan'[p].status = plan[p].status
<1>1. TypeInv /\ Planned /\ [PlanningNext]_allVars => [\A p \in Plan : Stays(p)]_allVars
  <2> SUFFICES ASSUME TypeInv, Planned, [PlanningNext]_allVars, NEW p \in Plan PROVE Stays(p)
    OBVIOUS
  <2>1. CASE Elsewhere
    BY <2>1 DEF Elsewhere, Closed, NotMade
  <2>2. CASE \E q \in Plan : Turn(q)
    BY <2>2 DEF Turn, Touches, Tells
  <2>. QED
    BY <2>1, <2>2, TurnOrElsewhere
<1>. QED
  BY <1>1, PlannedAlways, PTL DEF PlanningSpec, DecisionsStay
=============================================================================
