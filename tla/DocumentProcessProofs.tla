-------------------------- MODULE DocumentProcessProofs --------------------------
(***************************************************************************)
(* Proofs about the processing of a document, for every number of          *)
(* operations, processes, pages, streams, renames and deaths.  Two facts   *)
(* carry them: a step changes the rows in one of four ways, or not at all  *)
(* (RowWrites), and each operation that runs has one worker (OneWorker).   *)
(***************************************************************************)
EXTENDS DocumentProcess, SequenceTheorems, TLAPS

USE DocumentAssumption DEF DocumentAssumption

\* Where a worker has an operation: its own, or the child it answers with.
Executing == {"open", "fail", "interrupt"} \union Working

Located ==
    \A s \in Server :
        /\ pc[s] \in Executing \union {"child"} => job[s].op \in Op
        /\ pc[s] = "snapshot" => job[s].source \in Op

TypeInv == Shaped /\ Located

-----------------------------------------------------------------------------
(* The shapes of rows and locals *)

LEMMA NullsTyped ==
  /\ NoRow \in Row /\ NoCheckpoint \in Checkpoint /\ Nothing \in Terminal
  /\ Uploaded \in Document /\ Known \in Document /\ NoUnits \in Units
  /\ NoCheckpoint.pages = <<>> /\ NoCheckpoint.size = 0
<1>1. NoUnits \in Units /\ Uploaded \in Document /\ Known \in Document
  BY DEF NoUnits, Units, Uploaded, Known, Document
<1>2. NoCheckpoint \in Checkpoint /\ NoCheckpoint.pages = <<>> /\ NoCheckpoint.size = 0
  BY DEF NoCheckpoint, Checkpoint, Verdict
<1>3. NoRow \in Row /\ Nothing \in Terminal
  BY <1>1 DEF NoRow, Row, Nothing, Terminal
<1>. QED
  BY <1>1, <1>2, <1>3

LEMMA RequestTyped ==
  ASSUME NEW source \in Op \union {NoOp}, NEW forced \in BOOLEAN
  PROVE  Request(source, forced) \in Job /\ Request(source, forced).source = source
<1>1. NoCheckpoint \in Checkpoint
  BY NullsTyped
<1>. QED
  BY <1>1 DEF Request, Job, Verdict

LEMMA RequestIsNew ==
  ASSUME NEW source \in Op \union {NoOp}, NEW forced \in BOOLEAN
  PROVE  /\ Request(source, forced).op = NoOp /\ Request(source, forced).outcome = ""
         /\ Request(source, forced).done = <<>>
BY DEF Request

LEMMA RequestKnowsNothing ==
  ASSUME NEW source \in Op \union {NoOp}, NEW forced \in BOOLEAN
  PROVE  ~Request(source, forced).known
BY DEF Request

LEMMA JobWrites ==
  ASSUME NEW j \in Job
  PROVE  /\ \A o \in Op : [j EXCEPT !.op = o] \in Job
         /\ \A o \in Op : [j EXCEPT !.op = o, !.known = TRUE] \in Job
         /\ \A c \in Checkpoint : [j EXCEPT !.restored = c] \in Job
         /\ \A b \in BOOLEAN : [j EXCEPT !.known = b] \in Job
         /\ \A r \in Verdict : [j EXCEPT !.report = r] \in Job
         /\ \A r \in Verdict, b \in BOOLEAN : [j EXCEPT !.report = r, !.prepared = b] \in Job
         /\ \A b \in BOOLEAN : [j EXCEPT !.prepared = b] \in Job
         /\ \A q \in Quality : [j EXCEPT !.done = Append(j.done, q)] \in Job
         /\ \A out \in {"", "returned", "interrupted", "raised", "cancelled"} :
               [j EXCEPT !.outcome = out] \in Job
<1>1. ASSUME NEW q \in Quality PROVE [j EXCEPT !.done = Append(j.done, q)] \in Job
  <2>1. Append(j.done, q) \in Seq(Quality)
    <3>1. j.done \in Seq(Quality)
      BY DEF Job
    <3>. QED
      BY <3>1, AppendProperties
  <2>. QED
    BY <2>1 DEF Job
<1>2. \A o \in Op : [j EXCEPT !.op = o] \in Job /\ [j EXCEPT !.op = o, !.known = TRUE] \in Job
  BY DEF Job
<1>3. \A c \in Checkpoint : [j EXCEPT !.restored = c] \in Job
  BY DEF Job
<1>4. \A b \in BOOLEAN : [j EXCEPT !.known = b] \in Job
  BY DEF Job
<1>5. /\ \A r \in Verdict : [j EXCEPT !.report = r] \in Job
      /\ \A r \in Verdict, b \in BOOLEAN : [j EXCEPT !.report = r, !.prepared = b] \in Job
      /\ \A b \in BOOLEAN : [j EXCEPT !.prepared = b] \in Job
  BY DEF Job
<1>6. \A out \in {"", "returned", "interrupted", "raised", "cancelled"} :
          [j EXCEPT !.outcome = out] \in Job
  BY DEF Job
<1>. QED
  BY <1>1, <1>2, <1>3, <1>4, <1>5, <1>6

LEMMA DocumentWrites ==
  ASSUME Shaped
  PROVE  /\ ProcessingDocument \in Document
         /\ \A o \in Op, status \in {"failed", "interrupted"} : RestoredDocument(o, status) \in Document
         /\ \A o \in Op : ProcessedDocument(o) \in Document
<1>1. doc \in Document /\ \A o \in Op : op[o].base \in Document
  BY DEF Shaped, Row
<1>2. ProcessingDocument \in Document
  <2>1. doc.revision + 1 \in Nat
    BY <1>1 DEF Document
  <2>. QED
    BY <1>1, <2>1 DEF ProcessingDocument, Document
<1>3. ASSUME NEW o \in Op, NEW status \in {"failed", "interrupted"}
      PROVE  RestoredDocument(o, status) \in Document
  <2>1. op[o].base \in Document /\ op[o].base.revision + 2 \in Nat
    BY <1>1 DEF Document
  <2>. QED
    BY <2>1 DEF RestoredDocument, Document
<1>4. ASSUME NEW o \in Op PROVE ProcessedDocument(o) \in Document
  BY <1>1 DEF ProcessedDocument, Document, Units
<1>. QED
  BY <1>2, <1>3, <1>4

LEMMA RowShapes ==
  ASSUME Shaped
  PROVE  /\ \A source \in Op \union {NoOp}, forced \in BOOLEAN : AdmittedRow(source, forced) \in Row
         /\ \A o \in Op, status \in {"failed", "interrupted"} : EndedRow(o, status) \in Row
         /\ \A o \in Op : CommittedRow(o) \in Row
<1>1. doc \in Document /\ Uploaded \in Document /\ \A o \in Op : op[o] \in Row
  BY NullsTyped DEF Shaped
<1>2. ASSUME NEW source \in Op \union {NoOp}, NEW forced \in BOOLEAN
      PROVE  AdmittedRow(source, forced) \in Row
  BY <1>1 DEF AdmittedRow, Row
<1>3. ASSUME NEW o \in Op, NEW status \in {"failed", "interrupted"} PROVE EndedRow(o, status) \in Row
  BY <1>1 DEF EndedRow, Row, Ended
<1>4. ASSUME NEW o \in Op PROVE CommittedRow(o) \in Row
  <2>1. ProcessedDocument(o) \in Document
    BY DocumentWrites
  <2>. QED
    BY <1>1, <2>1 DEF CommittedRow, Row, Ended
<1>. QED
  BY <1>2, <1>3, <1>4

-----------------------------------------------------------------------------
(* The checkpoint's operators *)

LEMMA OpenedTyped ==
  /\ OpenedCheckpoint \in Checkpoint
  /\ OpenedCheckpoint.pages = <<>> /\ OpenedCheckpoint.size = 0 /\ OpenedCheckpoint.report = "none"
BY NullsTyped DEF OpenedCheckpoint, NoCheckpoint, Checkpoint

\* A page is appended, or nothing but the limit changes.
LEMMA PageSaved ==
  ASSUME NEW c \in Checkpoint, NEW q \in Quality
  PROVE  /\ WithPage(c, q) \in Checkpoint
         /\ \/ WithPage(c, q) = [c EXCEPT !.limited = TRUE]
            \/ WithPage(c, q) = [c EXCEPT !.pages = Append(c.pages, q)]
               /\ Len(c.pages) + c.size + 1 <= Capacity
<1>1. Append(c.pages, q) \in Seq(Quality)
  <2>1. c.pages \in Seq(Quality)
    BY DEF Checkpoint
  <2>. QED
    BY <2>1, AppendProperties
<1>2. CASE c.limited \/ Len(c.pages) + c.size + 1 > Capacity
  <2>1. WithPage(c, q) = [c EXCEPT !.limited = TRUE]
    BY <1>2 DEF WithPage
  <2>. QED
    BY <2>1 DEF Checkpoint
<1>3. CASE ~(c.limited \/ Len(c.pages) + c.size + 1 > Capacity)
  <2>1. WithPage(c, q) = [c EXCEPT !.pages = Append(c.pages, q)]
    BY <1>3 DEF WithPage
  <2>2. Len(c.pages) \in Nat /\ c.size \in Nat
    BY DEF Checkpoint
  <2>3. Len(c.pages) + c.size + 1 <= Capacity
    BY <1>3, <2>2
  <2>4. [c EXCEPT !.pages = Append(c.pages, q)] \in Checkpoint
    BY <1>1 DEF Checkpoint
  <2>. QED
    BY <2>1, <2>3, <2>4
<1>. QED
  BY <1>2, <1>3

\* A stage is saved with the pages, or in their place when it makes them
\* obsolete, or not at all; and in both cases within the budget.
LEMMA StageSaved ==
  ASSUME NEW c \in Checkpoint, NEW forced \in BOOLEAN, NEW report \in Verdict,
         NEW output \in BOOLEAN, NEW size \in Nat
  PROVE  /\ WithStage(c, forced, report, output, size) \in Checkpoint
         /\ \/ /\ WithStage(c, forced, report, output, size) = Staged(c, c.pages, report, output, size)
               /\ Len(c.pages) + size <= Capacity
            \/ /\ WithStage(c, forced, report, output, size) = Staged(c, <<>>, report, output, size)
               /\ Reusable(forced, report) /\ size <= Capacity
            \/ WithStage(c, forced, report, output, size) = [c EXCEPT !.limited = TRUE]
<1>1. ASSUME NEW p \in Seq(Quality) PROVE Staged(c, p, report, output, size) \in Checkpoint
  BY DEF Staged, Checkpoint
<1>2. c.pages \in Seq(Quality) /\ <<>> \in Seq(Quality)
  BY DEF Checkpoint
<1>3. [c EXCEPT !.limited = TRUE] \in Checkpoint
  BY DEF Checkpoint
<1>. QED
  BY <1>1, <1>2, <1>3 DEF WithStage

LEMMA RestoredTyped ==
  ASSUME NEW c \in Checkpoint, NEW forced \in BOOLEAN
  PROVE  /\ Restored(c, forced) \in Checkpoint
         /\ Restored(c, forced).report \in Verdict /\ Restored(c, forced).size \in Nat
         /\ Restored(c, forced).output \in BOOLEAN
         /\ Restored(c, forced).report = "none" \/ Reusable(forced, Restored(c, forced).report)
BY DEF Restored, Checkpoint, Verdict, Reusable, Usable

\* A write of the checkpoint: one running operation's, or none.
LEMMA SaveTyped ==
  ASSUME Shaped, NEW s \in Server, NEW label \in Label, job[s].op \in Op, NEW c \in Checkpoint,
         Save(s, c, label)
  PROVE  /\ saved' \in [Op -> Checkpoint]
         /\ pc' \in [Server -> Label]
         /\ pc'[s] \in {label, "fail"}
         /\ \A t \in Server \ {s} : pc'[t] = pc[t]
<1>1. pc' = [pc EXCEPT ![s] = label] \/ pc' = [pc EXCEPT ![s] = "fail"]
  BY DEF Save, Goto
<1>2. "fail" \in Label
  BY DEF Label
<1>3. saved' = saved \/ saved' = [saved EXCEPT ![job[s].op] = c]
  BY DEF Save
<1>. QED
  BY <1>1, <1>2, <1>3 DEF Shaped

-----------------------------------------------------------------------------
(* The type invariant *)

\* Everything but the worker of one stream keeps its place.
LEMMA Moves ==
  ASSUME TypeInv, NEW s \in Server, NEW label \in Label, NEW j \in Job,
         pc' = [pc EXCEPT ![s] = label], job' = [job EXCEPT ![s] = j],
         label \in Executing \union {"child"} => j.op \in Op,
         label = "snapshot" => j.source \in Op
  PROVE  pc' \in [Server -> Label] /\ job' \in [Server -> Job] /\ Located'
BY DEF TypeInv, Shaped, Located

\* The same, of a worker whose locals stay.
LEMMA MovesOn ==
  ASSUME TypeInv, NEW s \in Server, NEW label \in Label,
         pc' = [pc EXCEPT ![s] = label], job' = job,
         label \in Executing \union {"child"} => job[s].op \in Op, label # "snapshot"
  PROVE  pc' \in [Server -> Label] /\ job' \in [Server -> Job] /\ Located'
BY DEF TypeInv, Shaped, Located

LEMMA Saves ==
  ASSUME TypeInv, NEW s \in Server, NEW label \in Working, NEW c \in Checkpoint, NEW j \in Job,
         job[s].op \in Op, j.op = job[s].op, Save(s, c, label), job' = [job EXCEPT ![s] = j],
         UNCHANGED <<doc, debug, op, up, stream, bounds>>
  PROVE  TypeInv'
<1>1. label \in Label
  BY DEF Label
<1>2. /\ saved' \in [Op -> Checkpoint]
      /\ pc' \in [Server -> Label]
      /\ pc'[s] \in {label, "fail"}
      /\ \A t \in Server \ {s} : pc'[t] = pc[t]
  BY <1>1, SaveTyped DEF TypeInv
<1>3. job' \in [Server -> Job] /\ Located'
  BY <1>2 DEF TypeInv, Shaped, Located, Executing, Working
<1>. QED
  BY <1>2, <1>3 DEF TypeInv, Shaped, stream, bounds

LEMMA InitTypeInv == Init => TypeInv
<1> SUFFICES ASSUME Init PROVE TypeInv
  OBVIOUS
<1>1. /\ NoRow \in Row /\ NoCheckpoint \in Checkpoint /\ Nothing \in Terminal
      /\ Uploaded \in Document /\ Known \in Document
  BY NullsTyped
<1>2. NoJob \in Job
  BY RequestTyped DEF NoJob
<1>3. doc \in Document /\ debug \in Units
  BY <1>1 DEF Init, Document
<1>4. /\ op \in [Op -> Row] /\ saved \in [Op -> Checkpoint] /\ told \in [Server -> Terminal]
      /\ job \in [Server -> Job]
  BY <1>1, <1>2 DEF Init
<1>5. pc \in [Server -> Label] /\ \A s \in Server : pc[s] = "idle"
  BY DEF Init, Label
<1>8. up \subseteq Server /\ cancelled \subseteq Server /\ asks \in Nat /\ renames \in Nat
      /\ crashes \in Nat
  BY DEF Init
<1>9. Located
  BY <1>5 DEF Located, Executing, Working
<1>. QED
  BY <1>3, <1>4, <1>5, <1>8, <1>9 DEF TypeInv, Shaped

LEMMA RenameTyped == ASSUME TypeInv, Rename PROVE TypeInv'
<1>1. doc.revision + 1 \in Nat /\ doc.units \in Units /\ doc.units.edit + 1 \in Nat
      /\ debug.edit + 1 \in Nat /\ renames + 1 \in Nat
  BY DEF TypeInv, Shaped, Document, Units
<1>2. [by |-> doc.units.by, edit |-> doc.units.edit + 1] \in Units
      /\ [by |-> debug.by, edit |-> debug.edit + 1] \in Units
  BY <1>1 DEF TypeInv, Shaped, Units
<1>3. doc' \in Document /\ debug' \in Units
  BY <1>1, <1>2 DEF TypeInv, Shaped, Rename, Document
<1>4. UNCHANGED <<op, saved, up, pc, job, cancelled, told, asks, crashes>> /\ renames' \in Nat
  BY <1>1 DEF Rename, stream
<1>. QED
  BY <1>3, <1>4 DEF TypeInv, Shaped, Located

LEMMA AskTyped ==
  ASSUME TypeInv, NEW s \in Server, NEW source \in Op \union {NoOp}, NEW forced \in Forced,
         Ask(s, source, forced)
  PROVE  TypeInv'
<1>1. forced \in BOOLEAN
  OBVIOUS
<1>2. Request(source, forced) \in Job /\ Request(source, forced).source = source
  BY <1>1, RequestTyped
<1>3. pc' \in [Server -> Label] /\ job' \in [Server -> Job] /\ Located'
  <2>1. CASE source = NoOp
    <3>1. pc' = [pc EXCEPT ![s] = "admit"] /\ job' = [job EXCEPT ![s] = Request(source, forced)]
      BY <2>1 DEF Ask, Goto
    <3>. QED
      BY <1>2, <3>1, Moves DEF Label, Executing, Working
  <2>2. CASE source # NoOp
    <3>1. pc' = [pc EXCEPT ![s] = "snapshot"] /\ job' = [job EXCEPT ![s] = Request(source, forced)]
      BY <2>2 DEF Ask, Goto
    <3>. QED
      BY <1>2, <2>2, <3>1, Moves DEF Label, Executing, Working
  <2>. QED
    BY <2>1, <2>2
<1>4. /\ told' \in [Server -> Terminal] /\ cancelled' \subseteq Server /\ asks' \in Nat
      /\ UNCHANGED <<doc, debug, op, saved, up, renames, crashes>>
  BY NullsTyped DEF Ask, TypeInv, Shaped, store
<1>. QED
  BY <1>3, <1>4 DEF TypeInv, Shaped

LEMMA CancelTyped == ASSUME TypeInv, NEW s \in Server, Cancel(s) PROVE TypeInv'
BY DEF Cancel, TypeInv, Shaped, Located, store, bounds

LEMMA CrashTyped == ASSUME TypeInv, NEW s \in Server, Crash(s) PROVE TypeInv'
<1>1. NoJob \in Job
  BY RequestTyped DEF NoJob
<1>2. pc' = [pc EXCEPT ![s] = "idle"] /\ job' = [job EXCEPT ![s] = NoJob]
  BY DEF Crash, Goto
<1>3. pc' \in [Server -> Label] /\ job' \in [Server -> Job] /\ Located'
  BY <1>1, <1>2, Moves DEF Label, Executing, Working
<1>4. /\ UNCHANGED <<doc, debug, op, saved, cancelled, told, asks, renames>>
      /\ up' \subseteq Server /\ crashes' \in Nat
  BY DEF Crash, store, TypeInv, Shaped
<1>. QED
  BY <1>3, <1>4 DEF TypeInv, Shaped

LEMMA StartTyped == ASSUME TypeInv, NEW s \in Server, Start(s) PROVE TypeInv'
<1>1. op' \in [Op -> Row]
  <2>1. \A o \in Op : EndedRow(o, "failed") \in Row /\ op[o] \in Row
    BY RowShapes DEF TypeInv, Shaped
  <2>. QED
    BY <2>1 DEF Start
<1>2. doc' \in Document
  <2>1. CASE \E o \in Op : Running(o) /\ Holds(o)
    <3>1. PICK o \in Op : doc' = RestoredDocument(o, "failed")
      BY <2>1 DEF Start
    <3>. QED
      BY <3>1, DocumentWrites DEF TypeInv
  <2>2. CASE ~\E o \in Op : Running(o) /\ Holds(o)
    BY <2>2 DEF Start, TypeInv, Shaped
  <2>. QED
    BY <2>1, <2>2
<1>3. UNCHANGED <<debug, saved, pc, job, cancelled, told, asks, renames, crashes>>
      /\ up' \subseteq Server
  BY DEF Start, stream, bounds, TypeInv, Shaped
<1>. QED
  BY <1>1, <1>2, <1>3 DEF TypeInv, Shaped, Located

LEMMA SnapshotTyped == ASSUME TypeInv, NEW s \in Server, Snapshot(s) PROVE TypeInv'
<1> DEFINE r == job[s].source
<1>0. job[s] \in Job /\ r \in Op /\ saved[r] \in Checkpoint
  BY DEF Snapshot, TypeInv, Shaped, Located
<1>1. pc' \in [Server -> Label] /\ job' \in [Server -> Job] /\ Located'
  <2>1. CASE ~saved[r].open \/ op[r].forced # job[s].forced
    <3>1. pc' = [pc EXCEPT ![s] = "answer"]
          /\ job' = [job EXCEPT ![s] = [job[s] EXCEPT !.outcome = "raised"]]
      BY <2>1 DEF Snapshot, Answer, Goto
    <3>2. [job[s] EXCEPT !.outcome = "raised"] \in Job
      BY <1>0, JobWrites
    <3>. QED
      BY <3>1, <3>2, Moves DEF Label, Executing, Working
  <2>2. CASE HasChild(r) /\ ~(~saved[r].open \/ op[r].forced # job[s].forced)
    <3>1. pc' = [pc EXCEPT ![s] = "child"]
          /\ job' = [job EXCEPT ![s] = [job[s] EXCEPT !.op = ChildOf(r), !.known = TRUE]]
      BY <2>2 DEF Snapshot, Goto
    <3>2. ChildOf(r) \in Op
      BY <2>2 DEF HasChild, ChildOf
    <3>3. [job[s] EXCEPT !.op = ChildOf(r), !.known = TRUE] \in Job
      BY <1>0, <3>2, JobWrites
    <3>4. [job[s] EXCEPT !.op = ChildOf(r), !.known = TRUE].op = ChildOf(r)
      BY <1>0 DEF Job
    <3>. QED
      BY <3>1, <3>2, <3>3, <3>4, Moves DEF Label, Executing, Working
  <2>3. CASE ~HasChild(r) /\ ~(~saved[r].open \/ op[r].forced # job[s].forced)
    <3>1. pc' = [pc EXCEPT ![s] = "admit"]
          /\ job' = [job EXCEPT ![s] = [job[s] EXCEPT !.restored = saved[r]]]
      BY <2>3 DEF Snapshot, Goto
    <3>2. [job[s] EXCEPT !.restored = saved[r]] \in Job
      BY <1>0, JobWrites
    <3>. QED
      BY <3>1, <3>2, Moves DEF Label, Executing, Working
  <2>. QED
    BY <2>1, <2>2, <2>3
<1>2. UNCHANGED <<doc, debug, op, saved, up, cancelled, told, asks, renames, crashes>>
  BY DEF Snapshot, store, stream, bounds
<1>. QED
  BY <1>1, <1>2 DEF TypeInv, Shaped

LEMMA AdmitTyped == ASSUME TypeInv, NEW s \in Server, NEW o \in Op, Admit(s, o) PROVE TypeInv'
<1>0. job[s] \in Job /\ job[s].source \in Op \union {NoOp} /\ job[s].forced \in BOOLEAN
  BY DEF TypeInv, Shaped, Job
<1>1. doc' \in Document
  BY DocumentWrites DEF Admit, TypeInv
<1>2. op' \in [Op -> Row]
  <2>1. AdmittedRow(job[s].source, job[s].forced) \in Row
    BY <1>0, RowShapes DEF TypeInv
  <2>. QED
    BY <2>1 DEF Admit, TypeInv, Shaped
<1>3. pc' \in [Server -> Label] /\ job' \in [Server -> Job] /\ Located'
  <2>1. pc' = [pc EXCEPT ![s] = "open"] /\ job' = [job EXCEPT ![s] = [job[s] EXCEPT !.op = o]]
    BY DEF Admit, Goto
  <2>2. [job[s] EXCEPT !.op = o] \in Job
    BY <1>0, JobWrites
  <2>3. [job[s] EXCEPT !.op = o].op = o
    BY <1>0 DEF Job
  <2>. QED
    BY <2>1, <2>2, <2>3, Moves DEF Label
<1>4. UNCHANGED <<debug, saved, up, cancelled, told, asks, renames, crashes>>
  BY DEF Admit, stream, bounds
<1>. QED
  BY <1>1, <1>2, <1>3, <1>4 DEF TypeInv, Shaped

LEMMA AdmitRefusedTyped == ASSUME TypeInv, NEW s \in Server, AdmitRefused(s) PROVE TypeInv'
<1> DEFINE r == job[s].source
<1>0. job[s] \in Job
  BY DEF TypeInv, Shaped
<1>1. pc' \in [Server -> Label] /\ job' \in [Server -> Job] /\ Located'
  <2>1. CASE r # NoOp /\ HasChild(r)
    <3>1. pc' = [pc EXCEPT ![s] = "child"]
          /\ job' = [job EXCEPT ![s] = [job[s] EXCEPT !.op = ChildOf(r), !.known = TRUE]]
      BY <2>1 DEF AdmitRefused, Goto
    <3>2. ChildOf(r) \in Op
      BY <2>1 DEF HasChild, ChildOf
    <3>3. [job[s] EXCEPT !.op = ChildOf(r), !.known = TRUE] \in Job
      BY <1>0, <3>2, JobWrites
    <3>4. [job[s] EXCEPT !.op = ChildOf(r), !.known = TRUE].op = ChildOf(r)
      BY <1>0 DEF Job
    <3>. QED
      BY <3>1, <3>2, <3>3, <3>4, Moves DEF Label, Executing, Working
  <2>2. CASE ~(r # NoOp /\ HasChild(r))
    <3>1. pc' = [pc EXCEPT ![s] = "answer"]
          /\ job' = [job EXCEPT ![s] = [job[s] EXCEPT !.outcome = "raised"]]
      BY <2>2 DEF AdmitRefused, Answer, Goto
    <3>2. [job[s] EXCEPT !.outcome = "raised"] \in Job
      BY <1>0, JobWrites
    <3>. QED
      BY <3>1, <3>2, Moves DEF Label, Executing, Working
  <2>. QED
    BY <2>1, <2>2
<1>2. UNCHANGED <<doc, debug, op, saved, up, cancelled, told, asks, renames, crashes>>
  BY DEF AdmitRefused, store, stream, bounds
<1>. QED
  BY <1>1, <1>2 DEF TypeInv, Shaped

LEMMA OpenTyped == ASSUME TypeInv, NEW s \in Server, OpenCheckpoint(s) PROVE TypeInv'
<1>1. job[s] \in Job /\ job[s].op \in Op /\ Running(job[s].op) \in BOOLEAN
  BY DEF OpenCheckpoint, TypeInv, Shaped, Located, Executing, Running
<1>2. [job[s] EXCEPT !.known = Running(job[s].op)] \in Job
  BY <1>1, JobWrites
<1>3. [job[s] EXCEPT !.known = Running(job[s].op)].op = job[s].op
  BY <1>1 DEF Job
<1>4. /\ Save(s, OpenedCheckpoint, "begin")
      /\ job' = [job EXCEPT ![s] = [job[s] EXCEPT !.known = Running(job[s].op)]]
      /\ UNCHANGED <<doc, debug, op, up, stream, bounds>>
  BY DEF OpenCheckpoint
<1>. QED
  BY <1>1, <1>2, <1>3, <1>4, OpenedTyped, Saves DEF Working

LEMMA ReuseTyped ==
  ASSUME TypeInv, NEW s \in Server, ReuseOutput(s) \/ ReuseReport(s)
  PROVE  TypeInv'
<1> DEFINE r == Restored(job[s].restored, job[s].forced)
           c(output) == WithStage(saved[job[s].op], job[s].forced, r.report, output, r.size)
<1>0. /\ job[s] \in Job /\ job[s].op \in Op /\ saved[job[s].op] \in Checkpoint
      /\ job[s].forced \in BOOLEAN /\ job[s].restored \in Checkpoint
  BY DEF ReuseOutput, ReuseReport, TypeInv, Shaped, Located, Executing, Working, Job
<1>1. r.report \in Verdict /\ r.size \in Nat
  BY <1>0, RestoredTyped
<1>2. \A output \in BOOLEAN : c(output) \in Checkpoint
  BY <1>0, <1>1, StageSaved
<1>3. PICK j \in Job : job' = [job EXCEPT ![s] = j] /\ j.op = job[s].op
  <2>1. CASE ReuseOutput(s)
    <3>1. [job[s] EXCEPT !.report = r.report, !.prepared = Running(job[s].op)] \in Job
      BY <1>0, <1>1, JobWrites DEF Running
    <3>2. [job[s] EXCEPT !.report = r.report, !.prepared = Running(job[s].op)].op = job[s].op
      BY <1>0 DEF Job
    <3>. QED
      BY <2>1, <3>1, <3>2 DEF ReuseOutput
  <2>2. CASE ReuseReport(s)
    <3>1. [job[s] EXCEPT !.report = r.report] \in Job
      BY <1>0, <1>1, JobWrites
    <3>2. [job[s] EXCEPT !.report = r.report].op = job[s].op
      BY <1>0 DEF Job
    <3>. QED
      BY <2>2, <3>1, <3>2 DEF ReuseReport
  <2>. QED
    BY <2>1, <2>2
<1>5. /\ UNCHANGED <<doc, debug, op, up, stream, bounds>>
      /\ Save(s, c(TRUE), "prepared") \/ Save(s, c(FALSE), "units")
  BY DEF ReuseOutput, ReuseReport
<1>6. "prepared" \in Working /\ "units" \in Working
  BY DEF Working
<1>. HIDE DEF r, c
<1>. QED
  BY <1>0, <1>2, <1>3, <1>5, <1>6, Saves

LEMMA PageTyped == ASSUME TypeInv, NEW s \in Server, ParsePage(s) PROVE TypeInv'
<1>0. job[s] \in Job /\ job[s].op \in Op /\ saved[job[s].op] \in Checkpoint
  BY DEF ParsePage, TypeInv, Shaped, Located, Executing, Working
<1>1. PICK q \in Quality :
        /\ Save(s, WithPage(saved[job[s].op], q), "parse")
        /\ job' = [job EXCEPT ![s] = [job[s] EXCEPT !.done = Append(job[s].done, q)]]
  BY DEF ParsePage, PageQuality, Quality
<1>2. WithPage(saved[job[s].op], q) \in Checkpoint
  BY <1>0, PageSaved
<1>3. [job[s] EXCEPT !.done = Append(job[s].done, q)] \in Job
  BY <1>0, JobWrites
<1>4. [job[s] EXCEPT !.done = Append(job[s].done, q)].op = job[s].op
  BY <1>0 DEF Job
<1>5. "parse" \in Working /\ UNCHANGED <<doc, debug, op, up, stream, bounds>>
  BY DEF Working, ParsePage
<1>. QED
  BY <1>0, <1>1, <1>2, <1>3, <1>4, <1>5, Saves

LEMMA ReportTyped == ASSUME TypeInv, NEW s \in Server, SaveReport(s) PROVE TypeInv'
<1>1. PICK report \in ReportsOn(job[s].forced, job[s].done), size \in StageSizes :
        /\ Save(s, WithStage(saved[job[s].op], job[s].forced, report, FALSE, size), "units")
        /\ job' = [job EXCEPT ![s] = [job[s] EXCEPT !.report = report]]
  BY DEF SaveReport
<1>0. /\ job[s] \in Job /\ job[s].op \in Op /\ saved[job[s].op] \in Checkpoint
      /\ job[s].forced \in BOOLEAN /\ report \in Verdict
  BY DEF SaveReport, TypeInv, Shaped, Located, Executing, Working, Job, ReportsOn, Verdict
<1>2. WithStage(saved[job[s].op], job[s].forced, report, FALSE, size) \in Checkpoint
  BY <1>0, StageSaved
<1>3. [job[s] EXCEPT !.report = report] \in Job
  BY <1>0, JobWrites
<1>4. [job[s] EXCEPT !.report = report].op = job[s].op
  BY <1>0 DEF Job
<1>5. "units" \in Working /\ UNCHANGED <<doc, debug, op, up, stream, bounds>>
  BY DEF Working, SaveReport
<1>. QED
  BY <1>0, <1>1, <1>2, <1>3, <1>4, <1>5, Saves

LEMMA UnitsTyped == ASSUME TypeInv, NEW s \in Server, BuildUnits(s) PROVE TypeInv'
<1>0. /\ job[s] \in Job /\ job[s].op \in Op /\ saved[job[s].op] \in Checkpoint
      /\ job[s].forced \in BOOLEAN /\ job[s].report \in Verdict
  BY DEF BuildUnits, TypeInv, Shaped, Located, Executing, Working, Job
<1>1. UNCHANGED <<doc, debug, op, up, stream, bounds>>
  BY DEF BuildUnits
<1>2. PICK b \in BOOLEAN : job' = [job EXCEPT ![s] = [job[s] EXCEPT !.prepared = b]]
  <2>1. Running(job[s].op) \in BOOLEAN
    BY DEF Running
  <2>2. CASE Usable(job[s].forced, job[s].report)
    <3>1. job' = [job EXCEPT ![s] = [job[s] EXCEPT !.prepared = Running(job[s].op)]]
      BY <2>2 DEF BuildUnits
    <3>. QED
      BY <2>1, <3>1
  <2>3. CASE ~Usable(job[s].forced, job[s].report)
    <3>1. job' = [job EXCEPT ![s] = [job[s] EXCEPT !.prepared = TRUE]]
      BY <2>3 DEF BuildUnits
    <3>. QED
      BY <3>1
  <2>. QED
    BY <2>2, <2>3
<1>3. [job[s] EXCEPT !.prepared = b] \in Job /\ [job[s] EXCEPT !.prepared = b].op = job[s].op
  <2>1. [job[s] EXCEPT !.prepared = b] \in Job
    BY <1>0, JobWrites
  <2>2. [job[s] EXCEPT !.prepared = b].op = job[s].op
    BY <1>0 DEF Job
  <2>. QED
    BY <2>1, <2>2
<1>4. CASE Usable(job[s].forced, job[s].report)
  <2>1. PICK size \in StageSizes :
          Save(s, WithStage(saved[job[s].op], job[s].forced, job[s].report, TRUE, size), "prepared")
    BY <1>4 DEF BuildUnits
  <2>2. WithStage(saved[job[s].op], job[s].forced, job[s].report, TRUE, size) \in Checkpoint
    BY <1>0, StageSaved
  <2>3. "prepared" \in Working
    BY DEF Working
  <2>. QED
    BY <1>0, <1>1, <1>2, <1>3, <2>1, <2>2, <2>3, Saves
<1>5. CASE ~Usable(job[s].forced, job[s].report)
  <2>1. pc' = [pc EXCEPT ![s] = "prepared"] /\ saved' = saved
    BY <1>5 DEF BuildUnits, Goto
  <2>2. pc' \in [Server -> Label] /\ job' \in [Server -> Job] /\ Located'
    BY <1>0, <1>2, <1>3, <2>1, Moves DEF Label, Working
  <2>. QED
    BY <1>1, <2>1, <2>2 DEF TypeInv, Shaped, stream, bounds
<1>. QED
  BY <1>4, <1>5

\* The steps that only move a worker on.
LEMMA PassesTyped ==
  ASSUME TypeInv, NEW s \in Server,
         BeginParsing(s) \/ Prepare(s) \/ Raise(s) \/ NoticeCancel(s) \/ CommitRefused(s)
  PROVE  TypeInv'
<1>1. job[s].op \in Op
  BY DEF TypeInv, Located, BeginParsing, Prepare, Raise, NoticeCancel, CommitRefused, Executing,
     Working, Checking
<1>2. PICK label \in {"parse", "commit", "fail", "interrupt"} : pc' = [pc EXCEPT ![s] = label]
  BY DEF BeginParsing, Prepare, Raise, NoticeCancel, CommitRefused, Goto
<1>3. UNCHANGED <<doc, debug, op, saved, up, job, cancelled, told, asks, renames, crashes>>
  BY DEF BeginParsing, Prepare, Raise, NoticeCancel, CommitRefused, store, stream, bounds
<1>4. pc' \in [Server -> Label] /\ job' \in [Server -> Job] /\ Located'
  BY <1>1, <1>2, <1>3, MovesOn DEF Label, Working
<1>. QED
  BY <1>3, <1>4 DEF TypeInv, Shaped

LEMMA CommitTyped == ASSUME TypeInv, NEW s \in Server, CommitSuccess(s) PROVE TypeInv'
<1>1. job[s].op \in Op
  BY DEF TypeInv, Located, CommitSuccess, Executing, Working
<1>2. doc' \in Document /\ debug' \in Units
  BY <1>1, DocumentWrites DEF CommitSuccess, TypeInv, Units
<1>3. op' \in [Op -> Row]
  BY <1>1, RowShapes DEF CommitSuccess, TypeInv, Shaped
<1>4. pc' = [pc EXCEPT ![s] = "readback"]
      /\ UNCHANGED <<saved, up, job, cancelled, told, asks, renames, crashes>>
  BY DEF CommitSuccess, Goto, stream, bounds
<1>5. pc' \in [Server -> Label] /\ job' \in [Server -> Job] /\ Located'
  BY <1>1, <1>4, MovesOn DEF Label, Working
<1>. QED
  BY <1>2, <1>3, <1>4, <1>5 DEF TypeInv, Shaped

LEMMA AnswerTyped ==
  ASSUME TypeInv, NEW s \in Server, NEW out \in {"returned", "interrupted", "raised", "cancelled"},
         Answer(s, out)
  PROVE  pc' \in [Server -> Label] /\ job' \in [Server -> Job] /\ Located'
<1>1. [job[s] EXCEPT !.outcome = out] \in Job
  BY JobWrites DEF TypeInv, Shaped
<1>2. pc' = [pc EXCEPT ![s] = "answer"]
      /\ job' = [job EXCEPT ![s] = [job[s] EXCEPT !.outcome = out]]
  BY DEF Answer, Goto
<1>. QED
  BY <1>1, <1>2, Moves DEF Label, Executing, Working

LEMMA ReadsTyped ==
  ASSUME TypeInv, NEW s \in Server, ReadBack(s) \/ ReadChild(s)
  PROVE  TypeInv'
<1>1. UNCHANGED <<doc, debug, op, saved, up, cancelled, told, asks, renames, crashes>>
  BY DEF ReadBack, ReadChild, store, stream, bounds
<1>2. CASE Answer(s, "returned") \/ Answer(s, "raised")
  BY <1>1, <1>2, AnswerTyped DEF TypeInv, Shaped
<1>3. CASE pc[s] = "readback" /\ pc' = [pc EXCEPT ![s] = "fail"] /\ job' = job
  <2>1. job[s].op \in Op
    BY <1>3 DEF TypeInv, Located, Executing, Working
  <2>2. pc' \in [Server -> Label] /\ job' \in [Server -> Job] /\ Located'
    BY <1>3, <2>1, MovesOn DEF Label
  <2>. QED
    BY <1>1, <2>2 DEF TypeInv, Shaped
<1>. QED
  BY <1>2, <1>3 DEF ReadBack, ReadChild, Goto

LEMMA MarkTyped ==
  ASSUME TypeInv, NEW s \in Server, MarkFailed(s) \/ MarkInterrupted(s)
  PROVE  TypeInv'
<1>1. PICK status \in {"failed", "interrupted"}, label \in {"fail", "interrupt"},
           out \in {"raised", "interrupted"} : MarkNotCommitted(s, label, status, out)
  BY DEF MarkFailed, MarkInterrupted
<1>2. job[s].op \in Op
  BY <1>1 DEF TypeInv, Located, MarkNotCommitted, Executing
<1>3. doc' \in Document /\ op' \in [Op -> Row]
  BY <1>1, <1>2, DocumentWrites, RowShapes DEF MarkNotCommitted, TypeInv, Shaped
<1>4. Answer(s, out) /\ UNCHANGED <<debug, saved, up, cancelled, told, asks, renames, crashes>>
  BY <1>1 DEF MarkNotCommitted, stream, bounds
<1>5. pc' \in [Server -> Label] /\ job' \in [Server -> Job] /\ Located'
  BY <1>4, AnswerTyped
<1>. QED
  BY <1>3, <1>4, <1>5 DEF TypeInv, Shaped

LEMMA RolledBackTyped == ASSUME TypeInv, NEW s \in Server, MarkRolledBack(s) PROVE TypeInv'
<1>1. Answer(s, "raised") /\ UNCHANGED <<doc, debug, op, saved, up, cancelled, told, asks, renames, crashes>>
  BY DEF MarkRolledBack, store, stream, bounds
<1>2. pc' \in [Server -> Label] /\ job' \in [Server -> Job] /\ Located'
  BY <1>1, AnswerTyped
<1>. QED
  BY <1>1, <1>2 DEF TypeInv, Shaped

LEMMA ClaimTyped == ASSUME TypeInv, NEW s \in Server, ClaimTerminal(s) PROVE TypeInv'
<1>1. UNCHANGED <<doc, debug, op, saved, up, cancelled, told, asks, renames, crashes>>
      /\ pc' = [pc EXCEPT ![s] = "tell"]
  BY DEF ClaimTerminal, Goto, store, bounds
<1>2. PICK j \in Job : job' = [job EXCEPT ![s] = j]
  <2>1. job[s] \in Job /\ [job[s] EXCEPT !.outcome = "cancelled"] \in Job
    BY JobWrites DEF TypeInv, Shaped
  <2>2. CASE s \in cancelled
    BY <2>1, <2>2 DEF ClaimTerminal
  <2>3. CASE s \notin cancelled
    BY <2>1, <2>3 DEF ClaimTerminal, TypeInv, Shaped
  <2>. QED
    BY <2>2, <2>3
<1>3. pc' \in [Server -> Label] /\ job' \in [Server -> Job] /\ Located'
  BY <1>1, <1>2, Moves DEF Label, Executing, Working
<1>. QED
  BY <1>1, <1>3 DEF TypeInv, Shaped

LEMMA TellTyped == ASSUME TypeInv, NEW s \in Server, Tell(s) PROVE TypeInv'
<1>1. NoJob \in Job
  BY RequestTyped DEF NoJob
<1>2. pc' = [pc EXCEPT ![s] = "idle"] /\ job' = [job EXCEPT ![s] = NoJob]
      /\ UNCHANGED <<doc, debug, op, saved, up, cancelled, asks, renames, crashes>>
  BY DEF Tell, Goto, store, bounds
<1>3. pc' \in [Server -> Label] /\ job' \in [Server -> Job] /\ Located'
  BY <1>1, <1>2, Moves DEF Label, Executing, Working
<1>4. told' \in [Server -> Terminal]
  <2>1. job[s].op \in Op \union {NoOp}
    BY DEF TypeInv, Shaped, Job
  <2>2. FailureEvidence(s) \in {"uncertain", "not_committed"}
    BY DEF FailureEvidence
  <2>. QED
    BY <2>1, <2>2 DEF Tell, TypeInv, Shaped, Terminal
<1>. QED
  BY <1>2, <1>3, <1>4 DEF TypeInv, Shaped

LEMMA StepTyped == ASSUME TypeInv, NEW s \in Server, Step(s) PROVE TypeInv'
BY SnapshotTyped, AdmitTyped, AdmitRefusedTyped, OpenTyped, ReuseTyped, PageTyped, ReportTyped,
   UnitsTyped, PassesTyped, CommitTyped, ReadsTyped, MarkTyped, RolledBackTyped,
   ClaimTyped, TellTyped DEF Step

LEMMA WorkTyped == ASSUME TypeInv, Work PROVE TypeInv'
BY RenameTyped, AskTyped, CancelTyped, PassesTyped, StepTyped DEF Work

LEMMA TypeInvStep == ASSUME TypeInv, [Next]_vars PROVE TypeInv'
<1>1. CASE UNCHANGED vars
  BY <1>1 DEF vars, store, stream, bounds, TypeInv, Shaped, Located
<1>2. CASE Next
  BY <1>2, WorkTyped, CrashTyped, StartTyped DEF Next
<1>. QED
  BY <1>1, <1>2

LEMMA TypeInvAlways == Spec => []TypeInv
BY InitTypeInv, TypeInvStep, PTL DEF Spec

-----------------------------------------------------------------------------
(* Who holds the document *)

\* A running operation is ended, and gives back the document it holds.
Ends(o, status) ==
    /\ Running(o)
    /\ op' = [op EXCEPT ![o] = EndedRow(o, status)]
    /\ doc' = IF Holds(o) THEN RestoredDocument(o, status) ELSE doc
    /\ debug' = debug

RowStep ==
    \/ UNCHANGED <<doc, debug, op>>
    \/ Rename
    \/ \E s \in Server, o \in Op : Admit(s, o)
    \/ \E s \in Server : CommitSuccess(s)
    \/ \E o \in Op, status \in {"failed", "interrupted"} : Ends(o, status)

GivenUp(o) == op[o].status \in {"failed", "interrupted"}

\* The document was given back by o and left alone since, or has moved on.
GaveBack(o) ==
    /\ doc.revision >= op[o].base.revision + 2
    /\ doc.revision = op[o].base.revision + 2 => doc.units = op[o].base.units

OneRunning == \A o, c \in Op : Running(o) /\ Running(c) => o = c

Owned ==
    /\ ProcessingIsOwned
    /\ ProjectionsAgree
    /\ OneRunning
    /\ \A o \in Op : Running(o) => op[o].base.units = doc.units /\ op[o].base.status # "processing"
    /\ \A o \in Op : GivenUp(o) => GaveBack(o)

LEMMA MarkEnds ==
  ASSUME TypeInv, NEW s \in Server, MarkFailed(s) \/ MarkInterrupted(s)
  PROVE  RowStep
<1>1. PICK status \in {"failed", "interrupted"}, label \in {"fail", "interrupt"},
           out \in {"raised", "interrupted"} : MarkNotCommitted(s, label, status, out)
  BY DEF MarkFailed, MarkInterrupted
<1>2. job[s].op \in Op
  BY <1>1 DEF TypeInv, Located, MarkNotCommitted, Executing
<1>3. CASE Running(job[s].op)
  <2>1. Ends(job[s].op, status)
    BY <1>1, <1>3 DEF MarkNotCommitted, Ends
  <2>. QED
    BY <1>2, <2>1 DEF RowStep
<1>4. CASE ~Running(job[s].op)
  BY <1>1, <1>4 DEF MarkNotCommitted, RowStep
<1>. QED
  BY <1>3, <1>4

\* Of the operations that run when a process starts there is at most one.
LEMMA StartEnds ==
  ASSUME TypeInv, Owned, NEW s \in Server, Start(s)
  PROVE  RowStep
<1>1. debug' = debug
  BY DEF Start
<1>2. CASE NoneActive
  <2>1. op' = op
    BY <1>2 DEF Start, NoneActive, TypeInv, Shaped
  <2>2. doc' = doc
    BY <1>2 DEF Start, NoneActive
  <2>. QED
    BY <1>1, <2>1, <2>2 DEF RowStep
<1>3. CASE ~NoneActive
  <2>1. PICK o \in Op : Running(o) /\ Holds(o)
    BY <1>3 DEF NoneActive, Owned, ProcessingIsOwned
  <2>2. \A c \in Op : Running(c) <=> c = o
    BY <2>1 DEF Owned, OneRunning
  <2>3. op' = [op EXCEPT ![o] = EndedRow(o, "failed")]
    BY <2>2 DEF Start, TypeInv, Shaped
  <2>4. (CHOOSE c \in Op : Running(c) /\ Holds(c)) = o
    BY <2>1, <2>2
  <2>5. doc' = RestoredDocument(o, "failed")
    BY <2>1, <2>4 DEF Start
  <2>. QED
    BY <1>1, <2>1, <2>3, <2>5 DEF RowStep, Ends
<1>. QED
  BY <1>2, <1>3

\* What runs changes the rows in one of four ways, or not at all.
LEMMA WorkRows ==
  ASSUME TypeInv, Work
  PROVE  RowStep
<1>1. CASE Rename
  BY <1>1 DEF RowStep
<1>2. ASSUME NEW s \in Server, NEW source \in Op \union {NoOp}, NEW forced \in Forced,
             Ask(s, source, forced)
      PROVE  RowStep
  BY <1>2 DEF Ask, store, RowStep
<1>3. ASSUME NEW s \in Server, Cancel(s) \/ Raise(s) PROVE RowStep
  BY <1>3 DEF Cancel, Raise, store, RowStep
<1>4. ASSUME NEW s \in Server, Step(s) PROVE RowStep
  <2>1. CASE Snapshot(s) \/ AdmitRefused(s) \/ OpenCheckpoint(s)
    BY <2>1 DEF Snapshot, AdmitRefused, OpenCheckpoint, store, RowStep
  <2>2. CASE ReuseOutput(s) \/ ReuseReport(s) \/ BeginParsing(s) \/ ParsePage(s) \/ SaveReport(s)
             \/ BuildUnits(s) \/ Prepare(s) \/ NoticeCancel(s)
    BY <2>2 DEF ReuseOutput, ReuseReport, BeginParsing, ParsePage, SaveReport, BuildUnits, Prepare,
       NoticeCancel, store, RowStep
  <2>3. CASE CommitRefused(s) \/ ReadBack(s) \/ ReadChild(s) \/ ClaimTerminal(s) \/ Tell(s)
             \/ MarkRolledBack(s)
    BY <2>3 DEF CommitRefused, ReadBack, ReadChild, ClaimTerminal, Tell, MarkRolledBack, store, RowStep
  <2>4. CASE (\E o \in Op : Admit(s, o)) \/ CommitSuccess(s)
    BY <2>4 DEF RowStep
  <2>5. CASE MarkFailed(s) \/ MarkInterrupted(s)
    BY <2>5, MarkEnds
  <2>. QED
    BY <1>4, <2>1, <2>2, <2>3, <2>4, <2>5 DEF Step
<1>. QED
  BY <1>1, <1>2, <1>3, <1>4 DEF Work

LEMMA RowWrites ==
  ASSUME TypeInv, Owned, [Next]_vars
  PROVE  RowStep
<1>1. CASE UNCHANGED vars
  BY <1>1 DEF vars, store, RowStep
<1>2. ASSUME NEW s \in Server, Crash(s) PROVE RowStep
  BY <1>2 DEF Crash, store, RowStep
<1>. QED
  BY <1>1, <1>2, WorkRows, StartEnds DEF Next

LEMMA InitOwned == Init => Owned
<1> SUFFICES ASSUME Init PROVE Owned
  OBVIOUS
<1>1. \A o \in Op : op[o].status = "none"
  BY DEF Init, NoRow
<1>2. doc.status # "processing" /\ debug = doc.units
  BY DEF Init, Uploaded, Known
<1>. QED
  BY <1>1, <1>2 DEF Owned, ProcessingIsOwned, ProjectionsAgree, OneRunning, Running, GivenUp

LEMMA OwnedAdmit ==
  ASSUME TypeInv, Owned, NEW s \in Server, NEW o \in Op, Admit(s, o)
  PROVE  Owned'
<1>1. /\ doc' = [doc EXCEPT !.status = "processing", !.revision = doc.revision + 1]
      /\ debug' = debug /\ doc.status # "processing" /\ NoneActive
      /\ op' = [op EXCEPT ![o] = AdmittedRow(job[s].source, job[s].forced)]
      /\ op[o].status = "none"
  BY DEF Admit, ProcessingDocument
<1>2. doc \in Document /\ op \in [Op -> Row] /\ doc.revision \in Nat
  BY DEF TypeInv, Shaped, Document
<1>3. /\ op'[o].status = "running" /\ op'[o].base = doc
      /\ \A c \in Op \ {o} : op'[c] = op[c] /\ op[c].status # "running"
  BY <1>1, <1>2 DEF AdmittedRow, NoneActive, Running
<1>4. doc'.status = "processing" /\ doc'.revision = doc.revision + 1 /\ doc'.units = doc.units
  BY <1>1, <1>2 DEF Document
<1>5. ProcessingIsOwned' /\ OneRunning'
  BY <1>3, <1>4 DEF ProcessingIsOwned, OneRunning, Running, Holds
<1>6. ProjectionsAgree'
  BY <1>1, <1>4 DEF Owned, ProjectionsAgree
<1>7. \A c \in Op : Running(c)' => op'[c].base.units = doc'.units /\ op'[c].base.status # "processing"
  BY <1>1, <1>3, <1>4 DEF Running
<1>8. ASSUME NEW c \in Op, GivenUp(c)' PROVE GaveBack(c)'
  <2>1. c # o /\ op'[c] = op[c]
    BY <1>3, <1>8 DEF GivenUp
  <2>2. GaveBack(c)
    BY <1>8, <2>1 DEF Owned, GivenUp
  <2>3. op[c].base.revision \in Nat
    BY <1>2 DEF Row, Document
  <2>. QED
    BY <1>2, <1>4, <2>1, <2>2, <2>3 DEF GaveBack
<1>. QED
  BY <1>5, <1>6, <1>7, <1>8 DEF Owned

\* The operation that ends is the one that runs, and its document is given back.
LEMMA OwnedEnds ==
  ASSUME TypeInv, Owned, NEW o \in Op, NEW status \in {"failed", "interrupted"}, Ends(o, status)
  PROVE  Owned'
<1>1. doc \in Document /\ op \in [Op -> Row] /\ op[o].base \in Document
      /\ op[o].base.revision \in Nat /\ op[o].base.revision + 2 \in Nat
  BY DEF TypeInv, Shaped, Document, Row
<1>2. /\ Running(o) /\ Holds(o) /\ debug' = debug
      /\ op' = [op EXCEPT ![o] = EndedRow(o, status)]
      /\ doc' = RestoredDocument(o, status)
      /\ op[o].base.units = doc.units /\ op[o].base.status # "processing"
  BY DEF Ends, Owned, ProcessingIsOwned
<1>3. /\ op'[o].status = status /\ op'[o].base = op[o].base
      /\ \A c \in Op \ {o} : op'[c] = op[c] /\ ~Running(c)
  BY <1>1, <1>2 DEF EndedRow, Owned, OneRunning, Row
<1>4. /\ doc'.status # "processing" /\ doc'.units = op[o].base.units
      /\ doc'.revision = op[o].base.revision + 2 /\ doc'.revision = doc.revision + 1
  BY <1>1, <1>2 DEF RestoredDocument, Holds
<1>5. \A c \in Op : ~Running(c)'
  BY <1>3 DEF Running
<1>6. ProjectionsAgree'
  BY <1>2, <1>4 DEF Owned, ProjectionsAgree
<1>7. ASSUME NEW c \in Op, GivenUp(c)' PROVE GaveBack(c)'
  <2>1. CASE c = o
    BY <1>1, <1>3, <1>4, <2>1 DEF GaveBack
  <2>2. CASE c # o
    <3>1. op'[c] = op[c] /\ GaveBack(c)
      BY <1>3, <1>7, <2>2 DEF Owned, GivenUp
    <3>2. op[c].base.revision \in Nat /\ doc.revision \in Nat
      BY <1>1 DEF Row, Document
    <3>. QED
      BY <1>4, <3>1, <3>2 DEF GaveBack
  <2>. QED
    BY <2>1, <2>2
<1>. QED
  BY <1>4, <1>5, <1>6, <1>7 DEF Owned, ProcessingIsOwned, OneRunning

LEMMA OwnedCommit ==
  ASSUME TypeInv, Owned, NEW s \in Server, CommitSuccess(s)
  PROVE  Owned'
<1> DEFINE o == job[s].op
<1>1. /\ o \in Op /\ Running(o) /\ doc.revision = op[o].base.revision + 1
      /\ doc' = ProcessedDocument(o) /\ debug' = [by |-> o, edit |-> 0]
      /\ op' = [op EXCEPT ![o] = CommittedRow(o)]
  BY DEF TypeInv, Located, CommitSuccess, CanPublish, Executing, Working
<1>. HIDE DEF o
<1>2. doc \in Document /\ op \in [Op -> Row] /\ op[o].base.revision \in Nat
  BY <1>1 DEF TypeInv, Shaped, Document, Row
<1>3. /\ op'[o].status = "committed"
      /\ \A c \in Op \ {o} : op'[c] = op[c] /\ ~Running(c)
  BY <1>1, <1>2 DEF CommittedRow, Owned, OneRunning, Row
<1>4. /\ doc'.status # "processing" /\ doc'.units = [by |-> o, edit |-> 0]
      /\ doc'.revision = doc.revision + 1
  BY <1>1, <1>2 DEF ProcessedDocument
<1>5. \A c \in Op : ~Running(c)'
  BY <1>3 DEF Running
<1>6. ProjectionsAgree'
  BY <1>1, <1>4 DEF ProjectionsAgree
<1>7. ASSUME NEW c \in Op, GivenUp(c)' PROVE GaveBack(c)'
  <2>1. c # o /\ op'[c] = op[c] /\ GaveBack(c)
    BY <1>3, <1>7 DEF Owned, GivenUp
  <2>2. op[c].base.revision \in Nat /\ doc.revision \in Nat
    BY <1>2 DEF Row, Document
  <2>. QED
    BY <1>4, <2>1, <2>2 DEF GaveBack
<1>. QED
  BY <1>4, <1>5, <1>6, <1>7 DEF Owned, ProcessingIsOwned, OneRunning

\* A renamed document is held by nobody.
LEMMA OwnedRename == ASSUME TypeInv, Owned, Rename PROVE Owned'
<1>1. doc \in Document /\ debug \in Units /\ op \in [Op -> Row] /\ doc.revision \in Nat
  BY DEF TypeInv, Shaped, Document
<1>2. \A o \in Op : ~Running(o)
  BY DEF Rename, Owned, ProcessingIsOwned, Holds
<1>3. /\ op' = op /\ doc'.status # "processing" /\ doc'.revision = doc.revision + 1
      /\ doc'.units = [by |-> doc.units.by, edit |-> doc.units.edit + 1]
      /\ debug' = [by |-> debug.by, edit |-> debug.edit + 1]
  BY <1>1 DEF Rename, Document
<1>4. ProjectionsAgree'
  BY <1>3 DEF Owned, ProjectionsAgree
<1>5. ASSUME NEW c \in Op, GivenUp(c)' PROVE GaveBack(c)'
  <2>1. GaveBack(c) /\ op[c].base.revision \in Nat
    BY <1>1, <1>3, <1>5 DEF Owned, GivenUp, Row, Document
  <2>. QED
    BY <1>1, <1>3, <2>1 DEF GaveBack
<1>. QED
  BY <1>2, <1>3, <1>4, <1>5 DEF Owned, ProcessingIsOwned, OneRunning, Running

LEMMA OwnedStep == ASSUME TypeInv, Owned, [Next]_vars PROVE Owned'
<1>1. RowStep
  BY RowWrites
<1>2. CASE UNCHANGED <<doc, debug, op>>
  BY <1>2 DEF Owned, ProcessingIsOwned, ProjectionsAgree, OneRunning, Running, Holds, GivenUp, GaveBack
<1>. QED
  BY <1>1, <1>2, OwnedRename, OwnedAdmit, OwnedCommit, OwnedEnds DEF RowStep

LEMMA OwnedAlways == Spec => [](TypeInv /\ Owned)
<1>1. TypeInv /\ Owned /\ [Next]_vars => TypeInv' /\ Owned'
  BY TypeInvStep, OwnedStep
<1>. QED
  BY <1>1, InitTypeInv, InitOwned, PTL DEF Spec

\* A document is "processing" exactly while one operation that runs holds it,
\* for any number of operations, servers that start and die, and renames.
THEOREM DocumentIsHeld == Spec => []ProcessingIsOwned
<1>1. Owned => ProcessingIsOwned
  BY DEF Owned
<1>. QED
  BY <1>1, OwnedAlways, PTL

\* The debug projection keeps to the document's study units.
THEOREM DebugFollowsDocument == Spec => []ProjectionsAgree
<1>1. Owned => ProjectionsAgree
  BY DEF Owned
<1>. QED
  BY <1>1, OwnedAlways, PTL

-----------------------------------------------------------------------------
(* What a step leaves alone *)

\* A row is admitted, ended once, and then stays.
LEMMA RowsLast ==
  ASSUME TypeInv, Owned, [Next]_vars, NEW o \in Op
  PROVE  /\ op[o].status # "none" =>
              /\ op'[o].status # "none"
              /\ op'[o].base = op[o].base
              /\ op'[o].source = op[o].source
              /\ op'[o].forced = op[o].forced
         /\ op[o].status \in Ended => op'[o] = op[o]
         /\ op[o].status = "none" => op'[o] = op[o] \/ \E s \in Server : Admit(s, o)
<1>1. RowStep /\ op \in [Op -> Row]
  BY RowWrites DEF TypeInv, Shaped
<1>2. CASE op' = op
  BY <1>2
<1>3. ASSUME NEW s \in Server, NEW c \in Op, Admit(s, c)
      PROVE  op'[o] = op[o] \/ (c = o /\ op[o].status = "none")
  BY <1>1, <1>3 DEF Admit
<1>4. ASSUME NEW c \in Op, Running(c), NEW row \in {CommittedRow(c), EndedRow(c, "failed"),
                                                    EndedRow(c, "interrupted")},
             op' = [op EXCEPT ![c] = row]
      PROVE  \/ op'[o] = op[o]
             \/ /\ op[o].status = "running" /\ op'[o].status # "none"
                /\ op'[o].base = op[o].base /\ op'[o].source = op[o].source
                /\ op'[o].forced = op[o].forced
  <2>1. /\ row.status # "none" /\ row.base = op[c].base /\ row.source = op[c].source
        /\ row.forced = op[c].forced
    BY <1>1 DEF CommittedRow, EndedRow, Row
  <2>. QED
    BY <1>1, <1>4, <2>1 DEF Running
<1>5. ASSUME NEW s \in Server, CommitSuccess(s)
      PROVE  \E c \in Op : Running(c) /\ op' = [op EXCEPT ![c] = CommittedRow(c)]
  BY <1>5 DEF CommitSuccess, TypeInv, Located, Executing, Working
<1>6. ASSUME NEW c \in Op, NEW status \in {"failed", "interrupted"}, Ends(c, status)
      PROVE  Running(c) /\ op' = [op EXCEPT ![c] = EndedRow(c, status)]
  BY <1>6 DEF Ends
<1>. QED
  BY <1>1, <1>2, <1>3, <1>4, <1>5, <1>6 DEF RowStep, Rename, Ended

\* One stream, its worker and its client.
StreamStep(s) ==
    \/ \E source \in Op \union {NoOp}, forced \in Forced : Ask(s, source, forced)
    \/ Cancel(s)
    \/ Raise(s)
    \/ Step(s)
    \/ Crash(s)

Untouched(t) ==
    /\ pc'[t] = pc[t] /\ job'[t] = job[t] /\ told'[t] = told[t]
    /\ t \in cancelled' <=> t \in cancelled

LEMMA OthersUntouched ==
  ASSUME TypeInv, NEW s \in Server, NEW t \in Server \ {s}, StreamStep(s)
  PROVE  Untouched(t)
<1>0. /\ pc \in [Server -> Label] /\ job \in [Server -> Job] /\ told \in [Server -> Terminal]
      /\ t # s
  BY DEF TypeInv, Shaped
<1>1. CASE \E source \in Op \union {NoOp}, forced \in Forced : Ask(s, source, forced)
  BY <1>0, <1>1 DEF Ask, Goto, Untouched
<1>2. CASE Cancel(s) \/ Raise(s) \/ Crash(s)
  BY <1>0, <1>2 DEF Cancel, Raise, Crash, Goto, stream, Untouched
<1>3. ASSUME NEW c, NEW label, Save(s, c, label) PROVE pc'[t] = pc[t]
  BY <1>0, <1>3 DEF Save, Goto
<1>4. CASE Snapshot(s) \/ AdmitRefused(s) \/ \E o \in Op : Admit(s, o)
  BY <1>0, <1>4 DEF Snapshot, AdmitRefused, Admit, Answer, Goto, stream, Untouched
<1>5. CASE OpenCheckpoint(s) \/ ReuseOutput(s) \/ ReuseReport(s) \/ ParsePage(s) \/ SaveReport(s)
  BY <1>0, <1>3, <1>5 DEF OpenCheckpoint, ReuseOutput, ReuseReport, ParsePage, SaveReport, stream,
     Untouched
<1>6. CASE BuildUnits(s) \/ BeginParsing(s) \/ Prepare(s) \/ NoticeCancel(s)
  BY <1>0, <1>3, <1>6 DEF BuildUnits, BeginParsing, Prepare, NoticeCancel, Goto, stream, Untouched
<1>7. CASE CommitSuccess(s) \/ CommitRefused(s) \/ ReadBack(s) \/ ReadChild(s)
  BY <1>0, <1>7 DEF CommitSuccess, CommitRefused, ReadBack, ReadChild, Answer, Goto, stream, Untouched
<1>8. CASE MarkFailed(s) \/ MarkInterrupted(s) \/ MarkRolledBack(s) \/ ClaimTerminal(s) \/ Tell(s)
  BY <1>0, <1>8 DEF MarkFailed, MarkInterrupted, MarkRolledBack, MarkNotCommitted, ClaimTerminal, Tell, Answer, Goto,
     stream, Untouched
<1>. QED
  BY <1>1, <1>2, <1>4, <1>5, <1>6, <1>7, <1>8 DEF StreamStep, Step

LEMMA Actors ==
  ASSUME TypeInv, [Next]_vars, NEW t \in Server
  PROVE  StreamStep(t) \/ Untouched(t)
<1>1. CASE UNCHANGED vars
  BY <1>1 DEF vars, stream, Untouched
<1>2. CASE Rename
  BY <1>2 DEF Rename, stream, Untouched
<1>3. ASSUME NEW s \in Server, Start(s) PROVE Untouched(t)
  BY <1>3 DEF Start, stream, Untouched
<1>4. ASSUME NEW s \in Server, StreamStep(s) PROVE StreamStep(t) \/ Untouched(t)
  BY <1>4, OthersUntouched
<1>. QED
  BY <1>1, <1>2, <1>3, <1>4 DEF Next, Work, StreamStep

-----------------------------------------------------------------------------
(* Resuming *)

Fresh ==
    /\ ResumeIsFresh
    /\ \A o \in Op : op[o].status = "none" => op[o].source = NoOp
    /\ \A s \in Server : pc[s] \in {"snapshot", "admit"} /\ job[s].source # NoOp =>
          /\ op[job[s].source].status # "none"
          /\ pc[s] = "admit" => op[job[s].source].forced = job[s].forced

LEMMA InitFresh == Init => Fresh
BY DEF Init, NoRow, Fresh, ResumeIsFresh

\* Where a save leads.
LEMMA SaveGoes ==
  ASSUME TypeInv, NEW s \in Server, NEW c, NEW label, Save(s, c, label)
  PROVE  pc'[s] \in {label, "fail"}
BY DEF Save, Goto, TypeInv, Shaped

\* A request is on its way to admission, or has been there.
LEMMA AskingSteps ==
  ASSUME TypeInv, NEW s \in Server, Step(s) \/ Raise(s) \/ Crash(s),
         pc'[s] \in {"snapshot", "admit"}
  PROVE  /\ Snapshot(s) /\ ~HasChild(job[s].source) /\ op[job[s].source].forced = job[s].forced
         /\ pc'[s] = "admit" /\ job'[s] = [job[s] EXCEPT !.restored = saved[job[s].source]]
<1>0. pc \in [Server -> Label] /\ job \in [Server -> Job]
  BY DEF TypeInv, Shaped
<1>1. ~(Raise(s) \/ Crash(s))
  BY <1>0 DEF Raise, Crash, Goto
<1>2. ~(AdmitRefused(s) \/ \E o \in Op : Admit(s, o))
  BY <1>0 DEF AdmitRefused, Admit, Answer, Goto
<1>3. ASSUME NEW c, NEW label \in Working, Save(s, c, label) PROVE FALSE
  BY <1>3, SaveGoes DEF Working
<1>4. /\ ~(OpenCheckpoint(s) \/ ReuseOutput(s) \/ ReuseReport(s) \/ ParsePage(s) \/ SaveReport(s))
      /\ ~(BuildUnits(s) \/ BeginParsing(s) \/ Prepare(s) \/ NoticeCancel(s))
  BY <1>0, <1>3 DEF Working, OpenCheckpoint, ReuseOutput, ReuseReport, ParsePage, SaveReport,
     BuildUnits, BeginParsing, Prepare, NoticeCancel, Goto
<1>5. ~(CommitSuccess(s) \/ CommitRefused(s) \/ ReadBack(s) \/ ReadChild(s))
  BY <1>0 DEF CommitSuccess, CommitRefused, ReadBack, ReadChild, Answer, Goto
<1>6. ~(MarkFailed(s) \/ MarkInterrupted(s) \/ MarkRolledBack(s) \/ ClaimTerminal(s) \/ Tell(s))
  BY <1>0 DEF MarkFailed, MarkInterrupted, MarkRolledBack, MarkNotCommitted, ClaimTerminal, Tell, Answer, Goto
<1>7. Snapshot(s)
  BY <1>1, <1>2, <1>4, <1>5, <1>6 DEF Step
<1>. QED
  BY <1>0, <1>7 DEF Snapshot, Answer, Goto

LEMMA AskersKnow ==
  ASSUME TypeInv, Owned, Fresh, [Next]_vars, NEW s \in Server,
         pc'[s] \in {"snapshot", "admit"}, job'[s].source # NoOp
  PROVE  /\ op'[job'[s].source].status # "none"
         /\ pc'[s] = "admit" => op'[job'[s].source].forced = job'[s].forced
<1> DEFINE r == job'[s].source
<1>0. TypeInv' /\ r \in Op
  BY TypeInvStep DEF TypeInv, Shaped, Job
<1>1. op[r].status # "none" /\ (pc'[s] = "admit" => op[r].forced = job'[s].forced)
  <2>1. CASE Untouched(s) \/ Cancel(s)
    BY <2>1 DEF Untouched, Cancel, Fresh
  <2>2. ASSUME NEW source \in Op \union {NoOp}, NEW forced \in Forced, Ask(s, source, forced)
        PROVE  op[r].status # "none" /\ pc'[s] # "admit"
    <3>1. job'[s] = Request(source, forced) /\ pc'[s] = (IF source = NoOp THEN "admit" ELSE "snapshot")
      BY <2>2 DEF Ask, Goto, TypeInv, Shaped
    <3>2. r = source
      BY <3>1, RequestTyped
    <3>. QED
      BY <2>2, <3>1, <3>2 DEF Ask
  <2>3. CASE Step(s) \/ Raise(s) \/ Crash(s)
    <3>1. /\ Snapshot(s) /\ op[job[s].source].forced = job[s].forced
          /\ job'[s] = [job[s] EXCEPT !.restored = saved[job[s].source]]
      BY <2>3, AskingSteps
    <3>2. job[s] \in Job
      BY DEF TypeInv, Shaped
    <3>3. \A c : /\ [job[s] EXCEPT !.restored = c].source = job[s].source
                /\ [job[s] EXCEPT !.restored = c].forced = job[s].forced
      BY <3>2 DEF Job
    <3>4. r = job[s].source /\ job'[s].forced = job[s].forced
      BY <3>1, <3>3
    <3>. QED
      BY <3>1, <3>4 DEF Snapshot, Fresh
  <2>. QED
    BY <2>1, <2>2, <2>3, Actors DEF StreamStep
<1>2. op'[r].status # "none" /\ op'[r].forced = op[r].forced
  BY <1>0, <1>1, RowsLast
<1>. QED
  BY <1>1, <1>2

\* Admission is what makes one operation the child of another, and it requires
\* that the other was given up, gave the document back and has no child yet.
LEMMA AdmittedIsFresh ==
  ASSUME TypeInv, Owned, Fresh, NEW s \in Server, NEW o \in Op, Admit(s, o)
  PROVE  ResumeIsFresh'
<1> DEFINE r == job[s].source
<1>1. /\ op \in [Op -> Row] /\ r \in Op \union {NoOp} /\ op[o].status = "none"
      /\ op' = [op EXCEPT ![o] = AdmittedRow(r, job[s].forced)]
      /\ r # NoOp => ~HasChild(r) /\ Resumable(r)
      /\ r # NoOp => op[r].forced = job[s].forced
  BY DEF TypeInv, Shaped, Job, Admit, Fresh
<1>. HIDE DEF r
<1>2. op'[o].source = r /\ op'[o].base = doc /\ op'[o].forced = job[s].forced
      /\ \A c \in Op \ {o} : op'[c] = op[c]
  BY <1>1 DEF AdmittedRow
<1>3. ASSUME NEW c \in Op, op'[c].source # NoOp
      PROVE  /\ op'[op'[c].source].status \in {"failed", "interrupted"}
             /\ op'[c].base.units = op'[op'[c].source].base.units
             /\ op'[c].forced = op'[op'[c].source].forced
             /\ \A d \in Op : op'[d].source = op'[c].source => d = c
  <2>1. CASE c = o
    <3>1. r \in Op /\ ~HasChild(r) /\ op[r].status \in {"failed", "interrupted"}
          /\ doc.revision = op[r].base.revision + 2 /\ op[r].forced = job[s].forced
      BY <1>1, <1>2, <1>3, <2>1 DEF Resumable
    <3>2. r # o /\ op'[r] = op[r]
      BY <1>1, <1>2, <3>1
    <3>3. doc.units = op[r].base.units
      BY <3>1 DEF Owned, GivenUp, GaveBack
    <3>4. \A d \in Op : op'[d].source = r => d = o
      BY <1>2, <3>1 DEF HasChild
    <3>. QED
      BY <1>2, <2>1, <3>1, <3>2, <3>3, <3>4
  <2>2. CASE c # o
    <3>1. /\ op'[c] = op[c] /\ op[c].source \in Op
          /\ op[op[c].source].status \in {"failed", "interrupted"}
          /\ op[c].base.units = op[op[c].source].base.units
          /\ op[c].forced = op[op[c].source].forced
          /\ \A d \in Op : op[d].source = op[c].source => d = c
      BY <1>1, <1>2, <1>3, <2>2 DEF Fresh, ResumeIsFresh, Row
    <3>2. op[c].source # o /\ op'[op[c].source] = op[op[c].source]
      BY <1>1, <1>2, <3>1
    <3>3. r # op[c].source
      BY <1>1, <3>1 DEF HasChild
    <3>. QED
      BY <1>2, <3>1, <3>2, <3>3
  <2>. QED
    BY <2>1, <2>2
<1>. QED
  BY <1>3 DEF ResumeIsFresh

LEMMA FreshStep == ASSUME TypeInv, Owned, Fresh, [Next]_vars PROVE Fresh'
<1>0. op \in [Op -> Row]
  BY DEF TypeInv, Shaped
<1>1. ASSUME NEW o \in Op, op'[o].status = "none" PROVE op'[o].source = NoOp
  <2>1. op[o].status = "none"
    BY <1>1, RowsLast
  <2>2. ASSUME NEW s \in Server, Admit(s, o) PROVE FALSE
    BY <1>0, <1>1, <2>2 DEF Admit, AdmittedRow
  <2>. QED
    BY <2>1, <2>2, RowsLast DEF Fresh
<1>2. ResumeIsFresh'
  <2>1. CASE \E s \in Server, o \in Op : Admit(s, o)
    BY <2>1, AdmittedIsFresh
  <2>2. CASE ~\E s \in Server, o \in Op : Admit(s, o)
    <3>1. \A o \in Op : /\ op'[o].base = op[o].base /\ op'[o].source = op[o].source
                        /\ op'[o].forced = op[o].forced
                        /\ op[o].status \in Ended => op'[o] = op[o]
      BY <2>2, RowsLast
    <3>2. \A o \in Op : op[o].source \in Op \union {NoOp}
      BY <1>0 DEF Row
    <3>. QED
      BY <3>1, <3>2 DEF Fresh, ResumeIsFresh, Ended
  <2>. QED
    BY <2>1, <2>2
<1>. QED
  BY <1>1, <1>2, AskersKnow DEF Fresh

\* What an operation resumes was given up, on the study units it starts from
\* and with the same demand for OCR, and nothing else resumes it.
THEOREM ResumedOnce == Spec => []ResumeIsFresh
<1>1. TypeInv /\ Owned /\ Fresh /\ [Next]_vars => Fresh'
  BY FreshStep
<1>2. Fresh => ResumeIsFresh
  BY DEF Fresh
<1>. QED
  BY <1>1, <1>2, InitFresh, OwnedAlways, PTL DEF Spec

-----------------------------------------------------------------------------
(* One worker for each operation *)

\* An operation that a worker has was admitted, and no other worker has it.
OneWorker ==
    /\ \A s \in Server : pc[s] \in Executing => op[job[s].op].status # "none"
    /\ \A s, t \in Server :
          pc[s] \in Executing /\ pc[t] \in Executing /\ job[s].op = job[t].op => s = t

\* What a stream step does to the locals: in the code that executes an
\* operation it keeps the operation, and the way in is an admission.
LEMMA WorkerSteps ==
  ASSUME TypeInv, NEW s \in Server, Step(s) \/ Raise(s), pc[s] \in Executing
  PROVE  /\ pc'[s] \in (Executing \ {"open"}) \union {"answer"}
         /\ job'[s].op = job[s].op /\ job'[s].forced = job[s].forced
         /\ told' = told /\ cancelled' = cancelled
         /\ pc[s] # "open" => job'[s].known = job[s].known
         /\ pc[s] \in Working /\ pc'[s] = "answer" => job'[s].outcome = "returned"
         /\ pc'[s] # "answer" => job'[s].outcome = job[s].outcome
         /\ pc[s] \in {"fail", "interrupt"} =>
              /\ \/ MarkFailed(s) /\ pc[s] = "fail"
                 \/ MarkInterrupted(s) /\ pc[s] = "interrupt"
                 \/ MarkRolledBack(s)
              /\ pc'[s] = "answer" /\ job'[s].outcome \in {"raised", "interrupted"}
<1>0. /\ pc \in [Server -> Label] /\ job \in [Server -> Job] /\ job[s] \in Job
  BY DEF TypeInv, Shaped
<1>1. ASSUME NEW out, job'[s] = [job[s] EXCEPT !.outcome = out]
      PROVE  /\ job'[s].op = job[s].op /\ job'[s].forced = job[s].forced
             /\ job'[s].known = job[s].known /\ job'[s].outcome = out
  BY <1>0, <1>1 DEF Job
<1>2. ASSUME NEW c, NEW label \in Working, Save(s, c, label)
      PROVE  pc'[s] \in Working \union {"fail"}
  BY <1>2, SaveGoes
<1>3. CASE OpenCheckpoint(s)
  BY <1>0, <1>2, <1>3 DEF OpenCheckpoint, stream, Executing, Working, Job
<1>4. CASE ReuseOutput(s) \/ ReuseReport(s) \/ ParsePage(s) \/ SaveReport(s)
  <2>1. pc'[s] \in Working \union {"fail"} /\ pc[s] \in Working /\ UNCHANGED <<told, cancelled>>
    BY <1>2, <1>4 DEF ReuseOutput, ReuseReport, ParsePage, SaveReport, stream, Working
  <2>2. \/ \E x : job' = [job EXCEPT ![s] = [job[s] EXCEPT !.report = x]]
        \/ \E x : job' = [job EXCEPT ![s] = [job[s] EXCEPT !.done = x]]
        \/ \E x, y : job' = [job EXCEPT ![s] = [job[s] EXCEPT !.report = x, !.prepared = y]]
    <3>1. CASE ReuseOutput(s)
      BY <3>1 DEF ReuseOutput
    <3>2. CASE ReuseReport(s) \/ SaveReport(s)
      BY <3>2 DEF ReuseReport, SaveReport
    <3>3. CASE ParsePage(s)
      BY <3>3 DEF ParsePage
    <3>. QED
      BY <1>4, <3>1, <3>2, <3>3
  <2>3. /\ job'[s].op = job[s].op /\ job'[s].forced = job[s].forced /\ job'[s].known = job[s].known
        /\ job'[s].outcome = job[s].outcome
    <3>1. ASSUME NEW x, job' = [job EXCEPT ![s] = [job[s] EXCEPT !.report = x]]
          PROVE  /\ job'[s].op = job[s].op /\ job'[s].forced = job[s].forced
                 /\ job'[s].known = job[s].known /\ job'[s].outcome = job[s].outcome
      BY <1>0, <3>1 DEF Job
    <3>2. ASSUME NEW x, job' = [job EXCEPT ![s] = [job[s] EXCEPT !.done = x]]
          PROVE  /\ job'[s].op = job[s].op /\ job'[s].forced = job[s].forced
                 /\ job'[s].known = job[s].known /\ job'[s].outcome = job[s].outcome
      BY <1>0, <3>2 DEF Job
    <3>3. ASSUME NEW x, NEW y, job' = [job EXCEPT ![s] = [job[s] EXCEPT !.report = x, !.prepared = y]]
          PROVE  /\ job'[s].op = job[s].op /\ job'[s].forced = job[s].forced
                 /\ job'[s].known = job[s].known /\ job'[s].outcome = job[s].outcome
      BY <1>0, <3>3 DEF Job
    <3>. QED
      BY <2>2, <3>1, <3>2, <3>3
  <2>. QED
    BY <2>1, <2>3 DEF Executing, Working
<1>5. CASE BuildUnits(s) \/ BeginParsing(s) \/ Prepare(s) \/ NoticeCancel(s) \/ Raise(s)
           \/ CommitSuccess(s) \/ CommitRefused(s)
  <2>1. /\ pc[s] \in Working /\ pc'[s] \in Working \union {"fail", "interrupt"}
        /\ UNCHANGED <<told, cancelled>>
    BY <1>0, <1>2, <1>5 DEF BuildUnits, BeginParsing, Prepare, NoticeCancel, Raise, CommitSuccess,
       CommitRefused, Goto, stream, Working, Checking
  <2>2. CASE job' = job
    BY <2>1, <2>2 DEF Executing, Working
  <2>3. ASSUME NEW y, job' = [job EXCEPT ![s] = [job[s] EXCEPT !.prepared = y]]
        PROVE  /\ job'[s].op = job[s].op /\ job'[s].forced = job[s].forced
               /\ job'[s].known = job[s].known /\ job'[s].outcome = job[s].outcome
    BY <1>0, <2>3 DEF Job
  <2>4. job' = job \/ \E y : job' = [job EXCEPT ![s] = [job[s] EXCEPT !.prepared = y]]
    BY <1>5 DEF BuildUnits, BeginParsing, Prepare, NoticeCancel, Raise, CommitSuccess, CommitRefused
  <2>. QED
    BY <2>1, <2>2, <2>3, <2>4 DEF Executing, Working
<1>6. CASE ReadBack(s)
  <2>1. pc[s] = "readback" /\ UNCHANGED <<told, cancelled>>
    BY <1>6 DEF ReadBack, stream
  <2>2. \/ pc'[s] = "answer" /\ job'[s] = [job[s] EXCEPT !.outcome = "returned"]
        \/ pc'[s] = "fail" /\ job' = job
    BY <1>0, <1>6 DEF ReadBack, Answer, Goto
  <2>3. CASE pc'[s] = "answer" /\ job'[s] = [job[s] EXCEPT !.outcome = "returned"]
    BY <1>1, <2>1, <2>3 DEF Executing, Working
  <2>4. CASE pc'[s] = "fail" /\ job' = job
    BY <2>1, <2>4 DEF Executing, Working
  <2>. QED
    BY <2>2, <2>3, <2>4
<1>7. CASE MarkFailed(s) \/ MarkInterrupted(s) \/ MarkRolledBack(s)
  <2>1. /\ UNCHANGED <<told, cancelled>> /\ pc'[s] = "answer"
        /\ \/ MarkFailed(s) /\ pc[s] = "fail" /\ job'[s] = [job[s] EXCEPT !.outcome = "raised"]
           \/ MarkRolledBack(s) /\ job'[s] = [job[s] EXCEPT !.outcome = "raised"]
           \/ MarkInterrupted(s) /\ pc[s] = "interrupt"
              /\ job'[s] = [job[s] EXCEPT !.outcome = "interrupted"]
    <3>1. CASE MarkFailed(s) \/ MarkInterrupted(s)
      BY <1>0, <3>1 DEF MarkFailed, MarkInterrupted, MarkNotCommitted, Answer, Goto, stream
    <3>2. CASE MarkRolledBack(s)
      BY <1>0, <3>2 DEF MarkRolledBack, Answer, Goto, stream
    <3>. QED
      BY <1>7, <3>1, <3>2
  <2>2. pc[s] \in {"fail", "interrupt"}
    BY <1>7 DEF MarkFailed, MarkInterrupted, MarkRolledBack, MarkNotCommitted
  <2>3. PICK out \in {"raised", "interrupted"} : job'[s] = [job[s] EXCEPT !.outcome = out]
    BY <2>1
  <2>4. /\ job'[s].op = job[s].op /\ job'[s].forced = job[s].forced
        /\ job'[s].known = job[s].known /\ job'[s].outcome = out
    BY <1>1, <2>3
  <2>. QED
    BY <2>1, <2>2, <2>3, <2>4 DEF Executing, Working
<1>8. ~(Snapshot(s) \/ AdmitRefused(s) \/ (\E o \in Op : Admit(s, o)) \/ ReadChild(s)
        \/ ClaimTerminal(s) \/ Tell(s))
  BY DEF Snapshot, AdmitRefused, Admit, ReadChild, ClaimTerminal, Tell, Executing, Working
<1>. QED
  BY <1>3, <1>4, <1>5, <1>6, <1>7, <1>8 DEF Step

LEMMA EntersByAdmission ==
  ASSUME TypeInv, NEW s \in Server, StreamStep(s), pc'[s] \in Executing, pc[s] \notin Executing
  PROVE  \E o \in Op : /\ Admit(s, o) /\ pc'[s] = "open"
                       /\ job'[s] = [job[s] EXCEPT !.op = o] /\ job'[s].op = o
                       /\ told'[s] = told[s] /\ cancelled' = cancelled
<1>0. pc \in [Server -> Label] /\ job \in [Server -> Job] /\ job[s] \in Job
  BY DEF TypeInv, Shaped
<1>1. ~(\E source \in Op \union {NoOp}, forced \in Forced : Ask(s, source, forced))
  BY <1>0 DEF Ask, Goto, Executing, Working
<1>2. ~(Cancel(s) \/ Crash(s) \/ Raise(s))
  BY <1>0 DEF Cancel, Crash, Raise, Goto, Executing, Working
<1>3. ~(Snapshot(s) \/ AdmitRefused(s) \/ ReadChild(s) \/ ClaimTerminal(s) \/ Tell(s))
  BY <1>0 DEF Snapshot, AdmitRefused, ReadChild, ClaimTerminal, Tell, Answer, Goto, Executing, Working
<1>4. ~(OpenCheckpoint(s) \/ ReuseOutput(s) \/ ReuseReport(s) \/ BeginParsing(s) \/ ParsePage(s)
        \/ SaveReport(s) \/ BuildUnits(s) \/ Prepare(s) \/ NoticeCancel(s))
  BY DEF OpenCheckpoint, ReuseOutput, ReuseReport, BeginParsing, ParsePage, SaveReport, BuildUnits,
     Prepare, NoticeCancel, Executing, Working, Checking
<1>5. ~(CommitSuccess(s) \/ CommitRefused(s) \/ ReadBack(s) \/ MarkFailed(s) \/ MarkInterrupted(s) \/ MarkRolledBack(s))
  BY DEF CommitSuccess, CommitRefused, ReadBack, MarkFailed, MarkInterrupted, MarkRolledBack, MarkNotCommitted,
     Executing, Working
<1>6. PICK o \in Op : Admit(s, o)
  BY <1>1, <1>2, <1>3, <1>4, <1>5 DEF StreamStep, Step
<1>7. [job[s] EXCEPT !.op = o].op = o
  BY <1>0 DEF Job
<1>. QED
  BY <1>0, <1>6, <1>7 DEF Admit, Goto, stream

\* A worker that executes after a step did before, or is just admitted.
LEMMA Executes ==
  ASSUME TypeInv, [Next]_vars, NEW s \in Server, pc'[s] \in Executing
  PROVE  \/ pc[s] \in Executing /\ job'[s].op = job[s].op
         \/ \E o \in Op : Admit(s, o) /\ job'[s].op = o
<1>1. CASE Untouched(s)
  BY <1>1 DEF Untouched
<1>2. CASE StreamStep(s) /\ pc[s] \notin Executing
  BY <1>2, EntersByAdmission
<1>3. CASE StreamStep(s) /\ pc[s] \in Executing
  <2>1. CASE Step(s) \/ Raise(s)
    BY <1>3, <2>1, WorkerSteps
  <2>2. CASE Cancel(s)
    BY <1>3, <2>2 DEF Cancel
  <2>3. ~Crash(s) /\ ~\E source \in Op \union {NoOp}, forced \in Forced : Ask(s, source, forced)
    BY <1>3 DEF Crash, Ask, Goto, Executing, Working, TypeInv, Shaped
  <2>. QED
    BY <1>3, <2>1, <2>2, <2>3 DEF StreamStep
<1>. QED
  BY <1>1, <1>2, <1>3, Actors

LEMMA InitOneWorker == Init => OneWorker
BY DEF Init, OneWorker, Executing, Working

LEMMA OneWorkerStep ==
  ASSUME TypeInv, Owned, OneWorker, [Next]_vars
  PROVE  OneWorker'
<1>1. ASSUME NEW s \in Server, pc'[s] \in Executing
      PROVE  op'[job'[s].op].status # "none"
  <2>1. CASE pc[s] \in Executing /\ job'[s].op = job[s].op
    BY <2>1, RowsLast DEF OneWorker, TypeInv, Located
  <2>2. ASSUME NEW o \in Op, Admit(s, o), job'[s].op = o PROVE op'[o].status # "none"
    BY <2>2 DEF Admit, AdmittedRow, TypeInv, Shaped
  <2>. QED
    BY <1>1, <2>1, <2>2, Executes
<1>2. ASSUME NEW s \in Server, NEW t \in Server, s # t,
             pc'[s] \in Executing, pc'[t] \in Executing, job'[s].op = job'[t].op
      PROVE  FALSE
  <2>1. ASSUME NEW u \in Server, NEW v \in Server, u # v, NEW o \in Op, Admit(u, o),
               job'[u].op = o, pc'[v] \in Executing
        PROVE  job'[v].op # o
    <3>1. Untouched(v)
      BY <2>1, OthersUntouched DEF StreamStep, Step
    <3>2. pc[v] \in Executing /\ job'[v].op = job[v].op
      BY <2>1, <3>1 DEF Untouched
    <3>. QED
      BY <2>1, <3>2 DEF OneWorker, Admit
  <2>2. pc[s] \in Executing /\ job'[s].op = job[s].op
    BY <1>2, <2>1, Executes
  <2>3. pc[t] \in Executing /\ job'[t].op = job[t].op
    BY <1>2, <2>1, Executes
  <2>. QED
    BY <1>2, <2>2, <2>3 DEF OneWorker
<1>. QED
  BY <1>1, <1>2 DEF OneWorker

-----------------------------------------------------------------------------
(* What the client is told *)

\* What a stream knows of its operation on the way to its terminal event.
Informed(s) ==
    /\ pc[s] \in {"snapshot", "admit"} => job[s].op = NoOp /\ ~job[s].known
    /\ pc[s] = "open" => ~job[s].known /\ op[job[s].op].status # "committed"
    /\ pc[s] \in Working \union {"interrupt", "child"} => job[s].known
    /\ job[s].known => job[s].op \in Op
    /\ pc[s] \in {"fail", "answer", "tell"} /\ ~job[s].known /\ job[s].op # NoOp =>
          GivenUp(job[s].op)
    /\ job[s].outcome = "returned" => job[s].op \in Op

\* What it was told.
Told(s) ==
    /\ told[s].event # "" => pc[s] = "idle"
    /\ told[s].evidence = "committed" => told[s].op \in Op
    /\ pc[s] = "tell" /\ s \in cancelled => job[s].outcome # "returned"

Informing == StreamTellsTruth /\ \A s \in Server : Informed(s) /\ Told(s)

LEMMA InitInforming == Init => Informing
<1> SUFFICES ASSUME Init PROVE Informing
  OBVIOUS
<1>1. \A s \in Server : pc[s] = "idle" /\ ~job[s].known /\ job[s].outcome = ""
  BY RequestIsNew, RequestKnowsNothing DEF Init, NoJob
<1>2. \A s \in Server : told[s].event = "" /\ told[s].evidence = ""
  BY DEF Init, Nothing
<1>. QED
  BY <1>1, <1>2 DEF Informing, StreamTellsTruth, Informed, Told, Working

\* The ends of an operation are final, and only a running one is committed.
LEMMA EndsLast ==
  ASSUME TypeInv, Owned, [Next]_vars, NEW o \in Op
  PROVE  /\ GivenUp(o) => op'[o].status \in {"failed", "interrupted"}
         /\ op[o].status = "committed" => op'[o].status = "committed"
BY RowsLast DEF GivenUp, Ended

\* Its own step gives a stream in the code that executes an operation the
\* evidence it will have.
LEMMA InformedWorker ==
  ASSUME TypeInv, Owned, OneWorker, NEW s \in Server, Informed(s), [Next]_vars,
         Step(s) \/ Raise(s), pc[s] \in Executing
  PROVE  Informed(s)'
<1> DEFINE o == job[s].op
<1>0. /\ o \in Op /\ NoOp \notin Op /\ job[s] \in Job /\ job \in [Server -> Job]
      /\ pc \in [Server -> Label] /\ op[o] \in Row /\ op[o].status # "none"
  BY DEF TypeInv, Shaped, Located, OneWorker
<1>1. /\ pc'[s] \in (Executing \ {"open"}) \union {"answer"}
      /\ job'[s].op = o
      /\ pc[s] # "open" => job'[s].known = job[s].known
      /\ pc[s] \in {"fail", "interrupt"} => pc'[s] = "answer"
  BY WorkerSteps
<1>2. CASE pc[s] \in Working \union {"interrupt"}
  <2>1. job'[s].known
    BY <1>1, <1>2 DEF Informed, Working
  <2>. QED
    BY <1>0, <1>1, <2>1 DEF Informed, Executing, Working
<1>3. CASE pc[s] = "fail"
  <2>1. pc'[s] = "answer" /\ job'[s].known = job[s].known
    BY <1>1, <1>3
  <2>2. ~job'[s].known => op'[o].status \in {"failed", "interrupted"}
    BY <1>0, <1>3, <2>1, EndsLast DEF Informed
  <2>. QED
    BY <1>0, <1>1, <2>1, <2>2 DEF Informed, GivenUp, Executing, Working
<1>4. CASE pc[s] = "open"
  <2>1. OpenCheckpoint(s)
    BY <1>4 DEF Step, Raise, Snapshot, Admit, AdmitRefused, ReuseOutput, ReuseReport, BeginParsing,
       ParsePage, SaveReport, BuildUnits, Prepare, NoticeCancel, CommitSuccess, CommitRefused,
       ReadBack, MarkFailed, MarkInterrupted, MarkRolledBack, MarkNotCommitted, ReadChild, ClaimTerminal, Tell,
       Working, Checking
  <2>2. op' = op /\ job'[s].known = Running(o) /\ pc'[s] = (IF Running(o) THEN "begin" ELSE "fail")
    BY <1>0, <2>1 DEF OpenCheckpoint, Save, Goto, Job
  <2>3. ~Running(o) => op'[o].status \in {"failed", "interrupted"}
    BY <1>0, <1>4, <2>2 DEF Informed, GivenUp, Running, Row, Ended
  <2>. QED
    BY <1>0, <1>1, <2>2, <2>3 DEF Informed, GivenUp, Running, Executing, Working
<1>. QED
  BY <1>2, <1>3, <1>4 DEF Executing

\* Before its admission, and after its operation.
LEMMA InformedElsewhere ==
  ASSUME TypeInv, Owned, NEW s \in Server, Informed(s), [Next]_vars,
         Step(s), pc[s] \notin Executing
  PROVE  Informed(s)'
<1>0. /\ NoOp \notin Op /\ job[s] \in Job /\ job \in [Server -> Job] /\ pc \in [Server -> Label]
      /\ op \in [Op -> Row]
  BY DEF TypeInv, Shaped
<1>1. ASSUME NEW out \in {"returned", "raised"}, Answer(s, out)
      PROVE  pc'[s] = "answer" /\ job'[s].op = job[s].op /\ job'[s].known = job[s].known
             /\ job'[s].outcome = out
  BY <1>0, <1>1 DEF Answer, Goto, Job
<1>2. ASSUME NEW c \in Op, Goto(s, "child"),
             job' = [job EXCEPT ![s] = [job[s] EXCEPT !.op = c, !.known = TRUE]]
      PROVE  Informed(s)'
  <2>1. pc'[s] = "child" /\ job'[s].op = c /\ job'[s].known
    BY <1>0, <1>2 DEF Goto, Job
  <2>. QED
    BY <2>1 DEF Informed, Working
<1>3. ASSUME pc[s] \in {"snapshot", "admit"}, Answer(s, "raised") PROVE Informed(s)'
  <2>1. pc'[s] = "answer" /\ job'[s].op = NoOp /\ ~job'[s].known /\ job'[s].outcome = "raised"
    BY <1>1, <1>3 DEF Informed
  <2>. QED
    BY <2>1 DEF Informed, Working
<1>4. \A r : HasChild(r) => ChildOf(r) \in Op
  BY DEF HasChild, ChildOf
<1>5. CASE Snapshot(s)
  <2>1. CASE HasChild(job[s].source) /\ Goto(s, "child")
             /\ job' = [job EXCEPT ![s] = [job[s] EXCEPT !.op = ChildOf(job[s].source), !.known = TRUE]]
    BY <1>2, <1>4, <2>1
  <2>2. CASE /\ Goto(s, "admit")
             /\ job' = [job EXCEPT ![s] = [job[s] EXCEPT !.restored = saved[job[s].source]]]
    <3>1. pc'[s] = "admit" /\ job'[s].op = job[s].op /\ job'[s].known = job[s].known
          /\ job'[s].outcome = job[s].outcome
      BY <1>0, <2>2 DEF Goto, Job
    <3>. QED
      BY <1>5, <3>1 DEF Snapshot, Informed, Working
  <2>. QED
    BY <1>3, <1>5, <2>1, <2>2 DEF Snapshot
<1>6. CASE AdmitRefused(s)
  BY <1>2, <1>3, <1>4, <1>6 DEF AdmitRefused
<1>7. ASSUME NEW o \in Op, Admit(s, o) PROVE Informed(s)'
  <2>1. pc'[s] = "open" /\ job'[s].op = o /\ job'[s].known = job[s].known
        /\ op'[o].status = "running"
    BY <1>0, <1>7 DEF Admit, AdmittedRow, Goto, Job
  <2>. QED
    BY <1>7, <2>1 DEF Admit, Informed, Working
<1>8. CASE ReadChild(s)
  <2>1. pc'[s] = "answer" /\ job'[s].op = job[s].op /\ job'[s].known
    BY <1>1, <1>8 DEF ReadChild, Informed
  <2>. QED
    BY <1>8, <2>1 DEF ReadChild, Informed, TypeInv, Located, Working
<1>9. CASE ClaimTerminal(s)
  <2>1. /\ pc'[s] = "tell" /\ job'[s].op = job[s].op /\ job'[s].known = job[s].known
        /\ job'[s].outcome \in {"cancelled", job[s].outcome}
    BY <1>0, <1>9 DEF ClaimTerminal, Goto, Job
  <2>2. ~job'[s].known /\ job[s].op # NoOp => op'[job[s].op].status \in {"failed", "interrupted"}
    BY <1>0, <1>9, <2>1, EndsLast DEF ClaimTerminal, Informed, Job
  <2>. QED
    BY <2>1, <2>2 DEF Informed, GivenUp, Working
<1>10. CASE Tell(s)
  <2>1. pc'[s] = "idle" /\ ~job'[s].known /\ job'[s].outcome = ""
    BY <1>0, <1>10 DEF Tell, Goto, NoJob, Request
  <2>. QED
    BY <2>1 DEF Informed, Working
<1>11. ~(OpenCheckpoint(s) \/ ReuseOutput(s) \/ ReuseReport(s) \/ BeginParsing(s) \/ ParsePage(s)
         \/ SaveReport(s) \/ BuildUnits(s) \/ Prepare(s) \/ NoticeCancel(s) \/ CommitSuccess(s)
         \/ CommitRefused(s) \/ ReadBack(s) \/ MarkFailed(s) \/ MarkInterrupted(s) \/ MarkRolledBack(s))
  BY DEF OpenCheckpoint, ReuseOutput, ReuseReport, BeginParsing, ParsePage, SaveReport, BuildUnits,
     Prepare, NoticeCancel, CommitSuccess, CommitRefused, ReadBack, MarkFailed, MarkInterrupted, MarkRolledBack,
     MarkNotCommitted, Executing, Working, Checking
<1>. QED
  BY <1>5, <1>6, <1>7, <1>8, <1>9, <1>10, <1>11 DEF Step

\* An operation is committed by the worker that has it.
LEMMA NotCommittedByOthers ==
  ASSUME TypeInv, Owned, OneWorker, [Next]_vars, NEW s \in Server, pc[s] = "open", Untouched(s) \/ Cancel(s),
         op[job[s].op].status # "committed"
  PROVE  op'[job[s].op].status # "committed"
<1> DEFINE o == job[s].op
<1>0. o \in Op /\ op \in [Op -> Row] /\ pc[s] \in Executing
  BY DEF TypeInv, Shaped, Located, Executing
<1>. HIDE DEF o
<1>1. RowStep
  BY RowWrites
<1>2. ASSUME NEW t \in Server, CommitSuccess(t) PROVE op'[o] = op[o]
  <2>1. pc[t] = "commit" /\ pc[t] \in Executing /\ pc'[t] = "readback"
    BY <1>2 DEF CommitSuccess, Goto, TypeInv, Shaped, Executing, Working
  <2>2. job[t].op # o
    BY <1>0, <2>1 DEF o, OneWorker
  <2>. QED
    BY <1>0, <1>2, <2>2 DEF CommitSuccess
<1>3. ASSUME NEW t \in Server, NEW c \in Op, Admit(t, c) PROVE op'[o].status # "committed"
  BY <1>0, <1>3 DEF Admit, AdmittedRow, o
<1>4. ASSUME NEW c \in Op, NEW status \in {"failed", "interrupted"}, Ends(c, status)
      PROVE  op'[o].status # "committed"
  BY <1>0, <1>4 DEF Ends, EndedRow, Row, o
<1>. QED
  BY <1>1, <1>2, <1>3, <1>4 DEF RowStep, Rename, o

LEMMA InformedStep ==
  ASSUME TypeInv, Owned, OneWorker, NEW s \in Server, Informed(s), [Next]_vars
  PROVE  Informed(s)'
<1>0. /\ NoOp \notin Op /\ job[s] \in Job /\ job \in [Server -> Job] /\ pc \in [Server -> Label]
  BY DEF TypeInv, Shaped
<1>1. CASE Untouched(s) \/ Cancel(s)
  <2>1. pc'[s] = pc[s] /\ job'[s] = job[s]
    BY <1>1 DEF Untouched, Cancel
  <2>2. ASSUME pc[s] = "open" PROVE op'[job[s].op].status # "committed"
    <3>1. op[job[s].op].status # "committed"
      BY <2>2 DEF Informed
    <3>. QED
      BY <1>1, <2>2, <3>1, NotCommittedByOthers
  <2>3. job[s].op \in Op /\ GivenUp(job[s].op) => op'[job[s].op].status \in {"failed", "interrupted"}
    BY EndsLast
  <2>4. job[s].op \in Op \union {NoOp}
    BY <1>0 DEF Job
  <2>. QED
    BY <2>1, <2>2, <2>3, <2>4 DEF Informed, GivenUp
<1>2. ASSUME NEW source \in Op \union {NoOp}, NEW forced \in Forced, Ask(s, source, forced)
      PROVE  Informed(s)'
  <2>1. pc'[s] \in {"admit", "snapshot"} /\ job'[s] = Request(source, forced)
    BY <1>0, <1>2 DEF Ask, Goto
  <2>2. job'[s].op = NoOp /\ job'[s].outcome = ""
    BY <2>1, RequestIsNew
  <2>3. ~job'[s].known
    BY <2>1, RequestKnowsNothing
  <2>. QED
    BY <2>1, <2>2, <2>3 DEF Informed, Working
<1>3. CASE Crash(s)
  <2>1. pc'[s] = "idle" /\ job'[s] = NoJob
    BY <1>0, <1>3 DEF Crash, Goto
  <2>2. job'[s].outcome = ""
    BY <2>1, RequestIsNew DEF NoJob
  <2>3. ~job'[s].known
    BY <2>1, RequestKnowsNothing DEF NoJob
  <2>. QED
    BY <2>1, <2>2, <2>3 DEF Informed, Working
<1>4. CASE Step(s) \/ Raise(s)
  BY <1>4, InformedWorker, InformedElsewhere DEF Raise, Executing
<1>. QED
  BY <1>1, <1>2, <1>3, <1>4, Actors DEF StreamStep

\* What was told stays true, and nothing is told before the end.
True(s) ==
    told[s].event # "" =>
        /\ told[s].event = "completed" <=> told[s].evidence = "committed"
        /\ told[s].evidence = "committed" => op[told[s].op].status = "committed"
        /\ told[s].evidence = "not_committed" /\ told[s].op # NoOp => GivenUp(told[s].op)
        /\ s \in cancelled => told[s].event # "completed"

\* The terminal event of a stream has the evidence of that moment.
LEMMA TellsTruth ==
  ASSUME TypeInv, NEW s \in Server, Informed(s), Told(s), Tell(s)
  PROVE  True(s)' /\ Told(s)'
<1>0. /\ told \in [Server -> Terminal] /\ job[s] \in Job /\ pc'[s] = "idle" /\ op' = op
      /\ cancelled' = cancelled /\ pc[s] = "tell"
  BY DEF TypeInv, Shaped, Tell, Goto, store
<1> DEFINE o == job[s].op
           answer == [event |-> IF job[s].outcome \in {"cancelled", "interrupted"}
                                THEN "cancelled" ELSE "error",
                      evidence |-> FailureEvidence(s), op |-> o]
<1>1. CASE job[s].outcome = "returned" /\ ReadsBack(o)
  <2>1. told'[s] = [event |-> "completed", evidence |-> "committed", op |-> o]
    BY <1>0, <1>1 DEF Tell
  <2>2. o \in Op /\ op[o].status = "committed" /\ s \notin cancelled
    BY <1>0, <1>1 DEF Informed, Told, ReadsBack
  <2>3. told'[s].event = "completed" /\ told'[s].evidence = "committed" /\ told'[s].op = o
    BY <2>1
  <2>4. op'[told'[s].op].status = "committed" /\ s \notin cancelled'
    BY <1>0, <2>2, <2>3
  <2>. QED
    BY <1>0, <2>2, <2>3, <2>4 DEF True, Told
<1>2. CASE ~(job[s].outcome = "returned" /\ ReadsBack(o))
  <2>1. told'[s] = answer
    BY <1>0, <1>2 DEF Tell
  <2>2. /\ told'[s].event \in {"cancelled", "error"} /\ told'[s].op = o
        /\ told'[s].evidence = FailureEvidence(s)
    BY <2>1
  <2>3. /\ FailureEvidence(s) \in {"uncertain", "not_committed"}
        /\ FailureEvidence(s) = "not_committed" /\ o # NoOp =>
              op[o].status \in {"failed", "interrupted"}
    BY <1>0 DEF FailureEvidence, Informed, GivenUp
  <2>. QED
    BY <1>0, <2>2, <2>3 DEF True, Told, GivenUp
<1>. QED
  BY <1>1, <1>2

LEMMA ToldStep ==
  ASSUME TypeInv, Owned, NEW s \in Server, Informed(s), Told(s), True(s), [Next]_vars
  PROVE  True(s)' /\ Told(s)'
<1>0. /\ told \in [Server -> Terminal] /\ told[s].op \in Op \union {NoOp} /\ NoOp \notin Op
      /\ pc \in [Server -> Label] /\ job[s] \in Job /\ job \in [Server -> Job]
  BY DEF TypeInv, Shaped, Terminal
<1>1. ASSUME told[s].event = "", told'[s] = told[s], pc'[s] # "tell" PROVE True(s)' /\ Told(s)'
  BY <1>1 DEF True, Told
<1>2. ASSUME told'[s] = told[s], s \in cancelled' <=> s \in cancelled PROVE True(s)'
  <2>1. /\ told[s].op \in Op /\ GivenUp(told[s].op) =>
              op'[told[s].op].status \in {"failed", "interrupted"}
        /\ told[s].op \in Op /\ op[told[s].op].status = "committed" =>
              op'[told[s].op].status = "committed"
    BY EndsLast
  <2>. QED
    BY <1>0, <1>2, <2>1 DEF True, Told, GivenUp
<1>3. CASE Untouched(s)
  BY <1>2, <1>3 DEF Untouched, Told
<1>4. CASE Cancel(s)
  BY <1>1, <1>4 DEF Cancel, Completed, Told
<1>5. ASSUME NEW source \in Op \union {NoOp}, NEW forced \in Forced, Ask(s, source, forced)
      PROVE  True(s)' /\ Told(s)'
  <2>1. told'[s].event = "" /\ told'[s].evidence = "" /\ pc'[s] # "tell"
    BY <1>0, <1>5 DEF Ask, Goto, Nothing
  <2>. QED
    BY <2>1 DEF True, Told
<1>6. CASE Crash(s)
  <2>1. told' = told /\ cancelled' = cancelled /\ pc'[s] = "idle"
    BY <1>0, <1>6 DEF Crash, Goto
  <2>. QED
    BY <1>2, <2>1 DEF Told
<1>7. CASE (Step(s) \/ Raise(s)) /\ pc[s] \in Executing
  <2>1. told' = told /\ pc'[s] # "tell" /\ pc[s] # "idle"
    BY <1>7, WorkerSteps DEF Executing, Working
  <2>. QED
    BY <1>1, <2>1 DEF Told
<1>8. CASE Snapshot(s) \/ AdmitRefused(s) \/ ReadChild(s) \/ \E o \in Op : Admit(s, o)
  <2>1. told' = told /\ pc'[s] # "tell" /\ pc[s] # "idle"
    BY <1>0, <1>8 DEF Snapshot, AdmitRefused, ReadChild, Admit, Answer, Goto, stream
  <2>. QED
    BY <1>1, <2>1 DEF Told
<1>9. CASE ClaimTerminal(s)
  <2>1. told' = told /\ cancelled' = cancelled /\ told[s].event = ""
    BY <1>9 DEF ClaimTerminal, Told
  <2>2. s \in cancelled => job'[s].outcome = "cancelled"
    BY <1>0, <1>9 DEF ClaimTerminal, Job
  <2>. QED
    BY <2>1, <2>2 DEF True, Told
<1>10. CASE Tell(s)
  BY <1>10, TellsTruth
<1>11. Raise(s) => pc[s] \in Executing
  BY DEF Raise, Executing
<1>12. Step(s) /\ pc[s] \notin Executing =>
          \/ Snapshot(s) \/ AdmitRefused(s) \/ ReadChild(s) \/ \E o \in Op : Admit(s, o)
          \/ ClaimTerminal(s) \/ Tell(s)
  BY DEF Step, OpenCheckpoint, ReuseOutput, ReuseReport, BeginParsing, ParsePage, SaveReport,
     BuildUnits, Prepare, NoticeCancel, CommitSuccess, CommitRefused, ReadBack, MarkFailed,
     MarkInterrupted, MarkRolledBack, MarkNotCommitted, Executing, Working, Checking
<1>. QED
  BY <1>3, <1>4, <1>5, <1>6, <1>7, <1>8, <1>9, <1>10, <1>11, <1>12, Actors DEF StreamStep

LEMMA TruthIsTrue == StreamTellsTruth <=> \A s \in Server : True(s)
BY DEF StreamTellsTruth, True, GivenUp

LEMMA InformingStep ==
  ASSUME TypeInv, Owned, OneWorker, Informing, [Next]_vars
  PROVE  Informing'
<1>1. \A s \in Server : Informed(s) /\ Told(s) /\ True(s)
  BY TruthIsTrue DEF Informing
<1>2. \A s \in Server : Informed(s)' /\ True(s)' /\ Told(s)'
  BY <1>1, InformedStep, ToldStep
<1>3. StreamTellsTruth'
  BY <1>2 DEF StreamTellsTruth, True, GivenUp
<1>. QED
  BY <1>2, <1>3 DEF Informing

LEMMA WorkersAlways == Spec => [](TypeInv /\ Owned /\ OneWorker)
<1>1. TypeInv /\ Owned /\ OneWorker /\ [Next]_vars => OneWorker'
  BY OneWorkerStep
<1>. QED
  BY <1>1, InitOneWorker, OwnedAlways, PTL DEF Spec

\* "completed" was committed, "not_committed" never is, and a cancel in time is
\* not answered with "completed": for any streams, cancels, resumes and deaths.
THEOREM TerminalEventIsTrue == Spec => []StreamTellsTruth
<1>1. TypeInv /\ Owned /\ OneWorker /\ Informing /\ [Next]_vars => Informing'
  BY InformingStep
<1>2. Informing => StreamTellsTruth
  BY DEF Informing
<1>. QED
  BY <1>1, <1>2, InitInforming, WorkersAlways, PTL DEF Spec

-----------------------------------------------------------------------------
(* Saved work *)

\* The pages a checkpoint saves a resume, as Kept says of an operation's.
KeptIn(c, forced) ==
    IF c.report # "none" /\ Reusable(forced, c.report)
    THEN 1..PageCount
    ELSE {n \in DOMAIN c.pages : c.pages[n] = "good"}

\* A checkpoint within the budget and the file.
Bounded(c) ==
    /\ Len(c.pages) + c.size <= Capacity
    /\ Len(c.pages) <= PageCount

LEMMA PagesKept ==
  ASSUME NEW c \in Checkpoint, Len(c.pages) <= PageCount, NEW forced \in BOOLEAN
  PROVE  KeptIn(c, forced) \subseteq 1..PageCount
<1>1. c.pages \in Seq(Quality) /\ DOMAIN c.pages = 1..Len(c.pages) /\ Len(c.pages) \in Nat
  BY DEF Checkpoint
<1>. QED
  BY <1>1 DEF KeptIn

LEMMA PageKeeps ==
  ASSUME NEW c \in Checkpoint, Bounded(c), c.report = "none", c.size = 0, NEW q \in Quality,
         Len(c.pages) + 1 <= PageCount, NEW forced \in BOOLEAN
  PROVE  /\ Bounded(WithPage(c, q))
         /\ KeptIn(c, forced) \subseteq KeptIn(WithPage(c, q), forced)
         /\ WithPage(c, q).report = "none" /\ WithPage(c, q).size = 0
         /\ Len(WithPage(c, q).pages) <= Len(c.pages) + 1
<1>0. c.pages \in Seq(Quality) /\ Len(c.pages) \in Nat /\ DOMAIN c.pages = 1..Len(c.pages)
  BY DEF Checkpoint
<1>1. CASE WithPage(c, q) = [c EXCEPT !.limited = TRUE]
  <2>1. WithPage(c, q).pages = c.pages /\ WithPage(c, q).report = c.report
        /\ WithPage(c, q).size = c.size
    BY <1>1 DEF Checkpoint
  <2>. QED
    BY <1>0, <2>1 DEF Bounded, KeptIn
<1>2. CASE /\ WithPage(c, q) = [c EXCEPT !.pages = Append(c.pages, q)]
           /\ Len(c.pages) + c.size + 1 <= Capacity
  <2>1. WithPage(c, q).pages = Append(c.pages, q) /\ WithPage(c, q).report = c.report
        /\ WithPage(c, q).size = c.size
    BY <1>2 DEF Checkpoint
  <2>2. /\ Len(Append(c.pages, q)) = Len(c.pages) + 1
        /\ DOMAIN Append(c.pages, q) = 1..Len(c.pages) + 1
        /\ \A n \in 1..Len(c.pages) : Append(c.pages, q)[n] = c.pages[n]
    BY <1>0, AppendProperties
  <2>3. KeptIn(c, forced) \subseteq KeptIn(WithPage(c, q), forced)
    BY <1>0, <2>1, <2>2 DEF KeptIn
  <2>4. Len(WithPage(c, q).pages) = Len(c.pages) + 1 /\ WithPage(c, q).size = 0
        /\ WithPage(c, q).report = "none"
    BY <2>1, <2>2
  <2>. QED
    BY <1>0, <1>2, <2>3, <2>4 DEF Bounded
<1>. QED
  BY <1>1, <1>2, PageSaved

\* A stage takes the place of pages only when it makes them obsolete.
LEMMA StageKeeps ==
  ASSUME NEW c \in Checkpoint, Bounded(c), NEW forced \in BOOLEAN, NEW report \in Verdict,
         NEW output \in BOOLEAN, NEW size \in Nat,
         \/ KeptIn(c, forced) = {}
         \/ report # "none" /\ (c.report \in {"none", report} \/ Reusable(forced, report))
  PROVE  /\ Bounded(WithStage(c, forced, report, output, size))
         /\ KeptIn(c, forced) \subseteq KeptIn(WithStage(c, forced, report, output, size), forced)
<1> DEFINE w == WithStage(c, forced, report, output, size)
<1>0. /\ c.pages \in Seq(Quality) /\ Len(c.pages) \in Nat /\ Len(<<>>) = 0
      /\ KeptIn(c, forced) \subseteq 1..PageCount
  BY PagesKept DEF Checkpoint, Bounded
<1>1. CASE w = Staged(c, c.pages, report, output, size) /\ Len(c.pages) + size <= Capacity
  <2>1. w.pages = c.pages /\ w.size = size /\ w.report = report
    BY <1>1 DEF Staged
  <2>2. Bounded(w)
    BY <1>1, <2>1 DEF Bounded
  <2>. QED
    BY <1>0, <2>1, <2>2 DEF KeptIn
<1>2. CASE /\ w = Staged(c, <<>>, report, output, size)
           /\ Reusable(forced, report) /\ size <= Capacity
  <2>1. w.pages = <<>> /\ w.size = size /\ w.report = report
    BY <1>2 DEF Staged
  <2>2. Bounded(w)
    BY <1>0, <1>2, <2>1 DEF Bounded
  <2>. QED
    BY <1>0, <1>2, <2>1, <2>2 DEF KeptIn
<1>3. CASE w = [c EXCEPT !.limited = TRUE]
  <2>1. w.pages = c.pages /\ w.size = c.size /\ w.report = c.report
    BY <1>3 DEF Checkpoint
  <2>. QED
    BY <2>1 DEF Bounded, KeptIn
<1>. QED
  BY <1>1, <1>2, <1>3, StageSaved

LEMMA StageReport ==
  ASSUME NEW c \in Checkpoint, NEW forced \in BOOLEAN, NEW report \in Verdict,
         NEW output \in BOOLEAN, NEW size \in Nat
  PROVE  WithStage(c, forced, report, output, size).report \in {c.report, report}
BY DEF WithStage, Staged, Checkpoint

\* Where the worker of an operation is in its checkpoint.
Progress(s) ==
    LET o == job[s].op IN
    /\ pc[s] \in Executing => op[o].forced = job[s].forced
    /\ pc[s] \in {"snapshot", "admit", "open", "begin"} => job[s].done = <<>>
    /\ pc[s] \in {"open", "begin"} => saved[o].pages = <<>>
    /\ pc[s] \in {"open", "begin", "parse"} => saved[o].report = "none" /\ saved[o].size = 0
    /\ pc[s] = "parse" =>
          Len(saved[o].pages) <= Len(job[s].done) /\ Len(job[s].done) <= PageCount
    /\ pc[s] = "units" =>
          job[s].report # "none" /\ saved[o].report \in {"none", job[s].report}

Accounted ==
    /\ \A o \in Op : Bounded(saved[o])
    /\ \A o \in Op : op[o].status = "none" => saved[o] = NoCheckpoint
    /\ \A s \in Server : Progress(s)

\* What the worker s may make of its operation's checkpoint.
Saving(s, c) ==
    LET o == job[s].op IN
    \/ pc[s] = "open" /\ c = OpenedCheckpoint /\ pc'[s] = "begin" /\ job'[s].done = job[s].done
    \/ /\ pc[s] = "begin" /\ pc'[s] \in {"prepared", "units"}
       /\ \E report \in Verdict, output \in BOOLEAN, size \in Nat :
             /\ c = WithStage(saved[o], job[s].forced, report, output, size)
             /\ job'[s].report = report /\ (pc'[s] = "units" => report # "none")
    \/ /\ pc[s] = "parse" /\ Len(job[s].done) + 1 <= PageCount /\ pc'[s] = "parse"
       /\ \E q \in Quality :
             c = WithPage(saved[o], q) /\ job'[s].done = Append(job[s].done, q)
    \/ /\ pc[s] = "parse" /\ pc'[s] = "units"
       /\ \E report \in Verdict \ {"none"}, size \in Nat :
             /\ c = WithStage(saved[o], job[s].forced, report, FALSE, size)
             /\ job'[s].report = report
    \/ /\ pc[s] = "units" /\ pc'[s] = "prepared"
       /\ \E size \in Nat : c = WithStage(saved[o], job[s].forced, job[s].report, TRUE, size)

Writes(s) ==
    /\ Running(job[s].op) /\ op' = op
    /\ \E c : saved' = [saved EXCEPT ![job[s].op] = c] /\ Saving(s, c)

\* The worker is done with its checkpoint, or will not touch it in this step.
Idles(s) ==
    /\ saved' = saved
    /\ \/ pc'[s] \notin {"open", "begin", "parse", "units", "snapshot", "admit"}
       \/ pc[s] = "begin" /\ pc'[s] = "parse" /\ job' = job

LEMMA SaveCases ==
  ASSUME TypeInv, NEW s \in Server, NEW c, NEW label, Save(s, c, label)
  PROVE  \/ /\ Running(job[s].op) /\ saved' = [saved EXCEPT ![job[s].op] = c] /\ pc'[s] = label
         \/ saved' = saved /\ pc'[s] = "fail"
BY DEF Save, Goto, TypeInv, Shaped

LEMMA WorkerSaves ==
  ASSUME TypeInv, NEW s \in Server, Step(s) \/ Raise(s), pc[s] \in Executing
  PROVE  Writes(s) \/ Idles(s)
<1>0. /\ pc \in [Server -> Label] /\ job \in [Server -> Job] /\ job[s] \in Job
      /\ job[s].forced \in BOOLEAN /\ job[s].restored \in Checkpoint
  BY DEF TypeInv, Shaped, Job
<1>1. CASE OpenCheckpoint(s)
  <2>1. pc[s] = "open" /\ op' = op /\ Save(s, OpenedCheckpoint, "begin")
        /\ job'[s].done = job[s].done
    BY <1>0, <1>1 DEF OpenCheckpoint, Job
  <2>. QED
    BY <2>1, SaveCases DEF Writes, Idles, Saving
<1>2. CASE ReuseOutput(s) \/ ReuseReport(s)
  <2> DEFINE r == Restored(job[s].restored, job[s].forced)
  <2>1. r.report \in Verdict /\ r.size \in Nat
    BY <1>0, RestoredTyped
  <2>2. /\ pc[s] = "begin" /\ op' = op
        /\ \/ job'[s] = [job[s] EXCEPT !.report = r.report]
           \/ job'[s] = [job[s] EXCEPT !.report = r.report, !.prepared = Running(job[s].op)]
        /\ \E output \in BOOLEAN, label \in {"prepared", "units"} :
              /\ Save(s, WithStage(saved[job[s].op], job[s].forced, r.report, output, r.size), label)
              /\ label = "units" => r.report # "none"
    BY <1>0, <1>2 DEF ReuseOutput, ReuseReport
  <2>. HIDE DEF r
  <2>3. job'[s].report = r.report
    <3>1. \A x : [job[s] EXCEPT !.report = x].report = x
      BY <1>0 DEF Job
    <3>2. \A x, y : [job[s] EXCEPT !.report = x, !.prepared = y].report = x
      BY <1>0 DEF Job
    <3>3. CASE job'[s] = [job[s] EXCEPT !.report = r.report]
      BY <3>1, <3>3
    <3>4. CASE job'[s] = [job[s] EXCEPT !.report = r.report, !.prepared = Running(job[s].op)]
      BY <3>2, <3>4
    <3>. QED
      BY <2>2, <3>3, <3>4
  <2>4. PICK output \in BOOLEAN, label \in {"prepared", "units"} :
          /\ Save(s, WithStage(saved[job[s].op], job[s].forced, r.report, output, r.size), label)
          /\ label = "units" => r.report # "none"
    BY <2>2
  <2> DEFINE c == WithStage(saved[job[s].op], job[s].forced, r.report, output, r.size)
  <2>5. CASE Running(job[s].op) /\ saved' = [saved EXCEPT ![job[s].op] = c] /\ pc'[s] = label
    <3>1. Saving(s, c)
      BY <2>1, <2>2, <2>3, <2>4, <2>5 DEF Saving
    <3>. QED
      BY <2>2, <2>5, <3>1 DEF Writes
  <2>6. CASE saved' = saved /\ pc'[s] = "fail"
    BY <2>6 DEF Idles
  <2>. QED
    BY <2>4, <2>5, <2>6, SaveCases
<1>3. CASE ParsePage(s)
  <2>1. PICK q \in Quality :
          /\ Save(s, WithPage(saved[job[s].op], q), "parse")
          /\ job' = [job EXCEPT ![s] = [job[s] EXCEPT !.done = Append(job[s].done, q)]]
    BY <1>3 DEF ParsePage, PageQuality, Quality
  <2>2. pc[s] = "parse" /\ op' = op /\ Len(job[s].done) + 1 <= PageCount
    BY <1>3 DEF ParsePage
  <2>3. job'[s].done = Append(job[s].done, q)
    BY <1>0, <2>1 DEF Job
  <2>. QED
    BY <2>1, <2>2, <2>3, SaveCases DEF Writes, Idles, Saving
<1>4. CASE SaveReport(s)
  <2>1. PICK report \in ReportsOn(job[s].forced, job[s].done), size \in StageSizes :
          /\ Save(s, WithStage(saved[job[s].op], job[s].forced, report, FALSE, size), "units")
          /\ job' = [job EXCEPT ![s] = [job[s] EXCEPT !.report = report]]
    BY <1>4 DEF SaveReport
  <2>0. report \in Verdict \ {"none"}
    BY DEF ReportsOn, Verdict
  <2>2. pc[s] = "parse" /\ op' = op /\ job'[s] = [job[s] EXCEPT !.report = report]
    BY <1>0, <1>4, <2>1 DEF SaveReport
  <2>3. job'[s].report = report /\ size \in Nat
    BY <1>0, <2>2 DEF Job
  <2>. QED
    BY <2>0, <2>1, <2>2, <2>3, SaveCases DEF Writes, Idles, Saving
<1>5. CASE BuildUnits(s)
  <2>1. pc[s] = "units" /\ op' = op
    BY <1>5 DEF BuildUnits
  <2>2. CASE Usable(job[s].forced, job[s].report)
    <3>1. PICK size \in StageSizes :
            Save(s, WithStage(saved[job[s].op], job[s].forced, job[s].report, TRUE, size), "prepared")
      BY <1>5, <2>2 DEF BuildUnits
    <3>2. size \in Nat
      OBVIOUS
    <3>. QED
      BY <2>1, <2>2, <3>1, <3>2, SaveCases DEF Writes, Idles, Saving
  <2>3. CASE ~Usable(job[s].forced, job[s].report)
    BY <1>0, <1>5, <2>3 DEF BuildUnits, Goto, Idles
  <2>. QED
    BY <2>2, <2>3
<1>6. CASE BeginParsing(s)
  BY <1>0, <1>6 DEF BeginParsing, Goto, store, Idles
<1>7. CASE Prepare(s) \/ NoticeCancel(s) \/ Raise(s) \/ CommitSuccess(s) \/ CommitRefused(s)
           \/ ReadBack(s) \/ MarkFailed(s) \/ MarkInterrupted(s) \/ MarkRolledBack(s)
  <2>1. saved' = saved
    BY <1>7 DEF Prepare, NoticeCancel, Raise, CommitSuccess, CommitRefused, ReadBack, MarkFailed,
       MarkInterrupted, MarkRolledBack, MarkNotCommitted, store
  <2>2. pc'[s] \in {"commit", "interrupt", "fail", "readback", "answer"}
    BY <1>0, <1>7 DEF Prepare, NoticeCancel, Raise, CommitSuccess, CommitRefused, ReadBack, MarkFailed,
       MarkInterrupted, MarkRolledBack, MarkNotCommitted, Answer, Goto
  <2>. QED
    BY <2>1, <2>2 DEF Idles
<1>8. ~(Snapshot(s) \/ AdmitRefused(s) \/ (\E o \in Op : Admit(s, o)) \/ ReadChild(s)
        \/ ClaimTerminal(s) \/ Tell(s))
  BY DEF Snapshot, AdmitRefused, Admit, ReadChild, ClaimTerminal, Tell, Executing, Working
<1>. QED
  BY <1>1, <1>2, <1>3, <1>4, <1>5, <1>6, <1>7, <1>8 DEF Step

LEMMA CheckpointWrites ==
  ASSUME TypeInv, [Next]_vars
  PROVE  saved' = saved \/ \E s \in Server : Step(s) /\ pc[s] \in Executing /\ Writes(s)
<1>1. CASE UNCHANGED vars
  BY <1>1 DEF vars, store
<1>2. CASE Rename
  BY <1>2 DEF Rename
<1>3. ASSUME NEW s \in Server, NEW source \in Op \union {NoOp}, NEW forced \in Forced,
             Ask(s, source, forced)
      PROVE  saved' = saved
  BY <1>3 DEF Ask, store
<1>4. ASSUME NEW s \in Server, Cancel(s) \/ Raise(s) \/ Crash(s) \/ Start(s) PROVE saved' = saved
  BY <1>4 DEF Cancel, Raise, Crash, Start, store
<1>5. ASSUME NEW s \in Server, Step(s)
      PROVE  saved' = saved \/ \E t \in Server : Step(t) /\ pc[t] \in Executing /\ Writes(t)
  <2>1. CASE pc[s] \in Executing
    BY <1>5, <2>1, WorkerSaves DEF Idles
  <2>2. CASE Snapshot(s) \/ AdmitRefused(s) \/ ReadChild(s) \/ ClaimTerminal(s) \/ Tell(s)
             \/ \E o \in Op : Admit(s, o)
    BY <2>2 DEF Snapshot, AdmitRefused, ReadChild, ClaimTerminal, Tell, Admit, store
  <2>3. \/ pc[s] \in Executing
        \/ Snapshot(s) \/ AdmitRefused(s) \/ ReadChild(s) \/ ClaimTerminal(s) \/ Tell(s)
        \/ \E o \in Op : Admit(s, o)
    BY <1>5 DEF Step, OpenCheckpoint, ReuseOutput, ReuseReport, BeginParsing, ParsePage, SaveReport,
       BuildUnits, Prepare, NoticeCancel, CommitSuccess, CommitRefused, ReadBack, MarkFailed,
       MarkInterrupted, MarkRolledBack, MarkNotCommitted, Executing, Working, Checking
  <2>. QED
    BY <2>1, <2>2, <2>3
<1>. QED
  BY <1>1, <1>2, <1>3, <1>4, <1>5 DEF Next, Work

\* What a worker writes keeps what was saved and stays within bounds.
LEMMA WritesKeep ==
  ASSUME TypeInv, OneWorker, Accounted, NEW s \in Server, pc[s] \in Executing, NEW c, Saving(s, c)
  PROVE  /\ Bounded(c)
         /\ KeptIn(saved[job[s].op], op[job[s].op].forced) \subseteq KeptIn(c, op[job[s].op].forced)
<1> DEFINE o == job[s].op
           old == saved[o]
<1>0. /\ o \in Op /\ old \in Checkpoint /\ Bounded(old) /\ op[o].forced = job[s].forced
      /\ job[s].forced \in BOOLEAN /\ job[s].report \in Verdict /\ Len(job[s].done) \in Nat
      /\ old.pages \in Seq(Quality) /\ Len(old.pages) \in Nat /\ Len(<<>>) = 0
  <2>1. o \in Op /\ old \in Checkpoint /\ job[s] \in Job /\ Bounded(old) /\ Progress(s)
    BY DEF TypeInv, Shaped, Located, Accounted
  <2>2. op[o].forced = job[s].forced
    BY <2>1 DEF Progress
  <2>3. job[s].forced \in BOOLEAN /\ job[s].report \in Verdict /\ job[s].done \in Seq(Quality)
    BY <2>1 DEF Job
  <2>4. old.pages \in Seq(Quality)
    BY <2>1 DEF Checkpoint
  <2>. QED
    BY <2>1, <2>2, <2>3, <2>4
<1>1. CASE pc[s] \in {"open", "begin"}
  <2>1. old.pages = <<>> /\ old.report = "none" /\ KeptIn(old, job[s].forced) = {}
    BY <1>1 DEF Accounted, Progress, KeptIn
  <2>2. CASE c = OpenedCheckpoint
    <3>1. Bounded(c)
      BY <1>0, <2>2, OpenedTyped DEF Bounded
    <3>. QED
      BY <1>0, <2>1, <3>1
  <2>3. CASE \E report \in Verdict, output \in BOOLEAN, size \in Nat :
                c = WithStage(old, job[s].forced, report, output, size)
    BY <1>0, <2>1, <2>3, StageKeeps
  <2>. QED
    BY <1>1, <2>2, <2>3 DEF Saving
<1>2. CASE pc[s] = "parse"
  <2>1. /\ old.report = "none" /\ old.size = 0
        /\ Len(old.pages) <= Len(job[s].done)
    BY <1>2 DEF Accounted, Progress
  <2>2. CASE /\ Len(job[s].done) + 1 <= PageCount
             /\ \E q \in Quality : c = WithPage(old, q)
    <3>1. Len(old.pages) + 1 <= PageCount
      BY <1>0, <2>1, <2>2
    <3>. QED
      BY <1>0, <2>1, <2>2, <3>1, PageKeeps
  <2>3. CASE \E report \in Verdict \ {"none"}, size \in Nat :
                c = WithStage(old, job[s].forced, report, FALSE, size)
    <3>1. PICK report \in Verdict \ {"none"}, size \in Nat :
                c = WithStage(old, job[s].forced, report, FALSE, size)
      BY <2>3
    <3>2. report \in Verdict /\ report # "none"
      BY <3>1
    <3>. QED
      BY <1>0, <2>1, <3>1, <3>2, StageKeeps
  <2>. QED
    BY <1>2, <2>2, <2>3 DEF Saving
<1>3. CASE pc[s] = "units"
  <2>1. PICK size \in Nat : c = WithStage(old, job[s].forced, job[s].report, TRUE, size)
    BY <1>3 DEF Saving
  <2>2. job[s].report # "none" /\ old.report \in {"none", job[s].report}
    BY <1>3 DEF Accounted, Progress
  <2>. QED
    BY <1>0, <2>1, <2>2, StageKeeps
<1>. QED
  BY <1>1, <1>2, <1>3 DEF Saving

\* The worker's own step.
LEMMA WorkerProgress ==
  ASSUME TypeInv, Owned, OneWorker, Accounted, [Next]_vars, NEW s \in Server,
         Step(s) \/ Raise(s), pc[s] \in Executing
  PROVE  Progress(s)'
<1> DEFINE o == job[s].op
<1>0. /\ o \in Op /\ job'[s].op = o /\ job'[s].forced = job[s].forced
      /\ pc'[s] \in (Executing \ {"open"}) \union {"answer"}
      /\ saved \in [Op -> Checkpoint] /\ saved[o] \in Checkpoint
      /\ job[s].forced \in BOOLEAN /\ job[s].done \in Seq(Quality)
      /\ Len(job[s].done) \in Nat /\ Len(saved[o].pages) \in Nat
  <2>1. o \in Op /\ job[s] \in Job /\ saved \in [Op -> Checkpoint] /\ saved[o] \in Checkpoint
    BY DEF TypeInv, Shaped, Located
  <2>2. job[s].forced \in BOOLEAN /\ job[s].done \in Seq(Quality)
    BY <2>1 DEF Job
  <2>3. saved[o].pages \in Seq(Quality)
    BY <2>1 DEF Checkpoint
  <2>. QED
    BY <2>1, <2>2, <2>3, WorkerSteps
<1>1. op'[o].forced = job[s].forced
  BY <1>0, RowsLast DEF OneWorker, Accounted, Progress
<1>. HIDE DEF o
<1>2. CASE Idles(s)
  <2>1. CASE pc'[s] \notin {"open", "begin", "parse", "units", "snapshot", "admit"}
    BY <1>0, <1>1, <2>1 DEF Progress
  <2>2. CASE pc[s] = "begin" /\ pc'[s] = "parse" /\ job' = job /\ saved' = saved
    <3>1. /\ saved[o].pages = <<>> /\ saved[o].report = "none" /\ saved[o].size = 0
          /\ job[s].done = <<>> /\ Len(<<>>) = 0
      BY <2>2 DEF o, Accounted, Progress
    <3>. QED
      BY <1>0, <1>1, <2>2, <3>1 DEF Progress
  <2>. QED
    BY <1>2, <2>1, <2>2 DEF Idles
<1>3. CASE Writes(s)
  <2>1. PICK c : saved' = [saved EXCEPT ![o] = c] /\ Saving(s, c)
    BY <1>3 DEF Writes, o
  <2>2. saved'[o] = c
    BY <1>0, <2>1
  <2>3. CASE pc[s] = "open" /\ c = OpenedCheckpoint /\ pc'[s] = "begin" /\ job'[s].done = job[s].done
    <3>1. job'[s].done = <<>>
      BY <2>3 DEF Accounted, Progress
    <3>. QED
      BY <1>0, <1>1, <2>2, <2>3, <3>1, OpenedTyped DEF Progress
  <2>4. CASE pc[s] = "parse" /\ Len(job[s].done) + 1 <= PageCount /\ pc'[s] = "parse"
             /\ \E q \in Quality : c = WithPage(saved[o], q) /\ job'[s].done = Append(job[s].done, q)
    <3>1. PICK q \in Quality : c = WithPage(saved[o], q) /\ job'[s].done = Append(job[s].done, q)
      BY <2>4
    <3>2. /\ Bounded(saved[o]) /\ saved[o].report = "none" /\ saved[o].size = 0
          /\ Len(saved[o].pages) <= Len(job[s].done)
      BY <1>0, <2>4 DEF o, Accounted, Progress
    <3>3. /\ c.report = "none" /\ c.size = 0 /\ Len(c.pages) <= Len(saved[o].pages) + 1
      <4>1. Len(saved[o].pages) + 1 <= PageCount
        BY <1>0, <2>4, <3>2
      <4>. QED
        BY <1>0, <3>1, <3>2, <4>1, PageKeeps
    <3>4. Len(job'[s].done) = Len(job[s].done) + 1
      BY <1>0, <3>1, AppendProperties
    <3>5. c \in Checkpoint /\ Len(c.pages) \in Nat
      BY <1>0, <3>1, PageSaved DEF Checkpoint
    <3>6. Len(c.pages) <= Len(job'[s].done) /\ Len(job'[s].done) <= PageCount
      BY <1>0, <2>4, <3>2, <3>3, <3>4, <3>5
    <3>. QED
      BY <1>0, <1>1, <2>2, <2>4, <3>3, <3>6 DEF Progress
  <2>5. CASE pc'[s] = "prepared"
    BY <1>0, <1>1, <2>5 DEF Progress
  <2>6. CASE /\ pc[s] \in {"begin", "parse"} /\ pc'[s] = "units"
             /\ \E report \in Verdict, output \in BOOLEAN, size \in Nat :
                   /\ c = WithStage(saved[o], job[s].forced, report, output, size)
                   /\ job'[s].report = report /\ report # "none"
    <3>1. PICK report \in Verdict, output \in BOOLEAN, size \in Nat :
                   /\ c = WithStage(saved[o], job[s].forced, report, output, size)
                   /\ job'[s].report = report /\ report # "none"
      BY <2>6
    <3>2. saved[o].report = "none"
      BY <2>6 DEF o, Accounted, Progress
    <3>3. c.report \in {"none", report}
      BY <1>0, <3>1, <3>2, StageReport
    <3>. QED
      BY <1>0, <1>1, <2>2, <2>6, <3>1, <3>3 DEF Progress
  <2>. QED
    BY <2>1, <2>3, <2>4, <2>5, <2>6 DEF Saving, o
<1>. QED
  BY <1>2, <1>3, WorkerSaves

\* Another worker's step leaves an operation's checkpoint alone.
LEMMA OthersProgress ==
  ASSUME TypeInv, Owned, OneWorker, Accounted, [Next]_vars, NEW s \in Server,
         Untouched(s) \/ Cancel(s), ~Step(s)
  PROVE  Progress(s)'
<1> DEFINE o == job[s].op
<1>0. /\ pc'[s] = pc[s] /\ job'[s] = job[s] /\ Progress(s) /\ saved \in [Op -> Checkpoint]
  BY DEF Untouched, Cancel, Accounted, TypeInv, Shaped
<1>1. CASE pc[s] \in Executing
  <2>1. o \in Op /\ op'[o].forced = op[o].forced
    BY <1>1, RowsLast DEF OneWorker, TypeInv, Located
  <2>2. saved'[o] = saved[o]
    <3>1. ASSUME NEW t \in Server, Step(t), pc[t] \in Executing, Writes(t)
          PROVE  saved'[o] = saved[o]
      <4>1. job[t].op # o
        BY <1>1, <3>1 DEF OneWorker
      <4>. QED
        BY <1>0, <2>1, <3>1, <4>1 DEF Writes
    <3>. QED
      BY <3>1, CheckpointWrites
  <2>. QED
    BY <1>0, <1>1, <2>1, <2>2 DEF Progress
<1>2. CASE pc[s] \notin Executing
  BY <1>0, <1>2 DEF Progress, Executing, Working
<1>. QED
  BY <1>1, <1>2

LEMMA ProgressStep ==
  ASSUME TypeInv, Owned, OneWorker, Accounted, [Next]_vars, NEW s \in Server
  PROVE  Progress(s)'
<1>0. pc \in [Server -> Label] /\ job \in [Server -> Job] /\ job[s] \in Job
  BY DEF TypeInv, Shaped
<1>1. CASE Step(s) \/ Raise(s)
  <2>1. CASE pc[s] \in Executing
    BY <1>1, <2>1, WorkerProgress
  <2>2. CASE pc[s] \notin Executing /\ pc'[s] \in Executing
    <3>1. PICK o \in Op : /\ Admit(s, o) /\ pc'[s] = "open"
                          /\ job'[s] = [job[s] EXCEPT !.op = o] /\ job'[s].op = o
      BY <1>1, <2>2, EntersByAdmission DEF StreamStep
    <3>2. job'[s].done = job[s].done /\ job'[s].forced = job[s].forced
      BY <1>0, <3>1 DEF Job
    <3>3. /\ saved' = saved /\ pc[s] = "admit" /\ op[o].status = "none"
          /\ op'[o].forced = job[s].forced
      BY <3>1 DEF Admit, AdmittedRow, TypeInv, Shaped
    <3>4. /\ saved'[o].pages = <<>> /\ saved'[o].report = "none" /\ saved'[o].size = 0
          /\ job[s].done = <<>>
      BY <3>3 DEF Accounted, Progress, NoCheckpoint
    <3>. QED
      BY <3>1, <3>2, <3>3, <3>4 DEF Progress
  <2>3. CASE pc[s] \notin Executing /\ pc'[s] \notin Executing
    <3>1. CASE pc'[s] \in {"snapshot", "admit"}
      <4>1. Snapshot(s) /\ job'[s] = [job[s] EXCEPT !.restored = saved[job[s].source]]
        BY <1>1, <3>1, AskingSteps
      <4>2. job'[s].done = job[s].done
        BY <1>0, <4>1 DEF Job
      <4>3. job[s].done = <<>>
        BY <4>1 DEF Snapshot, Accounted, Progress
      <4>. QED
        BY <2>3, <4>2, <4>3 DEF Progress, Executing, Working
    <3>2. CASE pc'[s] \notin {"snapshot", "admit"}
      BY <2>3, <3>2 DEF Progress, Executing, Working
    <3>. QED
      BY <3>1, <3>2
  <2>. QED
    BY <2>1, <2>2, <2>3
<1>2. ASSUME NEW source \in Op \union {NoOp}, NEW forced \in Forced, Ask(s, source, forced)
      PROVE  Progress(s)'
  <2>1. pc'[s] \in {"admit", "snapshot"} /\ job'[s] = Request(source, forced)
    BY <1>0, <1>2 DEF Ask, Goto
  <2>2. job'[s].done = <<>>
    BY <2>1, RequestIsNew
  <2>. QED
    BY <2>1, <2>2 DEF Progress, Executing, Working
<1>3. CASE Crash(s)
  <2>1. pc'[s] = "idle"
    BY <1>0, <1>3 DEF Crash, Goto
  <2>. QED
    BY <2>1 DEF Progress, Executing, Working
<1>4. CASE (Untouched(s) \/ Cancel(s)) /\ ~Step(s)
  BY <1>4, OthersProgress
<1>. QED
  BY <1>1, <1>2, <1>3, <1>4, Actors DEF StreamStep

LEMMA InitAccounted == Init => Accounted
<1> SUFFICES ASSUME Init PROVE Accounted
  OBVIOUS
<1>1. NoCheckpoint.pages = <<>> /\ NoCheckpoint.size = 0 /\ Len(<<>>) = 0
  BY NullsTyped
<1>2. \A o \in Op : saved[o] = NoCheckpoint /\ Bounded(saved[o])
  <2>1. Capacity \in Nat /\ PageCount \in Nat
    BY DocumentAssumption
  <2>2. Bounded(NoCheckpoint)
    BY <1>1, <2>1 DEF Bounded
  <2>. QED
    BY <2>2 DEF Init
<1>3. \A s \in Server : Progress(s)
  BY DEF Init, Progress, Executing, Working
<1>. QED
  BY <1>2, <1>3 DEF Accounted

LEMMA AccountedStep ==
  ASSUME TypeInv, Owned, OneWorker, Accounted, [Next]_vars
  PROVE  Accounted'
<1>0. saved \in [Op -> Checkpoint] /\ op \in [Op -> Row]
  BY DEF TypeInv, Shaped
<1>1. ASSUME NEW o \in Op PROVE Bounded(saved'[o])
  <2>1. ASSUME NEW s \in Server, pc[s] \in Executing, Writes(s) PROVE Bounded(saved'[o])
    <3>1. PICK c : saved' = [saved EXCEPT ![job[s].op] = c] /\ Saving(s, c)
      BY <2>1 DEF Writes
    <3>2. Bounded(c)
      BY <2>1, <3>1, WritesKeep
    <3>. QED
      BY <1>0, <3>1, <3>2 DEF Accounted
  <2>. QED
    BY <2>1, CheckpointWrites DEF Accounted
<1>2. ASSUME NEW o \in Op, op'[o].status = "none" PROVE saved'[o] = NoCheckpoint
  <2>1. op[o].status = "none" /\ ~Running(o)
    BY <1>2, RowsLast DEF Running
  <2>2. saved'[o] = saved[o]
    BY <1>0, <2>1, CheckpointWrites DEF Writes
  <2>. QED
    BY <2>1, <2>2 DEF Accounted
<1>3. \A s \in Server : Progress(s)'
  BY ProgressStep
<1>. QED
  BY <1>1, <1>2, <1>3 DEF Accounted, Bounded

LEMMA KeptStep ==
  ASSUME TypeInv, Owned, OneWorker, Accounted, [Next]_vars, NEW o \in Op
  PROVE  /\ Kept(o) \subseteq Kept(o)'
         /\ op[o].status \in Ended => saved'[o] = saved[o] /\ op'[o] = op[o]
<1>0. saved \in [Op -> Checkpoint] /\ op \in [Op -> Row]
  BY DEF TypeInv, Shaped
<1>1. Kept(o) = KeptIn(saved[o], op[o].forced) /\ Kept(o)' = KeptIn(saved'[o], op'[o].forced)
  BY DEF Kept, KeptIn
<1>2. CASE op[o].status = "none"
  <2>1. saved[o].pages = <<>> /\ saved[o].report = "none"
    BY <1>2 DEF Accounted, NoCheckpoint
  <2>2. Kept(o) = {}
    BY <2>1 DEF Kept
  <2>. QED
    BY <1>2, <2>2 DEF Ended
<1>3. CASE op[o].status # "none"
  <2>1. op'[o].forced = op[o].forced /\ (op[o].status \in Ended => op'[o] = op[o])
    BY <1>3, RowsLast
  <2>2. CASE saved'[o] = saved[o]
    BY <1>1, <2>1, <2>2
  <2>3. CASE saved'[o] # saved[o]
    <3>1. PICK s \in Server : pc[s] \in Executing /\ Writes(s)
      BY <2>3, CheckpointWrites
    <3>2. PICK c : saved' = [saved EXCEPT ![job[s].op] = c] /\ Saving(s, c)
      BY <3>1 DEF Writes
    <3>3. job[s].op = o /\ saved'[o] = c /\ Running(o)
      BY <1>0, <2>3, <3>1, <3>2 DEF Writes
    <3>4. KeptIn(saved[o], op[o].forced) \subseteq KeptIn(c, op[o].forced)
      BY <3>1, <3>2, <3>3, WritesKeep
    <3>. QED
      BY <1>1, <2>1, <3>3, <3>4 DEF Running, Ended
  <2>. QED
    BY <2>2, <2>3
<1>. QED
  BY <1>2, <1>3

LEMMA AccountedAlways == Spec => [](TypeInv /\ Owned /\ OneWorker /\ Accounted)
<1>1. TypeInv /\ Owned /\ OneWorker /\ Accounted /\ [Next]_vars => Accounted'
  BY AccountedStep
<1>. QED
  BY <1>1, InitAccounted, WorkersAlways, PTL DEF Spec

\* Every row, checkpoint and local keeps its shape, and what a checkpoint
\* stages its budget, which saving a page does not even look at.
THEOREM TypeCorrect == Spec => []TypeOK
<1>1. TypeInv /\ Accounted => TypeOK
  BY DEF TypeInv, Accounted, Bounded, TypeOK
<1>. QED
  BY <1>1, AccountedAlways, PTL

\* Saved work is never lost nor written after the end, for any number of pages,
\* any budget and whatever the stages weigh.
THEOREM SavedWorkKept == Spec => SavedWorkIsKept
<1>1. TypeInv /\ Owned /\ OneWorker /\ Accounted /\ [Next]_vars
         => [\A o \in Op :
              /\ Kept(o) \subseteq Kept(o)'
              /\ op[o].status \in Ended => saved'[o] = saved[o] /\ op'[o] = op[o]]_<<op, saved>>
  BY KeptStep
<1>. QED
  BY <1>1, AccountedAlways, PTL DEF Spec, SavedWorkIsKept

-----------------------------------------------------------------------------
(* The lease *)

\* The operation that runs, if one does, is the holder.
LEMMA HolderIs ==
  ASSUME OneRunning
  PROVE  /\ NoneActive => Holder = NoOp
         /\ \A o \in Op : Running(o) => Holder = o
<1>1. ASSUME NEW o \in Op, Running(o) PROVE Holder = o
  BY <1>1 DEF Holder, NoneActive, OneRunning
<1>. QED
  BY <1>1 DEF Holder

LEMMA HolderNext ==
  ASSUME OneRunning'
  PROVE  /\ (\A o \in Op : op'[o].status # "running") => Holder' = NoOp
         /\ \A o \in Op : op'[o].status = "running" => Holder' = o
<1>1. ASSUME NEW o \in Op, op'[o].status = "running" PROVE Holder' = o
  BY <1>1 DEF Holder, NoneActive, OneRunning, Running
<1>. QED
  BY <1>1 DEF Holder, NoneActive, Running

LEMMA LeaseInit == ASSUME Init PROVE Lease!Init
<1>1. \A o \in Op : op[o].status = "none"
  BY DEF Init, NoRow
<1>2. Holder = NoOp /\ Outcome = [o \in Op |-> "new"]
  BY <1>1 DEF Holder, NoneActive, Running, Outcome
<1>3. doc.revision \in Nat /\ doc.units \in [by: (Op \union {NoOp, Earlier}) \ Op, edit: {0}]
  BY DEF Init, Uploaded, Known, NoUnits
<1>. QED
  BY <1>2, <1>3 DEF Lease!Init

\* What one changed row does to the outcomes.
LEMMA OutcomeWrites ==
  ASSUME TypeInv, NEW o \in Op, NEW row, op' = [op EXCEPT ![o] = row],
         NEW outcome,
         \/ row.status = "running" /\ outcome = "holding"
         \/ row.status = "committed" /\ outcome = "published"
         \/ row.status \in {"failed", "interrupted"} /\ outcome = "released"
  PROVE  Outcome' = [Outcome EXCEPT ![o] = outcome]
BY DEF Outcome, TypeInv, Shaped

LEMMA LeaseStep ==
  ASSUME TypeInv, Owned, TypeInv', Owned', [Next]_vars
  PROVE  [Lease!Next]_(Lease!vars)
<1>0. /\ op \in [Op -> Row] /\ doc \in Document /\ doc.revision \in Nat
      /\ OneRunning /\ OneRunning' /\ NoOp \notin Op
  BY DEF TypeInv, Shaped, Document, Owned
<1>1. CASE UNCHANGED <<doc, debug, op>>
  BY <1>1 DEF Lease!vars, Holder, NoneActive, Running, Outcome
<1>2. CASE Rename
  <2>1. NoneActive
    BY <1>2 DEF Rename, Owned, ProcessingIsOwned, Holds, NoneActive
  <2>2. /\ doc'.revision = doc.revision + 1
        /\ doc'.units = [by |-> doc.units.by, edit |-> doc.units.edit + 1]
        /\ op' = op
    BY <1>0, <1>2 DEF Rename, Document
  <2>3. Holder = NoOp /\ Holder' = Holder /\ Outcome' = Outcome
    BY <1>0, <2>1, <2>2, HolderIs DEF Holder, NoneActive, Running, Outcome
  <2>4. doc'.units = [doc.units EXCEPT !.edit = doc.units.edit + 1]
    BY <1>0, <2>2 DEF Document, Units
  <2>. QED
    BY <2>2, <2>3, <2>4 DEF Lease!Next, Lease!Edit
<1>3. ASSUME NEW s \in Server, NEW o \in Op, Admit(s, o) PROVE Lease!Next
  <2>1. /\ NoneActive /\ op[o].status = "none"
        /\ doc'.revision = doc.revision + 1 /\ doc'.units = doc.units
    BY <1>0, <1>3 DEF Admit, ProcessingDocument, Document
  <2> DEFINE row == AdmittedRow(job[s].source, job[s].forced)
  <2>2. op' = [op EXCEPT ![o] = row] /\ row.status = "running"
    BY <1>3 DEF Admit, AdmittedRow
  <2>. HIDE DEF row
  <2>3. Holder = NoOp /\ Holder' = o
    BY <1>0, <2>1, <2>2, HolderIs, HolderNext
  <2>4. Outcome' = [Outcome EXCEPT ![o] = "holding"]
    BY <2>2, OutcomeWrites
  <2>5. Outcome[o] = "new"
    BY <2>1 DEF Outcome
  <2>. QED
    BY <2>1, <2>3, <2>4, <2>5 DEF Lease!Next, Lease!Acquire
<1>4. ASSUME NEW s \in Server, CommitSuccess(s) PROVE Lease!Next
  <2>1. PICK o \in Op : /\ Running(o) /\ CanPublish(o) /\ doc' = ProcessedDocument(o)
                        /\ op' = [op EXCEPT ![o] = CommittedRow(o)]
    BY <1>4 DEF CommitSuccess, TypeInv, Located, Executing, Working
  <2>2. /\ doc'.revision = doc.revision + 1 /\ doc'.units = [by |-> o, edit |-> 0]
        /\ CommittedRow(o).status = "committed"
    BY <1>0, <2>1 DEF CanPublish, ProcessedDocument, CommittedRow, Row, Document
  <2>3. \A c \in Op : op'[c].status # "running"
    BY <1>0, <2>1, <2>2 DEF OneRunning, Running
  <2>4. Holder = o /\ Holder' = NoOp
    BY <1>0, <2>1, <2>3, HolderIs, HolderNext
  <2>5. Outcome' = [Outcome EXCEPT ![o] = "published"]
    BY <2>1, <2>2, OutcomeWrites
  <2>. QED
    BY <2>2, <2>4, <2>5 DEF Lease!Next, Lease!Publish
<1>5. ASSUME NEW o \in Op, NEW status \in {"failed", "interrupted"}, Ends(o, status)
      PROVE  Lease!Next
  <2>1. /\ Running(o) /\ Holds(o) /\ op[o].base.units = doc.units
        /\ op' = [op EXCEPT ![o] = EndedRow(o, status)] /\ doc' = RestoredDocument(o, status)
    BY <1>5 DEF Ends, Owned, ProcessingIsOwned
  <2>2. op[o].base.revision \in Nat
    BY <1>0 DEF Row, Document
  <2>3. /\ doc'.revision = doc.revision + 1 /\ doc'.units = doc.units
        /\ EndedRow(o, status).status = status
    BY <1>0, <2>1, <2>2 DEF Holds, RestoredDocument, EndedRow, Row
  <2>4. \A c \in Op : op'[c].status # "running"
    BY <1>0, <2>1, <2>3 DEF OneRunning, Running
  <2>5. Holder = o /\ Holder' = NoOp
    BY <1>0, <2>1, <2>4, HolderIs, HolderNext
  <2>6. EndedRow(o, status).status \in {"failed", "interrupted"}
    BY <2>3
  <2>7. Outcome' = [Outcome EXCEPT ![o] = "released"]
    BY <2>1, <2>6, OutcomeWrites
  <2>. QED
    BY <2>3, <2>5, <2>7 DEF Lease!Next, Lease!Release
<1>. QED
  BY <1>1, <1>2, <1>3, <1>4, <1>5, RowWrites DEF RowStep

\* The journal, the restores, the restarts and the renames implement an
\* exclusive lease of the document, for every instance of the constants.
THEOREM ProcessImplementsLease == Spec => ImplementsLease
<1>1. Init => Lease!Init
  BY LeaseInit
<1>2. TypeInv /\ Owned /\ (TypeInv /\ Owned)' /\ [Next]_vars => [Lease!Next]_(Lease!vars)
  BY LeaseStep
<1>. QED
  BY <1>1, <1>2, OwnedAlways, PTL DEF Spec, ImplementsLease, Lease!Spec
=============================================================================
