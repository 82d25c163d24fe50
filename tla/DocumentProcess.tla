--------------------------- MODULE DocumentProcess ---------------------------
(***************************************************************************)
(* One document and the operations that process it.  An operation is      *)
(* admitted in the document's one active slot and marks it "processing";   *)
(* its worker parses page by page, saving each page and each stage in a    *)
(* checkpoint that only a running operation may write, and commits         *)
(* document, debug projection and receipt together.  A failed or           *)
(* interrupted operation restores the document and may be resumed once,    *)
(* by a child that starts from its checkpoint.  A server fails every       *)
(* running operation when it starts, its neighbours' too.                  *)
(***************************************************************************)
EXTENDS Integers, Sequences

CONSTANTS
    Op,           \* identities the admissions mint
    NoOp,
    Earlier,      \* an operation of the past
    Server,       \* processes, each with the one stream it is serving
    PageCount,    \* pages of the uploaded file
    Capacity,     \* CHECKPOINT_MAX_BYTES, a page being one unit
    StageSizes,   \* what a parser report or a runtime output may weigh
    Forced,       \* the force_ocr values that requests have
    MaxAsks,      \* bound on streams
    MaxRenames,   \* bound on renamed study units
    MaxCrashes    \* bound on processes that die

ASSUME DocumentAssumption ==
    /\ NoOp \notin Op
    /\ Earlier \notin Op \union {NoOp}
    /\ PageCount \in Nat
    /\ Capacity \in Nat
    /\ StageSizes \subseteq Nat
    /\ Forced \subseteq BOOLEAN
    /\ MaxAsks \in Nat
    /\ MaxRenames \in Nat
    /\ MaxCrashes \in Nat

VARIABLES
    doc,        \* DocumentRow
    debug,      \* the study units of DocumentDebugRow
    op,         \* DocumentProcessOperationRow of each operation
    saved,      \* DocumentCheckpointRow and its pages
    up,         \* processes that run
    pc,         \* where each stream's worker is in the code
    job,        \* its local variables
    cancelled,  \* streams whose cancel event is set
    told,       \* the terminal event of each stream
    asks,
    renames,
    crashes

store == <<doc, debug, op, saved>>
stream == <<cancelled, told>>
bounds == <<asks, renames, crashes>>
vars == <<store, up, pc, job, stream, bounds>>

-----------------------------------------------------------------------------
(* Rows and requests *)

Ended == {"committed", "failed", "interrupted"}

\* Study units: the operation that built them, and how often they were edited since.
Units == [by: Op \union {NoOp, Earlier}, edit: Nat]

Document == [status: {"uploaded", "processing", "processed", "failed"}, revision: Nat, units: Units]

NoUnits == [by |-> NoOp, edit |-> 0]
Uploaded == [status |-> "uploaded", revision |-> 0, units |-> NoUnits]
Known == [status |-> "processed", revision |-> 2, units |-> [by |-> Earlier, edit |-> 0]]

\* base is base_document_payload, receipt the document whose digest is kept;
\* source is the parent in document_checkpoint_resumes.
Row == [status: {"none", "running"} \union Ended, base: Document, receipt: Document,
        source: Op \union {NoOp}, forced: BOOLEAN]

NoRow == [status |-> "none", base |-> Uploaded, receipt |-> Uploaded, source |-> NoOp,
          forced |-> FALSE]

\* A page whose OCR did not complete is bad; a report on one is degraded.  A forced
\* OCR that gained nothing on a page without text leaves "required".
Quality == {"good", "bad"}
Verdict == {"none", "good", "required", "degraded"}

Checkpoint == [open: BOOLEAN, pages: Seq(Quality), report: Verdict, output: BOOLEAN,
               size: Nat, limited: BOOLEAN]

NoCheckpoint == [open |-> FALSE, pages |-> <<>>, report |-> "none", output |-> FALSE,
                 size |-> 0, limited |-> FALSE]

Request(source, forced) ==
    [op |-> NoOp, known |-> FALSE, source |-> source, forced |-> forced,
     restored |-> NoCheckpoint, done |-> <<>>, report |-> "none", prepared |-> FALSE,
     outcome |-> ""]

NoJob == Request(NoOp, FALSE)

\* prepared is runtime_prepared: the stage has returned its output.
Job == [op: Op \union {NoOp}, known: BOOLEAN, source: Op \union {NoOp}, forced: BOOLEAN,
        restored: Checkpoint, done: Seq(Quality), report: Verdict, prepared: BOOLEAN,
        outcome: {"", "returned", "interrupted", "raised", "cancelled"}]

\* The labels at which anything may be raised, and those that look for a cancel.
Working == {"begin", "parse", "units", "prepared", "commit", "readback"}
Checking == {"begin", "parse", "prepared"}
Label == {"idle", "snapshot", "admit", "open", "fail", "interrupt", "child",
          "answer", "tell"} \union Working

Nothing == [event |-> "", evidence |-> "", op |-> NoOp]
Terminal == [event: {"", "completed", "cancelled", "error"},
             evidence: {"", "committed", "uncertain", "not_committed"},
             op: Op \union {NoOp}]

-----------------------------------------------------------------------------
(* The fences of the transactions *)

Running(o) == op[o].status = "running"

NoneActive == \A o \in Op : ~Running(o)

HasChild(o) == \E c \in Op : op[c].source = o

ChildOf(o) == CHOOSE c \in Op : op[c].source = o

ResumableLater(o) ==
    /\ op[o].status \in {"failed", "interrupted"}
    /\ doc.revision >= op[o].base.revision + 2

\* What admit requires of the operation to resume.
Resumable(o) ==
    /\ op[o].status \in {"failed", "interrupted"}
    /\ doc.revision = op[o].base.revision + 2

\* The document is still the one the operation's admission wrote.
Holds(o) == doc.status = "processing" /\ doc.revision = op[o].base.revision + 1

\* The compare-and-swap of the commit looks at the revision only.
CanPublish(o) == doc.revision = op[o].base.revision + 1

\* _validate_read_back: the stored projections still have the receipt's digests.
ReadsBack(o) == op[o].status = "committed" /\ doc = op[o].receipt /\ debug = op[o].receipt.units

-----------------------------------------------------------------------------
(* The rows the transactions write *)

ProcessingDocument == [doc EXCEPT !.status = "processing", !.revision = doc.revision + 1]

\* The base document, failed or as it was, with the revision after "processing".
RestoredDocument(o, status) ==
    [status |-> IF status = "interrupted" THEN op[o].base.status ELSE "failed",
     revision |-> op[o].base.revision + 2,
     units |-> op[o].base.units]

ProcessedDocument(o) ==
    [status |-> "processed", revision |-> op[o].base.revision + 2,
     units |-> [by |-> o, edit |-> 0]]

AdmittedRow(source, forced) ==
    [status |-> "running", base |-> doc, receipt |-> Uploaded, source |-> source,
     forced |-> forced]

EndedRow(o, status) == [op[o] EXCEPT !.status = status]

CommittedRow(o) == [op[o] EXCEPT !.status = "committed", !.receipt = ProcessedDocument(o)]

-----------------------------------------------------------------------------
(* The checkpoint *)

OpenedCheckpoint == [NoCheckpoint EXCEPT !.open = TRUE]

\* save_page: a page too many ends the saving of pages.
WithPage(c, q) ==
    IF c.limited \/ Len(c.pages) + c.size + 1 > Capacity
    THEN [c EXCEPT !.limited = TRUE]
    ELSE [c EXCEPT !.pages = Append(c.pages, q)]

\* A forced run uses no report on failed pages, and reuses none that requires OCR.
Usable(forced, report) == ~(forced /\ report = "degraded")

Reusable(forced, report) == Usable(forced, report) /\ ~(forced /\ report = "required")

Staged(c, pages, report, output, size) ==
    [open |-> c.open, pages |-> pages, report |-> report, output |-> output, size |-> size,
     limited |-> FALSE]

CompactsFirst(c, forced, report, output, size) ==
    IF Len(c.pages) + size <= Capacity THEN Staged(c, c.pages, report, output, size)
    ELSE IF Reusable(forced, report) /\ size <= Capacity + 1
    THEN Staged(c, <<>>, report, output, size)
    ELSE [c EXCEPT !.limited = TRUE]

CompactsDegraded(c, forced, report, output, size) ==
    IF Len(c.pages) + size <= Capacity THEN Staged(c, c.pages, report, output, size)
    ELSE IF size <= Capacity THEN Staged(c, <<>>, report, output, size)
    ELSE [c EXCEPT !.limited = TRUE]

\* save_stage: pages make room for a complete stage that makes them obsolete;
\* a stage that does not fit even so is not saved.
WithStage(c, forced, report, output, size) ==
    IF Len(c.pages) + size <= Capacity THEN Staged(c, c.pages, report, output, size)
    ELSE IF Reusable(forced, report) /\ size <= Capacity
    THEN Staged(c, <<>>, report, output, size)
    ELSE [c EXCEPT !.limited = TRUE]

\* What generate_document keeps of the snapshot it resumes from.
Restored(c, forced) ==
    IF Reusable(forced, c.report) THEN c
    ELSE [c EXCEPT !.report = "none", !.output = FALSE]

-----------------------------------------------------------------------------
(* A worker's program counter and locals *)

Goto(s, label) == pc' = [pc EXCEPT ![s] = label]

\* The end of process_document: how it came out.
Answer(s, outcome) == Goto(s, "answer") /\ job' = [job EXCEPT ![s].outcome = outcome]

\* A checkpoint write under _write's fence, then the next step; fenced, it raises.
Save(s, checkpoint, label) ==
    LET o == job[s].op IN
    IF Running(o)
    THEN saved' = [saved EXCEPT ![o] = checkpoint] /\ Goto(s, label)
    ELSE saved' = saved /\ Goto(s, "fail")

-----------------------------------------------------------------------------
(* Streams, processes and the rest of the program *)

\* A document just uploaded, or one processed before.
Init ==
    /\ doc \in {Uploaded, Known}
    /\ debug = doc.units
    /\ op = [o \in Op |-> NoRow]
    /\ saved = [o \in Op |-> NoCheckpoint]
    /\ up = {}
    /\ pc = [s \in Server |-> "idle"]
    /\ job = [s \in Server |-> NoJob]
    /\ cancelled = {}
    /\ told = [s \in Server |-> Nothing]
    /\ asks = 0
    /\ renames = 0
    /\ crashes = 0

\* POST process/stream, from the start or from the checkpoint of an operation.
Ask(s, source, forced) ==
    /\ asks < MaxAsks
    /\ s \in up
    /\ pc[s] = "idle"
    /\ source # NoOp => op[source].status # "none"
    /\ Goto(s, IF source = NoOp THEN "admit" ELSE "snapshot")
    /\ job' = [job EXCEPT ![s] = Request(source, forced)]
    /\ cancelled' = cancelled \ {s}
    /\ asks' = asks + 1
    /\ told' = [told EXCEPT ![s] = Nothing]
    /\ UNCHANGED <<store, up, renames, crashes>>

\* The handle's completed_at is set, or it has none yet.
Completed(s) == pc[s] \in {"idle", "tell"}

\* The interrupt handle's lock: cancel before completed_at is set, or never.
Cancel(s) ==
    /\ ~Completed(s)
    /\ s \notin cancelled
    /\ cancelled' = cancelled \union {s}
    /\ UNCHANGED <<store, up, pc, job, told, bounds>>

RenameDocumentOnly ==
    /\ renames < MaxRenames
    /\ doc.status # "processing"
    /\ doc.units.by # NoOp
    /\ renames' = renames + 1
    /\ doc' = [doc EXCEPT !.revision = doc.revision + 1,
                          !.units = [by |-> doc.units.by, edit |-> doc.units.edit + 1]]
    /\ UNCHANGED <<debug, op, saved, up, pc, job, stream, asks, crashes>>

\* rename_study_unit, against the revision the reader saw: one transaction.
Rename ==
    /\ renames < MaxRenames
    /\ doc.status # "processing"
    /\ doc.units.by # NoOp
    /\ renames' = renames + 1
    /\ doc' = [doc EXCEPT !.revision = doc.revision + 1,
                          !.units = [by |-> doc.units.by, edit |-> doc.units.edit + 1]]
    /\ debug' = [by |-> debug.by, edit |-> debug.edit + 1]
    /\ UNCHANGED <<op, saved, up, pc, job, stream, asks, crashes>>

Crash(s) ==
    /\ s \in up
    /\ crashes < MaxCrashes
    /\ crashes' = crashes + 1
    /\ up' = up \ {s}
    /\ Goto(s, "idle")
    /\ job' = [job EXCEPT ![s] = NoJob]
    /\ UNCHANGED <<store, cancelled, told, asks, renames>>

FailsWithoutRestoring(s) ==
    /\ s \notin up
    /\ up' = up \union {s}
    /\ op' = [o \in Op |-> IF Running(o) THEN EndedRow(o, "failed") ELSE op[o]]
    /\ UNCHANGED <<doc, debug, saved, pc, job, stream, bounds>>

\* A process starts: recover_abandoned, one transaction over the running rows.
Start(s) ==
    /\ s \notin up
    /\ up' = up \union {s}
    /\ op' = [o \in Op |-> IF Running(o) THEN EndedRow(o, "failed") ELSE op[o]]
    /\ doc' = IF \E o \in Op : Running(o) /\ Holds(o)
              THEN RestoredDocument(CHOOSE o \in Op : Running(o) /\ Holds(o), "failed")
              ELSE doc
    /\ UNCHANGED <<debug, saved, pc, job, stream, bounds>>

-----------------------------------------------------------------------------
(* Admission *)

\* The checkpoint to resume from is read, and whether it has a child.
Snapshot(s) ==
    LET r == job[s].source IN
    /\ pc[s] = "snapshot"
    /\ \/ /\ ~saved[r].open \/ op[r].forced # job[s].forced
          /\ Answer(s, "raised")
       \/ /\ saved[r].open /\ op[r].forced = job[s].forced
          /\ HasChild(r)
          /\ Goto(s, "child")
          /\ job' = [job EXCEPT ![s].op = ChildOf(r), ![s].known = TRUE]
       \/ /\ saved[r].open /\ op[r].forced = job[s].forced
          /\ ~HasChild(r)
          /\ Goto(s, "admit")
          /\ job' = [job EXCEPT ![s].restored = saved[r]]
    /\ UNCHANGED <<store, up, stream, bounds>>

\* Its compare-and-swap, unique slot and unique child make its reads hold.
Admit(s, o) ==
    LET r == job[s].source IN
    /\ pc[s] = "admit"
    /\ op[o].status = "none"
    /\ r # NoOp => ~HasChild(r) /\ Resumable(r)
    /\ NoneActive
    /\ doc.status # "processing"
    /\ doc' = ProcessingDocument
    /\ op' = [op EXCEPT ![o] = AdmittedRow(r, job[s].forced)]
    /\ Goto(s, "open")
    /\ job' = [job EXCEPT ![s].op = o]
    /\ UNCHANGED <<debug, saved, up, stream, bounds>>

AdmitRefused(s) ==
    LET r == job[s].source IN
    /\ pc[s] = "admit"
    /\ \/ /\ r # NoOp /\ HasChild(r)
          /\ Goto(s, "child")
          /\ job' = [job EXCEPT ![s].op = ChildOf(r), ![s].known = TRUE]
       \/ /\ r # NoOp => ~HasChild(r)
          /\ (r # NoOp /\ ~Resumable(r)) \/ ~NoneActive \/ doc.status = "processing"
          /\ Answer(s, "raised")
    /\ UNCHANGED <<store, up, stream, bounds>>

\* initialize, and the stream learns the operation's identity.
OpenCheckpoint(s) ==
    /\ pc[s] = "open"
    /\ Save(s, OpenedCheckpoint, "begin")
    /\ job' = [job EXCEPT ![s].known = Running(job[s].op)]
    /\ UNCHANGED <<doc, debug, op, up, stream, bounds>>

-----------------------------------------------------------------------------
(* generate_document *)

\* A resume whose snapshot has the whole output saves it and is done.
ReuseOutput(s) ==
    LET r == Restored(job[s].restored, job[s].forced) IN
    /\ pc[s] = "begin"
    /\ s \notin cancelled
    /\ r.output
    /\ Save(s, WithStage(saved[job[s].op], job[s].forced, r.report, TRUE, r.size), "prepared")
    /\ job' = [job EXCEPT ![s].report = r.report, ![s].prepared = Running(job[s].op)]
    /\ UNCHANGED <<doc, debug, op, up, stream, bounds>>

ReuseReport(s) ==
    LET r == Restored(job[s].restored, job[s].forced) IN
    /\ pc[s] = "begin"
    /\ s \notin cancelled
    /\ ~r.output /\ r.report # "none"
    /\ Save(s, WithStage(saved[job[s].op], job[s].forced, r.report, FALSE, r.size), "units")
    /\ job' = [job EXCEPT ![s].report = r.report]
    /\ UNCHANGED <<doc, debug, op, up, stream, bounds>>

BeginParsing(s) ==
    LET r == Restored(job[s].restored, job[s].forced) IN
    /\ pc[s] = "begin"
    /\ s \notin cancelled
    /\ ~r.output /\ r.report = "none"
    /\ Goto(s, "parse")
    /\ UNCHANGED <<store, up, job, stream, bounds>>

\* A completed page of the snapshot is reused; any other is extracted.
PageQuality(restored, n) ==
    IF n <= Len(restored.pages) /\ restored.pages[n] = "good" THEN {"good"} ELSE Quality

ParsePage(s) ==
    LET o == job[s].op  n == Len(job[s].done) + 1 IN
    /\ pc[s] = "parse"
    /\ s \notin cancelled
    /\ n <= PageCount
    /\ \E q \in PageQuality(job[s].restored, n) :
          /\ Save(s, WithPage(saved[o], q), "parse")
          /\ job' = [job EXCEPT ![s].done = Append(job[s].done, q)]
    /\ UNCHANGED <<doc, debug, op, up, stream, bounds>>

ReportsOn(forced, pages) ==
    IF \E n \in DOMAIN pages : pages[n] = "bad" THEN {"degraded"}
    ELSE {"good"} \union {report \in {"required"} : forced}

SaveReport(s) ==
    /\ pc[s] = "parse"
    /\ s \notin cancelled
    /\ Len(job[s].done) = PageCount
    /\ \E report \in ReportsOn(job[s].forced, job[s].done), size \in StageSizes :
          /\ Save(s, WithStage(saved[job[s].op], job[s].forced, report, FALSE, size), "units")
          /\ job' = [job EXCEPT ![s].report = report]
    /\ UNCHANGED <<doc, debug, op, up, stream, bounds>>

\* build_study_units, unless a forced OCR came out degraded; the stage returns.
BuildUnits(s) ==
    /\ pc[s] = "units"
    /\ \/ /\ Usable(job[s].forced, job[s].report)
          /\ \E size \in StageSizes :
                Save(s, WithStage(saved[job[s].op], job[s].forced, job[s].report, TRUE, size),
                     "prepared")
          /\ job' = [job EXCEPT ![s].prepared = Running(job[s].op)]
       \/ /\ ~Usable(job[s].forced, job[s].report)
          /\ Goto(s, "prepared")
          /\ job' = [job EXCEPT ![s].prepared = TRUE]
          /\ UNCHANGED saved
    /\ UNCHANGED <<doc, debug, op, up, stream, bounds>>

\* The checks and the stage evidence before the commit.
Prepare(s) ==
    /\ pc[s] = "prepared"
    /\ s \notin cancelled
    /\ Goto(s, IF Usable(job[s].forced, job[s].report) THEN "commit" ELSE "fail")
    /\ UNCHANGED <<store, up, job, stream, bounds>>

\* The parser, the harness, the store or the clock raises.
Raise(s) ==
    /\ pc[s] \in Working
    /\ Goto(s, "fail")
    /\ UNCHANGED <<store, up, job, stream, bounds>>

NoticeCancel(s) ==
    /\ pc[s] \in Checking
    /\ s \in cancelled
    /\ Goto(s, "interrupt")
    /\ UNCHANGED <<store, up, job, stream, bounds>>

-----------------------------------------------------------------------------
(* The end of the operation *)

\* commit_success: document, debug projection, receipt and checkpoint at once.
CommitSuccess(s) ==
    LET o == job[s].op IN
    /\ pc[s] = "commit"
    /\ Running(o)
    /\ CanPublish(o)
    /\ doc' = ProcessedDocument(o)
    /\ debug' = [by |-> o, edit |-> 0]
    /\ op' = [op EXCEPT ![o] = CommittedRow(o)]
    /\ Goto(s, "readback")
    /\ UNCHANGED <<saved, up, job, stream, bounds>>

CommitRefused(s) ==
    LET o == job[s].op IN
    /\ pc[s] = "commit"
    /\ ~(Running(o) /\ CanPublish(o))
    /\ Goto(s, "fail")
    /\ UNCHANGED <<store, up, job, stream, bounds>>

\* require, in a transaction of its own: a newer projection makes it raise.
ReadBack(s) ==
    /\ pc[s] = "readback"
    /\ \/ ReadsBack(job[s].op) /\ Answer(s, "returned")
       \/ ~ReadsBack(job[s].op) /\ Goto(s, "fail") /\ UNCHANGED job
    /\ UNCHANGED <<store, up, stream, bounds>>

MarkUnfenced(s, label, status, outcome) ==
    LET o == job[s].op IN
    /\ pc[s] = label
    /\ op' = [op EXCEPT ![o] = EndedRow(o, status)]
    /\ doc' = IF Holds(o) THEN RestoredDocument(o, status) ELSE doc
    /\ Answer(s, outcome)
    /\ UNCHANGED <<debug, saved, up, stream, bounds>>

\* _mark_not_committed: on a running operation only; the document is restored
\* when it is still the one the admission wrote.
MarkNotCommitted(s, label, status, outcome) ==
    LET o == job[s].op IN
    /\ pc[s] = label
    /\ \/ /\ Running(o)
          /\ op' = [op EXCEPT ![o] = EndedRow(o, status)]
          /\ doc' = IF Holds(o) THEN RestoredDocument(o, status) ELSE doc
       \/ /\ ~Running(o)
          /\ UNCHANGED <<doc, op>>
    /\ Answer(s, outcome)
    /\ UNCHANGED <<debug, saved, up, stream, bounds>>

\* The end of a prepared output's trace is written with it, fenced by the claim of
\* the stage: once that lease has lapsed it raises, and nothing of it is written.
MarkRolledBack(s) ==
    /\ pc[s] \in {"fail", "interrupt"}
    /\ Running(job[s].op)
    /\ job[s].prepared
    /\ Answer(s, "raised")
    /\ UNCHANGED <<store, up, stream, bounds>>

MarkFailed(s) == MarkNotCommitted(s, "fail", "failed", "raised")

MarkInterrupted(s) == MarkNotCommitted(s, "interrupt", "interrupted", "interrupted")

\* _resume_read_back: a second resume only reads what the first one did.
ReadChild(s) ==
    /\ pc[s] = "child"
    /\ Answer(s, IF ReadsBack(job[s].op) THEN "returned" ELSE "raised")
    /\ UNCHANGED <<store, up, stream, bounds>>

-----------------------------------------------------------------------------
(* The terminal event of the stream *)

\* claim_terminal: later cancels are fenced, an earlier one wins the event.
ClaimTerminal(s) ==
    /\ pc[s] = "answer"
    /\ Goto(s, "tell")
    /\ job' = IF s \in cancelled THEN [job EXCEPT ![s].outcome = "cancelled"] ELSE job
    /\ UNCHANGED <<store, up, cancelled, told, bounds>>

EvidenceOfOutcome(s) == IF job[s].outcome = "returned" THEN "uncertain" ELSE "not_committed"

\* _stream_failure_evidence, from the operation's status.
FailureEvidence(s) ==
    IF ~job[s].known THEN "not_committed"
    ELSE IF op[job[s].op].status \in {"failed", "interrupted"} THEN "not_committed"
    ELSE "uncertain"

\* The event and the evidence read for it.
Tell(s) ==
    /\ pc[s] = "tell"
    /\ told' = [told EXCEPT ![s] =
         IF job[s].outcome = "returned" /\ ReadsBack(job[s].op)
         THEN [event |-> "completed", evidence |-> "committed", op |-> job[s].op]
         ELSE [event |-> IF job[s].outcome \in {"cancelled", "interrupted"}
                         THEN "cancelled" ELSE "error",
               evidence |-> FailureEvidence(s), op |-> job[s].op]]
    /\ Goto(s, "idle")
    /\ job' = [job EXCEPT ![s] = NoJob]
    /\ UNCHANGED <<store, up, cancelled, bounds>>

-----------------------------------------------------------------------------
(* The specification *)

\* What the worker of a stream may do next.
Step(s) ==
    \/ Snapshot(s)
    \/ \E o \in Op : Admit(s, o)
    \/ AdmitRefused(s)
    \/ OpenCheckpoint(s)
    \/ ReuseOutput(s) \/ ReuseReport(s) \/ BeginParsing(s)
    \/ ParsePage(s) \/ SaveReport(s) \/ BuildUnits(s) \/ Prepare(s)
    \/ NoticeCancel(s)
    \/ CommitSuccess(s) \/ CommitRefused(s) \/ ReadBack(s)
    \/ MarkFailed(s) \/ MarkInterrupted(s) \/ MarkRolledBack(s)
    \/ ReadChild(s)
    \/ ClaimTerminal(s) \/ Tell(s)

\* What a process that runs may do.
Work ==
    \/ Rename
    \/ \E s \in Server :
        \/ \E source \in Op \union {NoOp}, forced \in Forced : Ask(s, source, forced)
        \/ Cancel(s)
        \/ Raise(s)
        \/ Step(s)

Next ==
    \/ Work
    \/ \E s \in Server : Crash(s) \/ Start(s)

Spec == Init /\ [][Next]_vars

\* Threads go on, and a process that died is started again.
FairSpec == Spec /\ \A s \in Server : WF_vars(Step(s)) /\ WF_vars(Start(s))

-----------------------------------------------------------------------------
(* Properties *)

Shaped ==
    /\ doc \in Document
    /\ debug \in Units
    /\ op \in [Op -> Row]
    /\ saved \in [Op -> Checkpoint]
    /\ up \subseteq Server
    /\ pc \in [Server -> Label]
    /\ job \in [Server -> Job]
    /\ cancelled \subseteq Server
    /\ told \in [Server -> Terminal]
    /\ asks \in Nat
    /\ renames \in Nat
    /\ crashes \in Nat

\* The rows keep their shape, and the staged content of an operation its budget.
TypeOK ==
    /\ Shaped
    /\ \A o \in Op : Len(saved[o].pages) + saved[o].size <= Capacity

\* A document is "processing" exactly while one running operation holds it: no
\* failure, restart or rename leaves it so, or frees it under its operation.
ProcessingIsOwned ==
    /\ doc.status = "processing" => \E o \in Op : Running(o)
    /\ \A o \in Op : Running(o) => Holds(o)

\* The debug projection has the study units of the document, whatever was
\* restored, renamed or committed in between.
ProjectionsAgree == debug = doc.units

\* An operation that resumes another starts from the very study units that one
\* found, nothing having changed the document in between, and is the only one.
ResumeIsFresh ==
    \A o \in Op :
        op[o].source # NoOp =>
            /\ op[op[o].source].status \in {"failed", "interrupted"}
            /\ op[o].base.units = op[op[o].source].base.units
            /\ op[o].forced = op[op[o].source].forced
            /\ \A c \in Op : op[c].source = op[o].source => c = o

\* What the client was told stays true: "completed" was committed and not
\* cancelled, "not_committed" never will be, and a cancel that came in time is
\* never answered with "completed".
StreamTellsTruth ==
    \A s \in Server : told[s].event # "" =>
        /\ told[s].event = "completed" <=> told[s].evidence = "committed"
        /\ told[s].evidence = "committed" => op[told[s].op].status = "committed"
        /\ told[s].evidence = "not_committed" /\ told[s].op # NoOp =>
              op[told[s].op].status \in {"failed", "interrupted"}
        /\ s \in cancelled => told[s].event # "completed"

\* The pages of a checkpoint a resume need not extract again.
Kept(o) ==
    IF saved[o].report # "none" /\ Reusable(op[o].forced, saved[o].report)
    THEN 1..PageCount
    ELSE {n \in DOMAIN saved[o].pages : saved[o].pages[n] = "good"}

\* Saved work is never lost, nor written once the operation has ended: not by
\* compaction, a stage that does not fit, a restart or a late worker.
SavedWorkIsKept ==
    [][\A o \in Op :
        /\ Kept(o) \subseteq Kept(o)'
        /\ op[o].status \in Ended => saved'[o] = saved[o] /\ op'[o] = op[o]]_<<op, saved>>

\* An operation runs and no worker has it, though every process is up: its failure
\* was rolled back, and only the next start of a process will end it.
Stranded ==
    /\ up = Server
    /\ \E o \in Op : Running(o) /\ \A s \in Server : job[s].op # o

\* A document in processing is freed in the end, with workers that die too, unless
\* the lease of a prepared output lapsed before its operation could be failed.
DocumentIsFreed ==
    doc.status = "processing" ~> doc.status # "processing" \/ Stranded

\* "Cleanup or projection failure records not_committed and returns the Document
\* to a durable non-processing state" (docs/api-reference.md).
FailureEndsOperation ==
    \A s \in Server : pc[s] = "answer" /\ job[s].prepared => ~Running(job[s].op)

\* The operation that holds the document, if any.
Holder == IF NoneActive THEN NoOp ELSE CHOOSE o \in Op : Running(o)

Outcome == [o \in Op |->
    CASE op[o].status = "none" -> "new"
      [] op[o].status = "running" -> "holding"
      [] op[o].status = "committed" -> "published"
      [] OTHER -> "released"]

Lease == INSTANCE DocumentLease WITH
    Owner <- Op \union {NoOp, Earlier},
    content <- doc.units, revision <- doc.revision, holder <- Holder, outcome <- Outcome

\* The journal, the restores and the renames implement an exclusive lease of
\* the document: only its holder publishes, and only once.
ImplementsLease == Lease!Spec
=============================================================================
