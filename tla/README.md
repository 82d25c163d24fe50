# Verification of Vibe Learner

TLA+ models of the parts of Vibe Learner that several requests, processes and crashes can
reach at once, the TLC runs that check them on small instances, and theorems about them
that TLAPS checks for every instance.

Tools: `tlasany M.tla` parses, `tlc -workers 2 -config X.cfg M` checks a run,
`tlapm M.tla` checks the proofs of a module.

## 1. The system

Vibe Learner is a monorepo: a FastAPI backend (`services/ai/app`), a Next.js web client
(`apps/web`), a Tauri desktop shell (`apps/desktop`), and shared wire contracts
(`packages/shared`). The backend keeps its state in one relational database (SQLite on a
desktop, PostgreSQL on a server). Requests run in threads, possibly of several processes;
they meet only in the database, and the code's own protocols (revisions compared and
swapped, leases, claim epochs, one-active slots, unique keys) are what makes them safe.
That is what is worth modelling here.

| Component | State | Operations | Hard behaviour | What makes it correct | Modules |
| --- | --- | --- | --- | --- | --- |
| **Tavern rooms and runs** (`persistence/tavern_repository.py`, `services/tavern.py`) | room (status, revision, sequence), cast, runs, speaker steps, messages | create, turn, retry, resume, cancel, edit, delete; per step claim, renew, complete, fail | several workers per run, lease expiry, takeover, late results, reads before admission | one pending run, one transcript, each speaker once, ended runs frozen, every run ends | `TavernRun`, `TavernTranscript` |
| **Study chat operations** (`persistence/study_chat_operation_repository.py`, `services/study_chat_application.py`) | one row per client request | admit, claim, provider started, commit turn, mark uncertain or not committed, read | a reader expires what an execution is about to commit; repeated requests | at most one turn per request, one active operation per session, receipts that read back | `StudyChat`, `StudyLedger` |
| **Study session aggregate** (`persistence/study_session_repository.py`) | turns, revision, question attempts, confirmations | mutate under compare-and-swap, append turn, decide a confirmation | lost races, bounded retries | turns only appended, answers kept with their attempts, plan and session decided together | `StudyChat`, `StudySession`, `PlanRevision` |
| **Document processing** (`document_process_operation_repository.py`, `document_checkpoint_repository.py`, `services/documents.py`, `stream_interrupts.py`) | document, debug projection, operation, checkpoint, cancel flag | admit, resume, save page and stage, commit, fail, interrupt, recover at startup, rename | startup recovery beside a running worker, compaction at the budget, cancel against completion, a failure later than its lease | a document is processing exactly while an operation holds it, saved work is never lost, the client is told the truth | `DocumentProcess`, `DocumentLease` |
| **Learning plan operations** (`learning_plan_operation_repository.py`) | operation, plan | admit, provider started, commit, terminalize, recover | documents that change meanwhile, late terminal states | a plan is stored only on the document it was made from | `DocumentPlanning` |
| **Study-unit revisions** (`study_unit_revision_repository.py`) | suggestion and decision | accept, reject, fail, recover | concurrent decisions, a reader that gives up a slow worker | applied once, to the study units it was shown with | `DocumentPlanning` |
| **Plans and plan revisions** (`learning_plan_repository.py`, `plan_revision_repository.py`) | plan, its history, proposals | edit, delete, confirm, preview, accept, reject, interrupt | every writer replaces the whole plan from a row it read | no write is lost, history is complete, an acceptance is one commit | `PlanRevision` |
| **Harness runtime** (`harness_runtime_repository.py`) | trace: prepared, claimed, terminal; lease | prepare, claim, start, append, terminalize | a reader ends the trace of a slow worker | terminal is final, outcome and owner commit together | `PlanRevision` |
| **Diagnostic spool** (`apps/desktop/src-tauri/src/diagnostics.rs`, `diagnostic_counter.rs`, `app/services/diagnostic_desktop_spool.py`) | event files, two counter slots, an old temporary | write, evict, checkpoint, migrate, consume | torn and unsynchronized writes, crash, loss of power, legacy format | the count never decreases nor claims too much, an announced event is kept | `DesktopSpool` |
| **Harness effects and operations** | journal of external effects, identity rows | prepare, seal, terminalize | | written in their owners' transactions | |
| **Web fences** (`apps/web/lib`, `apps/web/hooks`) | tickets, drafts, timers | start, answer, edit, save, flush | late and reordered answers | no stale answer overwrites newer work | |
| **Not protocols**: personas, scenes, settings, storage clean-up, providers, backend diagnostics, desktop shell, shared contracts, model-quality tools | | | | | |

Interaction: the web client calls the backend's routes; a route calls a service; a service
computes outside any transaction (model calls take seconds to minutes) and reads and writes
through repositories, each method of which is one database transaction. Study chat, tavern,
documents and plans bind their operations to harness operations, whose traces and effects
are written inside the owners' transactions. Two requests for one room, session or document
may run in different processes; the in-process locks of the services are therefore not
relied on by the models. The desktop shell and the backend share only the spool's directory
and its file lock.

*The database.* Every module assumes that a transaction commits or rolls back as one and that
writers of one row are serialized. A SELECT that precedes the first write is protected by
neither database (SQLite's driver opens its transaction at the first write; PostgreSQL runs
at read committed), so a read followed by a write is one action only when the write's own
condition (a compare-and-swap, a unique slot, a status in its WHERE) makes the read hold.

## 2. Plan

Done, each with its runs: the tavern (section 3), study chat and the other writers of its
session (4), document processing (5),
planning on a document as its composition with plans and study-unit suggestions (6), plan
revisions with their harness traces and every other writer of a plan (7), and the desktop's
diagnostic spool (8). Each of them has its theorems: every safety property, action property
and refinement that a passing run checks is proved for all values of the constants.

Left, in this order:

1. Harness recovery: a trace whose worker died after the external call began is only claimed
   for recovery (`harness_runtime_repository.py:249`).
2. The browser's side of study chat: fences and the settings queue of `apps/web`.

## 3. Tavern

### Modules

- `TavernRun`: the room, its runs and steps, and the request workers.
- `TavernTranscript`: what a reader is promised: one transcript that only grows, written by
  one open run at a time, every speaker in order and once, nothing from a closed run.
  `TavernRun` implements it (`ImplementsTranscript`), under the mapping `Transcript`,
  `Phase`, and `room.status = "deleted"`.
- `MCTavernRun`: symmetry sets for TLC.
- `TavernRunProofs`: types, the room's revision, and the end of runs.
- `TavernTranscriptProofs`: steps and transcript, retries, and the refinement.

### State and code

| Variable | Code |
| --- | --- |
| `room` | row of `tavern_rooms` and the display orders of `tavern_participants` |
| `run`, `step` | rows of `tavern_runs` and `tavern_run_steps` |
| `message` | rows of `tavern_messages`; a message is named by its sequence, unique in the room |
| `pc` | where a request of `services/tavern.py` stands |
| `draft` | the run or room a request computed and has not written |
| `exec` | the step a request executes: run, slot, `expected_claim_count`, reply anchor, and whether `completed_run` is bound |
| `crashes` | a bound on crashes |

A transaction of the repository is one action: `AdmitRun` is `begin_run`, `ClaimStep`,
`ExhaustStep` and `RefuseClaim` are the three outcomes of `claim_step`, `RenewLease` is the
heartbeat's `renew_step_lease`, `CompleteStep` is `complete_step`, `FailStep` is
`fail_step`, `EndLostStep` and `FailEndedRun` end with `record_terminal_step_trace`,
`CancelRun`, `CommitEdit` and `DeleteRoom` are the room's other writers. Reads between
transactions are actions of their own (`ReadForTurn`, `ReadForRetry`, `ReadForEdit`,
`LoadRun`, `BeginCommit`): what a worker read may be stale when it is used.

### Abstractions

- *Reads before admission* are one action at the last of them. Admission compares the
  room's revision, and status and cast change only with it, so an earlier read that differs
  cannot be admitted. The expected revision a client sends is one it was shown, hence at
  most the current one when the room is read; a smaller one loses the comparison.
- *Idempotency keys*: a request repeated under a known key is a resume (`StartResume`) or
  reads a finished run, which changes nothing. Two concurrent requests under one new key
  compete for the revision, and the loser writes nothing.
- *Time*: a lease is the ticks it has left. `claim_step` and `renew_step_lease` read the
  clock in the transaction that writes; `complete_step` and `fail_step` read it before they
  wait for the run's row, so `exec.live` records whether the lease was alive when the
  transaction could have begun.
- *Model calls*: a generation ends with a reply (`BeginCommit`), an error (`BeginFail`), a
  lost lease (`LoseStep`) or a crash, in any order with everything else. The heartbeat may
  fail at any time.
- *Edits* change status or cast; titles and scenes are carried like the status.
- *A deleted room* has the modelling status "deleted"; its rows are gone.
- *Processes*: the locks of one process (`_room_lock`) are left out, since the workers are
  those of all processes.
- *Left out*: harness traces beyond whose evidence a step holds, prompt hashes, runs of
  releases before harness operations (`fail_legacy_unbound_run`), pagination and views.

### Runs

| Run | Instance | Checks | Shows |
| --- | --- | --- | --- |
| tavern_takeover | 1 run of up to 2 speakers, 2 workers, 2 claims, 1 crash, with fairness | TypeOK, StepMatchesTranscript, RunMatchesSteps, EndedRunsAreFrozen, PendingRunsEnd | crashes, expiry, takeover, cancellation and late failures leave exactly the replies of the last claims, chained to one another, and every run ends |
| tavern_turns | 2 runs of up to 2 speakers, 2 workers | SpeaksOnce, ImplementsTranscript | turns and retries never repeat a speaker, and the room implements the abstract transcript |
| tavern_races | 3 runs of 1 speaker, 2 workers, 1 edit | RetryLineage, AdmissionIsFresh, RetryContinuesTranscript | turns, retries, edits and deletion race for the revision; none is admitted on stale data, and a retry never lands behind foreign messages |

*Bounds.* Two workers are enough for every race of the protocol, which is pairwise: an owner
and the one that takes over, an admission and an edit. Two speakers give a first step, a
last step and a step that is blocked by another. Two claims give one takeover and the
exhaustion of the budget (three in production). A lease of one tick can be alive, be renewed
and expire. Three runs give a failed run, its retry, and the run that comes between them. They have one
persona, so that what `RetryLineage` says of the cast of a retry is decided only by the other
run's two speakers through `SpeaksOnce`, and by the theorem `RetriesContinueTheirParent`.
`MaxEditRevision` bounds edits, the number of run identifiers bounds admissions,
`MaxCrashes` bounds crashes; renewals need no bound.

*Deadlock* is not checked: once the room is deleted, or the run identifiers are used up,
nothing more can happen.

*Symmetry* is used in the runs without liveness; no property names a particular persona,
worker or run.

*Fairness* (`FairSpec`): a request that has begun is not forgotten by its process
(WF of `Execute(w)`), the database clock advances (WF of `Tick`), and clients resume a run
they see pending (SF of `StartResume`: the recovery hook of the web client polls and resumes
until the run has ended). Nothing is assumed of the heartbeat or of the order of workers;
crashes are bounded, and whether a generation succeeds, fails or is lost is open. Under
these, `PendingRunsEnd`.

### Observations

Places where the model, like the code, allows what a reader may not expect. No run of its
own is kept for them.

- A `continue` can be admitted on a message that is no longer the latest one
  (`services/tavern.py:443`): the check precedes admission, and a reply advances the sequence
  without the revision that admission compares.
- `complete_step` reads the clock before it waits for the run's row
  (`tavern_repository.py:868`), so a reply can be committed under a lease that has just run
  out. It is never committed over a takeover (`StepMatchesTranscript`).
- A resume that finds every step committed by somebody else ends in an error, because its
  answer is built from a variable only its own commit binds (`services/tavern.py:1015`).

### Theorems

From the assumptions named in `TavernRun` (a finite set of personas, positive bounds, null
values outside the sets they extend), for every value of the constants:

- `TypeCorrect`: `Spec => []TypeOK`. TypeOK is not inductive: what a worker writes depends
  on what it remembers. `Located` strengthens it: a worker about to admit holds a run draft,
  one about to edit holds a room draft, one that executes names a run and a slot. One lemma
  per group of actions; the claim budget is where the type says something about the code.
- `AtMostOnePendingRun`: `Spec => []OnePendingRun`, from `RunWrites`, which says what any
  step can do to the runs: admit one, end one, delete all, or nothing.
- `EditsLoseNothing`: `Spec => NoLostEdit`. The invariant `EditFresh` says that an editor
  whose expected revision is still current holds a draft that differs from the room in at
  most one of status and cast; every change of status or cast takes a new revision.
- `EndedRunsStayAsTheyAre`: `Spec => EndedRunsAreFrozen`. The invariant `StepsInTurn` says
  that a step is generating only in a pending run and that steps speak in order; then only
  late evidence can reach a run that has ended.

`TavernTranscriptProofs` begins with the lemma `Moves`, what one step of the program is to a
run: its admission, nothing but late evidence (`Quiet`), a claim, a reply, a failure, or a
cancellation. Three invariants build on it and on one another.

*Agreement*: a step has spoken exactly if its one message is in the transcript, and answers the
reply before it (`Told`); the statuses of steps and run agree (`Settled`); a step that has not
ended has no evidence, and the scheduled slots are the first (`Conforms`); what a worker read
before it claims is still so (`ClaimsKnow`). The last part is the one that the code leaves
implicit: `claim_step` writes an anchor that the service read in an earlier transaction.

- `RepliesAreTheSteps`: `Spec => []StepMatchesTranscript`.
- `RunsAreTheirSteps`: `Spec => []RunMatchesSteps`.

*History*: each admission takes a revision of its own and the pending run is the last one
admitted (`RunsInOrder`); speakers have the order of the room, and edits keep the place of
those who speak (`CastInOrder`); an admission that waits is of the current revision and what it
read still true, or it is of an older one and will be refused (`DraftsAreFresh`); a retry
follows its parent (`Continues`) and nobody in it has spoken earlier in its chain (`Unspoken`).

- `RetriesContinueTheirParent`: `Spec => []RetryLineage`.
- `NobodySpeaksTwice`: `Spec => []SpeaksOnce`.
- `AdmissionsAreFresh`: `Spec => AdmissionIsFresh`.
- `RetriesFindTheirTranscript`: `Spec => RetryContinuesTranscript`.

*Numbered*: the messages of a room are numbered without a gap, so that a message added is a
line appended to `Transcript` (`GrowthAppends`). With `SpeakerIsNext` (who generates is the
first that has not spoken) each move of a run is a step of the abstract specification or a
stutter:

- `RoomImplementsTranscript`: `Spec => ImplementsTranscript`.

`OnePendingRun` and `NoLostEdit` are proved for every instance and have no run of their own.
Only model-checked: `PendingRunsEnd`, since the prover does not handle liveness under fairness.

## 4. Study chat

### Modules

- `StudyChat`: one study session, the operations of its messages, and the requests that
  serve them.
- `StudyLedger`: what a receipt promises: one message open at a time, it ends said, unsaid or
  unknown, only a said one is in the transcript, and an end is final. `StudyChat` implements
  it (`ImplementsLedger`) under the mapping `Outcome` of statuses.
- `StudySession`: `StudyChat` with the other writers of the session's row, answers to
  questions and mutations, each from an older read.
- `MCStudyChat`: symmetry set for TLC.
- `StudyChatProofs`, `StudySessionProofs`: the theorems.

### State and code

| Variable | Code |
| --- | --- |
| `revision`, `turns` | `StudySessionRow.revision` and the session's turns, each named by its operation |
| `sent` | `expected_session_revision`, with which the browser posts a message each time |
| `op` | `StudyChatOperationRow`: status, execution token, whether the provider was started, why it failed, committed revision and sequence |
| `lapsed` | `execution_deadline_at` of a running row, or 30 seconds after `created_at` of an admitted one, is past |
| `files` | messages whose staging directory holds files |
| `pc`, `job` | where a request is in `StudyChatApplication`, and what it remembers: its operation, the status and token it read, the revision its reply is made for |
| `called` | calls of the model provider, which the program does not count |
| `edits`, `crashes` | bounds |

A transaction is one action, with one exception. `admit` reads the session's revision and
inserts the row in one transaction, but locks nothing when it reads: another request may
commit in between. Its reads (`AdmitExisting`, `AdmitRead`) and its insert (`AdmitInsert`, or
`AdmitCollides` at a unique constraint) are therefore actions of their own. `Lookup` and
`LookupActive` are the reads of `get` and `get_active`; when they find an operation expired,
`ExpireRunning` and `ExpireAdmitted` end it in a later transaction, on what was read.
`Validate` is `validate_study_chat_preclaim`, `MarkNotCommitted`, `Claim`,
`MarkProviderStarted`, `CommitTurn`, `MarkUncertain` and `MarkRejected` are the repository's
methods, and `Prepare`, `ReadSession`, `ProviderEnds` and `Cleanup` what the service does
between them. `Mutate` is any other change of the session that adds no turn.

`StudySession` opens that last action. The row holds turns and question results as one payload,
and every writer replaces it as a whole from what it read before, so a write from an old read
would undo a turn or an answer. The module adds three variables:

| Variable | Code |
| --- | --- |
| `result` | `interactive_question.result` of each turn: the tab whose attempt answered it |
| `attempts` | `StudyQuestionAttemptRow`: turn, `client_attempt_id`, the revision it was made for |
| `draft` | what a mutation or an answer has read and not yet written |

`ReadForMutation` and `WriteMutation` are `mutate` up to and with its UPDATE, `ReadForAnswer`
and `WriteAnswer` are `commit_question_attempt`, whose session and attempt are written in one
transaction; `LoseRow` is a writer whose revision is no longer the row's. Every turn is assumed
to have a question. A repeated post of a recorded attempt, and a refusal, are reads and have no
action; two posts of one `client_attempt_id` in flight behave like those of two tabs.

### Abstractions

- *Contents* of messages, replies, effects and receipts are left out, and so are repeated
  keys with another payload, which are refused without a change.
- *Time*: `Lapse` may come at any moment after admission; `Claim` sets a new deadline.
- *Attachments*: every message has some. Staging succeeds, or fails before it leaves a file;
  a clean-up deletes all of the operation's files. Clean-up that fails in the file system is
  left out.
- *Validation* may also fail for reasons the model does not hold (a scene that is gone, a
  used follow-up), hence its second disjunct.
- *A crash* is the death of one request at any step. The database and the files stay as they
  are. Nothing recovers operations at startup.
- *Left out*: rows of releases before harness operations, the traces and effects written in
  the same transactions. That another tab's payload replaces the row is left to `StudySession`.

### Runs

| Run | Instance | Checks | Shows |
| --- | --- | --- | --- |
| study_requests | 2 messages, 2 requests at a time, 1 edit, 1 crash | TypeOK, NoBlindTurn, ReceiptsReadBack, ProviderCalledOnce, CommittedFilesKept, ImplementsLedger | repeated posts, queries, expiry, edits and crashes in any order keep receipts, turns and files in agreement |
| study_ends | `StudySession`: 1 message, 2 requests, 2 tabs, 1 mutation in flight, 2 edits, 2 crashes, with fairness | AnswersReadBack, OperationsSettle | session and attempts agree about every answer, whatever is written from older reads; whoever dies, an admitted operation ends once its receipt is asked for, and a failed one's files go |

*Bounds.* The races are pairwise: two messages compete for the slot, an execution runs beside
one repetition, query or expiry. One edit separates a check from what follows it. Requests are
not bounded in number, only in how many are served at a time; a request ends and another
begins. Two crashes kill an execution and the request that would have cleaned up after it. In
`StudySession` answers count as edits: two of them suffice for one writer to overtake another
that has read the row. Two messages beside two tabs are too many states for a run; the theorems
below have no such bound.

*Deadlock* is checked: a browser can always send another request.

*Fairness* (`Fairness`): a request that is not killed goes on (WF of `Step(w)`; provider calls
have a timeout), time passes (WF of `Lapse`), and the browser keeps asking for the receipt of a
message it posted (SF of `Ask`, strong since a request slot may be busy again and again). This
last assumption is what frees the session: `get_active`, on the way of another message, expires
running operations only, so an operation whose request died between admission and claim waits
for its own receipt to be read.

### Observations

- docs/architecture.md:275 and docs/api-reference.md:929 reserve "safe to retry" for operations
  that never executed. A provider's refusal, and an empty or invalid reply, are reported as not
  committed, hence safe to retry, and the evidence of the claim is erased
  (`study_chat_operation_repository.py:455`).
- docs/api-reference.md:926 says that revision conflicts are caught before the claim. The
  session may change after it; the reply is then dropped and the operation reported uncertain,
  although it is known that nothing was committed (`study_chat_application.py:876`).

### Theorems

From `StudyAssumption` (null values outside the sets they extend, bounds natural), for any
number of messages, requests, edits and crashes. All rest on two facts. `TypeInv`, the
inductive form of TypeOK, adds what a request stands for (`Standing`): past admission its
message has a row, in the execution it carries its own token and the row has been claimed. And
the lemma `RowWrites` says what a step can do to the rows: one update of one row under its
predicate, or a committed row together with its turn, or nothing.

- `TypeCorrect`: `Spec => []TypeOK`, the check constraints of the table included.
- `ReceiptsImplementLedger`: `Spec => ImplementsLedger`. Each disjunct of `RowWrites` is a step
  of the ledger or a stutter.
- `ReceiptsAgreeWithTurns`: `Spec => []ReceiptsReadBack`, inductive beside `TypeInv`.
- `NoTurnIsBlind`: `Spec => []NoBlindTurn`. `FreshInv` says that at most one operation is active
  and that for the one that runs, or is about to be claimed after its check, every committed
  turn was there when its message was written. Admission's own read plays no part: the proof
  rests on the check that comes after the slot is taken.
- `CalledAtMostOnce`: `Spec => []ProviderCalledOnce`. `OnceInv`: one execution per message, and
  no call before its claim.
- `TurnsKeepTheirFiles`: `Spec => []CommittedFilesKept`. `FilesInv`: whoever cleans up on a
  failed receipt was right and still is, since failures are final.

`StudySessionProofs` adds what other writers of the row can do to it. `SessionInv` says that a
writer whose revision is still the row's holds the row's payload (`DraftsAreFresh`), that a tab
answers a turn that was there when it read (`DraftsAnswerTurns`), and that results and attempts
correspond (`ResultsAreAttempts`, `AttemptsStand`). From it and `SessionAssumption`:

- `SessionImplementsChat`: `SessionSpec => Spec`. Every write of a payload is, for the chat,
  the one-step `Mutate`, so that all theorems above hold of the session with its writers.
- `AnswersStand`: `SessionSpec => []AnswersReadBack`.

Only model-checked: `OperationsSettle`, since the prover does not handle liveness under fairness.

## 5. Document processing

### Modules

- `DocumentProcess`: one document, the operations that process it, their checkpoints, and the
  streams by which clients ask for it and cancel it, in one or more server processes.
- `DocumentLease`: what processing promises about a document: one holder at a time; a holder
  publishes its own content or gives back what it took; nobody edits a held document; every
  such step is one revision. `DocumentProcess` implements it (`ImplementsLease`) under the
  mapping `Holder`, `Outcome`.
- `MCDocument`: symmetry sets.
- `DocumentProcessProofs`: the theorems.

### State and code

| Variable | Code |
| --- | --- |
| `doc`, `debug` | status, revision and study units of `DocumentRow`; study units of `DocumentDebugRow` |
| `op` | `DocumentProcessOperationRow`: status, `base_document_payload`, the receipt's document, `force_ocr`, the parent of `document_checkpoint_resumes` |
| `saved` | `DocumentCheckpointRow` and its pages: saved pages with their quality, report, runtime output, size, whether it is limited |
| `up` | server processes that run |
| `pc`, `job` | where the worker of a stream is in `process_document`, and its locals |
| `cancelled`, `told` | the cancel event of the stream's interrupt handle, its terminal event |
| `asks`, `renames`, `crashes` | bounds |

`Ask` is a request to the stream route, from the start or from an operation's checkpoint.
`Snapshot`, `Admit`, `AdmitRefused` and `OpenCheckpoint` are admission; `ReuseOutput`,
`ReuseReport`, `BeginParsing`, `ParsePage`, `SaveReport`, `BuildUnits` and `Prepare` follow
`generate_document`, each with the checkpoint write it makes (`Save`, fenced by the operation
that runs). `CommitSuccess`, `ReadBack`, `MarkFailed` and `MarkInterrupted` are the ends. Once
the stage has returned its output (`job.prepared`) `_mark_not_committed` also ends the trace,
which requires a claim that is still alive (`harness_runtime_repository.py:578-595`); nothing
renews it after the stage, so its 180 seconds may be over at any time, and `MarkRolledBack` is
the same call raising and leaving everything as it was. `ReadChild` is a second resume,
`ClaimTerminal` and `Tell` the stream's last event. `Start` is a process that starts and runs
`recover_abandoned`, over its neighbours' operations too. `WithPage` and `WithStage` are the
compaction of `save_page` and `save_stage`.

### Abstractions

- *Study units* are named by the operation that built them and the number of edits since; this
  is all that digests are compared for.
- *A page* is one unit of the budget, a stage weighs a member of `StageSizes`. A page's OCR
  completed or did not; a report on one that did not is degraded, and a forced run ends on it
  (`Usable`). A report that says "required", which a forced run leaves when its OCR completed and
  gained nothing, may be committed, but neither makes pages obsolete nor is reused (`Reusable`).
- `Raise` stands for any error of the parser, the harness, the store or the clock.
- The lease of the stage's claim has no variable: it may lapse at any time, which is what a
  clock nobody waits for may do.
- The snapshot and the look for a child are one read: a child admitted in between is found by
  admission again (`AdmitRefused`).
- *Left out*: what a parser extracts; refusals because the uploaded file or the configuration
  changed; documents of releases before revisions; the report files of a stream.
- `Rename` is a rename of a study unit that quotes the revision its reader saw, one
  transaction.

### Runs

| Run | Instance | Checks | Shows |
| --- | --- | --- | --- |
| document_streams | 2 servers, 2 operations, no page, 3 asks, 1 rename, 1 crash | ProcessingIsOwned, ProjectionsAgree, ResumeIsFresh, StreamTellsTruth, ImplementsLease | a server that starts beside a running worker, cancels, resumes and renames leave document, debug projection, receipts and the streams' answers in agreement |
| document_checkpoints | 1 server, 2 operations, 2 pages, budget 2, stages of 1 and 3, with and without forced OCR, 2 asks, 1 crash, with fairness | TypeOK, SavedWorkIsKept, DocumentIsFreed | pages and stages that fit, make room or do not fit: the budget holds, no saved work is lost, the document is freed, or stranded as finding 1 describes |
| document_lapsed_lease | 1 server, 2 operations, no page, no crash | FailureEndsOperation (violated) | finding 1 |

*Bounds.* Two servers: one dies and starts while the other works. Two operations: one and
what comes after it, its resume included; three asks add the second resume, which reads the
child. The pages are the other run's subject: without them the first still goes through every
stage. Two pages against a budget of two, with a stage below and one above it, reach every
branch of the compaction.

*Deadlock* is not checked: a client need not ask, and the asks run out.

*Fairness* (`FairSpec`): the worker of a stream goes on (WF of `Step(s)`; parsing has no
unbounded wait), and a process that died is started again (WF of `Start(s)`). Without the
latter a document whose worker died stays in processing: only a start frees it. A process that
lives need not start again, so that `DocumentIsFreed` excepts `Stranded`: every process is up,
an operation runs, and no worker has it.

*Not shown*: a page of an interrupted parent that the child was about to reuse is lost for the
lineage when the child is interrupted before it saves it again; a further resume starts from
the child. `SavedWorkIsKept` is about one operation's checkpoint.

### Theorems

From `DocumentAssumption` (null values outside the sets they extend, natural bounds and sizes),
for any number of processes, streams, operations, pages, renames and deaths. The lemma
`RowWrites` carries them: a step changes document, debug projection and operations by a rename,
an admission, a commit, or the end of an operation that failed or was interrupted, or not at
all; what `recover_abandoned` does at the start of a process is such an end.

- `DocumentIsHeld`: `Spec => []ProcessingIsOwned`, and `DebugFollowsDocument`:
  `Spec => []ProjectionsAgree`. The invariant `Owned` adds that at most one operation runs, that
  its base has the document's study units and was not itself in processing, and that an
  operation that was given up gave the document back (`GaveBack`): either the document has
  its units or it has moved on since.
- `ResumedOnce`: `Spec => []ResumeIsFresh`, from `Fresh`, which adds what a request about to
  resume has read of the operation it resumes.
- `TypeCorrect`: `Spec => []TypeOK`, with the budget of a checkpoint, and `SavedWorkKept`:
  `Spec => SavedWorkIsKept`. `OneWorker` says that no two streams execute one operation, hence
  pages are saved only while there is no stage, and a stage never takes the place of a
  better one by somebody else; `Accounted` follows the one worker's progress through its
  checkpoint (`Progress`).
- `TerminalEventIsTrue`: `Spec => []StreamTellsTruth`. `Informing` says what a stream knows of
  its operation at each point of the way to its last event; ends are final (`EndsLast`).
- `ProcessImplementsLease`: `Spec => ImplementsLease`. Each disjunct of `RowWrites` is a step of
  the lease or a stutter, under `Owned`.

Only model-checked: `DocumentIsFreed`.

### Finding 1: `FailureEndsOperation`

docs/api-reference.md:501-502 says that "cleanup or projection failure records `not_committed`
and returns the Document to a durable non-`processing` state". `_mark_not_committed` restores the
document, ends the row and, when an output is prepared, ends its trace in one transaction
(`document_process_operation_repository.py:525`). The last of these raises
`HarnessRuntimeFenced` once the claim's 180 seconds are over, and the transaction rolls back: the
request is answered, its operation is still running, the document still in processing, and no
worker is left. New requests for the document are refused until a process starts and
`recover_abandoned` fails the operation. `ProcessingIsOwned` holds all the same: the document has
an operation that runs, only nobody to run it.

## 6. Planning on a document

`DocumentPlanning` extends `DocumentProcess` with the requests that generate a learning plan
from the document and with the study-unit revisions they suggest. `MCPlanning` holds its
symmetry, `DocumentPlanningProofs` the theorems.

### State and code

| Variable | Code |
| --- | --- |
| `plan`, `made` | `LearningPlanOperationRow` of each request (status, base, provider started); requests whose `LearningPlanRow` is stored |
| `unit` | status of the `StudyUnitRevisionOperationRow` the plan suggests |
| `at`, `deciding` | where the worker of the request is in `create_plan`, and the one of the acceptance in `decide` |

`AskPlan`, `AdmitPlan`, `RefusePlan`, `MarkProviderStarted`, `Generate`, `RaisePlan`,
`CommitReads`, `CommitPlan`, `ReadBackPlan`, `MarkTerminal` and `Withdraw` follow one request.
`MarkTerminal` is `mark_terminal` of an operation without a prepared output. With one
(`Withdraw`) the same transaction ends the trace, under the claim of the stage
(`learning_plan_operation_repository.py:566-597`): when that has lapsed it raises and rolls back,
and the row stays running in its slot ("lapsed") until a process starts and reports it as
uncertain.
`commit_success` is two steps: what it reads is protected by nothing until its first write
fences the document's revision. `BeginAccept`, `Reject`, `Apply`, `RaiseUnit`, `Fail` and
`RecoverUnit` are the suggestion's. `Restart` runs both recoveries, the documents' first, and
`Die` ends the workers of plans and suggestions with their process.

### Abstractions

- One server process: `recover_abandoned` of the plans takes what it finds unfinished for its
  own (`PlanningAssumption`).
- A request's base is the document and, with it, the debug projection, read together.
- Whether a generated plan suggests a revision is chosen when it is stored.
- An applied study-unit revision is one edit of the document's study units.
- The 240 seconds after which a reader gives up an acceptance may be over at any time.
- Harness finalization is part of the commit; that it may be refused, because the claim has
  lapsed, is `RaisePlan` before it. The lease may lapse at any time. Plans from a goal without a document, replays
  of one `client_request_id` (a read) and what a plan says are left out.

### Runs

| Run | Instance | Checks | Shows |
| --- | --- | --- | --- |
| document_planning | 2 plans with their suggestions, 1 processing operation, 1 crash | ReceiptHasPlan, AppliedOncePerBase, NoPlanStranded, PlanFitsDocument, DecisionsStay | a plan is stored on the document it was generated from, one suggestion per document is applied, a plan that runs has its worker or will be ended by a start, the slot of a lapsed withdrawal being reported as uncertain, nothing decided changes |
| planning_strands_document | 1 plan, 1 processing operation | FailureFreesDocument (violated) | finding 2 |

*Bounds.* Two plans compete for the slot and, one after the other, suggest revisions of the
same document. One processing changes the document under a plan; a crash separates the
provider's answer from the commit. *Deadlock* is not checked: each plan is asked for once.

### Theorems

From `DocumentAssumption` and `PlanningAssumption`, for any number of plans. `ProcessingIsOwned`
does not hold here (finding 2), so nothing rests on the theorems of section 5 but the types and
the shape of a step. The document is the clock: `DocumentMoves` says that a step that changes
the document or its debug projection is one revision more, so what was read at a revision
holds as long as the revision is that one. The invariant `Planned` adds to the properties that
workers die with their process (`Alone`), that a worker's place matches its row and one about
to commit read this very document or an older one (`Stage`), and that a suggestion that was
applied moved the document on from its base (`Applied`).

- `ReceiptsHavePlans`: `PlanningSpec => []ReceiptHasPlan`.
- `SlotIsFreed`: `PlanningSpec => []NoPlanStranded`: at most one plan runs, it has a worker unless
  no process is up, and the only worker that may have left it is one whose withdrawal was
  rolled back, after the provider had been asked.
- `OneSuggestionPerBase`: `PlanningSpec => []AppliedOncePerBase`.
- `PlansFit`: `PlanningSpec => PlanFitsDocument`.
- `DecisionsAreFinal`: `PlanningSpec => DecisionsStay`.

### Finding 2: `FailureFreesDocument`

docs/api-reference.md:501-502 says that a failure "returns the Document to a durable
non-`processing` state". A document of which a plan is known may be processed again. A plan may
be generated from the document while it is in processing, and the suggestion made with it
accepted: `study_unit_revision_repository.py:211` then replaces the study units, keeps the
status and takes the next revision. The processing operation finds neither the revision its
commit replaces nor the one its restore replaces; it ends as failed, and the document stays in
"processing" with no operation that would free it. `ProcessingIsOwned` holds of document
processing alone; it is this composition that breaks it.

## 7. Plan revisions

`PlanRevision` models one learning plan and everything that writes it; `MCPlanRevision` its
symmetry; `PlanRevisionProofs` the theorems.

### State and code

| Variable | Code |
| --- | --- |
| `plan`, `history` | `LearningPlanRow` (revision, content, deleted) and the `LearningPlanRevisionRow` of each revision |
| `edit` | a learner's request: edit or deletion, with or without `expected_revision` |
| `session`, `approval` | the `StudySessionRow` with a confirmation, and the requests that decide it |
| `op` | `PlanRevisionOperationRow`: status and the base it was previewed on |
| `trace` | `HarnessRuntimeExecutionRow` of the stage's slot: state, whether the lease is alive, the last attempt, the outcome |
| `pc`, `got` | where the worker of a slot is in `create` or `decide`; workers whose stage returned a prepared output |

The content of a plan is what can be lost: the revision its text is from, and the marks of the
edits it holds. A writer reads the row in one step and writes in another; the write is one
transaction over plan and archive, together with the session (`WriteConfirmation`) or with the
operation's row and its trace (`Commit`, `Fail`, `Interrupt`).

`append_attempt` reads the trace and checks its claim (`ReadForAppend`), and then writes by the
row's primary key (`WriteAppend`). What keeps a worker from writing over a trace that a reader
ended in between is the database: the trigger `trg_harness_runtime_identity_immutable` aborts an
update of a terminal row (`persistence/database.py:862-896` for SQLite; migrations
20260903_0016:86-121 and 20261029_0026:17-33 for both). `AppendRefused` is that, the stage
raising. A lease that has lapsed meanwhile does not refuse the append; the commit does.

### Abstractions

- The proposal's text is named by its operation; undoing a revision is another such operation.
- `claim` and `mark_execution_started` are one step; nothing happens between them.
- `attempt_records` is its last item, since what is compared is how the trace ended.
- `Interrupt` reads and writes in one step: its write compares the status it read. The 240
  seconds may be over at any time.
- A process that died is a worker that takes no further step, since no step is fair.
- Up to eight retries of a lost race are "retry or give up".
- A failed stage appends its failed attempt and ends the trace in one step (`RaiseStage`).
- The session and the plan a confirmation reads are one step.
- *Left out*: replays of one `client_request_id` (a read), refusals of a stale base at admission
  (no change), what a patch may contain, budgets and check rows of the harness, its recovery
  claims.

### Runs

| Run | Instance | Checks | Shows |
| --- | --- | --- | --- |
| plan_revisions | 1 operation, 2 learners, 2 approvers, 1 turn of the session | RevisionTypeOK, NoEditIsLost, AcceptCommitsTogether, HistoryIsKept, DecisionsStand | every writer races every other: nothing told to be saved is lost, the archive has every revision as it was, an acceptance is one commit, what is decided stays, an ended trace with the attempts it ended with |

*Bounds.* Two of each kind of writer race for one revision; the operation's preview and
acceptance race them and a reader's interruption. The turn separates the read of a session
from its write. *Deadlock* is not checked: each request happens once. The theorems hold for
any number of each.

### Theorems

From `NameAssumption`, for every number of learners, approvers, operations and turns:

- `RevisionTypes`: `Spec => []RevisionTypeOK`.
- `HistoryStands`: `Spec => HistoryIsKept`, from `HistoryIsComplete` and `HistoryStays`. The
  inductive invariant `PlanInv` adds `RowsAreArchived`: a row that a request read is a row of
  the archive. So a request whose row still has the current revision holds the current
  content, which is why comparing revisions is enough.
- `EditsAreKept`: `Spec => []NoEditIsLost`. `EditInv` adds `ReadUndecided`: a session still at
  the revision that was read is as undecided as it was.
- `AcceptIsOneCommit`: `Spec => []AcceptCommitsTogether`. `AcceptInv` adds `TextIsAccepted` (a
  revision's text is in the archive once it is accepted and from then on) and `TraceTells`
  (what the outcome of each slot's trace says of the row).
- `DecisionsStay`: `Spec => DecisionsStand`.

## 8. The desktop's diagnostic spool

`DesktopSpool` models the writers of the desktop shell and the backend's consumer; `MCSpool`
instantiates it; `DesktopSpoolProofs` holds the theorems.

### State and code

| Variable | Code |
| --- | --- |
| `slot` | `drops.count` and `drops.alternate` as they are read: absent, torn, in the old format, sound |
| `durable` | the images of each slot that the disk may hold |
| `journal` | whether what is read of the slots is durable (`Judge`); no code, for the properties |
| `note` | `drops.pending`, the temporary of an old binary |
| `file`, `kept` | the event files, and the directory as it was last synchronized |
| `claim` | `dropped_before` of each record |
| `stored` | events in the diagnostic database |
| `at`, `job` | where the holder of the spool lock is, and what it remembers |
| `announced`, `evicted`, `expired`, `base` | what happened, for the properties |
| `made`, `faults` | bounds |

`Begin` to `Publish` are the steps of `DesktopDiagnostics::write` at which it can stop with a
different result: recover the temporary, scan, evict, synchronize; write a slot over in place
(`BeginSlot`, `WriteSlot`), synchronize it (`SyncSlot`) and, when it was created, its name
(`SyncSlotName`); then create, write, synchronize and rename the record, and publish. `Reject`,
`Take`, `Persist` and `Acknowledge` are one `step` of the backend. `Stop` ends the holder of the
lock anywhere, by death or by a call that fails: what it had written stays as it is read.
`PowerLoss` returns each slot to any image the disk may hold, a record that was not
synchronized to less of it, and any name of the directory to what was synchronized last.

`Unix` is `cfg(unix)`: `sync_directory` does nothing on other targets (diagnostics.rs:310-313),
the Windows installer among them. There `SyncDirectory` changes nothing.

### Abstractions

- The thread mutex and the file lock are one lock; who finds it busy changes nothing.
- The byte budget is part of `Capacity`; any file may be past seven days.
- A slot's bytes and its checksum: a slot being written decodes to nothing until all of
  it is written.
- `sync_all` of a slot is durable when it returns, and may be so earlier.
- *Left out*: symbolic links and special files, unknown versions, saturation of the 64-bit
  count, the scan limit of the consumer.

### Run

| Run | Instance | Checks | Shows |
| --- | --- | --- | --- |
| desktop_spool | Unix, 3 events, ring of 2, old counts up to 1, 3 stops or losses of power | SpoolTypeOK, CountIsBacked, PublishedIsKept, NoReaderGoesBack | from a new installation or one an old binary left in any state, the count never claims what was not durably evicted, an acknowledged event stays, and no reader goes back, except as observed below |

*Bounds.* Three events in a ring of two evict; an old count, a temporary below, at and above
it, and three faults tear one write, stop another before it is synchronized, and lose power.
*Deadlock* is not checked: the events run out.

*What is claimed where.* What `CountIsBacked` says of loss of power, and all of
`PublishedIsKept`, rests on synchronized directories and is claimed for Unix only
(docs/diagnostic-audit.md:347-348 excludes the flush of directories on Windows). That the
journal misses no eviction while nothing fails, and `NoReaderGoesBack`, are claimed everywhere;
but the name of a slot created on Windows stays loose, so that there `NoReaderGoesBack` speaks of
kills and failed calls, and of no loss of power after the slot was created.

*Observations.*

- A writer killed, or whose `sync_all` fails, between `write_all` and `sync_all`
  (diagnostic_counter.rs:157-159) leaves a slot that reads as the new count and is not durable.
  `load` accepts it and nobody synchronizes it again, while the next writer overwrites the other
  slot, which was. A loss of power may then lower the count, bring a legacy primary back below
  its backup, or tear both slots. `NoReaderGoesBack` excepts exactly that: a loss of power while
  a slot, or the name of one, is loose (`Loose`), and what follows it. What
  docs/diagnostic-native-counter.md says of an update, that it preserves "the other durable
  copy", and the comment at diagnostic_counter.rs:108-110 assume that the copy is durable because
  it can be read. The document claims no immunity to loss of power, so this is no finding.
- The very first checkpoint of an installation has no other copy. A stop in it leaves no valid
  slot, and every later write is refused, as docs/diagnostic-native-counter.md says;
  docs/diagnostic-audit.md:335 speaks of a valid baseline that is retained. `NoReaderGoesBack`
  therefore starts from the first count that can be read.

### Theorems

From `SpoolAssumption`, for every number of events and faults and every capacity:

- `SpoolTypes`: `Spec => []SpoolTypeOK`, from `JournalInv`: the types (`Rows`), what the disk
  may hold of each slot (`Formats`: what is read is one of it, only the primary is ever in the
  old format), what the holder remembers of the count when it decides (`Loaded`), what it is
  writing while the other slot has the count (`Overwriting`), and the file it handles
  (`Handling`).
- `CountsNeverFall`: `Spec => NoReaderGoesBack`. The slot being written is the damaged or the
  smaller one, so the other still has the count. `ReadingInv` adds what an old binary may read:
  until a legacy primary is converted its backup does not exceed it unless the journal was lost
  (`Ordered`), and while the journal is durable every slot that can be read is on the disk
  (`Firm`), so that a loss of power only takes back what nobody has read.
- `CountsAreBacked`: `Spec => []CountIsBacked`. `CountInv` says that an evicted event has no
  file and is not being written (`Gone`), that an old temporary counts no more than the
  installation had counted (`Noted`), that a writer that has evicted nothing
  yet counts what it loaded, and one about to create its file what the journal has (`Carried`), that nothing is missing from the journal while nothing has failed
  (`Exact`), and, on Unix, that every image of a slot the disk may hold counts only evictions
  that are synchronized (`Counting`). The last is what makes the bound survive a slot that
  falls back: whichever image the disk keeps, it claims too little and never too much.
- `PublishedStays`: `Spec => []PublishedIsKept`. `PublishedInv`, on Unix, says that an announced
  event is safe in the directory as it was last synchronized as well as in the one there is.

## 9. What is proved and what is only checked

Each of sections 3 to 8 has its theorems. Every invariant, action property and refinement that
a passing run checks is stated by one of them and holds for every value of the constants; the
run shows it on its instance and shows, by what it reaches, that the hypotheses can be met.
Only model-checked: the liveness properties `PendingRunsEnd`, `OperationsSettle` and
`DocumentIsFreed`, since the prover handles neither fairness nor ENABLED; and the two
violations, which are counterexamples.

The proofs of a module follow one plan. `TypeInv` is the inductive form of the types; a lemma
(`RowWrites`, `Moves`, `DocumentMoves`) says what any step does to the rows, one proof step per
action; the invariants and refinements are then proved from its few cases and not from the
actions. No theorem assumes more of a constant than the ASSUME of its module, which TLC
evaluates on the runs.

A property that several hazards share is one formula and one run: runs are few and each asks
one question of its system.

## 10. Not modelled

Most of the repository's lines are not protocols: schemas and validation
(`models/`), prompts, parsing and providers, routes that translate between them, evaluation
tools, and a user interface. The modules cover what concurrent requests, crashes and restarts
can reach. Left out, and why:

- *Harness recovery* (claims and renewals for recovery, repair, budgets, checks, commits inside
  `execute`): planned; plan revisions model the claims they use.
- *Harness effects*: their claims, the expiry of those and recovery have no caller in the
  program. What is called is written inside the transactions that `StudyChat` models whole.
- *Harness operations and artifacts*: identity rows and content-addressed snapshots without a
  life cycle of their own.
- *Web fences*: one pure decision per answer (stale or not) and a debounced queue of one;
  planned, after the server's side.
- *Model providers, document parser*: external in effect; a call ends with a result, an error,
  or never.
- *Database sessions*: the external guarantee stated in section 1.
- *Backend diagnostics, storage lifecycle, desktop shell*: files and processes, input and
  output only.
- *Personas, scenes, settings*: reads and writes of single rows.
- *Shared contracts, model-quality tools*: types without behaviour, and tools outside the
  running system.

PROJECT.json has the same list by component, and the hazards with the property that covers
each.
