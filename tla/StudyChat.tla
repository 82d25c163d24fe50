------------------------------ MODULE StudyChat ------------------------------
(***************************************************************************)
(* One study session and the chat operations that add turns to it.  A      *)
(* browser gives each message an identity and the session revision it was  *)
(* written for, and may post it any number of times.  The server admits it *)
(* in the session's one active slot, checks it, claims it once, calls the  *)
(* provider and commits turn and receipt together.  Nothing recovers an    *)
(* operation at startup: whoever reads its receipt after its deadline ends *)
(* it.  A worker is one request the server is serving.                     *)
(***************************************************************************)
EXTENDS Integers, Sequences

CONSTANTS
    Op,          \* messages, by their client_request_id
    NoOp,
    Worker,      \* requests being served
    NoWorker,    \* the empty execution token
    MaxEdits,    \* bound on other changes of the session
    MaxCrashes   \* bound on requests that die half way

ASSUME StudyAssumption ==
    /\ NoOp \notin Op
    /\ NoWorker \notin Worker
    /\ MaxEdits \in Nat
    /\ MaxCrashes \in Nat

VARIABLES
    revision,  \* StudySessionRow.revision
    turns,     \* the operations of the session's turns, in order
    sent,      \* expected_session_revision of each message, Unsent before
    op,        \* StudyChatOperationRow of each message
    lapsed,    \* messages whose row is past its deadline, or 30 s of admission
    files,     \* messages whose staging directory holds files
    pc,        \* where each request is in the code
    job,       \* its local variables
    called,    \* external: provider calls made for each message
    edits,
    crashes

store == <<revision, turns, sent, op, lapsed, files>>
vars == <<revision, turns, sent, op, lapsed, files, pc, job, called, edits, crashes>>

-----------------------------------------------------------------------------
(* Rows and requests *)

Active == {"admitted", "running"}
Failed == {"not_committed", "uncertain"}
Status == {"none", "committed"} \union Active \union Failed
Why == {"", "preflight", "abandoned", "deadline", "rejected", "revision", "failed"}

Unsent == -1
Revision == Nat \union {Unsent}

Row == [status: Status, token: Worker \union {NoWorker}, started: BOOLEAN,
        error: Why, revision: Nat, sequence: Nat]

\* The row's check constraints: only a claimed row has a token and a provider
\* call, only a committed one a revision, only a failed one an error.
RowOK(row) ==
    /\ row \in Row
    /\ (row.token # NoWorker) <=> (row.status \in {"running", "committed", "uncertain"})
    /\ row.started => row.token # NoWorker
    /\ (row.revision > 0) <=> (row.status = "committed")
    /\ (row.error # "") <=> (row.status \in Failed)

\* A row nobody has claimed.
Unclaimed(status, error) ==
    [status |-> status, token |-> NoWorker, started |-> FALSE, error |-> error,
     revision |-> 0, sequence |-> 0]

NoRow == Unclaimed("none", "")

\* A request for a message, and no request.
Request(o, kind) ==
    [op |-> o, kind |-> kind, seen |-> "none", token |-> NoWorker, revision |-> 0, why |-> ""]

NoJob == Request(NoOp, "none")

\* A refused post that ends the operation it found in its way.
ExpiryOf(a) ==
    [op |-> a, kind |-> "active", seen |-> "running", token |-> op[a].token,
     revision |-> 0, why |-> ""]

Job == [op: Op \union {NoOp}, kind: {"none", "post", "get", "active"}, seen: Status,
        token: Worker \union {NoWorker}, revision: Nat, why: Why]

\* Requests before the claim, reads of a receipt, and the claimed execution.
Asking == {"admit", "insert", "blocked", "lookup", "expire", "cleanup", "validate",
           "unclaim", "claim"}
Executing == {"prepare", "read", "start", "calling", "commit", "fail", "reject"}
Label == {"idle"} \union Asking \union Executing

-----------------------------------------------------------------------------
(* The fences of the row's updates *)

SlotIsFree == \A o \in Op : op[o].status \notin Active

TokenMatches(o, token) == op[o].token = token

\* The predicate of every update a claimed execution makes on its row.
Owns(o, token) == op[o].status = "running" /\ op[o].token = token

LapsedIsClaimable(o) ==
    \/ op[o].status = "admitted"
    \/ op[o].status = "running" /\ o \in lapsed

\* The predicate of the claim, the only one there ever is.
Claimable(o) == op[o].status = "admitted"

ExpectsNothing(o) == sent[o] # Unsent

\* What validate_study_chat_preclaim compares before the claim.
StillExpected(o) == revision = sent[o]

EverythingElseLeavesFiles(status) == status # "committed"

\* The statuses whose staged files nobody will read.
LeavesFiles(status) == status \in Failed

OnlyRunningExpires(o) == o \in lapsed /\ op[o].status = "running"

\* get expires both kinds of active row; get_active only the running kind.
Expires(o) == o \in lapsed /\ op[o].status \in Active

-----------------------------------------------------------------------------
(* The rows the updates write *)

AdmittedRow == Unclaimed("admitted", "")

ClaimedRow(o, w) == [op[o] EXCEPT !.status = "running", !.token = w]

StartedRow(o) == [op[o] EXCEPT !.started = TRUE]

UncertainRow(o, why) == [op[o] EXCEPT !.status = "uncertain", !.error = why]

UnclaimedRow(o, why) == [op[o] EXCEPT !.status = "not_committed", !.error = why]

CommittedRowOffByOne(o) ==
    [op[o] EXCEPT !.status = "committed", !.revision = revision + 1, !.sequence = Len(turns)]

\* The receipt of the turn about to be appended.
CommittedRow(o) ==
    [op[o] EXCEPT !.status = "committed", !.revision = revision + 1, !.sequence = Len(turns) + 1]

RejectedRowKeepsClaim(o) == [op[o] EXCEPT !.status = "not_committed", !.error = "rejected"]

\* A rejected row forgets that it was claimed and that the provider was called.
RejectedRow(o) == Unclaimed("not_committed", "rejected")

-----------------------------------------------------------------------------
(* A request's program counter and locals *)

Goto(w, label) == pc' = [pc EXCEPT ![w] = label]

Finish(w) == Goto(w, "idle") /\ job' = [job EXCEPT ![w] = NoJob]

GoFail(w, why) == Goto(w, "fail") /\ job' = [job EXCEPT ![w].why = why]

Serve(w, o, kind, label) ==
    /\ pc[w] = "idle"
    /\ sent[o] # Unsent
    /\ Goto(w, label)
    /\ job' = [job EXCEPT ![w] = Request(o, kind)]
    /\ UNCHANGED <<store, called, edits, crashes>>

\* A receipt in hand: a post goes on with an admitted operation, anything else
\* cleans the staging of a failed one and answers.
Received(w, status) ==
    /\ Goto(w, IF status = "admitted" /\ job[w].kind = "post" THEN "validate" ELSE "cleanup")
    /\ job' = [job EXCEPT ![w].seen = status]

-----------------------------------------------------------------------------
(* The browser, the clock and the rest of the program *)

Init ==
    /\ revision = 0
    /\ turns = <<>>
    /\ sent = [o \in Op |-> Unsent]
    /\ op = [o \in Op |-> NoRow]
    /\ lapsed = {}
    /\ files = {}
    /\ pc = [w \in Worker |-> "idle"]
    /\ job = [w \in Worker |-> NoJob]
    /\ called = [o \in Op |-> 0]
    /\ edits = 0
    /\ crashes = 0

\* The browser mints an identity for a message, at the revision it last saw.
Send(o) ==
    /\ sent[o] = Unsent
    /\ \E r \in 0..revision : sent' = [sent EXCEPT ![o] = r]
    /\ UNCHANGED <<revision, turns, op, lapsed, files, pc, job, called, edits, crashes>>

Post(w, o) == Serve(w, o, "post", "admit")

GetReceipt(w, o) == Serve(w, o, "get", "lookup")

\* The deadline of a running row, or the age of an admitted one, passes.
Lapse(o) ==
    /\ op[o].status \in Active
    /\ o \notin lapsed
    /\ lapsed' = lapsed \union {o}
    /\ UNCHANGED <<revision, turns, sent, op, files, pc, job, called, edits, crashes>>

\* mutate: a follow-up, an affinity or a scene changes the session, none a turn.
Mutate ==
    /\ edits < MaxEdits
    /\ edits' = edits + 1
    /\ revision' = revision + 1
    /\ UNCHANGED <<turns, sent, op, lapsed, files, pc, job, called, crashes>>

\* The process, or the request's thread, dies between two of its steps.
Crash(w) ==
    /\ pc[w] # "idle"
    /\ crashes < MaxCrashes
    /\ crashes' = crashes + 1
    /\ Finish(w)
    /\ UNCHANGED <<store, called, edits>>

-----------------------------------------------------------------------------
(* admit: the reads of its transaction, then its insert *)

AdmitExisting(w) ==
    LET o == job[w].op IN
    /\ pc[w] = "admit"
    /\ op[o].status # "none"
    /\ Received(w, op[o].status)
    /\ UNCHANGED <<store, called, edits, crashes>>

AdmitRead(w) ==
    LET o == job[w].op IN
    /\ pc[w] = "admit"
    /\ op[o].status = "none"
    /\ \/ /\ revision = sent[o]
          /\ Goto(w, "insert")
          /\ UNCHANGED job
       \/ /\ revision # sent[o]
          /\ Finish(w)
    /\ UNCHANGED <<store, called, edits, crashes>>

\* The uniqueness of (session, request) and of (session, active slot).
AdmitInsert(w) ==
    LET o == job[w].op IN
    /\ pc[w] = "insert"
    /\ op[o].status = "none"
    /\ SlotIsFree
    /\ op' = [op EXCEPT ![o] = AdmittedRow]
    /\ Goto(w, "validate")
    /\ UNCHANGED <<revision, turns, sent, lapsed, files, job, called, edits, crashes>>

AdmitCollides(w) ==
    LET o == job[w].op IN
    /\ pc[w] = "insert"
    /\ op[o].status # "none" \/ ~SlotIsFree
    /\ Goto(w, IF op[o].status # "none" THEN "lookup" ELSE "blocked")
    /\ UNCHANGED <<store, job, called, edits, crashes>>

-----------------------------------------------------------------------------
(* get, get_active and the expiry they share; cleanup *)

Lookup(w) ==
    LET o == job[w].op IN
    /\ pc[w] = "lookup"
    /\ \/ /\ op[o].status = "none"
          /\ Finish(w)
       \/ /\ Expires(o)
          /\ Goto(w, "expire")
          /\ job' = [job EXCEPT ![w].seen = op[o].status, ![w].token = op[o].token]
       \/ /\ op[o].status # "none" /\ ~Expires(o)
          /\ Received(w, op[o].status)
    /\ UNCHANGED <<store, called, edits, crashes>>

LookupActive(w) ==
    /\ pc[w] = "blocked"
    /\ \/ \E a \in Op :
            /\ Expires(a)
            /\ op[a].status = "running"
            /\ Goto(w, "expire")
            /\ job' = [job EXCEPT ![w] = ExpiryOf(a)]
       \/ /\ ~ \E a \in Op : Expires(a) /\ op[a].status = "running"
          /\ Finish(w)
    /\ UNCHANGED <<store, called, edits, crashes>>

\* mark_uncertain and mark_not_committed, by a reader, on what it read before.
ExpireRunning(w) ==
    LET o == job[w].op IN
    /\ pc[w] = "expire"
    /\ job[w].seen = "running"
    /\ op' = IF Owns(o, job[w].token)
             THEN [op EXCEPT ![o] = UncertainRow(o, "deadline")]
             ELSE op
    /\ IF job[w].kind = "active" THEN Finish(w) ELSE Received(w, op'[o].status)
    /\ UNCHANGED <<revision, turns, sent, lapsed, files, called, edits, crashes>>

ExpireAdmitted(w) ==
    LET o == job[w].op IN
    /\ pc[w] = "expire"
    /\ job[w].seen = "admitted"
    /\ \/ /\ Claimable(o)
          /\ op' = [op EXCEPT ![o] = UnclaimedRow(o, "abandoned")]
          /\ Received(w, "not_committed")
       \/ /\ ~Claimable(o)
          /\ Finish(w)
          /\ UNCHANGED op
    /\ UNCHANGED <<revision, turns, sent, lapsed, files, called, edits, crashes>>

Cleanup(w) ==
    /\ pc[w] = "cleanup"
    /\ files' = IF LeavesFiles(job[w].seen) THEN files \ {job[w].op} ELSE files
    /\ Finish(w)
    /\ UNCHANGED <<revision, turns, sent, op, lapsed, called, edits, crashes>>

-----------------------------------------------------------------------------
(* From the check to the claim *)

\* A missing scene, a follow-up that is gone or a bad attachment fails it too.
Validate(w) ==
    LET o == job[w].op IN
    /\ pc[w] = "validate"
    /\ \/ StillExpected(o) /\ Goto(w, "claim")
       \/ Goto(w, "unclaim")
    /\ UNCHANGED <<store, job, called, edits, crashes>>

\* Raises, and changes nothing, when another request has claimed or ended it.
MarkNotCommitted(w) ==
    LET o == job[w].op IN
    /\ pc[w] = "unclaim"
    /\ op' = IF Claimable(o) THEN [op EXCEPT ![o] = UnclaimedRow(o, "preflight")] ELSE op
    /\ Finish(w)
    /\ UNCHANGED <<revision, turns, sent, lapsed, files, called, edits, crashes>>

Claim(w) ==
    LET o == job[w].op IN
    /\ pc[w] = "claim"
    /\ Claimable(o)
    /\ op' = [op EXCEPT ![o] = ClaimedRow(o, w)]
    /\ lapsed' = lapsed \ {o}
    /\ Goto(w, "prepare")
    /\ job' = [job EXCEPT ![w].token = w]
    /\ UNCHANGED <<revision, turns, sent, files, called, edits, crashes>>

ClaimRefused(w) ==
    /\ pc[w] = "claim"
    /\ ~Claimable(job[w].op)
    /\ Finish(w)
    /\ UNCHANGED <<store, called, edits, crashes>>

-----------------------------------------------------------------------------
(* The claimed execution *)

\* Stage the attachments in the operation's own directory.
Prepare(w) ==
    /\ pc[w] = "prepare"
    /\ \/ /\ files' = files \union {job[w].op}
          /\ Goto(w, "read")
          /\ UNCHANGED job
       \/ /\ GoFail(w, "failed")
          /\ UNCHANGED files
    /\ UNCHANGED <<revision, turns, sent, op, lapsed, called, edits, crashes>>

\* The session the reply is made for, at whatever revision it has by now.
ReadSession(w) ==
    /\ pc[w] = "read"
    /\ \/ /\ job' = [job EXCEPT ![w].revision = revision]
          /\ Goto(w, "start")
       \/ GoFail(w, "failed")
    /\ UNCHANGED <<store, called, edits, crashes>>

MarkProviderStarted(w) ==
    LET o == job[w].op IN
    /\ pc[w] = "start"
    /\ \/ /\ Owns(o, job[w].token)
          /\ op' = [op EXCEPT ![o] = StartedRow(o)]
          /\ called' = [called EXCEPT ![o] = @ + 1]
          /\ Goto(w, "calling")
          /\ UNCHANGED job
       \/ /\ ~Owns(o, job[w].token)
          /\ GoFail(w, "failed")
          /\ UNCHANGED <<op, called>>
    /\ UNCHANGED <<revision, turns, sent, lapsed, files, edits, crashes>>

\* A reply; a refusal, an empty or invalid reply; a timeout or any other error.
ProviderEnds(w) ==
    /\ pc[w] = "calling"
    /\ \/ Goto(w, "commit") /\ UNCHANGED job
       \/ Goto(w, "reject") /\ UNCHANGED job
       \/ GoFail(w, "failed")
    /\ UNCHANGED <<store, called, edits, crashes>>

\* commit_chat_operation_turn: turn, session and receipt in one transaction,
\* refused unless the revision is the one the execution read.
CommitTurn(w) ==
    LET o == job[w].op IN
    /\ pc[w] = "commit"
    /\ Owns(o, job[w].token)
    /\ revision = job[w].revision
    /\ turns' = Append(turns, o)
    /\ revision' = revision + 1
    /\ op' = [op EXCEPT ![o] = CommittedRow(o)]
    /\ Goto(w, "lookup")
    /\ job' = [job EXCEPT ![w].kind = "get"]
    /\ UNCHANGED <<sent, lapsed, files, called, edits, crashes>>

CommitRefused(w) ==
    LET o == job[w].op IN
    /\ pc[w] = "commit"
    /\ \/ /\ ~Owns(o, job[w].token)
          /\ GoFail(w, "failed")
       \/ /\ Owns(o, job[w].token)
          /\ revision # job[w].revision
          /\ GoFail(w, "revision")
    /\ UNCHANGED <<store, called, edits, crashes>>

MarkUncertain(w) ==
    LET o == job[w].op IN
    /\ pc[w] = "fail"
    /\ op' = IF Owns(o, job[w].token)
             THEN [op EXCEPT ![o] = UncertainRow(o, job[w].why)]
             ELSE op
    /\ Goto(w, "cleanup")
    /\ job' = [job EXCEPT ![w].seen = op'[o].status]
    /\ UNCHANGED <<revision, turns, sent, lapsed, files, called, edits, crashes>>

\* mark_not_committed_after_provider_rejection.
MarkRejected(w) ==
    LET o == job[w].op IN
    /\ pc[w] = "reject"
    /\ op' = IF Owns(o, job[w].token) THEN [op EXCEPT ![o] = RejectedRow(o)] ELSE op
    /\ Goto(w, "cleanup")
    /\ job' = [job EXCEPT ![w].seen = op'[o].status]
    /\ UNCHANGED <<revision, turns, sent, lapsed, files, called, edits, crashes>>

-----------------------------------------------------------------------------
(* The specification *)

\* What a request does of its own accord, once it has been received.
Step(w) ==
    \/ AdmitExisting(w) \/ AdmitRead(w) \/ AdmitInsert(w) \/ AdmitCollides(w)
    \/ Lookup(w) \/ LookupActive(w) \/ ExpireRunning(w) \/ ExpireAdmitted(w)
    \/ Cleanup(w)
    \/ Validate(w) \/ MarkNotCommitted(w) \/ Claim(w) \/ ClaimRefused(w)
    \/ Prepare(w) \/ ReadSession(w) \/ MarkProviderStarted(w) \/ ProviderEnds(w)
    \/ CommitTurn(w) \/ CommitRefused(w) \/ MarkUncertain(w) \/ MarkRejected(w)

Ask(o) == \E w \in Worker : GetReceipt(w, o)

Next ==
    \/ \E o \in Op : Send(o) \/ Lapse(o)
    \/ \E w \in Worker, o \in Op : Post(w, o) \/ GetReceipt(w, o)
    \/ \E w \in Worker : Step(w) \/ Crash(w)
    \/ Mutate

Spec == Init /\ [][Next]_vars

\* A request that is not killed goes on, provider calls time out, deadlines
\* pass, and a browser that has posted a message keeps asking for its receipt.
Fairness ==
    /\ \A w \in Worker : WF_vars(Step(w))
    /\ \A o \in Op : WF_vars(Lapse(o)) /\ SF_vars(Ask(o))

-----------------------------------------------------------------------------
(* Properties *)

\* Columns have their types and rows their check constraints: none of the
\* updates, which name only some columns, is refused by the database for what
\* the row already holds (StudyChatOperationRow.__table_args__).
TypeOK ==
    /\ revision \in Nat
    /\ turns \in Seq(Op)
    /\ sent \in [Op -> Revision]
    /\ op \in [Op -> Row]
    /\ lapsed \subseteq Op
    /\ files \subseteq Op
    /\ pc \in [Worker -> Label]
    /\ job \in [Worker -> Job]
    /\ \A w \in Worker : pc[w] # "idle" => job[w].op \in Op
    /\ called \in [Op -> Nat]
    /\ edits \in 0..MaxEdits
    /\ crashes \in 0..MaxCrashes
    /\ \A o \in Op : RowOK(op[o])

\* No reply is ever added to a conversation that had moved on: the turn that
\* precedes a committed one was already in the session the learner wrote it
\* for (the revision check of admit, the slot, and validate_study_chat_preclaim).
NoBlindTurn ==
    \A a, b \in Op :
        /\ op[a].status = "committed"
        /\ op[b].status = "committed"
        /\ op[a].sequence < op[b].sequence
        => op[a].revision <= sent[b]

\* Receipts and turns say the same: a committed receipt names the turn that is
\* there, under a revision the session has reached, later turns have later
\* revisions, and every turn has its receipt (_validate_committed_read_back).
ReceiptsReadBack ==
    /\ \A o \in Op : op[o].status = "committed" =>
        /\ op[o].sequence \in DOMAIN turns
        /\ turns[op[o].sequence] = o
        /\ op[o].revision <= revision
    /\ \A i \in DOMAIN turns :
        op[turns[i]].status = "committed" /\ op[turns[i]].sequence = i
    /\ \A i, j \in DOMAIN turns : i < j => op[turns[i]].revision < op[turns[j]].revision

\* Whatever the browser repeats and whoever expires the operation, the provider
\* is called at most once for a message (claim, mark_provider_started).
ProviderCalledOnce == \A o \in Op : called[o] <= 1

\* Cleaning up after failed operations never takes the files of a turn: late
\* readers clean on a receipt they read before (_cleanup_terminal_study_chat_staging).
CommittedFilesKept == \A o \in Op : op[o].status = "committed" => o \in files

\* The receipts promise what StudyLedger promises: one message open at a time,
\* only a said one in the transcript, and an end is final.
Outcome(status) ==
    CASE status = "none" -> "none"
      [] status \in Active -> "open"
      [] status = "committed" -> "said"
      [] status = "not_committed" -> "unsaid"
      [] status = "uncertain" -> "unknown"

Ledger == INSTANCE StudyLedger WITH
    transcript <- turns, outcome <- [o \in Op |-> Outcome(op[o].status)]

ImplementsLedger == Ledger!Spec

\* An admitted operation ends, its server dead or not, if its receipt is asked
\* for: nothing else frees the session's slot (get).  And the files staged for one
\* that was not committed are deleted in the end, those a slow execution writes
\* after its expiry too (get_receipt).
OperationsSettle ==
    \A o \in Op :
        /\ op[o].status \in Active ~> op[o].status \notin Active
        /\ op[o].status \in Failed ~> o \notin files
=============================================================================
