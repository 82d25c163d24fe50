------------------------------ MODULE StudySession ------------------------------
(***************************************************************************)
(* The study session with everything that writes its row: the turns of     *)
(* chat operations, mutations, and learners' answers to the question of a  *)
(* turn.  The row holds turns and results as one payload, which a writer   *)
(* replaces as a whole, from what it read before.  An answer is recorded   *)
(* in a table of its own, in the transaction that writes the session.      *)
(***************************************************************************)
EXTENDS StudyChat

CONSTANTS
    Tab,      \* browser tabs: each has one client_attempt_id for a question
    NoTab,
    Mutator   \* requests that change the session otherwise

ASSUME SessionAssumption == NoTab \notin Tab

VARIABLES
    result,    \* question.result of each turn: whose attempt answered it
    attempts,  \* StudyQuestionAttemptRow
    draft      \* what each writer has read, and the turn it answers

answerVars == <<result, attempts, draft>>
sessionVars == <<vars, answerVars>>

\* A tab answers, a mutator mutates.
Writer == Tab \union Mutator

-----------------------------------------------------------------------------
(* Rows and requests *)

\* Its committed_session_revision is the one after before_session_revision.
Attempt == [turn: Op, tab: Tab, before: Nat]

CommittedAs(row) == row.before + 1

Results == [Op -> Tab \union {NoTab}]

\* The payload of a row that was read.
Draft == [busy: BOOLEAN, turn: Op \union {NoOp}, revision: Nat, turns: Seq(Op), result: Results]

NoDraft == [busy |-> FALSE, turn |-> NoOp, revision |-> 0, turns |-> <<>>,
            result |-> [o \in Op |-> NoTab]]

IsAnswered(o) == \E row \in attempts : row.turn = o

Release(v) == draft' = [draft EXCEPT ![v] = NoDraft]

SessionInit ==
    /\ Init
    /\ result = [o \in Op |-> NoTab]
    /\ attempts = {}
    /\ draft = [v \in Writer |-> NoDraft]

-----------------------------------------------------------------------------
(* Writers of the row *)

ReadRow(v, turn) ==
    /\ edits < MaxEdits
    /\ ~draft[v].busy
    /\ draft' = [draft EXCEPT ![v] = [busy |-> TRUE, turn |-> turn, revision |-> revision,
                                      turns |-> turns, result |-> result]]
    /\ UNCHANGED <<vars, result, attempts>>

\* mutate: what it changes is no turn and no result.
ReadForMutation(v) == v \in Mutator /\ ReadRow(v, NoOp)

\* commit_question_attempt: a turn that is there and has no attempt and no result;
\* an attempt of the same tab is read back, another one refuses it.
ReadForAnswer(v, o) ==
    /\ v \in Tab
    /\ \E i \in DOMAIN turns : turns[i] = o
    /\ ~IsAnswered(o)
    /\ result[o] = NoTab
    /\ ReadRow(v, o)

\* Mutant: the row is written whatever its revision.
ReplacesAny(d) == d.revision <= revision

\* UPDATE ... WHERE revision = expected_revision
Replaces(d) == d.revision = revision

\* The whole payload, under the next revision.
WriteRow(d) ==
    /\ edits < MaxEdits
    /\ edits' = edits + 1
    /\ revision' = d.revision + 1
    /\ turns' = d.turns
    /\ UNCHANGED <<sent, op, lapsed, files, pc, job, called, crashes>>

WriteMutation(v) ==
    /\ draft[v].busy /\ draft[v].turn = NoOp
    /\ Replaces(draft[v])
    /\ WriteRow(draft[v])
    /\ result' = draft[v].result
    /\ Release(v)
    /\ UNCHANGED attempts

\* Session and attempt in one transaction.
WriteAnswer(v) ==
    LET o == draft[v].turn IN
    /\ draft[v].busy /\ o # NoOp
    /\ Replaces(draft[v])
    /\ ~IsAnswered(o)
    /\ WriteRow(draft[v])
    /\ result' = [draft[v].result EXCEPT ![o] = v]
    /\ attempts' = attempts \union {[turn |-> o, tab |-> v, before |-> draft[v].revision]}
    /\ Release(v)

\* A mutation may read again; an answer reads back what won, or is refused.
LoseRow(v) ==
    /\ draft[v].busy
    /\ ~Replaces(draft[v])
    /\ Release(v)
    /\ UNCHANGED <<vars, result, attempts>>

-----------------------------------------------------------------------------
(* The specification *)

\* What the session's chat does without a mutation.
Chat ==
    \/ \E o \in Op : Send(o) \/ Lapse(o)
    \/ \E w \in Worker, o \in Op : Post(w, o) \/ GetReceipt(w, o)
    \/ \E w \in Worker : Step(w) \/ Crash(w)

WriterStep(v) ==
    \/ ReadForMutation(v) \/ WriteMutation(v)
    \/ \E o \in Op : ReadForAnswer(v, o)
    \/ WriteAnswer(v) \/ LoseRow(v)

SessionNext ==
    \/ Chat /\ UNCHANGED answerVars
    \/ \E v \in Writer : WriterStep(v)

SessionSpec == SessionInit /\ [][SessionNext]_sessionVars

\* Fairness is the chat's: nobody need answer or change anything.
FairSessionSpec == SessionSpec /\ Fairness

-----------------------------------------------------------------------------
(* Properties *)

SessionTypeOK ==
    /\ result \in Results
    /\ attempts \subseteq Attempt
    /\ draft \in [Writer -> Draft]

\* Session and attempts agree about every question, whatever turns, mutations
\* and answers of other tabs are written from older reads of the row: its result
\* is that of its one attempt, which came after the turn and has a revision no
\* turn and no other attempt has (_read_question_attempt).
AnswersReadBack ==
    /\ SessionTypeOK
    /\ \A o \in Op, tab \in Tab :
          result[o] = tab <=> \E row \in attempts : row.turn = o /\ row.tab = tab
    /\ \A row \in attempts :
          /\ CommittedAs(row) <= revision
          /\ op[row.turn].status = "committed"
          /\ op[row.turn].revision <= row.before
          /\ \A o \in Op : op[o].revision # CommittedAs(row)
          /\ \A other \in attempts : CommittedAs(other) = CommittedAs(row) => other = row
=============================================================================
