--------------------------- MODULE StudySessionProofs ---------------------------
(***************************************************************************)
(* Proofs about the session's row for any number of messages, requests,    *)
(* tabs and mutations.  The argument rests on one fact: a writer whose     *)
(* revision is still the row's holds the row's payload.  So a mutation or  *)
(* an answer is, for the chat, a change of the revision, and everything    *)
(* proved of the chat holds of the session.                                *)
(***************************************************************************)
EXTENDS StudySession, StudyChatProofs

USE StudyAssumption, SessionAssumption DEF StudyAssumption, SessionAssumption

-----------------------------------------------------------------------------
(* The inductive invariant *)

DraftsAreFresh ==
    \A v \in Writer : draft[v].busy =>
        /\ draft[v].revision <= revision
        /\ draft[v].revision = revision =>
              draft[v].turns = turns /\ draft[v].result = result

\* A tab answers a turn that was there when it read the row.
Precedes(o, r) == op[o].status = "committed" /\ op[o].revision <= r

DraftsAnswerTurns ==
    \A v \in Writer : draft[v].busy /\ draft[v].turn # NoOp =>
        v \in Tab /\ Precedes(draft[v].turn, draft[v].revision)

ResultsAreAttempts ==
    \A o \in Op, tab \in Tab :
        result[o] = tab <=> \E row \in attempts : row.turn = o /\ row.tab = tab

AttemptsStand ==
    \A row \in attempts :
        /\ CommittedAs(row) <= revision
        /\ Precedes(row.turn, row.before)
        /\ \A o \in Op : op[o].revision # CommittedAs(row)
        /\ \A other \in attempts : CommittedAs(other) = CommittedAs(row) => other = row

ChatInv == TypeInv /\ ReceiptsReadBack

SessionInv ==
    /\ ChatInv
    /\ SessionTypeOK
    /\ DraftsAreFresh
    /\ DraftsAnswerTurns
    /\ ResultsAreAttempts
    /\ AttemptsStand

LEMMA InitChatInv == Init => ChatInv
<1> SUFFICES ASSUME Init PROVE ChatInv
  OBVIOUS
<1>1. \A o \in Op : op[o].status # "committed"
  BY DEF Init, NoRow, Unclaimed
<1>2. DOMAIN turns = {}
  BY DEF Init
<1>3. ReceiptsReadBack
  BY <1>1, <1>2 DEF ReceiptsReadBack
<1>. QED
  BY <1>3, InitTypeInv DEF ChatInv

LEMMA InitSessionInv == SessionInit => SessionInv
<1> SUFFICES ASSUME SessionInit PROVE SessionInv
  OBVIOUS
<1>1. ChatInv
  BY InitChatInv DEF SessionInit
<1>2. NoDraft \in Draft /\ ~NoDraft.busy
  BY DEF NoDraft, Draft, Results
<1>3. SessionTypeOK
  BY <1>2 DEF SessionInit, SessionTypeOK, Results
<1>4. \A v \in Writer : ~draft[v].busy
  BY <1>2 DEF SessionInit
<1>5. ResultsAreAttempts /\ AttemptsStand
  BY DEF SessionInit, ResultsAreAttempts, AttemptsStand
<1>. QED
  BY <1>1, <1>3, <1>4, <1>5 DEF SessionInv, DraftsAreFresh, DraftsAnswerTurns

-----------------------------------------------------------------------------
(* Every step of the session is one of the chat *)

LEMMA ChatStep ==
  ASSUME SessionInv, [SessionNext]_sessionVars
  PROVE  [Next]_vars
<1>1. CASE UNCHANGED sessionVars
  BY <1>1 DEF sessionVars
<1>2. CASE Chat /\ UNCHANGED answerVars
  BY <1>2 DEF Chat, Next
<1>3. ASSUME NEW v \in Writer, WriterStep(v) PROVE [Next]_vars
  <2>1. CASE ReadForMutation(v) \/ \E o \in Op : ReadForAnswer(v, o)
    BY <2>1 DEF ReadForMutation, ReadForAnswer, ReadRow
  <2>2. CASE LoseRow(v)
    BY <2>2 DEF LoseRow
  <2>3. ASSUME draft[v].busy, Replaces(draft[v]), WriteRow(draft[v]) PROVE Mutate
    <3>1. draft[v].revision = revision /\ draft[v].turns = turns
      BY <2>3 DEF SessionInv, DraftsAreFresh, Replaces
    <3>. QED
      BY <2>3, <3>1 DEF WriteRow, Mutate
  <2>4. CASE WriteMutation(v) \/ WriteAnswer(v)
    BY <2>3, <2>4 DEF WriteMutation, WriteAnswer, Next
  <2>. QED
    BY <1>3, <2>1, <2>2, <2>4 DEF WriterStep
<1>. QED
  BY <1>1, <1>2, <1>3 DEF SessionNext

\* A turn that is there stays, with its revision.
LEMMA ChatMoves ==
  ASSUME ChatInv, [Next]_vars
  PROVE  /\ ChatInv'
         /\ \/ turns' = turns /\ revision' \in {revision, revision + 1}
            \/ revision' = revision + 1
         /\ \A o \in Op, r \in Nat : Precedes(o, r) => Precedes(o, r)'
         /\ \A o \in Op : op'[o].revision \in {op[o].revision, 0, revision + 1}
<1>1. ChatInv'
  BY TypeInvStep, ReadBackStep DEF ChatInv
<1>2. TypeOK /\ TypeOK'
  BY <1>1 DEF ChatInv, TypeInv
<1>3. \A o \in Op : /\ op[o].revision \in Nat /\ op'[o].revision \in Nat
                    /\ op[o].revision > 0 <=> Committed(o)
                    /\ op'[o].revision > 0 <=> Committed(o)'
  BY <1>2 DEF TypeOK, RowOK, Row, Committed
<1>4. CASE /\ turns' = turns /\ revision' \in {revision, revision + 1}
           /\ \A o \in Op : Committed(o)' <=> Committed(o)
           /\ \A o \in Op : Committed(o) => op'[o] = op[o]
  BY <1>1, <1>3, <1>4 DEF Precedes, Committed
<1>5. ASSUME NEW p \in Op, Commits(p)
      PROVE  /\ revision' = revision + 1
             /\ \A o \in Op, r \in Nat : Precedes(o, r) => Precedes(o, r)'
             /\ \A o \in Op : op'[o].revision \in {op[o].revision, 0, revision + 1}
  <2>1. /\ op'[p].revision = revision + 1 /\ ~Committed(p)
        /\ \A o \in Op \ {p} : op'[o] = op[o]
    BY <1>5, CommitWrites DEF ChatInv
  <2>2. revision' = revision + 1
    BY <1>5 DEF Commits
  <2>. QED
    BY <2>1, <2>2 DEF Precedes, Committed
<1>. QED
  BY <1>1, <1>4, <1>5, CommittedRows DEF ChatInv

-----------------------------------------------------------------------------
(* Every step keeps the invariant *)

LEMMA NoDraftTyped == NoDraft \in Draft /\ ~NoDraft.busy
  BY DEF NoDraft, Draft, Results

\* What the chat does to a row that others have read.
LEMMA ChatKeeps ==
  ASSUME SessionInv, [Next]_vars, UNCHANGED answerVars
  PROVE  SessionInv'
<1>0. /\ draft \in [Writer -> Draft] /\ attempts \subseteq Attempt /\ result \in Results
      /\ revision \in Nat /\ revision' \in {revision, revision + 1}
  BY ChatMoves DEF SessionInv, SessionTypeOK, ChatInv, TypeInv, TypeOK
<1>1. ChatInv' /\ SessionTypeOK' /\ ResultsAreAttempts'
  BY ChatMoves DEF SessionInv, answerVars, SessionTypeOK, ResultsAreAttempts
<1>2. DraftsAreFresh'
  <2>. SUFFICES ASSUME NEW v \in Writer, draft'[v].busy
                PROVE  /\ draft'[v].revision <= revision'
                       /\ draft'[v].revision = revision' =>
                             draft'[v].turns = turns' /\ draft'[v].result = result'
    BY DEF DraftsAreFresh
  <2>1. draft' = draft /\ result' = result /\ draft[v].revision \in Nat
    BY <1>0 DEF answerVars, Draft
  <2>2. draft[v].revision <= revision
        /\ (draft[v].revision = revision => draft[v].turns = turns /\ draft[v].result = result)
    BY <2>1 DEF SessionInv, DraftsAreFresh
  <2>3. turns' = turns \/ revision' = revision + 1
    BY ChatMoves DEF SessionInv
  <2>. QED
    BY <1>0, <2>1, <2>2, <2>3
<1>3. DraftsAnswerTurns'
  <2>1. draft' = draft /\ \A v \in Writer : draft[v].turn \in Op \union {NoOp} /\ draft[v].revision \in Nat
    BY <1>0 DEF answerVars, Draft
  <2>2. \A o \in Op, r \in Nat : Precedes(o, r) => Precedes(o, r)'
    BY ChatMoves DEF SessionInv
  <2>3. \A v \in Writer : draft[v].busy /\ draft[v].turn # NoOp =>
           v \in Tab /\ Precedes(draft[v].turn, draft[v].revision)
    BY DEF SessionInv, DraftsAnswerTurns
  <2>. QED
    BY <2>1, <2>2, <2>3 DEF DraftsAnswerTurns, Precedes
<1>4. AttemptsStand'
  <2>. SUFFICES ASSUME NEW row \in attempts
                PROVE  /\ CommittedAs(row) <= revision'
                       /\ Precedes(row.turn, row.before)'
                       /\ \A o \in Op : op'[o].revision # CommittedAs(row)
                       /\ \A other \in attempts : CommittedAs(other) = CommittedAs(row) => other = row
    BY DEF AttemptsStand, answerVars, CommittedAs, Precedes
  <2>1. row.turn \in Op /\ row.before \in Nat /\ CommittedAs(row) \in Nat /\ CommittedAs(row) > 0
    BY <1>0 DEF Attempt, CommittedAs
  <2>2. /\ CommittedAs(row) <= revision /\ Precedes(row.turn, row.before)
        /\ \A o \in Op : op[o].revision # CommittedAs(row)
        /\ \A other \in attempts : CommittedAs(other) = CommittedAs(row) => other = row
    BY DEF SessionInv, AttemptsStand
  <2>3. \A o \in Op, r \in Nat : Precedes(o, r) => Precedes(o, r)'
    BY ChatMoves DEF SessionInv
  <2>4. \A o \in Op : op'[o].revision \in {op[o].revision, 0, revision + 1}
    BY ChatMoves DEF SessionInv
  <2>5. Precedes(row.turn, row.before)'
    BY <2>1, <2>2, <2>3
  <2>6. ASSUME NEW o \in Op PROVE op'[o].revision # CommittedAs(row)
    BY <1>0, <2>1, <2>2, <2>4
  <2>. QED
    BY <1>0, <2>1, <2>2, <2>5, <2>6
<1>. QED
  BY <1>1, <1>2, <1>3, <1>4 DEF SessionInv

\* A writer that reads holds what the row holds.
LEMMA ReadKeeps ==
  ASSUME SessionInv, NEW v \in Writer, NEW o \in Op \union {NoOp}, ReadRow(v, o),
         o # NoOp => v \in Tab /\ Precedes(o, revision)
  PROVE  SessionInv'
<1>0. /\ draft \in [Writer -> Draft] /\ result \in Results
      /\ revision \in Nat /\ turns \in Seq(Op)
  BY DEF SessionInv, SessionTypeOK, ChatInv, TypeInv, TypeOK
<1> DEFINE d == [busy |-> TRUE, turn |-> o, revision |-> revision, turns |-> turns,
                 result |-> result]
<1>1. UNCHANGED <<vars, result, attempts>> /\ draft' = [draft EXCEPT ![v] = d]
  BY DEF ReadRow
<1>2. d \in Draft
  BY <1>0 DEF Draft
<1>3. draft'[v] = d /\ \A u \in Writer \ {v} : draft'[u] = draft[u]
  BY <1>0, <1>1
<1> HIDE DEF d
<1>4. ChatInv'
  BY <1>1, ChatMoves DEF SessionInv
<1>5. SessionTypeOK'
  BY <1>0, <1>1, <1>2 DEF SessionInv, SessionTypeOK
<1>6. revision' = revision /\ turns' = turns /\ op' = op /\ result' = result /\ attempts' = attempts
  BY <1>1 DEF vars
<1>7. DraftsAreFresh'
  BY <1>0, <1>3, <1>6 DEF SessionInv, DraftsAreFresh, d
<1>8. DraftsAnswerTurns'
  BY <1>3, <1>6 DEF SessionInv, DraftsAnswerTurns, Precedes, d
<1>9. ResultsAreAttempts' /\ AttemptsStand'
  BY <1>6 DEF SessionInv, ResultsAreAttempts, AttemptsStand, Precedes, CommittedAs
<1>. QED
  BY <1>4, <1>5, <1>7, <1>8, <1>9 DEF SessionInv

\* A writer that is done holds nothing, and a write makes every other draft old.
LEMMA ReleaseKeeps ==
  ASSUME SessionInv, NEW v \in Writer, Release(v), op' = op,
         \/ revision' = revision + 1
         \/ revision' = revision /\ turns' = turns /\ result' = result
  PROVE  /\ draft' \in [Writer -> Draft]
         /\ DraftsAreFresh'
         /\ DraftsAnswerTurns'
<1>0. draft \in [Writer -> Draft] /\ revision \in Nat
  BY DEF SessionInv, SessionTypeOK, ChatInv, TypeInv, TypeOK
<1>1. draft' \in [Writer -> Draft]
  BY <1>0, NoDraftTyped DEF Release
<1>2. draft'[v] = NoDraft /\ \A u \in Writer \ {v} : draft'[u] = draft[u]
  BY <1>0 DEF Release
<1>3. \A u \in Writer : draft'[u].busy => draft'[u] = draft[u]
  BY <1>2, NoDraftTyped
<1>4. DraftsAreFresh'
  <2>. SUFFICES ASSUME NEW u \in Writer, draft'[u].busy
                PROVE  /\ draft'[u].revision <= revision'
                       /\ draft'[u].revision = revision' =>
                             draft'[u].turns = turns' /\ draft'[u].result = result'
    BY DEF DraftsAreFresh
  <2>1. draft'[u] = draft[u] /\ draft[u].busy /\ draft[u].revision \in Nat
    BY <1>0, <1>3 DEF Draft
  <2>2. draft[u].revision <= revision
        /\ (draft[u].revision = revision => draft[u].turns = turns /\ draft[u].result = result)
    BY <2>1 DEF SessionInv, DraftsAreFresh
  <2>. QED
    BY <1>0, <2>1, <2>2
<1>5. DraftsAnswerTurns'
  BY <1>3 DEF SessionInv, DraftsAnswerTurns, Precedes
<1>. QED
  BY <1>1, <1>4, <1>5

LEMMA LoseKeeps ==
  ASSUME SessionInv, NEW v \in Writer, LoseRow(v)
  PROVE  SessionInv'
<1>1. UNCHANGED <<vars, result, attempts>> /\ Release(v)
  BY DEF LoseRow
<1>2. revision' = revision /\ turns' = turns /\ op' = op /\ result' = result /\ attempts' = attempts
  BY <1>1 DEF vars
<1>3. ChatInv'
  BY <1>1, ChatMoves DEF SessionInv
<1>4. draft' \in [Writer -> Draft] /\ DraftsAreFresh' /\ DraftsAnswerTurns'
  BY <1>1, <1>2, ReleaseKeeps
<1>5. ResultsAreAttempts' /\ AttemptsStand'
  BY <1>2 DEF SessionInv, ResultsAreAttempts, AttemptsStand, Precedes, CommittedAs
<1>. QED
  BY <1>2, <1>3, <1>4, <1>5 DEF SessionInv, SessionTypeOK

\* The row is written only from its latest payload.
LEMMA WriteIsFresh ==
  ASSUME SessionInv, NEW v \in Writer, draft[v].busy, Replaces(draft[v]), WriteRow(draft[v])
  PROVE  /\ draft[v].revision = revision /\ draft[v].result = result
         /\ Mutate /\ ChatInv'
         /\ revision' = revision + 1 /\ op' = op /\ turns' = turns
<1>1. /\ draft[v].revision = revision /\ draft[v].turns = turns /\ draft[v].result = result
  BY DEF SessionInv, DraftsAreFresh, Replaces
<1>2. Mutate
  BY <1>1 DEF WriteRow, Mutate
<1>3. ChatInv'
  BY <1>2, ChatMoves DEF SessionInv, Next
<1>. QED
  BY <1>1, <1>2, <1>3 DEF Mutate

LEMMA MutationKeeps ==
  ASSUME SessionInv, NEW v \in Writer, WriteMutation(v)
  PROVE  SessionInv'
<1>1. /\ draft[v].revision = revision /\ draft[v].result = result
      /\ ChatInv' /\ revision' = revision + 1 /\ op' = op /\ turns' = turns
  BY WriteIsFresh DEF WriteMutation
<1>2. result' = result /\ attempts' = attempts /\ Release(v)
  BY <1>1 DEF WriteMutation
<1>3. draft' \in [Writer -> Draft] /\ DraftsAreFresh' /\ DraftsAnswerTurns'
  BY <1>1, <1>2, ReleaseKeeps
<1>4. revision \in Nat /\ attempts \subseteq Attempt
  BY DEF SessionInv, SessionTypeOK, ChatInv, TypeInv, TypeOK
<1>5. ResultsAreAttempts'
  BY <1>2 DEF SessionInv, ResultsAreAttempts
<1>6. AttemptsStand'
  <2>1. \A row \in attempts : CommittedAs(row) \in Nat
    BY <1>4 DEF Attempt, CommittedAs
  <2>2. \A row \in attempts : CommittedAs(row) <= revision'
    BY <1>1, <1>4, <2>1 DEF SessionInv, AttemptsStand
  <2>. QED
    BY <1>1, <1>2, <2>2 DEF SessionInv, AttemptsStand, Precedes, CommittedAs
<1>. QED
  BY <1>1, <1>2, <1>3, <1>5, <1>6 DEF SessionInv, SessionTypeOK

\* The first attempt at a turn that has none, under a revision nothing has.
LEMMA AnswerKeeps ==
  ASSUME SessionInv, NEW v \in Writer, WriteAnswer(v)
  PROVE  SessionInv'
<1> DEFINE o == draft[v].turn
           new == [turn |-> o, tab |-> v, before |-> revision]
<1>1. /\ draft[v].revision = revision /\ draft[v].result = result
      /\ ChatInv' /\ revision' = revision + 1 /\ op' = op /\ turns' = turns
  BY WriteIsFresh DEF WriteAnswer
<1>2. /\ draft[v].busy /\ o # NoOp /\ ~IsAnswered(o)
      /\ result' = [result EXCEPT ![o] = v]
      /\ attempts' = attempts \union {new}
      /\ Release(v)
  BY <1>1 DEF WriteAnswer
<1>3. /\ revision \in Nat /\ attempts \subseteq Attempt /\ result \in Results
      /\ draft[v] \in Draft /\ op \in [Op -> Row]
  BY DEF SessionInv, SessionTypeOK, ChatInv, TypeInv, TypeOK
<1>4. o \in Op /\ v \in Tab /\ Precedes(o, revision)
  BY <1>1, <1>2, <1>3 DEF SessionInv, DraftsAnswerTurns, Draft
<1>5. new \in Attempt /\ new.turn = o /\ new.tab = v /\ new.before = revision
      /\ CommittedAs(new) = revision + 1
  BY <1>3, <1>4 DEF Attempt, CommittedAs
<1>6. \A row \in attempts : row.turn # o
  BY <1>2 DEF IsAnswered
<1>7. draft' \in [Writer -> Draft] /\ DraftsAreFresh' /\ DraftsAnswerTurns'
  BY <1>1, <1>2, ReleaseKeeps
<1> HIDE DEF new, o
<1>8. SessionTypeOK'
  BY <1>2, <1>3, <1>4, <1>5, <1>7 DEF SessionTypeOK, Results
<1>9. ResultsAreAttempts'
  <2>. SUFFICES ASSUME NEW p \in Op, NEW tab \in Tab
                PROVE  result'[p] = tab <=> \E row \in attempts' : row.turn = p /\ row.tab = tab
    BY DEF ResultsAreAttempts
  <2>1. CASE p = o
    <3>1. result'[p] = v
      BY <1>2, <1>3, <2>1, <1>4 DEF Results
    <3>2. (\E row \in attempts' : row.turn = p /\ row.tab = tab) <=> tab = v
      BY <1>2, <1>5, <1>6, <2>1
    <3>. QED
      BY <3>1, <3>2
  <2>2. CASE p # o
    <3>1. result'[p] = result[p]
      BY <1>2, <1>3, <2>2 DEF Results
    <3>2. \A row \in attempts' : row.turn = p <=> row \in attempts /\ row.turn = p
      BY <1>2, <1>5, <2>2
    <3>3. attempts \subseteq attempts'
      BY <1>2
    <3>. QED
      BY <3>1, <3>2, <3>3 DEF SessionInv, ResultsAreAttempts
  <2>. QED
    BY <2>1, <2>2
<1>10. AttemptsStand'
  <2>1. \A row \in attempts :
           /\ CommittedAs(row) \in Nat /\ CommittedAs(row) <= revision
           /\ Precedes(row.turn, row.before)
           /\ \A p \in Op : op[p].revision # CommittedAs(row)
           /\ \A other \in attempts : CommittedAs(other) = CommittedAs(row) => other = row
    BY <1>3 DEF SessionInv, AttemptsStand, Attempt, CommittedAs
  <2>2. ASSUME NEW p \in Op PROVE op[p].revision \in Nat /\ op[p].revision <= revision
    <3>1. op[p].revision \in Nat /\ (op[p].revision > 0 <=> op[p].status = "committed")
      BY <1>3 DEF SessionInv, ChatInv, TypeInv, TypeOK, RowOK, Row
    <3>2. op[p].status = "committed" => op[p].revision <= revision
      BY DEF SessionInv, ChatInv, ReceiptsReadBack
    <3>. QED
      BY <1>3, <3>1, <3>2
  <2>. SUFFICES ASSUME NEW row \in attempts'
                PROVE  /\ CommittedAs(row) <= revision'
                       /\ Precedes(row.turn, row.before)
                       /\ \A p \in Op : op[p].revision # CommittedAs(row)
                       /\ \A other \in attempts' : CommittedAs(other) = CommittedAs(row) => other = row
    BY <1>1 DEF AttemptsStand, Precedes, CommittedAs
  <2>3. CASE row \in attempts
    BY <1>1, <1>2, <1>3, <1>5, <2>1, <2>3
  <2>4. CASE row = new
    <3>1. \A p \in Op : op[p].revision # revision + 1
      BY <1>3, <2>2
    <3>2. \A other \in attempts : CommittedAs(other) # revision + 1
      BY <1>3, <2>1
    <3>. QED
      BY <1>1, <1>2, <1>3, <1>4, <1>5, <2>4, <3>1, <3>2
  <2>. QED
    BY <1>2, <2>3, <2>4
<1>. QED
  BY <1>1, <1>7, <1>8, <1>9, <1>10 DEF SessionInv

LEMMA SessionStep ==
  ASSUME SessionInv, [SessionNext]_sessionVars
  PROVE  SessionInv'
<1>1. CASE UNCHANGED answerVars
  BY <1>1, ChatStep, ChatKeeps
<1>2. ASSUME NEW v \in Writer, WriterStep(v) PROVE SessionInv'
  <2>1. CASE ReadForMutation(v)
    BY <2>1, ReadKeeps DEF ReadForMutation
  <2>2. ASSUME NEW o \in Op, ReadForAnswer(v, o) PROVE SessionInv'
    <3>1. Precedes(o, revision)
      BY <2>2 DEF ReadForAnswer, SessionInv, ChatInv, ReceiptsReadBack, Precedes
    <3>. QED
      BY <2>2, <3>1, ReadKeeps DEF ReadForAnswer
  <2>3. CASE WriteMutation(v)
    BY <2>3, MutationKeeps
  <2>4. CASE WriteAnswer(v)
    BY <2>4, AnswerKeeps
  <2>5. CASE LoseRow(v)
    BY <2>5, LoseKeeps
  <2>. QED
    BY <1>2, <2>1, <2>2, <2>3, <2>4, <2>5 DEF WriterStep
<1>. QED
  BY <1>1, <1>2 DEF SessionNext, sessionVars

-----------------------------------------------------------------------------
(* What follows for every execution *)

LEMMA SessionInvariant == SessionSpec => []SessionInv
<1>. QED
  BY InitSessionInv, SessionStep, PTL DEF SessionSpec

\* However mutations and answers of other tabs are interleaved with the chat,
\* from reads of the row as old as one likes, the chat behaves as it does where
\* the session only changes its revision in one step: the revision that every
\* write is fenced by is enough, and what is proved of StudyChat holds here
\* (mutate and commit_question_attempt write only over the revision they read).
THEOREM SessionImplementsChat == SessionSpec => Spec
<1>1. SessionInit => Init
  BY DEF SessionInit
<1>. QED
  BY <1>1, ChatStep, SessionInvariant, PTL DEF SessionSpec, Spec

\* A recorded answer is never lost, replaced or separated from the result in its
\* turn, and no revision is that of two changes: what _read_question_attempt checks
\* when it reads an attempt back always holds.
THEOREM AnswersStand == SessionSpec => []AnswersReadBack
<1>1. SessionInv => AnswersReadBack
  BY DEF SessionInv, AnswersReadBack, ResultsAreAttempts, AttemptsStand, Precedes
<1>. QED
  BY <1>1, SessionInvariant, PTL
=============================================================================
