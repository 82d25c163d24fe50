--------------------------- MODULE StudyChatProofs ---------------------------
(***************************************************************************)
(* What TLAPS proves of StudyChat, for any number of messages, requests,   *)
(* other changes of the session and crashes.                               *)
(***************************************************************************)
EXTENDS StudyChat, TLAPS

USE StudyAssumption DEF StudyAssumption

\* What a request stands for: past admission its message has a row, in the
\* execution it carries its own token and the row was claimed, and when it is
\* about to fail it knows why.
Stands(w) ==
    /\ pc[w] # "idle" => sent[job[w].op] # Unsent
    /\ pc[w] \in {"expire", "cleanup", "validate", "unclaim", "claim"} =>
            op[job[w].op].status # "none"
    /\ pc[w] \in Executing =>
            job[w].token = w /\ op[job[w].op].status \notin {"none", "admitted"}
    /\ pc[w] = "fail" => job[w].why \in {"failed", "revision"}

Standing ==
    /\ \A o \in Op : op[o].status # "none" => sent[o] # Unsent
    /\ \A w \in Worker : Stands(w)

TypeInv == TypeOK /\ Standing

LEMMA InitTypeInv == Init => TypeInv
<1> SUFFICES ASSUME Init PROVE TypeInv
  OBVIOUS
<1>1. NoRow \in Row /\ NoJob \in Job
  BY DEF NoRow, Unclaimed, Row, NoJob, Request, Job, Status, Active, Failed, Why
<1>0. Unsent \in Revision /\ "idle" \in Label
  BY DEF Revision, Label
<1>2. /\ revision \in Nat /\ turns \in Seq(Op) /\ sent \in [Op -> Revision]
      /\ lapsed \subseteq Op /\ files \subseteq Op /\ called \in [Op -> Nat]
      /\ edits \in 0..MaxEdits /\ crashes \in 0..MaxCrashes
  BY <1>0 DEF Init
<1>3. /\ op \in [Op -> Row]
      /\ pc \in [Worker -> Label] /\ job \in [Worker -> Job]
      /\ \A w \in Worker : pc[w] = "idle"
  BY <1>0, <1>1 DEF Init
<1>4. RowOK(NoRow) /\ NoRow.status = "none"
  BY DEF RowOK, Row, NoRow, Unclaimed, Status, Active, Failed, Why
<1>5. TypeOK
  <2>1. \A o \in Op : RowOK(op[o])
    BY <1>4 DEF Init
  <2>. QED
    BY <1>2, <1>3, <2>1 DEF TypeOK
<1>6. Standing
  BY <1>3, <1>4 DEF Standing, Stands, Executing, Init
<1>. QED
  BY <1>5, <1>6 DEF TypeInv

\* One row changes, and keeps to the constraints.
LEMMA OneRow ==
  ASSUME TypeOK, NEW o \in Op, NEW row, RowOK(row), op' = [op EXCEPT ![o] = row]
  PROVE  /\ op' \in [Op -> Row]
         /\ \A p \in Op : RowOK(op'[p])
<1>1. row \in Row
  BY DEF RowOK
<1>. QED
  BY <1>1 DEF TypeOK

\* Every row an update writes is one the constraints accept.
LEMMA WrittenRows ==
  ASSUME TypeOK, NEW o \in Op
  PROVE  /\ RowOK(AdmittedRow)
         /\ RowOK(RejectedRow(o))
         /\ op[o].status = "running" =>
              /\ RowOK(CommittedRow(o))
              /\ RowOK(StartedRow(o))
              /\ \A why \in Why \ {""} : RowOK(UncertainRow(o, why))
         /\ op[o].status = "admitted" =>
              /\ \A why \in Why \ {""} : RowOK(UnclaimedRow(o, why))
              /\ \A w \in Worker : RowOK(ClaimedRow(o, w))
<1>1. op[o] \in Row /\ RowOK(op[o])
  BY DEF TypeOK
<1>2. RowOK(AdmittedRow) /\ RowOK(RejectedRow(o))
  BY DEF RowOK, Row, Unclaimed, AdmittedRow, RejectedRow, Status, Active, Failed, Why
<1>3. ASSUME op[o].status = "running" PROVE RowOK(CommittedRow(o))
  <2>0. turns \in Seq(Op) /\ revision \in Nat
    BY DEF TypeOK
  <2>1. Len(turns) + 1 \in Nat /\ revision + 1 \in Nat /\ revision + 1 > 0
    BY <2>0
  <2>. QED
    BY <1>1, <1>3, <2>1 DEF RowOK, CommittedRow, Row, Status, Active, Failed, Why
<1>4. ASSUME op[o].status = "running"
      PROVE  RowOK(StartedRow(o)) /\ \A why \in Why \ {""} : RowOK(UncertainRow(o, why))
  BY <1>1, <1>4 DEF RowOK, Row, StartedRow, UncertainRow, Status, Active, Failed
<1>5. ASSUME op[o].status = "admitted"
      PROVE  /\ \A why \in Why \ {""} : RowOK(UnclaimedRow(o, why))
             /\ \A w \in Worker : RowOK(ClaimedRow(o, w))
  BY <1>1, <1>5 DEF RowOK, Row, UnclaimedRow, ClaimedRow, Status, Active, Failed
<1>. QED
  BY <1>2, <1>3, <1>4, <1>5

\* What a step can do to the rows: nothing, one update of one row under its
\* predicate, or a committed row together with its turn.
Updates(o) ==
    \/ /\ op[o].status = "none" /\ SlotIsFree /\ sent[o] # Unsent
       /\ op' = [op EXCEPT ![o] = AdmittedRow]
    \/ /\ op[o].status = "admitted"
       /\ \/ \E w \in Worker : /\ pc[w] = "claim" /\ job[w].op = o
                              /\ op' = [op EXCEPT ![o] = ClaimedRow(o, w)]
          \/ \E why \in Why \ {""} : op' = [op EXCEPT ![o] = UnclaimedRow(o, why)]
    \/ /\ op[o].status = "running"
       /\ \/ op' = [op EXCEPT ![o] = StartedRow(o)]
          \/ op' = [op EXCEPT ![o] = RejectedRow(o)]
          \/ \E why \in Why \ {""} : op' = [op EXCEPT ![o] = UncertainRow(o, why)]

Commits(o) ==
    /\ op[o].status = "running"
    /\ op' = [op EXCEPT ![o] = CommittedRow(o)]
    /\ turns' = Append(turns, o)
    /\ revision' = revision + 1
    /\ sent' = sent /\ files' = files
    /\ \E w \in Worker : pc[w] = "commit" /\ job[w].op = o

RowStep ==
    \/ op' = op /\ turns' = turns /\ revision' \in {revision, revision + 1}
    \/ \E o \in Op : Updates(o) /\ UNCHANGED <<turns, revision, sent>>
    \/ \E o \in Op : Commits(o)

LEMMA RowWrites ==
  ASSUME TypeInv, [Next]_vars
  PROVE  RowStep
<1>1. CASE UNCHANGED vars
  BY <1>1 DEF vars, RowStep
<1>2. CASE \E o \in Op : Send(o) \/ Lapse(o)
  BY <1>2 DEF Send, Lapse, RowStep
<1>3. CASE \E w \in Worker, o \in Op : Post(w, o) \/ GetReceipt(w, o)
  BY <1>3 DEF Post, GetReceipt, Serve, store, RowStep
<1>4. CASE Mutate
  BY <1>4 DEF Mutate, RowStep
<1>5. ASSUME NEW w \in Worker, Crash(w) PROVE RowStep
  BY <1>5 DEF Crash, store, RowStep
<1>6. ASSUME NEW w \in Worker, Step(w) PROVE RowStep
  <2>0. job[w].op \in Op
    BY <1>6 DEF TypeInv, TypeOK, Step, AdmitExisting, AdmitRead, AdmitInsert, AdmitCollides, Lookup,
       LookupActive, ExpireRunning, ExpireAdmitted, Cleanup, Validate, MarkNotCommitted, Claim,
       ClaimRefused, Prepare, ReadSession, MarkProviderStarted, ProviderEnds, CommitTurn,
       CommitRefused, MarkUncertain, MarkRejected
  <2>1. CASE AdmitExisting(w) \/ AdmitRead(w) \/ AdmitCollides(w) \/ Lookup(w) \/ LookupActive(w)
    BY <2>1 DEF AdmitExisting, AdmitRead, AdmitCollides, Lookup, LookupActive, store, RowStep
  <2>2. CASE Cleanup(w) \/ Validate(w) \/ ClaimRefused(w) \/ Prepare(w) \/ ReadSession(w)
             \/ ProviderEnds(w) \/ CommitRefused(w)
    BY <2>2 DEF Cleanup, Validate, ClaimRefused, Prepare, ReadSession, ProviderEnds, CommitRefused,
       store, RowStep
  <2>3. CASE AdmitInsert(w)
    BY <2>0, <2>3 DEF AdmitInsert, RowStep, Updates, TypeInv, Standing, Stands
  <2>4. CASE ExpireRunning(w)
    BY <2>0, <2>4 DEF ExpireRunning, Owns, RowStep, Updates, Why
  <2>5. CASE ExpireAdmitted(w)
    BY <2>0, <2>5 DEF ExpireAdmitted, Claimable, RowStep, Updates, Why
  <2>6. CASE MarkNotCommitted(w)
    BY <2>0, <2>6 DEF MarkNotCommitted, Claimable, RowStep, Updates, Why
  <2>7. CASE Claim(w)
    BY <2>0, <2>7 DEF Claim, Claimable, RowStep, Updates
  <2>8. CASE MarkProviderStarted(w)
    BY <2>0, <2>8 DEF MarkProviderStarted, Owns, RowStep, Updates
  <2>9. CASE CommitTurn(w)
    BY <2>0, <2>9 DEF CommitTurn, Owns, RowStep, Commits
  <2>10. CASE MarkUncertain(w)
    <3>1. job[w].why \in Why \ {""}
      BY <2>10 DEF TypeInv, Standing, Stands, MarkUncertain, Why
    <3>. QED
      BY <2>0, <2>10, <3>1 DEF MarkUncertain, Owns, RowStep, Updates
  <2>11. CASE MarkRejected(w)
    BY <2>0, <2>11 DEF MarkRejected, Owns, RowStep, Updates
  <2>. QED
    BY <1>6, <2>1, <2>2, <2>3, <2>4, <2>5, <2>6, <2>7, <2>8, <2>9, <2>10, <2>11 DEF Step
<1>. QED
  BY <1>1, <1>2, <1>3, <1>4, <1>5, <1>6 DEF Next

\* The status each update leaves behind.
LEMMA WrittenStatus ==
  ASSUME TypeInv, NEW o \in Op
  PROVE  /\ AdmittedRow.status = "admitted"
         /\ RejectedRow(o).status = "not_committed"
         /\ StartedRow(o).status = op[o].status
         /\ CommittedRow(o).status = "committed"
         /\ \A why : UncertainRow(o, why).status = "uncertain"
         /\ \A why : UnclaimedRow(o, why).status = "not_committed"
         /\ \A w : ClaimedRow(o, w).status = "running"
<1>1. op[o] \in Row
  BY DEF TypeInv, TypeOK
<1>. QED
  BY <1>1 DEF AdmittedRow, RejectedRow, StartedRow, CommittedRow, UncertainRow, UnclaimedRow,
     ClaimedRow, Unclaimed, Row

LEMMA RowsTyped ==
  ASSUME TypeInv, RowStep
  PROVE  /\ op' \in [Op -> Row]
         /\ \A o \in Op : RowOK(op'[o])
         /\ \A o \in Op : op[o].status # "none" => op'[o].status # "none"
         /\ \A o \in Op : op[o].status \notin {"none", "admitted"} =>
                               op'[o].status \notin {"none", "admitted"}
<1>0. op \in [Op -> Row] /\ \A o \in Op : RowOK(op[o])
  BY DEF TypeInv, TypeOK
<1>1. CASE op' = op
  BY <1>0, <1>1
<1>2. ASSUME NEW o \in Op, Updates(o) \/ Commits(o)
      PROVE  /\ op' \in [Op -> Row]
             /\ \A p \in Op : RowOK(op'[p])
             /\ op'[o].status # "none"
             /\ op[o].status \notin {"none", "admitted"} =>
                    op'[o].status \notin {"none", "admitted"}
             /\ \A p \in Op \ {o} : op'[p] = op[p]
  <2>1. PICK row : RowOK(row) /\ op' = [op EXCEPT ![o] = row]
    <3>0. TypeOK
      BY DEF TypeInv
    <3>1. CASE op[o].status = "none" /\ op' = [op EXCEPT ![o] = AdmittedRow]
      BY <3>0, <3>1, WrittenRows
    <3>2. CASE op[o].status = "admitted" /\ \E w \in Worker : op' = [op EXCEPT ![o] = ClaimedRow(o, w)]
      BY <3>0, <3>2, WrittenRows
    <3>3. CASE /\ op[o].status = "admitted"
               /\ \E why \in Why \ {""} : op' = [op EXCEPT ![o] = UnclaimedRow(o, why)]
      BY <3>0, <3>3, WrittenRows
    <3>4. CASE /\ op[o].status = "running"
               /\ \/ op' = [op EXCEPT ![o] = StartedRow(o)]
                  \/ op' = [op EXCEPT ![o] = RejectedRow(o)]
                  \/ op' = [op EXCEPT ![o] = CommittedRow(o)]
      BY <3>0, <3>4, WrittenRows
    <3>5. CASE /\ op[o].status = "running"
               /\ \E why \in Why \ {""} : op' = [op EXCEPT ![o] = UncertainRow(o, why)]
      BY <3>0, <3>5, WrittenRows
    <3>. QED
      BY <1>2, <3>1, <3>2, <3>3, <3>4, <3>5 DEF Updates, Commits
  <2>2. op' \in [Op -> Row] /\ \A p \in Op : RowOK(op'[p])
    BY <2>1, OneRow DEF TypeInv
  <2>3. op'[o].status # "none" /\ (op[o].status = "running" => op'[o].status # "admitted")
    <3>1. CASE op[o].status = "none"
      BY <1>0, <1>2, <3>1, WrittenStatus DEF Updates, Commits
    <3>2. CASE op[o].status = "admitted"
      BY <1>0, <1>2, <3>2, WrittenStatus DEF Updates, Commits
    <3>3. CASE op[o].status = "running" /\ Updates(o)
      BY <1>0, <3>3, WrittenStatus DEF Updates
    <3>4. CASE Commits(o)
      BY <1>0, <3>4, WrittenStatus DEF Commits
    <3>. QED
      BY <1>2, <3>1, <3>2, <3>3, <3>4 DEF Updates, Commits
  <2>4. op[o].status \in {"none", "admitted", "running"}
    BY <1>2 DEF Updates, Commits
  <2>5. op'[o] = row /\ \A p \in Op \ {o} : op'[p] = op[p]
    BY <1>0, <2>1
  <2>. QED
    BY <2>2, <2>3, <2>4, <2>5
<1>. QED
  BY <1>1, <1>2, <1>0 DEF RowStep

\* What a request does to its own program counter and locals.
LEMMA LocalsStep ==
  ASSUME TypeInv, Next
  PROVE  /\ pc' \in [Worker -> Label]
         /\ job' \in [Worker -> Job]
         /\ \A w \in Worker : pc'[w] # "idle" => job'[w].op \in Op
<1>0. /\ pc \in [Worker -> Label] /\ job \in [Worker -> Job]
      /\ \A w \in Worker : pc[w] # "idle" => job[w].op \in Op
      /\ NoJob \in Job /\ "idle" \in Label
      /\ \A o \in Op : op[o].status \in Status /\ op[o].token \in Worker \union {NoWorker}
      /\ revision \in Nat
  BY DEF TypeInv, TypeOK, NoJob, Request, Job, Status, Why, Label, Row
<1>1. \A o \in Op : op'[o].status \in Status
  BY RowWrites, RowsTyped DEF Row
<1>. DEFINE Typed == /\ pc' \in [Worker -> Label] /\ job' \in [Worker -> Job]
                     /\ \A v \in Worker : pc'[v] # "idle" => job'[v].op \in Op
<1>2. CASE UNCHANGED <<pc, job>>
  BY <1>0, <1>2
<1>3. ASSUME NEW w \in Worker, Finish(w) PROVE Typed
  BY <1>0, <1>3 DEF Finish, Goto
<1>4. ASSUME NEW w \in Worker, pc[w] # "idle", NEW label \in Label, Goto(w, label),
             \/ job' = job
             \/ \E status \in Status : job' = [job EXCEPT ![w].seen = status]
             \/ \E why \in Why : job' = [job EXCEPT ![w].why = why]
             \/ \E token \in Worker \union {NoWorker} : job' = [job EXCEPT ![w].token = token]
             \/ job' = [job EXCEPT ![w].kind = "get"]
             \/ job' = [job EXCEPT ![w].revision = revision]
      PROVE  Typed
  BY <1>0, <1>4 DEF Goto, Job
<1>5. ASSUME NEW w \in Worker, NEW o \in Op, NEW kind \in {"post", "get"}, NEW label \in Label,
             Serve(w, o, kind, label)
      PROVE  Typed
  <2>1. Request(o, kind) \in Job /\ Request(o, kind).op = o
    BY DEF Request, Job, Status, Why
  <2>. QED
    BY <1>0, <1>5, <2>1 DEF Serve, Goto
<1>6. ASSUME NEW w \in Worker, pc[w] # "idle", NEW status \in Status, Received(w, status)
      PROVE  Typed
  <2>1. (IF status = "admitted" /\ job[w].kind = "post" THEN "validate" ELSE "cleanup") \in Label
    BY DEF Label, Asking
  <2>. QED
    BY <1>4, <1>6, <2>1 DEF Received
<1>7. ASSUME NEW w \in Worker, pc[w] # "idle", NEW why \in Why, GoFail(w, why)
      PROVE  Typed
  BY <1>4, <1>7 DEF GoFail, Label, Executing
<1>8. ASSUME NEW w \in Worker, Step(w) PROVE Typed
  <2>0. pc[w] # "idle" /\ job[w].op \in Op
    BY <1>0, <1>8 DEF Step, AdmitExisting, AdmitRead, AdmitInsert, AdmitCollides, Lookup,
       LookupActive, ExpireRunning, ExpireAdmitted, Cleanup, Validate, MarkNotCommitted, Claim,
       ClaimRefused, Prepare, ReadSession, MarkProviderStarted, ProviderEnds, CommitTurn,
       CommitRefused, MarkUncertain, MarkRejected
  <2>1. CASE AdmitExisting(w)
    BY <1>0, <1>6, <2>0, <2>1 DEF AdmitExisting
  <2>2. CASE AdmitRead(w)
    BY <1>3, <1>4, <2>0, <2>2 DEF AdmitRead, Label, Asking
  <2>3. CASE AdmitInsert(w) \/ AdmitCollides(w)
    BY <1>4, <2>0, <2>3 DEF AdmitInsert, AdmitCollides, Label, Asking
  <2>4. CASE Lookup(w)
    <3>1. ASSUME Goto(w, "expire"),
                 job' = [job EXCEPT ![w].seen = op[job[w].op].status,
                                    ![w].token = op[job[w].op].token]
          PROVE Typed
      BY <1>0, <2>0, <3>1 DEF Goto, Job, Label, Asking
    <3>. QED
      BY <1>0, <1>3, <1>6, <2>0, <2>4, <3>1 DEF Lookup
  <2>5. CASE LookupActive(w)
    <3>1. ASSUME NEW a \in Op, Goto(w, "expire"),
                 job' = [job EXCEPT ![w] = ExpiryOf(a)]
          PROVE Typed
      <4>1. ExpiryOf(a) \in Job /\ ExpiryOf(a).op = a
        BY <1>0 DEF ExpiryOf, Job, Status, Active, Why
      <4>. QED
        BY <1>0, <3>1, <4>1 DEF Goto, Label, Asking
    <3>. QED
      BY <1>3, <2>5, <3>1 DEF LookupActive
  <2>6. CASE ExpireRunning(w)
    <3>1. op'[job[w].op].status \in Status
      BY <1>1, <2>0
    <3>2. Finish(w) \/ Received(w, op'[job[w].op].status)
      BY <2>6 DEF ExpireRunning
    <3>. QED
      BY <1>3, <1>6, <2>0, <3>1, <3>2
  <2>7. CASE ExpireAdmitted(w)
    BY <1>3, <1>6, <2>0, <2>7 DEF ExpireAdmitted, Status, Failed
  <2>8. CASE Cleanup(w) \/ MarkNotCommitted(w) \/ ClaimRefused(w)
    BY <1>3, <2>8 DEF Cleanup, MarkNotCommitted, ClaimRefused
  <2>9. CASE Validate(w)
    BY <1>4, <2>0, <2>9 DEF Validate, Label, Asking
  <2>10. CASE Claim(w)
    BY <1>4, <2>0, <2>10 DEF Claim, Label, Executing
  <2>11. CASE Prepare(w) \/ ReadSession(w) \/ MarkProviderStarted(w) \/ ProviderEnds(w)
              \/ CommitRefused(w)
    BY <1>4, <1>7, <2>0, <2>11 DEF Prepare, ReadSession, MarkProviderStarted, ProviderEnds,
       CommitRefused, Label, Executing, Why
  <2>12. CASE CommitTurn(w)
    BY <1>4, <2>0, <2>12 DEF CommitTurn, Label, Asking
  <2>13. CASE MarkUncertain(w) \/ MarkRejected(w)
    <3>1. op'[job[w].op].status \in Status
      BY <1>1, <2>0
    <3>2. Goto(w, "cleanup") /\ job' = [job EXCEPT ![w].seen = op'[job[w].op].status]
      BY <2>13 DEF MarkUncertain, MarkRejected
    <3>. QED
      BY <1>4, <2>0, <3>1, <3>2 DEF Label, Asking
  <2>. QED
    BY <1>8, <2>1, <2>2, <2>3, <2>4, <2>5, <2>6, <2>7, <2>8, <2>9, <2>10, <2>11, <2>12, <2>13
       DEF Step
<1>9. CASE \E o \in Op : Send(o) \/ Lapse(o)
  BY <1>2, <1>9 DEF Send, Lapse
<1>10. CASE \E w \in Worker, o \in Op : Post(w, o) \/ GetReceipt(w, o)
  BY <1>5, <1>10 DEF Post, GetReceipt, Label, Asking
<1>11. CASE Mutate
  BY <1>2, <1>11 DEF Mutate
<1>12. CASE \E w \in Worker : Crash(w)
  BY <1>3, <1>12 DEF Crash
<1>. QED
  BY <1>8, <1>9, <1>10, <1>11, <1>12 DEF Next

\* A message keeps its revision once it is sent.
LEMMA SentStays ==
  ASSUME TypeInv, [Next]_vars
  PROVE  /\ sent' \in [Op -> Revision]
         /\ \A o \in Op : sent[o] # Unsent => sent'[o] = sent[o]
<1>0. sent \in [Op -> Revision] /\ revision \in Nat
  BY DEF TypeInv, TypeOK
<1>1. CASE sent' = sent
  BY <1>0, <1>1
<1>2. ASSUME NEW o \in Op, Send(o)
      PROVE  /\ sent' \in [Op -> Revision]
             /\ \A p \in Op : sent[p] # Unsent => sent'[p] = sent[p]
  <2>1. PICK r \in 0..revision : sent' = [sent EXCEPT ![o] = r]
    BY <1>2 DEF Send
  <2>2. r \in Revision /\ sent[o] = Unsent
    BY <1>0, <1>2, <2>1 DEF Revision, Send
  <2>. QED
    BY <1>0, <2>1, <2>2
<1>3. ASSUME NEW w \in Worker, Step(w) PROVE sent' = sent
  BY <1>3 DEF store, Step, AdmitExisting, AdmitRead, AdmitInsert, AdmitCollides, Lookup,
     LookupActive, ExpireRunning, ExpireAdmitted, Cleanup, Validate, MarkNotCommitted, Claim,
     ClaimRefused, Prepare, ReadSession, MarkProviderStarted, ProviderEnds, CommitTurn,
     CommitRefused, MarkUncertain, MarkRejected
<1>. QED
  BY <1>1, <1>2, <1>3 DEF vars, store, Next, Lapse, Post, GetReceipt, Serve, Mutate, Crash

LEMMA StepStands ==
  ASSUME TypeInv, Next, NEW w \in Worker, Step(w)
  PROVE  Stands(w)'
<1>0. /\ pc \in [Worker -> Label] /\ job \in [Worker -> Job] /\ op \in [Op -> Row]
      /\ pc[w] # "idle" /\ job[w].op \in Op /\ Stands(w)
      /\ \A o \in Op : op[o].status # "none" => sent[o] # Unsent
  BY DEF TypeInv, TypeOK, Standing, Step, AdmitExisting, AdmitRead, AdmitInsert, AdmitCollides,
     Lookup, LookupActive, ExpireRunning, ExpireAdmitted, Cleanup, Validate, MarkNotCommitted,
     Claim, ClaimRefused, Prepare, ReadSession, MarkProviderStarted, ProviderEnds, CommitTurn,
     CommitRefused, MarkUncertain, MarkRejected
<1>1. /\ \A o \in Op : sent[o] # Unsent => sent'[o] # Unsent
      /\ \A o \in Op : op[o].status # "none" => op'[o].status # "none"
      /\ \A o \in Op : op[o].status \notin {"none", "admitted"} =>
                            op'[o].status \notin {"none", "admitted"}
  BY SentStays, RowWrites, RowsTyped
<1>. DEFINE o == job[w].op
<1>2. sent[o] # Unsent /\ sent'[o] # Unsent
  BY <1>0, <1>1 DEF Stands
<1>3. ASSUME Finish(w) PROVE Stands(w)'
  BY <1>0, <1>3 DEF Finish, Goto, Stands, Executing
<1>4. ASSUME NEW status, Received(w, status), op'[o].status # "none" PROVE Stands(w)'
  <2>1. pc'[w] \in {"validate", "cleanup"} /\ job'[w].op = o
    BY <1>0, <1>4 DEF Received, Goto, Job
  <2>. QED
    BY <1>2, <1>4, <2>1 DEF Stands, Executing
<1>5. ASSUME op'[o].status \notin {"none", "admitted"}, job[w].token = w, NEW why \in {"failed", "revision"},
             GoFail(w, why)
      PROVE  Stands(w)'
  <2>1. pc'[w] = "fail" /\ job'[w].op = o /\ job'[w].token = w /\ job'[w].why = why
    BY <1>0, <1>5 DEF GoFail, Goto, Job
  <2>. QED
    BY <1>2, <1>5, <2>1 DEF Stands, Executing
<1>6. ASSUME NEW label \in {"insert", "blocked", "lookup"}, pc'[w] = label, job'[w].op = o
      PROVE  Stands(w)'
  BY <1>2, <1>6 DEF Stands, Executing
<1>7. ASSUME NEW label \in {"expire", "cleanup", "validate", "unclaim", "claim"}, pc'[w] = label,
             job'[w].op = o, op'[o].status # "none"
      PROVE  Stands(w)'
  BY <1>2, <1>7 DEF Stands, Executing
<1>8. ASSUME NEW label \in Executing \ {"fail"}, pc'[w] = label, job'[w].op = o, job'[w].token = w,
             op'[o].status \notin {"none", "admitted"}
      PROVE  Stands(w)'
  BY <1>2, <1>8 DEF Stands, Executing
<1>10. CASE AdmitExisting(w)
  BY <1>0, <1>1, <1>4, <1>10 DEF AdmitExisting
<1>11. CASE AdmitRead(w)
  BY <1>0, <1>3, <1>6, <1>11 DEF AdmitRead, Goto
<1>12. CASE AdmitInsert(w)
  <2>1. op'[o].status # "none"
    BY <1>0, <1>12 DEF AdmitInsert, AdmittedRow, Unclaimed
  <2>. QED
    BY <1>0, <1>7, <1>12, <2>1 DEF AdmitInsert, Goto
<1>13. CASE AdmitCollides(w)
  BY <1>0, <1>6, <1>13 DEF AdmitCollides, Goto
<1>14. CASE Lookup(w)
  <2>1. ASSUME Goto(w, "expire"), op[o].status # "none",
               job' = [job EXCEPT ![w].seen = op[o].status, ![w].token = op[o].token]
        PROVE  Stands(w)'
    BY <1>0, <1>1, <1>7, <2>1 DEF Goto, Job
  <2>. QED
    BY <1>0, <1>1, <1>3, <1>4, <1>14, <2>1 DEF Lookup, Expires, Active
<1>15. CASE LookupActive(w)
  <2>1. ASSUME NEW a \in Op, op[a].status = "running", Goto(w, "expire"),
               job' = [job EXCEPT ![w] = ExpiryOf(a)]
        PROVE  Stands(w)'
    <3>1. pc'[w] = "expire" /\ job'[w].op = a
      BY <1>0, <2>1 DEF Goto, ExpiryOf
    <3>2. sent'[a] # Unsent /\ op'[a].status # "none"
      BY <1>0, <1>1, <2>1
    <3>. QED
      BY <3>1, <3>2 DEF Stands, Executing
  <2>. QED
    BY <1>3, <1>15, <2>1 DEF LookupActive
<1>16. CASE ExpireRunning(w)
  BY <1>0, <1>1, <1>3, <1>4, <1>16 DEF ExpireRunning, Stands
<1>17. CASE ExpireAdmitted(w)
  BY <1>0, <1>1, <1>3, <1>4, <1>17 DEF ExpireAdmitted, Stands
<1>18. CASE Cleanup(w) \/ MarkNotCommitted(w) \/ ClaimRefused(w)
  BY <1>3, <1>18 DEF Cleanup, MarkNotCommitted, ClaimRefused
<1>19. CASE Validate(w)
  BY <1>0, <1>1, <1>7, <1>19 DEF Validate, Goto, Stands
<1>20. CASE Claim(w)
  <2>1. op'[o].status = "running"
    BY <1>0, <1>20 DEF Claim, ClaimedRow, Row
  <2>2. pc'[w] = "prepare" /\ job'[w].op = o /\ job'[w].token = w
    BY <1>0, <1>20 DEF Claim, Goto, Job
  <2>. QED
    BY <1>8, <2>1, <2>2 DEF Executing
<1>21. CASE Prepare(w) \/ ReadSession(w) \/ MarkProviderStarted(w) \/ ProviderEnds(w)
            \/ CommitRefused(w)
  <2>1. job[w].token = w /\ op'[o].status \notin {"none", "admitted"}
    BY <1>0, <1>1, <1>21 DEF Prepare, ReadSession, MarkProviderStarted, ProviderEnds, CommitRefused,
       Stands, Executing
  <2>2. CASE GoFail(w, "failed") \/ GoFail(w, "revision")
    BY <1>5, <2>1, <2>2
  <2>3. ASSUME NEW label \in {"read", "start", "calling", "commit", "reject"}, Goto(w, label),
               job' = job \/ job' = [job EXCEPT ![w].revision = revision]
        PROVE  Stands(w)'
    <3>1. pc'[w] = label /\ job'[w].op = o /\ job'[w].token = w
      BY <1>0, <2>1, <2>3 DEF Goto, Job
    <3>. QED
      BY <1>8, <2>1, <3>1 DEF Executing
  <2>. QED
    BY <1>21, <2>2, <2>3 DEF Prepare, ReadSession, MarkProviderStarted, ProviderEnds, CommitRefused
<1>22. CASE CommitTurn(w)
  <2>1. pc'[w] = "lookup" /\ job'[w].op = o
    BY <1>0, <1>22 DEF CommitTurn, Goto, Job
  <2>. QED
    BY <1>6, <2>1
<1>23. CASE MarkUncertain(w) \/ MarkRejected(w)
  <2>1. pc'[w] = "cleanup" /\ job'[w].op = o
    BY <1>0, <1>23 DEF MarkUncertain, MarkRejected, Goto, Job
  <2>2. op'[o].status # "none"
    BY <1>0, <1>1, <1>23 DEF MarkUncertain, MarkRejected, Stands, Executing
  <2>. QED
    BY <1>7, <2>1, <2>2
<1>. QED
  BY <1>10, <1>11, <1>12, <1>13, <1>14, <1>15, <1>16, <1>17, <1>18, <1>19, <1>20, <1>21, <1>22,
     <1>23 DEF Step

\* A request whose own place does not change still stands for what it did.
LEMMA OthersStand ==
  ASSUME TypeInv, [Next]_vars, NEW w \in Worker, pc'[w] = pc[w], job'[w] = job[w]
  PROVE  Stands(w)'
<1>1. /\ \A o \in Op : sent[o] # Unsent => sent'[o] # Unsent
      /\ \A o \in Op : op[o].status # "none" => op'[o].status # "none"
      /\ \A o \in Op : op[o].status \notin {"none", "admitted"} =>
                            op'[o].status \notin {"none", "admitted"}
  BY SentStays, RowWrites, RowsTyped
<1>2. Stands(w) /\ (pc[w] # "idle" => job[w].op \in Op)
  BY DEF TypeInv, TypeOK, Standing
<1>. QED
  BY <1>1, <1>2 DEF Stands, Executing

\* A request's step leaves the other requests where they are.
LEMMA OneRequest ==
  ASSUME TypeInv, NEW w \in Worker, Step(w) \/ Crash(w) \/ \E o \in Op : Post(w, o) \/ GetReceipt(w, o),
         NEW v \in Worker, v # w
  PROVE  pc'[v] = pc[v] /\ job'[v] = job[v]
<1>0. pc \in [Worker -> Label] /\ job \in [Worker -> Job]
  BY DEF TypeInv, TypeOK
<1>1. CASE Crash(w) \/ \E o \in Op : Post(w, o) \/ GetReceipt(w, o)
  BY <1>0, <1>1 DEF Crash, Post, GetReceipt, Serve, Finish, Goto
<1>2. CASE Step(w)
  <2>1. CASE AdmitExisting(w) \/ AdmitRead(w) \/ AdmitInsert(w) \/ AdmitCollides(w)
             \/ Lookup(w) \/ LookupActive(w)
    BY <1>0, <2>1 DEF AdmitExisting, AdmitRead, AdmitInsert, AdmitCollides, Lookup, LookupActive,
       Received, Finish, Goto
  <2>2. CASE ExpireRunning(w) \/ ExpireAdmitted(w)
    BY <1>0, <2>2 DEF ExpireRunning, ExpireAdmitted, Received, Finish, Goto
  <2>3. CASE Cleanup(w) \/ Validate(w) \/ MarkNotCommitted(w) \/ Claim(w) \/ ClaimRefused(w)
    BY <1>0, <2>3 DEF Cleanup, Validate, MarkNotCommitted, Claim, ClaimRefused, Finish, Goto
  <2>4. CASE Prepare(w) \/ ReadSession(w) \/ MarkProviderStarted(w) \/ ProviderEnds(w)
             \/ CommitRefused(w)
    BY <1>0, <2>4 DEF Prepare, ReadSession, MarkProviderStarted, ProviderEnds, CommitRefused,
       GoFail, Goto
  <2>5. CASE CommitTurn(w) \/ MarkUncertain(w) \/ MarkRejected(w)
    BY <1>0, <2>5 DEF CommitTurn, MarkUncertain, MarkRejected, Goto
  <2>. QED
    BY <1>2, <2>1, <2>2, <2>3, <2>4, <2>5 DEF Step
<1>. QED
  BY <1>1, <1>2

LEMMA StandingStep ==
  ASSUME TypeInv, [Next]_vars
  PROVE  Standing'
<1>0. /\ pc \in [Worker -> Label] /\ job \in [Worker -> Job] /\ op \in [Op -> Row]
      /\ \A o \in Op : op[o].status # "none" => sent[o] # Unsent
  BY DEF TypeInv, TypeOK, Standing
<1>1. \A o \in Op : op'[o].status # "none" => sent'[o] # Unsent
  <2>1. \A o \in Op : op[o].status = "none" /\ op'[o].status # "none" => sent[o] # Unsent
    <3>1. RowStep
      BY RowWrites
    <3>. QED
      BY <1>0, <3>1 DEF RowStep, Updates, Commits
  <2>. QED
    BY <1>0, <2>1, SentStays
<1>2. \A v \in Worker : Stands(v)'
  <2>1. CASE UNCHANGED <<pc, job>>
    BY <2>1, OthersStand
  <2>2. ASSUME NEW w \in Worker, Step(w), NEW v \in Worker
        PROVE  Stands(v)'
    <3>1. Next
      BY <2>2 DEF Next
    <3>2. CASE v = w
      BY <2>2, <3>1, <3>2, StepStands
    <3>3. CASE v # w
      <4>1. pc'[v] = pc[v] /\ job'[v] = job[v]
        BY <2>2, <3>3, OneRequest
      <4>. QED
        BY <4>1, OthersStand
    <3>. QED
      BY <3>2, <3>3
  <2>3. ASSUME NEW w \in Worker, NEW v \in Worker,
               Crash(w) \/ \E o \in Op : Post(w, o) \/ GetReceipt(w, o)
        PROVE  Stands(v)'
    <3>1. CASE v # w
      <4>1. pc'[v] = pc[v] /\ job'[v] = job[v]
        BY <2>3, <3>1, OneRequest
      <4>. QED
        BY <4>1, OthersStand
    <3>2. CASE Crash(w) /\ v = w
      BY <1>0, <3>2 DEF Crash, Finish, Goto, Stands, Executing
    <3>3. ASSUME NEW o \in Op, Post(w, o) \/ GetReceipt(w, o), v = w
          PROVE  Stands(v)'
      <4>1. pc'[w] \in {"admit", "lookup"} /\ job'[w].op = o /\ sent'[o] # Unsent
        <5>1. \A kind : Request(o, kind).op = o
          BY DEF Request
        <5>2. PICK kind \in {"post", "get"}, label \in {"admit", "lookup"} : Serve(w, o, kind, label)
          BY <3>3 DEF Post, GetReceipt
        <5>. QED
          BY <1>0, <5>1, <5>2 DEF Serve, Goto, store
      <4>. QED
        BY <3>3, <4>1 DEF Stands, Executing
    <3>. QED
      BY <2>3, <3>1, <3>2, <3>3
  <2>. QED
    BY <2>1, <2>2, <2>3 DEF Next, vars, Send, Lapse, Mutate
<1>. QED
  BY <1>1, <1>2 DEF Standing

\* The variables a step writes only in passing.
LEMMA RestTyped ==
  ASSUME TypeInv, [Next]_vars
  PROVE  /\ revision' \in Nat /\ turns' \in Seq(Op)
         /\ lapsed' \subseteq Op /\ files' \subseteq Op /\ called' \in [Op -> Nat]
         /\ edits' \in 0..MaxEdits /\ crashes' \in 0..MaxCrashes
<1>0. /\ revision \in Nat /\ turns \in Seq(Op)
      /\ lapsed \subseteq Op /\ files \subseteq Op /\ called \in [Op -> Nat]
      /\ edits \in 0..MaxEdits /\ crashes \in 0..MaxCrashes
      /\ \A w \in Worker : pc[w] # "idle" => job[w].op \in Op
  BY DEF TypeInv, TypeOK
<1>1. revision' \in Nat /\ turns' \in Seq(Op)
  <2>1. \/ turns' = turns /\ revision' \in {revision, revision + 1}
        \/ \E o \in Op : turns' = Append(turns, o) /\ revision' = revision + 1
    <3>1. ASSUME NEW o \in Op, Commits(o) PROVE turns' = Append(turns, o) /\ revision' = revision + 1
      BY <3>1 DEF Commits
    <3>. QED
      BY <3>1, RowWrites DEF RowStep
  <2>2. revision' \in Nat
    BY <1>0, <2>1
  <2>3. ASSUME NEW o \in Op, turns' = Append(turns, o) PROVE turns' \in Seq(Op)
    <3>1. Append(turns, o) \in Seq(Op)
      BY <1>0
    <3>. QED
      BY <2>3, <3>1
  <2>4. turns \in Seq(Op)
    BY <1>0
  <2>. QED
    BY <2>1, <2>2, <2>3, <2>4
<1>2. ASSUME NEW w \in Worker, Step(w)
      PROVE  lapsed' \subseteq Op /\ files' \subseteq Op /\ called' \in [Op -> Nat]
             /\ edits' = edits /\ crashes' = crashes
  <2>1. CASE Prepare(w) \/ Cleanup(w) \/ Claim(w)
    BY <1>0, <2>1 DEF Prepare, Cleanup, Claim
  <2>2. CASE MarkProviderStarted(w)
    BY <1>0, <2>2 DEF MarkProviderStarted
  <2>. QED
    BY <1>0, <1>2, <2>1, <2>2 DEF store, Step, AdmitExisting, AdmitRead, AdmitInsert, AdmitCollides,
       Lookup, LookupActive, ExpireRunning, ExpireAdmitted, Validate, MarkNotCommitted,
       ClaimRefused, ReadSession, ProviderEnds, CommitTurn, CommitRefused, MarkUncertain,
       MarkRejected
<1>. QED
  BY <1>0, <1>1, <1>2 DEF vars, store, Next, Send, Lapse, Post, GetReceipt, Serve, Mutate, Crash

\* TypeInv is kept by every step.
LEMMA TypeInvStep == TypeInv /\ [Next]_vars => TypeInv'
<1> SUFFICES ASSUME TypeInv, [Next]_vars PROVE TypeInv'
  OBVIOUS
<1>1. op' \in [Op -> Row] /\ \A o \in Op : RowOK(op'[o])
  BY RowWrites, RowsTyped
<1>2. /\ pc' \in [Worker -> Label] /\ job' \in [Worker -> Job]
      /\ \A w \in Worker : pc'[w] # "idle" => job'[w].op \in Op
  <2>1. CASE UNCHANGED vars
    BY <2>1 DEF TypeInv, TypeOK, vars
  <2>. QED
    BY <2>1, LocalsStep
<1>4. TypeOK'
  BY <1>1, <1>2, SentStays, RestTyped DEF TypeOK, RowOK
<1>. QED
  BY <1>4, StandingStep DEF TypeInv

\* Columns keep their types and the row's check constraints hold, whatever
\* requests repeat, expire or die (StudyChatOperationRow.__table_args__).
THEOREM TypeCorrect == Spec => []TypeOK
<1>1. TypeInv => TypeOK
  BY DEF TypeInv
<1>. QED
  BY <1>1, InitTypeInv, TypeInvStep, PTL DEF Spec

-----------------------------------------------------------------------------
(* The receipts implement the ledger *)

\* What an update makes of a row's outcome.
LEMMA Outcomes ==
  /\ Outcome("none") = "none" /\ Outcome("admitted") = "open" /\ Outcome("running") = "open"
  /\ Outcome("committed") = "said" /\ Outcome("not_committed") = "unsaid"
  /\ Outcome("uncertain") = "unknown"
BY DEF Outcome, Active

LEMMA LedgerStep ==
  ASSUME TypeInv, [Next]_vars
  PROVE  [Ledger!Next]_(Ledger!vars)
<1>. DEFINE out == [o \in Op |-> Outcome(op[o].status)]
<1>0. op \in [Op -> Row] /\ \A o \in Op : op[o].status \in Status
  BY DEF TypeInv, TypeOK, Row
<1>1. CASE op' = op /\ turns' = turns
  BY <1>1 DEF Ledger!vars
<1>2. ASSUME NEW o \in Op, NEW row, op' = [op EXCEPT ![o] = row]
      PROVE  out' = [out EXCEPT ![o] = Outcome(row.status)]
  BY <1>0, <1>2
<1>3. ASSUME NEW o \in Op, Updates(o), turns' = turns
      PROVE  [Ledger!Next]_(Ledger!vars)
  <2>1. CASE op[o].status = "none" /\ SlotIsFree /\ op' = [op EXCEPT ![o] = AdmittedRow]
    <3>1. out[o] = "none" /\ \A p \in Op : out[p] # "open"
      BY <1>0, <2>1, Outcomes DEF SlotIsFree, Status, Active, Failed
    <3>2. out' = [out EXCEPT ![o] = Outcome(AdmittedRow.status)]
      BY <1>2, <2>1
    <3>3. out' = [out EXCEPT ![o] = "open"]
      BY <3>2, Outcomes, WrittenStatus
    <3>. QED
      BY <1>3, <3>1, <3>3 DEF Ledger!Next, Ledger!Open
  <2>2. ASSUME op[o].status \in Active, NEW row, row.status \in Active, op' = [op EXCEPT ![o] = row]
        PROVE  [Ledger!Next]_(Ledger!vars)
    <3>1. out[o] = "open" /\ out' = [out EXCEPT ![o] = "open"]
      BY <1>2, <2>2, Outcomes DEF Active
    <3>2. out' = out
      BY <3>1
    <3>. QED
      BY <1>3, <3>2 DEF Ledger!vars
  <2>3. ASSUME op[o].status \in Active, NEW row, row.status \in Failed, op' = [op EXCEPT ![o] = row]
        PROVE  [Ledger!Next]_(Ledger!vars)
    <3>1. out[o] = "open" /\ out' = [out EXCEPT ![o] = Outcome(row.status)]
      BY <1>2, <2>3, Outcomes DEF Active
    <3>2. Outcome(row.status) \in {"unsaid", "unknown"}
      BY <2>3, Outcomes DEF Failed
    <3>. QED
      BY <1>3, <3>1, <3>2 DEF Ledger!Next, Ledger!Unsay, Ledger!Lose
  <2>4. CASE op[o].status = "admitted"
    <3>1. ASSUME NEW w \in Worker, op' = [op EXCEPT ![o] = ClaimedRow(o, w)]
          PROVE  [Ledger!Next]_(Ledger!vars)
      <4>1. ClaimedRow(o, w).status \in Active /\ op[o].status \in Active
        BY <2>4, WrittenStatus DEF Active
      <4>. QED
        BY <2>2, <3>1, <4>1
    <3>2. ASSUME NEW why \in Why, op' = [op EXCEPT ![o] = UnclaimedRow(o, why)]
          PROVE  [Ledger!Next]_(Ledger!vars)
      <4>1. UnclaimedRow(o, why).status \in Failed /\ op[o].status \in Active
        BY <2>4, WrittenStatus DEF Active, Failed
      <4>. QED
        BY <2>3, <3>2, <4>1
    <3>. QED
      BY <1>3, <2>4, <3>1, <3>2 DEF Updates
  <2>5. CASE op[o].status = "running"
    <3>1. ASSUME op' = [op EXCEPT ![o] = StartedRow(o)]
          PROVE  [Ledger!Next]_(Ledger!vars)
      <4>1. StartedRow(o).status \in Active /\ op[o].status \in Active
        BY <2>5, WrittenStatus DEF Active
      <4>. QED
        BY <2>2, <3>1, <4>1
    <3>2. ASSUME op' = [op EXCEPT ![o] = RejectedRow(o)]
          PROVE  [Ledger!Next]_(Ledger!vars)
      <4>1. RejectedRow(o).status \in Failed /\ op[o].status \in Active
        BY <2>5, WrittenStatus DEF Active, Failed
      <4>. QED
        BY <2>3, <3>2, <4>1
    <3>3. ASSUME NEW why \in Why, op' = [op EXCEPT ![o] = UncertainRow(o, why)]
          PROVE  [Ledger!Next]_(Ledger!vars)
      <4>1. UncertainRow(o, why).status \in Failed /\ op[o].status \in Active
        BY <2>5, WrittenStatus DEF Active, Failed
      <4>. QED
        BY <2>3, <3>3, <4>1
    <3>. QED
      BY <1>3, <2>5, <3>1, <3>2, <3>3 DEF Updates
  <2>. QED
    BY <1>3, <2>1, <2>4, <2>5 DEF Updates
<1>4. ASSUME NEW o \in Op, Commits(o)
      PROVE  [Ledger!Next]_(Ledger!vars)
  <2>1. out[o] = "open"
    BY <1>4, Outcomes DEF Commits
  <2>2. out' = [out EXCEPT ![o] = Outcome(CommittedRow(o).status)]
    BY <1>2, <1>4 DEF Commits
  <2>3. out' = [out EXCEPT ![o] = "said"]
    BY <2>2, Outcomes, WrittenStatus
  <2>. QED
    BY <1>4, <2>1, <2>3 DEF Commits, Ledger!Next, Ledger!Say
<1>. QED
  BY <1>1, <1>3, <1>4, RowWrites DEF RowStep

\* Whoever repeats, expires, refuses or commits, the receipts and the turns are
\* those of the ledger: one message open at a time, only a said one in the
\* transcript, and an end is final (admit, claim, and the fenced updates).
THEOREM ReceiptsImplementLedger == Spec => ImplementsLedger
<1>1. Init => Ledger!Init
  <2>. SUFFICES ASSUME Init PROVE Ledger!Init
    OBVIOUS
  <2>1. \A o \in Op : Outcome(op[o].status) = "none"
    BY Outcomes DEF Init, NoRow, Unclaimed
  <2>. QED
    BY <2>1 DEF Init, Ledger!Init
<1>2. TypeInv /\ [Next]_vars => [Ledger!Next]_(Ledger!vars)
  BY LedgerStep
<1>. QED
  BY <1>1, <1>2, InitTypeInv, TypeInvStep, PTL DEF Spec, ImplementsLedger, Ledger!Spec

-----------------------------------------------------------------------------
(* Receipts, turns and the revisions messages were written for *)

Committed(o) == op[o].status = "committed"

\* A step either commits one running operation or leaves turns and committed
\* rows alone.
LEMMA CommittedRows ==
  ASSUME TypeInv, [Next]_vars
  PROVE  \/ /\ turns' = turns /\ revision' \in {revision, revision + 1}
            /\ \A o \in Op : Committed(o)' <=> Committed(o)
            /\ \A o \in Op : Committed(o) => op'[o] = op[o]
         \/ \E o \in Op : Commits(o)
<1>0. op \in [Op -> Row]
  BY DEF TypeInv, TypeOK
<1>1. ASSUME NEW o \in Op, Updates(o), UNCHANGED <<turns, revision, sent>>
      PROVE  /\ turns' = turns /\ revision' = revision
             /\ \A p \in Op : Committed(p)' <=> Committed(p)
             /\ \A p \in Op : Committed(p) => op'[p] = op[p]
  <2>1. op[o].status # "committed" /\ \E row : row.status # "committed" /\ op' = [op EXCEPT ![o] = row]
    BY <1>1, WrittenStatus DEF Updates
  <2>. QED
    BY <1>0, <1>1, <2>1 DEF Committed
<1>2. CASE op' = op /\ turns' = turns /\ revision' \in {revision, revision + 1}
  BY <1>2 DEF Committed
<1>. QED
  BY <1>1, <1>2, RowWrites DEF RowStep

\* What a commit leaves in the row.
LEMMA CommitWrites ==
  ASSUME TypeInv, NEW o \in Op, Commits(o)
  PROVE  /\ op'[o].status = "committed" /\ op'[o].revision = revision + 1
         /\ op'[o].sequence = Len(turns) + 1
         /\ \A p \in Op \ {o} : op'[p] = op[p]
         /\ ~Committed(o)
<1>1. op[o] \in Row /\ op \in [Op -> Row]
  BY DEF TypeInv, TypeOK
<1>2. /\ CommittedRow(o).status = "committed" /\ CommittedRow(o).revision = revision + 1
      /\ CommittedRow(o).sequence = Len(turns) + 1
  BY <1>1 DEF CommittedRow, Row
<1>. QED
  BY <1>1, <1>2 DEF Commits, Committed

LEMMA ReadBackStep ==
  ASSUME TypeInv, [Next]_vars, ReceiptsReadBack
  PROVE  ReceiptsReadBack'
<1>0. revision \in Nat /\ turns \in Seq(Op) /\ op \in [Op -> Row]
      /\ \A p \in Op : op[p].revision \in Nat /\ op[p].sequence \in Nat
  BY DEF TypeInv, TypeOK, Row
<1>1. ASSUME turns' = turns, revision' \in {revision, revision + 1},
             \A o \in Op : Committed(o)' <=> Committed(o),
             \A o \in Op : Committed(o) => op'[o] = op[o]
      PROVE  ReceiptsReadBack'
  <2>1. \A i \in DOMAIN turns : turns[i] \in Op /\ op'[turns[i]] = op[turns[i]]
    BY <1>0, <1>1 DEF ReceiptsReadBack, Committed
  <2>2. \A o \in Op : op'[o].status = "committed" =>
          /\ op'[o].sequence \in DOMAIN turns'
          /\ turns'[op'[o].sequence] = o
          /\ op'[o].revision <= revision'
    <3>. SUFFICES ASSUME NEW o \in Op, op'[o].status = "committed"
                  PROVE  /\ op'[o].sequence \in DOMAIN turns'
                         /\ turns'[op'[o].sequence] = o
                         /\ op'[o].revision <= revision'
      OBVIOUS
    <3>1. op'[o] = op[o] /\ op[o].status = "committed"
      BY <1>1 DEF Committed
    <3>2. op[o].revision <= revision
      BY <3>1 DEF ReceiptsReadBack
    <3>3. op'[o].revision <= revision'
      BY <1>0, <1>1, <3>1, <3>2
    <3>. QED
      BY <1>1, <3>1, <3>3 DEF ReceiptsReadBack
  <2>. QED
    BY <1>1, <2>1, <2>2 DEF ReceiptsReadBack
<1>2. ASSUME NEW o \in Op, Commits(o)
      PROVE  ReceiptsReadBack'
  <2>1. /\ op'[o].status = "committed" /\ op'[o].revision = revision + 1
        /\ op'[o].sequence = Len(turns) + 1
        /\ \A p \in Op \ {o} : op'[p] = op[p]
        /\ ~Committed(o) /\ turns' = Append(turns, o) /\ revision' = revision + 1
    BY <1>2, CommitWrites DEF Commits
  <2>2. /\ Len(turns) \in Nat /\ DOMAIN turns = 1..Len(turns)
        /\ DOMAIN turns' = 1..(Len(turns) + 1)
        /\ turns'[Len(turns) + 1] = o
        /\ \A i \in 1..Len(turns) : turns'[i] = turns[i] /\ turns[i] \in Op
    BY <1>0, <2>1
  <2>3. \A i \in 1..Len(turns) : /\ op'[turns'[i]] = op[turns[i]] /\ Committed(turns[i])
                                  /\ op[turns[i]].sequence = i
                                  /\ op[turns[i]].revision <= revision
    BY <2>1, <2>2 DEF ReceiptsReadBack, Committed
  <2>4. \A p \in Op : Committed(p)' =>
          /\ op'[p].sequence \in DOMAIN turns'
          /\ turns'[op'[p].sequence] = p
          /\ op'[p].revision <= revision'
    <3>1. \A p \in Op \ {o} : Committed(p) =>
            /\ op[p].sequence \in 1..Len(turns)
            /\ turns[op[p].sequence] = p
            /\ op[p].revision <= revision
      BY <2>2 DEF ReceiptsReadBack, Committed
    <3>2. ASSUME NEW p \in Op \ {o}, op'[p].status = "committed"
          PROVE  /\ op'[p].sequence \in DOMAIN turns'
                 /\ turns'[op'[p].sequence] = p
                 /\ op'[p].revision <= revision'
      <4>1. op'[p] = op[p] /\ Committed(p)
        BY <2>1, <3>2 DEF Committed
      <4>. QED
        BY <1>0, <2>1, <2>2, <3>1, <4>1
    <3>3. /\ op'[o].sequence \in DOMAIN turns'
          /\ turns'[op'[o].sequence] = o
          /\ op'[o].revision <= revision'
      BY <1>0, <2>1, <2>2
    <3>. QED
      BY <3>2, <3>3 DEF Committed
  <2>5. \A i \in DOMAIN turns' : op'[turns'[i]].status = "committed" /\ op'[turns'[i]].sequence = i
    BY <2>1, <2>2, <2>3 DEF Committed
  <2>6. \A i, j \in DOMAIN turns' : i < j => op'[turns'[i]].revision < op'[turns'[j]].revision
    <3>1. \A i, j \in 1..Len(turns) : i < j => op[turns[i]].revision < op[turns[j]].revision
      BY <2>2 DEF ReceiptsReadBack
    <3>2. ASSUME NEW i \in 1..Len(turns) PROVE op'[turns'[i]].revision < op'[turns'[Len(turns) + 1]].revision
      BY <1>0, <2>1, <2>2, <2>3
    <3>. QED
      BY <2>2, <2>3, <3>1, <3>2
  <2>. QED
    BY <2>4, <2>5, <2>6 DEF ReceiptsReadBack, Committed
<1>. QED
  BY <1>1, <1>2, CommittedRows

\* A committed receipt names the turn that is there, and every turn has its
\* receipt, with revisions in the order of the turns (commit_chat_operation_turn).
THEOREM ReceiptsAgreeWithTurns == Spec => []ReceiptsReadBack
<1>1. Init => ReceiptsReadBack
  <2>. SUFFICES ASSUME Init PROVE ReceiptsReadBack
    OBVIOUS
  <2>1. \A o \in Op : op[o].status # "committed"
    BY DEF Init, NoRow, Unclaimed
  <2>2. DOMAIN turns = {}
    BY DEF Init
  <2>. QED
    BY <2>1, <2>2 DEF ReceiptsReadBack
<1>. QED
  BY <1>1, InitTypeInv, TypeInvStep, ReadBackStep, PTL DEF Spec

OneActive ==
    \A a, b \in Op : op[a].status \in Active /\ op[b].status \in Active => a = b

\* Every turn there is was there when this message was written.
Fresh(o) == \A a \in Op : Committed(a) => op[a].revision <= sent[o]

\* Between the check and the commit nothing else is active, so no turn can come
\* between them: what the check found stays true until the turn is added.
FreshInv ==
    /\ OneActive
    /\ \A o \in Op : op[o].status = "running" => Fresh(o)
    /\ \A w \in Worker :
        pc[w] = "claim" /\ op[job[w].op].status = "admitted" => Fresh(job[w].op)
    /\ NoBlindTurn

LEMMA OneActiveStep ==
  ASSUME TypeInv, [Next]_vars, OneActive
  PROVE  OneActive'
<1>0. op \in [Op -> Row]
  BY DEF TypeInv, TypeOK
<1>1. CASE op' = op
  BY <1>1 DEF OneActive
<1>2. ASSUME NEW o \in Op, NEW row, op' = [op EXCEPT ![o] = row],
             op[o].status \in Active \/ SlotIsFree
      PROVE  OneActive'
  BY <1>0, <1>2 DEF OneActive, SlotIsFree
<1>3. ASSUME NEW o \in Op, Updates(o) \/ Commits(o)
      PROVE  OneActive'
  <2>1. \E row : op' = [op EXCEPT ![o] = row]
    BY <1>3 DEF Updates, Commits
  <2>2. op[o].status \in Active \/ SlotIsFree
    BY <1>3 DEF Updates, Commits, Active
  <2>. QED
    BY <1>2, <2>1, <2>2
<1>. QED
  BY <1>1, <1>3, RowWrites DEF RowStep

\* A request is about to claim because it has just checked, or was already.
LEMMA ReachesClaim ==
  ASSUME TypeInv, [Next]_vars, NEW w \in Worker, pc'[w] = "claim"
  PROVE  /\ job'[w] = job[w] /\ job[w].op \in Op
         /\ \/ pc[w] = "claim"
            \/ UNCHANGED <<op, sent, revision, turns>> /\ StillExpected(job[w].op)
<1>0. pc \in [Worker -> Label] /\ (pc[w] # "idle" => job[w].op \in Op)
  BY DEF TypeInv, TypeOK
<1>1. CASE UNCHANGED <<pc, job>>
  BY <1>0, <1>1
<1>2. ASSUME NEW v \in Worker, v # w,
             Step(v) \/ Crash(v) \/ \E o \in Op : Post(v, o) \/ GetReceipt(v, o)
      PROVE  pc'[w] = pc[w] /\ job'[w] = job[w]
  BY <1>2, OneRequest
<1>3. ~Crash(w) /\ \A o \in Op : ~Post(w, o) /\ ~GetReceipt(w, o)
  BY <1>0 DEF Crash, Post, GetReceipt, Serve, Finish, Goto
<1>4. CASE Step(w)
  <2>1. ~(AdmitExisting(w) \/ AdmitRead(w) \/ AdmitInsert(w) \/ AdmitCollides(w)
          \/ Lookup(w) \/ LookupActive(w) \/ ExpireRunning(w) \/ ExpireAdmitted(w))
    BY <1>0 DEF AdmitExisting, AdmitRead, AdmitInsert, AdmitCollides, Lookup, LookupActive,
       ExpireRunning, ExpireAdmitted, Received, Finish, Goto
  <2>2. ~(Cleanup(w) \/ MarkNotCommitted(w) \/ Claim(w) \/ ClaimRefused(w) \/ Prepare(w)
          \/ ReadSession(w) \/ MarkProviderStarted(w) \/ ProviderEnds(w) \/ CommitTurn(w)
          \/ CommitRefused(w) \/ MarkUncertain(w) \/ MarkRejected(w))
    BY <1>0 DEF Cleanup, MarkNotCommitted, Claim, ClaimRefused, Prepare, ReadSession,
       MarkProviderStarted, ProviderEnds, CommitTurn, CommitRefused, MarkUncertain, MarkRejected,
       GoFail, Finish, Goto
  <2>3. Validate(w)
    BY <1>4, <2>1, <2>2 DEF Step
  <2>. QED
    BY <1>0, <2>3 DEF Validate, Goto, store
<1>. QED
  BY <1>0, <1>1, <1>2, <1>3, <1>4 DEF Next, vars, Send, Lapse, Mutate

LEMMA FreshStep ==
  ASSUME TypeInv, [Next]_vars, ReceiptsReadBack, FreshInv
  PROVE  FreshInv'
<1>0. /\ op \in [Op -> Row] /\ sent \in [Op -> Revision] /\ revision \in Nat /\ turns \in Seq(Op)
      /\ \A o \in Op : op[o].status # "none" => sent[o] # Unsent
      /\ \A o \in Op : op[o].revision \in Nat /\ op[o].sequence \in Nat
      /\ \A o \in Op : Committed(o) => op[o].revision <= revision /\ op[o].sequence <= Len(turns)
  BY DEF TypeInv, TypeOK, Standing, Row, ReceiptsReadBack, Committed
<1>1. OneActive'
  BY OneActiveStep DEF FreshInv
<1>2. \A o \in Op : sent[o] # Unsent => sent'[o] = sent[o]
  BY SentStays
<1>3. ASSUME NEW o \in Op, Commits(o)
      PROVE  FreshInv'
  <2>1. /\ op[o].status = "running" /\ op'[o].status = "committed"
        /\ op'[o].revision = revision + 1 /\ op'[o].sequence = Len(turns) + 1
        /\ \A p \in Op \ {o} : op'[p] = op[p]
        /\ sent' = sent
    BY <1>3, CommitWrites DEF Commits
  <2>2. \A p \in Op : op'[p].status \notin Active
    BY <2>1 DEF FreshInv, OneActive, Active
  <2>3. \A w \in Worker : pc'[w] = "claim" => job'[w].op \in Op
    BY ReachesClaim
  <2>4. NoBlindTurn'
    <3>. SUFFICES ASSUME NEW a \in Op, NEW b \in Op, op'[a].status = "committed",
                         op'[b].status = "committed", op'[a].sequence < op'[b].sequence
                  PROVE  op'[a].revision <= sent'[b]
      BY DEF NoBlindTurn
    <3>1. Len(turns) \in Nat
      BY <1>0
    <3>2. CASE a = o
      BY <1>0, <2>1, <3>1, <3>2 DEF Committed
    <3>3. CASE a # o /\ b = o
      BY <2>1, <3>3 DEF FreshInv, Fresh, Committed
    <3>4. CASE a # o /\ b # o
      BY <2>1, <3>4 DEF FreshInv, NoBlindTurn
    <3>. QED
      BY <3>2, <3>3, <3>4
  <2>. QED
    BY <1>1, <2>2, <2>3, <2>4 DEF FreshInv, Active
<1>4. ASSUME turns' = turns, \A o \in Op : Committed(o)' <=> Committed(o),
             \A o \in Op : Committed(o) => op'[o] = op[o]
      PROVE  FreshInv'
  <2>1. ASSUME NEW o \in Op, Fresh(o), sent[o] # Unsent PROVE Fresh(o)'
    BY <1>2, <1>4, <2>1 DEF Fresh
  <2>2. ASSUME NEW o \in Op, op'[o].status = "running" PROVE Fresh(o)'
    <3>1. CASE op[o].status = "running"
      BY <1>0, <2>1, <3>1 DEF FreshInv
    <3>2. CASE op[o].status # "running"
      <4>1. op[o].status = "admitted" /\ \E w \in Worker : pc[w] = "claim" /\ job[w].op = o
        <5>0. op'[o] # op[o]
          BY <2>2, <3>2
        <5>1. Updates(o)
          <6>1. ASSUME NEW p \in Op, p # o, Updates(p) \/ Commits(p) PROVE op'[o] = op[o]
            BY <1>0, <6>1 DEF Updates, Commits
          <6>2. ~Commits(o)
            BY <2>2, CommitWrites
          <6>. QED
            BY <5>0, <6>1, <6>2, RowWrites DEF RowStep
        <5>2. CASE op[o].status = "none"
          BY <1>0, <2>2, <5>1, <5>2, WrittenStatus DEF Updates
        <5>3. CASE op[o].status = "admitted"
          BY <1>0, <2>2, <5>1, <5>3, WrittenStatus DEF Updates
        <5>. QED
          BY <3>2, <5>1, <5>2, <5>3 DEF Updates
      <4>. QED
        BY <1>0, <2>1, <4>1 DEF FreshInv
    <3>. QED
      BY <3>1, <3>2
  <2>3. ASSUME NEW w \in Worker, NEW o \in Op, job'[w].op = o, pc'[w] = "claim",
               op'[o].status = "admitted"
        PROVE  Fresh(o)'
    <3>1. /\ job[w].op = o
          /\ \/ pc[w] = "claim"
             \/ UNCHANGED <<op, sent, revision, turns>> /\ revision = sent[o]
      BY <2>3, ReachesClaim DEF StillExpected
    <3>2. CASE pc[w] = "claim"
      <4>1. op[o].status = "admitted"
        <5>1. op[o].status # "none"
          BY <3>1, <3>2 DEF TypeInv, Standing, Stands
        <5>2. op[o].status \in {"none", "admitted"}
          BY <2>3, RowWrites, RowsTyped
        <5>. QED
          BY <5>1, <5>2
      <4>2. Fresh(o)
        BY <3>1, <3>2, <4>1 DEF FreshInv
      <4>. QED
        BY <1>0, <2>1, <4>1, <4>2
    <3>3. CASE UNCHANGED <<op, sent, revision, turns>> /\ revision = sent[o]
      BY <1>0, <3>3 DEF Fresh, Committed
    <3>. QED
      BY <3>1, <3>2, <3>3
  <2>4. NoBlindTurn'
    BY <1>0, <1>2, <1>4 DEF FreshInv, NoBlindTurn, Committed
  <2>5. \A w \in Worker : pc'[w] = "claim" => job'[w].op \in Op
    BY ReachesClaim
  <2>6. ASSUME NEW w \in Worker, pc'[w] = "claim", op'[job'[w].op].status = "admitted"
        PROVE  Fresh(job[w].op)'
    <3>1. PICK o \in Op : o = job'[w].op
      BY <2>5, <2>6
    <3>2. Fresh(o)'
      BY <2>3, <2>6, <3>1
    <3>. QED
      BY <3>1, <3>2 DEF Fresh
  <2>. QED
    BY <1>1, <2>2, <2>4, <2>6 DEF FreshInv
<1>. QED
  BY <1>3, <1>4, CommittedRows

\* No reply is added to a conversation that had moved on since the learner
\* wrote: admission's stale read is made good by the slot and the check before
\* the claim (validate_study_chat_preclaim).
THEOREM NoTurnIsBlind == Spec => []NoBlindTurn
<1>1. Init => FreshInv
  <2>. SUFFICES ASSUME Init PROVE FreshInv
    OBVIOUS
  <2>1. \A o \in Op : op[o].status = "none"
    BY DEF Init, NoRow, Unclaimed
  <2>2. \A w \in Worker : pc[w] = "idle"
    BY DEF Init
  <2>. QED
    BY <2>1, <2>2 DEF FreshInv, OneActive, NoBlindTurn, Active
<1>2. FreshInv => NoBlindTurn
  BY DEF FreshInv
<1>. QED
  BY <1>1, <1>2, InitTypeInv, TypeInvStep, ReceiptsAgreeWithTurns, FreshStep, PTL DEF Spec

-----------------------------------------------------------------------------
(* One execution, one call *)

BeforeCall == {"prepare", "read", "start"}

\* Executions are as unique as the claim: their number is decided where the row
\* leaves "admitted", which it never enters again.
OnceInv ==
    /\ \A w, v \in Worker :
        pc[w] \in Executing /\ pc[v] \in Executing /\ job[w].op = job[v].op => w = v
    /\ \A o \in Op : op[o].status \in {"none", "admitted"} => called[o] = 0
    /\ \A w \in Worker : pc[w] \in BeforeCall => called[job[w].op] = 0
    /\ ProviderCalledOnce

\* A request executes because it has claimed, or did so before.
LEMMA ReachesExecution ==
  ASSUME TypeInv, [Next]_vars, NEW w \in Worker, pc'[w] \in Executing
  PROVE  /\ job'[w].op = job[w].op /\ job[w].op \in Op
         /\ \/ Claim(w)
            \/ /\ pc[w] \in Executing
               /\ pc'[w] \in BeforeCall => pc[w] \in BeforeCall
<1>0. /\ pc \in [Worker -> Label] /\ job \in [Worker -> Job]
      /\ (pc[w] # "idle" => job[w].op \in Op)
      /\ \A label \in Executing : label \notin Asking /\ label # "idle"
  BY DEF TypeInv, TypeOK, Executing, Asking
<1>1. CASE UNCHANGED <<pc, job>>
  BY <1>0, <1>1
<1>2. ASSUME NEW v \in Worker, v # w,
             Step(v) \/ Crash(v) \/ \E o \in Op : Post(v, o) \/ GetReceipt(v, o)
      PROVE  pc'[w] = pc[w] /\ job'[w] = job[w]
  BY <1>2, OneRequest
<1>3. ~Crash(w) /\ \A o \in Op : ~Post(w, o) /\ ~GetReceipt(w, o)
  BY <1>0 DEF Crash, Post, GetReceipt, Serve, Finish, Goto, Asking
<1>4. CASE Step(w)
  <2>1. ~(AdmitExisting(w) \/ AdmitRead(w) \/ AdmitInsert(w) \/ AdmitCollides(w)
          \/ Lookup(w) \/ LookupActive(w) \/ ExpireRunning(w) \/ ExpireAdmitted(w))
    BY <1>0 DEF AdmitExisting, AdmitRead, AdmitInsert, AdmitCollides, Lookup, LookupActive,
       ExpireRunning, ExpireAdmitted, Received, Finish, Goto, Asking
  <2>2. ~(Cleanup(w) \/ Validate(w) \/ MarkNotCommitted(w) \/ ClaimRefused(w) \/ CommitTurn(w)
          \/ MarkUncertain(w) \/ MarkRejected(w))
    BY <1>0 DEF Cleanup, Validate, MarkNotCommitted, ClaimRefused, CommitTurn, MarkUncertain,
       MarkRejected, Finish, Goto, Asking
  <2>3. CASE Claim(w)
    <3>1. pc[w] # "idle" /\ job'[w].op = job[w].op
      BY <1>0, <2>3 DEF Claim, Job
    <3>. QED
      BY <1>0, <2>3, <3>1
  <2>4. CASE Prepare(w) \/ ReadSession(w)
    <3>1. pc[w] \in {"prepare", "read"} /\ job'[w].op = job[w].op
      BY <1>0, <2>4 DEF Prepare, ReadSession, GoFail, Job
    <3>. QED
      BY <1>0, <3>1 DEF Executing, BeforeCall
  <2>5. CASE MarkProviderStarted(w) \/ ProviderEnds(w) \/ CommitRefused(w)
    <3>1. /\ pc[w] \in {"start", "calling", "commit"} /\ pc'[w] \notin BeforeCall
          /\ job'[w].op = job[w].op
      BY <1>0, <2>5 DEF MarkProviderStarted, ProviderEnds, CommitRefused, GoFail, Goto, Job, BeforeCall
    <3>. QED
      BY <1>0, <3>1 DEF Executing
  <2>. QED
    BY <1>4, <2>1, <2>2, <2>3, <2>4, <2>5 DEF Step
<1>. QED
  BY <1>0, <1>1, <1>2, <1>3, <1>4 DEF Next, vars, Send, Lapse, Mutate

\* The provider is called where a claimed execution says that it is.
LEMMA CalledStep ==
  ASSUME TypeInv, [Next]_vars
  PROVE  \/ called' = called
         \/ \E v \in Worker : /\ pc[v] = "start" /\ pc'[v] = "calling" /\ job[v].op \in Op
                             /\ called' = [called EXCEPT ![job[v].op] = @ + 1]
<1>1. ASSUME NEW w \in Worker, Step(w), called' # called
      PROVE  /\ pc[w] = "start" /\ pc'[w] = "calling" /\ job[w].op \in Op
             /\ called' = [called EXCEPT ![job[w].op] = @ + 1]
  <2>1. MarkProviderStarted(w)
    BY <1>1 DEF Step, AdmitExisting, AdmitRead, AdmitInsert, AdmitCollides, Lookup, LookupActive,
       ExpireRunning, ExpireAdmitted, Cleanup, Validate, MarkNotCommitted, Claim, ClaimRefused,
       Prepare, ReadSession, ProviderEnds, CommitTurn, CommitRefused, MarkUncertain, MarkRejected
  <2>. QED
    BY <1>1, <2>1 DEF MarkProviderStarted, Goto, TypeInv, TypeOK
<1>. QED
  BY <1>1 DEF vars, Next, Send, Lapse, Post, GetReceipt, Serve, Mutate, Crash

LEMMA OnceStep ==
  ASSUME TypeInv, [Next]_vars, OnceInv
  PROVE  OnceInv'
<1>0. /\ called \in [Op -> Nat]
      /\ \A o \in Op : op'[o].status \in {"none", "admitted"} => op[o].status \in {"none", "admitted"}
      /\ \A w \in Worker : pc[w] \in Executing => op[job[w].op].status \notin {"none", "admitted"}
  BY RowWrites, RowsTyped DEF TypeInv, TypeOK, Standing, Stands
<1>1. ASSUME NEW w \in Worker, Claim(w)
      PROVE  /\ pc[w] = "claim" /\ op[job[w].op].status = "admitted" /\ called' = called
             /\ \A v \in Worker \ {w} : pc'[v] = pc[v]
  BY <1>1, OneRequest DEF Claim, Claimable, Step
<1>2. ASSUME NEW w \in Worker, NEW v \in Worker, pc'[w] \in Executing, pc'[v] \in Executing,
             job'[w].op = job'[v].op
      PROVE  w = v
  <2>1. /\ job'[w].op = job[w].op /\ job'[v].op = job[v].op
        /\ Claim(w) \/ pc[w] \in Executing
        /\ Claim(v) \/ pc[v] \in Executing
    BY <1>2, ReachesExecution
  <2>3. CASE pc[w] \in Executing /\ pc[v] \in Executing
    BY <1>2, <2>1, <2>3 DEF OnceInv
  <2>4. ASSUME NEW x \in Worker, NEW y \in Worker, Claim(x), x # y, job[x].op = job[y].op,
               pc'[y] \in Executing, Claim(y) \/ pc[y] \in Executing
        PROVE  FALSE
    <3>1. op[job[x].op].status = "admitted" /\ pc'[y] = pc[y]
      BY <1>1, <2>4
    <3>2. pc[y] \in Executing
      BY <2>4, <3>1
    <3>3. op[job[y].op].status # "admitted"
      BY <1>0, <3>2
    <3>. QED
      BY <2>4, <3>1, <3>3
  <2>. QED
    BY <1>2, <2>1, <2>3, <2>4
<1>3. ASSUME NEW v \in Worker, pc[v] = "start", pc'[v] = "calling", job[v].op \in Op,
             called' = [called EXCEPT ![job[v].op] = @ + 1]
      PROVE  /\ op[job[v].op].status \notin {"none", "admitted"}
             /\ \A w \in Worker : pc'[w] \in BeforeCall /\ job[w].op = job[v].op => Claim(w)
             /\ called'[job[v].op] = 1
             /\ \A o \in Op : o # job[v].op => called'[o] = called[o]
  <2>1. pc[v] \in Executing /\ pc[v] \in BeforeCall /\ pc'[v] \notin BeforeCall
    BY <1>3 DEF Executing, BeforeCall
  <2>2. called[job[v].op] = 0
    BY <2>1 DEF OnceInv
  <2>3. ASSUME NEW w \in Worker, pc'[w] \in BeforeCall, job[w].op = job[v].op, ~Claim(w)
        PROVE  FALSE
    <3>1. pc'[w] \in Executing
      BY <2>3 DEF BeforeCall, Executing
    <3>2. pc[w] \in Executing
      BY <2>3, <3>1, ReachesExecution
    <3>3. w = v
      BY <2>1, <2>3, <3>2 DEF OnceInv
    <3>. QED
      BY <2>1, <2>3, <3>3
  <2>. QED
    BY <1>0, <1>3, <2>1, <2>2, <2>3
<1>4. ASSUME NEW o \in Op, op'[o].status \in {"none", "admitted"}
      PROVE  called'[o] = 0
  <2>1. called[o] = 0 /\ op[o].status \in {"none", "admitted"}
    BY <1>0, <1>4 DEF OnceInv
  <2>. QED
    BY <1>3, <2>1, CalledStep
<1>5. ASSUME NEW w \in Worker, pc'[w] \in BeforeCall
      PROVE  called'[job'[w].op] = 0
  <2>1. /\ job'[w].op = job[w].op /\ job[w].op \in Op
        /\ Claim(w) \/ pc[w] \in BeforeCall
    BY <1>5, ReachesExecution DEF BeforeCall, Executing
  <2>2. CASE Claim(w)
    BY <1>1, <2>1, <2>2 DEF OnceInv
  <2>3. CASE ~Claim(w)
    <3>1. called[job[w].op] = 0
      BY <2>1, <2>3 DEF OnceInv
    <3>. QED
      BY <1>3, <1>5, <2>1, <2>3, <3>1, CalledStep
  <2>. QED
    BY <2>2, <2>3
<1>6. ASSUME NEW o \in Op PROVE called'[o] <= 1
  <2>1. called[o] <= 1
    BY DEF OnceInv, ProviderCalledOnce
  <2>. QED
    BY <1>3, <2>1, CalledStep
<1>. QED
  BY <1>2, <1>4, <1>5, <1>6 DEF OnceInv, ProviderCalledOnce

\* The provider is called at most once for a message, however often it is
\* posted, asked for, expired or abandoned (claim, mark_provider_started).
THEOREM CalledAtMostOnce == Spec => []ProviderCalledOnce
<1>1. Init => OnceInv
  <2>. SUFFICES ASSUME Init PROVE OnceInv
    OBVIOUS
  <2>1. /\ \A o \in Op : called[o] = 0
        /\ \A w \in Worker : pc[w] \notin Executing /\ pc[w] \notin BeforeCall
    BY DEF Init, Executing, BeforeCall
  <2>. QED
    BY <2>1 DEF OnceInv, ProviderCalledOnce
<1>2. OnceInv => ProviderCalledOnce
  BY DEF OnceInv
<1>. QED
  BY <1>1, <1>2, InitTypeInv, TypeInvStep, OnceStep, PTL DEF Spec

-----------------------------------------------------------------------------
(* The files of a turn *)

\* Who cleans on a failed receipt was right when it read it and still is, since
\* failures are final; and while an operation runs, its staged files are there.
FilesInv ==
    /\ \A w \in Worker :
        pc[w] = "cleanup" /\ LeavesFiles(job[w].seen) => LeavesFiles(op[job[w].op].status)
    /\ \A w \in Worker :
        /\ pc[w] \in {"read", "start", "calling", "commit"}
        /\ op[job[w].op].status = "running"
        => job[w].op \in files
    /\ CommittedFilesKept

LEMMA ReachesCleanup ==
  ASSUME TypeInv, [Next]_vars, NEW w \in Worker, pc'[w] = "cleanup"
  PROVE  /\ job'[w].op = job[w].op /\ job[w].op \in Op
         /\ \/ pc[w] = "cleanup" /\ job'[w].seen = job[w].seen
            \/ job'[w].seen = op'[job[w].op].status
<1>0. /\ pc \in [Worker -> Label] /\ job \in [Worker -> Job] /\ op \in [Op -> Row]
      /\ (pc[w] # "idle" => job[w].op \in Op)
  BY DEF TypeInv, TypeOK
<1>1. CASE UNCHANGED <<pc, job>>
  BY <1>0, <1>1
<1>2. ASSUME NEW v \in Worker, v # w,
             Step(v) \/ Crash(v) \/ \E o \in Op : Post(v, o) \/ GetReceipt(v, o)
      PROVE  pc'[w] = pc[w] /\ job'[w] = job[w]
  BY <1>2, OneRequest
<1>3. ~Crash(w) /\ \A o \in Op : ~Post(w, o) /\ ~GetReceipt(w, o)
  BY <1>0 DEF Crash, Post, GetReceipt, Serve, Finish, Goto
<1>4. CASE Step(w)
  <2>0. pc[w] # "idle" /\ job[w].op \in Op
    BY <1>0, <1>4 DEF Step, AdmitExisting, AdmitRead, AdmitInsert, AdmitCollides, Lookup,
       LookupActive, ExpireRunning, ExpireAdmitted, Cleanup, Validate, MarkNotCommitted, Claim,
       ClaimRefused, Prepare, ReadSession, MarkProviderStarted, ProviderEnds, CommitTurn,
       CommitRefused, MarkUncertain, MarkRejected
  <2>1. ASSUME NEW status, Received(w, status), status = op'[job[w].op].status
        PROVE  job'[w].op = job[w].op /\ job'[w].seen = op'[job[w].op].status
    BY <1>0, <2>1 DEF Received, Job
  <2>2. CASE AdmitExisting(w) \/ AdmitRead(w) \/ AdmitInsert(w) \/ AdmitCollides(w)
    BY <1>0, <2>0, <2>1, <2>2 DEF AdmitExisting, AdmitRead, AdmitInsert, AdmitCollides, Finish, Goto,
       store
  <2>3. CASE Lookup(w) \/ LookupActive(w)
    BY <1>0, <2>0, <2>1, <2>3 DEF Lookup, LookupActive, Finish, Goto, store
  <2>4. CASE ExpireRunning(w)
    BY <1>0, <2>0, <2>1, <2>4 DEF ExpireRunning, Finish, Goto
  <2>5. CASE ExpireAdmitted(w)
    <3>1. ASSUME op' = [op EXCEPT ![job[w].op] = UnclaimedRow(job[w].op, "abandoned")]
          PROVE  op'[job[w].op].status = "not_committed"
      BY <1>0, <2>0, <3>1, WrittenStatus
    <3>. QED
      BY <1>0, <2>0, <2>1, <2>5, <3>1 DEF ExpireAdmitted, Finish, Goto
  <2>6. ~(Cleanup(w) \/ Validate(w) \/ MarkNotCommitted(w) \/ Claim(w) \/ ClaimRefused(w)
          \/ Prepare(w) \/ ReadSession(w) \/ MarkProviderStarted(w) \/ ProviderEnds(w)
          \/ CommitTurn(w) \/ CommitRefused(w))
    BY <1>0 DEF Cleanup, Validate, MarkNotCommitted, Claim, ClaimRefused, Prepare, ReadSession,
       MarkProviderStarted, ProviderEnds, CommitTurn, CommitRefused, GoFail, Finish, Goto
  <2>7. CASE MarkUncertain(w) \/ MarkRejected(w)
    BY <1>0, <2>0, <2>7 DEF MarkUncertain, MarkRejected, Job
  <2>. QED
    BY <1>4, <2>0, <2>2, <2>3, <2>4, <2>5, <2>6, <2>7 DEF Step
<1>. QED
  BY <1>0, <1>1, <1>2, <1>3, <1>4 DEF Next, vars, Send, Lapse, Mutate

\* Files go only in a clean-up, and come only before the execution goes on.
LEMMA FilesMove ==
  ASSUME TypeInv, [Next]_vars
  PROVE  /\ \A o \in files : \/ o \in files'
                             \/ /\ op' = op
                                /\ \E v \in Worker : /\ pc[v] = "cleanup" /\ job[v].op = o
                                                    /\ LeavesFiles(job[v].seen)
         /\ \A w \in Worker : pc'[w] \in {"read", "start", "calling", "commit"} =>
                \/ pc[w] \in {"read", "start", "calling", "commit"}
                \/ job[w].op \in files'
<1>0. pc \in [Worker -> Label]
  BY DEF TypeInv, TypeOK
<1>1. ASSUME NEW w \in Worker, Step(w)
      PROVE  /\ \A o \in files : \/ o \in files'
                                \/ /\ op' = op /\ pc[w] = "cleanup" /\ job[w].op = o
                                   /\ LeavesFiles(job[w].seen)
             /\ pc'[w] \in {"read", "start", "calling", "commit"} =>
                \/ pc[w] \in {"read", "start", "calling", "commit"}
                \/ job[w].op \in files'
  <2>1. CASE Cleanup(w)
    BY <1>0, <2>1 DEF Cleanup, Finish, Goto
  <2>2. CASE Prepare(w)
    BY <1>0, <2>2 DEF Prepare, GoFail, Goto
  <2>3. CASE AdmitExisting(w) \/ AdmitRead(w) \/ AdmitInsert(w) \/ AdmitCollides(w)
             \/ Lookup(w) \/ LookupActive(w) \/ ExpireRunning(w) \/ ExpireAdmitted(w)
    BY <1>0, <2>3 DEF AdmitExisting, AdmitRead, AdmitInsert, AdmitCollides, Lookup, LookupActive,
       ExpireRunning, ExpireAdmitted, Received, Finish, Goto, store
  <2>4. CASE Validate(w) \/ MarkNotCommitted(w) \/ Claim(w) \/ ClaimRefused(w)
    BY <1>0, <2>4 DEF Validate, MarkNotCommitted, Claim, ClaimRefused, Finish, Goto, store
  <2>5. CASE ReadSession(w) \/ MarkProviderStarted(w) \/ ProviderEnds(w) \/ CommitTurn(w)
             \/ CommitRefused(w) \/ MarkUncertain(w) \/ MarkRejected(w)
    BY <1>0, <2>5 DEF ReadSession, MarkProviderStarted, ProviderEnds, CommitTurn, CommitRefused,
       MarkUncertain, MarkRejected, GoFail, Goto, store
  <2>. QED
    BY <1>1, <2>1, <2>2, <2>3, <2>4, <2>5 DEF Step
<1>2. ASSUME NEW w \in Worker, Crash(w) \/ \E o \in Op : Post(w, o) \/ GetReceipt(w, o)
      PROVE  files' = files /\ pc'[w] \notin {"read", "start", "calling", "commit"}
  BY <1>0, <1>2 DEF Crash, Post, GetReceipt, Serve, Finish, Goto, store
<1>3. CASE UNCHANGED <<pc, files>>
  BY <1>3
<1>. QED
  BY <1>1, <1>2, <1>3, OneRequest DEF Next, vars, Send, Lapse, Mutate

LEMMA FilesStep ==
  ASSUME TypeInv, [Next]_vars, FilesInv
  PROVE  FilesInv'
<1>1. \A o \in Op : LeavesFiles(op[o].status) => op'[o] = op[o]
  BY RowWrites DEF TypeInv, TypeOK, RowStep, Updates, Commits, LeavesFiles, Failed
<1>2. \A o \in files : LeavesFiles(op[o].status) \/ o \in files'
  BY FilesMove DEF FilesInv
<1>3. ASSUME NEW w \in Worker, pc'[w] = "cleanup", LeavesFiles(job'[w].seen)
      PROVE  LeavesFiles(op'[job'[w].op].status)
  <2>1. /\ job'[w].op = job[w].op /\ job[w].op \in Op
        /\ \/ pc[w] = "cleanup" /\ job'[w].seen = job[w].seen
           \/ job'[w].seen = op'[job[w].op].status
    BY <1>3, ReachesCleanup
  <2>2. CASE pc[w] = "cleanup" /\ job'[w].seen = job[w].seen
    BY <1>1, <1>3, <2>1, <2>2 DEF FilesInv
  <2>. QED
    BY <1>3, <2>1, <2>2
<1>4. ASSUME NEW w \in Worker, pc'[w] \in {"read", "start", "calling", "commit"},
             op'[job'[w].op].status = "running"
      PROVE  job'[w].op \in files'
  <2>1. job'[w].op = job[w].op /\ job[w].op \in Op /\ (Claim(w) \/ pc[w] \in Executing)
    BY <1>4, ReachesExecution DEF Executing
  <2>2. CASE pc[w] \in {"read", "start", "calling", "commit"}
    <3>1. op[job[w].op].status \notin {"none", "admitted"}
      BY <2>2 DEF TypeInv, Standing, Stands, Executing
    <3>2. op[job[w].op].status = "running"
      <4>1. CASE op'[job[w].op] = op[job[w].op]
        BY <1>4, <2>1, <4>1
      <4>2. CASE op'[job[w].op] # op[job[w].op]
        BY <2>1, <3>1, <4>2, RowWrites DEF TypeInv, TypeOK, RowStep, Updates, Commits
      <4>. QED
        BY <4>1, <4>2
    <3>3. job[w].op \in files /\ ~LeavesFiles(op[job[w].op].status)
      BY <2>2, <3>2 DEF FilesInv, LeavesFiles, Failed
    <3>. QED
      BY <1>2, <2>1, <3>3
  <2>. QED
    BY <1>4, <2>1, <2>2, FilesMove
<1>5. ASSUME NEW o \in Op, op'[o].status = "committed"
      PROVE  o \in files'
  <2>1. CASE op[o].status = "committed"
    BY <1>2, <2>1 DEF FilesInv, CommittedFilesKept, LeavesFiles, Failed
  <2>2. CASE Commits(o)
    BY <2>2 DEF Commits, FilesInv
  <2>3. ASSUME NEW p \in Op, p # o, Commits(p) PROVE op'[o] = op[o]
    BY <2>3, CommitWrites
  <2>. QED
    BY <1>5, <2>1, <2>2, <2>3, CommittedRows DEF Committed
<1>. QED
  BY <1>3, <1>4, <1>5 DEF FilesInv, CommittedFilesKept, LeavesFiles

\* The files staged for a turn stay as long as the turn does, whoever cleans up
\* after whatever it read (_cleanup_terminal_study_chat_staging).
THEOREM TurnsKeepTheirFiles == Spec => []CommittedFilesKept
<1>1. Init => FilesInv
  <2>. SUFFICES ASSUME Init PROVE FilesInv
    OBVIOUS
  <2>1. /\ \A o \in Op : op[o].status # "committed"
        /\ \A w \in Worker : pc[w] = "idle"
    BY DEF Init, NoRow, Unclaimed
  <2>. QED
    BY <2>1 DEF FilesInv, CommittedFilesKept
<1>2. FilesInv => CommittedFilesKept
  BY DEF FilesInv
<1>. QED
  BY <1>1, <1>2, InitTypeInv, TypeInvStep, FilesStep, PTL DEF Spec
=============================================================================
