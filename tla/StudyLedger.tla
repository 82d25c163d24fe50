----------------------------- MODULE StudyLedger -----------------------------
(***************************************************************************)
(* What the receipt of a study message promises the learner, with no       *)
(* worker, token, deadline or revision in sight: one message is open at a  *)
(* time, it ends as said, unsaid or unknown, only a said one is in the     *)
(* transcript, and an end is final.  StudyChat implements it.              *)
(***************************************************************************)
EXTENDS Sequences

CONSTANT Op  \* the messages, by their client request identity

VARIABLES
    transcript,  \* the messages with a turn, in order
    outcome      \* none, open, said, unsaid or unknown

vars == <<transcript, outcome>>

Init == transcript = <<>> /\ outcome = [o \in Op |-> "none"]

Open(o) ==
    /\ outcome[o] = "none"
    /\ \A p \in Op : outcome[p] # "open"
    /\ outcome' = [outcome EXCEPT ![o] = "open"]
    /\ UNCHANGED transcript

\* The tutor's reply is saved with the message it answers.
Say(o) ==
    /\ outcome[o] = "open"
    /\ outcome' = [outcome EXCEPT ![o] = "said"]
    /\ transcript' = Append(transcript, o)

\* Nothing was saved, and the learner may say it again.
Unsay(o) ==
    /\ outcome[o] = "open"
    /\ outcome' = [outcome EXCEPT ![o] = "unsaid"]
    /\ UNCHANGED transcript

\* The provider may have acted; nothing will be saved.
Lose(o) ==
    /\ outcome[o] = "open"
    /\ outcome' = [outcome EXCEPT ![o] = "unknown"]
    /\ UNCHANGED transcript

Next == \E o \in Op : Open(o) \/ Say(o) \/ Unsay(o) \/ Lose(o)

Spec == Init /\ [][Next]_vars
=============================================================================
