--------------------------- MODULE TavernTranscript ---------------------------
(***************************************************************************)
(* What a tavern room promises its readers, with no worker, lease, claim   *)
(* or revision in sight: one transcript that only grows, written by one    *)
(* run at a time, each run's speakers in their order and each at most      *)
(* once, and nothing more from a run that has closed.  TavernRun           *)
(* implements it.                                                          *)
(***************************************************************************)
EXTENDS Naturals, Sequences

CONSTANTS
    Run,      \* identifiers of runs
    NoRun,    \* the author of a director's opening message
    MaxSteps  \* most speakers of one run

VARIABLES
    transcript,  \* who spoke: <<run, slot>>, slot 0 for a message that opens a run
    phase,       \* new, open or closed
    erased       \* the room was deleted

vars == <<transcript, phase, erased>>

Line == [run : Run \union {NoRun}, slot : 0..MaxSteps]

Spoken(r) == {transcript[k].slot : k \in {n \in DOMAIN transcript : transcript[n].run = r}}

Init ==
    /\ transcript \in {<<>>, <<[run |-> NoRun, slot |-> 0]>>}
    /\ phase = [r \in Run |-> "new"]
    /\ erased = FALSE

\* A run is admitted while no other is open, with or without a visible user message.
Open(r) ==
    /\ ~ erased
    /\ phase[r] = "new"
    /\ \A s \in Run : phase[s] # "open"
    /\ phase' = [phase EXCEPT ![r] = "open"]
    /\ \/ transcript' = Append(transcript, [run |-> r, slot |-> 0])
       \/ UNCHANGED transcript
    /\ UNCHANGED erased

\* The next speaker of the open run speaks, and the run may close with it.
Speak(r, slot) ==
    /\ phase[r] = "open"
    /\ slot \notin Spoken(r)
    /\ 1..(slot - 1) \subseteq Spoken(r)
    /\ transcript' = Append(transcript, [run |-> r, slot |-> slot])
    /\ phase' \in {phase, [phase EXCEPT ![r] = "closed"]}
    /\ UNCHANGED erased

\* The run fails, runs out of claims or is canceled.
Close(r) ==
    /\ phase[r] = "open"
    /\ phase' = [phase EXCEPT ![r] = "closed"]
    /\ UNCHANGED <<transcript, erased>>

\* Deletion, while nobody speaks.
Erase ==
    /\ \A r \in Run : phase[r] # "open"
    /\ erased' = TRUE
    /\ transcript' = <<>>
    /\ phase' = [r \in Run |-> "new"]

Next ==
    \/ \E r \in Run : Open(r) \/ Close(r) \/ \E slot \in 1..MaxSteps : Speak(r, slot)
    \/ Erase

Spec == Init /\ [][Next]_vars
=============================================================================
