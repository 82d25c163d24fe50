---------------------------- MODULE DocumentLease ----------------------------
(***************************************************************************)
(* What processing promises about a document: it is held by one operation  *)
(* at a time; a holder either publishes its own content or gives the       *)
(* document back with the content it took; nobody edits a held document;   *)
(* every one of these steps is one revision.                               *)
(***************************************************************************)
EXTENDS Integers

CONSTANTS
    Op, NoOp,
    Owner   \* who may have made the content: Op and others

VARIABLES
    content,   \* who made it, and the edits since
    revision,
    holder,    \* the operation that holds the document
    outcome    \* what became of each operation

vars == <<content, revision, holder, outcome>>

Init ==
    /\ content \in [by: Owner \ Op, edit: {0}]
    /\ revision \in Nat
    /\ holder = NoOp
    /\ outcome = [o \in Op |-> "new"]

Acquire(o) ==
    /\ holder = NoOp
    /\ outcome[o] = "new"
    /\ holder' = o
    /\ outcome' = [outcome EXCEPT ![o] = "holding"]
    /\ UNCHANGED content

Publish(o) ==
    /\ holder = o
    /\ holder' = NoOp
    /\ content' = [by |-> o, edit |-> 0]
    /\ outcome' = [outcome EXCEPT ![o] = "published"]

Release(o) ==
    /\ holder = o
    /\ holder' = NoOp
    /\ outcome' = [outcome EXCEPT ![o] = "released"]
    /\ UNCHANGED content

Edit ==
    /\ holder = NoOp
    /\ content' = [content EXCEPT !.edit = content.edit + 1]
    /\ UNCHANGED <<holder, outcome>>

Next ==
    /\ revision' = revision + 1
    /\ Edit \/ \E o \in Op : Acquire(o) \/ Publish(o) \/ Release(o)

Spec == Init /\ [][Next]_vars
=============================================================================
