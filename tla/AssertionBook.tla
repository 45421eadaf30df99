----------------------------- MODULE AssertionBook -----------------------------
(***************************************************************************)
(* What the assertion repository promises, however its transactions        *)
(* overlap: an assertion is proposed once, goes through the transition     *)
(* matrix one step at a time, and is superseded in the very step that      *)
(* accepts a successor nobody had proposed before.                         *)
(***************************************************************************)
EXTENDS AssertionLifecycle

CONSTANT Assertion  \* the assertion ids

VARIABLES
    state,      \* state[a]: the lifecycle state of a, "None" before its proposal
    successor   \* successor[a]: what a was superseded by

bookVars == <<state, successor>>

BookInit ==
    /\ state \in [Assertion -> LifecycleState \union {"None"}]
    /\ successor = [a \in Assertion |-> NoSuccessor]

Propose(a) ==
    /\ state[a] = "None"
    /\ state' = [state EXCEPT ![a] = "Proposed"]
    /\ UNCHANGED successor

Decide(a, to) ==
    /\ <<state[a], to>> \in Matrix
    /\ to # "Superseded"
    /\ state' = [state EXCEPT ![a] = to]
    /\ UNCHANGED successor

Supersede(a, b) ==
    /\ <<state[a], "Superseded">> \in Matrix
    /\ state[b] = "None"
    /\ state' = [state EXCEPT ![a] = "Superseded", ![b] = "Accepted"]
    /\ successor' = [successor EXCEPT ![a] = b]

BookNext ==
    \E a \in Assertion :
        \/ Propose(a)
        \/ \E to \in LifecycleState : Decide(a, to)
        \/ \E b \in Assertion : Supersede(a, b)

BookSpec == BookInit /\ [][BookNext]_bookVars

=============================================================================
