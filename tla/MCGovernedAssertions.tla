-------------------------- MODULE MCGovernedAssertions --------------------------
(* Instances of GovernedAssertions for TLC. *)
EXTENDS GovernedAssertions, TLC

CONSTANTS alice, bob

WriterSymmetry == Permutations(Writer)

Same == [a \in Assertion |-> 1]
Other == [a \in Assertion |-> 2]
Own == [a \in Assertion |-> a]
Backwards == [a \in Assertion |-> 10 - a]

Ev(from, to, actor, at) ==
    [from |-> from, to |-> to, actor |-> actor, at |-> at, succ |-> 0, seen |-> 0]

AcceptedStream ==
    <<Ev("None", "Proposed", alice, 0), Ev("Proposed", "Accepted", bob, 1)>>

(* 1 is accepted, the other ids are free. *)
OneAccepted == [a \in Assertion |-> IF a = 1 THEN AcceptedStream ELSE <<>>]

(* 1 and 2 are accepted, the other ids are free. *)
TwoAccepted ==
    [a \in Assertion |-> IF a \in {1, 2} THEN AcceptedStream ELSE <<>>]

EmptyPublished == <<[known |-> 0, edges |-> {}, scopes |-> {}]>>
OnePublished == <<[known |-> 1, edges |-> {1}, scopes |-> {1}]>>

Everything == {Assertion}

=============================================================================
