------------------------------ MODULE MCGraphStore ------------------------------
(* An instance of GraphStore for TLC: a bond b of the issuer a in one sector, one event
   about a that involves b, and three assertions: b to a under one predicate, a to b and
   a to c under another predicate of the same edge type. *)
EXTENDS GraphStore

CONSTANTS a, b, c, e1, link, peer, x1, x2, x3

MCRank == [x \in Asset |-> CASE x = a -> 1 [] x = b -> 2 [] OTHER -> 3]
MCSector == [x \in Asset |-> IF x = c THEN "Unknown" ELSE "Energy"]
MCIssuer == [x \in Asset |-> IF x = b THEN a ELSE NoIssuer]
MCAbout == [e \in Event |-> a]
MCRelated == [e \in Event |-> {b}]
MCEventRank == [e \in Event |-> 1]
MCEdgeType == [p \in Predicate |-> "corporate_link"]
MCDirection == [p \in Predicate |-> IF p = link THEN "subject_to_object" ELSE "bidirectional"]
MCConflictKey == [p \in Predicate |-> IF p = link THEN {"subject", "object"} ELSE {"subject"}]
MCSubject == [x \in Assertion |-> IF x = x1 THEN b ELSE a]
MCObject == [x \in Assertion |-> IF x = x1 THEN a ELSE IF x = x2 THEN c ELSE b]
MCPredicates == [x \in Assertion |-> IF x = x1 THEN link ELSE peer]
MCStrengthOf == [k \in Rule \union Event \union Predicate |->
                    IF k \in {"corporate_link", peer} THEN 2 ELSE 1]
MCHandRow ==
    {[src |-> a, tgt |-> b, type |-> "corporate_link", strength |-> 1, both |-> TRUE],
     [src |-> b, tgt |-> a, type |-> "corporate_link", strength |-> 2, both |-> FALSE]}

=============================================================================
