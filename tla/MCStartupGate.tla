----------------------------- MODULE MCStartupGate -----------------------------
(* Instances of StartupGate for TLC. *)
EXTENDS StartupGate

CONSTANTS s1, s2, p1, p2, b1, b2, r1, r2

MCHolder == Gate \union {Gone}
NoSkew == [h \in MCHolder |-> 0]
MCHost == [g \in Gate |-> IF g \in {s1, p1, b1} THEN r1 ELSE r2]
MCKind == [g \in Gate |-> CASE g \in {s1, s2} -> "startup"
                            [] g \in {p1, p2} -> "periodic"
                            [] OTHER -> "rebuild"]

=============================================================================
