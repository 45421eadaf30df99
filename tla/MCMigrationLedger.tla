--------------------------- MODULE MCMigrationLedger ---------------------------
(* MigrationLedger with the three real components, one migration each:     *)
(* three disposable databases (the first with two spellings of its URL), one *)
(* hosted one and one SQLite file.                                         *)
EXTENDS MigrationLedger, TLC

A1 == [component |-> "auth", time |-> 1]
G2 == [component |-> "graph", time |-> 2]
C3 == [component |-> "coordination", time |-> 3]
G4 == [component |-> "graph", time |-> 4]
MCFiles == {A1, G2, C3, G4}

MCSqlTokens ==
  [v1 |-> <<"BEGIN", ";", "CREATE", "TABLE", ";", "COMMIT", ";">>,
   v2 |-> <<"BEGIN", ";", "CREATE", "TABLE", ";", "CREATE", "POLICY", ";", "COMMIT", ";">>,
   drop |-> <<"BEGIN", ";", "DROP", "TABLE", ";", "CREATE", "TABLE", ";", "COMMIT", ";">>]

Reviewed(bytes) == [ratified |-> TRUE, files |-> [f \in {A1, G2, C3} |-> IF f = G2 THEN bytes ELSE "v1"]]
MCManifests == {Reviewed("v1"), Reviewed("v2"), Reviewed("drop"), [Reviewed("v1") EXCEPT !.ratified = FALSE]}

MCDbOf == [u1 |-> "d1", u1alias |-> "d1", u2 |-> "d2", u3 |-> "d3", uh |-> "hosted", us |-> "sqlite"]
MCDbs == {"d1", "d2", "d3", "hosted", "sqlite"}

Bound(profile, class, lineage, id) == [profile |-> profile, class |-> class, lineage |-> lineage, id |-> id]
(* All targets on one database; each on its own; the hosted one, as it is  *)
(* and mislabelled as disposable; the one database's aliases bound apart;  *)
(* and a document that others may read, or with an identity no one attests.*)
Combined(m, class, lineage) ==
  [protected |-> TRUE, manifest |-> m, targets |-> [c \in Components |-> Bound("combined", class, lineage, "i1")]]
Separate(class) ==
  [protected |-> TRUE, manifest |-> Reviewed("v1"),
   targets |-> [c \in Components |-> Bound(c, class, "fresh-v1", [auth |-> "i1", graph |-> "i2", coordination |-> "i3"][c])]]
MCDocs == {Combined(Reviewed("v1"), "disposable", "fresh-v1"),
           Combined(Reviewed("v2"), "disposable", "fresh-v1"),
           Combined(Reviewed("drop"), "disposable", "fresh-v1"),
           Combined(Reviewed("v1"), "hosted", "hosted-legacy-v1"),
           Separate("disposable"),
           [Separate("disposable") EXCEPT !.protected = FALSE],
           [Separate("disposable") EXCEPT !.targets["coordination"].id = "malformed"]}

Configured(auth, graph, coordination, admin) ==
  [auth |-> auth, graph |-> graph, coordination |-> coordination, admin |-> admin]
MCSettings == {Configured("u1", "u1alias", "u1", "usable"),   \* one database, its URL spelled two ways
               Configured("u1", "u2", "u1", "disabled"),      \* an alias that leads elsewhere
               Configured("u1", "u2", "u3", "usable"),        \* three databases
               Configured("u1", "none", "none", "usable"),    \* credentials only
               Configured("u1", "us", "none", "none"),        \* a local graph store
               Configured("us", "us", "us", "usable"),
               Configured("uh", "uh", "uh", "usable")}

MCOperatorSymmetry == Permutations(Operators)

(* The first database is brought the credentials' ledger or the combined   *)
(* one, which it begins; each of the others only its own.                  *)
ASSUME MCOneLedger == OneLedgerPerDatabase
===============================================================================
