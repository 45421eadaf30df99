----------------------------- MODULE MCAccountStore -----------------------------
(* An instance of AccountStore for TLC: an administrator configured with   *)
(* the API, whose name the operators seed with a blank after it; their     *)
(* database is the API's own or one in memory.                             *)
EXTENDS AccountStore

MCStripped == [n \in {"admin", "admin ", "bob", Unset} |-> IF n = "admin " THEN "admin" ELSE n]
Seed(t, a, d) == [target |-> t, admin |-> a, password |-> "p", disabled |-> d]
MCSeeds == {Seed("accounts", "admin ", FALSE), Seed("accounts", "admin ", TRUE), Seed("accounts", "", FALSE),
            Seed("memory", "admin ", FALSE)}
=============================================================================
