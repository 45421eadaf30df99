---------------------------- MODULE RuntimeAuthority ----------------------------
(***************************************************************************)
(* The runtime authority contract of a PostgreSQL database and the queries *)
(* that verify it (src/data/database.py for the graph and coordination     *)
(* capabilities, api/database.py for the credentials).  Each component has *)
(* a capability role that may not log in; its runtime login is a member of *)
(* that role and of nothing else.                                          *)
(*                                                                         *)
(* A catalog is a set of facts <<kind, role, object, what>>: a "grant" or  *)
(* an "attribute" of a role, a "member"ship <<"member", who, of, option>>, *)
(* an "owner", a "policy" of a table for a role, and, with no role, "rls", *)
(* "table", "shape" (a table's columns, keys, constraints, indexes and     *)
(* guards are those required), "trigger" and "object" (anything else).     *)
(* One table stands for all those with its contract: assets for the four   *)
(* mutable graph tables, relationship_assertions for the governed ones.    *)
(***************************************************************************)
EXTENDS LedgerPlan

CONSTANTS
  Logins,         \* roles that log in
  OtherRoles      \* further roles of the cluster

CapabilityRole == [auth |-> "fardb_runtime_auth", graph |-> "fardb_runtime_graph",
                   coordination |-> "fardb_runtime_coordination"]
Roles == Logins \cup OtherRoles \cup {CapabilityRole[c] : c \in Components}
ASSUME RoleAssumption ==
  /\ IsFiniteSet(Logins) /\ IsFiniteSet(OtherRoles) /\ Logins \cap OtherRoles = {}
  /\ \A c \in Components : CapabilityRole[c] \notin Logins \cup OtherRoles
  /\ {"PUBLIC", "-"} \cap Roles = {}

Tables == [auth |-> {"user_credentials"}, coordination |-> {"distributed_locks"},
           graph |-> {"assets", "rebuild_jobs", "relationship_assertions"}]
SequenceOf == [auth |-> {"user_credentials_id_seq"}, graph |-> {"assets_id_seq"}, coordination |-> {}]
ManagedTables == [cs \in SUBSET Components |-> UNION {Tables[c] : c \in cs}]
Sequences == [cs \in SUBSET Components |-> UNION {SequenceOf[c] : c \in cs}]
Relations == [cs \in SUBSET Components |-> ManagedTables[cs] \cup Sequences[cs]]
RejectMutation == "grac_v1_reject_mutation"

-------------------------------------------------------------------------------
(* The privileges of each capability.  A table privilege covers every      *)
(* column; governed rows are locked through UPDATE on their key alone.     *)
OnColumns == [SELECT |-> {"SELECT(id)", "SELECT(rest)"}, INSERT |-> {"INSERT(id)", "INSERT(rest)"},
              UPDATE |-> {"UPDATE(id)", "UPDATE(rest)"}, REFERENCES |-> {"REFERENCES(id)", "REFERENCES(rest)"}]
TablePrivileges == {"SELECT", "INSERT", "UPDATE", "DELETE", "TRUNCATE", "REFERENCES", "TRIGGER"}
SequencePrivileges == {"USAGE", "SELECT", "UPDATE"}
WithColumns(ps) == ps \cup UNION {OnColumns[p] : p \in ps \cap DOMAIN OnColumns}

Commands(c, t) == CASE c = "auth" -> {"SELECT"}
                    [] t = "rebuild_jobs" -> {"SELECT", "INSERT", "UPDATE"}
                    [] t = "relationship_assertions" -> {"SELECT", "INSERT"}
                    [] OTHER -> {"SELECT", "INSERT", "UPDATE", "DELETE"}
LockColumn(t) == IF t = "relationship_assertions" THEN {"UPDATE(id)"} ELSE {}

TableContract == [c \in Components |->
  UNION {{<<t, p>> : p \in WithColumns(Commands(c, t)) \cup LockColumn(t)} : t \in Tables[c]}]
SequenceContract == [c \in Components |->
  IF c = "graph" THEN {"assets_id_seq"} \X {"USAGE", "SELECT"} ELSE {}]

(* One policy per command, and one that lets governed rows be locked.      *)
Policies == [c \in Components |->
  UNION {{<<"policy", CapabilityRole[c], t, p>> : p \in Commands(c, t)}
           \cup {<<"policy", CapabilityRole[c], t, "lock">> : l \in LockColumn(t)} : t \in Tables[c]}]

-------------------------------------------------------------------------------
(* What PostgreSQL makes of a catalog.                                     *)
Kinds == {"grant", "attribute", "member", "owner", "policy", "rls", "table", "shape", "trigger", "object"}
Facts(F, kind) == {f \in F : f[1] = kind}
Super(F, r) == <<"attribute", r, "super", "-">> \in F
Edges(fs) == {<<f[2], f[3]>> : f \in fs}
Beyond(edges, S) == {e[2] : e \in {e \in edges : e[1] \in S}} \ S
Closure(edges, r) ==
  LET grow[S \in SUBSET Roles] == IF Beyond(edges, S) = {} THEN S ELSE grow[S \cup Beyond(edges, S)]
  IN  grow[{r}]
Via(F, option) == Edges({f \in Facts(F, "member") : f[4] = option})

Inherited(F, r) == Closure(Via(F, "inherit"), r)
Settable(F, r) == Closure(Via(F, "set"), r)
(* pg_has_role with USAGE or with SET.                                     *)
AssumableInherited(F, r) == IF Super(F, r) THEN Roles ELSE Inherited(F, r)
Assumable(F, r) == IF Super(F, r) THEN Roles ELSE Inherited(F, r) \cup Settable(F, r)

Objects == Relations[Components] \cup {RejectMutation, "public"}
PrivilegesOn == [o \in Objects |->
  CASE o \in ManagedTables[Components] -> WithColumns(TablePrivileges)
    [] o \in Sequences[Components] -> SequencePrivileges
    [] o = RejectMutation -> {"EXECUTE"}
    [] OTHER -> {"USAGE", "CREATE"}]
Everything(os) == UNION {{o} \X PrivilegesOn[o] : o \in os}

(* has_..._privilege: what a role holds directly, by inheritance, through  *)
(* PUBLIC or as owner.                                                     *)
Direct(F, r) ==
  LET own == {f \in F : f[2] = r}
  IN  Everything({f[3] : f \in Facts(own, "owner")})
        \cup UNION {{f[3]} \X (WithColumns({f[4]}) \cap PrivilegesOn[f[3]]) : f \in Facts(own, "grant")}
Held(F, r) == IF Super(F, r) THEN Everything(Objects)
              ELSE UNION {Direct(F, a) : a \in Inherited(F, r) \cup {"PUBLIC"}}
On(held, os) == {x \in held : x[1] \in os}
Owns(F, r, os) == \E f \in Facts(F, "owner") : f[2] = r /\ f[3] \in os

-------------------------------------------------------------------------------
(* The verification, one operator per query.                               *)
Elevated(F, r) == Super(F, r) \/ <<"public", "CREATE">> \in Held(F, r)
Reaches(F, r, cs) == On(Held(F, r), Relations[cs]) /= {}
CallsReject(F, r) == <<RejectMutation, "EXECUTE">> \in Held(F, r)

(* The graph and coordination queries keep the credentials out of reach,   *)
(* the auth queries everything else.                                       *)
Foreign(cs) == IF cs = {"auth"} THEN Components \ {"auth"} ELSE {"auth"}

(* Who can use a role: memberships with either option lead on, and behind  *)
(* a superuser every membership does, however far.                         *)
UsableBy(F, m) ==
  LET all == Facts(F, "member")
      near == Closure(Edges({f \in all : f[4] \in {"inherit", "set"} \/ Super(F, f[2])}), m)
  IN  near \cup UNION {Closure(Edges(all), s) : s \in {s \in near : Super(F, s)}}

SafeRole(F, c, cs) ==
  LET r == CapabilityRole[c]
      logins == {l \in Roles : <<"attribute", l, "login", "-">> \in F}
  IN  /\ <<"attribute", r, "login", "-">> \notin F /\ ~Elevated(F, r)
      /\ ~Reaches(F, r, Foreign(cs)) /\ ~CallsReject(F, r)
      /\ cs /= {"auth"} => ~Owns(F, r, Relations[cs])
      /\ \A f \in Facts(F, "member") : f[2] /= r /\ ~(f[3] = r /\ f[4] = "admin")
      /\ Cardinality({l \in logins : r \in UsableBy(F, l) \ {l}}) <= 1
      /\ <<"public", "USAGE">> \in Held(F, r)

RlsCatalog(F, cs) ==
  /\ \A t \in ManagedTables[cs] : <<"rls", "-", t, "-">> \in F
  /\ {f \in Facts(F, "policy") : f[3] \in ManagedTables[cs]} = UNION {Policies[c] : c \in cs}

RoleGrants(F, cs) ==
  \A c \in cs : /\ On(Held(F, CapabilityRole[c]), ManagedTables[cs]) = TableContract[c]
                /\ "graph" \in cs => On(Held(F, CapabilityRole[c]), Sequences[{"graph"}]) = SequenceContract[c]

(* Credentials: no privilege of PUBLIC, no sequence, no trigger.           *)
AuthPosture(F) ==
  /\ ~\E f \in Facts(F, "grant") : f[2] = "PUBLIC" /\ f[3] = "user_credentials"
  /\ On(Held(F, CapabilityRole["auth"]), Sequences[{"auth"}]) = {}
  /\ Facts(F, "trigger") = {}

Shaped(F, t) == <<"shape", "-", t, "-">> \in F
Schema(F, cs) == \A t \in ManagedTables[cs] : <<"table", "-", t, "-">> \in F /\ Shaped(F, t)

(* No role that the login can assume, itself included, is elevated, owns   *)
(* what it uses, or reaches what is foreign to it.                         *)
Restricted(F, l, cs) ==
  \A r \in Assumable(F, l) :
    /\ ~Elevated(F, r) /\ ~Reaches(F, r, Foreign(cs)) /\ ~CallsReject(F, r)
    /\ ~Owns(F, r, IF cs = {"auth"} THEN Objects \ {RejectMutation}
                   ELSE Relations[cs] \cup {"public"})
    /\ cs = {"auth"} => On(Held(F, r), Relations[{"auth"}]) \subseteq TableContract["auth"]

Memberships(F, l, cs) == Assumable(F, l) \ {l} = {CapabilityRole[c] : c \in cs}

LoginGrants(F, l, cs) ==
  /\ On(Held(F, l), ManagedTables[cs]) = UNION {TableContract[c] : c \in cs}
  /\ "graph" \in cs => On(Held(F, l), Sequences[{"graph"}]) = SequenceContract["graph"]

(* The queries in order: runtime compatibility of one component, and the   *)
(* authority of a login with the components it serves.                     *)
CompatibilityQueries(c) == IF c = "auth" THEN <<"schema", "roles", "grants", "rls", "posture">>
                           ELSE <<"schema", "roles", "rls", "grants">>
AuthorityQueries(cs) == IF cs = {"auth"} THEN <<"restricted", "memberships", "login", "roles", "grants", "rls", "posture">>
                        ELSE <<"restricted", "memberships", "roles", "rls", "grants", "login">>
Holds(q, F, l, cs) ==
  CASE q = "schema" -> Schema(F, cs)
    [] q = "roles" -> \A c \in cs : SafeRole(F, c, cs)
    [] q = "rls" -> RlsCatalog(F, cs)
    [] q = "grants" -> RoleGrants(F, cs)
    [] q = "posture" -> AuthPosture(F)
    [] q = "restricted" -> Restricted(F, l, cs)
    [] q = "memberships" -> Memberships(F, l, cs)
    [] OTHER -> LoginGrants(F, l, cs)

-------------------------------------------------------------------------------
(* What the ledger provisions for the components cs, whose logins are      *)
(* login[c], the owner being a role that runs no application.              *)
RoleFacts(c, l) ==
  {<<"attribute", l, "login", "-">>, <<"grant", CapabilityRole[c], "public", "USAGE">>,
   <<"member", l, CapabilityRole[c], "inherit">>, <<"member", l, CapabilityRole[c], "set">>}
TableFacts(t, owner) ==
  {<<"table", "-", t, "-">>, <<"shape", "-", t, "-">>, <<"rls", "-", t, "-">>, <<"owner", owner, t, "-">>}
ObjectFacts(c, owner) ==
  {<<"owner", owner, s, "-">> : s \in SequenceOf[c]} \cup UNION {TableFacts(t, owner) : t \in Tables[c]}
GrantFacts(c) ==
  {<<"grant", CapabilityRole[c], x[1], x[2]>> :
     x \in SequenceContract[c] \cup UNION {{t} \X (Commands(c, t) \cup LockColumn(t)) : t \in Tables[c]}}
Provisioned(cs, login, owner) ==
  UNION {RoleFacts(c, login[c]) \cup ObjectFacts(c, owner) \cup GrantFacts(c) \cup Policies[c] : c \in cs}

(* A session of the login acts as itself or as a role it can SET ROLE to,  *)
(* and then has what that role inherits.                                   *)
SessionCan(F, l) == UNION {Held(F, a) : a \in Settable(F, l) \cup {l}}
Contract(cs) == UNION {TableContract[c] \cup SequenceContract[c] : c \in cs}
===============================================================================
