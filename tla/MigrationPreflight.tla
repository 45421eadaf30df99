--------------------------- MODULE MigrationPreflight ---------------------------
(***************************************************************************)
(* The read-only preflight of a hosted database before one migration       *)
(* marker may be recorded there (scripts/postgresql_preflight.py over      *)
(* scripts/postgresql_drift.py).  One run checks its permit and the        *)
(* repository's head, resolves the one hosted target the permit names,     *)
(* proves through every route that the database there is that target, and  *)
(* then evaluates five checks: migration history, managed catalog, runtime *)
(* compatibility, runtime authority and, only after all those passed, the  *)
(* parity of the local and the remote migrations.                          *)
(*                                                                         *)
(* Nothing holds the database still: history and catalog are separate      *)
(* statements of a READ COMMITTED transaction, and every other check opens *)
(* connections of its own.  Administrators, the provider and other         *)
(* operators work on the database, and the repository moves, meanwhile.    *)
(***************************************************************************)
EXTENDS RuntimeAuthority

CONSTANTS
  Manifest,       \* the ratified manifest
  Permits,        \* [protected, approved, head, manifest, profile, lineage, id, marker, digest]
  Heads,          \* commits the worktree may be at, and "dirty"
  ProjectOf,      \* the hosted project each accepted route leads to
  Configs,        \* [document: target bindings, inspection: URL, runtime: URL of each component]
  LoginOf,        \* the login each URL carries
  Owner,          \* the role that owns the managed tables
  ProviderObjects, \* schemas and extensions of the provider
  Deviations,     \* facts administrators may add to or take from the catalog
  MaxChanges      \* bound: changes of the database, the permit and the repository

ASSUME PreflightAssumption ==
  /\ MaxChanges \in Nat /\ "dirty" \in Heads /\ Owner \in OtherRoles
  /\ DOMAIN Manifest.files \subseteq Files /\ GlobalOrder(Manifest)
  /\ \A k \in Configs : \A c \in Components : k.runtime[c] \in DOMAIN LoginOf /\ LoginOf[k.runtime[c]] \in Logins
  /\ \A f \in Deviations : f[1] \in Kinds /\ (f[1] = "member" => f[3] \in Roles)

VARIABLES
  head, expired,              \* the repository, and whether the permit's window has ended
  incarnation, applied, facts,\* the hosted database: its OID, recorded versions, catalog
  config, run,                \* the settings and the state of the run
  report,
  changes,
  lasting, met                \* history: deviations there all along, and at some time
vars == <<head, expired, incarnation, applied, facts, config, run, report, changes, lasting, met>>

NotEvaluated == "not_evaluated"
Unchecked == [history |-> NotEvaluated, catalog |-> NotEvaluated, runtime |-> NotEvaluated,
              authority |-> NotEvaluated, parity |-> NotEvaluated]
NoPermit == [approved |-> FALSE]
Idle == [pc |-> "idle", permit |-> NoPermit, connected |-> 0, todo |-> <<>>, checks |-> Unchecked,
         failed |-> {}]
NoReport == [status |-> "none", checks |-> Unchecked]

-------------------------------------------------------------------------------
(* Not a link, its owner's alone, and strict JSON.                         *)
PermitReadable(p) == p.protected

(* The permit: approved, within its window, and bound to this manifest and *)
(* to one marker of its profile.                                           *)
DigestOf(profile) == profile
PermitValid(p) ==
  /\ PermitReadable(p) /\ p.approved /\ ~expired
  /\ p.profile \in Profiles /\ p.lineage = "hosted-legacy-v1"
  /\ p.manifest = Manifest /\ p.digest = DigestOf(p.profile)
  /\ \E f \in Ledger(Manifest, p.profile) : f.time = p.marker

(* The one target whose fingerprint the permit carries, seen through the   *)
(* inspection route.                                                       *)
RouteValid(u) == u \in DOMAIN ProjectOf
BoundTo(p) == {c \in DOMAIN config.document.targets : Binding(config.document, c).id = p.id}
TargetVerified(p, inspection) ==
  LET urls == [c \in BoundTo(p) |-> inspection]
      plan == PlanFor(config.document, urls)
  IN  /\ BoundTo(p) /= {} /\ Plannable(config.document, Manifest, urls)
      /\ Len(plan) = 1
      /\ plan[1].profile = p.profile /\ plan[1].lineage = p.lineage
      /\ plan[1].class = "hosted" /\ plan[1].id = p.id

Routes(p) == {config.runtime[c] : c \in ProfileComponents(p.profile)}
(* The database a route leads to now.                                      *)
Identity(u) == <<ProjectOf[u], incarnation>>

(* Receipts of the provider, and the markers before the permitted one.     *)
ExpectedHistory(p) ==
  ReceiptTimes \cup {f.time : f \in {f \in Ledger(Manifest, p.profile) : f.time < p.marker}}

-------------------------------------------------------------------------------
(* The managed catalog of a profile.  An object of neither the profile nor *)
(* the provider makes the scope unknown.                                   *)
Component(t) == CHOOSE c \in Components : t \in Tables[c] \cup SequenceOf[c]
Managed(f, cs) == f[3] \in Relations[cs]
Unknown(F, cs) ==
  \/ \E f \in Facts(F, "object") : f[3] \notin ProviderObjects
  \/ \E f \in F : f[1] \in {"table", "policy", "trigger"} /\ ~Managed(f, cs)

(* Owners are compared with one another and not by name, and of the        *)
(* sequences only the privileges; members and attributes of roles are not  *)
(* part of it.                                                             *)
Owners(F, cs) == {f[2] : f \in {f \in Facts(F, "owner") : f[3] \in ManagedTables[cs]}}
Portable(F, cs) == {f \in F : f[1] \in {"table", "shape", "rls", "policy", "trigger"} /\ Managed(f, cs)}
Privileges(F, cs) == {f \in Facts(F, "grant") : \/ Managed(f, cs) \/ f[3] = "public"
                                                \/ f[3] = RejectMutation /\ "graph" \in cs}
NormalizedObjects(F, cs) == [objects |-> Portable(F, cs), oneOwner |-> Cardinality(Owners(F, cs)) = 1]
Normalized(F, cs) == [objects |-> Portable(F, cs), acl |-> Privileges(F, cs), oneOwner |-> Cardinality(Owners(F, cs)) = 1]
Conforming == [login \in [Components -> Logins] |-> [cs \in SUBSET Components |-> Provisioned(cs, login, Owner)]]
Login(c) == LoginOf[config.runtime[c]]
Expected(cs) == Conforming[[c \in Components |-> Login(c)]][cs]
CatalogState(F, cs) ==
  IF Unknown(F, cs) THEN NotEvaluated
  ELSE IF Normalized(F, cs) = Normalized(Expected(cs), cs) THEN "passed" ELSE "drift"

-------------------------------------------------------------------------------
(* The checks that open connections of their own, as a list of queries     *)
(* [check, query, login, components]: first every component through its    *)
(* own login, then every login with all it serves.                         *)
Compatibility(c) ==
  [i \in 1..Len(CompatibilityQueries(c)) |->
     [check |-> "runtime", query |-> CompatibilityQueries(c)[i], url |-> config.runtime[c], components |-> {c}]]
Authority(u, cs) ==
  [i \in 1..Len(AuthorityQueries(cs)) |->
     [check |-> "authority", query |-> AuthorityQueries(cs)[i], url |-> u, components |-> cs]]

Serves(u, cs) == {c \in cs : config.runtime[c] = u}
Served(c, cs) == IF c = "auth" THEN {"auth"} ELSE Serves(config.runtime[c], cs \ {"auth"})
CompatibilityTodo(cs) ==
  LET of(c) == IF c \in cs THEN Compatibility(c) ELSE <<>>
  IN  of("auth") \o of("graph") \o of("coordination")
AuthorityTodo(cs) ==
  LET stores == cs \ {"auth"}
      first == IF "graph" \in stores THEN "graph" ELSE "coordination"
      of(c) == IF c \in cs THEN Authority(config.runtime[c], Served(c, cs)) ELSE <<>>
  IN  of("auth") \o of(first)
        \o (IF stores = {"graph", "coordination"} /\ config.runtime["graph"] /= config.runtime["coordination"]
            THEN of("coordination") ELSE <<>>)

-------------------------------------------------------------------------------
(* The public status: drift counts only when nothing of higher or the same *)
(* priority is unknown.                                                    *)
Priority == <<"history", "catalog", "runtime">>
SelectStatusMasking(checks) ==
  IF \E i \in 1..3 : checks[Priority[i]] = "drift" THEN "drift"
  ELSE IF \E i \in 1..3 : checks[Priority[i]] = NotEvaluated THEN "incomplete" ELSE "pass"
SelectStatus(checks) ==
  LET drifted == {i \in 1..3 : checks[Priority[i]] = "drift"}
      first == CHOOSE i \in drifted : \A j \in drifted : i <= j
      unknown(n) == \E i \in 1..n : checks[Priority[i]] = NotEvaluated
  IN  IF drifted /= {} THEN IF unknown(first) THEN "incomplete" ELSE "drift"
      ELSE IF unknown(3) THEN "incomplete" ELSE "pass"

ReportStatus(checks) ==
  LET Of(outcome) == IF outcome = NotEvaluated THEN "incomplete" ELSE IF outcome = "drift" THEN "drift" ELSE "pass"
  IN  IF SelectStatus(checks) /= "pass" THEN SelectStatus(checks)
      ELSE IF Of(checks.authority) /= "pass" THEN Of(checks.authority) ELSE Of(checks.parity)

-------------------------------------------------------------------------------
(* How the database deviates, for the properties.  What a role that cannot *)
(* log in is a member of matters only to the roles that can become it,     *)
(* unless it may grant a capability role.  A login of the settings that    *)
(* also serves components it is not verified with deviates by itself.      *)
Differing(S, T) == (S \ T) \cup (T \ S)
Idler(F, r) == <<"attribute", r, "login", "-">> \notin F /\ r \notin {CapabilityRole[c] : c \in Components}
Shared(cs) == {c \in cs : {d \in cs : Login(d) = Login(c)} /= Served(c, cs)}
Grants(f) == f[4] = "admin" /\ f[3] \in {CapabilityRole[c] : c \in Components}
Deviating(F, as, p) ==
  {f \in Differing(F, Expected(ProfileComponents(p.profile))) : ~(f[1] = "member" /\ Idler(F, f[2]) /\ ~Grants(f))}
    \cup {<<"applied", v>> : v \in Differing(as, ExpectedHistory(p))}
    \cup {<<"login", c>> : c \in Shared(ProfileComponents(p.profile))}
Note(p, F, as) == lasting' = lasting \cap Deviating(F, as, p) /\ met' = met \cup Deviating(F, as, p)

Init ==
  /\ head \in Heads /\ expired = FALSE
  /\ config \in Configs /\ run = Idle /\ report = NoReport
  /\ incarnation = 1 /\ changes = 0
  /\ \E p \in {q \in Permits : q.profile \in Profiles} :
       applied = ExpectedHistory(p) /\ facts = Expected(ProfileComponents(p.profile))
  /\ lasting = {} /\ met = {}

World == UNCHANGED <<head, expired, incarnation, applied, facts, config, changes>>
Fail == run' = Idle /\ report' = [NoReport EXCEPT !.status = "failed"] /\ UNCHANGED <<lasting, met>>
To(r) == run' = r /\ UNCHANGED <<report, lasting, met>>
Check(name, state) == [run.checks EXCEPT ![name] = state]

(* Manifest, permit, repository head, routes and target, in this order.    *)
Start ==
  /\ run.pc = "idle" /\ report = NoReport
  /\ \E p \in Permits :
       LET ok == /\ PermitValid(p) /\ head = p.head
                 /\ RouteValid(config.inspection) /\ TargetVerified(p, config.inspection)
                 /\ \A u \in Routes(p) : RouteValid(u)
       IN  \/ /\ ok
              /\ run' = [Idle EXCEPT !.pc = "connect", !.permit = p]
              /\ UNCHANGED report
              /\ lasting' = Deviating(facts, applied, p) /\ met' = Deviating(facts, applied, p)
           \/ ~ok /\ Fail
  /\ World

(* The inspection connection, bound to the database it reached.            *)
Connect ==
  /\ run.pc = "connect"
  /\ \/ /\ Identity(config.inspection) = run.permit.id
        /\ To([run EXCEPT !.pc = "prove", !.connected = incarnation])
     \/ Fail
  /\ World

(* Every runtime route once, through a connection that is closed again.    *)
ProveRoutes ==
  /\ run.pc = "prove"
  /\ \/ /\ \A u \in Routes(run.permit) : Identity(u) = run.permit.id
        /\ To([run EXCEPT !.pc = "history"])
     \/ Fail
  /\ World

(* One statement of the inspection connection; it fails when the database  *)
(* it was connected to is gone.                                            *)
InspectingFailureIsDrift(state) == IF run.connected = incarnation THEN {state, "drift"} ELSE {"drift"}
Inspecting(state) == IF run.connected = incarnation THEN {state, NotEvaluated} ELSE {NotEvaluated}
ReadHistory ==
  /\ run.pc = "history"
  /\ \E s \in Inspecting(IF applied = ExpectedHistory(run.permit) THEN "passed" ELSE "drift") :
       To([run EXCEPT !.pc = "catalog", !.checks = Check("history", s)])
  /\ World
ReadCatalog ==
  /\ run.pc = "catalog"
  /\ LET cs == ProfileComponents(run.permit.profile)
     IN  \E s \in Inspecting(CatalogState(facts, cs)) :
           To([run EXCEPT !.pc = "query", !.checks = Check("catalog", s),
                          !.todo = CompatibilityTodo(cs)])
  /\ World

(* One query of the runtime checks.  The first that fails ends its check;  *)
(* after the compatibility of all components comes the authority of all    *)
(* logins, whatever the outcome so far.  A query nobody answers leaves the *)
(* check of an account store not evaluated, as does an engine that cannot  *)
(* be made or disposed of; the graph and the coordination store turn every *)
(* exception of their queries into an incompatible schema, which is drift  *)
(* (`failed` notes, for the properties, which checks ended like that).     *)
AfterCheck(r) ==
  IF Head(run.todo).check = "runtime"
  THEN [r EXCEPT !.todo = AuthorityTodo(ProfileComponents(run.permit.profile))]
  ELSE [r EXCEPT !.todo = <<>>, !.pc = "gate"]
Query ==
  /\ run.pc = "query"
  /\ LET q == Head(run.todo)
         holds == Holds(q.query, facts, LoginOf[q.url], q.components)
         last == Len(run.todo) = 1 \/ run.todo[2].check /= q.check
     IN  \/ /\ holds
            /\ To(IF last THEN AfterCheck([run EXCEPT !.checks = Check(q.check, "passed")])
                  ELSE [run EXCEPT !.todo = Tail(@)])
         \/ ~holds /\ To(AfterCheck([run EXCEPT !.checks = Check(q.check, "drift")]))
         \/ To(AfterCheck(run))
         \/ /\ q.components /= {"auth"}
            /\ To(AfterCheck([run EXCEPT !.checks = Check(q.check, "drift"), !.failed = @ \cup {q.check}]))
  /\ World

(* Parity is only evaluated when everything else passed, at the permitted  *)
(* head.                                                                   *)
GateParityLax ==
  /\ run.pc = "gate"
  /\ To([run EXCEPT !.pc = IF head = run.permit.head THEN "parity" ELSE "report"])
  /\ World
GateParity ==
  /\ run.pc = "gate"
  /\ LET passed == SelectStatus(run.checks) = "pass" /\ run.checks.authority = "passed"
     IN  \/ ~passed /\ To([run EXCEPT !.pc = "report"])
         \/ passed /\ head = run.permit.head /\ To([run EXCEPT !.pc = "parity"])
         \/ passed /\ head /= run.permit.head /\ Fail
  /\ World

(* The pinned command line tool lists the remote versions beside the one   *)
(* migration of its disposable project.                                    *)
Parity ==
  /\ run.pc = "parity"
  /\ \E s \in {NotEvaluated, IF /\ applied = ExpectedHistory(run.permit)
                                /\ run.permit.marker \notin applied THEN "passed" ELSE "drift"} :
       To([run EXCEPT !.pc = "report", !.checks = Check("parity", s)])
  /\ World

Report ==
  /\ run.pc = "report"
  /\ \/ /\ head = run.permit.head
        /\ report' = [status |-> ReportStatus(run.checks), checks |-> run.checks]
        /\ run' = [run EXCEPT !.pc = "done"] /\ UNCHANGED <<lasting, met>>
     \/ head /= run.permit.head /\ Fail
  /\ World

-------------------------------------------------------------------------------
(* What happens until the report.  A recreated database is restored from a *)
(* backup as it was.                                                       *)
Change == report = NoReport /\ changes < MaxChanges /\ changes' = changes + 1 /\ UNCHANGED <<config, run, report>>
Noted == IF run.pc = "idle" THEN UNCHANGED <<lasting, met>> ELSE Note(run.permit, facts', applied')
MoveHead == Change /\ \E h \in Heads \ {head} : head' = h
            /\ UNCHANGED <<expired, incarnation, applied, facts, lasting, met>>
PermitExpires == Change /\ ~expired /\ expired' = TRUE
                 /\ UNCHANGED <<head, incarnation, applied, facts, lasting, met>>
RecordVersion == Change /\ \E v \in {f.time : f \in DOMAIN Manifest.files} \ applied : applied' = applied \cup {v}
                 /\ UNCHANGED <<head, expired, incarnation, facts>> /\ Noted
(* An object has one owner.                                                *)
Toggled(f) ==
  CASE f[1] = "owner" -> {g \in facts : g[1] /= "owner" \/ g[3] /= f[3]}
                           \cup {IF f \in facts THEN <<"owner", Owner, f[3], "-">> ELSE f}
    [] f[1] /= "owner" /\ f \in facts -> facts \ {f}
    [] OTHER -> facts \cup {f}
Exists(t) == t \in ManagedTables[Components] => <<"table", "-", t, "-">> \in facts
Administer == Change /\ \E f \in {f \in Deviations : Exists(f[3])} : facts' = Toggled(f)
              /\ UNCHANGED <<head, expired, incarnation, applied>> /\ Noted
Recreate == Change /\ incarnation = 1 /\ incarnation' = 2
            /\ UNCHANGED <<head, expired, applied, facts, lasting, met>>

Next == \/ Start \/ Connect \/ ProveRoutes \/ ReadHistory \/ ReadCatalog \/ Query \/ GateParity \/ Parity \/ Report
        \/ MoveHead \/ PermitExpires \/ RecordVersion \/ Administer \/ Recreate
Spec == Init /\ [][Next]_vars

-------------------------------------------------------------------------------
(* The shape of the state.                                                 *)
Outcome == {NotEvaluated, "passed", "drift"}
Checks == [history : Outcome, catalog : Outcome, runtime : Outcome, authority : Outcome, parity : Outcome]
Queries == {"schema", "roles", "rls", "grants", "posture", "restricted", "memberships", "login"}
Task == [check : {"runtime", "authority"}, query : Queries,
         url : DOMAIN LoginOf, components : SUBSET Components]
PreflightTypeOK ==
  /\ head \in Heads /\ expired \in BOOLEAN /\ incarnation \in 1..2 /\ changes \in 0..MaxChanges
  /\ config \in Configs /\ \A f \in Facts(facts, "member") : f[3] \in Roles
  /\ run \in [pc : {"idle", "connect", "prove", "history", "catalog", "query", "gate", "parity", "report", "done"},
              permit : Permits \cup {NoPermit}, connected : 0..2, todo : Seq(Task), checks : Checks,
              failed : SUBSET {"runtime", "authority"}]
  /\ run.pc /= "idle" => run.permit \in Permits /\ run.permit.profile \in Profiles
  /\ report \in [status : {"none", "failed", "pass", "incomplete", "drift"}, checks : Checks]

(* One check after the other: what is still to be queried belongs to one,  *)
(* and nothing is decided before its turn.                                 *)
InTurn ==
  /\ run.pc = "query" <=> run.todo /= <<>>
  /\ \A i, j \in 1..Len(run.todo) : run.todo[i].check = run.todo[j].check
  /\ run.pc \in {"catalog", "query"} => run.checks.authority = NotEvaluated
  /\ run.pc = "catalog" \/ (run.pc = "query" /\ run.todo[1].check = "runtime") => run.checks.runtime = NotEvaluated
  /\ run.pc \in {"connect", "prove", "history"} => run.checks = Unchecked
  /\ run.pc \notin {"parity", "report", "done"} => run.checks.parity = NotEvaluated

(* Parity is only ever evaluated, and reported, after everything else      *)
(* passed; and a report says what its checks add up to.                    *)
BeforeParity(checks) == \A c \in {"history", "catalog", "runtime", "authority"} : checks[c] = "passed"
ParityLast ==
  /\ run.pc = "parity" \/ run.checks.parity /= NotEvaluated => BeforeParity(run.checks)
  /\ report.checks.parity /= NotEvaluated => BeforeParity(report.checks)
  /\ report.status \notin {"none", "failed"} => report.status = ReportStatus(report.checks)

PreflightInvariant == PreflightTypeOK /\ InTurn /\ ParityLast

(* A pass is honest although nothing holds the database still: whatever    *)
(* deviated from the start of the run to its end, in the history, in the   *)
(* managed catalog or in what the logins may do, was found.                *)
PassIsHonest == report.status = "pass" => lasting = {}

(* A drift has a cause: a check reports drift only when the database       *)
(* deviated at some moment of the run or a query of the graph or of the    *)
(* coordination store had no answer within that check (nothing else that   *)
(* fails is ever taken for drift: not the inspection connection, an account*)
(* store, or the command line tool), and nothing of a higher priority than *)
(* the drift was left unknown.                                             *)
Order == <<"history", "catalog", "runtime", "authority", "parity">>
DriftMasksNothing ==
  report.status = "drift" =>
    \E first \in 1..5 : /\ report.checks[Order[first]] = "drift"
                        /\ \A i \in 1..(first - 1) : report.checks[Order[i]] = "passed"
Drifts(checks, failed) ==
  \E name \in {"history", "catalog", "runtime", "authority", "parity"} :
    checks[name] = "drift" /\ name \notin failed
DriftIsProven == DriftMasksNothing /\ (Drifts(report.checks, run.failed) => met /= {})

(* The queries of the verification say what they are meant to: on any      *)
(* catalog a run may start on that passes them, what a session of each     *)
(* login can do to the relations of its components and to what is foreign  *)
(* to them is the capability contract, and no role it can assume is        *)
(* elevated.                                                               *)
Accepted(c, own, l) ==
  LET todo == Compatibility(c) \o Authority(config.runtime[c], own)
  IN  \A i \in 1..Len(todo) : Holds(todo[i].query, facts, l, todo[i].components)
Exact(own, l) == /\ On(SessionCan(facts, l), Relations[own \cup Foreign(own)]) = Contract(own)
                 /\ \A r \in Assumable(facts, l) : ~Elevated(facts, r)
AuthorityIsExact ==
  run.pc = "idle" /\ report = NoReport =>
    \A p \in {p \in Permits : facts /= {} /\ PermitValid(p)} :
      \A c \in ProfileComponents(p.profile) :
        LET own == Served(c, ProfileComponents(p.profile))
        IN  Accepted(c, own, Login(c)) => Exact(own, Login(c))
===============================================================================
