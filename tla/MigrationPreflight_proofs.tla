------------------------- MODULE MigrationPreflight_proofs -------------------------
(***************************************************************************)
(* What the preflight of a hosted database guarantees for any roles,       *)
(* logins, permits, settings and changes of the catalog meanwhile, and     *)
(* what the queries of the runtime authority contract say of a catalog     *)
(* that passes them.                                                       *)
(***************************************************************************)
EXTENDS MigrationPreflight, FiniteSetTheorems, WellFoundedInduction, SequenceTheorems, TLAPS

(* What a role can become: the smallest set of roles that contains it and  *)
(* is closed under the memberships.                                        *)

LEMMA GrowthExists ==
    ASSUME NEW edges, \A e \in edges : e[2] \in Roles
    PROVE  \E g : g = [S \in SUBSET Roles |-> IF Beyond(edges, S) = {} THEN S ELSE g[S \cup Beyond(edges, S)]]
<1>. DEFINE g == [S \in SUBSET Roles |->
                    {x \in Roles : \A T \in SUBSET Roles : S \subseteq T /\ Beyond(edges, T) = {} => x \in T}]
<1>1. ASSUME NEW S \in SUBSET Roles PROVE S \cup Beyond(edges, S) \in SUBSET Roles
  BY DEF Beyond
<1>2. ASSUME NEW S \in SUBSET Roles, Beyond(edges, S) = {} PROVE g[S] = S
  BY <1>2
<1>3. ASSUME NEW S \in SUBSET Roles PROVE g[S] = g[S \cup Beyond(edges, S)]
  <2>1. ASSUME NEW T \in SUBSET Roles, Beyond(edges, T) = {}, S \subseteq T PROVE Beyond(edges, S) \subseteq T
    BY <2>1 DEF Beyond
  <2>. QED BY <1>1, <2>1
<1>4. \A S \in SUBSET Roles : g[S] = IF Beyond(edges, S) = {} THEN S ELSE g[S \cup Beyond(edges, S)]
  BY <1>2, <1>3
<1>5. g = [S \in SUBSET Roles |-> IF Beyond(edges, S) = {} THEN S ELSE g[S \cup Beyond(edges, S)]]
  BY <1>4
<1>. HIDE DEF g
<1>. QED BY <1>5

LEMMA RolesFinite == IsFiniteSet(Roles)
<1>1. {CapabilityRole[c] : c \in Components}
        = ({CapabilityRole["auth"]} \cup {CapabilityRole["graph"]}) \cup {CapabilityRole["coordination"]}
  BY DEF Components
<1>. DEFINE a == CapabilityRole["auth"]
            g == CapabilityRole["graph"]
            k == CapabilityRole["coordination"]
<1>. HIDE DEF a, g, k
<1>2. IsFiniteSet({a})
  BY FS_Singleton
<1>3. IsFiniteSet({a} \cup {g})
  BY <1>2, FS_AddElement
<1>4. IsFiniteSet(({a} \cup {g}) \cup {k})
  BY <1>3, FS_AddElement
<1>5. IsFiniteSet({CapabilityRole[c] : c \in Components})
  BY <1>1, <1>4 DEF a, g, k
<1>6. IsFiniteSet(Logins \cup OtherRoles)
  BY RoleAssumption, FS_Union
<1>. QED BY <1>5, <1>6, FS_Union DEF Roles

LeastClosed(edges, S, C) ==
    /\ S \subseteq C /\ C \subseteq Roles /\ Beyond(edges, C) = {}
    /\ \A T \in SUBSET Roles : S \subseteq T /\ Beyond(edges, T) = {} => C \subseteq T

LEMMA ClosureIs ==
    ASSUME NEW edges, \A e \in edges : e[2] \in Roles, NEW r \in Roles
    PROVE  LeastClosed(edges, {r}, Closure(edges, r))
<1>. DEFINE grow == CHOOSE g : g = [S \in SUBSET Roles |-> IF Beyond(edges, S) = {} THEN S ELSE g[S \cup Beyond(edges, S)]]
            Left(S) == Roles \ S
            Bad == {C \in SUBSET Roles : ~LeastClosed(edges, Left(C), grow[Left(C)])}
<1>1. Closure(edges, r) = grow[{r}]
  BY DEF Closure
<1>2. grow = [S \in SUBSET Roles |-> IF Beyond(edges, S) = {} THEN S ELSE grow[S \cup Beyond(edges, S)]]
  BY GrowthExists
<1>. HIDE DEF grow
<1>3. \A S \in SUBSET Roles : grow[S] = IF Beyond(edges, S) = {} THEN S ELSE grow[S \cup Beyond(edges, S)]
  BY <1>2
<1>4. ASSUME NEW C \in Bad PROVE \E D \in Bad : D \subseteq C /\ D # C
  <2>. DEFINE S == Left(C)
              T == S \cup Beyond(edges, S)
              D == Left(T)
  <2>1. C \in SUBSET Roles /\ S \in SUBSET Roles /\ T \in SUBSET Roles /\ D \in SUBSET Roles /\ Left(D) = T
    BY DEF Beyond
  <2>2. ~LeastClosed(edges, S, grow[S])
    OBVIOUS
  <2>3. Beyond(edges, S) # {}
    <3>. SUFFICES ASSUME Beyond(edges, S) = {} PROVE FALSE
      OBVIOUS
    <3>1. grow[S] = S
      BY <1>3, <2>1
    <3>. QED BY <2>1, <2>2, <3>1 DEF LeastClosed
  <2>4. D \subseteq C /\ D # C
    BY <2>1, <2>3 DEF Beyond
  <2>5. grow[S] = grow[T]
    BY <1>3, <2>1, <2>3
  <2>6. ASSUME NEW U \in SUBSET Roles, S \subseteq U, Beyond(edges, U) = {} PROVE T \subseteq U
    BY <2>6 DEF Beyond
  <2>7. ~LeastClosed(edges, T, grow[T])
    <3>. SUFFICES ASSUME LeastClosed(edges, T, grow[T]) PROVE FALSE
      OBVIOUS
    <3>. HIDE DEF S
    <3>1. LeastClosed(edges, S, grow[T])
      BY <2>6 DEF LeastClosed
    <3>. QED BY <2>2, <2>5, <3>1
  <2>. QED BY <2>1, <2>4, <2>7
<1>5. Bad = {}
  <2>. SUFFICES ASSUME Bad # {} PROVE FALSE
    OBVIOUS
  <2>1. Bad \subseteq SUBSET Roles /\ Bad \subseteq FiniteSubsetsOf(Roles)
    BY RolesFinite, FS_Subset DEF FiniteSubsetsOf
  <2>. HIDE DEF Bad
  <2>2. PICK C \in Bad : \A D \in Bad : <<D, C>> \notin StrictSubsetOrdering(Roles)
    BY <2>1, FS_StrictSubsetOrderingWellFounded, WFMin
  <2>3. PICK D \in Bad : D \subseteq C /\ D # C
    BY <1>4
  <2>. QED BY <2>1, <2>2, <2>3 DEF StrictSubsetOrdering
<1>6. Left(Roles \ {r}) = {r}
  OBVIOUS
<1>7. LeastClosed(edges, Left(Roles \ {r}), grow[Left(Roles \ {r})])
  BY <1>5
<1>. HIDE DEF Left, Bad
<1>. QED BY <1>1, <1>6, <1>7

-----------------------------------------------------------------------------
(* The lists of queries. *)

OneKind(s, kind) == s \in Seq(Task) /\ \A i \in 1..Len(s) : s[i].check = kind

LEMMA Joined ==
    ASSUME NEW kind, NEW s, NEW t, OneKind(s, kind), OneKind(t, kind)
    PROVE  /\ OneKind(s \o t, kind)
           /\ s # <<>> \/ t # <<>> => s \o t # <<>>
<1>1. /\ s \o t \in Seq(Task) /\ Len(s) \in Nat /\ Len(t) \in Nat /\ Len(s \o t) = Len(s) + Len(t)
      /\ \A i \in 1..(Len(s) + Len(t)) : (s \o t)[i] = IF i <= Len(s) THEN s[i] ELSE t[i - Len(s)]
  BY ConcatProperties, LenProperties DEF OneKind
<1>2. ASSUME NEW i \in 1..Len(s \o t) PROVE (s \o t)[i].check = kind
  <2>1. CASE i <= Len(s)
    BY <1>1, <2>1 DEF OneKind
  <2>2. CASE ~(i <= Len(s))
    <3>1. i - Len(s) \in 1..Len(t) /\ (s \o t)[i] = t[i - Len(s)]
      BY <1>1, <2>2
    <3>. QED BY <3>1 DEF OneKind
  <2>. QED BY <2>1, <2>2
<1>3. s # <<>> \/ t # <<>> => Len(s \o t) # 0
  <2>1. (s # <<>> => Len(s) # 0) /\ (t # <<>> => Len(t) # 0)
    BY EmptySeq DEF OneKind
  <2>. QED BY <1>1, <2>1
<1>. QED BY <1>1, <1>2, <1>3 DEF OneKind

LEMMA NoQuery == ASSUME NEW kind PROVE OneKind(<<>>, kind)
  BY DEF OneKind

LEMMA Listed ==
    /\ \A c \in Components : /\ CompatibilityQueries(c) \in Seq(Queries)
                            /\ Len(CompatibilityQueries(c)) \in Nat \ {0}
    /\ \A cs \in SUBSET Components : /\ AuthorityQueries(cs) \in Seq(Queries)
                                    /\ Len(AuthorityQueries(cs)) \in Nat \ {0}
<1>1. /\ <<"schema", "roles", "grants", "rls", "posture">> \in Seq(Queries)
      /\ Len(<<"schema", "roles", "grants", "rls", "posture">>) = 5
      /\ <<"schema", "roles", "rls", "grants">> \in Seq(Queries)
      /\ Len(<<"schema", "roles", "rls", "grants">>) = 4
  BY DEF Queries
<1>2. /\ <<"restricted", "memberships", "login", "roles", "grants", "rls", "posture">> \in Seq(Queries)
      /\ Len(<<"restricted", "memberships", "login", "roles", "grants", "rls", "posture">>) = 7
      /\ <<"restricted", "memberships", "roles", "rls", "grants", "login">> \in Seq(Queries)
      /\ Len(<<"restricted", "memberships", "roles", "rls", "grants", "login">>) = 6
  BY DEF Queries
<1>3. ASSUME NEW c \in Components
      PROVE  CompatibilityQueries(c) \in Seq(Queries) /\ Len(CompatibilityQueries(c)) \in {4, 5}
  <2>1. CASE c = "auth"
    BY <1>1, <2>1 DEF CompatibilityQueries
  <2>2. CASE c # "auth"
    BY <1>1, <2>2 DEF CompatibilityQueries
  <2>. QED BY <2>1, <2>2
<1>4. ASSUME NEW cs \in SUBSET Components
      PROVE  AuthorityQueries(cs) \in Seq(Queries) /\ Len(AuthorityQueries(cs)) \in {6, 7}
  <2>1. CASE cs = {"auth"}
    BY <1>2, <2>1 DEF AuthorityQueries
  <2>2. CASE cs # {"auth"}
    BY <1>2, <2>2 DEF AuthorityQueries
  <2>. QED BY <2>1, <2>2
<1>5. {4, 5} \subseteq Nat \ {0} /\ {6, 7} \subseteq Nat \ {0}
  OBVIOUS
<1>. QED BY <1>3, <1>4, <1>5

LEMMA CompatibilityList ==
    ASSUME config \in Configs, NEW c \in Components
    PROVE  OneKind(Compatibility(c), "runtime") /\ Compatibility(c) # <<>>
<1>. DEFINE qs == CompatibilityQueries(c)
<1>1. qs \in Seq(Queries) /\ Len(qs) \in Nat \ {0}
  BY Listed
<1>. HIDE DEF qs
<1>2. config.runtime[c] \in DOMAIN LoginOf
  BY PreflightAssumption
<1>3. \A i \in 1..Len(qs) : qs[i] \in Queries
  BY <1>1
<1>4. Compatibility(c) = [i \in 1..Len(qs) |-> [check |-> "runtime", query |-> qs[i], url |-> config.runtime[c], components |-> {c}]]
  BY DEF Compatibility, qs
<1>5. \A i \in 1..Len(qs) : Compatibility(c)[i] \in Task /\ Compatibility(c)[i].check = "runtime"
  BY <1>2, <1>3, <1>4 DEF Task
<1>6. Compatibility(c) \in Seq(Task) /\ Len(Compatibility(c)) = Len(qs)
  BY <1>1, <1>4, <1>5
<1>. QED BY <1>1, <1>5, <1>6 DEF OneKind

LEMMA AuthorityList ==
    ASSUME NEW u \in DOMAIN LoginOf, NEW cs \in SUBSET Components
    PROVE  OneKind(Authority(u, cs), "authority") /\ Authority(u, cs) # <<>>
<1>. DEFINE qs == AuthorityQueries(cs)
<1>1. qs \in Seq(Queries) /\ Len(qs) \in Nat \ {0}
  BY Listed
<1>. HIDE DEF qs
<1>3. \A i \in 1..Len(qs) : qs[i] \in Queries
  BY <1>1
<1>4. Authority(u, cs) = [i \in 1..Len(qs) |-> [check |-> "authority", query |-> qs[i], url |-> u, components |-> cs]]
  BY DEF Authority, qs
<1>5. \A i \in 1..Len(qs) : Authority(u, cs)[i] \in Task /\ Authority(u, cs)[i].check = "authority"
  BY <1>3, <1>4 DEF Task
<1>6. Authority(u, cs) \in Seq(Task) /\ Len(Authority(u, cs)) = Len(qs)
  BY <1>1, <1>4, <1>5
<1>. QED BY <1>1, <1>5, <1>6 DEF OneKind

LEMMA CompatibilityPlan ==
    ASSUME config \in Configs, NEW cs \in SUBSET Components, cs # {}
    PROVE  OneKind(CompatibilityTodo(cs), "runtime") /\ CompatibilityTodo(cs) # <<>>
<1>. DEFINE of(c) == IF c \in cs THEN Compatibility(c) ELSE <<>>
<1>1. \A c \in Components : OneKind(of(c), "runtime") /\ (c \in cs => of(c) # <<>>)
  BY CompatibilityList, NoQuery
<1>2. CompatibilityTodo(cs) = (of("auth") \o of("graph")) \o of("coordination")
  BY DEF CompatibilityTodo
<1>. HIDE DEF of
<1>3. OneKind(of("auth"), "runtime") /\ OneKind(of("graph"), "runtime") /\ OneKind(of("coordination"), "runtime")
  BY <1>1 DEF Components
<1>4. \/ of("auth") # <<>> \/ of("graph") # <<>> \/ of("coordination") # <<>>
  BY <1>1 DEF Components
<1>5. /\ OneKind(of("auth") \o of("graph"), "runtime")
      /\ of("auth") # <<>> \/ of("graph") # <<>> => of("auth") \o of("graph") # <<>>
  BY <1>3, Joined
<1>6. /\ OneKind((of("auth") \o of("graph")) \o of("coordination"), "runtime")
      /\ of("auth") \o of("graph") # <<>> \/ of("coordination") # <<>>
           => (of("auth") \o of("graph")) \o of("coordination") # <<>>
  BY <1>3, <1>5, Joined
<1>. QED BY <1>2, <1>4, <1>5, <1>6

LEMMA AuthorityPlan ==
    ASSUME config \in Configs, NEW cs \in SUBSET Components, cs # {}
    PROVE  OneKind(AuthorityTodo(cs), "authority") /\ AuthorityTodo(cs) # <<>>
<1>. DEFINE stores == cs \ {"auth"}
            first == IF "graph" \in stores THEN "graph" ELSE "coordination"
            of(c) == IF c \in cs THEN Authority(config.runtime[c], Served(c, cs)) ELSE <<>>
            three == IF stores = {"graph", "coordination"} /\ config.runtime["graph"] # config.runtime["coordination"]
                     THEN of("coordination") ELSE <<>>
<1>0. \A c \in Components : config.runtime[c] \in DOMAIN LoginOf /\ Served(c, cs) \in SUBSET Components
  BY PreflightAssumption DEF Served, Serves
<1>1. \A c \in Components : OneKind(of(c), "authority") /\ (c \in cs => of(c) # <<>>)
  BY <1>0, AuthorityList, NoQuery
<1>3. AuthorityTodo(cs) = (of("auth") \o of(first)) \o three
  BY DEF AuthorityTodo
<1>4. first \in Components /\ "auth" \in Components /\ "coordination" \in Components
  BY DEF Components
<1>5. "auth" \in cs \/ first \in cs
  BY DEF Components
<1>. HIDE DEF of, first, stores
<1>6. OneKind(three, "authority") /\ OneKind(of(first), "authority") /\ OneKind(of("auth"), "authority")
  BY <1>1, <1>4, NoQuery
<1>7. of("auth") # <<>> \/ of(first) # <<>>
  BY <1>1, <1>4, <1>5
<1>. HIDE DEF three
<1>8. OneKind(of("auth") \o of(first), "authority") /\ of("auth") \o of(first) # <<>>
  BY <1>6, <1>7, Joined
<1>9. OneKind((of("auth") \o of(first)) \o three, "authority") /\ (of("auth") \o of(first)) \o three # <<>>
  BY <1>6, <1>8, Joined
<1>. QED BY <1>3, <1>9

-----------------------------------------------------------------------------
(* What the checks add up to. *)

LEMMA Priorities ==
    ASSUME NEW checks \in Checks
    PROVE  /\ checks[Priority[1]] = checks.history /\ checks[Priority[2]] = checks.catalog
           /\ checks[Priority[3]] = checks.runtime
           /\ checks.history \in Outcome /\ checks.catalog \in Outcome /\ checks.runtime \in Outcome
           /\ checks.authority \in Outcome /\ checks.parity \in Outcome
  BY DEF Priority, Checks

(* A drift is shown only if everything of a higher priority passed. *)
Shows(checks) ==
    \/ checks.history = "drift"
    \/ checks.history = "passed" /\ checks.catalog = "drift"
    \/ checks.history = "passed" /\ checks.catalog = "passed" /\ checks.runtime = "drift"
AllPass(checks) == checks.history = "passed" /\ checks.catalog = "passed" /\ checks.runtime = "passed"

LEMMA Selected ==
    ASSUME NEW checks \in Checks
    PROVE  /\ SelectStatus(checks) \in {"pass", "drift", "incomplete"}
           /\ SelectStatus(checks) = "pass" => AllPass(checks)
           /\ SelectStatus(checks) = "drift" => Shows(checks)
<1>. DEFINE drifted == {i \in 1..3 : checks[Priority[i]] = "drift"}
            first == CHOOSE i \in drifted : \A j \in drifted : i <= j
            unknown(n) == \E i \in 1..n : checks[Priority[i]] = NotEvaluated
<1>1. SelectStatus(checks) = IF drifted # {} THEN IF unknown(first) THEN "incomplete" ELSE "drift"
                             ELSE IF unknown(3) THEN "incomplete" ELSE "pass"
  BY DEF SelectStatus
<1>2. \A i \in 1..3 : i = 1 \/ i = 2 \/ i = 3
  OBVIOUS
<1>3. drifted = {} /\ ~unknown(3) => AllPass(checks)
  BY Priorities DEF AllPass, Outcome
<1>4. ASSUME drifted # {}
      PROVE  first \in drifted /\ \A j \in drifted : first <= j
  <2>1. \E i \in drifted : \A j \in drifted : i <= j
    <3>1. CASE 1 \in drifted
      BY <3>1
    <3>2. CASE 1 \notin drifted /\ 2 \in drifted
      BY <3>2
    <3>3. CASE 1 \notin drifted /\ 2 \notin drifted
      BY <1>4, <3>3
    <3>. QED BY <3>1, <3>2, <3>3
  <2>. QED BY <2>1
<1>5. ASSUME drifted # {}, ~unknown(first) PROVE Shows(checks)
  <2>1. CASE first = 1
    BY <1>4, <1>5, <2>1, Priorities DEF Shows
  <2>2. CASE first = 2
    <3>1. 1 \notin drifted /\ 2 \in drifted /\ checks[Priority[1]] # NotEvaluated
      BY <1>4, <1>5, <2>2
    <3>. QED BY <3>1, Priorities DEF Shows, Outcome
  <2>3. CASE first = 3
    <3>1. 1 \notin drifted /\ 2 \notin drifted /\ 3 \in drifted
          /\ checks[Priority[1]] # NotEvaluated /\ checks[Priority[2]] # NotEvaluated
      BY <1>4, <1>5, <2>3
    <3>. QED BY <3>1, Priorities DEF Shows, Outcome
  <2>. QED BY <1>2, <1>4, <1>5, <2>1, <2>2, <2>3
<1>. HIDE DEF drifted, first, unknown
<1>. QED BY <1>1, <1>3, <1>5

LEMMA Reported ==
    ASSUME NEW checks \in Checks
    PROVE  /\ ReportStatus(checks) \in {"pass", "drift", "incomplete"}
           /\ ReportStatus(checks) = "drift" =>
                \/ Shows(checks)
                \/ AllPass(checks) /\ checks.authority = "drift"
                \/ AllPass(checks) /\ checks.authority = "passed" /\ checks.parity = "drift"
<1>1. checks.authority \in Outcome /\ checks.parity \in Outcome
  BY DEF Checks
<1>2. CASE SelectStatus(checks) # "pass"
  BY <1>2, Selected DEF ReportStatus
<1>3. CASE SelectStatus(checks) = "pass"
  <2>1. AllPass(checks)
    BY <1>3, Selected
  <2>. QED BY <1>1, <1>3, <2>1 DEF ReportStatus, Outcome
<1>. QED BY <1>2, <1>3

-----------------------------------------------------------------------------
(* The catalog: whoever is a member is a member of a role. *)

MembersOfRoles(F) == \A f \in Facts(F, "member") : f[3] \in Roles

LEMMA ProvisionedMembers ==
    ASSUME NEW cs \in SUBSET Components, NEW login \in [Components -> Logins]
    PROVE  MembersOfRoles(Provisioned(cs, login, Owner))
<1>. SUFFICES ASSUME NEW f \in Provisioned(cs, login, Owner), f[1] = "member" PROVE f[3] \in Roles
  BY DEF MembersOfRoles, Facts
<1>1. PICK c \in cs : f \in RoleFacts(c, login[c]) \cup ObjectFacts(c, Owner) \cup GrantFacts(c) \cup Policies[c]
  BY DEF Provisioned
<1>2. c \in Components
  OBVIOUS
<1>3. \A g \in Policies[c] : g[1] = "policy"
  BY <1>2 DEF Policies
<1>4. f \notin ObjectFacts(c, Owner)
  <2>1. \A t \in Tables[c] : f \notin TableFacts(t, Owner)
    BY DEF TableFacts
  <2>. QED BY <2>1 DEF ObjectFacts
<1>5. f \notin GrantFacts(c)
  BY DEF GrantFacts
<1>6. f \in RoleFacts(c, login[c])
  BY <1>1, <1>3, <1>4, <1>5
<1>7. f[3] = CapabilityRole[c]
  BY <1>6 DEF RoleFacts
<1>. QED BY <1>2, <1>7 DEF Roles

LEMMA ExpectedMembers ==
    ASSUME config \in Configs, NEW cs \in SUBSET Components
    PROVE  MembersOfRoles(Expected(cs))
<1>. DEFINE login == [c \in Components |-> Login(c)]
<1>1. login \in [Components -> Logins]
  BY PreflightAssumption DEF Login
<1>. HIDE DEF login
<1>2. Conforming[login][cs] = Provisioned(cs, login, Owner)
  BY <1>1 DEF Conforming
<1>3. Expected(cs) = Provisioned(cs, login, Owner)
  BY <1>2 DEF Expected, login
<1>. QED BY <1>1, <1>3, ProvisionedMembers

LEMMA ToggledMembers ==
    ASSUME MembersOfRoles(facts), NEW f \in Deviations
    PROVE  MembersOfRoles(Toggled(f))
<1>1. f[1] = "member" => f[3] \in Roles
  BY PreflightAssumption
<1>2. ASSUME NEW g \in Toggled(f), g[1] = "member" PROVE g \in facts \/ g = f
  <2>1. CASE f[1] = "owner"
    BY <1>2, <2>1 DEF Toggled
  <2>2. CASE f[1] # "owner" /\ f \in facts
    BY <1>2, <2>2 DEF Toggled
  <2>3. CASE f[1] # "owner" /\ f \notin facts
    BY <1>2, <2>3 DEF Toggled
  <2>. QED BY <2>1, <2>2, <2>3
<1>. QED BY <1>1, <1>2 DEF MembersOfRoles, Facts

-----------------------------------------------------------------------------
(* The invariant. *)

(* What a run is, once the world around it is left out. *)
RunFits(r) ==
    /\ r \in [pc : {"idle", "connect", "prove", "history", "catalog", "query", "gate", "parity", "report", "done"},
              permit : Permits \cup {NoPermit}, connected : 0..2, todo : Seq(Task), checks : Checks,
              failed : SUBSET {"runtime", "authority"}]
    /\ r.pc # "idle" => r.permit \in Permits /\ r.permit.profile \in Profiles
    /\ r.pc = "query" <=> r.todo # <<>>
    /\ \A i, j \in 1..Len(r.todo) : r.todo[i].check = r.todo[j].check
    /\ r.pc \in {"catalog", "query"} => r.checks.authority = NotEvaluated
    /\ r.pc = "catalog" \/ (r.pc = "query" /\ r.todo[1].check = "runtime") => r.checks.runtime = NotEvaluated
    /\ r.pc \in {"connect", "prove", "history"} => r.checks = Unchecked
    /\ r.pc \notin {"parity", "report", "done"} => r.checks.parity = NotEvaluated
    /\ r.pc = "parity" \/ r.checks.parity # NotEvaluated => BeforeParity(r.checks)

ReportFits(r) ==
    /\ r \in [status : {"none", "failed", "pass", "incomplete", "drift"}, checks : Checks]
    /\ r.checks.parity # NotEvaluated => BeforeParity(r.checks)
    /\ r.status \notin {"none", "failed"} => r.status = ReportStatus(r.checks)

WorldFits ==
    /\ head \in Heads /\ expired \in BOOLEAN /\ incarnation \in 1..2 /\ changes \in 0..MaxChanges
    /\ config \in Configs /\ MembersOfRoles(facts)

LEMMA InvariantIs == PreflightInvariant <=> WorldFits /\ RunFits(run) /\ ReportFits(report)
  BY DEF PreflightInvariant, PreflightTypeOK, InTurn, ParityLast, WorldFits, RunFits, ReportFits, MembersOfRoles

LEMMA NothingChecked == Unchecked \in Checks /\ NotEvaluated \in Outcome
  BY DEF Unchecked, Checks, Outcome

LEMMA IdleFits == RunFits(Idle)
<1>1. Idle.todo = <<>> /\ Idle.todo \in Seq(Task) /\ Len(Idle.todo) = 0
  BY DEF Idle
<1>2. Idle.pc = "idle" /\ Idle.permit = NoPermit /\ Idle.connected = 0 /\ Idle.checks = Unchecked
  BY DEF Idle
<1>3. Unchecked.parity = NotEvaluated
  BY DEF Unchecked
<1>4. Idle \in [pc : {"idle", "connect", "prove", "history", "catalog", "query", "gate", "parity", "report", "done"},
                permit : Permits \cup {NoPermit}, connected : 0..2, todo : Seq(Task), checks : Checks,
                failed : SUBSET {"runtime", "authority"}]
  BY NothingChecked DEF Idle
<1>. QED BY <1>1, <1>2, <1>3, <1>4 DEF RunFits

LEMMA NoReportFits ==
    /\ ReportFits(NoReport)
    /\ ReportFits([NoReport EXCEPT !.status = "failed"])
  BY NothingChecked DEF ReportFits, NoReport, Unchecked

LEMMA InitFits == Init => PreflightInvariant
<1>. SUFFICES ASSUME Init PROVE WorldFits /\ RunFits(run) /\ ReportFits(report)
  BY InvariantIs
<1>1. PICK p \in {q \in Permits : q.profile \in Profiles} : facts = Expected(ProfileComponents(p.profile))
  BY DEF Init
<1>2. ProfileComponents(p.profile) \in SUBSET Components
  BY DEF ProfileComponents, Profiles
<1>3. MembersOfRoles(facts)
  BY <1>1, <1>2, ExpectedMembers DEF Init
<1>4. MaxChanges \in Nat
  BY PreflightAssumption
<1>5. 0 \in 0..MaxChanges /\ 1 \in 1..2
  BY <1>4
<1>6. head \in Heads /\ expired = FALSE /\ incarnation = 1 /\ changes = 0 /\ config \in Configs
      /\ run = Idle /\ report = NoReport
  BY DEF Init
<1>7. WorldFits
  BY <1>3, <1>5, <1>6 DEF WorldFits
<1>. QED BY <1>6, <1>7, IdleFits, NoReportFits

(* A step of the run leaves the world alone; a failed one ends it. *)
LEMMA RunKeeps ==
    ASSUME WorldFits, ReportFits(report), World, NEW r, To(r), RunFits(r)
    PROVE  WorldFits' /\ RunFits(run)' /\ ReportFits(report)'
<1>1. run' = r /\ report' = report
  BY DEF To
<1>2. WorldFits'
  BY DEF World, WorldFits, MembersOfRoles
<1>3. RunFits(run)' <=> RunFits(r)
  BY <1>1 DEF RunFits
<1>4. ReportFits(report)'
  BY <1>1 DEF ReportFits
<1>. QED BY <1>2, <1>3, <1>4

LEMMA FailKeeps ==
    ASSUME WorldFits, World, Fail
    PROVE  WorldFits' /\ RunFits(run)' /\ ReportFits(report)'
<1>1. run' = Idle /\ report' = [NoReport EXCEPT !.status = "failed"]
  BY DEF Fail
<1>2. WorldFits'
  BY DEF World, WorldFits, MembersOfRoles
<1>3. RunFits(run)'
  BY <1>1, IdleFits DEF RunFits
<1>4. ReportFits(report)'
  BY <1>1, NoReportFits DEF ReportFits
<1>. QED BY <1>2, <1>3, <1>4

(* A run that has nothing to query. *)
Runs == [pc : {"idle", "connect", "prove", "history", "catalog", "query", "gate", "parity", "report", "done"},
         permit : Permits \cup {NoPermit}, connected : 0..2, todo : Seq(Task), checks : Checks,
         failed : SUBSET {"runtime", "authority"}]

LEMMA QuietFits ==
    ASSUME NEW r \in Runs, r.pc # "query", r.todo = <<>>,
           r.pc # "idle" => r.permit \in Permits /\ r.permit.profile \in Profiles,
           r.pc \in {"connect", "prove", "history"} => r.checks = Unchecked,
           r.pc = "catalog" => r.checks.runtime = NotEvaluated /\ r.checks.authority = NotEvaluated,
           r.pc \notin {"parity", "report", "done"} => r.checks.parity = NotEvaluated,
           r.pc = "parity" \/ r.checks.parity # NotEvaluated => BeforeParity(r.checks)
    PROVE  RunFits(r)
<1>1. Len(r.todo) = 0
  OBVIOUS
<1>. QED BY <1>1 DEF RunFits, Runs

LEMMA Quiet ==
    ASSUME RunFits(run), run.pc # "query"
    PROVE  run \in Runs /\ run.todo = <<>>
  BY DEF RunFits, Runs

LEMMA Scope ==
    ASSUME RunFits(run), run.pc # "idle"
    PROVE  /\ run.permit \in Permits /\ run.permit.profile \in Profiles
           /\ ProfileComponents(run.permit.profile) \in SUBSET Components
           /\ ProfileComponents(run.permit.profile) # {}
<1>1. run.permit \in Permits /\ run.permit.profile \in Profiles
  BY DEF RunFits
<1>. QED BY <1>1 DEF ProfileComponents, Profiles, Components

(* One outcome more. *)
LEMMA Checked ==
    ASSUME NEW checks \in Checks, NEW name \in {"history", "catalog", "runtime", "authority", "parity"}, NEW s \in Outcome
    PROVE  /\ [checks EXCEPT ![name] = s] \in Checks
           /\ [checks EXCEPT ![name] = s][name] = s
           /\ \A other \in {"history", "catalog", "runtime", "authority", "parity"} \ {name} :
                [checks EXCEPT ![name] = s][other] = checks[other]
  BY DEF Checks

LEMMA StartFits ==
    ASSUME WorldFits, RunFits(run), ReportFits(report), Start
    PROVE  WorldFits' /\ RunFits(run)' /\ ReportFits(report)'
<1>1. PICK p \in Permits :
        \/ /\ PermitValid(p) /\ run' = [Idle EXCEPT !.pc = "connect", !.permit = p] /\ report' = report
        \/ Fail
  BY DEF Start
<1>2. World
  BY DEF Start
<1>3. CASE Fail
  BY <1>2, <1>3, FailKeeps
<1>4. CASE PermitValid(p) /\ run' = [Idle EXCEPT !.pc = "connect", !.permit = p] /\ report' = report
  <2>. DEFINE r == [Idle EXCEPT !.pc = "connect", !.permit = p]
  <2>1. p.profile \in Profiles
    BY <1>4 DEF PermitValid
  <2>2. r \in Runs /\ r.pc = "connect" /\ r.permit = p /\ r.todo = <<>> /\ r.checks = Unchecked
    <3>1. Idle \in Runs /\ Idle.todo = <<>> /\ Idle.checks = Unchecked
      BY IdleFits DEF RunFits, Runs, Idle
    <3>2. r.pc = "connect" /\ r.permit = p /\ r.todo = Idle.todo /\ r.checks = Idle.checks
      BY <3>1 DEF Runs
    <3>3. r \in Runs
      BY <3>1 DEF Runs
    <3>. QED BY <3>1, <3>2, <3>3
  <2>3. Unchecked.parity = NotEvaluated
    BY DEF Unchecked
  <2>4. run' = r /\ report' = report
    BY <1>4
  <2>. HIDE DEF r
  <2>5. RunFits(r)
    BY <2>1, <2>2, <2>3, QuietFits
  <2>6. RunFits(run)' <=> RunFits(r)
    BY <2>4 DEF RunFits
  <2>7. ReportFits(report)'
    BY <2>4 DEF ReportFits
  <2>8. WorldFits'
    BY <1>2 DEF World, WorldFits, MembersOfRoles
  <2>. QED BY <2>5, <2>6, <2>7, <2>8
<1>. QED BY <1>1, <1>3, <1>4

(* Before the first check. *)
LEMMA BeforeChecks ==
    ASSUME RunFits(run), run.pc \in {"connect", "prove", "history"}
    PROVE  /\ run.checks = Unchecked /\ run.checks.parity = NotEvaluated
           /\ run.checks.runtime = NotEvaluated /\ run.checks.authority = NotEvaluated
  BY DEF RunFits, Unchecked

LEMMA ConnectFits ==
    ASSUME WorldFits, RunFits(run), ReportFits(report), Connect
    PROVE  WorldFits' /\ RunFits(run)' /\ ReportFits(report)'
<1>. DEFINE r == [run EXCEPT !.pc = "prove", !.connected = incarnation]
<1>1. run.pc = "connect" /\ World /\ (To(r) \/ Fail)
  BY DEF Connect
<1>2. incarnation \in 0..2
  BY DEF WorldFits
<1>3. run \in Runs /\ run.todo = <<>> /\ run.checks = Unchecked /\ run.checks.parity = NotEvaluated
  BY <1>1, Quiet, BeforeChecks
<1>4. r \in Runs /\ r.pc = "prove" /\ r.permit = run.permit /\ r.todo = run.todo /\ r.checks = run.checks
  BY <1>2, <1>3 DEF Runs
<1>. HIDE DEF r
<1>5. run.permit \in Permits /\ run.permit.profile \in Profiles
  BY <1>1, Scope
<1>6. RunFits(r)
  BY <1>3, <1>4, <1>5, QuietFits
<1>. QED BY <1>1, <1>6, RunKeeps, FailKeeps

LEMMA ProveRoutesFits ==
    ASSUME WorldFits, RunFits(run), ReportFits(report), ProveRoutes
    PROVE  WorldFits' /\ RunFits(run)' /\ ReportFits(report)'
<1>. DEFINE r == [run EXCEPT !.pc = "history"]
<1>1. run.pc = "prove" /\ World /\ (To(r) \/ Fail)
  BY DEF ProveRoutes
<1>2. run \in Runs /\ run.todo = <<>> /\ run.checks = Unchecked /\ run.checks.parity = NotEvaluated
  BY <1>1, Quiet, BeforeChecks
<1>3. r \in Runs /\ r.pc = "history" /\ r.permit = run.permit /\ r.todo = run.todo /\ r.checks = run.checks
  BY <1>2 DEF Runs
<1>. HIDE DEF r
<1>4. run.permit \in Permits /\ run.permit.profile \in Profiles
  BY <1>1, Scope
<1>5. RunFits(r)
  BY <1>2, <1>3, <1>4, QuietFits
<1>. QED BY <1>1, <1>5, RunKeeps, FailKeeps

LEMMA ReadHistoryFits ==
    ASSUME WorldFits, RunFits(run), ReportFits(report), ReadHistory
    PROVE  WorldFits' /\ RunFits(run)' /\ ReportFits(report)'
<1>1. run.pc = "history" /\ World
  BY DEF ReadHistory
<1>2. PICK s \in Outcome : To([run EXCEPT !.pc = "catalog", !.checks = Check("history", s)])
  BY DEF ReadHistory, Inspecting, Outcome
<1>. DEFINE checks == [run.checks EXCEPT !["history"] = s]
            r == [run EXCEPT !.pc = "catalog", !.checks = checks]
<1>3. run \in Runs /\ run.todo = <<>> /\ run.checks \in Checks
  BY <1>1, Quiet DEF Runs
<1>4. checks \in Checks /\ checks.parity = NotEvaluated
      /\ checks.runtime = NotEvaluated /\ checks.authority = NotEvaluated
  BY <1>1, <1>3, BeforeChecks, Checked
<1>5. To(r)
  BY <1>2 DEF Check
<1>. HIDE DEF checks
<1>6. r \in Runs /\ r.pc = "catalog" /\ r.permit = run.permit /\ r.todo = run.todo /\ r.checks = checks
  BY <1>3, <1>4 DEF Runs
<1>. HIDE DEF r
<1>7. run.permit \in Permits /\ run.permit.profile \in Profiles
  BY <1>1, Scope
<1>8. RunFits(r)
  BY <1>3, <1>4, <1>6, <1>7, QuietFits
<1>. QED BY <1>1, <1>5, <1>8, RunKeeps

(* A run with one check to query. *)
LEMMA BusyFits ==
    ASSUME NEW r \in Runs, NEW kind \in {"runtime", "authority"},
           r.pc = "query", r.todo # <<>>, OneKind(r.todo, kind),
           r.permit \in Permits, r.permit.profile \in Profiles,
           r.checks.authority = NotEvaluated, r.checks.parity = NotEvaluated,
           kind = "runtime" => r.checks.runtime = NotEvaluated
    PROVE  RunFits(r)
<1>1. \A i, j \in 1..Len(r.todo) : r.todo[i].check = r.todo[j].check
  BY DEF OneKind
<1>2. r.todo[1].check = kind
  <2>1. Len(r.todo) \in Nat /\ Len(r.todo) # 0
    BY EmptySeq DEF OneKind
  <2>. QED BY <2>1 DEF OneKind
<1>. QED BY <1>1, <1>2 DEF RunFits, Runs

LEMMA ReadCatalogFits ==
    ASSUME WorldFits, RunFits(run), ReportFits(report), ReadCatalog
    PROVE  WorldFits' /\ RunFits(run)' /\ ReportFits(report)'
<1>. DEFINE cs == ProfileComponents(run.permit.profile)
            todo == CompatibilityTodo(cs)
<1>1. run.pc = "catalog" /\ World
  BY DEF ReadCatalog
<1>2. CatalogState(facts, cs) \in Outcome
  BY DEF CatalogState, Outcome
<1>3. PICK s \in Outcome : To([run EXCEPT !.pc = "query", !.checks = Check("catalog", s), !.todo = todo])
  <2>1. NotEvaluated \in Outcome
    BY DEF Outcome
  <2>. QED BY <1>2, <2>1 DEF ReadCatalog, Inspecting
<1>. DEFINE checks == [run.checks EXCEPT !["catalog"] = s]
            r == [run EXCEPT !.pc = "query", !.checks = checks, !.todo = todo]
<1>4. To(r)
  BY <1>3 DEF Check
<1>5. run.permit \in Permits /\ run.permit.profile \in Profiles /\ cs \in SUBSET Components /\ cs # {}
  BY <1>1, Scope
<1>6. OneKind(todo, "runtime") /\ todo # <<>>
  BY <1>5, CompatibilityPlan DEF WorldFits
<1>. HIDE DEF todo
<1>7. run \in Runs /\ run.checks \in Checks
  BY <1>1, Quiet DEF Runs
<1>8. todo \in Seq(Task)
  BY <1>6 DEF OneKind
<1>9. checks \in Checks
  BY <1>7, Checked
<1>10. checks.runtime = run.checks.runtime /\ checks.authority = run.checks.authority /\ checks.parity = run.checks.parity
  BY <1>7, Checked
<1>. HIDE DEF checks
<1>11. r \in Runs /\ r.pc = "query" /\ r.permit = run.permit /\ r.todo = todo /\ r.checks = checks
  BY <1>7, <1>8, <1>9 DEF Runs
<1>. HIDE DEF r
<1>12. /\ run.checks.runtime = NotEvaluated /\ run.checks.authority = NotEvaluated
       /\ run.checks.parity = NotEvaluated
  BY <1>1 DEF RunFits
<1>13. RunFits(r)
  BY <1>5, <1>6, <1>10, <1>11, <1>12, BusyFits
<1>. QED BY <1>1, <1>4, <1>13, RunKeeps

(* The check a query belongs to, and the queries after it. *)
LEMMA Queried ==
    ASSUME RunFits(run), run.pc = "query"
    PROVE  /\ run \in Runs /\ run.todo # <<>> /\ run.checks \in Checks
           /\ Head(run.todo).check \in {"runtime", "authority"}
           /\ OneKind(run.todo, Head(run.todo).check)
           /\ run.checks.authority = NotEvaluated /\ run.checks.parity = NotEvaluated
           /\ Head(run.todo).check = "runtime" => run.checks.runtime = NotEvaluated
<1>1. run \in Runs /\ run.todo \in Seq(Task) /\ run.todo # <<>> /\ run.checks \in Checks
  BY DEF RunFits, Runs
<1>2. Len(run.todo) \in Nat /\ Len(run.todo) # 0
  BY <1>1, EmptySeq
<1>3. Head(run.todo) = run.todo[1] /\ run.todo[1] \in Task
  BY <1>1, <1>2
<1>4. \A i \in 1..Len(run.todo) : run.todo[i].check = run.todo[1].check
  BY <1>2 DEF RunFits
<1>5. Head(run.todo).check \in {"runtime", "authority"}
  BY <1>3 DEF Task
<1>6. OneKind(run.todo, Head(run.todo).check)
  BY <1>1, <1>3, <1>4 DEF OneKind
<1>7. /\ run.checks.authority = NotEvaluated /\ run.checks.parity = NotEvaluated
      /\ run.todo[1].check = "runtime" => run.checks.runtime = NotEvaluated
  BY DEF RunFits
<1>. QED BY <1>1, <1>3, <1>5, <1>6, <1>7

(* The next check starts, or the run is through with its queries. *)
LEMMA AfterCheckFits ==
    ASSUME WorldFits, RunFits(run), run.pc = "query", NEW checks \in Checks,
           NEW failed \in SUBSET {"runtime", "authority"},
           checks.parity = NotEvaluated,
           Head(run.todo).check = "runtime" => checks.authority = NotEvaluated
    PROVE  RunFits(AfterCheck([run EXCEPT !.checks = checks, !.failed = failed]))
<1>. DEFINE cs == ProfileComponents(run.permit.profile)
            r == [run EXCEPT !.checks = checks, !.failed = failed]
<1>1. run.permit \in Permits /\ run.permit.profile \in Profiles /\ cs \in SUBSET Components /\ cs # {}
  BY Scope
<1>2. run \in Runs
  BY Queried
<1>3. r \in Runs /\ r.pc = "query" /\ r.permit = run.permit /\ r.checks = checks
  BY <1>2 DEF Runs
<1>. HIDE DEF r
<1>4. CASE Head(run.todo).check = "runtime"
  <2>. DEFINE todo == AuthorityTodo(cs)
              n == [r EXCEPT !.todo = todo]
  <2>1. OneKind(todo, "authority") /\ todo # <<>>
    BY <1>1, AuthorityPlan DEF WorldFits
  <2>2. AfterCheck(r) = n
    BY <1>4 DEF AfterCheck
  <2>. HIDE DEF todo
  <2>3. todo \in Seq(Task)
    BY <2>1 DEF OneKind
  <2>4. n \in Runs /\ n.pc = "query" /\ n.permit = run.permit /\ n.todo = todo /\ n.checks = checks
    BY <1>3, <2>3 DEF Runs
  <2>. HIDE DEF n
  <2>5. RunFits(n)
    BY <1>1, <1>4, <2>1, <2>4, BusyFits
  <2>. QED BY <2>2, <2>5 DEF r
<1>5. CASE Head(run.todo).check # "runtime"
  <2>. DEFINE n == [r EXCEPT !.todo = <<>>, !.pc = "gate"]
  <2>1. AfterCheck(r) = n
    BY <1>5 DEF AfterCheck
  <2>2. <<>> \in Seq(Task)
    OBVIOUS
  <2>3. n \in Runs /\ n.pc = "gate" /\ n.permit = run.permit /\ n.todo = <<>> /\ n.checks = checks
    BY <1>3, <2>2 DEF Runs
  <2>. HIDE DEF n
  <2>4. RunFits(n)
    BY <1>1, <2>3, QuietFits
  <2>. QED BY <2>1, <2>4 DEF r
<1>. QED BY <1>4, <1>5

LEMMA QueryFits ==
    ASSUME WorldFits, RunFits(run), ReportFits(report), Query
    PROVE  WorldFits' /\ RunFits(run)' /\ ReportFits(report)'
<1>. DEFINE check == Head(run.todo).check
            rest == [run EXCEPT !.todo = Tail(run.todo)]
            With(s, failed) == [run EXCEPT !.checks = [run.checks EXCEPT ![check] = s], !.failed = failed]
<1>1. run.pc = "query" /\ World
  BY DEF Query
<1>2. \/ Len(run.todo) # 1 /\ To(rest)
      \/ \E s \in {"passed", "drift"} : To(AfterCheck([run EXCEPT !.checks = [run.checks EXCEPT ![check] = s]]))
      \/ To(AfterCheck(run))
      \/ To(AfterCheck(With("drift", run.failed \cup {check})))
  BY DEF Query, Check
<1>3. /\ run \in Runs /\ run.todo # <<>> /\ run.checks \in Checks
      /\ check \in {"runtime", "authority"} /\ OneKind(run.todo, check)
      /\ run.checks.authority = NotEvaluated /\ run.checks.parity = NotEvaluated
      /\ check = "runtime" => run.checks.runtime = NotEvaluated
  BY <1>1, Queried
<1>. DEFINE kinds == SUBSET {"runtime", "authority"}
<1>a. run.failed \in kinds /\ run.failed \cup {check} \in kinds
  BY <1>3 DEF Runs
<1>b. \A s : [run EXCEPT !.checks = [run.checks EXCEPT ![check] = s]] = With(s, run.failed)
  BY <1>3 DEF Runs
<1>4. run.permit \in Permits /\ run.permit.profile \in Profiles
  BY <1>1, Scope
<1>5. ASSUME Len(run.todo) # 1 PROVE RunFits(rest)
  <2>1. run.todo \in Seq(Task) /\ Len(run.todo) \in Nat /\ Len(run.todo) # 0
    BY <1>3, EmptySeq DEF OneKind
  <2>2. /\ Tail(run.todo) \in Seq(Task) /\ Len(Tail(run.todo)) = Len(run.todo) - 1
        /\ \A i \in 1..(Len(run.todo) - 1) : Tail(run.todo)[i] = run.todo[i + 1]
    BY <2>1, <1>3, HeadTailProperties
  <2>3. Tail(run.todo) # <<>>
    <3>1. Len(Tail(run.todo)) # 0
      BY <1>5, <2>1, <2>2
    <3>. QED BY <3>1, <2>2, EmptySeq
  <2>4. OneKind(Tail(run.todo), check)
    <3>1. ASSUME NEW i \in 1..(Len(run.todo) - 1) PROVE Tail(run.todo)[i].check = check
      <4>1. i + 1 \in 1..Len(run.todo) /\ Tail(run.todo)[i] = run.todo[i + 1]
        BY <2>1, <2>2
      <4>. QED BY <1>3, <4>1 DEF OneKind
    <3>. QED BY <2>2, <3>1 DEF OneKind
  <2>. HIDE DEF check
  <2>5. rest \in Runs /\ rest.pc = "query" /\ rest.permit = run.permit /\ rest.todo = Tail(run.todo)
        /\ rest.checks = run.checks
    BY <1>1, <1>3, <2>2 DEF Runs
  <2>. HIDE DEF rest
  <2>. QED BY <1>3, <1>4, <2>3, <2>4, <2>5, BusyFits
<1>6. ASSUME NEW s \in {"passed", "drift"}, NEW failed \in kinds PROVE RunFits(AfterCheck(With(s, failed)))
  <2>. DEFINE checks == [run.checks EXCEPT ![check] = s]
  <2>1. checks \in Checks
    <3>1. s \in Outcome
      BY DEF Outcome
    <3>. QED BY <1>3, <3>1, Checked
  <2>2. checks.parity = NotEvaluated
    BY <1>3 DEF Checks
  <2>3. check = "runtime" => checks.authority = NotEvaluated
    BY <1>3 DEF Checks
  <2>. HIDE DEF checks
  <2>4. RunFits(AfterCheck([run EXCEPT !.checks = checks, !.failed = failed]))
    BY <1>1, <1>6, <2>1, <2>2, <2>3, AfterCheckFits DEF check
  <2>. QED BY <2>4 DEF checks
<1>7. RunFits(AfterCheck(run))
  <2>1. run = [run EXCEPT !.checks = run.checks, !.failed = run.failed]
    BY <1>3 DEF Runs
  <2>2. RunFits(AfterCheck([run EXCEPT !.checks = run.checks, !.failed = run.failed]))
    BY <1>1, <1>3, <1>a, AfterCheckFits
  <2>. QED BY <2>1, <2>2
<1>c. \/ Len(run.todo) # 1 /\ To(rest)
      \/ \E s \in {"passed", "drift"}, failed \in kinds : To(AfterCheck(With(s, failed)))
      \/ To(AfterCheck(run))
  BY <1>2, <1>a, <1>b
<1>. HIDE DEF rest, With, check, kinds
<1>8. CASE Len(run.todo) # 1 /\ To(rest)
  BY <1>1, <1>5, <1>8, RunKeeps
<1>9. ASSUME NEW s \in {"passed", "drift"}, NEW failed \in kinds, To(AfterCheck(With(s, failed)))
      PROVE  WorldFits' /\ RunFits(run)' /\ ReportFits(report)'
  BY <1>1, <1>6, <1>9, RunKeeps
<1>10. CASE To(AfterCheck(run))
  BY <1>1, <1>7, <1>10, RunKeeps
<1>. QED BY <1>c, <1>8, <1>9, <1>10

LEMMA GateParityFits ==
    ASSUME WorldFits, RunFits(run), ReportFits(report), GateParity
    PROVE  WorldFits' /\ RunFits(run)' /\ ReportFits(report)'
<1>. DEFINE to(pc) == [run EXCEPT !.pc = pc]
<1>1. run.pc = "gate" /\ World
  BY DEF GateParity
<1>2. \/ To(to("report"))
      \/ SelectStatus(run.checks) = "pass" /\ run.checks.authority = "passed" /\ To(to("parity"))
      \/ Fail
  BY DEF GateParity
<1>3. run \in Runs /\ run.todo = <<>> /\ run.checks \in Checks
  BY <1>1, Quiet DEF Runs
<1>4. run.permit \in Permits /\ run.permit.profile \in Profiles
  BY <1>1, Scope
<1>5. run.checks.parity = NotEvaluated
  BY <1>1 DEF RunFits
<1>6. ASSUME NEW pc \in {"report", "parity"}
      PROVE  to(pc) \in Runs /\ to(pc).pc = pc /\ to(pc).permit = run.permit /\ to(pc).todo = <<>> /\ to(pc).checks = run.checks
  BY <1>3 DEF Runs
<1>7. RunFits(to("report"))
  BY <1>3, <1>4, <1>5, <1>6, QuietFits
<1>8. ASSUME SelectStatus(run.checks) = "pass", run.checks.authority = "passed"
      PROVE  RunFits(to("parity"))
  <2>1. BeforeParity(run.checks)
    BY <1>3, <1>8, Selected DEF AllPass, BeforeParity
  <2>. QED BY <1>3, <1>4, <1>6, <2>1, QuietFits
<1>. HIDE DEF to
<1>9. CASE To(to("report"))
  BY <1>1, <1>7, <1>9, RunKeeps
<1>10. CASE SelectStatus(run.checks) = "pass" /\ run.checks.authority = "passed" /\ To(to("parity"))
  BY <1>1, <1>8, <1>10, RunKeeps
<1>11. CASE Fail
  BY <1>1, <1>11, FailKeeps
<1>. QED BY <1>2, <1>9, <1>10, <1>11

LEMMA ParityFits ==
    ASSUME WorldFits, RunFits(run), ReportFits(report), Parity
    PROVE  WorldFits' /\ RunFits(run)' /\ ReportFits(report)'
<1>1. run.pc = "parity" /\ World
  BY DEF Parity
<1>2. PICK s \in Outcome : To([run EXCEPT !.pc = "report", !.checks = Check("parity", s)])
  BY DEF Parity, Outcome
<1>. DEFINE checks == [run.checks EXCEPT !["parity"] = s]
            r == [run EXCEPT !.pc = "report", !.checks = checks]
<1>3. run \in Runs /\ run.todo = <<>> /\ run.checks \in Checks
  BY <1>1, Quiet DEF Runs
<1>4. checks \in Checks /\ \A other \in {"history", "catalog", "runtime", "authority"} : checks[other] = run.checks[other]
  BY <1>3, Checked
<1>5. BeforeParity(run.checks)
  BY <1>1 DEF RunFits
<1>6. BeforeParity(checks)
  BY <1>4, <1>5 DEF BeforeParity
<1>7. To(r)
  BY <1>2 DEF Check
<1>. HIDE DEF checks
<1>8. r \in Runs /\ r.pc = "report" /\ r.permit = run.permit /\ r.todo = run.todo /\ r.checks = checks
  BY <1>3, <1>4 DEF Runs
<1>. HIDE DEF r
<1>9. run.permit \in Permits /\ run.permit.profile \in Profiles
  BY <1>1, Scope
<1>10. RunFits(r)
  BY <1>3, <1>6, <1>8, <1>9, QuietFits
<1>. QED BY <1>1, <1>7, <1>10, RunKeeps

LEMMA ReportStepFits ==
    ASSUME WorldFits, RunFits(run), ReportFits(report), Report
    PROVE  WorldFits' /\ RunFits(run)' /\ ReportFits(report)'
<1>. DEFINE r == [run EXCEPT !.pc = "done"]
            made == [status |-> ReportStatus(run.checks), checks |-> run.checks]
<1>1. run.pc = "report" /\ World
  BY DEF Report
<1>2. (run' = r /\ report' = made) \/ Fail
  BY DEF Report
<1>3. run \in Runs /\ run.todo = <<>> /\ run.checks \in Checks
  BY <1>1, Quiet DEF Runs
<1>4. run.permit \in Permits /\ run.permit.profile \in Profiles
  BY <1>1, Scope
<1>5. run.checks.parity # NotEvaluated => BeforeParity(run.checks)
  BY DEF RunFits
<1>6. r \in Runs /\ r.pc = "done" /\ r.permit = run.permit /\ r.todo = <<>> /\ r.checks = run.checks
  BY <1>3 DEF Runs
<1>. HIDE DEF r
<1>7. RunFits(r)
  BY <1>4, <1>5, <1>6, QuietFits
<1>8. ReportFits(made)
  <2>1. ReportStatus(run.checks) \in {"pass", "drift", "incomplete"}
    BY <1>3, Reported
  <2>. QED BY <1>3, <1>5, <2>1 DEF ReportFits
<1>. HIDE DEF made
<1>9. CASE Fail
  BY <1>1, <1>9, FailKeeps
<1>10. CASE run' = r /\ report' = made
  <2>1. RunFits(run)' <=> RunFits(r)
    BY <1>10 DEF RunFits
  <2>2. ReportFits(report)' <=> ReportFits(made)
    BY <1>10 DEF ReportFits
  <2>3. WorldFits'
    BY <1>1 DEF World, WorldFits, MembersOfRoles
  <2>. QED BY <1>7, <1>8, <2>1, <2>2, <2>3
<1>. QED BY <1>2, <1>9, <1>10

(* What happens to the database, the permit and the repository meanwhile. *)
LEMMA ChangeFits ==
    ASSUME WorldFits, RunFits(run), ReportFits(report),
           MoveHead \/ PermitExpires \/ RecordVersion \/ Administer \/ Recreate
    PROVE  WorldFits' /\ RunFits(run)' /\ ReportFits(report)'
<1>1. Change
  BY DEF MoveHead, PermitExpires, RecordVersion, Administer, Recreate
<1>2. config' = config /\ run' = run /\ report' = report /\ changes < MaxChanges /\ changes' = changes + 1
  BY <1>1 DEF Change
<1>3. RunFits(run)' /\ ReportFits(report)'
  BY <1>2 DEF RunFits, ReportFits
<1>4. changes' \in 0..MaxChanges
  BY <1>2, PreflightAssumption DEF WorldFits
<1>5. head' \in Heads
  BY DEF MoveHead, PermitExpires, RecordVersion, Administer, Recreate, WorldFits
<1>6. expired' \in BOOLEAN
  BY DEF MoveHead, PermitExpires, RecordVersion, Administer, Recreate, WorldFits
<1>7. incarnation' \in 1..2
  BY DEF MoveHead, PermitExpires, RecordVersion, Administer, Recreate, WorldFits
<1>8. MembersOfRoles(facts)'
  <2>1. CASE Administer
    <3>1. PICK f \in Deviations : facts' = Toggled(f)
      BY <2>1 DEF Administer
    <3>2. MembersOfRoles(Toggled(f))
      BY ToggledMembers DEF WorldFits
    <3>. QED BY <3>1, <3>2 DEF MembersOfRoles
  <2>2. CASE facts' = facts
    BY <2>2 DEF WorldFits, MembersOfRoles
  <2>. QED BY <2>1, <2>2 DEF MoveHead, PermitExpires, RecordVersion, Recreate
<1>9. config' \in Configs
  BY <1>2 DEF WorldFits
<1>. QED BY <1>3, <1>4, <1>5, <1>6, <1>7, <1>8, <1>9 DEF WorldFits

LEMMA StepFits == PreflightInvariant /\ [Next]_vars => PreflightInvariant'
<1>. SUFFICES ASSUME WorldFits, RunFits(run), ReportFits(report), [Next]_vars
              PROVE  WorldFits' /\ RunFits(run)' /\ ReportFits(report)'
  BY InvariantIs DEF PreflightInvariant, PreflightTypeOK, InTurn, ParityLast, WorldFits, RunFits, ReportFits, MembersOfRoles
<1>1. CASE Next
  BY <1>1, StartFits, ConnectFits, ProveRoutesFits, ReadHistoryFits, ReadCatalogFits, QueryFits, GateParityFits,
     ParityFits, ReportStepFits, ChangeFits DEF Next
<1>2. CASE UNCHANGED vars
  BY <1>2 DEF vars, WorldFits, RunFits, ReportFits, MembersOfRoles
<1>. QED BY <1>1, <1>2

(* One check is evaluated after the other, nothing before its turn, parity *)
(* only after everything else passed, and the report says what its checks  *)
(* add up to, whatever fails and changes meanwhile.                        *)
THEOREM ChecksInTurn == Spec => []PreflightInvariant
<1>. QED BY InitFits, StepFits, PTL DEF Spec

(* A drift is only reported for the first check that found one, everything *)
(* of a higher priority having passed.                                     *)
THEOREM DriftIsFirst == Spec => []DriftMasksNothing
<1>1. PreflightInvariant => DriftMasksNothing
  <2>. SUFFICES ASSUME ReportFits(report), report.status = "drift"
                PROVE  \E first \in 1..5 : /\ report.checks[Order[first]] = "drift"
                                           /\ \A i \in 1..(first - 1) : report.checks[Order[i]] = "passed"
    BY InvariantIs DEF DriftMasksNothing
  <2>. DEFINE checks == report.checks
  <2>1. checks \in Checks /\ ReportStatus(checks) = "drift"
    BY DEF ReportFits
  <2>. HIDE DEF checks
  <2>2. Order[1] = "history" /\ Order[2] = "catalog" /\ Order[3] = "runtime" /\ Order[4] = "authority" /\ Order[5] = "parity"
    BY DEF Order
  <2>3. CASE checks.history = "drift"
    <3>1. checks[Order[1]] = "drift" /\ \A i \in 1..(1 - 1) : checks[Order[i]] = "passed"
      BY <2>2, <2>3
    <3>. QED BY <3>1 DEF checks
  <2>4. CASE checks.history = "passed" /\ checks.catalog = "drift"
    <3>1. checks[Order[2]] = "drift" /\ \A i \in 1..(2 - 1) : checks[Order[i]] = "passed"
      BY <2>2, <2>4
    <3>. QED BY <3>1 DEF checks
  <2>5. CASE checks.history = "passed" /\ checks.catalog = "passed" /\ checks.runtime = "drift"
    <3>1. checks[Order[3]] = "drift" /\ \A i \in 1..(3 - 1) : checks[Order[i]] = "passed"
      <4>1. \A i \in 1..(3 - 1) : i = 1 \/ i = 2
        OBVIOUS
      <4>. QED BY <2>2, <2>5, <4>1
    <3>. QED BY <3>1 DEF checks
  <2>6. CASE AllPass(checks) /\ checks.authority = "drift"
    <3>1. checks[Order[4]] = "drift" /\ \A i \in 1..(4 - 1) : checks[Order[i]] = "passed"
      <4>1. \A i \in 1..(4 - 1) : i = 1 \/ i = 2 \/ i = 3
        OBVIOUS
      <4>. QED BY <2>2, <2>6, <4>1 DEF AllPass
    <3>. QED BY <3>1 DEF checks
  <2>7. CASE AllPass(checks) /\ checks.authority = "passed" /\ checks.parity = "drift"
    <3>1. checks[Order[5]] = "drift" /\ \A i \in 1..(5 - 1) : checks[Order[i]] = "passed"
      <4>1. \A i \in 1..(5 - 1) : i = 1 \/ i = 2 \/ i = 3 \/ i = 4
        OBVIOUS
      <4>. QED BY <2>2, <2>7, <4>1 DEF AllPass
    <3>. QED BY <3>1 DEF checks
  <2>. QED BY <2>1, <2>3, <2>4, <2>5, <2>6, <2>7, Reported DEF Shows
<1>. QED BY <1>1, ChecksInTurn, PTL

-----------------------------------------------------------------------------
(* The authority of a login. *)

LEMMA Both ==
    ASSUME NEW A \in SUBSET Components, NEW B \in SUBSET Components
    PROVE  Relations[A \cup B] = Relations[A] \cup Relations[B]
<1>1. A \cup B \in SUBSET Components
  OBVIOUS
<1>2. ManagedTables[A \cup B] = ManagedTables[A] \cup ManagedTables[B]
  BY <1>1 DEF ManagedTables
<1>3. Sequences[A \cup B] = Sequences[A] \cup Sequences[B]
  BY <1>1 DEF Sequences
<1>. QED BY <1>1, <1>2, <1>3 DEF Relations

(* A login is itself, and no superuser. *)
LEMMA ItselfAssumable ==
    ASSUME NEW F, MembersOfRoles(F), NEW l \in Roles, NEW cs, Restricted(F, l, cs)
    PROVE  /\ Assumable(F, l) = Inherited(F, l) \cup Settable(F, l)
           /\ l \in Assumable(F, l)
<1>1. \A e \in Via(F, "inherit") : e[2] \in Roles
  BY DEF Via, Edges, MembersOfRoles, Facts
<1>2. l \in Inherited(F, l)
  BY <1>1, ClosureIs DEF Inherited, LeastClosed
<1>3. ~Super(F, l)
  <2>. SUFFICES ASSUME Super(F, l) PROVE FALSE
    OBVIOUS
  <2>1. l \in Assumable(F, l)
    BY DEF Assumable
  <2>. QED BY <2>1 DEF Restricted, Elevated
<1>. QED BY <1>2, <1>3 DEF Assumable

(* What a contract is about. *)
LEMMA ContractScope ==
    ASSUME NEW c \in Components
    PROVE  /\ \A x \in TableContract[c] : x[1] \in Tables[c]
           /\ \A x \in SequenceContract[c] : x[1] \in SequenceOf[c]
<1>1. TableContract[c] = UNION {{<<t, p>> : p \in WithColumns(Commands(c, t)) \cup LockColumn(t)} : t \in Tables[c]}
  BY DEF TableContract
<1>2. \A x \in TableContract[c] : x[1] \in Tables[c]
  BY <1>1
<1>3. \A x \in SequenceContract[c] : x[1] \in SequenceOf[c]
  BY DEF SequenceContract, SequenceOf
<1>. QED BY <1>2, <1>3

(* The components a login serves: the credentials, or the stores. *)
Servable(own) == own = {"auth"} \/ own \subseteq {"graph", "coordination"}

LEMMA ServedParts ==
    ASSUME NEW own, Servable(own)
    PROVE  /\ own \in SUBSET Components /\ Foreign(own) \in SUBSET Components
           /\ Relations[own] = ManagedTables[own] \cup Sequences[own]
           /\ Contract(own) = (UNION {TableContract[c] : c \in own}) \cup (UNION {SequenceContract[c] : c \in own})
           /\ own \subseteq {"graph", "coordination"} =>
                IF "graph" \in own
                THEN Sequences[own] = Sequences[{"graph"}] /\ UNION {SequenceContract[c] : c \in own} = SequenceContract["graph"]
                ELSE Sequences[own] = {} /\ UNION {SequenceContract[c] : c \in own} = {}
<1>1. own \in SUBSET Components /\ Foreign(own) \in SUBSET Components
  BY DEF Servable, Components, Foreign
<1>2. Relations[own] = ManagedTables[own] \cup Sequences[own]
  BY <1>1 DEF Relations
<1>3. Contract(own) = (UNION {TableContract[c] : c \in own}) \cup (UNION {SequenceContract[c] : c \in own})
  BY DEF Contract
<1>4. Sequences[own] = UNION {SequenceOf[c] : c \in own}
  BY <1>1 DEF Sequences
<1>5. {"graph"} \in SUBSET Components
  BY DEF Components
<1>6. Sequences[{"graph"}] = SequenceOf["graph"]
  BY <1>5 DEF Sequences
<1>7. SequenceOf["coordination"] = {} /\ SequenceContract["coordination"] = {}
  BY DEF SequenceOf, SequenceContract, Components
<1>8. ASSUME own \subseteq {"graph", "coordination"}, "graph" \in own
      PROVE  Sequences[own] = Sequences[{"graph"}] /\ UNION {SequenceContract[c] : c \in own} = SequenceContract["graph"]
  BY <1>4, <1>6, <1>7, <1>8
<1>9. ASSUME own \subseteq {"graph", "coordination"}, "graph" \notin own
      PROVE  Sequences[own] = {} /\ UNION {SequenceContract[c] : c \in own} = {}
  BY <1>4, <1>7, <1>9
<1>. QED BY <1>1, <1>2, <1>3, <1>8, <1>9

LEMMA OnBoth ==
    ASSUME NEW held, NEW A, NEW B
    PROVE  On(held, A \cup B) = On(held, A) \cup On(held, B)
  BY DEF On

LEMMA CredentialContract ==
    /\ UNION {TableContract[c] : c \in {"auth"}} = TableContract["auth"]
    /\ Contract({"auth"}) = TableContract["auth"]
<1>1. SequenceContract["auth"] = {}
  BY DEF SequenceContract, Components
<1>. QED BY <1>1 DEF Contract

(* The login has its contract, and each of its roles no more than that. *)
LEMMA LoginHolds ==
    ASSUME NEW F, NEW l, NEW own, Servable(own), l \in Assumable(F, l),
           Restricted(F, l, own), LoginGrants(F, l, own)
    PROVE  On(Held(F, l), Relations[own]) = Contract(own)
<1>. DEFINE held == Held(F, l)
            tables == UNION {TableContract[c] : c \in own}
            sequences == UNION {SequenceContract[c] : c \in own}
<1>1. On(held, ManagedTables[own]) = tables
  BY DEF LoginGrants
<1>2. "graph" \in own => On(held, Sequences[{"graph"}]) = SequenceContract["graph"]
  BY DEF LoginGrants
<1>3. own = {"auth"} => On(held, Relations[own]) \subseteq TableContract["auth"]
  BY DEF Restricted
<1>. HIDE DEF held
<1>4. On(held, Relations[own]) = On(held, ManagedTables[own]) \cup On(held, Sequences[own])
  BY ServedParts, OnBoth
<1>5. CASE own = {"auth"}
  BY <1>1, <1>3, <1>4, <1>5, CredentialContract DEF held
<1>6. CASE own \subseteq {"graph", "coordination"}
  <2>1. On(held, {}) = {}
    BY DEF On
  <2>2. On(held, Sequences[own]) = sequences
    <3>1. CASE "graph" \in own
      BY <1>2, <1>6, <3>1, ServedParts
    <3>2. CASE "graph" \notin own
      BY <1>6, <2>1, <3>2, ServedParts
    <3>. QED BY <3>1, <3>2
  <2>3. Contract(own) = tables \cup sequences
    BY ServedParts
  <2>. QED BY <1>1, <1>4, <2>2, <2>3 DEF held
<1>. QED BY <1>5, <1>6 DEF Servable

LEMMA RoleHolds ==
    ASSUME NEW F, NEW l, NEW own, Servable(own), NEW d \in own, CapabilityRole[d] \in Assumable(F, l),
           Restricted(F, l, own), RoleGrants(F, own)
    PROVE  On(Held(F, CapabilityRole[d]), Relations[own]) \subseteq Contract(own)
<1>. DEFINE held == Held(F, CapabilityRole[d])
            tables == UNION {TableContract[c] : c \in own}
            sequences == UNION {SequenceContract[c] : c \in own}
<1>1. On(held, ManagedTables[own]) = TableContract[d]
  BY DEF RoleGrants
<1>2. "graph" \in own => On(held, Sequences[{"graph"}]) = SequenceContract[d]
  BY DEF RoleGrants
<1>3. own = {"auth"} => On(held, Relations[own]) \subseteq TableContract["auth"]
  BY DEF Restricted
<1>. HIDE DEF held
<1>4. On(held, Relations[own]) = On(held, ManagedTables[own]) \cup On(held, Sequences[own])
  BY ServedParts, OnBoth
<1>5. CASE own = {"auth"}
  BY <1>3, <1>5, CredentialContract DEF held
<1>6. CASE own \subseteq {"graph", "coordination"}
  <2>1. On(held, {}) = {}
    BY DEF On
  <2>2. On(held, Sequences[own]) \subseteq sequences
    <3>1. CASE "graph" \in own
      <4>1. On(held, Sequences[own]) = SequenceContract[d]
        BY <1>2, <1>6, <3>1, ServedParts
      <4>. QED BY <4>1
    <3>2. CASE "graph" \notin own
      <4>1. On(held, Sequences[own]) = {}
        BY <1>6, <2>1, <3>2, ServedParts
      <4>. QED BY <4>1
    <3>. QED BY <3>1, <3>2
  <2>3. Contract(own) = tables \cup sequences
    BY ServedParts
  <2>4. TableContract[d] \subseteq tables
    OBVIOUS
  <2>. HIDE DEF tables, sequences
  <2>. QED BY <1>1, <1>4, <2>2, <2>3, <2>4 DEF held
<1>. QED BY <1>5, <1>6 DEF Servable

(* The queries of the authority of a login, all passed, say what its       *)
(* sessions can do to its relations and to what is foreign to it.          *)
LEMMA SessionIsExact ==
    ASSUME NEW F, MembersOfRoles(F), NEW l \in Roles, NEW own, Servable(own),
           Restricted(F, l, own), Memberships(F, l, own), LoginGrants(F, l, own), RoleGrants(F, own)
    PROVE  On(SessionCan(F, l), Relations[own \cup Foreign(own)]) = Contract(own)
<1>. DEFINE scope == Relations[own \cup Foreign(own)]
            actors == Settable(F, l) \cup {l}
<1>1. Assumable(F, l) = Inherited(F, l) \cup Settable(F, l) /\ l \in Assumable(F, l)
  BY ItselfAssumable
<1>2. actors \subseteq Assumable(F, l) /\ l \in actors
  BY <1>1
<1>3. scope = Relations[own] \cup Relations[Foreign(own)]
  BY ServedParts, Both
<1>4. On(Held(F, l), Relations[own]) = Contract(own)
  BY <1>1, LoginHolds
<1>5. ASSUME NEW a \in actors PROVE On(Held(F, a), Relations[own]) \subseteq Contract(own)
  <2>1. CASE a = l
    BY <1>4, <2>1
  <2>2. CASE a # l
    <3>1. PICK d \in own : a = CapabilityRole[d]
      BY <1>2, <2>2 DEF Memberships
    <3>. QED BY <1>2, <3>1, RoleHolds
  <2>. QED BY <2>1, <2>2
<1>6. ASSUME NEW a \in actors PROVE On(Held(F, a), Relations[Foreign(own)]) = {}
  BY <1>2 DEF Restricted, Reaches
<1>7. ASSUME NEW a \in actors
      PROVE  On(Held(F, a), scope) = On(Held(F, a), Relations[own])
  BY <1>3, <1>6, OnBoth
<1>. HIDE DEF scope, actors
<1>8. On(SessionCan(F, l), scope) = UNION {On(Held(F, a), scope) : a \in actors}
  BY DEF On, SessionCan, actors
<1>9. UNION {On(Held(F, a), scope) : a \in actors} \subseteq Contract(own)
  BY <1>5, <1>7
<1>10. Contract(own) \subseteq UNION {On(Held(F, a), scope) : a \in actors}
  BY <1>2, <1>4, <1>7
<1>. QED BY <1>8, <1>9, <1>10 DEF scope

(* The queries of a login, one by one. *)
LEMMA AuthorityPassed ==
    ASSUME config \in Configs, NEW c \in Components, NEW own \in SUBSET Components, NEW l, Accepted(c, own, l)
    PROVE  \A j \in 1..Len(AuthorityQueries(own)) : Holds(AuthorityQueries(own)[j], facts, l, own)
<1>0. config.runtime[c] \in DOMAIN LoginOf
  BY PreflightAssumption
<1>. DEFINE first == Compatibility(c)
            second == Authority(config.runtime[c], own)
            qs == AuthorityQueries(own)
<1>1. first \in Seq(Task)
  BY CompatibilityList DEF OneKind
<1>2. second \in Seq(Task)
  BY <1>0, AuthorityList DEF OneKind
<1>3. qs \in Seq(Queries) /\ Len(qs) \in Nat
  BY Listed
<1>4. second = [i \in 1..Len(qs) |-> [check |-> "authority", query |-> qs[i], url |-> config.runtime[c], components |-> own]]
  BY DEF Authority
<1>5. Len(second) = Len(qs)
  BY <1>2, <1>3, <1>4
<1>6. \A i \in 1..Len(first \o second) : Holds((first \o second)[i].query, facts, l, (first \o second)[i].components)
  BY DEF Accepted
<1>. HIDE DEF first, second, qs
<1>7. Len(first) \in Nat /\ Len(first \o second) = Len(first) + Len(second)
  BY <1>1, <1>2
<1>8. \A i \in 1..(Len(first) + Len(second)) :
         (first \o second)[i] = IF i <= Len(first) THEN first[i] ELSE second[i - Len(first)]
  BY <1>1, <1>2, ConcatProperties
<1>9. ASSUME NEW j \in 1..Len(qs) PROVE Holds(qs[j], facts, l, own)
  <2>1. Len(first) + j \in 1..Len(first \o second) /\ (first \o second)[Len(first) + j] = second[j]
    BY <1>3, <1>5, <1>7, <1>8
  <2>2. second[j].query = qs[j] /\ second[j].components = own
    BY <1>4
  <2>. QED BY <1>6, <2>1, <2>2
<1>. QED BY <1>9 DEF qs

LEMMA QueriesPassed ==
    ASSUME NEW F, NEW l, NEW own \in SUBSET Components,
           \A j \in 1..Len(AuthorityQueries(own)) : Holds(AuthorityQueries(own)[j], F, l, own)
    PROVE  Restricted(F, l, own) /\ Memberships(F, l, own) /\ LoginGrants(F, l, own) /\ RoleGrants(F, own)
<1>1. /\ Holds("restricted", F, l, own) <=> Restricted(F, l, own)
      /\ Holds("memberships", F, l, own) <=> Memberships(F, l, own)
      /\ Holds("login", F, l, own) <=> LoginGrants(F, l, own)
      /\ Holds("grants", F, l, own) <=> RoleGrants(F, own)
  BY DEF Holds
<1>2. CASE own = {"auth"}
  <2>1. /\ Len(AuthorityQueries(own)) = 7 /\ AuthorityQueries(own)[1] = "restricted"
        /\ AuthorityQueries(own)[2] = "memberships" /\ AuthorityQueries(own)[3] = "login"
        /\ AuthorityQueries(own)[5] = "grants"
    BY <1>2 DEF AuthorityQueries
  <2>2. 1 \in 1..7 /\ 2 \in 1..7 /\ 3 \in 1..7 /\ 5 \in 1..7
    OBVIOUS
  <2>. QED BY <1>1, <2>1, <2>2
<1>3. CASE own # {"auth"}
  <2>1. /\ Len(AuthorityQueries(own)) = 6 /\ AuthorityQueries(own)[1] = "restricted"
        /\ AuthorityQueries(own)[2] = "memberships" /\ AuthorityQueries(own)[5] = "grants"
        /\ AuthorityQueries(own)[6] = "login"
    BY <1>3 DEF AuthorityQueries
  <2>2. 1 \in 1..6 /\ 2 \in 1..6 /\ 5 \in 1..6 /\ 6 \in 1..6
    OBVIOUS
  <2>. QED BY <1>1, <2>1, <2>2
<1>. QED BY <1>2, <1>3

(* On any catalog, of any cluster, that passes the queries of a component  *)
(* and of its login, what a session of that login can do to what it serves *)
(* and to what is foreign to it is the capability contract, no more and no *)
(* less, and no role it can assume is elevated.                            *)
THEOREM VerifiedAuthorityIsExact == Spec => []AuthorityIsExact
<1>1. PreflightInvariant => AuthorityIsExact
  <2>. SUFFICES ASSUME PreflightInvariant, NEW p \in Permits, PermitValid(p), NEW c \in ProfileComponents(p.profile),
                       Accepted(c, Served(c, ProfileComponents(p.profile)), Login(c))
                PROVE  Exact(Served(c, ProfileComponents(p.profile)), Login(c))
    BY DEF AuthorityIsExact
  <2>. DEFINE own == Served(c, ProfileComponents(p.profile))
              l == Login(c)
  <2>1. ProfileComponents(p.profile) \in SUBSET Components
    BY DEF PermitValid, ProfileComponents, Profiles
  <2>2. c \in Components /\ config \in Configs /\ MembersOfRoles(facts)
    BY <2>1, InvariantIs DEF WorldFits
  <2>3. Servable(own) /\ own \in SUBSET Components
    BY <2>1 DEF Served, Servable, Serves, Components
  <2>4. l \in Roles
    BY <2>2, PreflightAssumption DEF Roles, Login
  <2>5. Accepted(c, own, l)
    OBVIOUS
  <2>. HIDE DEF own, l
  <2>6. \A j \in 1..Len(AuthorityQueries(own)) : Holds(AuthorityQueries(own)[j], facts, l, own)
    BY <2>2, <2>3, <2>5, AuthorityPassed
  <2>7. Restricted(facts, l, own) /\ Memberships(facts, l, own) /\ LoginGrants(facts, l, own) /\ RoleGrants(facts, own)
    BY <2>3, <2>6, QueriesPassed
  <2>8. On(SessionCan(facts, l), Relations[own \cup Foreign(own)]) = Contract(own)
    BY <2>2, <2>3, <2>4, <2>7, SessionIsExact
  <2>9. \A r \in Assumable(facts, l) : ~Elevated(facts, r)
    BY <2>7 DEF Restricted
  <2>. QED BY <2>8, <2>9 DEF Exact, own, l
<1>. QED BY <1>1, ChecksInTurn, PTL

-----------------------------------------------------------------------------
(* A database that conforms: the catalog is the provisioned one, but for   *)
(* what roles that cannot log in are members of.                           *)

Harmless(F, f) == f[1] = "member" /\ Idler(F, f[2]) /\ ~Grants(f)
Conforms(F, cs, login) ==
    MembersOfRoles(F) /\ \A f \in Differing(F, Provisioned(cs, login, Owner)) : Harmless(F, f)

LEMMA RolesApart ==
    /\ \A c \in Components : /\ CapabilityRole[c] \in Roles /\ CapabilityRole[c] \notin Logins
                            /\ CapabilityRole[c] # Owner /\ CapabilityRole[c] # "PUBLIC"
    /\ \A c, d \in Components : CapabilityRole[c] = CapabilityRole[d] => c = d
    /\ \A l \in Logins : l \in Roles /\ l # Owner /\ l # "PUBLIC"
    /\ Owner # "PUBLIC"
<1>1. Owner \in OtherRoles
  BY PreflightAssumption
<1>2. \A c, d \in Components : CapabilityRole[c] = CapabilityRole[d] => c = d
  BY DEF CapabilityRole, Components
<1>. QED BY <1>1, <1>2, RoleAssumption DEF Roles

(* What is provisioned, kind by kind. *)
IsAttribute(f, cs, login) == \E c \in cs : f = <<"attribute", login[c], "login", "-">>
IsMember(f, cs, login) == \E c \in cs : f[2] = login[c] /\ f[3] = CapabilityRole[c] /\ f[4] \in {"inherit", "set"}
IsGrant(f, cs) == \E c \in cs : f = <<"grant", CapabilityRole[c], "public", "USAGE">> \/ f \in GrantFacts(c)
IsPolicy(f, cs) == \E c \in cs : f \in Policies[c]
IsTable(f, cs) == \E c \in cs : \E t \in Tables[c] : f \in TableFacts(t, Owner)
OfKind(f, cs, login) ==
    \/ f[1] = "attribute" /\ IsAttribute(f, cs, login)
    \/ f[1] = "member" /\ IsMember(f, cs, login)
    \/ f[1] = "grant" /\ IsGrant(f, cs)
    \/ f[1] = "policy" /\ IsPolicy(f, cs)
    \/ f[1] = "owner" /\ f[2] = Owner
    \/ f[1] \in {"table", "shape", "rls"} /\ IsTable(f, cs)

LEMMA KindsOfFacts ==
    ASSUME NEW cs \in SUBSET Components, NEW login, NEW c \in cs,
           NEW f \in RoleFacts(c, login[c]) \cup ObjectFacts(c, Owner) \cup GrantFacts(c) \cup Policies[c]
    PROVE  OfKind(f, cs, login)
<1>1. CASE f \in RoleFacts(c, login[c])
  BY <1>1 DEF RoleFacts, OfKind, IsAttribute, IsMember, IsGrant
<1>2. CASE f \in ObjectFacts(c, Owner)
  <2>1. CASE \E s \in SequenceOf[c] : f = <<"owner", Owner, s, "-">>
    BY <2>1 DEF OfKind
  <2>2. CASE \E t \in Tables[c] : f \in TableFacts(t, Owner)
    <3>1. f[1] \in {"table", "shape", "rls"} \/ (f[1] = "owner" /\ f[2] = Owner)
      BY <2>2 DEF TableFacts
    <3>. QED BY <2>2, <3>1 DEF OfKind, IsTable
  <2>. QED BY <1>2, <2>1, <2>2 DEF ObjectFacts
<1>3. CASE f \in GrantFacts(c)
  <2>1. f[1] = "grant"
    BY <1>3 DEF GrantFacts
  <2>. QED BY <1>3, <2>1 DEF OfKind, IsGrant
<1>4. CASE f \in Policies[c]
  <2>1. c \in Components
    OBVIOUS
  <2>2. f[1] = "policy"
    BY <1>4, <2>1 DEF Policies
  <2>. QED BY <1>4, <2>2 DEF OfKind, IsPolicy
<1>. QED BY <1>1, <1>2, <1>3, <1>4

Provides(F, cs, login) ==
    \A c \in cs : /\ RoleFacts(c, login[c]) \subseteq F /\ GrantFacts(c) \subseteq F /\ Policies[c] \subseteq F
                  /\ \A t \in Tables[c] : TableFacts(t, Owner) \subseteq F

LEMMA ProvisionedFacts ==
    ASSUME NEW cs \in SUBSET Components, NEW login
    PROVE  /\ \A f \in Provisioned(cs, login, Owner) : OfKind(f, cs, login)
           /\ Provides(Provisioned(cs, login, Owner), cs, login)
<1>1. \A f \in Provisioned(cs, login, Owner) : OfKind(f, cs, login)
  BY KindsOfFacts DEF Provisioned
<1>2. ASSUME NEW c \in cs
      PROVE  /\ RoleFacts(c, login[c]) \subseteq Provisioned(cs, login, Owner)
             /\ GrantFacts(c) \subseteq Provisioned(cs, login, Owner) /\ Policies[c] \subseteq Provisioned(cs, login, Owner)
             /\ ObjectFacts(c, Owner) \subseteq Provisioned(cs, login, Owner)
  BY DEF Provisioned
<1>3. ASSUME NEW c \in cs, NEW t \in Tables[c] PROVE TableFacts(t, Owner) \subseteq ObjectFacts(c, Owner)
  BY DEF ObjectFacts
<1>. QED BY <1>1, <1>2, <1>3 DEF Provides

(* A fact of a conforming catalog is one of those, or a membership of a    *)
(* role that is neither one of the logins nor a capability role.           *)
Stray(f, cs, login) ==
    /\ f[1] = "member" /\ \A c \in Components : f[2] # CapabilityRole[c]
    /\ \A c \in cs : f[2] # login[c]
    /\ ~Grants(f)

LEMMA ConformingFacts ==
    ASSUME NEW F, NEW cs \in SUBSET Components, NEW login, Conforms(F, cs, login)
    PROVE  /\ Provisioned(cs, login, Owner) \subseteq F
           /\ Provides(F, cs, login)
           /\ \A f \in F : OfKind(f, cs, login) \/ Stray(f, cs, login)
           /\ \A f \in F \ Provisioned(cs, login, Owner) : f[1] = "member"
<1>. DEFINE E == Provisioned(cs, login, Owner)
<1>0. \A f \in (F \ E) \cup (E \ F) : Harmless(F, f)
  BY DEF Conforms, Differing
<1>1. \A f \in E : OfKind(f, cs, login)
  BY ProvisionedFacts
<1>2. Provides(E, cs, login)
  BY ProvisionedFacts
<1>. HIDE DEF E
<1>3. \A c \in cs : <<"attribute", login[c], "login", "-">> \in E
  BY <1>2 DEF Provides, RoleFacts
<1>4. ASSUME NEW c \in cs PROVE <<"attribute", login[c], "login", "-">> \in F
  <2>. SUFFICES ASSUME <<"attribute", login[c], "login", "-">> \notin F PROVE FALSE
    OBVIOUS
  <2>1. Harmless(F, <<"attribute", login[c], "login", "-">>)
    BY <1>0, <1>3
  <2>. QED BY <2>1 DEF Harmless
<1>5. ASSUME NEW f \in E PROVE f \in F
  <2>. SUFFICES ASSUME f \notin F PROVE FALSE
    OBVIOUS
  <2>1. f[1] = "member" /\ Idler(F, f[2])
    BY <1>0 DEF Harmless
  <2>2. IsMember(f, cs, login)
    BY <1>1, <2>1 DEF OfKind
  <2>3. PICK c \in cs : f[2] = login[c]
    BY <2>2 DEF IsMember
  <2>. QED BY <1>4, <2>1, <2>3 DEF Idler
<1>6. ASSUME NEW f \in F, f \notin E PROVE Stray(f, cs, login)
  <2>1. f[1] = "member" /\ Idler(F, f[2]) /\ ~Grants(f)
    BY <1>0, <1>6 DEF Harmless
  <2>2. \A c \in Components : f[2] # CapabilityRole[c]
    BY <2>1 DEF Idler
  <2>3. \A c \in cs : f[2] # login[c]
    BY <1>4, <2>1 DEF Idler
  <2>. QED BY <2>1, <2>2, <2>3 DEF Stray
<1>7. Provides(F, cs, login)
  BY <1>2, <1>5 DEF Provides
<1>8. \A f \in F \ E : f[1] = "member"
  BY <1>6 DEF Stray
<1>. QED BY <1>1, <1>5, <1>6, <1>7, <1>8 DEF E

(* Who can become what. *)
LEMMA ClosureAlone ==
    ASSUME NEW edges, \A e \in edges : e[2] \in Roles, NEW r \in Roles, \A e \in edges : e[1] # r
    PROVE  Closure(edges, r) = {r}
<1>1. LeastClosed(edges, {r}, Closure(edges, r))
  BY ClosureIs
<1>2. Beyond(edges, {r}) = {} /\ {r} \in SUBSET Roles
  BY DEF Beyond
<1>. QED BY <1>1, <1>2 DEF LeastClosed

LEMMA ClosureStep ==
    ASSUME NEW edges, \A e \in edges : e[2] \in Roles, NEW r \in Roles, NEW N \in SUBSET Roles,
           \A e \in edges : e[1] = r => e[2] \in N, \A n \in N : \E e \in edges : e[1] = r /\ e[2] = n,
           \A e \in edges : e[1] \notin N
    PROVE  Closure(edges, r) = {r} \cup N
<1>1. LeastClosed(edges, {r}, Closure(edges, r))
  BY ClosureIs
<1>2. Beyond(edges, {r} \cup N) = {} /\ {r} \cup N \in SUBSET Roles
  BY DEF Beyond
<1>3. Closure(edges, r) \subseteq {r} \cup N
  BY <1>1, <1>2 DEF LeastClosed
<1>4. r \in Closure(edges, r) /\ Beyond(edges, Closure(edges, r)) = {}
  BY <1>1 DEF LeastClosed
<1>5. ASSUME NEW n \in N PROVE n \in Closure(edges, r)
  BY <1>4 DEF Beyond
<1>. QED BY <1>3, <1>4, <1>5

Setting == [Components -> Logins]
CapabilitiesOf(l, cs, login) == {CapabilityRole[d] : d \in {d \in cs : login[d] = l}}
ReachOf(l, cs, login) == {l} \cup CapabilitiesOf(l, cs, login)
Through(F, S) == Edges({f \in Facts(F, "member") : f[4] \in S})

LEMMA EdgesOf ==
    ASSUME NEW F, NEW cs \in SUBSET Components, NEW login \in Setting, Conforms(F, cs, login), NEW S
    PROVE  /\ \A e \in Through(F, S) : /\ e[2] \in Roles
                                           /\ \A d \in Components : e[1] # CapabilityRole[d]
           /\ \A c \in cs : \A e \in Through(F, S) : e[1] = login[c] => e[2] \in CapabilitiesOf(login[c], cs, login)
           /\ "inherit" \in S \/ "set" \in S => \A d \in cs : <<login[d], CapabilityRole[d]>> \in Through(F, S)
<1>1. ASSUME NEW e \in Through(F, S)
      PROVE  \E f \in F : f[1] = "member" /\ f[4] \in S /\ e[1] = f[2] /\ e[2] = f[3]
  BY DEF Through, Edges, Facts
<1>2. ASSUME NEW f \in F, f[1] = "member" PROVE f[3] \in Roles /\ (IsMember(f, cs, login) \/ Stray(f, cs, login))
  <2>1. f[3] \in Roles
    BY <1>2 DEF Conforms, MembersOfRoles, Facts
  <2>. QED BY <1>2, <2>1, ConformingFacts DEF OfKind
<1>3. \A c \in cs : login[c] \in Logins
  BY DEF Setting
<1>4. ASSUME NEW f \in F, f[1] = "member", NEW d \in Components PROVE f[2] # CapabilityRole[d]
  <2>1. CASE IsMember(f, cs, login)
    BY <1>3, <2>1, RolesApart DEF IsMember
  <2>2. CASE Stray(f, cs, login)
    BY <2>2 DEF Stray
  <2>. QED BY <1>2, <1>4, <2>1, <2>2
<1>5. ASSUME NEW f \in F, f[1] = "member", NEW c \in cs, f[2] = login[c]
      PROVE  f[3] \in CapabilitiesOf(login[c], cs, login)
  <2>1. IsMember(f, cs, login)
    BY <1>2, <1>5 DEF Stray
  <2>. QED BY <1>5, <2>1 DEF IsMember, CapabilitiesOf
<1>6. ASSUME NEW d \in cs, NEW o \in {"inherit", "set"}, o \in S
      PROVE  <<login[d], CapabilityRole[d]>> \in Through(F, S)
  <2>1. Provides(F, cs, login)
    BY ConformingFacts
  <2>2. <<"member", login[d], CapabilityRole[d], o>> \in F
    BY <2>1 DEF Provides, RoleFacts
  <2>. QED BY <1>6, <2>2 DEF Through, Edges, Facts
<1>. QED BY <1>1, <1>2, <1>4, <1>5, <1>6

LEMMA CapabilityAlone ==
    ASSUME NEW F, NEW cs \in SUBSET Components, NEW login \in Setting, Conforms(F, cs, login), NEW S, NEW d \in Components
    PROVE  Closure(Through(F, S), CapabilityRole[d]) = {CapabilityRole[d]}
<1>1. CapabilityRole[d] \in Roles
  BY RolesApart
<1>. QED BY <1>1, EdgesOf, ClosureAlone

LEMMA LoginReaches ==
    ASSUME NEW F, NEW cs \in SUBSET Components, NEW login \in Setting, Conforms(F, cs, login), NEW S,
           "inherit" \in S \/ "set" \in S, NEW c \in cs
    PROVE  Closure(Through(F, S), login[c]) = ReachOf(login[c], cs, login)
<1>. DEFINE edges == Through(F, S)
            N == CapabilitiesOf(login[c], cs, login)
<1>1. login[c] \in Roles
  BY RolesApart DEF Setting
<1>2. N \in SUBSET Roles
  BY RolesApart DEF CapabilitiesOf
<1>3. \A e \in edges : e[2] \in Roles /\ e[1] \notin N
  <2>1. \A e \in edges : e[2] \in Roles /\ \A d \in Components : e[1] # CapabilityRole[d]
    BY EdgesOf
  <2>2. \A n \in N : \E d \in Components : n = CapabilityRole[d]
    BY DEF CapabilitiesOf
  <2>. HIDE DEF edges, N
  <2>. QED BY <2>1, <2>2
<1>4. \A e \in edges : e[1] = login[c] => e[2] \in N
  BY EdgesOf
<1>5. ASSUME NEW n \in N PROVE \E e \in edges : e[1] = login[c] /\ e[2] = n
  <2>1. PICK d \in cs : login[d] = login[c] /\ n = CapabilityRole[d]
    BY DEF CapabilitiesOf
  <2>2. <<login[d], CapabilityRole[d]>> \in edges
    BY EdgesOf
  <2>. QED BY <2>1, <2>2
<1>. HIDE DEF edges, N
<1>6. Closure(edges, login[c]) = {login[c]} \cup N
  BY <1>1, <1>2, <1>3, <1>4, <1>5, ClosureStep
<1>. QED BY <1>6 DEF edges, N, ReachOf

LEMMA NoSuperuser ==
    ASSUME NEW F, NEW cs \in SUBSET Components, NEW login, Conforms(F, cs, login)
    PROVE  /\ \A r : ~Super(F, r)
           /\ \A r : <<"attribute", r, "login", "-">> \in F <=> \E c \in cs : r = login[c]
<1>1. \A f \in F : f[1] = "attribute" => IsAttribute(f, cs, login)
  BY ConformingFacts DEF OfKind, Stray
<1>2. Provides(F, cs, login)
  BY ConformingFacts
<1>3. ASSUME NEW r, Super(F, r) PROVE FALSE
  <2>1. IsAttribute(<<"attribute", r, "super", "-">>, cs, login)
    BY <1>1, <1>3 DEF Super
  <2>. QED BY <2>1 DEF IsAttribute
<1>4. ASSUME NEW r, <<"attribute", r, "login", "-">> \in F PROVE \E c \in cs : r = login[c]
  <2>1. IsAttribute(<<"attribute", r, "login", "-">>, cs, login)
    BY <1>1, <1>4
  <2>. QED BY <2>1 DEF IsAttribute
<1>5. ASSUME NEW c \in cs PROVE <<"attribute", login[c], "login", "-">> \in F
  BY <1>2 DEF Provides, RoleFacts
<1>. QED BY <1>3, <1>4, <1>5

LEMMA Reach ==
    ASSUME NEW F, NEW cs \in SUBSET Components, NEW login \in Setting, Conforms(F, cs, login)
    PROVE  /\ \A d \in Components : Inherited(F, CapabilityRole[d]) = {CapabilityRole[d]}
           /\ \A c \in cs : LET l == login[c]
                                reach == ReachOf(l, cs, login)
                            IN  Inherited(F, l) = reach /\ Assumable(F, l) = reach /\ UsableBy(F, l) = reach
<1>. DEFINE inherit == {"inherit"}
            set == {"set"}
            either == {"inherit", "set"}
<1>1. \A r : Inherited(F, r) = Closure(Through(F, inherit), r)
  <2>1. Via(F, "inherit") = Through(F, inherit)
    BY DEF Via, Through
  <2>. QED BY <2>1 DEF Inherited
<1>2. \A r : Settable(F, r) = Closure(Through(F, set), r)
  <2>1. Via(F, "set") = Through(F, set)
    BY DEF Via, Through
  <2>. QED BY <2>1 DEF Settable
<1>3. \A r : ~Super(F, r)
  BY NoSuperuser
<1>4. ASSUME NEW r PROVE UsableBy(F, r) = Closure(Through(F, either), r)
  <2>. DEFINE all == Facts(F, "member")
              near == Closure(Edges({f \in all : f[4] \in {"inherit", "set"} \/ Super(F, f[2])}), r)
              beyond == UNION {Closure(Edges(all), s) : s \in {s \in near : Super(F, s)}}
  <2>1. {f \in all : f[4] \in {"inherit", "set"} \/ Super(F, f[2])} = {f \in all : f[4] \in either}
    BY <1>3
  <2>2. near = Closure(Through(F, either), r)
    BY <2>1 DEF Through
  <2>3. beyond = {}
    BY <1>3
  <2>. QED BY <2>2, <2>3 DEF UsableBy
<1>5. "inherit" \in inherit /\ "set" \in set /\ "inherit" \in either
  OBVIOUS
<1>. HIDE DEF inherit, set, either
<1>6. \A d \in Components : Inherited(F, CapabilityRole[d]) = {CapabilityRole[d]}
  BY <1>1, CapabilityAlone
<1>7. ASSUME NEW c \in cs
      PROVE  LET l == login[c]
                 reach == ReachOf(l, cs, login)
             IN  Inherited(F, l) = reach /\ Assumable(F, l) = reach /\ UsableBy(F, l) = reach
  <2>1. Closure(Through(F, inherit), login[c]) = ReachOf(login[c], cs, login)
    BY <1>5, LoginReaches, ZenonT(30)
  <2>2. Closure(Through(F, set), login[c]) = ReachOf(login[c], cs, login)
    BY <1>5, LoginReaches, ZenonT(30)
  <2>3. Closure(Through(F, either), login[c]) = ReachOf(login[c], cs, login)
    BY <1>5, LoginReaches, ZenonT(30)
  <2>. QED BY <1>1, <1>2, <1>3, <1>4, <2>1, <2>2, <2>3 DEF Assumable
<1>. QED BY <1>6, <1>7

(* What a role holds. *)
LEMMA Names ==
    /\ ManagedTables[Components] = {"user_credentials", "distributed_locks", "assets", "rebuild_jobs", "relationship_assertions"}
    /\ Sequences[Components] = {"user_credentials_id_seq", "assets_id_seq"}
    /\ \A c \in Components : Tables[c] \subseteq ManagedTables[Components] /\ SequenceOf[c] \subseteq Sequences[Components]
<1>1. ManagedTables[Components] = UNION {Tables[c] : c \in Components}
  BY DEF ManagedTables
<1>2. Sequences[Components] = UNION {SequenceOf[c] : c \in Components}
  BY DEF Sequences
<1>3. /\ Tables["auth"] = {"user_credentials"} /\ Tables["coordination"] = {"distributed_locks"}
      /\ Tables["graph"] = {"assets", "rebuild_jobs", "relationship_assertions"}
      /\ SequenceOf["auth"] = {"user_credentials_id_seq"} /\ SequenceOf["graph"] = {"assets_id_seq"}
      /\ SequenceOf["coordination"] = {}
  BY DEF Tables, SequenceOf
<1>4. \A t : t \in ManagedTables[Components] <=> t \in Tables["auth"] \/ t \in Tables["coordination"] \/ t \in Tables["graph"]
  BY <1>1 DEF Components
<1>5. \A t : t \in Sequences[Components] <=> t \in SequenceOf["auth"] \/ t \in SequenceOf["coordination"] \/ t \in SequenceOf["graph"]
  BY <1>2 DEF Components
<1>6. ManagedTables[Components] = {"user_credentials", "distributed_locks", "assets", "rebuild_jobs", "relationship_assertions"}
  BY <1>3, <1>4
<1>7. Sequences[Components] = {"user_credentials_id_seq", "assets_id_seq"}
  BY <1>3, <1>5
<1>. QED BY <1>1, <1>2, <1>6, <1>7

LEMMA PrivilegesAre ==
    /\ \A t \in ManagedTables[Components] : t \in Objects /\ PrivilegesOn[t] = WithColumns(TablePrivileges)
    /\ PrivilegesOn["assets_id_seq"] = SequencePrivileges
    /\ PrivilegesOn["public"] = {"USAGE", "CREATE"}
<1>. DEFINE On1(o) == CASE o \in ManagedTables[Components] -> WithColumns(TablePrivileges)
                       [] o \in Sequences[Components] -> SequencePrivileges
                       [] o = RejectMutation -> {"EXECUTE"}
                       [] OTHER -> {"USAGE", "CREATE"}
<1>1. Components \in SUBSET Components
  OBVIOUS
<1>2. Objects = (ManagedTables[Components] \cup Sequences[Components]) \cup {RejectMutation, "public"}
  BY <1>1 DEF Objects, Relations
<1>3. ASSUME NEW o \in Objects PROVE PrivilegesOn[o] = On1(o)
  BY DEF PrivilegesOn
<1>4. ASSUME NEW t \in ManagedTables[Components] PROVE On1(t) = WithColumns(TablePrivileges)
  <2>1. t \notin Sequences[Components] /\ t # RejectMutation
    BY Names DEF RejectMutation
  <2>. QED BY <2>1
<1>5. On1("assets_id_seq") = SequencePrivileges
  <2>1. "assets_id_seq" \notin ManagedTables[Components] /\ "assets_id_seq" \in Sequences[Components]
        /\ "assets_id_seq" # RejectMutation
    BY Names DEF RejectMutation
  <2>. QED BY <2>1
<1>6. On1("public") = {"USAGE", "CREATE"}
  <2>1. "public" \notin ManagedTables[Components] /\ "public" \notin Sequences[Components]
        /\ "public" # RejectMutation
    BY Names DEF RejectMutation
  <2>. QED BY <2>1
<1>7. "assets_id_seq" \in Objects /\ "public" \in Objects
  BY <1>2, Names
<1>. HIDE DEF On1
<1>. QED BY <1>2, <1>3, <1>4, <1>5, <1>6, <1>7

LEMMA Columns ==
    /\ \A ps : \A x : x \in WithColumns(ps) <=> \E p \in ps : x \in WithColumns({p})
    /\ \A ps, qs : ps \subseteq qs => WithColumns(ps) \subseteq WithColumns(qs)
    /\ WithColumns({"UPDATE(id)"}) = {"UPDATE(id)"} /\ "UPDATE(id)" \in WithColumns(TablePrivileges)
<1>1. \A ps : WithColumns(ps) = ps \cup UNION {OnColumns[p] : p \in ps \cap DOMAIN OnColumns}
  BY DEF WithColumns
<1>2. DOMAIN OnColumns = {"SELECT", "INSERT", "UPDATE", "REFERENCES"}
  BY DEF OnColumns
<1>3. "UPDATE(id)" \in OnColumns["UPDATE"]
  BY DEF OnColumns
<1>4. ASSUME NEW ps, NEW x PROVE x \in WithColumns(ps) <=> \E p \in ps : x \in WithColumns({p})
  BY <1>1
<1>5. "UPDATE" \in TablePrivileges
  BY DEF TablePrivileges
<1>6. ASSUME NEW ps, NEW qs, ps \subseteq qs PROVE WithColumns(ps) \subseteq WithColumns(qs)
  BY <1>1, <1>6
<1>7. WithColumns({"UPDATE(id)"}) = {"UPDATE(id)"}
  BY <1>1, <1>2
<1>8. "UPDATE(id)" \in WithColumns(TablePrivileges)
  BY <1>1, <1>2, <1>3, <1>5
<1>. QED BY <1>4, <1>6, <1>7, <1>8

(* A grant conveys a privilege on every column. *)
Conveys(f, y) == \E q \in WithColumns({f[4]}) \cap PrivilegesOn[f[3]] : y = <<f[3], q>>

GivenOn(c, t, r, y) == \E p \in Commands(c, t) \cup LockColumn(t) : Conveys(<<"grant", r, t, p>>, y)
ContractOn(c, t, y) == \E q \in WithColumns(Commands(c, t)) \cup LockColumn(t) : y = <<t, q>>

LEMMA TableConveyed ==
    ASSUME NEW c \in Components, NEW t \in Tables[c], NEW r, NEW y
    PROVE  GivenOn(c, t, r, y) <=> ContractOn(c, t, y)
<1>1. Commands(c, t) \subseteq TablePrivileges
  <2>1. CASE c = "auth"
    BY <2>1 DEF Commands, TablePrivileges
  <2>2. CASE c # "auth" /\ t = "rebuild_jobs"
    BY <2>2 DEF Commands, TablePrivileges
  <2>3. CASE c # "auth" /\ t = "relationship_assertions"
    BY <2>3 DEF Commands, TablePrivileges
  <2>4. CASE c # "auth" /\ t \notin {"rebuild_jobs", "relationship_assertions"}
    BY <2>4 DEF Commands, TablePrivileges
  <2>. QED BY <2>1, <2>2, <2>3, <2>4
<1>2. LockColumn(t) \subseteq {"UPDATE(id)"}
  BY DEF LockColumn
<1>3. PrivilegesOn[t] = WithColumns(TablePrivileges)
  BY Names, PrivilegesAre
<1>4. ASSUME NEW p \in Commands(c, t)
      PROVE  Conveys(<<"grant", r, t, p>>, y) <=> \E q \in WithColumns({p}) : y = <<t, q>>
  <2>1. WithColumns({p}) \subseteq WithColumns(TablePrivileges)
    BY <1>1, Columns
  <2>. QED BY <1>3, <2>1 DEF Conveys
<1>5. ASSUME NEW p \in LockColumn(t) PROVE Conveys(<<"grant", r, t, p>>, y) <=> y = <<t, p>>
  <2>1. p = "UPDATE(id)" /\ WithColumns({p}) \cap PrivilegesOn[t] = {p}
    BY <1>2, <1>3, Columns
  <2>. QED BY <2>1 DEF Conveys
<1>6. (\E p \in Commands(c, t) : \E q \in WithColumns({p}) : y = <<t, q>>)
        <=> \E q \in WithColumns(Commands(c, t)) : y = <<t, q>>
  <2>. DEFINE C == Commands(c, t)
  <2>1. \A q : q \in WithColumns(C) <=> \E p \in C : q \in WithColumns({p})
    BY Columns
  <2>. HIDE DEF C
  <2>2. (\E p \in C : \E q \in WithColumns({p}) : y = <<t, q>>) <=> \E q \in WithColumns(C) : y = <<t, q>>
    BY <2>1
  <2>. QED BY <2>2 DEF C
<1>7. (\E p \in Commands(c, t) : Conveys(<<"grant", r, t, p>>, y)) <=> \E q \in WithColumns(Commands(c, t)) : y = <<t, q>>
  BY <1>4, <1>6
<1>8. (\E p \in LockColumn(t) : Conveys(<<"grant", r, t, p>>, y)) <=> \E q \in LockColumn(t) : y = <<t, q>>
  BY <1>5
<1>. QED BY <1>7, <1>8 DEF GivenOn, ContractOn

LEMMA SequenceConveyed ==
    ASSUME NEW c \in Components, NEW r, NEW y
    PROVE  (\E x \in SequenceContract[c] : Conveys(<<"grant", r, x[1], x[2]>>, y)) <=> y \in SequenceContract[c]
<1>1. CASE c = "graph"
  <2>1. SequenceContract[c] = {"assets_id_seq"} \X {"USAGE", "SELECT"}
    BY <1>1 DEF SequenceContract
  <2>2. OnColumns["SELECT"] = {"SELECT(id)", "SELECT(rest)"} /\ DOMAIN OnColumns = {"SELECT", "INSERT", "UPDATE", "REFERENCES"}
    BY DEF OnColumns
  <2>3. WithColumns({"USAGE"}) = {"USAGE"} /\ WithColumns({"SELECT"}) = {"SELECT", "SELECT(id)", "SELECT(rest)"}
    BY <2>2 DEF WithColumns
  <2>4. PrivilegesOn["assets_id_seq"] = {"USAGE", "SELECT", "UPDATE"}
    BY PrivilegesAre DEF SequencePrivileges
  <2>5. ASSUME NEW x \in {"assets_id_seq"} \X {"USAGE", "SELECT"} PROVE Conveys(<<"grant", r, x[1], x[2]>>, y) <=> y = x
    <3>1. x[1] = "assets_id_seq" /\ x[2] \in {"USAGE", "SELECT"} /\ x = <<x[1], x[2]>>
      OBVIOUS
    <3>2. WithColumns({x[2]}) \cap PrivilegesOn[x[1]] = {x[2]}
      BY <2>3, <2>4, <3>1
    <3>. QED BY <3>1, <3>2 DEF Conveys
  <2>. QED BY <2>1, <2>5
<1>2. CASE c # "graph"
  BY <1>2 DEF SequenceContract
<1>. QED BY <1>1, <1>2

(* The grants of a capability convey its contract. *)
LEMMA GrantsConvey ==
    ASSUME NEW c \in Components, NEW y
    PROVE  (\E f \in GrantFacts(c) : Conveys(f, y)) <=> y \in TableContract[c] \cup SequenceContract[c]
<1>. DEFINE r == CapabilityRole[c]
            pairs == UNION {{t} \X (Commands(c, t) \cup LockColumn(t)) : t \in Tables[c]}
            Of(x) == Conveys(<<"grant", r, x[1], x[2]>>, y)
<1>1. GrantFacts(c) = {<<"grant", r, x[1], x[2]>> : x \in SequenceContract[c] \cup pairs}
  BY DEF GrantFacts
<1>2. (\E f \in GrantFacts(c) : Conveys(f, y)) <=> (\E x \in SequenceContract[c] : Of(x)) \/ (\E x \in pairs : Of(x))
  <2>. HIDE DEF pairs, r
  <2>. QED BY <1>1
<1>3. y \in TableContract[c] <=> \E t \in Tables[c] : ContractOn(c, t, y)
  <2>1. TableContract[c] = UNION {{<<t, p>> : p \in WithColumns(Commands(c, t)) \cup LockColumn(t)} : t \in Tables[c]}
    BY DEF TableContract
  <2>. QED BY <2>1 DEF ContractOn
<1>4. (\E x \in pairs : Of(x)) <=> \E t \in Tables[c] : GivenOn(c, t, r, y)
  <2>. HIDE DEF r
  <2>1. ASSUME NEW x \in pairs, Of(x) PROVE \E t \in Tables[c] : GivenOn(c, t, r, y)
    <3>1. PICK t \in Tables[c] : x \in {t} \X (Commands(c, t) \cup LockColumn(t))
      OBVIOUS
    <3>2. x[1] = t /\ x[2] \in Commands(c, t) \cup LockColumn(t)
      BY <3>1
    <3>. QED BY <2>1, <3>2 DEF GivenOn
  <2>2. ASSUME NEW t \in Tables[c], GivenOn(c, t, r, y) PROVE \E x \in pairs : Of(x)
    <3>1. PICK p \in Commands(c, t) \cup LockColumn(t) : Conveys(<<"grant", r, t, p>>, y)
      BY <2>2 DEF GivenOn
    <3>2. <<t, p>> \in pairs
      OBVIOUS
    <3>3. Of(<<t, p>>)
      BY <3>1
    <3>. QED BY <3>2, <3>3
  <2>. HIDE DEF pairs, Of
  <2>. QED BY <2>1, <2>2
<1>5. (\E x \in pairs : Of(x)) <=> y \in TableContract[c]
  BY <1>3, <1>4, TableConveyed
<1>6. (\E x \in SequenceContract[c] : Of(x)) <=> y \in SequenceContract[c]
  BY SequenceConveyed
<1>. HIDE DEF pairs, Of
<1>. QED BY <1>2, <1>5, <1>6

LEMMA DirectIs ==
    ASSUME NEW F, NEW r, ~\E f \in F : f[1] = "owner" /\ f[2] = r, NEW y
    PROVE  y \in Direct(F, r) <=> \E f \in F : f[1] = "grant" /\ f[2] = r /\ Conveys(f, y)
<1>. DEFINE own == {f \in F : f[2] = r}
            owned == {f[3] : f \in Facts(own, "owner")}
            granted == Facts(own, "grant")
            Given(f) == {f[3]} \X (WithColumns({f[4]}) \cap PrivilegesOn[f[3]])
<1>1. Direct(F, r) = Everything(owned) \cup UNION {Given(f) : f \in granted}
  BY DEF Direct
<1>2. owned = {}
  BY DEF Facts
<1>3. Everything({}) = {}
  BY DEF Everything
<1>4. \A f : f \in granted <=> f \in F /\ f[1] = "grant" /\ f[2] = r
  BY DEF Facts
<1>5. ASSUME NEW f PROVE y \in Given(f) <=> Conveys(f, y)
  BY DEF Conveys
<1>. HIDE DEF own, owned, granted, Given
<1>6. y \in Direct(F, r) <=> \E f \in granted : y \in Given(f)
  BY <1>1, <1>2, <1>3
<1>. QED BY <1>4, <1>5, <1>6

Grant(d) == (TableContract[d] \cup SequenceContract[d]) \cup {<<"public", "USAGE">>}

LEMMA Directly ==
    ASSUME NEW F, NEW cs \in SUBSET Components, NEW login \in Setting, Conforms(F, cs, login)
    PROVE  /\ \A d \in cs : Direct(F, CapabilityRole[d]) = Grant(d)
           /\ \A r : r # Owner /\ (\A d \in cs : r # CapabilityRole[d]) => Direct(F, r) = {}
<1>1. \A f \in F : f[1] = "owner" => f[2] = Owner
  BY ConformingFacts DEF OfKind, Stray
<1>2. \A f \in F : f[1] = "grant" => IsGrant(f, cs)
  BY ConformingFacts DEF OfKind, Stray
<1>3. \A d \in Components : \A f \in GrantFacts(d) : f[1] = "grant" /\ f[2] = CapabilityRole[d]
  BY DEF GrantFacts
<1>4. ASSUME NEW f \in F, f[1] = "grant" PROVE \E d \in cs : f[2] = CapabilityRole[d]
  BY <1>2, <1>3, <1>4 DEF IsGrant
<1>5. ASSUME NEW d \in cs, NEW y PROVE y \in Direct(F, CapabilityRole[d]) <=> y \in Grant(d)
  <2>. DEFINE r == CapabilityRole[d]
              usage == <<"grant", r, "public", "USAGE">>
  <2>1. ~\E f \in F : f[1] = "owner" /\ f[2] = r
    BY <1>1, RolesApart
  <2>2. y \in Direct(F, r) <=> \E f \in F : f[1] = "grant" /\ f[2] = r /\ Conveys(f, y)
    BY <2>1, DirectIs
  <2>3. ASSUME NEW f PROVE f \in F /\ f[1] = "grant" /\ f[2] = r <=> f = usage \/ f \in GrantFacts(d)
    <3>1. ASSUME f \in F, f[1] = "grant", f[2] = r PROVE f = usage \/ f \in GrantFacts(d)
      <4>1. PICK c \in cs : f = <<"grant", CapabilityRole[c], "public", "USAGE">> \/ f \in GrantFacts(c)
        BY <1>2, <3>1 DEF IsGrant
      <4>2. f[2] = CapabilityRole[c]
        BY <1>3, <4>1
      <4>3. c = d
        BY <3>1, <4>2, RolesApart
      <4>. QED BY <4>1, <4>3
    <3>2. Provides(F, cs, login)
      BY ConformingFacts
    <3>3. usage \in F /\ GrantFacts(d) \subseteq F
      BY <3>2 DEF Provides, RoleFacts
    <3>4. \A g \in GrantFacts(d) : g[1] = "grant" /\ g[2] = r
      BY <1>3
    <3>. QED BY <3>1, <3>3, <3>4
  <2>4. Conveys(usage, y) <=> y = <<"public", "USAGE">>
    <3>1. WithColumns({"USAGE"}) = {"USAGE"}
      BY DEF WithColumns, OnColumns
    <3>2. WithColumns({"USAGE"}) \cap PrivilegesOn["public"] = {"USAGE"}
      BY <3>1, PrivilegesAre
    <3>. QED BY <3>2 DEF Conveys
  <2>5. (\E f \in GrantFacts(d) : Conveys(f, y)) <=> y \in TableContract[d] \cup SequenceContract[d]
    BY GrantsConvey
  <2>. HIDE DEF usage, r
  <2>6. y \in Direct(F, r) <=> y = <<"public", "USAGE">> \/ y \in TableContract[d] \cup SequenceContract[d]
    BY <2>2, <2>3, <2>4, <2>5
  <2>. QED BY <2>6 DEF r, Grant
<1>6. ASSUME NEW r, r # Owner, \A d \in cs : r # CapabilityRole[d] PROVE Direct(F, r) = {}
  <2>1. ~\E f \in F : f[1] = "owner" /\ f[2] = r
    BY <1>1, <1>6
  <2>2. ~\E f \in F : f[1] = "grant" /\ f[2] = r
    BY <1>4, <1>6
  <2>. QED BY <2>1, <2>2, DirectIs
<1>7. ASSUME NEW d \in cs PROVE Direct(F, CapabilityRole[d]) = Grant(d)
  BY <1>5
<1>. QED BY <1>6, <1>7

LEMMA HeldIs ==
    ASSUME NEW F, NEW cs \in SUBSET Components, NEW login \in Setting, Conforms(F, cs, login)
    PROVE  /\ \A d \in cs : Held(F, CapabilityRole[d]) = Grant(d)
           /\ \A c \in cs : Held(F, login[c]) = UNION {Grant(d) : d \in {d \in cs : login[d] = login[c]}}
<1>1. ASSUME NEW r PROVE Held(F, r) = UNION {Direct(F, a) : a \in Inherited(F, r) \cup {"PUBLIC"}}
  BY NoSuperuser DEF Held
<1>2. Direct(F, "PUBLIC") = {}
  BY Directly, RolesApart
<1>3. ASSUME NEW d \in cs PROVE Held(F, CapabilityRole[d]) = Grant(d)
  <2>1. Inherited(F, CapabilityRole[d]) = {CapabilityRole[d]}
    BY Reach
  <2>2. Direct(F, CapabilityRole[d]) = Grant(d)
    BY Directly
  <2>. QED BY <1>1, <1>2, <2>1, <2>2
<1>4. ASSUME NEW c \in cs PROVE Held(F, login[c]) = UNION {Grant(d) : d \in {d \in cs : login[d] = login[c]}}
  <2>. DEFINE ds == {d \in cs : login[d] = login[c]}
  <2>1. Inherited(F, login[c]) = {login[c]} \cup {CapabilityRole[d] : d \in ds}
    <3>1. Inherited(F, login[c]) = ReachOf(login[c], cs, login)
      BY Reach
    <3>. QED BY <3>1 DEF ReachOf, CapabilitiesOf
  <2>2. Direct(F, login[c]) = {}
    <3>1. login[c] \in Logins
      BY DEF Setting
    <3>2. login[c] # Owner /\ \A d \in cs : login[c] # CapabilityRole[d]
      BY <3>1, RolesApart
    <3>. QED BY <3>2, Directly
  <2>3. \A d \in ds : Direct(F, CapabilityRole[d]) = Grant(d)
    BY Directly
  <2>. HIDE DEF ds
  <2>4. ASSUME NEW y PROVE (\E a \in Inherited(F, login[c]) \cup {"PUBLIC"} : y \in Direct(F, a)) <=> \E d \in ds : y \in Grant(d)
    BY <1>2, <2>1, <2>2, <2>3
  <2>5. UNION {Direct(F, a) : a \in Inherited(F, login[c]) \cup {"PUBLIC"}} = UNION {Grant(d) : d \in ds}
    BY <2>4
  <2>. QED BY <1>1, <2>5 DEF ds
<1>. QED BY <1>3, <1>4

(* Every relation is of one component. *)
LEMMA Placed ==
    ASSUME NEW X \in SUBSET Components, NEW o
    PROVE  /\ o \in ManagedTables[X] <=> \E c \in X : o \in Tables[c]
           /\ o \in Sequences[X] <=> \E c \in X : o \in SequenceOf[c]
           /\ o \in Relations[X] <=> o \in ManagedTables[X] \/ o \in Sequences[X]
  BY DEF ManagedTables, Sequences, Relations

LEMMA Apart ==
    ASSUME NEW c \in Components, NEW d \in Components, NEW o
    PROVE  /\ o \in Tables[c] /\ o \in Tables[d] => c = d
           /\ o \in SequenceOf[c] /\ o \in SequenceOf[d] => c = d
           /\ ~(o \in Tables[c] /\ o \in SequenceOf[d])
           /\ o \in Tables[c] \/ o \in SequenceOf[c] => o # "public" /\ o # RejectMutation
<1>1. /\ Tables["auth"] = {"user_credentials"} /\ Tables["coordination"] = {"distributed_locks"}
      /\ Tables["graph"] = {"assets", "rebuild_jobs", "relationship_assertions"}
      /\ SequenceOf["auth"] = {"user_credentials_id_seq"} /\ SequenceOf["graph"] = {"assets_id_seq"}
      /\ SequenceOf["coordination"] = {}
  BY DEF Tables, SequenceOf
<1>2. /\ o \in Tables[c] /\ o \in Tables[d] => c = d
      /\ o \in SequenceOf[c] /\ o \in SequenceOf[d] => c = d
      /\ ~(o \in Tables[c] /\ o \in SequenceOf[d])
  BY <1>1 DEF Components
<1>3. o \in Tables[c] \/ o \in SequenceOf[c] => o # "public" /\ o # RejectMutation
  BY <1>1 DEF Components, RejectMutation
<1>. QED BY <1>2, <1>3

LEMMA OnGrant ==
    ASSUME NEW d \in Components, NEW X \in SUBSET Components
    PROVE  /\ d \in X => On(Grant(d), ManagedTables[X]) = TableContract[d]
           /\ d \in X => On(Grant(d), Sequences[X]) = SequenceContract[d]
           /\ d \notin X => On(Grant(d), ManagedTables[X]) = {} /\ On(Grant(d), Sequences[X]) = {} /\ On(Grant(d), Relations[X]) = {}
           /\ <<"public", "USAGE">> \in Grant(d)
           /\ <<"public", "CREATE">> \notin Grant(d) /\ <<RejectMutation, "EXECUTE">> \notin Grant(d)
<1>1. \A x \in TableContract[d] : x[1] \in Tables[d]
  BY ContractScope
<1>2. \A x \in SequenceContract[d] : x[1] \in SequenceOf[d]
  BY ContractScope
<1>3. \A o : /\ o \in ManagedTables[X] <=> \E c \in X : o \in Tables[c]
             /\ o \in Sequences[X] <=> \E c \in X : o \in SequenceOf[c]
             /\ o \in Relations[X] <=> o \in ManagedTables[X] \/ o \in Sequences[X]
  BY Placed
<1>4. ASSUME NEW o \in Tables[d] PROVE (o \in ManagedTables[X] <=> d \in X) /\ o \notin Sequences[X]
  <2>1. \A c \in X : (o \in Tables[c] => c = d) /\ o \notin SequenceOf[c]
    BY Apart
  <2>. QED BY <1>3, <2>1
<1>5. ASSUME NEW o \in SequenceOf[d] PROVE (o \in Sequences[X] <=> d \in X) /\ o \notin ManagedTables[X]
  <2>1. \A c \in X : (o \in SequenceOf[c] => c = d) /\ o \notin Tables[c]
    BY Apart
  <2>. QED BY <1>3, <2>1
<1>6. "public" \notin ManagedTables[X] /\ "public" \notin Sequences[X]
  <2>1. \A c \in X : "public" \notin Tables[c] /\ "public" \notin SequenceOf[c]
    BY Apart
  <2>. QED BY <1>3, <2>1
<1>7. \A x : x \in Grant(d) <=> x \in TableContract[d] \/ x \in SequenceContract[d] \/ x = <<"public", "USAGE">>
  BY DEF Grant
<1>8. ASSUME d \in X PROVE On(Grant(d), ManagedTables[X]) = TableContract[d]
  BY <1>1, <1>2, <1>4, <1>5, <1>6, <1>7, <1>8 DEF On
<1>9. ASSUME d \in X PROVE On(Grant(d), Sequences[X]) = SequenceContract[d]
  BY <1>1, <1>2, <1>4, <1>5, <1>6, <1>7, <1>9 DEF On
<1>10. ASSUME d \notin X, NEW x \in Grant(d)
       PROVE  x[1] \notin ManagedTables[X] /\ x[1] \notin Sequences[X] /\ x[1] \notin Relations[X]
  BY <1>1, <1>2, <1>3, <1>4, <1>5, <1>6, <1>7, <1>10
<1>11. /\ "public" \notin Tables[d] /\ "public" \notin SequenceOf[d]
       /\ RejectMutation \notin Tables[d] /\ RejectMutation \notin SequenceOf[d]
  BY Apart
<1>12. <<"public", "CREATE">> \notin Grant(d) /\ <<RejectMutation, "EXECUTE">> \notin Grant(d)
  BY <1>1, <1>2, <1>7, <1>11 DEF RejectMutation
<1>. QED BY <1>7, <1>8, <1>9, <1>10, <1>12 DEF On

-----------------------------------------------------------------------------
(* Every query holds of a catalog that conforms. *)

LEMMA SchemaHolds ==
    ASSUME NEW F, NEW cs \in SUBSET Components, NEW login, Conforms(F, cs, login), NEW own \in SUBSET cs
    PROVE  Schema(F, own)
<1>1. Provides(F, cs, login)
  BY ConformingFacts
<1>2. own \in SUBSET Components
  OBVIOUS
<1>3. ASSUME NEW t \in ManagedTables[own] PROVE <<"table", "-", t, "-">> \in F /\ <<"shape", "-", t, "-">> \in F
  <2>1. PICK c \in own : t \in Tables[c]
    BY <1>2, Placed
  <2>. QED BY <1>1, <2>1 DEF Provides, TableFacts
<1>. QED BY <1>3 DEF Schema, Shaped

LEMMA PoliciesOf ==
    ASSUME NEW c \in Components
    PROVE  \A f \in Policies[c] : f[1] = "policy" /\ f[3] \in Tables[c]
  BY DEF Policies

LEMMA RlsHolds ==
    ASSUME NEW F, NEW cs \in SUBSET Components, NEW login, Conforms(F, cs, login), NEW own \in SUBSET cs
    PROVE  RlsCatalog(F, own)
<1>1. Provides(F, cs, login)
  BY ConformingFacts
<1>2. own \in SUBSET Components
  OBVIOUS
<1>3. ASSUME NEW t \in ManagedTables[own] PROVE <<"rls", "-", t, "-">> \in F
  <2>1. PICK c \in own : t \in Tables[c]
    BY <1>2, Placed
  <2>. QED BY <1>1, <2>1 DEF Provides, TableFacts
<1>4. \A f \in F : f[1] = "policy" => IsPolicy(f, cs)
  BY ConformingFacts DEF OfKind, Stray
<1>5. ASSUME NEW f \in F, f[1] = "policy", f[3] \in ManagedTables[own] PROVE \E c \in own : f \in Policies[c]
  <2>1. PICK c \in cs : f \in Policies[c]
    BY <1>4, <1>5 DEF IsPolicy
  <2>2. f[3] \in Tables[c]
    BY <2>1, PoliciesOf
  <2>3. PICK d \in own : f[3] \in Tables[d]
    BY <1>2, <1>5, Placed
  <2>4. c = d
    BY <2>2, <2>3, Apart
  <2>. QED BY <2>1, <2>4
<1>6. ASSUME NEW c \in own, NEW f \in Policies[c] PROVE f \in F /\ f[1] = "policy" /\ f[3] \in ManagedTables[own]
  <2>1. f \in F
    BY <1>1 DEF Provides
  <2>2. f[1] = "policy" /\ f[3] \in Tables[c]
    BY PoliciesOf
  <2>. QED BY <1>2, <2>1, <2>2, Placed
<1>7. {f \in Facts(F, "policy") : f[3] \in ManagedTables[own]} = UNION {Policies[c] : c \in own}
  BY <1>5, <1>6 DEF Facts
<1>. QED BY <1>3, <1>7 DEF RlsCatalog

LEMMA GrantsHold ==
    ASSUME NEW F, NEW cs \in SUBSET Components, NEW login \in Setting, Conforms(F, cs, login), NEW own \in SUBSET cs,
           Servable(own)
    PROVE  RoleGrants(F, own)
<1>1. ASSUME NEW c \in own
      PROVE  /\ On(Held(F, CapabilityRole[c]), ManagedTables[own]) = TableContract[c]
             /\ "graph" \in own => On(Held(F, CapabilityRole[c]), Sequences[{"graph"}]) = SequenceContract[c]
  <2>1. Held(F, CapabilityRole[c]) = Grant(c)
    BY HeldIs
  <2>2. On(Grant(c), ManagedTables[own]) = TableContract[c]
    BY OnGrant
  <2>3. {"graph"} \in SUBSET Components
    BY DEF Components
  <2>4. ASSUME "graph" \in own PROVE On(Grant(c), Sequences[{"graph"}]) = SequenceContract[c]
    <3>1. CASE c = "graph"
      BY <2>3, <3>1, OnGrant
    <3>2. CASE c # "graph"
      <4>1. c = "coordination"
        BY <2>4, <3>2 DEF Servable
      <4>2. SequenceContract["coordination"] = {}
        BY DEF SequenceContract, Components
      <4>3. On(Grant(c), Sequences[{"graph"}]) = {}
        BY <2>3, <3>2, OnGrant
      <4>. QED BY <4>1, <4>2, <4>3
    <3>. QED BY <3>1, <3>2
  <2>. QED BY <2>1, <2>2, <2>4
<1>. QED BY <1>1 DEF RoleGrants

LEMMA PostureHolds ==
    ASSUME NEW F, NEW cs \in SUBSET Components, NEW login \in Setting, Conforms(F, cs, login), "auth" \in cs
    PROVE  AuthPosture(F)
<1>1. \A f \in F : f[1] = "grant" => IsGrant(f, cs)
  BY ConformingFacts DEF OfKind, Stray
<1>2. \A f \in F : f[1] # "trigger"
  BY ConformingFacts DEF OfKind, Stray
<1>3. \A d \in Components : \A f \in GrantFacts(d) : f[2] = CapabilityRole[d]
  BY DEF GrantFacts
<1>4. ~\E f \in F : f[1] = "grant" /\ f[2] = "PUBLIC"
  BY <1>1, <1>3, RolesApart DEF IsGrant
<1>5. {"auth"} \in SUBSET Components /\ SequenceContract["auth"] = {} /\ "auth" \in Components
  BY DEF Components, SequenceContract
<1>6. Held(F, CapabilityRole["auth"]) = Grant("auth")
  BY HeldIs
<1>7. On(Grant("auth"), Sequences[{"auth"}]) = {}
  BY <1>5, OnGrant
<1>. QED BY <1>2, <1>4, <1>6, <1>7 DEF AuthPosture, Facts

LEMMA AtMostOne ==
    ASSUME NEW S, NEW x, S \subseteq {x}
    PROVE  Cardinality(S) <= 1
<1>1. CASE S = {}
  BY <1>1, FS_EmptySet
<1>2. CASE S = {x}
  BY <1>2, FS_Singleton
<1>. QED BY <1>1, <1>2

(* What is foreign to the components served is none of theirs. *)
LEMMA ForeignApart ==
    ASSUME NEW own, Servable(own), NEW d \in own
    PROVE  Foreign(own) \in SUBSET Components /\ d \notin Foreign(own) /\ On(Grant(d), Relations[Foreign(own)]) = {}
<1>1. Foreign(own) \in SUBSET Components /\ d \notin Foreign(own) /\ d \in Components
  BY DEF Foreign, Servable, Components
<1>. QED BY <1>1, OnGrant

LEMMA RolesHold ==
    ASSUME NEW F, NEW cs \in SUBSET Components, NEW login \in Setting, Conforms(F, cs, login), NEW own \in SUBSET cs,
           Servable(own), NEW c \in own
    PROVE  SafeRole(F, c, own)
<1>. DEFINE r == CapabilityRole[c]
            logins == {l \in Roles : <<"attribute", l, "login", "-">> \in F}
<1>0. c \in cs /\ c \in Components /\ r \notin Logins /\ r # Owner
  BY RolesApart
<1>1. <<"attribute", r, "login", "-">> \notin F /\ ~Super(F, r)
  <2>1. \A d \in cs : login[d] \in Logins
    BY DEF Setting
  <2>. QED BY <1>0, <2>1, NoSuperuser
<1>2. Held(F, r) = Grant(c)
  BY <1>0, HeldIs
<1>3. <<"public", "CREATE">> \notin Held(F, r) /\ <<RejectMutation, "EXECUTE">> \notin Held(F, r) /\ <<"public", "USAGE">> \in Held(F, r)
  BY <1>0, <1>2, OnGrant
<1>4. ~Reaches(F, r, Foreign(own))
  BY <1>2, ForeignApart DEF Reaches
<1>5. ~Owns(F, r, Relations[own])
  <2>1. \A f \in F : f[1] = "owner" => f[2] = Owner
    BY ConformingFacts DEF OfKind, Stray
  <2>. QED BY <1>0, <2>1 DEF Owns, Facts
<1>6. ASSUME NEW f \in F, f[1] = "member" PROVE f[2] # r /\ ~(f[3] = r /\ f[4] = "admin")
  <2>1. IsMember(f, cs, login) \/ Stray(f, cs, login)
    BY <1>6, ConformingFacts DEF OfKind
  <2>2. CASE IsMember(f, cs, login)
    <3>1. PICK d \in cs : f[2] = login[d] /\ f[4] \in {"inherit", "set"}
      BY <2>2 DEF IsMember
    <3>2. login[d] \in Logins
      BY DEF Setting
    <3>. QED BY <1>0, <3>1, <3>2
  <2>3. CASE Stray(f, cs, login)
    BY <1>0, <2>3 DEF Stray, Grants
  <2>. QED BY <2>1, <2>2, <2>3
<1>7. ASSUME NEW l \in logins, r \in UsableBy(F, l) \ {l} PROVE l = login[c]
  <2>1. PICK d \in cs : l = login[d]
    BY NoSuperuser
  <2>2. UsableBy(F, login[d]) = ReachOf(login[d], cs, login)
    BY Reach
  <2>3. r \in CapabilitiesOf(login[d], cs, login)
    BY <1>7, <2>1, <2>2 DEF ReachOf
  <2>4. PICK e \in cs : r = CapabilityRole[e] /\ login[e] = login[d]
    BY <2>3 DEF CapabilitiesOf
  <2>5. e = c
    BY <1>0, <2>4, RolesApart
  <2>. QED BY <2>1, <2>4, <2>5
<1>8. Cardinality({l \in logins : r \in UsableBy(F, l) \ {l}}) <= 1
  <2>1. {l \in logins : r \in UsableBy(F, l) \ {l}} \subseteq {login[c]}
    BY <1>7
  <2>. QED BY <2>1, AtMostOne
<1>9. \A f \in Facts(F, "member") : f[2] # r /\ ~(f[3] = r /\ f[4] = "admin")
  BY <1>6 DEF Facts
<1>. QED BY <1>1, <1>3, <1>4, <1>5, <1>8, <1>9 DEF SafeRole, Elevated, CallsReject

(* The components one login is there for. *)
ActorsOf(l, own) == {l} \cup {CapabilityRole[d] : d \in own}
Together(c, own, cs, login) == c \in cs /\ own = {d \in cs : login[d] = login[c]}

LEMMA LoginHas ==
    ASSUME NEW F, NEW cs \in SUBSET Components, NEW login \in Setting, Conforms(F, cs, login), NEW c, NEW own,
           Together(c, own, cs, login)
    PROVE  /\ c \in own /\ own \in SUBSET cs
           /\ Assumable(F, login[c]) = ActorsOf(login[c], own)
           /\ Held(F, login[c]) = UNION {Grant(d) : d \in own}
           /\ login[c] \in Logins
<1>1. c \in cs /\ own = {d \in cs : login[d] = login[c]}
  BY DEF Together
<1>2. Assumable(F, login[c]) = ReachOf(login[c], cs, login)
  BY <1>1, Reach
<1>3. Assumable(F, login[c]) = ActorsOf(login[c], own)
  BY <1>1, <1>2 DEF ReachOf, CapabilitiesOf, ActorsOf
<1>4. Held(F, login[c]) = UNION {Grant(d) : d \in own}
  BY <1>1, HeldIs
<1>5. login[c] \in Logins
  BY <1>1 DEF Setting
<1>. QED BY <1>1, <1>3, <1>4, <1>5

LEMMA MembershipsHold ==
    ASSUME NEW F, NEW cs \in SUBSET Components, NEW login \in Setting, Conforms(F, cs, login), NEW c, NEW own,
           Together(c, own, cs, login)
    PROVE  Memberships(F, login[c], own)
<1>1. own \in SUBSET cs /\ login[c] \in Logins
  BY LoginHas
<1>2. \A d \in own : CapabilityRole[d] # login[c]
  BY <1>1, RolesApart
<1>3. Assumable(F, login[c]) = ActorsOf(login[c], own)
  BY LoginHas
<1>. QED BY <1>2, <1>3 DEF Memberships, ActorsOf

(* What a login, or one of its roles, holds. *)
LEMMA ActorHas ==
    ASSUME NEW F, NEW cs \in SUBSET Components, NEW login \in Setting, Conforms(F, cs, login), NEW c, NEW own,
           Together(c, own, cs, login), NEW r \in Assumable(F, login[c])
    PROVE  /\ r # Owner
           /\ \A y \in Held(F, r) : \E d \in own : y \in Grant(d)
<1>1. own \in SUBSET cs /\ login[c] \in Logins
  BY LoginHas
<1>2. r \in ActorsOf(login[c], own)
  BY LoginHas
<1>3. CASE r = login[c]
  <2>1. Held(F, r) = UNION {Grant(d) : d \in own}
    BY <1>3, LoginHas
  <2>. QED BY <1>1, <1>3, <2>1, RolesApart
<1>4. CASE r # login[c]
  <2>1. PICK d \in own : r = CapabilityRole[d]
    BY <1>2, <1>4 DEF ActorsOf
  <2>2. Held(F, r) = Grant(d)
    BY <1>1, <2>1, HeldIs
  <2>. QED BY <1>1, <2>1, <2>2, RolesApart
<1>. QED BY <1>3, <1>4

LEMMA RestrictedHolds ==
    ASSUME NEW F, NEW cs \in SUBSET Components, NEW login \in Setting, Conforms(F, cs, login), NEW c, NEW own,
           Together(c, own, cs, login), Servable(own)
    PROVE  Restricted(F, login[c], own)
<1>. SUFFICES ASSUME NEW r \in Assumable(F, login[c])
              PROVE  /\ ~Elevated(F, r) /\ ~Reaches(F, r, Foreign(own)) /\ ~CallsReject(F, r)
                     /\ \A os : ~Owns(F, r, os)
                     /\ own = {"auth"} => On(Held(F, r), Relations[{"auth"}]) \subseteq TableContract["auth"]
  BY DEF Restricted
<1>0. own \in SUBSET cs
  BY LoginHas
<1>1. r # Owner /\ \A y \in Held(F, r) : \E d \in own : y \in Grant(d)
  BY ActorHas
<1>2. ~Super(F, r)
  BY NoSuperuser
<1>3. \A d \in own : <<"public", "CREATE">> \notin Grant(d) /\ <<RejectMutation, "EXECUTE">> \notin Grant(d)
  <2>1. Components \in SUBSET Components
    OBVIOUS
  <2>. QED BY <1>0, <2>1, OnGrant
<1>4. ~Elevated(F, r) /\ ~CallsReject(F, r)
  BY <1>1, <1>2, <1>3 DEF Elevated, CallsReject
<1>5. \A d \in own : On(Grant(d), Relations[Foreign(own)]) = {}
  BY ForeignApart
<1>6. ~Reaches(F, r, Foreign(own))
  BY <1>1, <1>5 DEF Reaches, On
<1>7. \A os : ~Owns(F, r, os)
  <2>1. \A f \in F : f[1] = "owner" => f[2] = Owner
    BY ConformingFacts DEF OfKind, Stray
  <2>. QED BY <1>1, <2>1 DEF Owns, Facts
<1>8. ASSUME own = {"auth"} PROVE On(Held(F, r), Relations[{"auth"}]) \subseteq TableContract["auth"]
  <2>1. {"auth"} \in SUBSET Components /\ "auth" \in Components /\ SequenceContract["auth"] = {}
    BY DEF Components, SequenceContract
  <2>2. \A o : o \in Relations[{"auth"}] <=> o \in ManagedTables[{"auth"}] \/ o \in Sequences[{"auth"}]
    BY <2>1, Placed
  <2>3. /\ On(Grant("auth"), ManagedTables[{"auth"}]) = TableContract["auth"]
        /\ On(Grant("auth"), Sequences[{"auth"}]) = {}
    BY <2>1, OnGrant
  <2>4. \A y \in Held(F, r) : y \in Grant("auth")
    BY <1>1, <1>8
  <2>. QED BY <2>2, <2>3, <2>4 DEF On
<1>. QED BY <1>4, <1>6, <1>7, <1>8

LEMMA LoginGrantsHold ==
    ASSUME NEW F, NEW cs \in SUBSET Components, NEW login \in Setting, Conforms(F, cs, login), NEW c, NEW own,
           Together(c, own, cs, login), Servable(own)
    PROVE  LoginGrants(F, login[c], own)
<1>0. own \in SUBSET cs /\ own \in SUBSET Components
  BY LoginHas
<1>1. Held(F, login[c]) = UNION {Grant(d) : d \in own}
  BY LoginHas
<1>2. \A os : On(UNION {Grant(d) : d \in own}, os) = UNION {On(Grant(d), os) : d \in own}
  BY DEF On
<1>3. \A d \in own : On(Grant(d), ManagedTables[own]) = TableContract[d]
  BY <1>0, OnGrant
<1>4. On(Held(F, login[c]), ManagedTables[own]) = UNION {TableContract[d] : d \in own}
  BY <1>1, <1>2, <1>3
<1>5. ASSUME "graph" \in own PROVE On(Held(F, login[c]), Sequences[{"graph"}]) = SequenceContract["graph"]
  <2>1. {"graph"} \in SUBSET Components
    BY DEF Components
  <2>2. On(Grant("graph"), Sequences[{"graph"}]) = SequenceContract["graph"]
    BY <1>0, <1>5, <2>1, OnGrant
  <2>3. \A d \in own : d # "graph" => On(Grant(d), Sequences[{"graph"}]) = {}
    BY <1>0, <2>1, OnGrant
  <2>4. On(Held(F, login[c]), Sequences[{"graph"}]) = UNION {On(Grant(d), Sequences[{"graph"}]) : d \in own}
    BY <1>1, <1>2
  <2>5. \A y : (\E d \in own : y \in On(Grant(d), Sequences[{"graph"}])) <=> y \in On(Grant("graph"), Sequences[{"graph"}])
    BY <1>5, <2>3
  <2>. QED BY <2>2, <2>4, <2>5
<1>. QED BY <1>4, <1>5 DEF LoginGrants

-----------------------------------------------------------------------------
(* What the runtime checks of a run may ask. *)

Compatible(t, c) ==
    /\ t.components = {c} /\ t.url = config.runtime[c]
    /\ t.query \in {"schema", "roles", "rls", "grants"} \/ (t.query = "posture" /\ c = "auth")
Authorized(t, c, cs) ==
    /\ t.components = Served(c, cs) /\ t.url = config.runtime[c]
    /\ t.query \in {"restricted", "memberships", "login", "roles", "rls", "grants"} \/ (t.query = "posture" /\ c = "auth")
PlannedTasks(cs) == {t \in Task : \E c \in cs : Compatible(t, c) \/ Authorized(t, c, cs)}

LEMMA CompatibilityAsks ==
    ASSUME NEW c \in Components
    PROVE  /\ Len(CompatibilityQueries(c)) \in Nat
           /\ \A i \in 1..Len(CompatibilityQueries(c)) :
                \/ CompatibilityQueries(c)[i] \in {"schema", "roles", "rls", "grants"}
                \/ CompatibilityQueries(c)[i] = "posture" /\ c = "auth"
<1>1. CASE c = "auth"
  <2>1. CompatibilityQueries(c) = <<"schema", "roles", "grants", "rls", "posture">>
    BY <1>1 DEF CompatibilityQueries
  <2>2. \A i \in 1..5 : i = 1 \/ i = 2 \/ i = 3 \/ i = 4 \/ i = 5
    OBVIOUS
  <2>. QED BY <1>1, <2>1, <2>2
<1>2. CASE c # "auth"
  <2>1. CompatibilityQueries(c) = <<"schema", "roles", "rls", "grants">>
    BY <1>2 DEF CompatibilityQueries
  <2>2. \A i \in 1..4 : i = 1 \/ i = 2 \/ i = 3 \/ i = 4
    OBVIOUS
  <2>. QED BY <2>1, <2>2
<1>. QED BY <1>1, <1>2

LEMMA AuthorityAsks ==
    ASSUME NEW cs
    PROVE  /\ Len(AuthorityQueries(cs)) \in Nat
           /\ \A i \in 1..Len(AuthorityQueries(cs)) :
                \/ AuthorityQueries(cs)[i] \in {"restricted", "memberships", "login", "roles", "rls", "grants"}
                \/ AuthorityQueries(cs)[i] = "posture" /\ cs = {"auth"}
<1>1. CASE cs = {"auth"}
  <2>1. AuthorityQueries(cs) = <<"restricted", "memberships", "login", "roles", "grants", "rls", "posture">>
    BY <1>1 DEF AuthorityQueries
  <2>2. \A i \in 1..7 : i = 1 \/ i = 2 \/ i = 3 \/ i = 4 \/ i = 5 \/ i = 6 \/ i = 7
    OBVIOUS
  <2>3. Len(<<"restricted", "memberships", "login", "roles", "grants", "rls", "posture">>) = 7
    OBVIOUS
  <2>. QED BY <1>1, <2>1, <2>2, <2>3
<1>2. CASE cs # {"auth"}
  <2>1. AuthorityQueries(cs) = <<"restricted", "memberships", "roles", "rls", "grants", "login">>
    BY <1>2 DEF AuthorityQueries
  <2>2. \A i \in 1..6 : i = 1 \/ i = 2 \/ i = 3 \/ i = 4 \/ i = 5 \/ i = 6
    OBVIOUS
  <2>3. Len(<<"restricted", "memberships", "roles", "rls", "grants", "login">>) = 6
    OBVIOUS
  <2>. QED BY <2>1, <2>2, <2>3
<1>. QED BY <1>1, <1>2

LEMMA CompatibilityPlanned ==
    ASSUME config \in Configs, NEW cs \in SUBSET Components, NEW c \in cs
    PROVE  Compatibility(c) \in Seq(PlannedTasks(cs))
<1>. DEFINE qs == CompatibilityQueries(c)
<1>1. OneKind(Compatibility(c), "runtime")
  BY CompatibilityList
<1>2. Len(qs) \in Nat /\ \A i \in 1..Len(qs) : \/ qs[i] \in {"schema", "roles", "rls", "grants"}
                                               \/ qs[i] = "posture" /\ c = "auth"
  BY CompatibilityAsks
<1>3. Compatibility(c) = [i \in 1..Len(qs) |-> [check |-> "runtime", query |-> qs[i], url |-> config.runtime[c], components |-> {c}]]
  BY DEF Compatibility
<1>. HIDE DEF qs
<1>4. \A i \in 1..Len(qs) : Compatible(Compatibility(c)[i], c)
  BY <1>2, <1>3 DEF Compatible
<1>5. Len(Compatibility(c)) = Len(qs)
  BY <1>1, <1>2, <1>3 DEF OneKind
<1>6. \A i \in 1..Len(qs) : Compatibility(c)[i] \in Task
  BY <1>1, <1>5 DEF OneKind
<1>7. \A i \in 1..Len(qs) : Compatibility(c)[i] \in PlannedTasks(cs)
  BY <1>4, <1>6 DEF PlannedTasks
<1>. QED BY <1>2, <1>3, <1>7

LEMMA ServedBy ==
    ASSUME NEW cs \in SUBSET Components, NEW c \in cs
    PROVE  /\ Served(c, cs) \in SUBSET cs /\ c \in Served(c, cs) /\ Servable(Served(c, cs))
           /\ Served(c, cs) = {"auth"} => c = "auth"
<1>1. CASE c = "auth"
  BY <1>1 DEF Served, Servable
<1>2. CASE c # "auth"
  <2>1. Served(c, cs) = {d \in cs \ {"auth"} : config.runtime[d] = config.runtime[c]}
    BY <1>2 DEF Served, Serves
  <2>. QED BY <1>2, <2>1 DEF Servable, Components
<1>. QED BY <1>1, <1>2

LEMMA AuthorityPlanned ==
    ASSUME config \in Configs, NEW cs \in SUBSET Components, NEW c \in cs
    PROVE  Authority(config.runtime[c], Served(c, cs)) \in Seq(PlannedTasks(cs))
<1>. DEFINE own == Served(c, cs)
            u == config.runtime[c]
            qs == AuthorityQueries(own)
<1>0. u \in DOMAIN LoginOf /\ own \in SUBSET Components /\ (own = {"auth"} => c = "auth")
  BY PreflightAssumption, ServedBy
<1>1. OneKind(Authority(u, own), "authority")
  BY <1>0, AuthorityList
<1>2. Len(qs) \in Nat /\ \A i \in 1..Len(qs) : \/ qs[i] \in {"restricted", "memberships", "login", "roles", "rls", "grants"}
                                               \/ qs[i] = "posture" /\ own = {"auth"}
  BY AuthorityAsks
<1>3. Authority(u, own) = [i \in 1..Len(qs) |-> [check |-> "authority", query |-> qs[i], url |-> u, components |-> own]]
  BY DEF Authority
<1>. HIDE DEF qs
<1>4. \A i \in 1..Len(qs) : Authorized(Authority(u, own)[i], c, cs)
  BY <1>0, <1>2, <1>3 DEF Authorized
<1>. HIDE DEF own, u
<1>5. Len(Authority(u, own)) = Len(qs)
  BY <1>1, <1>2, <1>3 DEF OneKind
<1>6. \A i \in 1..Len(qs) : Authority(u, own)[i] \in Task
  BY <1>1, <1>5 DEF OneKind
<1>7. \A i \in 1..Len(qs) : Authority(u, own)[i] \in PlannedTasks(cs)
  BY <1>4, <1>6 DEF PlannedTasks
<1>8. Authority(u, own) \in Seq(PlannedTasks(cs))
  BY <1>2, <1>3, <1>7
<1>. QED BY <1>8 DEF own, u

LEMMA Planned ==
    ASSUME config \in Configs, NEW cs \in SUBSET Components
    PROVE  CompatibilityTodo(cs) \in Seq(PlannedTasks(cs)) /\ AuthorityTodo(cs) \in Seq(PlannedTasks(cs))
<1>. DEFINE S == PlannedTasks(cs)
<1>. HIDE DEF S
<1>0. <<>> \in Seq(S) /\ \A s, t \in Seq(S) : s \o t \in Seq(S)
  BY ConcatProperties
<1>1. CompatibilityTodo(cs) \in Seq(S)
  <2>. DEFINE of(c) == IF c \in cs THEN Compatibility(c) ELSE <<>>
  <2>1. \A c \in Components : of(c) \in Seq(S)
    BY <1>0, CompatibilityPlanned DEF S
  <2>2. CompatibilityTodo(cs) = (of("auth") \o of("graph")) \o of("coordination")
    BY DEF CompatibilityTodo
  <2>. HIDE DEF of
  <2>. QED BY <1>0, <2>1, <2>2 DEF Components
<1>2. AuthorityTodo(cs) \in Seq(S)
  <2>. DEFINE stores == cs \ {"auth"}
              first == IF "graph" \in stores THEN "graph" ELSE "coordination"
              of(c) == IF c \in cs THEN Authority(config.runtime[c], Served(c, cs)) ELSE <<>>
              three == IF stores = {"graph", "coordination"} /\ config.runtime["graph"] # config.runtime["coordination"]
                       THEN of("coordination") ELSE <<>>
  <2>1. \A c \in Components : of(c) \in Seq(S)
    BY <1>0, AuthorityPlanned DEF S
  <2>2. AuthorityTodo(cs) = (of("auth") \o of(first)) \o three
    BY DEF AuthorityTodo
  <2>3. first \in Components /\ "auth" \in Components /\ "coordination" \in Components
    BY DEF Components
  <2>. HIDE DEF of, first, stores
  <2>4. three \in Seq(S)
    BY <1>0, <2>1, <2>3
  <2>. HIDE DEF three
  <2>. QED BY <1>0, <2>1, <2>2, <2>3, <2>4
<1>. QED BY <1>1, <1>2 DEF S

(* The logins of the settings; a login that is shared only by what it      *)
(* serves.                                                                 *)
LoginSetting == [c \in Components |-> Login(c)]

LEMMA SettingIs ==
    ASSUME config \in Configs
    PROVE  /\ LoginSetting \in Setting /\ \A c \in Components : LoginSetting[c] = Login(c)
           /\ \A cs \in SUBSET Components : Expected(cs) = Provisioned(cs, LoginSetting, Owner)
<1>1. LoginSetting \in Setting
  BY PreflightAssumption DEF Login, LoginSetting, Setting
<1>2. \A c \in Components : LoginSetting[c] = Login(c)
  BY DEF LoginSetting
<1>3. ASSUME NEW cs \in SUBSET Components PROVE Expected(cs) = Provisioned(cs, LoginSetting, Owner)
  <2>. DEFINE login == LoginSetting
  <2>1. login \in [Components -> Logins]
    BY <1>1 DEF Setting
  <2>2. Expected(cs) = Conforming[login][cs]
    BY DEF Expected, LoginSetting
  <2>. HIDE DEF login
  <2>3. Conforming[login][cs] = Provisioned(cs, login, Owner)
    BY <2>1 DEF Conforming
  <2>. QED BY <2>2, <2>3 DEF login
<1>. QED BY <1>1, <1>2, <1>3

LEMMA SharedByAll ==
    ASSUME config \in Configs, NEW cs \in SUBSET Components, Shared(cs) = {}, NEW c \in cs
    PROVE  Together(c, Served(c, cs), cs, LoginSetting)
<1>1. {d \in cs : Login(d) = Login(c)} = Served(c, cs)
  BY DEF Shared
<1>2. {d \in cs : LoginSetting[d] = LoginSetting[c]} = {d \in cs : Login(d) = Login(c)}
  BY SettingIs
<1>. QED BY <1>1, <1>2 DEF Together

LEMMA TaskHolds ==
    ASSUME config \in Configs, NEW F, NEW cs \in SUBSET Components, Conforms(F, cs, LoginSetting), Shared(cs) = {},
           NEW t \in PlannedTasks(cs)
    PROVE  Holds(t.query, F, LoginOf[t.url], t.components)
<1>0. LoginSetting \in Setting
  BY SettingIs
<1>1. PICK c \in cs : Compatible(t, c) \/ Authorized(t, c, cs)
  BY DEF PlannedTasks
<1>. DEFINE own == t.components
            l == LoginOf[t.url]
<1>2. own \in SUBSET cs /\ Servable(own)
  <2>1. CASE Compatible(t, c)
    BY <2>1 DEF Compatible, Servable, Components
  <2>2. CASE Authorized(t, c, cs)
    <3>1. own = Served(c, cs)
      BY <2>2 DEF Authorized
    <3>2. Served(c, cs) \in SUBSET cs /\ Servable(Served(c, cs))
      BY ServedBy
    <3>. QED BY <3>1, <3>2
  <2>. QED BY <1>1, <2>1, <2>2
<1>3. t.query = "posture" => "auth" \in cs
  BY <1>1 DEF Compatible, Authorized
<1>4. \/ t.query \in {"schema", "roles", "rls", "grants", "posture"}
      \/ Authorized(t, c, cs) /\ t.query \in {"restricted", "memberships", "login"}
  <2>1. Compatible(t, c) => t.query \in {"schema", "roles", "rls", "grants", "posture"}
    BY DEF Compatible
  <2>2. Authorized(t, c, cs) => \/ t.query \in {"roles", "rls", "grants", "posture"}
                               \/ t.query \in {"restricted", "memberships", "login"}
    BY DEF Authorized
  <2>. QED BY <1>1, <2>1, <2>2
<1>5. ASSUME Authorized(t, c, cs)
      PROVE  Restricted(F, l, own) /\ Memberships(F, l, own) /\ LoginGrants(F, l, own)
  <2>1. own = Served(c, cs) /\ l = LoginSetting[c]
    BY <1>5, SettingIs DEF Authorized, Login
  <2>2. Together(c, own, cs, LoginSetting)
    BY <2>1, SharedByAll
  <2>. HIDE DEF own, l
  <2>3. Restricted(F, LoginSetting[c], own) /\ LoginGrants(F, LoginSetting[c], own)
    BY <1>0, <1>2, <2>2, RestrictedHolds, LoginGrantsHold
  <2>4. Memberships(F, LoginSetting[c], own)
    BY <1>0, <2>2, MembershipsHold
  <2>. QED BY <2>1, <2>3, <2>4
<1>. HIDE DEF own, l
<1>6. Schema(F, own) /\ RlsCatalog(F, own) /\ RoleGrants(F, own) /\ (\A d \in own : SafeRole(F, d, own))
  BY <1>0, <1>2, SchemaHolds, RlsHolds, GrantsHold, RolesHold
<1>7. "auth" \in cs => AuthPosture(F)
  BY <1>0, PostureHolds
<1>8. /\ Holds("schema", F, l, own) <=> Schema(F, own)
      /\ Holds("roles", F, l, own) <=> \A d \in own : SafeRole(F, d, own)
      /\ Holds("rls", F, l, own) <=> RlsCatalog(F, own)
      /\ Holds("grants", F, l, own) <=> RoleGrants(F, own)
      /\ Holds("posture", F, l, own) <=> AuthPosture(F)
      /\ Holds("restricted", F, l, own) <=> Restricted(F, l, own)
      /\ Holds("memberships", F, l, own) <=> Memberships(F, l, own)
      /\ Holds("login", F, l, own) <=> LoginGrants(F, l, own)
  BY DEF Holds
<1>9. CASE t.query \in {"schema", "roles", "rls", "grants", "posture"}
  <2>1. Holds("schema", F, l, own) /\ Holds("roles", F, l, own) /\ Holds("rls", F, l, own) /\ Holds("grants", F, l, own)
    BY <1>6, <1>8
  <2>2. t.query = "posture" => Holds("posture", F, l, own)
    BY <1>3, <1>7, <1>8
  <2>3. Holds(t.query, F, l, own)
    BY <1>9, <2>1, <2>2
  <2>. QED BY <2>3 DEF own, l
<1>10. CASE Authorized(t, c, cs) /\ t.query \in {"restricted", "memberships", "login"}
  <2>1. Holds("restricted", F, l, own) /\ Holds("memberships", F, l, own) /\ Holds("login", F, l, own)
    BY <1>5, <1>8, <1>10
  <2>2. Holds(t.query, F, l, own)
    BY <1>10, <2>1
  <2>. QED BY <2>2 DEF own, l
<1>. QED BY <1>4, <1>9, <1>10

(* A catalog that conforms is never found to differ. *)
LEMMA CatalogAgrees ==
    ASSUME config \in Configs, NEW F, NEW cs \in SUBSET Components, Conforms(F, cs, LoginSetting)
    PROVE  CatalogState(F, cs) # "drift"
<1>. DEFINE E == Expected(cs)
<1>1. E = Provisioned(cs, LoginSetting, Owner)
  BY SettingIs
<1>2. E \subseteq F /\ \A f \in F \ E : f[1] = "member"
  BY <1>1, ConformingFacts
<1>. HIDE DEF E
<1>3. Portable(F, cs) = Portable(E, cs)
  BY <1>2 DEF Portable
<1>4. Privileges(F, cs) = Privileges(E, cs)
  BY <1>2 DEF Privileges, Facts
<1>5. Owners(F, cs) = Owners(E, cs)
  BY <1>2 DEF Owners, Facts
<1>6. Normalized(F, cs) = Normalized(E, cs)
  BY <1>3, <1>4, <1>5 DEF Normalized
<1>. QED BY <1>6 DEF CatalogState, E, NotEvaluated

-----------------------------------------------------------------------------
(* Drift is proved, or comes from a query nobody answered. *)

Found == Deviating(facts, applied, run.permit)
MarkerIs(p) == \E f \in Ledger(Manifest, p.profile) : f.time = p.marker
Scheduled == run.todo \in Seq(PlannedTasks(ProfileComponents(run.permit.profile)))
Witnessed ==
    /\ run.pc # "idle" => /\ Found \subseteq met
                          /\ MarkerIs(run.permit)
                          /\ Scheduled
    /\ Drifts(run.checks, run.failed) \/ Drifts(report.checks, run.failed) => met # {}

LEMMA NothingFound ==
    ASSUME WorldFits, RunFits(run), run.pc # "idle", Found = {}
    PROVE  /\ applied = ExpectedHistory(run.permit)
           /\ Conforms(facts, ProfileComponents(run.permit.profile), LoginSetting)
           /\ Shared(ProfileComponents(run.permit.profile)) = {}
<1>. DEFINE cs == ProfileComponents(run.permit.profile)
            p == run.permit
<1>0. cs \in SUBSET Components /\ config \in Configs /\ MembersOfRoles(facts)
  BY Scope DEF WorldFits
<1>1. Expected(cs) = Provisioned(cs, LoginSetting, Owner)
  BY <1>0, SettingIs
<1>2. /\ {f \in Differing(facts, Expected(cs)) : ~Harmless(facts, f)} = {}
      /\ {<<"applied", v>> : v \in Differing(applied, ExpectedHistory(p))} = {}
      /\ {<<"login", c>> : c \in Shared(cs)} = {}
  BY DEF Found, Deviating, Harmless
<1>. HIDE DEF cs, p
<1>3. Conforms(facts, cs, LoginSetting)
  BY <1>0, <1>1, <1>2 DEF Conforms
<1>4. Differing(applied, ExpectedHistory(p)) = {}
  BY <1>2
<1>5. applied = ExpectedHistory(p)
  BY <1>4 DEF Differing
<1>6. Shared(cs) = {}
  BY <1>2
<1>. QED BY <1>3, <1>5, <1>6 DEF cs, p

(* The settings stay as they are, and with them what is expected. *)
LEMMA SameSettings ==
    ASSUME config' = config
    PROVE  /\ Found' = Deviating(facts', applied', run'.permit)
           /\ Scheduled' <=> run'.todo \in Seq(PlannedTasks(ProfileComponents(run'.permit.profile)))
<1>1. Found' = Deviating(facts', applied', run'.permit)
  BY DEF Found, Deviating, Expected, Shared, Login, Served, Serves, ExpectedHistory, Differing, Idler, Grants
<1>2. Scheduled' <=> run'.todo \in Seq(PlannedTasks(ProfileComponents(run'.permit.profile)))
  BY DEF Scheduled, PlannedTasks, Authorized, Compatible, Served, Serves
<1>. QED BY <1>1, <1>2

LEMMA NoDrift ==
    ASSUME NEW failed
    PROVE  /\ ~Drifts(Unchecked, failed) /\ ~Drifts(NoReport.checks, failed)
           /\ ~Drifts([NoReport EXCEPT !.status = "failed"].checks, failed)
  BY DEF Drifts, Unchecked, NotEvaluated, NoReport

LEMMA FailWitnessed ==
    ASSUME Fail
    PROVE  Witnessed'
<1>1. run' = Idle /\ report' = [NoReport EXCEPT !.status = "failed"]
  BY DEF Fail
<1>2. run'.pc = "idle" /\ run'.checks = Unchecked
  BY <1>1 DEF Idle
<1>3. ~Drifts(run'.checks, run'.failed) /\ ~Drifts(report'.checks, run'.failed)
  BY <1>1, <1>2, NoDrift
<1>. QED BY <1>2, <1>3 DEF Witnessed, Drifts

LEMMA RunWitnessed ==
    ASSUME Witnessed, World, run.pc # "idle", NEW r, To(r), r.permit = run.permit,
           r.todo \in Seq(PlannedTasks(ProfileComponents(run.permit.profile))),
           run.failed \subseteq r.failed, Drifts(r.checks, r.failed) => met # {}
    PROVE  Witnessed'
<1>1. run' = r /\ report' = report /\ met' = met /\ facts' = facts /\ applied' = applied /\ config' = config
  BY DEF To, World
<1>2. Found' = Found
  BY <1>1, SameSettings DEF Found
<1>3. Found' \subseteq met' /\ MarkerIs(run'.permit)
  BY <1>1, <1>2 DEF Witnessed
<1>4. Scheduled'
  BY <1>1, SameSettings
<1>5. Drifts(report.checks, r.failed) => Drifts(report.checks, run.failed)
  BY DEF Drifts
<1>6. Drifts(run'.checks, run'.failed) \/ Drifts(report'.checks, run'.failed) => met' # {}
  BY <1>1, <1>5 DEF Witnessed
<1>. QED BY <1>3, <1>4, <1>6 DEF Witnessed, MarkerIs, Drifts

LEMMA StartWitnessed ==
    ASSUME Start, RunFits(run)
    PROVE  Witnessed'
<1>1. PICK p \in Permits :
        \/ /\ PermitValid(p) /\ run' = [Idle EXCEPT !.pc = "connect", !.permit = p] /\ report' = report
           /\ met' = Deviating(facts, applied, p)
        \/ Fail
  BY DEF Start
<1>2. report = NoReport /\ facts' = facts /\ applied' = applied /\ config' = config
  BY DEF Start, World
<1>3. CASE /\ PermitValid(p) /\ run' = [Idle EXCEPT !.pc = "connect", !.permit = p] /\ report' = report
           /\ met' = Deviating(facts, applied, p)
  <2>1. run'.permit = p /\ run'.todo = <<>> /\ run'.checks = Unchecked
    BY <1>3 DEF Idle
  <2>2. Found' \subseteq met'
    BY <1>2, <1>3, <2>1, SameSettings
  <2>3. MarkerIs(p)
    BY <1>3 DEF PermitValid, MarkerIs
  <2>4. ~Drifts(run'.checks, run'.failed) /\ ~Drifts(report'.checks, run'.failed)
    BY <1>2, <1>3, <2>1, NoDrift
  <2>5. Scheduled'
    BY <1>2, <2>1, SameSettings
  <2>. QED BY <2>1, <2>2, <2>3, <2>4, <2>5 DEF Witnessed, MarkerIs, Drifts
<1>. QED BY <1>1, <1>3, FailWitnessed

(* An outcome is only a drift when something was found. *)
LEMMA OneMore ==
    ASSUME Witnessed, run.checks \in Checks, NEW name \in {"history", "catalog", "runtime", "authority", "parity"},
           NEW s \in Outcome, s = "drift" => met # {}
    PROVE  Drifts([run.checks EXCEPT ![name] = s], run.failed) => met # {}
<1>1. /\ [run.checks EXCEPT ![name] = s][name] = s
      /\ \A other \in {"history", "catalog", "runtime", "authority", "parity"} \ {name} :
           [run.checks EXCEPT ![name] = s][other] = run.checks[other]
  BY DEF Checks
<1>. QED BY <1>1 DEF Drifts, Witnessed

LEMMA HistoryWitnessed ==
    ASSUME WorldFits, RunFits(run), Witnessed, ReadHistory
    PROVE  Witnessed'
<1>1. run.pc = "history" /\ World
  BY DEF ReadHistory
<1>2. PICK s \in Inspecting(IF applied = ExpectedHistory(run.permit) THEN "passed" ELSE "drift") :
        To([run EXCEPT !.pc = "catalog", !.checks = Check("history", s)])
  BY DEF ReadHistory
<1>3. s \in Outcome /\ (s = "drift" => applied # ExpectedHistory(run.permit))
  BY DEF Inspecting, Outcome, NotEvaluated
<1>4. s = "drift" => met # {}
  BY <1>1, <1>3, NothingFound DEF Witnessed
<1>5. run \in Runs /\ run.checks \in Checks
  BY DEF RunFits, Runs
<1>6. Drifts([run.checks EXCEPT !["history"] = s], run.failed) => met # {}
  BY <1>3, <1>4, <1>5, OneMore
<1>. DEFINE checks == [run.checks EXCEPT !["history"] = s]
            r == [run EXCEPT !.pc = "catalog", !.checks = checks]
<1>7. To(r)
  BY <1>2 DEF Check
<1>. HIDE DEF checks
<1>8. r.permit = run.permit /\ r.todo = run.todo /\ r.checks = checks /\ r.failed = run.failed
  BY <1>5 DEF Runs
<1>. HIDE DEF r
<1>9. r.todo \in Seq(PlannedTasks(ProfileComponents(run.permit.profile)))
  BY <1>1, <1>8 DEF Witnessed, Scheduled
<1>. QED BY <1>1, <1>6, <1>7, <1>8, <1>9, RunWitnessed DEF checks

LEMMA CatalogWitnessed ==
    ASSUME WorldFits, RunFits(run), Witnessed, ReadCatalog
    PROVE  Witnessed'
<1>. DEFINE cs == ProfileComponents(run.permit.profile)
            todo == CompatibilityTodo(cs)
<1>1. run.pc = "catalog" /\ World
  BY DEF ReadCatalog
<1>2. PICK s \in Inspecting(CatalogState(facts, cs)) :
        To([run EXCEPT !.pc = "query", !.checks = Check("catalog", s), !.todo = todo])
  BY DEF ReadCatalog
<1>3. s \in Outcome /\ (s = "drift" => CatalogState(facts, cs) = "drift")
  BY DEF Inspecting, CatalogState, Outcome, NotEvaluated
<1>4. cs \in SUBSET Components /\ config \in Configs
  BY <1>1, Scope DEF WorldFits
<1>5. s = "drift" => met # {}
  <2>. SUFFICES ASSUME met = {} PROVE CatalogState(facts, cs) # "drift"
    BY <1>3
  <2>1. Found = {}
    BY <1>1 DEF Witnessed
  <2>2. Conforms(facts, cs, LoginSetting)
    BY <1>1, <2>1, NothingFound
  <2>. QED BY <1>4, <2>2, CatalogAgrees
<1>6. run \in Runs /\ run.checks \in Checks
  BY DEF RunFits, Runs
<1>7. Drifts([run.checks EXCEPT !["catalog"] = s], run.failed) => met # {}
  BY <1>3, <1>5, <1>6, OneMore
<1>8. todo \in Seq(PlannedTasks(cs))
  BY <1>4, Planned
<1>. DEFINE checks == [run.checks EXCEPT !["catalog"] = s]
            r == [run EXCEPT !.pc = "query", !.checks = checks, !.todo = todo]
<1>9. To(r)
  BY <1>2 DEF Check
<1>. HIDE DEF checks, todo
<1>10. r.permit = run.permit /\ r.todo = todo /\ r.checks = checks /\ r.failed = run.failed
  BY <1>6 DEF Runs
<1>. HIDE DEF r
<1>. QED BY <1>1, <1>7, <1>8, <1>9, <1>10, RunWitnessed DEF checks

(* A step that only goes on. *)
LEMMA OnwardWitnessed ==
    ASSUME Witnessed, World, run.pc # "idle", NEW r, To(r), r.permit = run.permit, r.todo = run.todo, r.checks = run.checks,
           r.failed = run.failed
    PROVE  Witnessed'
<1>1. r.todo \in Seq(PlannedTasks(ProfileComponents(run.permit.profile))) /\ (Drifts(r.checks, r.failed) => met # {})
  BY DEF Witnessed, Scheduled
<1>. QED BY <1>1, RunWitnessed

LEMMA ConnectWitnessed ==
    ASSUME RunFits(run), Witnessed, Connect \/ ProveRoutes
    PROVE  Witnessed'
<1>1. run \in Runs
  BY DEF RunFits, Runs
<1>2. CASE Connect
  <2>. DEFINE r == [run EXCEPT !.pc = "prove", !.connected = incarnation]
  <2>1. run.pc # "idle" /\ World /\ (To(r) \/ Fail)
    BY <1>2 DEF Connect
  <2>2. r.permit = run.permit /\ r.todo = run.todo /\ r.checks = run.checks /\ r.failed = run.failed
    BY <1>1 DEF Runs
  <2>. HIDE DEF r
  <2>. QED BY <2>1, <2>2, OnwardWitnessed, FailWitnessed
<1>3. CASE ProveRoutes
  <2>. DEFINE r == [run EXCEPT !.pc = "history"]
  <2>1. run.pc # "idle" /\ World /\ (To(r) \/ Fail)
    BY <1>3 DEF ProveRoutes
  <2>2. r.permit = run.permit /\ r.todo = run.todo /\ r.checks = run.checks /\ r.failed = run.failed
    BY <1>1 DEF Runs
  <2>. HIDE DEF r
  <2>. QED BY <2>1, <2>2, OnwardWitnessed, FailWitnessed
<1>. QED BY <1>2, <1>3

(* After a check, what comes next is planned. *)
LEMMA NextPlanned ==
    ASSUME WorldFits, RunFits(run), run.pc = "query", NEW checks, NEW failed
    PROVE  LET r == AfterCheck([run EXCEPT !.checks = checks, !.failed = failed])
           IN  /\ r.permit = run.permit /\ r.checks = checks /\ r.failed = failed
               /\ r.todo \in Seq(PlannedTasks(ProfileComponents(run.permit.profile)))
<1>. DEFINE cs == ProfileComponents(run.permit.profile)
            todo == AuthorityTodo(cs)
            b == [run EXCEPT !.checks = checks, !.failed = failed]
            S == PlannedTasks(cs)
<1>1. todo \in Seq(S) /\ <<>> \in Seq(S)
  BY Scope, Planned DEF WorldFits
<1>2. run \in Runs
  BY DEF RunFits, Runs
<1>3. AfterCheck(b) = [b EXCEPT !.todo = todo] \/ AfterCheck(b) = [b EXCEPT !.todo = <<>>, !.pc = "gate"]
  BY DEF AfterCheck
<1>. HIDE DEF todo, S
<1>4. /\ AfterCheck(b).permit = run.permit /\ AfterCheck(b).checks = checks /\ AfterCheck(b).failed = failed
      /\ AfterCheck(b).todo \in {todo, <<>>}
  BY <1>2, <1>3 DEF Runs
<1>. HIDE DEF b
<1>5. AfterCheck(b).todo \in Seq(S)
  BY <1>1, <1>4
<1>. QED BY <1>4, <1>5 DEF b, S

LEMMA QueryWitnessed ==
    ASSUME WorldFits, RunFits(run), Witnessed, Query
    PROVE  Witnessed'
<1>. DEFINE q == Head(run.todo)
            cs == ProfileComponents(run.permit.profile)
            S == PlannedTasks(cs)
            rest == [run EXCEPT !.todo = Tail(run.todo)]
            With(s) == [run EXCEPT !.checks = [run.checks EXCEPT ![q.check] = s]]
            Failing == [run EXCEPT !.checks = [run.checks EXCEPT ![q.check] = "drift"],
                                   !.failed = run.failed \cup {q.check}]
<1>1. run.pc = "query" /\ run.pc # "idle" /\ World
  BY DEF Query
<1>2. \/ Len(run.todo) # 1 /\ To(rest)
      \/ To(AfterCheck(With("passed")))
      \/ ~Holds(q.query, facts, LoginOf[q.url], q.components) /\ To(AfterCheck(With("drift")))
      \/ To(AfterCheck(run))
      \/ To(AfterCheck(Failing))
  BY DEF Query, Check
<1>3. /\ run \in Runs /\ run.todo # <<>> /\ run.checks \in Checks /\ q.check \in {"runtime", "authority"}
  BY <1>1, Queried
<1>4. cs \in SUBSET Components /\ config \in Configs
  BY <1>1, Scope DEF WorldFits
<1>5. run.todo \in Seq(S)
  BY <1>1 DEF Witnessed, Scheduled
<1>. HIDE DEF S
<1>6. q \in S /\ Tail(run.todo) \in Seq(S)
  BY <1>3, <1>5, HeadTailProperties
<1>7. CASE Len(run.todo) # 1 /\ To(rest)
  <2>1. /\ rest.permit = run.permit /\ rest.todo = Tail(run.todo)
        /\ rest.checks = run.checks /\ rest.failed = run.failed
    BY <1>3 DEF Runs
  <2>2. Drifts(rest.checks, rest.failed) => met # {}
    BY <2>1 DEF Witnessed
  <2>3. rest.todo \in Seq(PlannedTasks(ProfileComponents(run.permit.profile)))
    BY <1>6, <2>1 DEF S
  <2>. HIDE DEF rest
  <2>. QED BY <1>1, <1>7, <2>1, <2>2, <2>3, RunWitnessed
<1>8. ASSUME NEW checks, NEW failed, run.failed \subseteq failed, Drifts(checks, failed) => met # {},
             To(AfterCheck([run EXCEPT !.checks = checks, !.failed = failed]))
      PROVE  Witnessed'
  <2>. DEFINE r == AfterCheck([run EXCEPT !.checks = checks, !.failed = failed])
  <2>1. /\ r.permit = run.permit /\ r.checks = checks /\ r.failed = failed
        /\ r.todo \in Seq(PlannedTasks(ProfileComponents(run.permit.profile)))
    BY <1>1, NextPlanned
  <2>2. To(r)
    BY <1>8
  <2>. HIDE DEF r
  <2>. QED BY <1>1, <1>8, <2>1, <2>2, RunWitnessed
<1>9. ~Holds(q.query, facts, LoginOf[q.url], q.components) => met # {}
  <2>. SUFFICES ASSUME met = {} PROVE Holds(q.query, facts, LoginOf[q.url], q.components)
    OBVIOUS
  <2>1. Found = {}
    BY <1>1 DEF Witnessed
  <2>2. Conforms(facts, cs, LoginSetting) /\ Shared(cs) = {}
    BY <1>1, <2>1, NothingFound
  <2>3. q \in PlannedTasks(cs)
    BY <1>6 DEF S
  <2>. HIDE DEF q, cs
  <2>. QED BY <1>4, <2>2, <2>3, TaskHolds
<1>10. ASSUME NEW s \in {"passed", "drift"}, s = "drift" => met # {}
       PROVE  Drifts([run.checks EXCEPT ![q.check] = s], run.failed) => met # {}
  <2>1. s \in Outcome /\ q.check \in {"history", "catalog", "runtime", "authority", "parity"}
    BY <1>3 DEF Outcome
  <2>. HIDE DEF q
  <2>. QED BY <1>3, <1>10, <2>1, OneMore
<1>a. ASSUME NEW checks PROVE [run EXCEPT !.checks = checks] = [run EXCEPT !.checks = checks, !.failed = run.failed]
  BY <1>3 DEF Runs
<1>11. CASE To(AfterCheck(With("passed")))
  BY <1>8, <1>10, <1>11, <1>a
<1>12. CASE ~Holds(q.query, facts, LoginOf[q.url], q.components) /\ To(AfterCheck(With("drift")))
  BY <1>8, <1>9, <1>10, <1>12, <1>a
<1>13. CASE To(AfterCheck(run))
  <2>1. run = [run EXCEPT !.checks = run.checks, !.failed = run.failed]
    BY <1>3 DEF Runs
  <2>2. Drifts(run.checks, run.failed) => met # {}
    BY DEF Witnessed
  <2>. QED BY <1>8, <1>13, <2>1, <2>2
<1>14. CASE To(AfterCheck(Failing))
  <2>. DEFINE checks == [run.checks EXCEPT ![q.check] = "drift"]
              failed == run.failed \cup {q.check}
  <2>1. \A name \in {"history", "catalog", "runtime", "authority", "parity"} \ {q.check} : checks[name] = run.checks[name]
    BY <1>3 DEF Checks
  <2>2. Drifts(checks, failed) => Drifts(run.checks, run.failed)
    BY <2>1 DEF Drifts
  <2>3. Drifts(checks, failed) => met # {}
    BY <2>2 DEF Witnessed
  <2>4. To(AfterCheck([run EXCEPT !.checks = checks, !.failed = failed])) /\ run.failed \subseteq failed
    BY <1>14
  <2>. HIDE DEF checks, failed
  <2>. QED BY <1>8, <2>3, <2>4
<1>. HIDE DEF rest, With, Failing, q
<1>. QED BY <1>2, <1>7, <1>11, <1>12, <1>13, <1>14

LEMMA GateWitnessed ==
    ASSUME RunFits(run), Witnessed, GateParity
    PROVE  Witnessed'
<1>. DEFINE to(pc) == [run EXCEPT !.pc = pc]
<1>1. run.pc # "idle" /\ World
  BY DEF GateParity
<1>2. To(to("report")) \/ To(to("parity")) \/ Fail
  BY DEF GateParity
<1>3. run \in Runs
  BY DEF RunFits, Runs
<1>4. ASSUME NEW pc
      PROVE  /\ to(pc).permit = run.permit /\ to(pc).todo = run.todo
             /\ to(pc).checks = run.checks /\ to(pc).failed = run.failed
  BY <1>3 DEF Runs
<1>. HIDE DEF to
<1>. QED BY <1>1, <1>2, <1>4, OnwardWitnessed, FailWitnessed

LEMMA MarkerIsNew ==
    ASSUME NEW p, MarkerIs(p)
    PROVE  p.marker \notin ExpectedHistory(p)
<1>1. PICK f \in DOMAIN Manifest.files : f.time = p.marker
  BY DEF MarkerIs, Ledger
<1>2. f.time \in Int /\ ReceiptTimes \subseteq Int /\ \A t \in ReceiptTimes : f.time > t
  BY PreflightAssumption, LedgerAssumption DEF GlobalOrder
<1>3. p.marker \notin ReceiptTimes
  BY <1>1, <1>2
<1>4. \A g : g.time < p.marker => g.time # p.marker
  BY <1>1, <1>2
<1>. QED BY <1>3, <1>4 DEF ExpectedHistory

LEMMA ParityWitnessed ==
    ASSUME WorldFits, RunFits(run), Witnessed, Parity
    PROVE  Witnessed'
<1>1. run.pc = "parity" /\ World
  BY DEF Parity
<1>2. PICK s \in {NotEvaluated, IF /\ applied = ExpectedHistory(run.permit)
                                   /\ run.permit.marker \notin applied THEN "passed" ELSE "drift"} :
        To([run EXCEPT !.pc = "report", !.checks = Check("parity", s)])
  BY DEF Parity
<1>3. s \in Outcome
  BY DEF Outcome
<1>4. s = "drift" => met # {}
  <2>. SUFFICES ASSUME met = {} PROVE s # "drift"
    OBVIOUS
  <2>1. Found = {} /\ MarkerIs(run.permit)
    BY <1>1 DEF Witnessed
  <2>2. applied = ExpectedHistory(run.permit)
    BY <1>1, <2>1, NothingFound
  <2>3. run.permit.marker \notin applied
    BY <2>1, <2>2, MarkerIsNew
  <2>. QED BY <2>2, <2>3 DEF NotEvaluated
<1>5. run \in Runs /\ run.checks \in Checks
  BY DEF RunFits, Runs
<1>6. Drifts([run.checks EXCEPT !["parity"] = s], run.failed) => met # {}
  BY <1>3, <1>4, <1>5, OneMore
<1>. DEFINE checks == [run.checks EXCEPT !["parity"] = s]
            r == [run EXCEPT !.pc = "report", !.checks = checks]
<1>7. To(r)
  BY <1>2 DEF Check
<1>. HIDE DEF checks
<1>8. r.permit = run.permit /\ r.todo = run.todo /\ r.checks = checks /\ r.failed = run.failed
  BY <1>5 DEF Runs
<1>. HIDE DEF r
<1>9. r.todo \in Seq(PlannedTasks(ProfileComponents(run.permit.profile)))
  BY <1>1, <1>8 DEF Witnessed, Scheduled
<1>. QED BY <1>1, <1>6, <1>7, <1>8, <1>9, RunWitnessed DEF checks

LEMMA ReportWitnessed ==
    ASSUME WorldFits, RunFits(run), Witnessed, Report
    PROVE  Witnessed'
<1>1. run.pc # "idle" /\ facts' = facts /\ applied' = applied /\ config' = config
  BY DEF Report, World
<1>2. run \in Runs /\ run.checks \in Checks
  BY DEF RunFits, Runs
<1>3. CASE /\ report' = [status |-> ReportStatus(run.checks), checks |-> run.checks]
           /\ run' = [run EXCEPT !.pc = "done"] /\ met' = met
  <2>1. run'.permit = run.permit /\ run'.todo = run.todo /\ run'.checks = run.checks /\ run'.failed = run.failed
    BY <1>2, <1>3 DEF Runs
  <2>2. Found' = Found
    BY <1>1, <2>1, SameSettings DEF Found
  <2>3. Scheduled'
    BY <1>1, <2>1, SameSettings DEF Witnessed, Scheduled
  <2>4. report'.checks = run.checks
    BY <1>3
  <2>6. Found' \subseteq met' /\ MarkerIs(run'.permit)
    BY <1>1, <1>3, <2>1, <2>2 DEF Witnessed
  <2>7. Drifts(run'.checks, run'.failed) \/ Drifts(report'.checks, run'.failed) => met' # {}
    BY <1>3, <2>1, <2>4 DEF Witnessed
  <2>. QED BY <2>3, <2>6, <2>7 DEF Witnessed, MarkerIs, Drifts
<1>4. CASE Fail
  BY <1>4, FailWitnessed
<1>. QED BY <1>3, <1>4 DEF Report

LEMMA ChangeWitnessed ==
    ASSUME Witnessed, MoveHead \/ PermitExpires \/ RecordVersion \/ Administer \/ Recreate
    PROVE  Witnessed'
<1>1. Change
  BY DEF MoveHead, PermitExpires, RecordVersion, Administer, Recreate
<1>2. config' = config /\ run' = run /\ report' = report
  BY <1>1 DEF Change
<1>3. Found' = Deviating(facts', applied', run.permit)
  BY <1>2, SameSettings
<1>4. run.pc # "idle" => Scheduled'
  BY <1>2, SameSettings DEF Witnessed, Scheduled
<1>5. \/ facts' = facts /\ applied' = applied /\ met' = met
      \/ Noted
  BY DEF MoveHead, PermitExpires, RecordVersion, Administer, Recreate
<1>6. met \subseteq met' /\ (run.pc # "idle" => Found' \subseteq met')
  <2>1. CASE facts' = facts /\ applied' = applied /\ met' = met
    BY <1>3, <2>1 DEF Witnessed, Found
  <2>2. CASE Noted
    BY <1>3, <2>2 DEF Noted, Note
  <2>. QED BY <1>5, <2>1, <2>2
<1>7. Drifts(run'.checks, run'.failed) \/ Drifts(report'.checks, run'.failed) => met' # {}
  BY <1>2, <1>6 DEF Witnessed
<1>8. run'.pc # "idle" => MarkerIs(run'.permit)
  BY <1>2 DEF Witnessed
<1>. QED BY <1>2, <1>4, <1>6, <1>7, <1>8 DEF Witnessed, MarkerIs, Drifts

LEMMA InitWitnessed == Init => Witnessed
<1>. SUFFICES ASSUME Init PROVE Witnessed
  OBVIOUS
<1>1. run.pc = "idle" /\ run.checks = Unchecked /\ report = NoReport
  BY DEF Init, Idle
<1>. QED BY <1>1, NoDrift DEF Witnessed

LEMMA StepWitnessed == PreflightInvariant /\ Witnessed /\ [Next]_vars => Witnessed'
<1>. SUFFICES ASSUME WorldFits, RunFits(run), Witnessed, [Next]_vars PROVE Witnessed'
  BY InvariantIs
<1>1. CASE Next
  BY <1>1, StartWitnessed, ConnectWitnessed, HistoryWitnessed, CatalogWitnessed, QueryWitnessed, GateWitnessed,
     ParityWitnessed, ReportWitnessed, ChangeWitnessed DEF Next
<1>2. CASE UNCHANGED vars
  <2>1. config' = config /\ run' = run /\ report' = report /\ facts' = facts /\ applied' = applied /\ met' = met
    BY <1>2 DEF vars
  <2>2. Found' = Found /\ (run.pc # "idle" => Scheduled')
    BY <2>1, SameSettings DEF Witnessed, Scheduled, Found
  <2>3. run'.pc # "idle" => MarkerIs(run'.permit)
    BY <2>1 DEF Witnessed
  <2>. QED BY <2>1, <2>2, <2>3 DEF Witnessed, MarkerIs, Drifts
<1>. QED BY <1>1, <1>2

(* A drift has a cause: whatever roles, memberships, settings and changes  *)
(* there are, a database that conformed at every moment of the run, to     *)
(* logins that serve what they are verified with, passes every query of    *)
(* every check, so that no check reports drift in which no query of the    *)
(* graph or coordination store failed.                                     *)
THEOREM DriftIsWitnessed == Spec => []DriftIsProven
<1>1. Spec => []Witnessed
  BY InitWitnessed, StepWitnessed, ChecksInTurn, PTL DEF Spec
<1>2. Witnessed /\ DriftMasksNothing => DriftIsProven
  BY DEF Witnessed, DriftIsProven
<1>. QED BY <1>1, <1>2, DriftIsFirst, PTL

-----------------------------------------------------------------------------
(* What a run that passes cannot have missed. *)

(* What the login of a component may not be, own or be a member of, and    *)
(* what its capability role may not be or be a member of.                  *)
RevealedByRoles(f, cs) ==
    \E c \in cs :
      \/ f \in {<<"attribute", CapabilityRole[c], "login", "-">>, <<"attribute", CapabilityRole[c], "super", "-">>}
      \/ f[1] = "member" /\ (f[2] = CapabilityRole[c] \/ (f[3] = CapabilityRole[c] /\ f[4] = "admin"))
RevealedByLogin(f, l, cs) ==
    \/ f = <<"attribute", l, "super", "-">>
    \/ f[1] = "owner" /\ f[2] = l /\ f[3] \in Relations[cs]
RevealedByMembers(f, l, cs) ==
    f[1] = "member" /\ f[2] = l /\ f[4] \in {"inherit", "set"} /\ f[3] \notin ActorsOf(l, cs)
Reveals(q, f, l, cs) ==
    \/ q = "roles" /\ RevealedByRoles(f, cs)
    \/ q = "restricted" /\ RevealedByLogin(f, l, cs)
    \/ q = "memberships" /\ RevealedByMembers(f, l, cs)

InHistory(f) == f[1] = "applied"
InCatalog(f, cs) ==
    \/ f \in Portable({f}, cs) \cup Privileges({f}, cs)
    \/ f \notin Expected(cs) /\ \/ f[1] = "object" /\ f[3] \notin ProviderObjects
                                \/ f[1] \in {"table", "policy", "trigger"}
InAuthority(f, cs) ==
    f \notin Expected(cs) /\ \E c \in cs : \E q \in {"roles", "restricted", "memberships"} : Reveals(q, f, Login(c), Served(c, cs))
Evident(f, cs) == InHistory(f) \/ InCatalog(f, cs) \/ InAuthority(f, cs)

(* A pass is honest whatever deviates, and whatever changes meanwhile.     *)
PassMissesNothingEvident ==
    report.status = "pass" => \A f \in lasting : ~Evident(f, ProfileComponents(run.permit.profile))

LEMMA RolesReveal ==
    ASSUME NEW F, NEW c, NEW cs, SafeRole(F, c, cs), NEW f \in F
    PROVE  ~(\/ f \in {<<"attribute", CapabilityRole[c], "login", "-">>, <<"attribute", CapabilityRole[c], "super", "-">>}
             \/ f[1] = "member" /\ (f[2] = CapabilityRole[c] \/ (f[3] = CapabilityRole[c] /\ f[4] = "admin")))
  BY DEF SafeRole, Elevated, Super, Facts

LEMMA LoginReveals ==
    ASSUME NEW F, MembersOfRoles(F), NEW l \in Roles, NEW cs \in SUBSET Components, Restricted(F, l, cs), NEW f \in F
    PROVE  ~RevealedByLogin(f, l, cs)
<1>1. l \in Assumable(F, l)
  BY ItselfAssumable
<1>2. f # <<"attribute", l, "super", "-">>
  BY <1>1 DEF Restricted, Elevated, Super
<1>3. ~(f[1] = "owner" /\ f[2] = l /\ f[3] \in Relations[cs])
  <2>. SUFFICES ASSUME f[1] = "owner", f[2] = l, f[3] \in Relations[cs] PROVE FALSE
    OBVIOUS
  <2>1. f \in Facts(F, "owner")
    BY DEF Facts
  <2>2. CASE cs = {"auth"}
    <3>1. f[3] \in Relations[Components] /\ f[3] # RejectMutation
      <4>1. f[3] \in ManagedTables[cs] \/ f[3] \in Sequences[cs]
        BY Placed
      <4>2. PICK d \in cs : f[3] \in Tables[d] \/ f[3] \in SequenceOf[d]
        BY <4>1, Placed
      <4>3. f[3] # RejectMutation
        BY <4>2, Apart
      <4>4. f[3] \in ManagedTables[Components] \/ f[3] \in Sequences[Components]
        BY <4>2, Names
      <4>5. Components \in SUBSET Components
        OBVIOUS
      <4>. QED BY <4>3, <4>4, <4>5, Placed
    <3>2. f[3] \in Objects \ {RejectMutation}
      BY <3>1 DEF Objects
    <3>3. Owns(F, l, Objects \ {RejectMutation})
      BY <2>1, <3>2 DEF Owns
    <3>. QED BY <1>1, <2>2, <3>3 DEF Restricted
  <2>3. CASE cs # {"auth"}
    <3>1. Owns(F, l, Relations[cs] \cup {"public"})
      BY <2>1 DEF Owns
    <3>. QED BY <1>1, <2>3, <3>1 DEF Restricted
  <2>. QED BY <2>2, <2>3
<1>. QED BY <1>2, <1>3 DEF RevealedByLogin

LEMMA MembersReveal ==
    ASSUME NEW F, MembersOfRoles(F), NEW l \in Roles, NEW cs, Memberships(F, l, cs), NEW f \in F
    PROVE  ~RevealedByMembers(f, l, cs)
<1>. SUFFICES ASSUME RevealedByMembers(f, l, cs) PROVE FALSE
  OBVIOUS
<1>1. /\ f[1] = "member" /\ f[2] = l /\ f[4] \in {"inherit", "set"} /\ f[3] \notin ActorsOf(l, cs)
      /\ f[3] \in Roles /\ f \in Facts(F, "member")
  BY DEF RevealedByMembers, MembersOfRoles, Facts
<1>2. f[3] \in Assumable(F, l)
  <2>1. CASE Super(F, l)
    BY <1>1, <2>1 DEF Assumable
  <2>2. CASE ~Super(F, l)
    <3>1. <<l, f[3]>> \in Via(F, f[4])
      BY <1>1 DEF Via, Edges
    <3>2. \A e \in Via(F, f[4]) : e[2] \in Roles
      BY DEF Via, Edges, MembersOfRoles, Facts
    <3>3. f[3] \in Closure(Via(F, f[4]), l)
      <4>. DEFINE edges == Via(F, f[4])
                  C == Closure(edges, l)
      <4>1. LeastClosed(edges, {l}, C)
        BY <3>2, ClosureIs
      <4>. HIDE DEF edges, C
      <4>2. l \in C /\ Beyond(edges, C) = {}
        BY <4>1 DEF LeastClosed
      <4>3. <<l, f[3]>> \in edges
        BY <3>1 DEF edges
      <4>4. <<l, f[3]>>[1] = l /\ <<l, f[3]>>[2] = f[3]
        OBVIOUS
      <4>5. f[3] \in C
        BY <4>2, <4>3, <4>4 DEF Beyond
      <4>. QED BY <4>5 DEF C, edges
    <3>. QED BY <1>1, <2>2, <3>3 DEF Assumable, Inherited, Settable
  <2>. QED BY <2>1, <2>2
<1>. QED BY <1>1, <1>2 DEF Memberships, ActorsOf

LEMMA QueryReveals ==
    ASSUME NEW F, MembersOfRoles(F), NEW l \in Roles, NEW cs \in SUBSET Components, NEW q,
           Holds(q, F, l, cs), NEW f \in F
    PROVE  ~Reveals(q, f, l, cs)
<1>1. CASE q = "roles"
  <2>1. \A c \in cs : SafeRole(F, c, cs)
    BY <1>1 DEF Holds
  <2>2. ~RevealedByRoles(f, cs)
    BY <2>1, RolesReveal DEF RevealedByRoles
  <2>. QED BY <1>1, <2>2 DEF Reveals
<1>2. CASE q = "restricted"
  <2>1. Restricted(F, l, cs)
    BY <1>2 DEF Holds
  <2>2. ~RevealedByLogin(f, l, cs)
    BY <2>1, LoginReveals
  <2>. QED BY <1>2, <2>2 DEF Reveals
<1>3. CASE q = "memberships"
  <2>1. Memberships(F, l, cs)
    BY <1>3 DEF Holds
  <2>2. ~RevealedByMembers(f, l, cs)
    BY <2>1, MembersReveal
  <2>. QED BY <1>3, <2>2 DEF Reveals
<1>. QED BY <1>1, <1>2, <1>3 DEF Reveals

(* What the authority check asks of every component. *)
Asks(s, i, c, q, cs) ==
    i \in 1..Len(s) /\ s[i].query = q /\ s[i].components = Served(c, cs) /\ s[i].url = config.runtime[c]
AsksFor(s, c, q, cs) == \E i \in 1..Len(s) : Asks(s, i, c, q, cs)

LEMMA AsksWhole ==
    ASSUME NEW cs, NEW c, NEW q, NEW s \in Seq(Task), NEW t \in Seq(Task), AsksFor(s, c, q, cs) \/ AsksFor(t, c, q, cs)
    PROVE  AsksFor(s \o t, c, q, cs)
<1>1. /\ s \o t \in Seq(Task) /\ Len(s) \in Nat /\ Len(t) \in Nat /\ Len(s \o t) = Len(s) + Len(t)
      /\ \A i \in 1..(Len(s) + Len(t)) : (s \o t)[i] = IF i <= Len(s) THEN s[i] ELSE t[i - Len(s)]
  BY ConcatProperties, LenProperties
<1>2. CASE AsksFor(s, c, q, cs)
  <2>1. PICK i \in 1..Len(s) : Asks(s, i, c, q, cs)
    BY <1>2 DEF AsksFor
  <2>2. i \in 1..Len(s \o t) /\ (s \o t)[i] = s[i]
    BY <1>1
  <2>. QED BY <2>1, <2>2 DEF AsksFor, Asks
<1>3. CASE AsksFor(t, c, q, cs)
  <2>1. PICK i \in 1..Len(t) : Asks(t, i, c, q, cs)
    BY <1>3 DEF AsksFor
  <2>. DEFINE j == Len(s) + i
  <2>2. j \in 1..Len(s \o t) /\ (s \o t)[j] = t[i]
    BY <1>1
  <2>. QED BY <2>1, <2>2 DEF AsksFor, Asks
<1>. QED BY <1>2, <1>3

LEMMA AuthorityCovers ==
    ASSUME config \in Configs, NEW cs \in SUBSET Components, NEW c \in cs, NEW q \in {"roles", "restricted", "memberships"}
    PROVE  AsksFor(Authority(config.runtime[c], Served(c, cs)), c, q, cs)
<1>. DEFINE own == Served(c, cs)
            u == config.runtime[c]
            qs == AuthorityQueries(own)
<1>0. u \in DOMAIN LoginOf /\ own \in SUBSET Components
  BY PreflightAssumption, ServedBy
<1>1. OneKind(Authority(u, own), "authority")
  BY <1>0, AuthorityList
<1>2. Len(qs) \in Nat /\ \E i \in 1..Len(qs) : qs[i] = q
  <2>1. CASE own = {"auth"}
    <3>1. qs = <<"restricted", "memberships", "login", "roles", "grants", "rls", "posture">>
      BY <2>1 DEF AuthorityQueries
    <3>2. Len(qs) = 7 /\ qs[1] = "restricted" /\ qs[2] = "memberships" /\ qs[4] = "roles"
      BY <3>1
    <3>. HIDE DEF qs
    <3>. QED BY <3>2
  <2>2. CASE own # {"auth"}
    <3>1. qs = <<"restricted", "memberships", "roles", "rls", "grants", "login">>
      BY <2>2 DEF AuthorityQueries
    <3>2. Len(qs) = 6 /\ qs[1] = "restricted" /\ qs[2] = "memberships" /\ qs[3] = "roles"
      BY <3>1
    <3>. HIDE DEF qs
    <3>. QED BY <3>2
  <2>. QED BY <2>1, <2>2
<1>3. Authority(u, own) = [i \in 1..Len(qs) |-> [check |-> "authority", query |-> qs[i], url |-> u, components |-> own]]
  BY DEF Authority
<1>. HIDE DEF qs
<1>4. Len(Authority(u, own)) = Len(qs)
  BY <1>1, <1>2, <1>3 DEF OneKind
<1>5. PICK i \in 1..Len(qs) : qs[i] = q
  BY <1>2
<1>6. Asks(Authority(u, own), i, c, q, cs)
  BY <1>3, <1>4, <1>5 DEF Asks
<1>. QED BY <1>4, <1>6 DEF AsksFor

LEMMA TodoCovers ==
    ASSUME config \in Configs, NEW cs \in SUBSET Components, NEW c \in cs, NEW q \in {"roles", "restricted", "memberships"}
    PROVE  AsksFor(AuthorityTodo(cs), c, q, cs)
<1>. DEFINE stores == cs \ {"auth"}
            first == IF "graph" \in stores THEN "graph" ELSE "coordination"
            of(d) == IF d \in cs THEN Authority(config.runtime[d], Served(d, cs)) ELSE <<>>
            both == stores = {"graph", "coordination"} /\ config.runtime["graph"] # config.runtime["coordination"]
            three == IF both THEN of("coordination") ELSE <<>>
<1>0. \A d \in Components : config.runtime[d] \in DOMAIN LoginOf /\ Served(d, cs) \in SUBSET Components
  BY PreflightAssumption DEF Served, Serves
<1>1. \A d \in Components : of(d) \in Seq(Task)
  BY <1>0, AuthorityList, NoQuery DEF OneKind
<1>2. AuthorityTodo(cs) = (of("auth") \o of(first)) \o three
  BY DEF AuthorityTodo
<1>3. first \in Components /\ "auth" \in Components /\ "coordination" \in Components /\ c \in Components
  BY DEF Components
<1>4. AsksFor(of(c), c, q, cs)
  BY AuthorityCovers
<1>5. \/ c = "auth" \/ c = first \/ (both /\ c = "coordination")
      \/ c = "coordination" /\ first = "graph" /\ config.runtime["graph"] = config.runtime["coordination"] /\ "graph" \in cs
  BY DEF Components
<1>6. ASSUME c = "coordination", config.runtime["graph"] = config.runtime["coordination"], "graph" \in cs
      PROVE  AsksFor(of("graph"), c, q, cs)
  <2>1. Served("graph", cs) = Served(c, cs) /\ config.runtime["graph"] = config.runtime[c]
    BY <1>6 DEF Served, Serves
  <2>2. AsksFor(of("graph"), "graph", q, cs)
    BY <1>6, AuthorityCovers
  <2>. HIDE DEF of
  <2>. QED BY <2>1, <2>2 DEF AsksFor, Asks
<1>7. AsksFor(of("auth"), c, q, cs) \/ AsksFor(of(first), c, q, cs) \/ AsksFor(three, c, q, cs)
  <2>. HIDE DEF of
  <2>1. CASE c = "auth"
    BY <1>4, <2>1
  <2>2. CASE c = first
    BY <1>4, <2>2
  <2>3. CASE both /\ c = "coordination"
    BY <1>4, <2>3
  <2>4. CASE c = "coordination" /\ first = "graph" /\ config.runtime["graph"] = config.runtime["coordination"] /\ "graph" \in cs
    <3>1. AsksFor(of("graph"), c, q, cs)
      BY <1>6, <2>4
    <3>. QED BY <2>4, <3>1
  <2>. HIDE DEF three, first, both
  <2>. QED BY <1>5, <2>1, <2>2, <2>3, <2>4
<1>8. three \in Seq(Task) /\ of(first) \in Seq(Task) /\ of("auth") \in Seq(Task)
  BY <1>1, <1>3
<1>. HIDE DEF of, three, first
<1>9. of("auth") \o of(first) \in Seq(Task)
  BY <1>8, ConcatProperties
<1>10. CASE AsksFor(three, c, q, cs)
  BY <1>2, <1>8, <1>9, <1>10, AsksWhole
<1>11. CASE AsksFor(of("auth"), c, q, cs) \/ AsksFor(of(first), c, q, cs)
  <2>1. AsksFor(of("auth") \o of(first), c, q, cs)
    BY <1>8, <1>11, AsksWhole
  <2>. QED BY <1>2, <1>8, <1>9, <2>1, AsksWhole
<1>. QED BY <1>7, <1>10, <1>11

(* The invariant: deviations that are still there have not been met by a   *)
(* check that passed, nor by a query of the authority check that held.     *)
Clear(t, L, cs) == \A f \in L : f \notin Expected(cs) => ~Reveals(t.query, f, LoginOf[t.url], t.components)
After(todo, s, n) ==
    /\ n \in 0..Len(s) /\ todo \in Seq(Task) /\ Len(todo) = Len(s) - n
    /\ \A j \in 1..Len(todo) : todo[j] = s[n + j]
Cleared(s, n, L, cs) == \A i \in 1..n : Clear(s[i], L, cs)
ClearedUpTo(todo, s, L, cs) == \E n \in 0..Len(s) : After(todo, s, n) /\ Cleared(s, n, L, cs)
HonestChecks(checks, L, cs) ==
    /\ checks.history = "passed" => \A f \in L : ~InHistory(f)
    /\ checks.catalog = "passed" => \A f \in L : ~InCatalog(f, cs)
    /\ checks.authority = "passed" => Cleared(AuthorityTodo(cs), Len(AuthorityTodo(cs)), L, cs)
HonestQueries(r, L, cs) ==
    r.pc = "query" /\ r.todo[1].check = "authority" => ClearedUpTo(r.todo, AuthorityTodo(cs), L, cs)
HonestRun(r, L) ==
    /\ HonestChecks(r.checks, L, ProfileComponents(r.permit.profile))
    /\ HonestQueries(r, L, ProfileComponents(r.permit.profile))
Honest ==
    /\ run.pc # "idle" => lasting \subseteq Found /\ HonestRun(run, lasting)
    /\ report.status = "pass" => run.pc = "done" /\ BeforeParity(run.checks)

LEMMA SameHonesty ==
    ASSUME config' = config
    PROVE  /\ Found' = Deviating(facts', applied', run'.permit)
           /\ HonestRun(run, lasting)' <=> HonestRun(run', lasting')
<1>1. Found' = Deviating(facts', applied', run'.permit)
  BY SameSettings
<1>. QED
  BY <1>1 DEF HonestRun, HonestChecks, HonestQueries, ClearedUpTo, Cleared, Clear, InCatalog, AuthorityTodo, Authority,
              Expected, Login, Served, Serves

(* Every fact of the catalog is of a kind. *)
OfKinds(F) == \A f \in F : f[1] \in Kinds

LEMMA ExpectedKinds ==
    ASSUME config \in Configs, NEW cs \in SUBSET Components
    PROVE  OfKinds(Expected(cs))
<1>1. Expected(cs) = Provisioned(cs, LoginSetting, Owner)
  BY SettingIs
<1>2. \A f \in Provisioned(cs, LoginSetting, Owner) : OfKind(f, cs, LoginSetting)
  BY ProvisionedFacts
<1>. QED BY <1>1, <1>2 DEF OfKinds, OfKind, Kinds

LEMMA ToggledKinds ==
    ASSUME OfKinds(facts), NEW f \in Deviations
    PROVE  OfKinds(Toggled(f))
<1>1. f[1] \in Kinds /\ <<"owner", Owner, f[3], "-">>[1] = "owner" /\ "owner" \in Kinds
  BY PreflightAssumption DEF Kinds
<1>2. ASSUME NEW g \in Toggled(f) PROVE g \in facts \/ g = f \/ g = <<"owner", Owner, f[3], "-">>
  <2>1. CASE f[1] = "owner"
    BY <1>2, <2>1 DEF Toggled
  <2>2. CASE f[1] # "owner" /\ f \in facts
    BY <1>2, <2>2 DEF Toggled
  <2>3. CASE f[1] # "owner" /\ f \notin facts
    BY <1>2, <2>3 DEF Toggled
  <2>. QED BY <2>1, <2>2, <2>3
<1>. QED BY <1>1, <1>2 DEF OfKinds

LEMMA KindsKept ==
    ASSUME OfKinds(facts), [Next]_vars
    PROVE  OfKinds(facts')
<1>1. CASE facts' = facts
  BY <1>1
<1>2. CASE Administer
  <2>1. PICK f \in Deviations : facts' = Toggled(f)
    BY <1>2 DEF Administer
  <2>. QED BY <2>1, ToggledKinds
<1>3. \/ facts' = facts \/ Administer
  BY DEF Next, Start, Connect, ProveRoutes, ReadHistory, ReadCatalog, Query, GateParity, Parity, Report, World,
         MoveHead, PermitExpires, RecordVersion, Recreate, vars
<1>. QED BY <1>1, <1>2, <1>3

(* A deviation of a kind of the catalog is a fact too much or too few. *)
LEMMA FoundIs ==
    ASSUME NEW f \in Found, f[1] \in Kinds
    PROVE  f \in Differing(facts, Expected(ProfileComponents(run.permit.profile)))
<1>1. \A v : <<"applied", v>>[1] = "applied" /\ <<"login", v>>[1] = "login"
  OBVIOUS
<1>2. "applied" \notin Kinds /\ "login" \notin Kinds
  BY DEF Kinds
<1>. QED BY <1>1, <1>2 DEF Found, Deviating

LEMMA HistoryShown ==
    ASSUME config \in Configs, RunFits(run), run.pc # "idle", OfKinds(facts), applied = ExpectedHistory(run.permit),
           NEW f \in Found
    PROVE  ~InHistory(f)
<1>. DEFINE cs == ProfileComponents(run.permit.profile)
<1>1. OfKinds(Expected(cs))
  BY Scope, ExpectedKinds
<1>2. Differing(applied, ExpectedHistory(run.permit)) = {}
  BY DEF Differing
<1>3. "applied" \notin Kinds
  BY DEF Kinds
<1>4. \A g \in Differing(facts, Expected(cs)) : g[1] \in Kinds
  BY <1>1 DEF Differing, OfKinds
<1>5. \A c : <<"login", c>>[1] = "login"
  OBVIOUS
<1>. QED BY <1>2, <1>3, <1>4, <1>5 DEF Found, Deviating, InHistory

LEMMA CatalogShown ==
    ASSUME config \in Configs, RunFits(run), run.pc # "idle",
           CatalogState(facts, ProfileComponents(run.permit.profile)) = "passed",
           NEW f \in Found
    PROVE  ~InCatalog(f, ProfileComponents(run.permit.profile))
<1>. DEFINE cs == ProfileComponents(run.permit.profile)
            E == Expected(cs)
<1>1. ~Unknown(facts, cs) /\ Normalized(facts, cs) = Normalized(E, cs)
  BY DEF CatalogState, NotEvaluated
<1>. HIDE DEF E
<1>2. Portable(facts, cs) = Portable(E, cs) /\ Privileges(facts, cs) = Privileges(E, cs)
  BY <1>1 DEF Normalized
<1>3. f[1] \in Kinds => f \in Differing(facts, E)
  BY FoundIs DEF E
<1>4. ASSUME f \in Portable({f}, cs) PROVE FALSE
  <2>1. f[1] \in Kinds /\ (f \in facts <=> f \in Portable(facts, cs)) /\ (f \in E <=> f \in Portable(E, cs))
    BY <1>4 DEF Portable, Kinds
  <2>. QED BY <1>2, <1>3, <2>1 DEF Differing
<1>5. ASSUME f \in Privileges({f}, cs) PROVE FALSE
  <2>1. f[1] \in Kinds /\ (f \in facts <=> f \in Privileges(facts, cs)) /\ (f \in E <=> f \in Privileges(E, cs))
    BY <1>5 DEF Privileges, Facts, Kinds
  <2>. QED BY <1>2, <1>3, <2>1 DEF Differing
<1>6. ASSUME f \notin E, (f[1] = "object" /\ f[3] \notin ProviderObjects) \/ f[1] \in {"table", "policy", "trigger"} PROVE FALSE
  <2>1. f \in facts
    BY <1>3, <1>6 DEF Differing, Kinds
  <2>2. f[1] # "object"
    BY <1>1, <1>6, <2>1 DEF Unknown, Facts
  <2>3. Managed(f, cs)
    BY <1>1, <1>6, <2>1, <2>2 DEF Unknown
  <2>4. f \in Portable({f}, cs)
    BY <1>6, <2>2, <2>3 DEF Portable
  <2>. QED BY <1>4, <2>4
<1>7. ~InCatalog(f, cs)
  BY <1>4, <1>5, <1>6 DEF InCatalog, E
<1>. QED BY <1>7

(* What has been met stays met. *)
LEMMA FewerCleared ==
    ASSUME NEW r, NEW L, NEW M \in SUBSET L, HonestRun(r, L)
    PROVE  HonestRun(r, M)
<1>1. ASSUME NEW s, NEW n, NEW cs, Cleared(s, n, L, cs) PROVE Cleared(s, n, M, cs)
  BY <1>1 DEF Cleared, Clear
<1>. QED BY <1>1 DEF HonestRun, HonestChecks, HonestQueries, ClearedUpTo

LEMMA RunHonest ==
    ASSUME Honest, World, run.pc \notin {"idle", "done"}, NEW r, To(r), r.permit = run.permit, HonestRun(r, lasting)
    PROVE  Honest'
<1>1. run' = r /\ report' = report /\ lasting' = lasting /\ facts' = facts /\ applied' = applied /\ config' = config
  BY DEF To, World
<1>2. Found' = Found
  BY <1>1, SameSettings DEF Found
<1>3. HonestRun(run, lasting)'
  BY <1>1, SameHonesty
<1>4. report'.status # "pass"
  BY <1>1 DEF Honest
<1>. QED BY <1>1, <1>2, <1>3, <1>4 DEF Honest

LEMMA FailHonest == ASSUME Fail PROVE Honest'
<1>1. run'.pc = "idle" /\ report'.status = "failed"
  BY DEF Fail, Idle, NoReport
<1>. QED BY <1>1 DEF Honest

(* Nothing is claimed before the first check. *)
LEMMA NothingClaimed ==
    ASSUME NEW r, NEW L, r.checks = Unchecked, r.pc # "query"
    PROVE  HonestRun(r, L)
  BY DEF HonestRun, HonestChecks, HonestQueries, Unchecked, NotEvaluated

LEMMA StartHonest ==
    ASSUME Start
    PROVE  Honest'
<1>1. PICK p \in Permits :
        \/ /\ run' = [Idle EXCEPT !.pc = "connect", !.permit = p] /\ report' = report
           /\ lasting' = Deviating(facts, applied, p)
        \/ Fail
  BY DEF Start
<1>2. report = NoReport /\ facts' = facts /\ applied' = applied /\ config' = config
  BY DEF Start, World
<1>3. CASE /\ run' = [Idle EXCEPT !.pc = "connect", !.permit = p] /\ report' = report
           /\ lasting' = Deviating(facts, applied, p)
  <2>1. run'.permit = p /\ run'.pc = "connect" /\ run'.checks = Unchecked
    BY <1>3 DEF Idle
  <2>2. lasting' \subseteq Found'
    BY <1>2, <1>3, <2>1, SameHonesty
  <2>3. HonestRun(run', lasting')
    BY <2>1, NothingClaimed
  <2>4. HonestRun(run, lasting)'
    BY <1>2, <2>3, SameHonesty
  <2>5. report'.status # "pass"
    BY <1>2, <1>3 DEF NoReport
  <2>. QED BY <2>2, <2>4, <2>5 DEF Honest
<1>. QED BY <1>1, <1>3, FailHonest

LEMMA ConnectHonest ==
    ASSUME RunFits(run), Honest, Connect \/ ProveRoutes
    PROVE  Honest'
<1>1. run \in Runs
  BY DEF RunFits, Runs
<1>2. run.pc \in {"connect", "prove"} /\ run.checks = Unchecked /\ World
  BY DEF RunFits, Connect, ProveRoutes
<1>3. CASE Connect
  <2>. DEFINE r == [run EXCEPT !.pc = "prove", !.connected = incarnation]
  <2>1. To(r) \/ Fail
    BY <1>3 DEF Connect
  <2>2. r.permit = run.permit /\ r.pc = "prove" /\ r.checks = run.checks
    BY <1>1 DEF Runs
  <2>. HIDE DEF r
  <2>3. HonestRun(r, lasting)
    BY <1>2, <2>2, NothingClaimed
  <2>. QED BY <1>2, <2>1, <2>2, <2>3, RunHonest, FailHonest
<1>4. CASE ProveRoutes
  <2>. DEFINE r == [run EXCEPT !.pc = "history"]
  <2>1. To(r) \/ Fail
    BY <1>4 DEF ProveRoutes
  <2>2. r.permit = run.permit /\ r.pc = "history" /\ r.checks = run.checks
    BY <1>1 DEF Runs
  <2>. HIDE DEF r
  <2>3. HonestRun(r, lasting)
    BY <1>2, <2>2, NothingClaimed
  <2>. QED BY <1>2, <2>1, <2>2, <2>3, RunHonest, FailHonest
<1>. QED BY <1>3, <1>4

LEMMA HistoryHonest ==
    ASSUME WorldFits, OfKinds(facts), RunFits(run), Honest, ReadHistory
    PROVE  Honest'
<1>1. run.pc = "history" /\ World
  BY DEF ReadHistory
<1>2. PICK s \in Inspecting(IF applied = ExpectedHistory(run.permit) THEN "passed" ELSE "drift") :
        To([run EXCEPT !.pc = "catalog", !.checks = Check("history", s)])
  BY DEF ReadHistory
<1>3. s = "passed" => applied = ExpectedHistory(run.permit)
  BY DEF Inspecting, NotEvaluated
<1>4. s = "passed" => \A f \in lasting : ~InHistory(f)
  BY <1>1, <1>3, HistoryShown DEF Honest, WorldFits
<1>5. run \in Runs /\ run.checks \in Checks /\ run.checks = Unchecked
  BY <1>1 DEF RunFits, Runs
<1>. DEFINE checks == Check("history", s)
            r == [run EXCEPT !.pc = "catalog", !.checks = checks]
<1>6. /\ checks.history = s /\ checks.catalog = NotEvaluated /\ checks.authority = NotEvaluated
  BY <1>5 DEF Check, Unchecked
<1>7. To(r)
  BY <1>2
<1>. HIDE DEF checks
<1>8. r.permit = run.permit /\ r.pc = "catalog" /\ r.checks = checks
  BY <1>5 DEF Runs
<1>. HIDE DEF r
<1>9. HonestRun(r, lasting)
  BY <1>4, <1>6, <1>8 DEF HonestRun, HonestChecks, HonestQueries, NotEvaluated
<1>. QED BY <1>1, <1>7, <1>8, <1>9, RunHonest

LEMMA CatalogHonest ==
    ASSUME WorldFits, RunFits(run), Honest, ReadCatalog
    PROVE  Honest'
<1>. DEFINE cs == ProfileComponents(run.permit.profile)
            todo == CompatibilityTodo(cs)
<1>1. run.pc = "catalog" /\ World
  BY DEF ReadCatalog
<1>2. PICK s \in Inspecting(CatalogState(facts, cs)) :
        To([run EXCEPT !.pc = "query", !.checks = Check("catalog", s), !.todo = todo])
  BY DEF ReadCatalog
<1>3. s = "passed" => CatalogState(facts, cs) = "passed"
  BY DEF Inspecting, NotEvaluated
<1>4. s = "passed" => \A f \in lasting : ~InCatalog(f, cs)
  BY <1>1, <1>3, CatalogShown DEF Honest, WorldFits
<1>5. run \in Runs /\ run.checks \in Checks /\ run.checks.authority = NotEvaluated
  BY <1>1 DEF RunFits, Runs
<1>6. OneKind(todo, "runtime") /\ todo # <<>>
  BY <1>1, Scope, CompatibilityPlan DEF WorldFits
<1>. DEFINE checks == Check("catalog", s)
            r == [run EXCEPT !.pc = "query", !.checks = checks, !.todo = todo]
<1>7. /\ checks.history = run.checks.history /\ checks.catalog = s /\ checks.authority = NotEvaluated
  BY <1>5 DEF Check, Checks
<1>8. To(r)
  BY <1>2
<1>. HIDE DEF checks, todo
<1>9. r.permit = run.permit /\ r.pc = "query" /\ r.checks = checks /\ r.todo = todo
  BY <1>5 DEF Runs
<1>. HIDE DEF r
<1>10. r.todo[1].check # "authority"
  <2>1. todo \in Seq(Task) /\ Len(todo) # 0 /\ Len(todo) \in Nat /\ \A i \in 1..Len(todo) : todo[i].check = "runtime"
    BY <1>6, EmptySeq DEF OneKind
  <2>. QED BY <1>9, <2>1
<1>11. run.checks.history = "passed" => \A f \in lasting : ~InHistory(f)
  BY <1>1 DEF Honest, HonestRun, HonestChecks
<1>12. HonestRun(r, lasting)
  BY <1>4, <1>7, <1>9, <1>10, <1>11 DEF HonestRun, HonestChecks, HonestQueries, NotEvaluated
<1>. QED BY <1>1, <1>8, <1>9, <1>12, RunHonest

LEMMA OneFurther ==
    ASSUME NEW s \in Seq(Task), NEW todo \in Seq(Task), NEW n, After(todo, s, n), todo # <<>>
    PROVE  /\ n + 1 \in 1..Len(s) /\ Head(todo) = s[n + 1]
           /\ After(Tail(todo), s, n + 1)
           /\ Len(todo) = 1 => n + 1 = Len(s)
<1>1. Len(todo) \in Nat /\ Len(todo) # 0 /\ Len(s) \in Nat /\ n \in 0..Len(s) /\ Len(todo) = Len(s) - n
      /\ \A j \in 1..Len(todo) : todo[j] = s[n + j]
  BY EmptySeq, LenProperties DEF After
<1>2. Head(todo) = todo[1] /\ todo[1] = s[n + 1] /\ n + 1 \in 1..Len(s)
  BY <1>1
<1>3. Tail(todo) \in Seq(Task) /\ Len(Tail(todo)) = Len(todo) - 1
      /\ \A j \in 1..Len(Tail(todo)) : Tail(todo)[j] = todo[j + 1]
  BY HeadTailProperties
<1>4. ASSUME NEW j \in 1..Len(Tail(todo)) PROVE Tail(todo)[j] = s[(n + 1) + j]
  <2>1. j + 1 \in 1..Len(todo) /\ n + (j + 1) = (n + 1) + j
    BY <1>1, <1>3
  <2>2. todo[j + 1] = s[n + (j + 1)]
    BY <1>1, <2>1
  <2>. QED BY <1>3, <2>1, <2>2
<1>5. n + 1 \in 0..Len(s) /\ Len(Tail(todo)) = Len(s) - (n + 1)
  BY <1>1, <1>2, <1>3
<1>6. After(Tail(todo), s, n + 1)
  BY <1>3, <1>4, <1>5 DEF After
<1>7. ASSUME 1 = Len(todo) PROVE n + 1 = Len(s)
  BY <1>1, <1>7
<1>. QED BY <1>2, <1>6, <1>7

(* A query that holds clears what it asks. *)
LEMMA HeldClears ==
    ASSUME WorldFits, RunFits(run), run.pc # "idle", lasting \subseteq Found,
           NEW t \in PlannedTasks(ProfileComponents(run.permit.profile)),
           Holds(t.query, facts, LoginOf[t.url], t.components)
    PROVE  Clear(t, lasting, ProfileComponents(run.permit.profile))
<1>. DEFINE cs == ProfileComponents(run.permit.profile)
            l == LoginOf[t.url]
<1>0. cs \in SUBSET Components /\ config \in Configs /\ MembersOfRoles(facts)
  BY Scope DEF WorldFits
<1>1. PICK c \in cs : t.url = config.runtime[c]
  BY DEF PlannedTasks, Compatible, Authorized
<1>2. l \in Roles
  BY <1>0, <1>1, PreflightAssumption DEF Roles
<1>3. t.components \in SUBSET Components
  BY DEF PlannedTasks, Task
<1>4. ASSUME NEW f \in lasting, f \notin Expected(cs), Reveals(t.query, f, l, t.components) PROVE FALSE
  <2>1. f[1] \in {"attribute", "member", "owner"}
    BY <1>4 DEF Reveals, RevealedByRoles, RevealedByLogin, RevealedByMembers
  <2>2. f \in Found /\ f[1] \in Kinds
    BY <2>1 DEF Kinds
  <2>3. f \in facts
    BY <1>4, <2>2, FoundIs DEF Differing
  <2>. HIDE DEF l
  <2>4. Holds(t.query, facts, l, t.components)
    BY DEF l
  <2>. QED BY <1>0, <1>2, <1>3, <1>4, <2>3, <2>4, QueryReveals
<1>. QED BY <1>4 DEF Clear

(* After the last query of a check. *)
LEMMA AfterCheckHonest ==
    ASSUME WorldFits, RunFits(run), Honest, run.pc = "query", World, NEW checks, NEW failed,
           To(AfterCheck([run EXCEPT !.checks = checks, !.failed = failed])),
           HonestChecks(checks, lasting, ProfileComponents(run.permit.profile))
    PROVE  Honest'
<1>. DEFINE cs == ProfileComponents(run.permit.profile)
            todo == AuthorityTodo(cs)
            b == [run EXCEPT !.checks = checks, !.failed = failed]
<1>1. run \in Runs
  BY DEF RunFits, Runs
<1>2. OneKind(todo, "authority") /\ todo # <<>>
  BY Scope, AuthorityPlan DEF WorldFits
<1>3. CASE Head(run.todo).check = "runtime"
  <2>1. AfterCheck(b) = [b EXCEPT !.todo = todo]
    BY <1>3 DEF AfterCheck
  <2>. HIDE DEF todo
  <2>2. AfterCheck(b).permit = run.permit /\ AfterCheck(b).checks = checks /\ AfterCheck(b).todo = todo
    BY <1>1, <2>1 DEF Runs
  <2>. DEFINE r == AfterCheck(b)
  <2>. HIDE DEF r, b
  <2>3. After(todo, todo, 0) /\ 0 \in 0..Len(todo)
    BY <1>2, LenProperties DEF After, OneKind
  <2>4. Cleared(todo, 0, lasting, cs)
    BY DEF Cleared
  <2>5. ClearedUpTo(todo, todo, lasting, cs)
    BY <2>3, <2>4 DEF ClearedUpTo
  <2>6. r.permit = run.permit /\ r.checks = checks /\ r.todo = todo
    BY <2>2 DEF r
  <2>7. HonestRun(r, lasting)
    BY <2>5, <2>6 DEF HonestRun, HonestQueries, todo
  <2>8. To(r)
    BY DEF r, b
  <2>. QED BY <2>6, <2>7, <2>8, RunHonest
<1>4. CASE Head(run.todo).check # "runtime"
  <2>1. AfterCheck(b) = [b EXCEPT !.todo = <<>>, !.pc = "gate"]
    BY <1>4 DEF AfterCheck
  <2>2. AfterCheck(b).permit = run.permit /\ AfterCheck(b).checks = checks /\ AfterCheck(b).pc = "gate"
    BY <1>1, <2>1 DEF Runs
  <2>. DEFINE r == AfterCheck(b)
  <2>. HIDE DEF r, b
  <2>3. r.permit = run.permit /\ r.checks = checks /\ r.pc = "gate"
    BY <2>2 DEF r
  <2>4. HonestRun(r, lasting)
    BY <2>3 DEF HonestRun, HonestQueries
  <2>5. To(r)
    BY DEF r, b
  <2>. QED BY <2>3, <2>4, <2>5, RunHonest
<1>. QED BY <1>3, <1>4

LEMMA QueryHonest ==
    ASSUME WorldFits, RunFits(run), Witnessed, Honest, Query
    PROVE  Honest'
<1>. DEFINE q == Head(run.todo)
            cs == ProfileComponents(run.permit.profile)
            A == AuthorityTodo(cs)
            S == PlannedTasks(cs)
            rest == [run EXCEPT !.todo = Tail(run.todo)]
            With(s) == [run.checks EXCEPT ![q.check] = s]
            last == Len(run.todo) = 1 \/ run.todo[2].check # q.check
            holds == Holds(q.query, facts, LoginOf[q.url], q.components)
<1>1. run.pc = "query" /\ World
  BY DEF Query
<1>2. \/ holds /\ ~last /\ To(rest)
      \/ holds /\ last /\ To(AfterCheck([run EXCEPT !.checks = With("passed")]))
      \/ To(AfterCheck([run EXCEPT !.checks = With("drift")]))
      \/ To(AfterCheck(run))
      \/ To(AfterCheck([run EXCEPT !.checks = With("drift"), !.failed = run.failed \cup {q.check}]))
  BY DEF Query, Check
<1>3. /\ run \in Runs /\ run.todo # <<>> /\ run.checks \in Checks /\ q.check \in {"runtime", "authority"}
      /\ OneKind(run.todo, q.check) /\ run.checks.authority = NotEvaluated
  BY <1>1, Queried
<1>4. run.todo \in Seq(Task) /\ Len(run.todo) \in Nat \ {0} /\ q = run.todo[1]
      /\ \A i \in 1..Len(run.todo) : run.todo[i].check = q.check
  BY <1>3, EmptySeq DEF OneKind
<1>5. ASSUME Len(run.todo) # 1 PROVE 2 \in 1..Len(run.todo) /\ run.todo[2].check = q.check
  <2>. HIDE DEF q
  <2>1. \A k \in Nat \ {0} : k # 1 => 2 \in 1..k
    OBVIOUS
  <2>2. 2 \in 1..Len(run.todo)
    BY <1>4, <1>5, <2>1, Zenon
  <2>. QED BY <1>4, <2>2, Zenon
<1>6. q \in S
  <2>1. run.todo \in Seq(S)
    BY <1>1 DEF Witnessed, Scheduled
  <2>. HIDE DEF S
  <2>. QED BY <1>4, <2>1
<1>7. lasting \subseteq Found /\ HonestRun(run, lasting)
  BY <1>1 DEF Honest
<1>8. holds => Clear(q, lasting, cs)
  BY <1>1, <1>6, <1>7, HeldClears
<1>9. A \in Seq(Task)
  BY <1>1, Scope, AuthorityPlan DEF WorldFits, OneKind
<1>10. HonestChecks(run.checks, lasting, cs)
  BY <1>7 DEF HonestRun
<1>. HIDE DEF A, S, cs, q, holds, last
<1>11. ASSUME q.check = "authority", holds
       PROVE  \E n \in 0..Len(A) : After(run.todo, A, n) /\ n + 1 \in 1..Len(A) /\ Cleared(A, n + 1, lasting, cs)
  <2>1. ClearedUpTo(run.todo, A, lasting, cs)
    BY <1>1, <1>4, <1>7, <1>11 DEF HonestRun, HonestQueries, A, cs
  <2>2. PICK n \in 0..Len(A) : After(run.todo, A, n) /\ Cleared(A, n, lasting, cs)
    BY <2>1 DEF ClearedUpTo
  <2>3. n + 1 \in 1..Len(A) /\ Head(run.todo) = A[n + 1]
    BY <1>3, <1>4, <1>9, <2>2, OneFurther
  <2>4. Clear(A[n + 1], lasting, cs)
    BY <1>8, <1>11, <2>3 DEF q
  <2>5. n \in Nat /\ \A i \in 1..(n + 1) : i \in 1..n \/ i = n + 1
    BY <1>9
  <2>6. Cleared(A, n + 1, lasting, cs)
    BY <2>2, <2>4, <2>5 DEF Cleared
  <2>. QED BY <2>2, <2>3, <2>6
<1>a. ASSUME NEW checks PROVE [run EXCEPT !.checks = checks] = [run EXCEPT !.checks = checks, !.failed = run.failed]
  BY <1>3 DEF Runs
<1>12. CASE holds /\ ~last /\ To(rest)
  <2>1. rest.permit = run.permit /\ rest.todo = Tail(run.todo) /\ rest.checks = run.checks /\ rest.pc = "query"
    BY <1>1, <1>3 DEF Runs
  <2>. HIDE DEF rest
  <2>2. Tail(run.todo)[1] = run.todo[2] /\ run.todo[2].check = q.check
    <3>1. 2 \in 1..Len(run.todo) /\ run.todo[2].check = q.check
      BY <1>5, <1>12 DEF last
    <3>2. Len(Tail(run.todo)) = Len(run.todo) - 1
          /\ \A i \in 1..Len(Tail(run.todo)) : Tail(run.todo)[i] = run.todo[i + 1]
      BY <1>3, <1>4, HeadTailProperties
    <3>3. 1 \in 1..Len(Tail(run.todo)) /\ 1 + 1 = 2
      BY <1>4, <3>1, <3>2
    <3>. QED BY <3>1, <3>2, <3>3
  <2>3. ASSUME q.check = "authority" PROVE ClearedUpTo(rest.todo, A, lasting, cs)
    <3>1. PICK n \in 0..Len(A) : After(run.todo, A, n) /\ n + 1 \in 1..Len(A) /\ Cleared(A, n + 1, lasting, cs)
      BY <1>11, <1>12, <2>3
    <3>2. After(Tail(run.todo), A, n + 1)
      BY <1>3, <1>4, <1>9, <3>1, OneFurther
    <3>3. n + 1 \in 0..Len(A)
      BY <3>2 DEF After
    <3>. QED BY <2>1, <3>1, <3>2, <3>3 DEF ClearedUpTo
  <2>4. HonestRun(rest, lasting)
    BY <1>10, <2>1, <2>2, <2>3 DEF HonestRun, HonestQueries, A, cs
  <2>. QED BY <1>1, <1>12, <2>1, <2>4, RunHonest
<1>13. CASE holds /\ last /\ To(AfterCheck([run EXCEPT !.checks = With("passed")]))
  <2>1. HonestChecks(With("passed"), lasting, cs)
    <3>1. CASE q.check = "runtime"
      <4>1. With("passed").history = run.checks.history /\ With("passed").catalog = run.checks.catalog
            /\ With("passed").authority = run.checks.authority
        BY <1>3, <3>1 DEF Checks
      <4>. HIDE DEF With
      <4>. QED BY <1>10, <4>1 DEF HonestChecks
    <3>2. CASE q.check = "authority"
      <4>1. With("passed").history = run.checks.history /\ With("passed").catalog = run.checks.catalog
        BY <1>3, <3>2 DEF Checks
      <4>2. PICK n \in 0..Len(A) : After(run.todo, A, n) /\ n + 1 \in 1..Len(A) /\ Cleared(A, n + 1, lasting, cs)
        BY <1>11, <1>13, <3>2
      <4>3. n + 1 = Len(A)
        <5>1. Len(run.todo) = 1
          BY <1>5, <1>13 DEF last
        <5>. QED BY <1>3, <1>4, <1>9, <4>2, <5>1, OneFurther
      <4>4. Cleared(A, Len(A), lasting, cs)
        BY <4>2, <4>3
      <4>. HIDE DEF With
      <4>. QED BY <1>10, <4>1, <4>4 DEF HonestChecks, A
    <3>. QED BY <1>3, <3>1, <3>2
  <2>. HIDE DEF With
  <2>. QED BY <1>1, <1>13, <1>a, <2>1, AfterCheckHonest DEF cs
<1>14. ASSUME NEW failed, To(AfterCheck([run EXCEPT !.checks = With("drift"), !.failed = failed])) PROVE Honest'
  <2>1. HonestChecks(With("drift"), lasting, cs)
    <3>1. With("drift").history = run.checks.history /\ With("drift").catalog = run.checks.catalog
          /\ With("drift").authority # "passed"
      BY <1>3 DEF Checks, NotEvaluated
    <3>. HIDE DEF With
    <3>. QED BY <1>10, <3>1 DEF HonestChecks
  <2>. HIDE DEF With
  <2>. QED BY <1>1, <1>14, <2>1, AfterCheckHonest DEF cs
<1>15. CASE To(AfterCheck(run))
  <2>1. run = [run EXCEPT !.checks = run.checks, !.failed = run.failed]
    BY <1>3 DEF Runs
  <2>. QED BY <1>1, <1>10, <1>15, <2>1, AfterCheckHonest DEF cs
<1>. HIDE DEF rest, With
<1>. QED BY <1>2, <1>12, <1>13, <1>14, <1>15, <1>a

LEMMA GateHonest ==
    ASSUME RunFits(run), Honest, GateParity
    PROVE  Honest'
<1>. DEFINE to(pc) == [run EXCEPT !.pc = pc]
<1>1. run.pc = "gate" /\ World
  BY DEF GateParity
<1>2. To(to("report")) \/ To(to("parity")) \/ Fail
  BY DEF GateParity
<1>3. run \in Runs
  BY DEF RunFits, Runs
<1>4. ASSUME NEW pc PROVE to(pc).permit = run.permit /\ to(pc).checks = run.checks /\ to(pc).pc = pc
  BY <1>3 DEF Runs
<1>. HIDE DEF to
<1>5. ASSUME NEW pc, pc # "query" PROVE HonestRun(to(pc), lasting)
  BY <1>1, <1>4, <1>5 DEF Honest, HonestRun, HonestQueries
<1>. QED BY <1>1, <1>2, <1>4, <1>5, RunHonest, FailHonest

LEMMA ParityHonest ==
    ASSUME RunFits(run), Honest, Parity
    PROVE  Honest'
<1>1. run.pc = "parity" /\ World
  BY DEF Parity
<1>2. PICK s : To([run EXCEPT !.pc = "report", !.checks = Check("parity", s)])
  BY DEF Parity
<1>3. run \in Runs /\ run.checks \in Checks
  BY DEF RunFits, Runs
<1>. DEFINE checks == Check("parity", s)
            r == [run EXCEPT !.pc = "report", !.checks = checks]
<1>4. /\ checks.history = run.checks.history /\ checks.catalog = run.checks.catalog
      /\ checks.authority = run.checks.authority
  BY <1>3 DEF Check, Checks
<1>5. To(r)
  BY <1>2
<1>. HIDE DEF checks
<1>6. r.permit = run.permit /\ r.checks = checks /\ r.pc = "report"
  BY <1>3 DEF Runs
<1>. HIDE DEF r
<1>7. HonestChecks(run.checks, lasting, ProfileComponents(run.permit.profile))
  BY <1>1 DEF Honest, HonestRun
<1>8. HonestRun(r, lasting)
  BY <1>4, <1>6, <1>7 DEF HonestRun, HonestChecks, HonestQueries
<1>. QED BY <1>1, <1>5, <1>6, <1>8, RunHonest

(* A pass is that of every check. *)
LEMMA PassIsOfAll ==
    ASSUME NEW checks \in Checks, ReportStatus(checks) = "pass"
    PROVE  AllPass(checks) /\ checks.authority = "passed"
<1>1. checks.authority \in Outcome
  BY DEF Checks
<1>2. SelectStatus(checks) = "pass" /\ checks.authority \notin {NotEvaluated, "drift"}
  BY DEF ReportStatus, NotEvaluated
<1>. QED BY <1>1, <1>2, Selected DEF Outcome

LEMMA ReportHonest ==
    ASSUME RunFits(run), Honest, Report
    PROVE  Honest'
<1>1. run.pc = "report" /\ facts' = facts /\ applied' = applied /\ config' = config
  BY DEF Report, World
<1>2. run \in Runs /\ run.checks \in Checks
  BY DEF RunFits, Runs
<1>3. CASE /\ report' = [status |-> ReportStatus(run.checks), checks |-> run.checks]
           /\ run' = [run EXCEPT !.pc = "done"] /\ lasting' = lasting
  <2>1. run'.permit = run.permit /\ run'.checks = run.checks /\ run'.pc = "done"
    BY <1>2, <1>3 DEF Runs
  <2>2. Found' = Found
    BY <1>1, <2>1, SameSettings DEF Found
  <2>3. HonestRun(run', lasting')
    BY <1>1, <1>3, <2>1 DEF Honest, HonestRun, HonestQueries
  <2>4. HonestRun(run, lasting)'
    BY <1>1, <2>3, SameHonesty
  <2>5. report'.status = "pass" => BeforeParity(run'.checks)
    <3>1. report'.status = ReportStatus(run.checks)
      BY <1>3
    <3>2. ReportStatus(run.checks) = "pass" => AllPass(run.checks) /\ run.checks.authority = "passed"
      BY <1>2, PassIsOfAll
    <3>. QED BY <2>1, <3>1, <3>2 DEF AllPass, BeforeParity
  <2>6. lasting' \subseteq Found'
    BY <1>1, <1>3, <2>2 DEF Honest
  <2>. QED BY <2>1, <2>4, <2>5, <2>6 DEF Honest, BeforeParity
<1>4. CASE Fail
  BY <1>4, FailHonest
<1>. QED BY <1>3, <1>4 DEF Report

LEMMA ChangeHonest ==
    ASSUME Honest, MoveHead \/ PermitExpires \/ RecordVersion \/ Administer \/ Recreate
    PROVE  Honest'
<1>1. Change
  BY DEF MoveHead, PermitExpires, RecordVersion, Administer, Recreate
<1>2. config' = config /\ run' = run /\ report' = report
  BY <1>1 DEF Change
<1>3. Found' = Deviating(facts', applied', run.permit)
  BY <1>2, SameSettings
<1>4. \/ facts' = facts /\ applied' = applied /\ lasting' = lasting
      \/ Noted
  BY DEF MoveHead, PermitExpires, RecordVersion, Administer, Recreate
<1>5. lasting' \subseteq lasting /\ (run.pc # "idle" => lasting' \subseteq Found')
  <2>1. CASE facts' = facts /\ applied' = applied /\ lasting' = lasting
    BY <1>3, <2>1 DEF Honest, Found
  <2>2. CASE Noted
    BY <1>3, <2>2 DEF Noted, Note
  <2>. QED BY <1>4, <2>1, <2>2
<1>6. run.pc # "idle" => HonestRun(run, lasting')
  BY <1>5, FewerCleared DEF Honest
<1>7. run.pc # "idle" => HonestRun(run, lasting)'
  BY <1>2, <1>6, SameHonesty
<1>. QED BY <1>2, <1>5, <1>7 DEF Honest, BeforeParity

LEMMA InitHonest == Init => Honest /\ OfKinds(facts)
<1>. SUFFICES ASSUME Init PROVE Honest /\ OfKinds(facts)
  OBVIOUS
<1>1. run.pc = "idle" /\ report.status = "none" /\ config \in Configs
  BY DEF Init, Idle, NoReport
<1>2. PICK p \in {q \in Permits : q.profile \in Profiles} : facts = Expected(ProfileComponents(p.profile))
  BY DEF Init
<1>3. ProfileComponents(p.profile) \in SUBSET Components
  BY DEF ProfileComponents, Profiles
<1>. QED BY <1>1, <1>2, <1>3, ExpectedKinds DEF Honest

LEMMA StepHonest ==
    PreflightInvariant /\ Witnessed /\ Honest /\ OfKinds(facts) /\ [Next]_vars => Honest' /\ OfKinds(facts)'
<1>. SUFFICES ASSUME WorldFits, RunFits(run), Witnessed, Honest, OfKinds(facts), [Next]_vars PROVE Honest' /\ OfKinds(facts)'
  BY InvariantIs
<1>1. OfKinds(facts)'
  BY KindsKept DEF OfKinds
<1>2. CASE Next
  BY <1>1, <1>2, StartHonest, ConnectHonest, HistoryHonest, CatalogHonest, QueryHonest, GateHonest,
     ParityHonest, ReportHonest, ChangeHonest DEF Next
<1>3. CASE UNCHANGED vars
  <2>1. config' = config /\ run' = run /\ report' = report /\ facts' = facts /\ applied' = applied /\ lasting' = lasting
    BY <1>3 DEF vars
  <2>2. Found' = Found /\ (run.pc # "idle" => HonestRun(run, lasting)')
    BY <2>1, SameHonesty DEF Honest, Found
  <2>. QED BY <1>1, <2>1, <2>2 DEF Honest, BeforeParity
<1>. QED BY <1>2, <1>3

(* What is evident has been asked, by the authority check, of every        *)
(* component of the profile.                                               *)
LEMMA EvidentIsAsked ==
    ASSUME config \in Configs, NEW cs \in SUBSET Components, NEW f \in lasting, InAuthority(f, cs)
    PROVE  ~Cleared(AuthorityTodo(cs), Len(AuthorityTodo(cs)), lasting, cs)
<1>1. PICK c \in cs : \E q \in {"roles", "restricted", "memberships"} : Reveals(q, f, Login(c), Served(c, cs))
  BY DEF InAuthority
<1>2. PICK q \in {"roles", "restricted", "memberships"} : Reveals(q, f, Login(c), Served(c, cs))
  BY <1>1
<1>. DEFINE A == AuthorityTodo(cs)
<1>3. PICK i \in 1..Len(A) : Asks(A, i, c, q, cs)
  BY TodoCovers DEF AsksFor
<1>. HIDE DEF A
<1>4. A[i].query = q /\ A[i].components = Served(c, cs) /\ LoginOf[A[i].url] = Login(c)
  BY <1>3 DEF Asks, Login
<1>5. ~Clear(A[i], lasting, cs)
  BY <1>2, <1>4 DEF Clear, InAuthority
<1>. QED BY <1>5 DEF Cleared, A

(* Whatever the roles, the settings and the deviations, and whatever else  *)
(* changes meanwhile: a run that passes has not missed a deviation that    *)
(* was there from its start to its end, in the recorded history, in the    *)
(* managed objects and their privileges, or in what the logins and the     *)
(* capability roles are, own, or have become members of (run_preflight).   *)
THEOREM PassMissesNothing == Spec => []PassMissesNothingEvident
<1>1. Spec => [](PreflightInvariant /\ Witnessed)
  BY InitWitnessed, StepWitnessed, ChecksInTurn, PTL DEF Spec
<1>2. Spec => [](Honest /\ OfKinds(facts))
  BY <1>1, InitHonest, StepHonest, PTL DEF Spec
<1>3. PreflightInvariant /\ Honest => PassMissesNothingEvident
  <2>. SUFFICES ASSUME WorldFits, RunFits(run), Honest, report.status = "pass", NEW f \in lasting
                PROVE  ~Evident(f, ProfileComponents(run.permit.profile))
    BY InvariantIs DEF PassMissesNothingEvident
  <2>. DEFINE cs == ProfileComponents(run.permit.profile)
  <2>1. run.pc = "done" /\ BeforeParity(run.checks) /\ HonestChecks(run.checks, lasting, cs)
    BY DEF Honest, HonestRun
  <2>2. cs \in SUBSET Components /\ config \in Configs
    BY <2>1, Scope DEF WorldFits
  <2>3. run.checks.history = "passed" /\ run.checks.catalog = "passed" /\ run.checks.authority = "passed"
    BY <2>1 DEF BeforeParity
  <2>. HIDE DEF cs
  <2>4. ~InHistory(f) /\ ~InCatalog(f, cs) /\ Cleared(AuthorityTodo(cs), Len(AuthorityTodo(cs)), lasting, cs)
    BY <2>1, <2>3 DEF HonestChecks
  <2>5. ~InAuthority(f, cs)
    BY <2>2, <2>4, EvidentIsAsked
  <2>. QED BY <2>4, <2>5 DEF Evident, cs
<1>. QED BY <1>1, <1>2, <1>3, PTL
===============================================================================
