---------------------------- MODULE MigrationLedger ----------------------------
(***************************************************************************)
(* The explicit database migration command (scripts/migrate_database.py    *)
(* over scripts/postgresql_ledger.py): operators run it, possibly twice or *)
(* side by side, against the databases their settings name.  A run         *)
(* validates the manifest with every migration file, resolves the plan     *)
(* from the protected binding document, and for each planned target copies *)
(* the profile's migration files into a disposable projection, rechecking  *)
(* their digests, and hands it to the pinned command line tool.  Only when *)
(* every target is done does it verify the schema on each configured URL,  *)
(* seed the administrator and require a usable credential.                 *)
(*                                                                         *)
(* The tool is external: from its use here, it reads the database's list   *)
(* of applied versions, refuses when that list is not a prefix of the      *)
(* projection, and runs the missing files in order.  A file is a           *)
(* transaction of its own that creates its tables, and fails when they     *)
(* exist; its version is recorded after it commits.                        *)
(***************************************************************************)
EXTENDS LedgerPlan

CONSTANTS
  Operators,
  Dbs,            \* physical databases
  DbOf,           \* the database behind each URL
  SqliteUrls,     \* URLs of local SQLite files
  Manifests,      \* manifests the repository may contain, one file per component
  Docs,           \* binding documents the operators may keep
  Settings,       \* configurations: [auth, graph, coordination, admin]
  MaxRuns,        \* bound: runs started
  MaxEdits,       \* bound: changes of files, manifest and binding document
  MaxTotal        \* bound: both together

ASSUME MigrationAssumption ==
  /\ {"absent", "local"} \cap Bytes = {}
  /\ SqliteUrls \subseteq DOMAIN DbOf /\ "none" \notin DOMAIN DbOf
  /\ \A u \in DOMAIN DbOf : DbOf[u] \in Dbs
  /\ \A m \in Manifests : /\ DOMAIN m.files \subseteq Files
                          /\ \A f \in DOMAIN m.files : m.files[f] \in Bytes
                          /\ \A c \in Components : \E f \in Files : Named(m, c) = {f}
  /\ \A s \in Settings : /\ s.auth \in DOMAIN DbOf
                         /\ s.graph \in DOMAIN DbOf \cup {"none"} /\ s.coordination \in DOMAIN DbOf \cup {"none"}
                         /\ s.admin \in {"none", "usable", "disabled"}
  /\ MaxRuns \in Nat /\ MaxEdits \in Nat

VARIABLES
  manifest, file, doc,    \* the repository and the operators' control file
  history, tables, creds, \* per database: versions, components' tables, administrator
  run,                    \* per operator: the state of its run
  report,                 \* per operator: what its last run reported
  runs, edits
vars == <<manifest, file, doc, history, tables, creds, run, report, runs, edits>>

HostedDbs == {DbOf[u] : u \in HostedUrls}

(* The validation looks at component number r.checking; since is `edits` at *)
(* its start, and settled whether the tree stayed as it was until its end. *)
Idle == [pc |-> "idle", settings |-> <<>>, urls |-> <<>>, manifest |-> <<>>, checking |-> 0, since |-> 0,
         settled |-> FALSE, plan |-> <<>>, next |-> 0, bytes |-> <<>>, pending |-> <<>>, unverified |-> {}]
NoReport == [outcome |-> "none", completed |-> <<>>, failed |-> "none"]

(* Which URL carries which target: the coordination target falls back to   *)
(* the graph's URL, and is left out when there is no graph and it only     *)
(* names the credential database.                                          *)
ConfiguredUrls(s) ==
  LET coordination == IF s.coordination /= "none" THEN s.coordination ELSE s.graph
      dropped == s.graph = "none" /\ coordination = s.auth
      url(c) == CASE c = "auth" -> s.auth
                  [] c = "graph" -> s.graph
                  [] OTHER -> IF dropped THEN "none" ELSE coordination
  IN  [c \in {c \in Components : url(c) /= "none"} |-> url(c)]

PostgresUrls(urls) == [c \in {c \in DOMAIN urls : urls[c] \notin SqliteUrls} |-> urls[c]]
StoreUrlsLast(urls) == {urls[c] : c \in DOMAIN urls \cap {"coordination"}}
StoreUrls(urls) == {urls[c] : c \in DOMAIN urls \cap {"graph", "coordination"}}
StoreComponents(urls, u) == {c \in DOMAIN urls \cap {"graph", "coordination"} : urls[c] = u}

-------------------------------------------------------------------------------
Init ==
  /\ manifest \in Manifests /\ file = [f \in Files |-> IF f \in DOMAIN manifest.files THEN manifest.files[f] ELSE "missing"]
  /\ doc \in Docs
  /\ history = [d \in Dbs |-> {}]
  /\ tables = [d \in Dbs |-> [c \in Components |-> "absent"]]
  /\ creds = [d \in Dbs |-> "none"]
  /\ run = [o \in Operators |-> Idle] /\ report = [o \in Operators |-> NoReport]
  /\ runs = 0 /\ edits = 0

Stay == UNCHANGED <<manifest, file, doc, runs, edits>>
To(o, r) == run' = [run EXCEPT ![o] = r]
Finish(o, outcome, completed, failed) ==
  /\ To(o, Idle)
  /\ report' = [report EXCEPT ![o] = [outcome |-> outcome, completed |-> completed, failed |-> failed]]
Refuse(o) == Finish(o, "refused", <<>>, "none") /\ Stay /\ UNCHANGED <<history, tables, creds>>

(* The targets done are reported by their profiles; the files of a profile *)
(* and the URL it was brought to are there for ProgressIsTrue.             *)
CurrentTarget(r) == r.plan[r.next]
Done(r, t) == [profile |-> t.profile, files |-> Ledger(r.manifest, t.profile), url |-> t.url]
CompletedEarly(r) == [i \in 1..r.next |-> Done(r, r.plan[i])]
Completed(r) == [i \in 1..(r.next - 1) |-> Done(r, r.plan[i])]
Incomplete(o) == LET r == run[o] IN Finish(o, "incomplete", Completed(r), CurrentTarget(r).profile)

(* Settings are loaded; without a PostgreSQL URL there is nothing to plan. *)
Start(o) ==
  /\ run[o].pc = "idle" /\ runs < MaxRuns /\ runs + edits < MaxTotal
  /\ \E s \in Settings :
       LET urls == ConfiguredUrls(s)
       IN  To(o, [Idle EXCEPT !.pc = IF DOMAIN PostgresUrls(urls) = {} THEN "verify" ELSE "manifest",
                              !.settings = s, !.urls = urls, !.unverified = StoreUrls(urls)])
  /\ report' = [report EXCEPT ![o] = NoReport]
  /\ runs' = runs + 1
  /\ UNCHANGED <<manifest, file, doc, history, tables, creds, edits>>

(* The manifest is read once.  Then, component by component, every file it *)
(* names (one per component) is read for its digest and read again for the *)
(* SQL guard, and the directory is listed; the tree may change in between. *)
LoadManifest(o) ==
  /\ run[o].pc = "manifest"
  /\ \/ /\ manifest.ratified
        /\ To(o, [run[o] EXCEPT !.pc = "digest", !.manifest = manifest, !.checking = 1, !.since = edits])
        /\ UNCHANGED report /\ Stay /\ UNCHANGED <<history, tables, creds>>
     \/ ~manifest.ratified /\ Refuse(o)

Check(o, pc, ok, next) ==
  /\ run[o].pc = pc
  /\ \/ ok /\ To(o, next) /\ UNCHANGED report /\ Stay /\ UNCHANGED <<history, tables, creds>>
     \/ ~ok /\ Refuse(o)
NamedFiles(r) == Named(r.manifest, ComponentOrder[r.checking])

CheckDigest(o) ==
  LET r == run[o]
  IN  Check(o, "digest", \A f \in NamedFiles(r) : DigestMatches(r.manifest, file, f), [r EXCEPT !.pc = "guard"])

CheckSql(o) ==
  LET r == run[o]
  IN  Check(o, "guard", \A f \in NamedFiles(r) : SqlPasses(file, f), [r EXCEPT !.pc = "inventory"])

CheckInventory(o) ==
  LET r == run[o]
  IN  IF r.checking < 3
      THEN Check(o, "inventory", DirectoryMatches(r.manifest, file, ComponentOrder[r.checking]),
                 [r EXCEPT !.pc = "digest", !.checking = @ + 1])
      ELSE Check(o, "inventory",
                 DirectoryMatches(r.manifest, file, ComponentOrder[r.checking]) /\ GlobalOrder(r.manifest),
                 [r EXCEPT !.pc = "plan", !.checking = 0, !.since = 0, !.settled = (edits = r.since)])

(* The whole plan is resolved, and every target passes the write barrier,  *)
(* before anything is connected to or executed.                            *)
ResolvePlan(o) ==
  /\ run[o].pc = "plan"
  /\ LET urls == PostgresUrls(run[o].urls)
         plan == PlanFor(doc, urls)
         ok == Plannable(doc, run[o].manifest, urls) /\ \A i \in 1..Len(plan) : WriteAllowed(plan[i])
     IN  \/ /\ ok
            /\ To(o, [run[o] EXCEPT !.pc = "project", !.plan = plan, !.next = 1])
            /\ UNCHANGED report /\ Stay /\ UNCHANGED <<history, tables, creds>>
         \/ ~ok /\ Refuse(o)

ProjectUnchecked(o) ==
  /\ run[o].pc = "project"
  /\ LET r == run[o]
         selected == MigrationsFor(r.manifest, CurrentTarget(r).profile)
         names == {selected[i] : i \in 1..Len(selected)}
     IN  To(o, [r EXCEPT !.pc = "list", !.pending = selected, !.bytes = [f \in names |-> file[f]]])
  /\ Stay /\ UNCHANGED <<history, tables, creds, report>>

(* The projection of the target's profile: each file is read once, and     *)
(* what was read is both compared with its digest and written.             *)
Project(o) ==
  /\ run[o].pc = "project"
  /\ LET r == run[o]
         selected == MigrationsFor(r.manifest, CurrentTarget(r).profile)
         names == {selected[i] : i \in 1..Len(selected)}
     IN  \/ /\ \A f \in names : file[f] = r.manifest.files[f]
            /\ To(o, [r EXCEPT !.pc = "list", !.pending = selected, !.bytes = [f \in names |-> file[f]]])
            /\ UNCHANGED report
         \/ /\ \E f \in names : file[f] /= r.manifest.files[f]
            /\ Incomplete(o)
  /\ Stay /\ UNCHANGED <<history, tables, creds>>

(* External: the tool compares the projection with the recorded versions.  *)
ListPending(o) ==
  /\ run[o].pc = "list"
  /\ LET r == run[o]
         d == DbOf[CurrentTarget(r).url]
         applied == Cardinality(history[d])
         prefix == /\ applied <= Len(r.pending)
                   /\ history[d] = {r.pending[i] : i \in 1..applied}
     IN  \/ /\ prefix
            /\ To(o, [r EXCEPT !.pc = "apply", !.pending = SubSeq(r.pending, applied + 1, Len(r.pending))])
            /\ UNCHANGED report
         \/ ~prefix /\ Incomplete(o)
  /\ Stay /\ UNCHANGED <<history, tables, creds>>

(* External: one file's transaction.                                       *)
ApplyFile(o) ==
  /\ run[o].pc = "apply" /\ run[o].pending /= <<>>
  /\ LET r == run[o]
         d == DbOf[CurrentTarget(r).url]
         f == Head(r.pending)
     IN  \/ /\ tables[d][f.component] = "absent"
            /\ tables' = [tables EXCEPT ![d][f.component] = r.bytes[f]]
            /\ To(o, [r EXCEPT !.pc = "record"])
            /\ UNCHANGED report
         \/ /\ tables[d][f.component] /= "absent"
            /\ Incomplete(o)
            /\ UNCHANGED tables
  /\ Stay /\ UNCHANGED <<history, creds>>

(* External: its version is recorded.                                      *)
RecordVersion(o) ==
  /\ run[o].pc = "record"
  /\ LET r == run[o]
         d == DbOf[CurrentTarget(r).url]
     IN  /\ history' = [history EXCEPT ![d] = @ \cup {Head(r.pending)}]
         /\ To(o, [r EXCEPT !.pc = "apply", !.pending = Tail(r.pending)])
  /\ Stay /\ UNCHANGED <<tables, creds, report>>

(* The tool succeeded: on to the next target, or to the verification.      *)
TargetDone(o) ==
  /\ run[o].pc = "apply" /\ run[o].pending = <<>>
  /\ LET r == run[o]
     IN  To(o, [r EXCEPT !.pc = IF r.next = Len(r.plan) THEN "verify" ELSE "project",
                         !.next = @ + 1, !.bytes = <<>>])
  /\ Stay /\ UNCHANGED <<history, tables, creds, report>>

HasTables(d, cs) == \A c \in cs : tables[d][c] /= "absent"

(* Every graph and coordination URL: a SQLite file is initialised, and the *)
(* schema of the components configured there is verified.                  *)
VerifyStore(o) ==
  /\ run[o].pc = "verify" /\ run[o].unverified /= {}
  /\ \E u \in run[o].unverified :
       LET r == run[o]
           d == DbOf[u]
           made == IF u \in SqliteUrls
                   THEN [tables EXCEPT ![d] = [c \in Components |->
                           IF c /= "auth" /\ @[c] = "absent" THEN "local" ELSE @[c]]]
                   ELSE tables
           ok == \A c \in StoreComponents(r.urls, u) : made[d][c] /= "absent"
       IN  /\ tables' = made
           /\ \/ ok /\ To(o, [r EXCEPT !.unverified = @ \ {u}]) /\ UNCHANGED report
              \/ ~ok /\ Finish(o, "failed", <<>>, "none")
  /\ Stay /\ UNCHANGED <<history, creds>>

(* The credential database: verified, or created when it is SQLite.        *)
VerifyAuth(o) ==
  /\ run[o].pc = "verify" /\ run[o].unverified = {}
  /\ LET r == run[o]
         d == DbOf[r.urls["auth"]]
         local == r.urls["auth"] \in SqliteUrls
     IN  \/ /\ local \/ HasTables(d, {"auth"})
            /\ tables' = IF local /\ ~HasTables(d, {"auth"}) THEN [tables EXCEPT ![d]["auth"] = "local"] ELSE tables
            /\ To(o, [r EXCEPT !.pc = "seed"]) /\ UNCHANGED report
         \/ /\ ~local /\ ~HasTables(d, {"auth"})
            /\ Finish(o, "failed", <<>>, "none") /\ UNCHANGED tables
  /\ Stay /\ UNCHANGED <<history, creds>>

(* The configured administrator is inserted or overwritten.                *)
SeedCredentials(o) ==
  /\ run[o].pc = "seed"
  /\ LET r == run[o]
         d == DbOf[r.urls["auth"]]
     IN  creds' = IF r.settings.admin = "none" THEN creds ELSE [creds EXCEPT ![d] = r.settings.admin]
  /\ To(o, [run[o] EXCEPT !.pc = "usable"])
  /\ Stay /\ UNCHANGED <<history, tables, report>>

RequireUsable(o) ==
  /\ run[o].pc = "usable"
  /\ Finish(o, IF creds[DbOf[run[o].urls["auth"]]] = "usable" THEN "success" ELSE "failed", <<>>, "none")
  /\ Stay /\ UNCHANGED <<history, tables, creds>>

(* The process dies; the databases keep what was committed.                *)
Crash(o) ==
  /\ run[o].pc /= "idle"
  /\ To(o, Idle) /\ Stay /\ UNCHANGED <<history, tables, creds, report>>

-------------------------------------------------------------------------------
(* The repository's working tree changes under a run.                      *)
EditFile ==
  /\ edits < MaxEdits /\ runs + edits < MaxTotal /\ edits' = edits + 1
  /\ \E f \in Files, b \in Bytes \cup {"missing"} : b /= file[f] /\ file' = [file EXCEPT ![f] = b]
  /\ UNCHANGED <<manifest, doc, history, tables, creds, run, report, runs>>

ReviseManifest ==
  /\ edits < MaxEdits /\ runs + edits < MaxTotal /\ edits' = edits + 1
  /\ \E m \in Manifests \ {manifest} : manifest' = m
  /\ UNCHANGED <<file, doc, history, tables, creds, run, report, runs>>

(* The operators replace the binding document between runs.                *)
ReplaceBindings ==
  /\ edits < MaxEdits /\ runs + edits < MaxTotal /\ edits' = edits + 1
  /\ \A o \in Operators : run[o].pc = "idle"
  /\ \E d \in Docs \ {doc} : doc' = d
  /\ UNCHANGED <<manifest, file, history, tables, creds, run, report, runs>>

Next ==
  \/ \E o \in Operators : \/ Start(o) \/ LoadManifest(o) \/ CheckDigest(o) \/ CheckSql(o) \/ CheckInventory(o)
                          \/ ResolvePlan(o) \/ Project(o) \/ ListPending(o)
                          \/ ApplyFile(o) \/ RecordVersion(o) \/ TargetDone(o) \/ VerifyStore(o)
                          \/ VerifyAuth(o) \/ SeedCredentials(o) \/ RequireUsable(o) \/ Crash(o)
  \/ EditFile \/ ReviseManifest \/ ReplaceBindings

Spec == Init /\ [][Next]_vars

-------------------------------------------------------------------------------
(* The shape of the state.                                                 *)
Urls == DOMAIN DbOf
Identities == UNION {{Binding(d, c).id : c \in DOMAIN d.targets} : d \in Docs}
PlannedTarget == [targets : SUBSET Components, profile : Profiles, lineage : {"fresh-v1"},
                  class : {"disposable", "loopback"}, id : Identities, url : Urls, urls : SUBSET Urls]
GuardedBytes == {b \in Bytes : Guarded(b)}
Validating == {"digest", "guard", "inventory"}
Planning == {"plan", "project", "list", "apply", "record"}
Executing == {"project", "list", "apply", "record"}
Verifying == {"verify", "seed", "usable"}
Run == [pc : {"idle", "manifest"} \cup Validating \cup Planning \cup Verifying, settings : Settings \cup {<<>>},
        urls : UNION {[cs -> Urls] : cs \in SUBSET Components}, manifest : Manifests \cup {<<>>},
        checking : 0..3, since : 0..MaxEdits, settled : BOOLEAN, plan : Seq(PlannedTarget), next : Nat, bytes : UNION {[fs -> Bytes] : fs \in SUBSET Files},
        pending : Seq(Files), unverified : SUBSET Urls]
Report == [outcome : {"none", "refused", "incomplete", "failed", "success"},
           completed : Seq([profile : Profiles, files : SUBSET Files, url : Urls]), failed : Profiles \cup {"none"}]
LedgerTypeOK ==
  /\ manifest \in Manifests /\ doc \in Docs /\ file \in [Files -> Bytes \cup {"missing"}]
  /\ history \in [Dbs -> SUBSET Files]
  /\ tables \in [Dbs -> [Components -> Bytes \cup {"absent", "local"}]]
  /\ creds \in [Dbs -> {"none", "usable", "disabled"}]
  /\ run \in [Operators -> Run] /\ report \in [Operators -> Report]
  /\ runs \in 0..MaxRuns /\ edits \in 0..MaxEdits

(* A recorded version's objects exist.                                     *)
RecordedExists == \A d \in Dbs : \A f \in history[d] : tables[d][f.component] \in Bytes

(* A run's manifest is one the repository has had, and while targets are   *)
(* carried out it is the one the binding document pins.  As long as the    *)
(* tree is as it was when the validation began, what passed its second     *)
(* read is what the digest was taken of; so a validation that nothing      *)
(* disturbed leaves a manifest of guarded bytes, and one that an edit fell *)
(* into need not.                                                          *)
Inspected(r) == {f \in DOMAIN r.manifest.files :
                   \/ Rank(f.component) < r.checking
                   \/ Rank(f.component) = r.checking /\ r.pc = "inventory"}
ReviewedPlan(r) ==
  /\ r.pc /= "idle" => r.settings \in Settings /\ r.urls = ConfiguredUrls(r.settings)
  /\ r.pc \in {"manifest"} \cup Validating \cup Planning => DOMAIN PostgresUrls(r.urls) /= {}
  /\ r.pc \in Validating =>
       /\ r.manifest \in Manifests /\ r.checking \in 1..3 /\ r.since <= edits
       /\ edits = r.since =>
            /\ \A f \in Inspected(r) : r.manifest.files[f] \in GuardedBytes
            /\ (r.pc = "guard" => \A f \in NamedFiles(r) : file[f] = r.manifest.files[f])
  /\ r.pc \in Planning =>
       /\ r.manifest \in Manifests /\ GlobalOrder(r.manifest)
       /\ r.settled => \A f \in DOMAIN r.manifest.files : r.manifest.files[f] \in GuardedBytes
  /\ r.pc \in Executing => r.manifest = doc.manifest /\ r.next \in 1..Len(r.plan)

(* It executes the whole profile in the manifest's bytes, records a version*)
(* only after the file's objects were created, and leaves no target before *)
(* all of its versions are recorded.                                       *)
Recorded(r, t) == Ledger(r.manifest, t.profile) \subseteq history[DbOf[t.url]]
Left(r) == {r.pending[i] : i \in 1..Len(r.pending)}
LedgerExecuted(r) ==
  LET ledger == Ledger(r.manifest, CurrentTarget(r).profile)
      d == DbOf[CurrentTarget(r).url]
  IN  /\ r.pc \in {"list", "apply", "record"} =>
           /\ DOMAIN r.bytes = ledger /\ \A f \in ledger : r.bytes[f] = r.manifest.files[f]
           /\ Left(r) \subseteq ledger
      /\ r.pc = "list" => Left(r) = ledger
      /\ r.pc \in {"apply", "record"} => ledger \ Left(r) \subseteq history[d]
      /\ r.pc = "record" => r.pending /= <<>> /\ tables[d][Head(r.pending).component] \in Bytes
      /\ r.pc \in Executing => \A i \in 1..(r.next - 1) : Recorded(r, r.plan[i])

(* What has been verified stays verified.                                  *)
VerifiedStands(r) ==
  /\ r.pc \in {"manifest"} \cup Validating \cup Planning => r.unverified = StoreUrls(r.urls)
  /\ r.pc \in Verifying =>
       \A u \in StoreUrls(r.urls) \ r.unverified : HasTables(DbOf[u], StoreComponents(r.urls, u))
  /\ r.pc \in {"seed", "usable"} => r.unverified = {} /\ HasTables(DbOf[r.urls["auth"]], {"auth"})

MigrationInvariant ==
  /\ LedgerTypeOK /\ RecordedExists
  /\ \A o \in Operators : ReviewedPlan(run[o]) /\ LedgerExecuted(run[o]) /\ VerifiedStands(run[o])

(* The profiles that the operators' documents and settings can bring to a  *)
(* database, and when the ledger of one profile begins that of another.    *)
PlanOf(b, s) == PlanFor(b, PostgresUrls(ConfiguredUrls(s)))
Executable(b, s) ==
  LET urls == PostgresUrls(ConfiguredUrls(s))
  IN  /\ DOMAIN urls /= {} /\ Plannable(b, b.manifest, urls)
      /\ \A i \in 1..Len(PlanOf(b, s)) : WriteAllowed(PlanOf(b, s)[i])
Aimed(d, p) ==
  \E b \in Docs, s \in Settings :
    /\ Executable(b, s)
    /\ \E i \in 1..Len(PlanOf(b, s)) : DbOf[PlanOf(b, s)[i].url] = d /\ PlanOf(b, s)[i].profile = p
Before(m, p, f) == {g \in Ledger(m, p) : g.time < f.time}
Begins(p, q) ==
  \A m \in Manifests : /\ Ledger(m, p) \subseteq Ledger(m, q)
                       /\ \A f \in Ledger(m, p) : Before(m, q, f) \subseteq Ledger(m, p)

(* No two documents and settings bring ledgers to one database of which    *)
(* neither begins the other, and revising the manifest renames no file:    *)
(* nothing in the code enforces either.                                    *)
OneLedgerPerDatabase ==
  /\ \A m, n \in Manifests : DOMAIN m.files = DOMAIN n.files
  /\ \A d \in Dbs \ HostedDbs, p, q \in Profiles :
       Aimed(d, p) /\ Aimed(d, q) => Begins(p, q) \/ Begins(q, p)

(* Where that is so, the versions recorded in a database are always the    *)
(* beginning of one profile's ledger, whichever of the documents the runs  *)
(* used and wherever they stopped, and its objects are those versions' and *)
(* at most one more file's (whose version was not recorded before a crash).*)
HistoryIsProfilePrefix ==
  \A d \in Dbs \ HostedDbs :
    \E p \in Profiles :
      LET made == {f \in DOMAIN manifest.files : tables[d][f.component] \in Bytes}
      IN  /\ history[d] \subseteq made /\ made \subseteq Ledger(manifest, p)
          /\ \A f \in made : Before(manifest, p, f) \subseteq history[d]

(* A progress report is true: every profile reported as completed is       *)
(* recorded in the database its target's URL leads to, for as long as the  *)
(* report stands.                                                          *)
ProgressIsTrue ==
  \A o \in Operators : \A i \in 1..Len(report[o].completed) :
    report[o].completed[i].files \subseteq history[DbOf[report[o].completed[i].url]]

(* Only reviewed bytes run: whatever the working tree looks like by then,  *)
(* the bytes executed are those the manifest pinned by the operators'      *)
(* binding document reviewed for that file.  That their SQL is guarded     *)
(* holds only of a run whose validation saw the tree at rest: the guard    *)
(* reads the file again, so an edit before that read and its reversal      *)
(* after it bring pinned bytes to execution that no guard has seen.        *)
OnlyReviewedBytesRun ==
  [][\A d \in Dbs, c \in Components :
       (tables[d][c] = "absent" /\ tables'[d][c] \in Bytes) =>
         /\ \E f \in Named(doc.manifest, c) : tables'[d][c] = doc.manifest.files[f]
         /\ \A o \in Operators : (run'[o] /= run[o] /\ run[o].settled) => Guarded(tables'[d][c])]_vars

(* A run that reports success leaves every configured target usable: each  *)
(* URL leads to a database with that target's tables (the plan only ran on *)
(* the first alias), and the credential database has an enabled user.      *)
SuccessIsProvisioned ==
  [][\A o \in Operators :
       (report[o].outcome /= "success" /\ report'[o].outcome = "success") =>
         /\ \A c \in DOMAIN run[o].urls : tables[DbOf[run[o].urls[c]]][c] /= "absent"
         /\ creds[DbOf[run[o].urls["auth"]]] = "usable"]_vars
===============================================================================
