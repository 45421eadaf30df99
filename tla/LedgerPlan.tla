------------------------------ MODULE LedgerPlan ------------------------------
(***************************************************************************)
(* The contract of the PostgreSQL migration ledger: what a valid manifest  *)
(* is, which migrations a profile consists of, how the operator's target   *)
(* bindings turn the configured URLs into an execution plan, and the write *)
(* barrier (scripts/postgresql_ledger.py).  Nothing here has a state: the  *)
(* process that executes a plan is MigrationLedger, the one that inspects  *)
(* a hosted database is MigrationPreflight.                                *)
(*                                                                         *)
(* A digest stands for the bytes it is the digest of, and a fingerprint    *)
(* for the attested identity it is the fingerprint of.                     *)
(***************************************************************************)
EXTENDS Integers, Sequences, FiniteSets

CONSTANTS
  Files,          \* migration files that may exist: [component, time]
  SqlTokens,      \* the SQL keywords outside comments and quotes, per content of a file
  ReceiptTimes,   \* timestamps of the hosted provider's historical receipts
  LoopbackUrls, HostedUrls

ASSUME LedgerAssumption ==
  /\ IsFiniteSet(Files)
  /\ \A f \in Files : f.component \in {"auth", "graph", "coordination"} /\ f.time \in Int
  /\ "missing" \notin DOMAIN SqlTokens
  /\ ReceiptTimes \subseteq Int /\ ReceiptTimes /= {}
  /\ LoopbackUrls \cap HostedUrls = {}

(* The logical targets in their fixed order; each carries the component of *)
(* its name.                                                               *)
ComponentOrder == <<"auth", "graph", "coordination">>
Components == {"auth", "graph", "coordination"}
Rank(c) == CHOOSE i \in 1..3 : ComponentOrder[i] = c
First(cs) == CHOOSE c \in cs : \A d \in cs : Rank(c) <= Rank(d)

Profiles == Components \cup {"combined"}
ProfileComponents(p) == IF p = "combined" THEN Components ELSE {p}

-------------------------------------------------------------------------------
(* What a migration may say: an explicit transaction, no conditional DDL,  *)
(* no role, nothing dropped, nothing of the provider's history.            *)
Bytes == DOMAIN SqlTokens
Phrase(ts, p) == \E i \in 0..(Len(ts) - Len(p)) : SubSeq(ts, i + 1, i + Len(p)) = p
Forbidden ==
  {<<"IF", "EXISTS">>, <<"IF", "NOT", "EXISTS">>, <<"CREATE", "ROLE">>, <<"ALTER", "ROLE">>, <<"SUPABASE_MIGRATIONS">>}
    \cup {<<"DROP", t>> : t \in {"TABLE", "SCHEMA", "ROLE", "POLICY", "FUNCTION", "TRIGGER", "CONSTRAINT"}}
Guarded(b) ==
  /\ Phrase(SqlTokens[b], <<"BEGIN", ";">>) /\ Phrase(SqlTokens[b], <<"COMMIT", ";">>)
  /\ \A p \in Forbidden : ~Phrase(SqlTokens[b], p)

(* The manifest: the digests of the files it names (m.files), and whether  *)
(* its envelope, lineages, receipts, table ownership and profiles are the  *)
(* ratified ones (m.ratified).                                             *)
Named(m, c) == {f \in DOMAIN m.files : f.component = c}

(* A regular file in its component's directory; a link counts as no file.  *)
Present(file, f) == file[f] /= "missing"

(* What is asked of a component, each on a look of its own at the tree: of *)
(* each file it names that its bytes have the reviewed digest, then, on a  *)
(* second read, that its SQL passes the guard and its timestamp is no      *)
(* receipt's; and last that its directory holds no other file.             *)
DigestIgnored(m, file, f) == Present(file, f)
DigestMatches(m, file, f) == Present(file, f) /\ file[f] = m.files[f]
SqlPassesUnguarded(file, f) == Present(file, f) /\ f.time \notin ReceiptTimes
SqlPasses(file, f) == Present(file, f) /\ Guarded(file[f]) /\ f.time \notin ReceiptTimes
DirectoryMatches(m, file, c) == Named(m, c) = {f \in Files : f.component = c /\ Present(file, f)}

(* Timestamps are unique over all components and later than every receipt. *)
GlobalOrder(m) ==
  /\ \A f, g \in DOMAIN m.files : f.time = g.time => f = g
  /\ \A f \in DOMAIN m.files, t \in ReceiptTimes : f.time > t

(* The migrations of a profile, sorted by timestamp.                       *)
Sorted(S, key) == [i \in 1..Cardinality(S) |-> CHOOSE x \in S : Cardinality({y \in S : key[y] < key[x]}) = i - 1]
Ledger(m, p) == {f \in DOMAIN m.files : f.component \in ProfileComponents(p)}
MigrationsForByName(m, p) ==
  Sorted(Ledger(m, p), [f \in Ledger(m, p) |-> IF f.component = "auth" THEN 1 ELSE IF f.component = "coordination" THEN 2 ELSE 3])
MigrationsFor(m, p) == Sorted(Ledger(m, p), [f \in Ledger(m, p) |-> f.time])

-------------------------------------------------------------------------------
(* Target bindings.  A document pins one manifest and binds logical        *)
(* targets to [profile, lineage, class, id].  urls is a function from the  *)
(* configured PostgreSQL targets to their URLs.                            *)
Binding(doc, c) == doc.targets[c]

(* A control file is read only if it is a regular file that nobody but its *)
(* owner may open, of strict JSON.                                         *)
Readable(doc) == doc.protected

(* A fingerprint is taken of a canonical identity only, and one target's   *)
(* malformed identity ends the load for all of them.                       *)
Attested(doc) == \A c \in DOMAIN doc.targets : Binding(doc, c).id /= "malformed"

(* Aliases of one database form one group; it has the target's own profile *)
(* when it is alone, and "combined" when all three targets share it.       *)
Groups(doc, urls) ==
  {{c \in DOMAIN urls : Binding(doc, c).id = i} : i \in {Binding(doc, c).id : c \in DOMAIN urls}}

ProfileOf(doc, cs) == Binding(doc, First(cs)).profile

AliasesAgree(doc, cs) ==
  /\ Cardinality({Binding(doc, c).lineage : c \in cs}) = 1
  /\ Cardinality({Binding(doc, c).class : c \in cs}) = 1
  /\ \/ {Binding(doc, c).profile : c \in cs} = {"combined"} /\ cs = Components
     \/ \E c \in cs : cs = {c} /\ Binding(doc, c).profile = c

Plannable(doc, manifest, urls) ==
  /\ Readable(doc) /\ doc.manifest = manifest /\ Attested(doc)
  /\ DOMAIN urls \subseteq DOMAIN doc.targets
  /\ \A c, d \in DOMAIN urls : urls[c] = urls[d] => Binding(doc, c).id = Binding(doc, d).id
  /\ \A cs \in Groups(doc, urls) : AliasesAgree(doc, cs)

(* One execution per group, in the order of the groups' first targets; the *)
(* first alias's URL is the one the command line tool is given.            *)
Target(doc, urls, cs) ==
  [targets |-> cs, profile |-> ProfileOf(doc, cs), lineage |-> Binding(doc, First(cs)).lineage,
   class |-> Binding(doc, First(cs)).class, id |-> Binding(doc, First(cs)).id,
   url |-> urls[First(cs)], urls |-> {urls[c] : c \in cs}]

PlanFor(doc, urls) ==
  LET order == Sorted(Groups(doc, urls), [cs \in Groups(doc, urls) |-> Rank(First(cs))])
  IN  [i \in 1..Len(order) |-> Target(doc, urls, order[i])]

(* The write barrier looks at every alias of the target.                   *)
WriteAllowed(t) ==
  /\ t.lineage = "fresh-v1"
  /\ t.class \in {"disposable", "loopback"}
  /\ \A u \in t.urls : /\ u \notin HostedUrls
                       /\ t.class = "loopback" => u \in LoopbackUrls
===============================================================================
