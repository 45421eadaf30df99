------------------------------ MODULE AccountStore ------------------------------
(***************************************************************************)
(* The credential database of the API: the connection helpers              *)
(* (api/database.py), the accounts and tokens (api/auth.py,                *)
(* api/routers/auth.py), the verification at startup with its cancellation *)
(* (api/app_factory.py) and the operators' command that seeds an account   *)
(* through a temporary binding (scripts/migrate_database.py).              *)
(*                                                                         *)
(* The API verifies in a thread while its event loop waits for a bounded   *)
(* time; when the time is over the loop cancels whatever connection the    *)
(* thread has, while the thread goes from one connection to the next.  The *)
(* command runs in a process of its own against the same accounts.         *)
(* Expiry and timeouts are modelled by a coarse clock and by choice.       *)
(***************************************************************************)
EXTENDS Integers, Sequences, FiniteSets

CONSTANTS
  Names, Passwords,
  Stripped,       \* what a name is without the whitespace around it
  Seeds,          \* operators' settings: [target, admin, password, disabled]
  HomeTargets,    \* the database the operators' process is configured with
  Memory,         \* targets that are in memory
  Admin,          \* the API's configured administrator, or Unset
  Requests,       \* slots for concurrent requests
  Queries,        \* catalog queries of the verification before the last, for users
  TokenLife,
  MaxTime, MaxBindings  \* bounds

(* A name or a password that is not configured.                            *)
Unset == ""

ASSUME AccountAssumption == /\ TokenLife \in Nat \ {0} /\ Queries \in Nat
                            /\ MaxTime \in Nat /\ MaxBindings \in Nat
                            /\ Names \cup {Admin, Unset} \subseteq DOMAIN Stripped /\ Stripped[Unset] = Unset
ASSUME SeedsAssumption == \A s \in Seeds : /\ s.admin \in Names \cup {Unset} /\ s.password \in Passwords \cup {Unset}
                                           /\ s.disabled \in BOOLEAN

VARIABLES
  users, tokens, now,     \* the accounts, the tokens issued, the clock
  api, worker, guard,     \* startup, its verification thread, the thread's guard
  requests,
  managers, db, open,     \* the command's process: managers made, module globals, open connections
  command
processVars == <<managers, db, open, command>>
startupVars == <<api, worker, guard>>
vars == <<users, tokens, now, requests, startupVars, processVars>>

None == [disabled |-> TRUE, password |-> "none"]
Accounts == {n \in Names : users[n] /= None}
HasUsers == Accounts /= {}
EnabledIn(us, n) == us[n] /= None /\ ~us[n].disabled
(* History: whether a request's account was enabled since it arrived.      *)
Remember(us) ==
  requests' = [r \in Requests |-> IF requests[r].pc = "none" THEN requests[r]
                                  ELSE [requests[r] EXCEPT !.enabled = @ \/ EnabledIn(us, requests[r].sub)]]

-------------------------------------------------------------------------------
(* The command's process.  A manager of a target shares one connection if  *)
(* the target is in memory; every other connection is private to its use.  *)
(* The module caches the shared connection and who made it.                *)
Shared(k) == <<k, "shared">>
Private(k) == <<k, "private">>
NoCache == <<0, "none">>
(* The database that a manager's URL denotes.                              *)
Target(k) == managers[k]
InMemory == db.target \in Memory

(* _connect: the cache is dropped, and its connection closed, when another *)
(* manager made it.                                                        *)
WithoutCache == open \ {db.cache}
Connected ==
  IF ~InMemory THEN [conn |-> Private(db.manager), open |-> open \cup {Private(db.manager)}, cache |-> db.cache]
  ELSE LET kept == IF db.cache[1] = db.manager THEN open ELSE WithoutCache
       IN  [conn |-> Shared(db.manager), open |-> kept \cup {Shared(db.manager)}, cache |-> Shared(db.manager)]

Idle == [pc |-> "idle", seed |-> [target |-> "none"], previous |-> [target |-> "none"], using |-> NoCache]
Others == UNCHANGED <<users, tokens, now, requests, startupVars>>

(* A use before anything is bound, of the configured target.               *)
UseHome ==
  /\ command.pc = "idle" /\ db.cache = NoCache /\ InMemory
  /\ open' = Connected.open /\ db' = [db EXCEPT !.cache = Connected.cache]
  /\ UNCHANGED <<managers, command>> /\ Others

EnterBindingCached ==
  /\ command.pc = "idle" /\ Len(managers) <= MaxBindings
  /\ \E s \in Seeds :
       /\ managers' = Append(managers, s.target)
       /\ command' = [Idle EXCEPT !.pc = "schema", !.seed = s, !.previous = db]
       /\ db' = [target |-> s.target, manager |-> Len(managers) + 1, cache |-> db.cache]
  /\ UNCHANGED open /\ Others
EnterBinding ==
  /\ command.pc = "idle" /\ Len(managers) <= MaxBindings
  /\ \E s \in Seeds :
       /\ managers' = Append(managers, s.target)
       /\ command' = [Idle EXCEPT !.pc = "schema", !.seed = s, !.previous = db]
       /\ db' = [target |-> s.target, manager |-> Len(managers) + 1, cache |-> NoCache]
  /\ UNCHANGED open /\ Others

(* Each statement takes a connection, and gives it back whatever happens.  *)
Take ==
  /\ command.pc \in {"schema", "seed", "check"} /\ command.using = NoCache
  /\ \/ /\ command' = [command EXCEPT !.using = Connected.conn]
        /\ open' = Connected.open /\ db' = [db EXCEPT !.cache = Connected.cache]
     \/ command' = [command EXCEPT !.pc = "leave"] /\ UNCHANGED <<open, db>>
  /\ UNCHANGED managers /\ Others

Given(next) ==
  /\ command' = [command EXCEPT !.pc = next, !.using = NoCache]
  /\ open' = IF InMemory THEN open ELSE open \ {command.using}
  /\ UNCHANGED <<managers, db>>

(* A PostgreSQL schema is verified, any other created.                     *)
SchemaStatement ==
  /\ command.pc = "schema" /\ command.using /= NoCache
  /\ \E next \in {"seed", "leave"} : Given(next)
  /\ Others

(* The administrator is inserted or overwritten, flag included; without a  *)
(* name or a password nothing is.                                          *)
Upserted(s) == [users EXCEPT ![s.admin] = [disabled |-> s.disabled, password |-> s.password]]
SeedCredentials ==
  LET s == command.seed
  IN  /\ command.pc = "seed" /\ command.using /= NoCache
      /\ \/ /\ Given("check")
            /\ users' = IF Target(command.using[1]) = "accounts" /\ s.admin /= Unset /\ s.password /= Unset
                        THEN Upserted(s) ELSE users
         \/ Given("leave") /\ UNCHANGED users
      /\ Remember(users') /\ UNCHANGED <<tokens, now, startupVars>>

CheckUsable ==
  /\ command.pc = "check" /\ command.using /= NoCache
  /\ Given("leave") /\ Others

(* The target's connections are closed and everything before it restored.  *)
(* A connection that cannot be closed leaves the binding in place: the     *)
(* exception ends the command, and nothing more is done in its process.    *)
LeaveBinding ==
  /\ command.pc = "leave"
  /\ \/ /\ open' = open \ {db.cache, Shared(db.manager)}
        /\ db' = command.previous /\ command' = Idle
     \/ /\ db.cache /= NoCache
        /\ command' = [command EXCEPT !.pc = "broken"] /\ UNCHANGED <<open, db>>
  /\ UNCHANGED managers /\ Others

(* At exit what is cached and what the manager shares is closed.           *)
CleanupAtExit ==
  /\ command.pc = "idle" /\ command' = [Idle EXCEPT !.pc = "exited"]
  /\ open' = open \ {db.cache, Shared(IF db.cache = NoCache THEN db.manager ELSE db.cache[1])}
  /\ db' = [db EXCEPT !.cache = NoCache]
  /\ UNCHANGED managers /\ Others

-------------------------------------------------------------------------------
(* Startup: the thread's statements, one connection each, of a PostgreSQL  *)
(* store.  The connections to an SQLite store are not registered with the  *)
(* guard: there a cancellation has nothing to close.                       *)
Finished == {"ok", "failed"}
RegisterLeaking ==
  /\ worker.pc = "register"
  /\ \/ guard.cancelled /\ worker' = [worker EXCEPT !.pc = "failed"] /\ UNCHANGED guard
     \/ /\ ~guard.cancelled
        /\ guard' = [guard EXCEPT !.tracked = TRUE] /\ worker' = [worker EXCEPT !.pc = "execute"]
RegisterUnchecked ==
  /\ worker.pc = "register"
  /\ guard' = [guard EXCEPT !.tracked = TRUE] /\ worker' = [worker EXCEPT !.pc = "execute"]
Register ==
  /\ worker.pc = "register"
  /\ \/ /\ guard.cancelled
        /\ worker' = [worker EXCEPT !.pc = "failed", !.connection = "closed"] /\ UNCHANGED guard
     \/ /\ ~guard.cancelled
        /\ guard' = [guard EXCEPT !.tracked = TRUE] /\ worker' = [worker EXCEPT !.pc = "execute"]

CreateConnection ==
  /\ worker.pc = "connect"
  /\ \/ worker' = [worker EXCEPT !.pc = "register", !.connection = "open"]
     \/ worker' = [worker EXCEPT !.pc = "failed"]
  /\ UNCHANGED guard

(* A statement on a connection that was closed meanwhile fails; the last   *)
(* one asks whether there are users.                                       *)
Execute ==
  /\ worker.pc = "execute"
  /\ \/ /\ worker.connection = "open"
        /\ worker.done = Queries => HasUsers
        /\ worker' = [worker EXCEPT !.pc = "release"]
     \/ worker' = [worker EXCEPT !.pc = "raise"]
  /\ UNCHANGED guard

Release ==
  /\ worker.pc \in {"release", "raise"}
  /\ guard' = [guard EXCEPT !.tracked = FALSE]
  /\ worker' = [worker EXCEPT !.connection = "closed", !.done = @ + 1,
                  !.pc = IF worker.pc = "raise" THEN "failed" ELSE IF worker.done = Queries THEN "ok" ELSE "connect"]

Worker == (CreateConnection \/ Register \/ Execute \/ Release)
          /\ UNCHANGED <<users, tokens, now, requests, api, processVars>>

(* The event loop: a result that arrived in time, or the end of its        *)
(* patience, also when the lifespan is cancelled: cancellation under the   *)
(* guard's lock, the connection after it, then a bounded wait.             *)
SettleLate == /\ api.pc \in {"verifying", "draining"} /\ worker.pc \in Finished
              /\ api' = [api EXCEPT !.pc = IF worker.pc = "ok" THEN "serving" ELSE "failed"]
              /\ UNCHANGED <<worker, guard>>
Settle == /\ api.pc = "verifying" /\ worker.pc \in Finished
          /\ api' = [api EXCEPT !.pc = IF worker.pc = "ok" THEN "serving" ELSE "failed"]
          /\ UNCHANGED <<worker, guard>>
GiveUp == /\ api.pc = "verifying"
          /\ api' = [pc |-> "cancelling", abandoned |-> TRUE]
          /\ guard' = [guard EXCEPT !.cancelled = TRUE, !.taken = IF guard.tracked THEN {worker.done} ELSE {}, !.tracked = FALSE]
          /\ UNCHANGED worker
CloseTaken == /\ api.pc = "cancelling"
              /\ worker' = IF worker.done \in guard.taken THEN [worker EXCEPT !.connection = "closed"] ELSE worker
              /\ api' = [api EXCEPT !.pc = "draining"] /\ UNCHANGED guard
EndDrain == api.pc = "draining" /\ api' = [api EXCEPT !.pc = "failed"] /\ UNCHANGED <<worker, guard>>

Loop == (Settle \/ GiveUp \/ CloseTaken \/ EndDrain) /\ UNCHANGED <<users, tokens, now, requests, processVars>>

-------------------------------------------------------------------------------
(* Logins and requests of a serving process.                               *)
Serving == api.pc = "serving" /\ UNCHANGED <<startupVars, processVars, now, users>>

(* The password decides; a disabled account gets a token, which no request *)
(* accepts.                                                                *)
Authenticated(n, p) == n \in Accounts /\ users[n].password = p
AccessToken(n) == [sub |-> n, exp |-> now + TokenLife]
Login ==
  /\ Serving
  /\ \E n \in Names, p \in Passwords : Authenticated(n, p) /\ tokens' = tokens \cup {AccessToken(n)}
  /\ UNCHANGED requests
Decodable(t) == now < t.exp

Vacant == [pc |-> "none", sub |-> Unset, operator |-> FALSE, disabled |-> TRUE, enabled |-> FALSE, exp |-> 0]
To(r, pc) == requests' = [requests EXCEPT ![r].pc = pc]

(* The token is decoded and its account read in one go.                    *)
GetCurrentUser(r) ==
  /\ requests[r].pc = "none" /\ Serving
  /\ \E t \in tokens, operator \in BOOLEAN :
       LET granted == Decodable(t) /\ users[t.sub] /= None
       IN  requests' = [requests EXCEPT ![r] =
             [pc |-> IF granted THEN "current" ELSE "denied", sub |-> t.sub, operator |-> operator,
              disabled |-> users[t.sub].disabled, enabled |-> EnabledIn(users, t.sub), exp |-> t.exp]]
  /\ UNCHANGED tokens

GetActiveUserUnchecked(r) ==
  /\ requests[r].pc = "current" /\ Serving
  /\ To(r, IF requests[r].operator THEN "active" ELSE "admitted") /\ UNCHANGED tokens
GetActiveUser(r) ==
  /\ requests[r].pc = "current" /\ Serving
  /\ To(r, IF requests[r].disabled THEN "denied" ELSE IF requests[r].operator THEN "active" ELSE "admitted")
  /\ UNCHANGED tokens

(* Both names are compared without the whitespace around them, though      *)
(* accounts are stored, and the administrator seeded, under the names as   *)
(* they are.                                                               *)
IsOperator(n) == Stripped[Admin] /= Unset /\ Stripped[n] = Stripped[Admin]
GetOperatorOfAny(r) ==
  /\ requests[r].pc = "active" /\ Serving
  /\ To(r, IF Stripped[Admin] /= Unset THEN "admitted" ELSE "denied")
  /\ UNCHANGED tokens
GetOperator(r) ==
  /\ requests[r].pc = "active" /\ Serving
  /\ To(r, IF IsOperator(requests[r].sub) THEN "admitted" ELSE "denied")
  /\ UNCHANGED tokens

Respond(r) ==
  /\ requests[r].pc \in {"admitted", "denied"} /\ Serving
  /\ requests' = [requests EXCEPT ![r] = Vacant] /\ UNCHANGED tokens

-------------------------------------------------------------------------------
(* Operators also write the table directly; time passes.                   *)
Administer ==
  /\ \E n \in Accounts : \E row \in {None} \cup {[users[n] EXCEPT !.disabled = ~@]} : users' = [users EXCEPT ![n] = row]
  /\ Remember(users') /\ UNCHANGED <<tokens, now, startupVars, processVars>>
Tick == /\ now < MaxTime /\ now' = now + 1
        /\ UNCHANGED <<users, tokens, requests, startupVars, processVars>>

Init ==
  /\ users \in [Names -> {None} \cup {[disabled |-> d, password |-> p] : d \in BOOLEAN, p \in Passwords}]
  /\ tokens = {} /\ now = 0 /\ requests = [r \in Requests |-> Vacant]
  /\ api = [pc |-> "verifying", abandoned |-> FALSE]
  /\ worker = [pc |-> "connect", connection |-> "none", done |-> 0]
  /\ guard = [cancelled |-> FALSE, tracked |-> FALSE, taken |-> {}]
  /\ \E t \in HomeTargets : managers = <<t>> /\ db = [target |-> t, manager |-> 1, cache |-> NoCache]
  /\ open = {} /\ command = Idle

Command == UseHome \/ EnterBinding \/ Take \/ SchemaStatement \/ SeedCredentials \/ CheckUsable
           \/ LeaveBinding \/ CleanupAtExit
Request(r) == GetCurrentUser(r) \/ GetActiveUser(r) \/ GetOperator(r) \/ Respond(r)
Next == Worker \/ Loop \/ Command \/ Login \/ (\E r \in Requests : Request(r)) \/ Administer \/ Tick

(* Threads are scheduled; connecting and every statement of a guarded      *)
(* operation have a timeout; the loop ends its waits.                      *)
Fairness == WF_vars(Worker) /\ WF_vars(Loop)
Spec == Init /\ [][Next]_vars /\ Fairness

-------------------------------------------------------------------------------
(* The accounts, the tokens and the requests.  An admission rests on what  *)
(* the request read: its account is enabled if the copy says so.           *)
AccountRow == {None} \cup [disabled : BOOLEAN, password : Passwords]
RequestType == [pc : {"none", "current", "denied", "active", "admitted"}, sub : Names \cup {Unset},
                operator : BOOLEAN, disabled : BOOLEAN, enabled : BOOLEAN, exp : Nat]
AccountsSound ==
  /\ users \in [Names -> AccountRow] /\ now \in 0..MaxTime
  /\ \A t \in tokens : t.sub \in Names /\ t.exp \in 1..(MaxTime + TokenLife)
  /\ requests \in [Requests -> RequestType]
  /\ \A r \in Requests :
       /\ requests[r].pc = "current" /\ ~requests[r].disabled => requests[r].enabled
       /\ requests[r].pc = "active" => requests[r].enabled /\ requests[r].operator

(* Startup: what the guard, the thread and the loop say of each other.     *)
StartupSound ==
  /\ api \in [pc : {"verifying", "cancelling", "draining", "failed", "serving"}, abandoned : BOOLEAN]
  /\ worker \in [pc : {"connect", "register", "execute", "release", "raise", "ok", "failed"},
                  connection : {"none", "open", "closed"}, done : Nat]
  /\ guard \in [cancelled : BOOLEAN, tracked : BOOLEAN, taken : SUBSET Nat]
  /\ guard.cancelled = api.abandoned
  /\ api.abandoned => api.pc \in {"cancelling", "draining", "failed"} /\ ~guard.tracked
  /\ ~api.abandoned => api.pc \in {"verifying", "failed", "serving"}
  /\ ~api.abandoned => (guard.tracked <=> worker.pc \in {"execute", "release", "raise"})
  /\ api.pc = "cancelling" /\ worker.pc = "execute" /\ worker.connection = "open" => worker.done \in guard.taken
  /\ worker.pc = "ok" => worker.done = Queries + 1 /\ worker.connection = "closed"

(* The command: a binding remembers the globals it found, works on a       *)
(* manager of its own and never on a connection of the binding before.     *)
Within == {"schema", "seed", "check", "leave", "broken"}
Cached(globals) == {globals.cache} \ {NoCache}
CommandSound ==
  /\ command = [pc |-> command.pc, seed |-> command.seed, previous |-> command.previous, using |-> command.using]
  /\ db = [target |-> db.target, manager |-> db.manager, cache |-> db.cache]
  /\ managers \in Seq(HomeTargets \cup {s.target : s \in Seeds}) /\ Len(managers) \in 1..(MaxBindings + 1)
  /\ command.pc \in Within \cup {"idle", "exited"}
  /\ db.manager \in DOMAIN managers /\ db.target = Target(db.manager)
  /\ db.cache \in {NoCache, Shared(db.manager)} /\ (db.cache /= NoCache => InMemory)
  /\ command.pc \in Within =>
       /\ command.seed \in Seeds /\ db.target = command.seed.target
       /\ db.manager > 1 /\ command.previous.manager = 1 /\ command.previous.target = Target(1)
       /\ command.previous = [target |-> Target(1), manager |-> 1, cache |-> command.previous.cache]
       /\ command.previous.cache \in {NoCache, Shared(1)}
       /\ command.previous.cache /= NoCache => Target(1) \in Memory
       /\ command.using \in {NoCache, IF InMemory THEN db.cache ELSE Private(db.manager)}
       /\ open = Cached(db) \cup Cached(command.previous) \cup ({command.using} \ {NoCache})
  /\ command.pc \notin Within => /\ command.using = NoCache /\ db.manager = 1 /\ open = Cached(db)
  /\ command.pc \in {"leave", "broken"} => command.using = NoCache

(* The shape of the state; and the API fails closed: it serves only after  *)
(* every query of a verification it waited for succeeded, none of whose    *)
(* connections is left.                                                    *)
AccountInvariant ==
  /\ AccountsSound /\ StartupSound /\ CommandSound
  /\ guard.tracked => worker.pc \in {"execute", "release", "raise"}
  /\ api.pc = "serving" => /\ ~api.abandoned /\ worker.pc = "ok" /\ worker.done = Queries + 1
                           /\ worker.connection = "closed"

(* Once the cancellation is through, the verification does no more work:   *)
(* the thread may still be connecting, or about to register, but no        *)
(* connection of its is tracked and none with a statement is open.         *)
AbandonedWorkStops ==
  api.abandoned /\ api.pc /= "cancelling" =>
    ~guard.tracked /\ ~(worker.pc = "execute" /\ worker.connection = "open")

(* An abandoned verification ends, and leaves no connection behind.        *)
AbandonedDrains == api.abandoned ~> (worker.pc \in Finished /\ worker.connection /= "open")

(* A request is admitted only if its account existed and was enabled at    *)
(* some moment since it arrived, however old its token and whatever was    *)
(* seeded or disabled meanwhile; as an operator's only if an administrator *)
(* is configured and the account has that name, up to whitespace.          *)
AdmittedWasEnabled ==
  \A r \in Requests : requests[r].pc = "admitted" =>
    requests[r].enabled /\ (requests[r].operator => IsOperator(requests[r].sub))

(* A binding is complete and leaves no trace: every statement under it     *)
(* uses an open connection to the bound target; outside it the helpers are *)
(* as they were, with a cached connection still open and no other (unless  *)
(* a connection could not be closed, which ends the process).              *)
BindingRestored ==
  /\ command.using /= NoCache => command.using \in open /\ Target(command.using[1]) = command.seed.target
  /\ command.pc \in {"idle", "exited"} =>
       db.manager = 1 /\ db.target = Target(1) /\ open = {db.cache} \ {NoCache}
===============================================================================
