-------------------------- MODULE AccountStore_proofs --------------------------
(***************************************************************************)
(* What startup, the requests and the seeding command keep, for any        *)
(* accounts, any number of requests and of verification queries, and any   *)
(* settings of the operators.                                              *)
(***************************************************************************)
EXTENDS AccountStore, SequenceTheorems, TLAPS

(* An account that is enabled now was enabled since the request arrived;   *)
(* nothing else of a request changes when an account does.                 *)
LEMMA RememberKeeps ==
    ASSUME AccountsSound, NEW us \in [Names -> AccountRow], Remember(us), users' = us, UNCHANGED <<tokens, now>>
    PROVE  AccountsSound'
<1>1. \A n \in Names : EnabledIn(us, n) \in BOOLEAN
  BY DEF EnabledIn, AccountRow, None
<1>2. requests' \in [Requests -> RequestType]
  <2>. SUFFICES ASSUME NEW r \in Requests
                PROVE  (IF requests[r].pc = "none" THEN requests[r]
                        ELSE [requests[r] EXCEPT !.enabled = @ \/ EnabledIn(us, requests[r].sub)]) \in RequestType
    BY DEF Remember
  <2>1. requests[r] \in RequestType
    BY DEF AccountsSound
  <2>2. (requests[r].enabled \/ EnabledIn(us, requests[r].sub)) \in BOOLEAN
    OBVIOUS
  <2>. QED BY <2>1, <2>2 DEF RequestType
<1>3. \A r \in Requests : /\ requests'[r].pc = requests[r].pc /\ requests'[r].disabled = requests[r].disabled
                          /\ requests'[r].operator = requests[r].operator
                          /\ requests[r].pc /= "none" /\ requests[r].enabled => requests'[r].enabled
  <2>. SUFFICES ASSUME NEW r \in Requests
                PROVE  /\ requests'[r].pc = requests[r].pc /\ requests'[r].disabled = requests[r].disabled
                       /\ requests'[r].operator = requests[r].operator
                       /\ requests[r].pc /= "none" /\ requests[r].enabled => requests'[r].enabled
    OBVIOUS
  <2>1. requests[r] \in RequestType
    BY DEF AccountsSound
  <2>2. requests'[r] = IF requests[r].pc = "none" THEN requests[r]
                       ELSE [requests[r] EXCEPT !.enabled = @ \/ EnabledIn(us, requests[r].sub)]
    BY DEF Remember
  <2>. QED BY <2>1, <2>2 DEF RequestType
<1>. QED BY <1>2, <1>3 DEF AccountsSound

-------------------------------------------------------------------------------
(* Startup                                                                 *)

LEMMA WorkerKeeps == StartupSound /\ Worker => StartupSound'
<1>. SUFFICES ASSUME StartupSound, Worker PROVE StartupSound'
  OBVIOUS
<1>. USE AccountAssumption DEF StartupSound, Worker
<1>1. CASE CreateConnection
  BY <1>1 DEF CreateConnection
<1>2. CASE Register
  <2>1. worker.pc = "register" /\ UNCHANGED api
    BY <1>2 DEF Register
  <2>2. CASE guard.cancelled
    <3>1. worker' = [pc |-> "failed", connection |-> "closed", done |-> worker.done] /\ guard' = guard
      BY <1>2, <2>2 DEF Register
    <3>. QED BY <2>1, <2>2, <3>1
  <2>3. CASE ~guard.cancelled
    <3>1. /\ worker' = [pc |-> "execute", connection |-> worker.connection, done |-> worker.done]
          /\ guard' = [cancelled |-> FALSE, tracked |-> TRUE, taken |-> guard.taken]
      BY <1>2, <2>3 DEF Register
    <3>. QED BY <2>1, <2>3, <3>1
  <2>. QED BY <2>2, <2>3
<1>3. CASE Execute
  BY <1>3 DEF Execute
<1>4. CASE Release
  <2>1. worker.pc \in {"release", "raise"} /\ guard' = [guard EXCEPT !.tracked = FALSE] /\ UNCHANGED api
    BY <1>4, Zenon DEF Release
  <2>0. guard' = [cancelled |-> guard.cancelled, tracked |-> FALSE, taken |-> guard.taken]
    BY <2>1
  <2>5. worker.done + 1 \in Nat
    OBVIOUS
  <2>2. CASE worker.pc = "raise"
    <3>1. worker' = [pc |-> "failed", connection |-> "closed", done |-> worker.done + 1]
      BY <1>4, <2>2 DEF Release
    <3>. QED BY <2>0, <2>1, <2>5, <2>2, <3>1
  <2>3. CASE worker.pc = "release" /\ worker.done = Queries
    <3>1. worker' = [pc |-> "ok", connection |-> "closed", done |-> worker.done + 1]
      BY <1>4, <2>3 DEF Release
    <3>. QED BY <2>0, <2>1, <2>5, <2>3, <3>1
  <2>4. CASE worker.pc = "release" /\ worker.done /= Queries
    <3>1. worker' = [pc |-> "connect", connection |-> "closed", done |-> worker.done + 1]
      BY <1>4, <2>4 DEF Release
    <3>. QED BY <2>0, <2>1, <2>5, <2>4, <3>1
  <2>. QED BY <2>1, <2>2, <2>3, <2>4
<1>. QED BY <1>1, <1>2, <1>3, <1>4

LEMMA LoopKeeps == StartupSound /\ Loop => StartupSound'
<1>. SUFFICES ASSUME StartupSound, Loop PROVE StartupSound'
  OBVIOUS
<1>. USE AccountAssumption DEF StartupSound, Loop
<1>1. CASE Settle
  BY <1>1 DEF Settle, Finished
<1>2. CASE GiveUp
  BY <1>2 DEF GiveUp
<1>3. CASE CloseTaken
  BY <1>3 DEF CloseTaken
<1>4. CASE EndDrain
  BY <1>4 DEF EndDrain
<1>. QED BY <1>1, <1>2, <1>3, <1>4

(* A serving process has stopped its verification for good.                *)
ServingIsVerified ==
  api.pc = "serving" => /\ ~api.abandoned /\ worker.pc = "ok" /\ worker.done = Queries + 1
                        /\ worker.connection = "closed"

LEMMA ServingKept ==
    ASSUME StartupSound, ServingIsVerified, Worker \/ Loop
    PROVE  ServingIsVerified'
<1>. USE DEF StartupSound, ServingIsVerified
<1>1. CASE Worker
  BY <1>1 DEF Worker, CreateConnection, Register, Execute, Release
<1>2. CASE Loop
  BY <1>2 DEF Loop, Settle, GiveUp, CloseTaken, EndDrain, Finished
<1>. QED BY <1>1, <1>2

(* No statement runs on an open connection once the cancellation is        *)
(* through: what the loop took, it has closed, and no thread that was      *)
(* cancelled gets past its registration.                                   *)
LEMMA StopsKept ==
    ASSUME StartupSound, AbandonedWorkStops, Worker \/ Loop
    PROVE  AbandonedWorkStops'
<1>. USE DEF StartupSound, AbandonedWorkStops
<1>1. CASE Worker
  BY <1>1 DEF Worker, CreateConnection, Register, Execute, Release
<1>2. CASE Loop
  BY <1>2 DEF Loop, Settle, GiveUp, CloseTaken, EndDrain, Finished
<1>. QED BY <1>1, <1>2

-------------------------------------------------------------------------------
(* Requests                                                                *)

LEMMA LoginKeeps == AccountsSound /\ Login => AccountsSound'
<1>. SUFFICES ASSUME AccountsSound, Login PROVE AccountsSound'
  OBVIOUS
<1>1. PICK n \in Names : tokens' = tokens \cup {AccessToken(n)}
  BY DEF Login
<1>2. UNCHANGED <<users, now, requests>>
  BY DEF Login, Serving
<1>3. AccessToken(n).sub \in Names /\ AccessToken(n).exp \in 1..(MaxTime + TokenLife)
  <2>1. now \in 0..MaxTime
    BY DEF AccountsSound
  <2>2. now + TokenLife \in 1..(MaxTime + TokenLife)
    <3>1. TokenLife \in Nat /\ TokenLife > 0 /\ MaxTime \in Nat
      BY AccountAssumption
    <3>. QED BY <2>1, <3>1
  <2>. QED BY <2>2, Zenon DEF AccessToken
<1>. QED BY <1>1, <1>2, <1>3 DEF AccountsSound

(* A request changes only its own slot.                                    *)
LEMMA RequestKeeps ==
    ASSUME AccountsSound, NEW r \in Requests, Request(r)
    PROVE  AccountsSound'
<1>. DEFINE q == requests'[r]
<1>1. UNCHANGED <<users, now, tokens>>
  BY DEF Request, GetCurrentUser, GetActiveUser, GetOperator, Respond, Serving
<1>2. /\ requests' = [requests EXCEPT ![r] = q] /\ q \in RequestType
      /\ q.pc = "current" /\ ~q.disabled => q.enabled
      /\ q.pc = "active" => q.enabled /\ q.operator
  <2>0. requests[r] \in RequestType /\ requests \in [Requests -> RequestType]
    BY DEF AccountsSound
  <2>1. CASE GetCurrentUser(r)
    <3>1. PICK t \in tokens, operator \in BOOLEAN :
            requests' = [requests EXCEPT ![r] =
              [pc |-> IF Decodable(t) /\ users[t.sub] /= None THEN "current" ELSE "denied", sub |-> t.sub,
               operator |-> operator, disabled |-> users[t.sub].disabled, enabled |-> EnabledIn(users, t.sub),
               exp |-> t.exp]]
      BY <2>1 DEF GetCurrentUser
    <3>2. t.sub \in Names /\ t.exp \in Nat /\ users[t.sub] \in AccountRow
      BY DEF AccountsSound
    <3>3. users[t.sub].disabled \in BOOLEAN /\ EnabledIn(users, t.sub) \in BOOLEAN
      <4>1. CASE users[t.sub] = None
        BY <4>1 DEF None, EnabledIn
      <4>2. CASE users[t.sub] \in [disabled : BOOLEAN, password : Passwords]
        BY <4>2 DEF EnabledIn
      <4>. QED BY <3>2, <4>1, <4>2 DEF AccountRow
    <3>4. users[t.sub] /= None /\ ~users[t.sub].disabled => EnabledIn(users, t.sub)
      BY DEF EnabledIn
    <3>. QED BY <2>0, <3>1, <3>2, <3>3, <3>4 DEF RequestType
  <2>2. CASE GetActiveUser(r)
    BY <2>0, <2>2 DEF GetActiveUser, To, RequestType, AccountsSound
  <2>3. CASE GetOperator(r)
    BY <2>0, <2>3 DEF GetOperator, To, RequestType
  <2>4. CASE Respond(r)
    BY <2>0, <2>4 DEF Respond, Vacant, RequestType
  <2>. QED BY <2>1, <2>2, <2>3, <2>4 DEF Request
<1>. QED BY <1>1, <1>2 DEF AccountsSound

LEMMA AdministerKeeps == AccountsSound /\ Administer => AccountsSound'
<1>. SUFFICES ASSUME AccountsSound, Administer PROVE AccountsSound'
  OBVIOUS
<1>1. PICK n \in Accounts : \E row \in {None} \cup {[users[n] EXCEPT !.disabled = ~@]} : users' = [users EXCEPT ![n] = row]
  BY DEF Administer
<1>2. users[n] \in [disabled : BOOLEAN, password : Passwords] /\ users \in [Names -> AccountRow]
  BY DEF AccountsSound, AccountRow, Accounts
<1>3. [users[n] EXCEPT !.disabled = ~@] \in AccountRow /\ None \in AccountRow
  BY <1>2 DEF AccountRow
<1>4. users' \in [Names -> AccountRow]
  <2>1. PICK row \in AccountRow : users' = [users EXCEPT ![n] = row]
    BY <1>1, <1>3
  <2>. QED BY <1>2, <2>1
<1>. QED BY <1>4, RememberKeeps DEF Administer

LEMMA SeedKeeps == AccountsSound /\ CommandSound /\ SeedCredentials => AccountsSound'
<1>. SUFFICES ASSUME AccountsSound, CommandSound, SeedCredentials PROVE AccountsSound'
  OBVIOUS
<1>. DEFINE s == command.seed
<1>1. s \in Seeds
  BY DEF CommandSound, SeedCredentials, Within
<1>2. users' = users \/ (s.admin /= Unset /\ s.password /= Unset /\ users' = Upserted(s))
  BY DEF SeedCredentials
<1>3. s.admin /= Unset /\ s.password /= Unset => [disabled |-> s.disabled, password |-> s.password] \in AccountRow
  BY <1>1, SeedsAssumption DEF AccountRow
<1>4. users' \in [Names -> AccountRow]
  BY <1>2, <1>3 DEF AccountsSound, Upserted
<1>. QED BY <1>4, RememberKeeps DEF SeedCredentials

(* An admission follows what the request read of an enabled account.       *)
LEMMA AdmissionKept ==
    ASSUME AccountsSound, AdmittedWasEnabled, NEW r \in Requests, Request(r)
    PROVE  AdmittedWasEnabled'
<1>. DEFINE q == requests'[r]
<1>0. requests[r] \in RequestType /\ requests \in [Requests -> RequestType]
  BY DEF AccountsSound
<1>1. CASE GetCurrentUser(r)
  BY <1>0, <1>1 DEF GetCurrentUser, AdmittedWasEnabled
<1>2. CASE GetActiveUser(r)
  BY <1>0, <1>2 DEF GetActiveUser, To, RequestType, AccountsSound, AdmittedWasEnabled
<1>3. CASE GetOperator(r)
  BY <1>0, <1>3 DEF GetOperator, To, RequestType, AccountsSound, AdmittedWasEnabled
<1>4. CASE Respond(r)
  BY <1>0, <1>4 DEF Respond, Vacant, AdmittedWasEnabled
<1>. QED BY <1>1, <1>2, <1>3, <1>4 DEF Request

LEMMA AdmissionRemembered ==
    ASSUME AccountsSound, AdmittedWasEnabled, NEW us, Remember(us)
    PROVE  AdmittedWasEnabled'
<1>. SUFFICES ASSUME NEW r \in Requests, requests'[r].pc = "admitted"
              PROVE  requests'[r].enabled /\ (requests'[r].operator => IsOperator(requests'[r].sub))
  BY DEF AdmittedWasEnabled
<1>1. requests[r] \in RequestType
  BY DEF AccountsSound
<1>2. requests'[r] = IF requests[r].pc = "none" THEN requests[r]
                     ELSE [requests[r] EXCEPT !.enabled = @ \/ EnabledIn(us, requests[r].sub)]
  BY DEF Remember
<1>. QED BY <1>1, <1>2 DEF AdmittedWasEnabled, RequestType

-------------------------------------------------------------------------------
(* The command's process                                                   *)

(* The two kinds of connection and the cache's empty value are never equal. *)
LEMMA ConnectionsDiffer ==
    ASSUME NEW j \in Nat \ {0}, NEW k \in Nat \ {0}
    PROVE  /\ Shared(j) /= NoCache /\ Private(j) /= NoCache /\ Shared(j) /= Private(k)
           /\ Shared(j) = Shared(k) <=> j = k
           /\ Shared(j)[1] = j /\ Private(j)[1] = j /\ NoCache[1] = 0
BY DEF Shared, Private, NoCache

(* What a use obtains when nothing of another manager is cached.           *)
LEMMA ConnectedIs ==
    ASSUME CommandSound
    PROVE  Connected = IF ~InMemory THEN [conn |-> Private(db.manager), open |-> open \cup {Private(db.manager)}, cache |-> db.cache]
                       ELSE [conn |-> Shared(db.manager), open |-> open \cup {Shared(db.manager)}, cache |-> Shared(db.manager)]
<1>1. db.manager \in Nat \ {0}
  BY DEF CommandSound
<1>2. NoCache \notin open
  <2>1. CASE command.pc \in Within
    BY <2>1 DEF CommandSound, Cached
  <2>2. CASE command.pc \notin Within
    BY <2>2 DEF CommandSound, Cached
  <2>. QED BY <2>1, <2>2
<1>3. db.cache[1] = db.manager \/ db.cache = NoCache
  BY <1>1, ConnectionsDiffer DEF CommandSound
<1>4. db.cache[1] /= db.manager => WithoutCache = open
  BY <1>2, <1>3 DEF WithoutCache
<1>. QED BY <1>4 DEF Connected

LEMMA UseHomeKeeps == CommandSound /\ UseHome => CommandSound'
<1>. SUFFICES ASSUME CommandSound, UseHome PROVE CommandSound'
  OBVIOUS
<1>1. command.pc \notin Within /\ command.using = NoCache /\ db.manager = 1 /\ open = {}
  BY DEF CommandSound, UseHome, Within, Cached
<1>2. db' = [target |-> db.target, manager |-> 1, cache |-> Shared(1)] /\ open' = {Shared(1)}
      /\ UNCHANGED <<managers, command>>
  BY <1>1, ConnectedIs DEF UseHome, CommandSound
<1>3. Shared(1) /= NoCache
  BY ConnectionsDiffer
<1>4. InMemory'
  BY <1>2 DEF UseHome, InMemory
<1>. QED BY <1>1, <1>2, <1>3, <1>4 DEF CommandSound, Cached, Target

LEMMA EnterKeeps == CommandSound /\ EnterBinding => CommandSound'
<1>. SUFFICES ASSUME CommandSound, EnterBinding PROVE CommandSound'
  OBVIOUS
<1>. DEFINE T == HomeTargets \cup {s.target : s \in Seeds}
            n == Len(managers)
<1>1. PICK s \in Seeds :
        /\ managers' = Append(managers, s.target)
        /\ command' = [Idle EXCEPT !.pc = "schema", !.seed = s, !.previous = db]
        /\ db' = [target |-> s.target, manager |-> n + 1, cache |-> NoCache]
  BY DEF EnterBinding
<1>2. /\ managers \in Seq(T) /\ n \in 1..(MaxBindings + 1) /\ n <= MaxBindings /\ open' = open
      /\ db.manager = 1 /\ open = Cached(db) /\ db.target = Target(1) /\ db.cache \in {NoCache, Shared(1)}
      /\ db = [target |-> Target(1), manager |-> 1, cache |-> db.cache]
      /\ (db.cache /= NoCache => Target(1) \in Memory)
  BY DEF CommandSound, EnterBinding, Within, InMemory
<1>3. MaxBindings \in Nat
  BY AccountAssumption
<1>4. n \in Nat /\ n >= 1 /\ n + 1 \in 1..(MaxBindings + 1)
  BY <1>2, <1>3
<1>5. /\ managers' \in Seq(T) /\ Len(managers') = n + 1 /\ managers'[n + 1] = s.target
      /\ managers'[1] = managers[1] /\ DOMAIN managers' = 1..(n + 1)
  BY <1>1, <1>2, <1>4
<1>6. /\ command' = [pc |-> "schema", seed |-> s, previous |-> db, using |-> NoCache]
  BY <1>1 DEF Idle
<1>7. db' = [target |-> s.target, manager |-> n + 1, cache |-> NoCache]
  BY <1>1
<1>. HIDE DEF n
<1>8. /\ db'.target = s.target /\ db'.manager = n + 1 /\ db'.cache = NoCache
      /\ command'.seed = s /\ command'.previous = db /\ command'.using = NoCache /\ command'.pc = "schema"
  BY <1>6, <1>7
<1>9. db'.target = Target(db.manager)' /\ Target(1)' = Target(1)
  BY <1>5, <1>8 DEF Target
<1>10. open' = Cached(db)' \cup Cached(command.previous)' \cup ({command.using} \ {NoCache})'
  BY <1>2, <1>8 DEF Cached
<1>11. /\ db'.manager \in DOMAIN managers' /\ db'.manager > 1 /\ db'.cache \in {NoCache, Shared(db.manager)'}
       /\ Len(managers') \in 1..(MaxBindings + 1)
  BY <1>4, <1>5, <1>8
<1>12. /\ command'.previous.manager = 1 /\ command'.previous.target = Target(1)'
       /\ command'.previous = [target |-> Target(1)', manager |-> 1, cache |-> command'.previous.cache]
       /\ command'.previous.cache \in {NoCache, Shared(1)}
       /\ command'.previous.cache /= NoCache => Target(1)' \in Memory
  BY <1>2, <1>8, <1>9
<1>. QED BY <1>5, <1>6, <1>7, <1>8, <1>9, <1>10, <1>11, <1>12 DEF CommandSound, Within

LEMMA TakeKeeps == CommandSound /\ Take => CommandSound'
<1>. SUFFICES ASSUME CommandSound, Take PROVE CommandSound'
  OBVIOUS
<1>0. command.pc \in Within /\ command.using = NoCache /\ UNCHANGED managers
  BY DEF Take, Within
<1>1. CASE command' = [command EXCEPT !.pc = "leave"] /\ UNCHANGED <<open, db>>
  <2>1. command' = [pc |-> "leave", seed |-> command.seed, previous |-> command.previous, using |-> NoCache]
    BY <1>0, <1>1 DEF CommandSound
  <2>. QED BY <1>0, <1>1, <2>1 DEF CommandSound, Within, Cached, Target, InMemory
<1>2. CASE /\ command' = [command EXCEPT !.using = Connected.conn]
           /\ open' = Connected.open /\ db' = [db EXCEPT !.cache = Connected.cache]
  <2>1. command' = [pc |-> command.pc, seed |-> command.seed, previous |-> command.previous, using |-> Connected.conn]
        /\ db' = [target |-> db.target, manager |-> db.manager, cache |-> Connected.cache]
    BY <1>2 DEF CommandSound
  <2>2. command.pc \notin {"leave", "broken"} /\ db.manager \in Nat \ {0}
    BY DEF Take, CommandSound
  <2>3. CASE InMemory
    <3>1. Connected = [conn |-> Shared(db.manager), open |-> open \cup {Shared(db.manager)}, cache |-> Shared(db.manager)]
      BY <2>3, ConnectedIs
    <3>2. Shared(db.manager) /= NoCache
      BY <2>2, ConnectionsDiffer
    <3>3. open' = Cached(db') \cup Cached(command.previous) \cup {Shared(db.manager)}
      BY <1>0, <1>2, <2>1, <3>1, <3>2 DEF CommandSound, Cached
    <3>. QED BY <1>0, <2>1, <2>2, <2>3, <3>1, <3>2, <3>3 DEF CommandSound, Within, Cached, Target, InMemory
  <2>4. CASE ~InMemory
    <3>1. Connected = [conn |-> Private(db.manager), open |-> open \cup {Private(db.manager)}, cache |-> db.cache]
      BY <2>4, ConnectedIs
    <3>2. Private(db.manager) /= NoCache
      BY <2>2, ConnectionsDiffer
    <3>3. open' = Cached(db') \cup Cached(command.previous) \cup {Private(db.manager)}
      BY <1>0, <1>2, <2>1, <3>1, <3>2 DEF CommandSound, Cached
    <3>. QED BY <1>0, <2>1, <2>2, <2>4, <3>1, <3>2, <3>3 DEF CommandSound, Within, Cached, Target, InMemory
  <2>. QED BY <2>3, <2>4
<1>. QED BY <1>1, <1>2 DEF Take

(* A statement's connection is given back, or stays cached.                *)
LEMMA GivenKeeps ==
    ASSUME CommandSound, NEW next \in Within, command.pc \in Within, command.using /= NoCache, Given(next)
    PROVE  CommandSound'
<1>1. UNCHANGED <<managers, db>>
      /\ command' = [pc |-> next, seed |-> command.seed, previous |-> command.previous, using |-> NoCache]
  BY DEF Given, CommandSound
<1>2. open' = Cached(db) \cup Cached(command.previous)
  <2>1. CASE InMemory
    BY <2>1 DEF Given, CommandSound, Cached
  <2>2. CASE ~InMemory
    <3>1. command.using = Private(db.manager) /\ db.manager \in Nat \ {0}
      BY <2>2 DEF CommandSound
    <3>2. Private(db.manager) \notin Cached(db) \cup Cached(command.previous)
      BY <3>1, ConnectionsDiffer DEF CommandSound, Cached
    <3>. QED BY <2>2, <3>1, <3>2 DEF Given, CommandSound
  <2>. QED BY <2>1, <2>2
<1>. QED BY <1>1, <1>2 DEF CommandSound, Within, Cached, Target, InMemory

LEMMA LeaveKeeps == CommandSound /\ LeaveBinding => CommandSound'
<1>. SUFFICES ASSUME CommandSound, LeaveBinding PROVE CommandSound'
  OBVIOUS
<1>1. command.pc \in Within /\ command.using = NoCache /\ UNCHANGED managers
  BY DEF CommandSound, LeaveBinding, Within
<1>2. CASE /\ open' = open \ {db.cache, Shared(db.manager)}
           /\ db' = command.previous /\ command' = Idle
  <2>1. db' = command.previous
        /\ command' = [pc |-> "idle", seed |-> [target |-> "none"], previous |-> [target |-> "none"], using |-> NoCache]
    BY <1>2 DEF Idle
  <2>2. db.manager \in Nat \ {0, 1} /\ db.cache \in {NoCache, Shared(db.manager)}
    BY <1>1 DEF CommandSound
  <2>3. open' = Cached(command.previous)
    <3>1. open = Cached(db) \cup Cached(command.previous)
      BY <1>1 DEF CommandSound
    <3>2. Shared(db.manager) \notin Cached(command.previous) /\ Shared(db.manager) /= NoCache
      BY <1>1, <2>2, ConnectionsDiffer DEF CommandSound, Cached
    <3>. QED BY <1>2, <2>2, <3>1, <3>2 DEF Cached
  <2>4. 1 \in DOMAIN managers
    BY DEF CommandSound
  <2>. QED BY <1>1, <2>1, <2>3, <2>4 DEF CommandSound, Within, Target, InMemory
<1>3. CASE command' = [command EXCEPT !.pc = "broken"] /\ UNCHANGED <<open, db>>
  <2>1. command' = [pc |-> "broken", seed |-> command.seed, previous |-> command.previous, using |-> NoCache]
    BY <1>1, <1>3 DEF CommandSound
  <2>. QED BY <1>1, <1>3, <2>1 DEF CommandSound, Within, Cached, Target, InMemory
<1>. QED BY <1>2, <1>3 DEF LeaveBinding

LEMMA CleanupKeeps == CommandSound /\ CleanupAtExit => CommandSound'
<1>. SUFFICES ASSUME CommandSound, CleanupAtExit PROVE CommandSound'
  OBVIOUS
<1>1. command.pc \notin Within /\ db.manager = 1 /\ open = Cached(db) /\ UNCHANGED managers
  BY DEF CommandSound, CleanupAtExit, Within
<1>2. command' = [pc |-> "exited", seed |-> [target |-> "none"], previous |-> [target |-> "none"], using |-> NoCache]
      /\ db' = [target |-> db.target, manager |-> db.manager, cache |-> NoCache]
  BY DEF CleanupAtExit, Idle, CommandSound
<1>3. open' = {}
  BY <1>1 DEF CleanupAtExit, Cached
<1>. QED BY <1>1, <1>2, <1>3 DEF CommandSound, Within, Cached, Target, InMemory

LEMMA CommandKeeps == CommandSound /\ Command => CommandSound'
<1>. SUFFICES ASSUME CommandSound, Command PROVE CommandSound'
  OBVIOUS
<1>1. CASE SchemaStatement
  BY <1>1, GivenKeeps DEF SchemaStatement, Within
<1>2. CASE SeedCredentials
  BY <1>2, GivenKeeps DEF SeedCredentials, Within
<1>3. CASE CheckUsable
  BY <1>3, GivenKeeps DEF CheckUsable, Within
<1>. QED BY <1>1, <1>2, <1>3, UseHomeKeeps, EnterKeeps, TakeKeeps, LeaveKeeps, CleanupKeeps DEF Command

-------------------------------------------------------------------------------
(* The specification                                                       *)

Sound == AccountInvariant /\ AbandonedWorkStops /\ AdmittedWasEnabled

LEMMA InitSound == Init => Sound
<1>. SUFFICES ASSUME Init PROVE Sound
  OBVIOUS
<1>. USE AccountAssumption
<1>1. AccountsSound
  <2>1. users \in [Names -> AccountRow]
    BY DEF Init, AccountRow
  <2>2. Vacant \in RequestType
    BY DEF Vacant, RequestType
  <2>3. \A r \in Requests : requests[r].pc = "none"
    BY DEF Init, Vacant
  <2>. QED BY <2>1, <2>2, <2>3 DEF Init, AccountsSound
<1>2. StartupSound
  BY DEF Init, StartupSound
<1>3. CommandSound
  <2>1. PICK t \in HomeTargets : managers = <<t>> /\ db = [target |-> t, manager |-> 1, cache |-> NoCache]
    BY DEF Init
  <2>2. open = {} /\ command = [pc |-> "idle", seed |-> [target |-> "none"], previous |-> [target |-> "none"], using |-> NoCache]
    BY DEF Init, Idle
  <2>3. managers \in Seq(HomeTargets \cup {s.target : s \in Seeds}) /\ Len(managers) = 1 /\ managers[1] = t
        /\ 1 \in DOMAIN managers
    BY <2>1
  <2>. QED BY <2>1, <2>2, <2>3 DEF CommandSound, Within, Cached, Target
<1>. QED BY <1>1, <1>2, <1>3 DEF Init, Sound, AccountInvariant, AbandonedWorkStops, AdmittedWasEnabled, Vacant

LEMMA NextSound == Sound /\ [Next]_vars => Sound'
<1>. SUFFICES ASSUME Sound, [Next]_vars PROVE Sound'
  OBVIOUS
<1>. USE DEF Sound, AccountInvariant
<1>0. /\ AccountsSound /\ StartupSound /\ CommandSound /\ ServingIsVerified
      /\ AbandonedWorkStops /\ AdmittedWasEnabled
  BY DEF ServingIsVerified
<1>1. ASSUME UNCHANGED startupVars
      PROVE  /\ StartupSound' /\ ServingIsVerified' /\ AbandonedWorkStops'
             /\ (guard.tracked => worker.pc \in {"execute", "release", "raise"})'
  BY <1>0, <1>1, Zenon DEF startupVars, StartupSound, ServingIsVerified, AbandonedWorkStops
<1>2. ASSUME UNCHANGED <<users, tokens, now, requests>>
      PROVE  AccountsSound' /\ AdmittedWasEnabled'
  BY <1>0, <1>2, Zenon DEF AccountsSound, AdmittedWasEnabled
<1>3. ASSUME UNCHANGED processVars
      PROVE  CommandSound'
  BY <1>0, <1>3, Zenon DEF processVars, CommandSound, InMemory, Target
<1>4. CASE UNCHANGED vars
  BY <1>1, <1>2, <1>3, <1>4 DEF vars, ServingIsVerified
<1>5. CASE Worker \/ Loop
  <2>1. StartupSound' /\ ServingIsVerified' /\ AbandonedWorkStops'
    BY <1>0, <1>5, WorkerKeeps, LoopKeeps, ServingKept, StopsKept
  <2>2. UNCHANGED <<users, tokens, now, requests>> /\ UNCHANGED processVars
    BY <1>5 DEF Worker, Loop
  <2>3. (guard.tracked => worker.pc \in {"execute", "release", "raise"})'
    BY <2>1 DEF StartupSound
  <2>. QED BY <1>2, <1>3, <2>1, <2>2, <2>3 DEF ServingIsVerified
<1>6. CASE Command
  <2>1. CommandSound'
    BY <1>0, <1>6, CommandKeeps
  <2>2. UNCHANGED startupVars
    BY <1>6 DEF Command, UseHome, EnterBinding, Take, SchemaStatement, SeedCredentials, CheckUsable, LeaveBinding,
                CleanupAtExit, Others
  <2>3. CASE SeedCredentials
    BY <1>0, <1>1, <2>1, <2>2, <2>3, SeedKeeps, AdmissionRemembered DEF ServingIsVerified, SeedCredentials
  <2>4. CASE ~SeedCredentials
    <3>1. UNCHANGED <<users, tokens, now, requests>>
      BY <1>6, <2>4 DEF Command, UseHome, EnterBinding, Take, SchemaStatement, CheckUsable, LeaveBinding,
                        CleanupAtExit, Others
    <3>. QED BY <1>1, <1>2, <2>1, <2>2, <3>1 DEF ServingIsVerified
  <2>. QED BY <2>3, <2>4
<1>7. CASE Login
  <2>1. AccountsSound' /\ UNCHANGED requests
    BY <1>0, <1>7, LoginKeeps DEF Login
  <2>2. UNCHANGED startupVars /\ UNCHANGED processVars
    BY <1>7 DEF Login, Serving
  <2>3. AdmittedWasEnabled'
    BY <1>0, <2>1, Zenon DEF AdmittedWasEnabled
  <2>. QED BY <1>1, <1>3, <2>1, <2>2, <2>3 DEF ServingIsVerified
<1>8. ASSUME NEW r \in Requests, Request(r)
      PROVE  Sound'
  <2>1. AccountsSound' /\ AdmittedWasEnabled'
    BY <1>0, <1>8, RequestKeeps, AdmissionKept
  <2>2. UNCHANGED startupVars /\ UNCHANGED processVars
    BY <1>8 DEF Request, GetCurrentUser, GetActiveUser, GetOperator, Respond, Serving
  <2>. QED BY <1>1, <1>3, <2>1, <2>2 DEF ServingIsVerified
<1>9. CASE Administer
  <2>1. AccountsSound' /\ AdmittedWasEnabled'
    BY <1>0, <1>9, AdministerKeeps, AdmissionRemembered DEF Administer
  <2>2. UNCHANGED startupVars /\ UNCHANGED processVars
    BY <1>9 DEF Administer
  <2>. QED BY <1>1, <1>3, <2>1, <2>2 DEF ServingIsVerified
<1>10. CASE Tick
  <2>1. now' \in 0..MaxTime /\ UNCHANGED <<users, tokens, requests>>
    BY <1>0, <1>10, AccountAssumption DEF Tick, AccountsSound
  <2>2. UNCHANGED startupVars /\ UNCHANGED processVars
    BY <1>10 DEF Tick
  <2>3. AccountsSound' /\ AdmittedWasEnabled'
    BY <1>0, <2>1, Zenon DEF AccountsSound, AdmittedWasEnabled
  <2>. QED BY <1>1, <1>3, <2>2, <2>3 DEF ServingIsVerified
<1>. QED BY <1>4, <1>5, <1>6, <1>7, <1>8, <1>9, <1>10 DEF Next

LEMMA Soundness == Spec => []Sound
BY InitSound, NextSound, PTL DEF Spec

(* The credential store, the startup that verifies it and the command that *)
(* seeds it stay consistent, and the API serves only after every query of  *)
(* a verification it did not abandon succeeded (api/app_factory.py).       *)
THEOREM Invariance == Spec => []AccountInvariant
<1>1. Sound => AccountInvariant
  BY DEF Sound
<1>. QED BY <1>1, Soundness, PTL

(* No statement of an abandoned verification runs on an open connection    *)
(* once the cancellation is through (_PostgresOperationGuard).             *)
THEOREM AbandonedStops == Spec => []AbandonedWorkStops
<1>1. Sound => AbandonedWorkStops
  BY DEF Sound
<1>. QED BY <1>1, Soundness, PTL

(* A request is admitted only for an account that was enabled at some      *)
(* moment of the request, an operator's only for an account with the name  *)
(* of the configured administrator up to whitespace                        *)
(* (get_current_active_user, get_current_rebuild_operator_user).           *)
THEOREM AdmissionSound == Spec => []AdmittedWasEnabled
<1>1. Sound => AdmittedWasEnabled
  BY DEF Sound
<1>. QED BY <1>1, Soundness, PTL

(* Every statement under a binding uses an open connection to the bound    *)
(* target, and a binding leaves the module's globals and connections as it *)
(* found them, however it ended, unless a connection could not be closed,  *)
(* which ends the process (bind_database_url).                             *)
THEOREM BindingLeavesNoTrace == Spec => []BindingRestored
<1>1. CommandSound => BindingRestored
  <2>. SUFFICES ASSUME CommandSound PROVE BindingRestored
    OBVIOUS
  <2>1. CASE command.pc \in Within
    <3>1. db.manager \in Nat \ {0}
      BY DEF CommandSound
    <3>2. ASSUME command.using /= NoCache
          PROVE  command.using[1] = db.manager
      BY <2>1, <3>1, <3>2, ConnectionsDiffer DEF CommandSound
    <3>. QED BY <2>1, <3>2 DEF CommandSound, BindingRestored, Within
  <2>2. CASE command.pc \notin Within
    BY <2>2 DEF CommandSound, BindingRestored, Cached
  <2>. QED BY <2>1, <2>2
<1>2. Sound => CommandSound
  BY DEF Sound, AccountInvariant
<1>. QED BY <1>1, <1>2, Soundness, PTL

================================================================================
