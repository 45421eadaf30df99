--------------------------- MODULE CoordinationLock ---------------------------
(***************************************************************************)
(* The row of the table distributed_locks that coordinates graph rebuilds  *)
(* (lock_name = "graph_rebuild"), and what each statement of               *)
(* CoordinationLockRepository reads and writes in it.                      *)
(*                                                                         *)
(* Time is relative: a row stores how long it is until expires_at, so the  *)
(* clock itself needs no variable and no bound.  Every statement of the    *)
(* repository takes "now" from the host that runs it, not from the         *)
(* database, so holder h reads and writes through a clock that is Skew[h]  *)
(* ahead of the slowest one.                                               *)
(***************************************************************************)
EXTENDS Integers

CONSTANTS
    Holder,     \* every holder_id ever generated (a fresh UUID per DistributedLock)
    NoHolder,   \* there is no row
    TTL,        \* REBUILD_LOCK_TTL_SECONDS, in ticks
    MaxSkew,    \* bound on the difference of two host clocks, in ticks
    Skew        \* how far each holder's host clock is ahead

ASSUME LockAssumption ==
    /\ NoHolder \notin Holder
    /\ TTL \in Nat \ {0}
    /\ MaxSkew \in Nat
    /\ Skew \in [Holder -> 0..MaxSkew]

(* A row long expired for every clock no longer needs to be told apart. *)
Expired == -1

LockRow == [holder : Holder \union {NoHolder}, left : Expired..(TTL + MaxSkew)]

NoRow == [holder |-> NoHolder, left |-> Expired]

-----------------------------------------------------------------------------
(* Mutant of CanTake: an expired row is not taken over. *)
CanTakeAbsent(row, h) == row.holder \in {NoHolder, h}

(* The UPDATE or the INSERT of acquire_lock succeeds: the row is absent,
   already ours, or strictly past its expiry on our clock.  refresh_lock
   delegates to acquire_lock, so this is also what a refresh checks. *)
CanTake(row, h) ==
    \/ row.holder \in {NoHolder, h}
    \/ row.left < Skew[h]

Taken(h) == [holder |-> h, left |-> TTL + Skew[h]]

(* The WHERE clause of renew_owned_lock, and what get_lock_state calls valid:
   the row is ours and now < expires_at. *)
HoldsLease(row, h) == row.holder = h /\ row.left > Skew[h]

Released(row, h) == IF row.holder = h THEN NoRow ELSE row

(* release never raises: when the DELETE fails, the row stays until its lease runs out. *)
ReleaseOutcomes(row, h) == {Released(row, h), row}

OneTickOlder(row) ==
    [row EXCEPT !.left = IF row.left > Expired THEN row.left - 1 ELSE Expired]

=============================================================================
