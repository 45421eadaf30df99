------------------------- MODULE MCRebuildCoordination -------------------------
(* Instances of RebuildCoordination for TLC. *)
EXTENDS RebuildCoordination, TLC

MCHolder == Attempt \union Reconciler \union {Gone}

(* All clocks agree. *)
NoSkew == [h \in MCHolder |-> 0]

(* The hosts that reconcile are one tick ahead of those that rebuild. *)
FastReconciler == [h \in MCHolder |-> IF h \in Reconciler THEN 1 ELSE 0]

(* Nothing tells two attempts apart, nor their clocks in these instances. *)
AttemptSymmetry == Permutations(Attempt)

=============================================================================
