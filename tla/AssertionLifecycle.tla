--------------------------- MODULE AssertionLifecycle ---------------------------
(***************************************************************************)
(* The lifecycle of one governed assertion: the transition matrix, who may *)
(* take which transition, and when a stream of events is one.  An          *)
(* assertion without a row has the state "None".  The n-th event of a      *)
(* stream is the one whose sequence is n.                                  *)
(***************************************************************************)
EXTENDS Integers, Sequences

LifecycleState ==
    {"Proposed", "Accepted", "Rejected", "Withdrawn", "Disputed", "Retracted",
     "Superseded"}

Matrix ==
    {<<"Proposed", "Accepted">>, <<"Proposed", "Rejected">>,
     <<"Proposed", "Withdrawn">>, <<"Accepted", "Disputed">>,
     <<"Accepted", "Retracted">>, <<"Accepted", "Superseded">>,
     <<"Disputed", "Accepted">>, <<"Disputed", "Retracted">>,
     <<"Disputed", "Superseded">>}

Determinations == {"Accepted", "Rejected", "Superseded"}

(* Nobody withdraws another's proposal, or judges his own. *)
ActorMayMove(to, actor, proposer) ==
    /\ to = "Withdrawn" => actor = proposer
    /\ to \in Determinations => actor # proposer

(* Nothing supersedes an assertion whose event names assertion 0. *)
NoSuccessor == 0

Opens(e) == e.from = "None" /\ e.to = "Proposed" /\ e.succ = NoSuccessor

(* f may come right after e in a stream that this actor opened. *)
Follows(e, f, proposer) ==
    /\ f.from = e.to
    /\ <<f.from, f.to>> \in Matrix
    /\ f.at > e.at
    /\ (f.to = "Superseded") <=> (f.succ # NoSuccessor)
    /\ ActorMayMove(f.to, f.actor, proposer)

(* resolve_state raises for any other non-empty stream. *)
Resolves(s) ==
    /\ s # <<>> => Opens(s[1])
    /\ \A i \in 2..Len(s) : Follows(s[i - 1], s[i], s[1].actor)

StateOf(s) == IF s = <<>> THEN "None" ELSE s[Len(s)].to

(* What a reader sees of the stream who asks for a known_at. *)
AsOf(s, known) == SelectSeq(s, LAMBDA e : e.at <= known)

=============================================================================
