------------------------------ MODULE RuntimeReads ------------------------------
(***************************************************************************)
(* A read of relationships or of the visualization next to RuntimeGraph:   *)
(* get_graph takes the graph with its label under graph_lock, then         *)
(* load_governed_relationship_snapshot finds the publication whose         *)
(* provenance the edges of that graph are answered with.                   *)
(*                                                                         *)
(* The handler has no await: it occupies the event loop, while the         *)
(* executor, the synchronisation loop and the other processes go on.  Two  *)
(* graph objects that are equal and carry the same label are one here.     *)
(***************************************************************************)
EXTENDS RuntimeGraph

VARIABLE read  \* the locals of the handler, and the binding it remembers

readVars == <<vars, read>>

ReadStep == {"idle", "bind", "query", "load", "answered", "pending", "failed"}

ReadType == [at : ReadStep,
             graph : GraphType,    \* the graph it has taken
             current : BOOLEAN,    \* that object still is graph_state.graph
             remembered : Nat,     \* _runtime_graph_bindings[graph]
             label : Nat]          \* the rebuild job it asks for, 0 for None

NoRead == [at |-> "idle", graph |-> NoGraph, current |-> FALSE, remembered |-> 0,
           label |-> 0]

ReadInit == Init /\ read = NoRead

Busy == read.at \in {"bind", "query", "load"}

-----------------------------------------------------------------------------
(* The handler. *)

(* get_graph: one hold of graph_lock, then the binding is registered.  Requests
   are answered once startup has set the graph. *)
Capture ==
    /\ Serving
    /\ ~Busy
    /\ read' = [at |-> "bind", graph |-> graph, current |-> TRUE,
                remembered |-> synced, label |-> 0]
    /\ UNCHANGED vars

(* Mutant of Bind: the label of the process, whatever graph it serves by now. *)
BindLatest ==
    /\ read.at = "bind"
    /\ read' = [read EXCEPT !.at = "query", !.label = synced]
    /\ UNCHANGED vars

(* _runtime_graph_publication_binding: the label of the process if it still serves
   this object, or else the remembered one. *)
Bind ==
    /\ read.at = "bind"
    /\ read' = [read EXCEPT !.at = "query",
                            !.label = IF read.current THEN synced ELSE read.remembered]
    /\ UNCHANGED vars

(* A succeeded job and its only publication become visible by one commit. *)
HasBinding(label) == label \in 1..durable

(* The publication of the job, in a transaction of its own.  No label, no
   governance metadata; a job without publication is answered with 503. *)
QueryBinding ==
    /\ read.at = "query"
    /\ read' = [read EXCEPT !.at = CASE read.label = 0 -> "answered"
                                     [] HasBinding(read.label) -> "load"
                                     [] OTHER -> "pending"]
    /\ UNCHANGED vars

(* The publication by its own id, with its revision: the job has to be there again. *)
HasRecord(label) == HasBinding(label)

(* In another transaction.  A publication never changes: what an earlier read has
   cached is what the database would answer. *)
LoadSnapshot ==
    /\ read.at = "load"
    /\ read' = [read EXCEPT !.at = IF HasRecord(read.label) THEN "answered" ELSE "pending"]
    /\ UNCHANGED vars

(* A database error ends the read with 503. *)
ReadError ==
    /\ read.at \in {"query", "load"}
    /\ read.label # 0
    /\ read' = [read EXCEPT !.at = "failed"]
    /\ UNCHANGED vars

Reader == Capture \/ Bind \/ QueryBinding \/ LoadSnapshot \/ ReadError

-----------------------------------------------------------------------------
(* The rest of the process, which replaces graph and label together. *)

(* A new process knows nothing of the reads of the old one. *)
ReadAfter ==
    IF lifecycle' = "UNINITIALIZED" THEN NoRead
    ELSE [read EXCEPT !.current = @ /\ graph' = graph /\ synced' = synced]

EventLoop ==
    \/ BootLabel \/ Shutdown
    \/ \E q \in Request : Handle(q) \/ Refuse(q) \/ Disconnect(q)

Elsewhere ==
    \/ BootLoad \/ Restart
    \/ \E q \in Request : Work(q)
    \/ Sync \/ SyncError
    \/ OtherPublishes

ReadNext ==
    \/ Reader
    \/ ~Busy /\ EventLoop /\ read' = ReadAfter
    \/ Elsewhere /\ read' = ReadAfter

ReadSpec == ReadInit /\ [][ReadNext]_readVars

(* A handler that has begun goes on to its answer. *)
ReadLiveSpec == ReadSpec /\ Fairness /\ WF_readVars(Busy /\ Reader)

-----------------------------------------------------------------------------
(* Properties *)

ReadTypeOK == read \in ReadType

(* What the binding of a read rests on: an object that is still served has the
   label it was taken with, every label is the number of a durable rebuild, and a binding
   that has been found stays. *)
BindingKnown ==
    /\ read.at = "bind" /\ read.current => read.remembered = synced
    /\ read.remembered <= durable
    /\ read.label <= durable
    /\ read.at = "load" => HasBinding(read.label)

(* The provenance a read answers with is that of the job under which the process has
   served the very graph it has taken: graphs replaced by the executor or by the
   synchronisation while the read waits for the database do not leak into it. *)
OwnProvenance == read.at \in {"query", "load", "answered"} => read.label = read.remembered

(* No read finds its publication missing: a label is only seen once the transaction
   that stores job and publication has committed. *)
NeverPending == read.at # "pending"

ReadInvariant == ReadTypeOK /\ BindingKnown /\ OwnProvenance /\ NeverPending

=============================================================================
