------------------------------- MODULE Roadmap -------------------------------
(***************************************************************************)
(* The roadmap of an objective (services/orchestration-api routes/roadmap): *)
(* nodes and the rows of roadmap_ordering that place them.  Nothing makes   *)
(* the ordering row of an objective unique: requests look for a row, take   *)
(* the first they get, or insert one of their own; the loop runner writes a *)
(* row under an id of its own.  A request that absorbs a proposal appends   *)
(* its node; a reorder, and the loop runner, write a whole sequence.        *)
(*                                                                          *)
(* A request is a writer, which also names the node or the row it makes.    *)
(* Creation by key is modelled in Requests; titles, descriptions and tracks *)
(* are left out.                                                            *)
(***************************************************************************)
EXTENDS Naturals, FiniteSets, SequencesExt

CONSTANTS Writers,     \* requests that may come
          MaxRewrites  \* bound: extracts the loop runner processes

VARIABLES nodes,     \* committed roadmap nodes, by the order of their creation
          weight,    \* node -> [priority, status]
          rows,      \* ordering_id -> node_sequence
          writer,    \* request -> [at, op, row, known, there], the last two as it began
          rewriting, \* the loop runner: [at, list, known]
          rewrites

roadVars == <<nodes, weight, rows, writer, rewriting, rewrites>>

TickRow == "ordering-obj"
NoRow == "none"

\* Requests, and what they make, have ids of their own.
ASSUME RoadAssumption == TickRow \notin Writers /\ NoRow \notin Writers

Nodes == ToSet(nodes)
Fresh == [priority |-> 0, status |-> "open"]
Unplaced == [at |-> "new", op |-> "none", row |-> NoRow, known |-> {}, there |-> {}]
Sleeping == [at |-> "idle", list |-> <<>>, known |-> {}]

-----------------------------------------------------------------------------
(* Requests *)

\* Mistake: looks for the loop runner's row only.
FoundRowOfTick == {IF TickRow \in DOMAIN rows THEN TickRow ELSE NoRow}

\* SELECT ... LIMIT 1, in no order.
FoundRow == IF DOMAIN rows = {} THEN {NoRow} ELSE DOMAIN rows

\* absorb (create_node) and reorder look for the row; whoever reorders has listed
\* the nodes before.
BeginPlacing(w, op) ==
  /\ writer[w].at = "new"
  /\ \E r \in FoundRow :
       writer' = [writer EXCEPT ![w] = [at |-> "found", op |-> op, row |-> r,
                                        known |-> Nodes, there |-> DOMAIN rows]]
  /\ UNCHANGED <<nodes, weight, rows, rewriting, rewrites>>

Done(w) == writer' = [writer EXCEPT ![w].at = "done"]

AddNode(w) ==
  /\ nodes' = Append(nodes, w)
  /\ weight' = [n \in DOMAIN weight \cup {w} |-> IF n = w THEN Fresh ELSE weight[n]]

PutRow(id, s) == rows' = [r \in DOMAIN rows \cup {id} |-> IF r = id THEN s ELSE rows[r]]

\* Mistake: writes back the sequence it had read.
AppendedRead(w, r) == Append(SelectSeq(rows[r], LAMBDA n : n \in writer[w].known), w)

\* node_sequence || [id], on the row as it is now.
Appended(w, r) == Append(rows[r], w)

AbsorbAsNode(w) ==
  /\ writer[w].at = "found" /\ writer[w].op = "absorb"
  /\ AddNode(w) /\ Done(w)
  /\ LET r == writer[w].row IN
     IF r = NoRow THEN PutRow(w, <<w>>) ELSE PutRow(r, Appended(w, r))
  /\ UNCHANGED <<rewriting, rewrites>>

\* The list a client sends: the nodes it knew, in any order.
Reorder(w) ==
  /\ writer[w].at = "found" /\ writer[w].op = "reorder"
  /\ \E s \in SetToSeqs(writer[w].known) :
       PutRow(IF writer[w].row = NoRow THEN w ELSE writer[w].row, s)
  /\ Done(w)
  /\ UNCHANGED <<nodes, weight, rewriting, rewrites>>

\* POST /api/roadmap/nodes places its node nowhere.
CreateUnplaced(w) ==
  /\ writer[w].at = "new"
  /\ AddNode(w) /\ Done(w)
  /\ UNCHANGED <<rows, rewriting, rewrites>>

\* absorb_into_node, reprioritize_node, defer_node, reject_node, and the track: the
\* absorption record refuses a node that does not exist, with the update before it.
AbsorbIntoNode(w, n) ==
  /\ writer[w].at = "new"
  /\ Done(w)
  /\ \/ n \notin Nodes /\ UNCHANGED weight
     \/ n \in Nodes /\ weight' = [weight EXCEPT ![n].priority = @ + 1]
     \/ n \in Nodes /\ \E st \in {"deferred", "rejected"} : weight' = [weight EXCEPT ![n].status = st]
  /\ UNCHANGED <<nodes, rows, rewriting, rewrites>>

\* The client goes away, the transaction rolls back.
GiveUpPlacing(w) ==
  /\ writer[w].at = "found" /\ Done(w)
  /\ UNCHANGED <<nodes, weight, rows, rewriting, rewrites>>

-----------------------------------------------------------------------------
(* The loop runner, for each extract it processes *)

\* Mistake: only nodes that are open are listed.
ListedOpen == {SelectSeq(nodes, LAMBDA n : weight[n].status = "open")}

\* Mistake: the list is added to the sequence.
ListedOnTop == {(IF TickRow \in DOMAIN rows THEN rows[TickRow] ELSE <<>>) \o nodes}

Position(n) == CHOOSE i \in DOMAIN nodes : nodes[i] = n

\* ORDER BY priority, created_at: the one list of all nodes in this order.
Listed ==
  {l \in SetToSeqs(Nodes) : \A i, j \in DOMAIN l : i < j =>
     \/ weight[l[i]].priority < weight[l[j]].priority
     \/ weight[l[i]].priority = weight[l[j]].priority /\ Position(l[i]) < Position(l[j])}

ListNodes ==
  /\ rewriting.at = "idle" /\ rewrites < MaxRewrites
  /\ \E l \in Listed : rewriting' = [at |-> "listed", list |-> l, known |-> Nodes]
  /\ rewrites' = rewrites + 1
  /\ UNCHANGED <<nodes, weight, rows, writer>>

\* Its row is inserted, or its sequence replaced.
RewriteOrdering ==
  /\ rewriting.at = "listed"
  /\ PutRow(TickRow, rewriting.list)
  /\ rewriting' = Sleeping
  /\ UNCHANGED <<nodes, weight, writer, rewrites>>

AbandonRewrite ==
  /\ rewriting.at = "listed" /\ rewriting' = Sleeping
  /\ UNCHANGED <<nodes, weight, rows, writer, rewrites>>

RoadInit ==
  /\ nodes = <<>> /\ weight = <<>> /\ rows = <<>>
  /\ writer = [w \in Writers |-> Unplaced]
  /\ rewriting = Sleeping /\ rewrites = 0

RoadNext ==
  \/ \E w \in Writers :
       \/ \E op \in {"absorb", "reorder"} : BeginPlacing(w, op)
       \/ AbsorbAsNode(w) \/ Reorder(w) \/ CreateUnplaced(w) \/ GiveUpPlacing(w)
       \/ \E n \in Writers : AbsorbIntoNode(w, n)
  \/ ListNodes \/ RewriteOrdering \/ AbandonRewrite

RoadSpec == RoadInit /\ [][RoadNext]_roadVars

-----------------------------------------------------------------------------
(* Properties *)

\* The nodes with a position in the projection, which reads every row.
Placed == UNION {ToSet(rows[r]) : r \in DOMAIN rows}

RoadTypeOK ==
  /\ DOMAIN weight = Nodes /\ Placed \subseteq Nodes
  /\ \A r \in DOMAIN rows : IsInjective(rows[r])
  /\ DOMAIN rows \subseteq Writers \cup {TickRow}

\* Concurrent appends lose none of each other's nodes, and no place is lost but by
\* a writer of a whole sequence.
AppendsKeepPlaces ==
  [][Placed \ Placed' # {} =>
       \/ rewriting.at = "listed"
       \/ \E w \in Writers : writer[w].op = "reorder" /\ writer'[w].at # writer[w].at]_roadVars

\* A whole sequence drops only nodes that its writer could not have seen: those
\* committed after it listed the nodes.
RewritesDropOnlyUnseen ==
  [][\A n \in Placed \ Placed' :
       \/ rewriting.at = "listed" /\ rewriting' = Sleeping /\ n \notin rewriting.known
       \/ \E w \in Writers : writer'[w].at # writer[w].at /\ n \notin writer[w].known]_roadVars

\* An objective gets several ordering rows only from requests that had all begun
\* before the first of them was committed, and from the loop runner's own.
OrderingRowsAreFew ==
  \A w \in DOMAIN rows \ {TickRow} : writer[w].there = {}

\* The order keeps to the nodes there are and to few rows, an append never costs
\* another node its place, and a rewriting costs those that came after its reading.
PlacesStand ==
  /\ [](RoadTypeOK /\ OrderingRowsAreFew)
  /\ AppendsKeepPlaces
  /\ RewritesDropOnlyUnseen
=============================================================================
