-------------------------- MODULE RelationshipGraph --------------------------
(***************************************************************************)
(* The graph of relationships between the diagnostics of a run             *)
(* (src/relationship.rs) and "diagprint graph" (src/bin/diagprint.rs): a   *)
(* builder takes fingerprints and typed relationships, the graph is bound  *)
(* to a run of a history as a snapshot, and a query picks a fingerprint, a *)
(* snapshot, and walks the graph breadth first, for the part around the    *)
(* fingerprint and for the causes and the effects it names.                *)
(*                                                                         *)
(* A fingerprint query is what it matches; Sidecars is about the files.    *)
(***************************************************************************)
EXTENDS Integers, FiniteSets, FiniteSetsExt, SequencesExt

CONSTANTS
  Sorted,        \* the fingerprints, in the order of their text
  Observed,      \* the fingerprints of each run of the history
  Candidates,    \* relationships producers declare: [from, to, kind, evidence, producer]
  BadProducer,   \* a name validate_producer refuses
  Queries,       \* what is asked for: sets of fingerprints that match
  Depths

VARIABLES
  building,      \* the run whose graph is built, or none
  graph,         \* the builder: [nodes, edges]
  snapshots,     \* per run: its graph, or none
  asked,         \* the query
  search         \* its three walks: [visited, traversed, frontier]

graphVars == <<building, graph, snapshots, asked, search>>

Node == ToSet(Sorted)
Position(f) == CHOOSE n \in DOMAIN Sorted : Sorted[n] = f

ASSUME GraphAssumption ==
  /\ Sorted \in Seq(Node) /\ \A i, j \in DOMAIN Sorted : Sorted[i] = Sorted[j] => i = j
  /\ Observed \in Seq(SUBSET Node)
  /\ \A r \in Candidates : /\ DOMAIN r = {"from", "to", "kind", "evidence", "producer"}
                           /\ {r.from, r.to} \subseteq Node
  /\ Depths \subseteq Nat

NoGraph == [nodes |-> {}, edges |-> {}]
NoQuery == [root |-> <<>>, run |-> 0, direction |-> "both", depth |-> 0, filter |-> "all"]
NoSearch == <<>>

-----------------------------------------------------------------------------
(* Relationships                                                           *)

Symmetric(r) == r.kind \in {"co_occurs_with", "related_to"}
Causal(r) == r.kind \in {"causes", "contributes_to"}
Inferred(r) == r.evidence = "inferred_correlation"

(* DiagnosticRelationship::new                                             *)
Normalized(r) ==
  IF Symmetric(r) /\ Position(r.to) < Position(r.from)
  THEN [r EXCEPT !.from = r.to, !.to = r.from] ELSE r

Valid(r) ==
  /\ r.producer # BadProducer
  /\ r.from # r.to
  /\ Symmetric(r) => Position(r.from) < Position(r.to)
  /\ Causal(r) => r.evidence \in {"producer_declared", "source_chain"}

(* DiagnosticRelationshipGraph::verify                                     *)
Verified(g) == \A r \in g.edges : Valid(r) /\ {r.from, r.to} \subseteq g.nodes

(* Builder, and from_report: the fingerprints of the report are nodes.     *)
StartGraph(run) ==
  /\ building = 0 /\ search = NoSearch /\ snapshots[run] = NoGraph
  /\ building' = run
  /\ graph' = [nodes |-> Observed[run], edges |-> {}]
  /\ UNCHANGED <<snapshots, asked, search>>

AddRelationship(candidate) ==
  /\ building # 0
  /\ LET r == Normalized(candidate)
     IN  /\ Valid(r)
         /\ graph' = [nodes |-> graph.nodes \cup {r.from, r.to}, edges |-> graph.edges \cup {r}]
  /\ UNCHANGED <<building, snapshots, asked, search>>

(* build, DiagnosticRelationshipSnapshot::new and persist; a graph with    *)
(* other nodes than the run observed is refused.                           *)
Bound(g, run) == Verified(g) /\ g.nodes = Observed[run]

SnapshotRun ==
  /\ building # 0
  /\ snapshots' = [snapshots EXCEPT ![building] = IF Bound(graph, building) THEN graph ELSE @]
  /\ building' = 0 /\ graph' = NoGraph
  /\ UNCHANGED <<asked, search>>

-----------------------------------------------------------------------------
(* Queries                                                                 *)

Recorded == UNION ToSet(Observed)

(* resolve_fingerprint: of all the history recorded, one matches.          *)
Resolves(query, f) == query \cap Recorded = {f}

(* select_relationship_snapshot: the run asked for, or the newest.         *)
Selects(f, requested, run) ==
  /\ f \in snapshots[run].nodes
  /\ IF requested # 0 THEN run = requested
     ELSE \A later \in DOMAIN Observed : later > run => f \notin snapshots[later].nodes

Includes(filter, r) == filter = "all" \/ ~Inferred(r)

(* traversal_neighbors, of one that follows the arrows of both.            *)
NeighborsAlongArrows(r, f, direction) ==
  {n \in {r.from, r.to} :
     \/ direction # "upstream" /\ f = r.from /\ n = r.to
     \/ direction # "downstream" /\ f = r.to /\ n = r.from}

Neighbors(r, f, direction) ==
  {n \in {r.from, r.to} :
     \/ (direction # "upstream" \/ Symmetric(r)) /\ f = r.from /\ n = r.to
     \/ (direction # "downstream" \/ Symmetric(r)) /\ f = r.to /\ n = r.from}

(* What the three walks follow: the subgraph, and explicit_causal_upstream *)
(* and _downstream.                                                        *)
Follows(walk, r) ==
  IF walk = "subgraph" THEN Includes(asked.filter, r) ELSE Causal(r)

Toward(walk) == IF walk = "subgraph" THEN asked.direction ELSE walk

Walks == {"subgraph", "upstream", "downstream"}

(* Edges are in the order of their ends.                                   *)
EdgePlace(r) == Len(Sorted) * Position(r.from) + Position(r.to)

(* The members of a set in the order of the numbers they have.             *)
InTurn(set, number) ==
  [k \in 1..Cardinality(set) |->
     CHOOSE n \in set : Cardinality({m \in set : number[m] < number[n]}) = k - 1]

(* One turn of the loop: the oldest of the frontier is taken, and if it is *)
(* not at the bound its neighbors not seen before go to the end, each with *)
(* the first edge that leads to it.                                        *)
Expanded(walk, s) ==
  IF s.frontier = <<>> THEN s
  ELSE LET f        == s.frontier[1].node
           depth    == s.frontier[1].depth
           Reach(r) == Neighbors(r, f, Toward(walk))
           used     == {r \in snapshots[asked.run].edges : Follows(walk, r) /\ Reach(r) # {}}
           new      == (UNION {Reach(r) : r \in used}) \ s.visited
           turn     == InTurn(new, [n \in new |->
                                      Min({EdgePlace(r) : r \in {e \in used : n \in Reach(e)}})])
       IN  IF depth >= asked.depth THEN [s EXCEPT !.frontier = Tail(@)]
           ELSE [visited   |-> s.visited \cup new,
                 traversed |-> s.traversed \cup used,
                 frontier  |-> Tail(s.frontier)
                   \o [k \in DOMAIN turn |-> [node |-> turn[k], depth |-> depth + 1]]]

Ask(query, requested, direction, depth, filter) ==
  /\ building = 0 /\ search = NoSearch
  /\ \E f \in Node, run \in DOMAIN Observed :
       /\ Resolves(query, f) /\ Selects(f, requested, run)
       /\ asked' = [root |-> f, run |-> run, direction |-> direction, depth |-> depth,
                    filter |-> filter]
       /\ search' = [walk \in Walks |->
            [visited |-> {f}, traversed |-> {}, frontier |-> <<[node |-> f, depth |-> 0]>>]]
  /\ UNCHANGED <<building, graph, snapshots>>

Answered == search # NoSearch /\ \A walk \in Walks : search[walk].frontier = <<>>

Expand ==
  /\ search # NoSearch /\ ~Answered
  /\ search' = [walk \in Walks |-> Expanded(walk, search[walk])]
  /\ UNCHANGED <<building, graph, snapshots, asked>>

GraphInit ==
  /\ building = 0 /\ graph = NoGraph
  /\ snapshots = [run \in DOMAIN Observed |-> NoGraph]
  /\ asked = NoQuery /\ search = NoSearch

GraphNext ==
  \/ \E run \in DOMAIN Observed : StartGraph(run)
  \/ \E candidate \in Candidates : AddRelationship(candidate)
  \/ SnapshotRun
  \/ \E query \in Queries, requested \in {0} \cup DOMAIN Observed, depth \in Depths,
        direction \in {"upstream", "downstream", "both"}, filter \in {"explicit", "all"} :
       Ask(query, requested, direction, depth, filter)
  \/ Expand

GraphSpec == GraphInit /\ [][GraphNext]_graphVars

-----------------------------------------------------------------------------
(* Properties                                                              *)

(* The steps a relationship allows, and what is within so many of them.    *)
Arrows(edges, direction) ==
  {<<r.from, r.to>> : r \in {e \in edges : direction # "upstream" \/ Symmetric(e)}}
    \cup {<<r.to, r.from>> : r \in {e \in edges : direction # "downstream" \/ Symmetric(e)}}

Within(f, steps, arrows) ==
  LET reach[k \in 0..steps] ==
        IF k = 0 THEN {f}
        ELSE reach[k - 1] \cup {arrow[2] : arrow \in {a \in arrows : a[1] \in reach[k - 1]}}
  IN  reach[steps]

(* Of cyclic graphs, too, a query shows exactly what is within its depth,  *)
(* with the relationships that lead there, as a graph that verifies; what  *)
(* it names as causes of a diagnostic are the ones it names as caused by   *)
(* each of them, all on explicit evidence, so that the part it shows in    *)
(* that direction has them whatever the filter; and no newer snapshot has  *)
(* the diagnostic, unless a run was asked for.                             *)
GraphAnswers ==
  Answered =>
    LET edges  == snapshots[asked.run].edges
        shown  == {r \in edges : Includes(asked.filter, r)}
        causal == {r \in edges : Causal(r)}
        arrows == Arrows(shown, asked.direction)
        Other(direction) == IF direction = "upstream" THEN "downstream" ELSE "upstream"
    IN  /\ search["subgraph"].visited = Within(asked.root, asked.depth, arrows)
        /\ search["subgraph"].traversed =
             {r \in shown : asked.depth > 0 /\
                \E n \in Within(asked.root, asked.depth - 1, arrows) :
                  \E arrow \in Arrows({r}, asked.direction) : arrow[1] = n}
        /\ \A r \in search["subgraph"].traversed :
             {r.from, r.to} \subseteq search["subgraph"].visited
        /\ \A walk \in {"upstream", "downstream"} :
             /\ search[walk].visited =
                  {f \in Node : asked.root \in Within(f, asked.depth, Arrows(causal, Other(walk)))}
             /\ asked.direction \in {walk, "both"} =>
                  search[walk].visited \subseteq search["subgraph"].visited
=============================================================================
