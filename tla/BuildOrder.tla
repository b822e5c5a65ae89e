----------------------------- MODULE BuildOrder -----------------------------
(***************************************************************************)
(* mogrix/roadmap.py, _topological_sort: the order in which the packages   *)
(* of a roadmap are to be built.  The strongly connected components are    *)
(* found with Tarjan's algorithm (iterative, with an explicit call stack), *)
(* the graph of the components is sorted with Kahn's algorithm, and the    *)
(* packages inside a component come in a greedy order.                     *)
(*                                                                         *)
(* A package is a number, in the order of the names.  The neighbours of a  *)
(* package are visited in the order in which its edges were found, which   *)
(* here is any order.                                                      *)
(***************************************************************************)
EXTENDS Ordering, Sequences, SequencesExt, FiniteSetsExt

CONSTANTS
  Packages,  \* the packages, numbered in the order of their names
  MaxNames   \* names under which one package may require another

VARIABLES
  nodes,     \* all_nodes
  edges,     \* how often (dependency, dependent) is in the list of edges
  phase,     \* which loop runs: "tarjan", "count", "kahn", "expand", or "done"
  index, lowlink,   \* of the packages Tarjan's algorithm has seen
  stack,     \* its stack
  callStack, \* its calls: the package and the neighbours still to visit
  sccs,      \* the components found, in the order in which they were found
  uncounted,    \* entries of the list of edges that are still to be counted
  condensedAdj, \* condensed_adj, as pairs of components
  inDegree,     \* condensed_in_degree
  ready,     \* queue: components without an unsorted dependency
  sccOrder,  \* the sorted components
  pos,       \* which of them is expanded next
  remaining, \* what the greedy order has left of a component
  order      \* the result

vars == <<nodes, edges, phase, index, lowlink, stack, callStack, sccs, uncounted,
          condensedAdj, inDegree, ready, sccOrder, pos, remaining, order>>

input    == <<nodes, edges>>
tarjan   == <<index, lowlink, stack, callStack, sccs>>
kahn     == <<uncounted, condensedAdj, inDegree, ready, sccOrder>>
expanded == <<pos, remaining, order>>

Edge(d, p) == edges[<<d, p>>] > 0
Entries    == {x \in (Packages \X Packages) \X (1..MaxNames) : x[2] <= edges[x[1]]}
Neighbors(p) == {q \in nodes : Edge(p, q)}

TypeOK ==
  /\ nodes \subseteq Packages
  /\ edges \in [Packages \X Packages -> 0..MaxNames]
  /\ phase \in {"tarjan", "count", "kahn", "expand", "done"}
  /\ DOMAIN index \subseteq nodes /\ DOMAIN lowlink = DOMAIN index
  /\ \A n \in DOMAIN index : index[n] \in Nat /\ lowlink[n] \in 0..index[n]
  /\ stack \in Seq(nodes)
  /\ callStack \in Seq([node : nodes, todo : SUBSET nodes])
  /\ sccs \in Seq(SUBSET nodes)
  /\ uncounted \subseteq Entries
  /\ condensedAdj \subseteq (DOMAIN sccs) \X (DOMAIN sccs)
  /\ \A i \in DOMAIN inDegree : i \in DOMAIN sccs /\ inDegree[i] \in Nat
  /\ ready \subseteq DOMAIN sccs
  /\ sccOrder \in Seq(DOMAIN sccs)
  /\ pos \in 1..(Len(sccOrder) + 1)
  /\ remaining \subseteq nodes
  /\ order \in Seq(nodes)

(* The local variables of the functions, before they run.                  *)
Locals ==
  /\ index = << >> /\ lowlink = << >> /\ stack = << >> /\ callStack = << >>
  /\ sccs = << >> /\ uncounted = {} /\ condensedAdj = {} /\ inDegree = << >>
  /\ ready = {} /\ sccOrder = << >>
  /\ pos = 1 /\ remaining = {} /\ order = << >>

(* resolve() hands over edges between different packages; the dependent is *)
(* always a node, the dependency is not when the resolution stopped at it. *)
Init ==
  /\ nodes \in SUBSET Packages
  /\ edges \in [Packages \X Packages -> 0..MaxNames]
  /\ \A d, p \in Packages : Edge(d, p) => d # p /\ p \in nodes
  /\ phase = "tarjan" /\ Locals

Seen(p) == p \in DOMAIN index
Top     == Last(callStack)

-----------------------------------------------------------------------------
(* Mistakes the properties must tell from the code; no part of Next.       *)

(* The end of a call does not hand its lowlink to the caller.              *)
ReturnAlone ==
  /\ phase = "tarjan" /\ callStack # << >> /\ Top.todo = {}
  /\ LET v == Top.node
         at == CHOOSE i \in DOMAIN stack : stack[i] = v IN
       IF lowlink[v] = index[v]
         THEN /\ stack' = SubSeq(stack, 1, at - 1)
              /\ sccs' = Append(sccs, {stack[i] : i \in at..Len(stack)})
         ELSE UNCHANGED <<stack, sccs>>
  /\ callStack' = Front(callStack)
  /\ UNCHANGED <<input, phase, index, lowlink, kahn, expanded>>

-----------------------------------------------------------------------------
(* _find_all_sccs                                                          *)

(* Both numbers of a package are how many were seen before it.             *)
Numbered(f, v) == [p \in DOMAIN f \cup {v} |-> IF p = v THEN Cardinality(DOMAIN f) ELSE f[p]]

Enter(v, calls) ==
  /\ index' = Numbered(index, v) /\ lowlink' = Numbered(lowlink, v)
  /\ stack' = Append(stack, v)
  /\ callStack' = Append(calls, [node |-> v, todo |-> Neighbors(v)])

(* strongconnect() for the first package that was not seen.                *)
Root ==
  /\ phase = "tarjan" /\ callStack = << >> /\ nodes # DOMAIN index
  /\ Enter(Min(nodes \ DOMAIN index), << >>)
  /\ UNCHANGED <<input, phase, sccs, kahn, expanded>>

Descend ==
  /\ phase = "tarjan" /\ callStack # << >>
  /\ \E w \in Top.todo :
       /\ ~Seen(w)
       /\ Enter(w, [callStack EXCEPT ![Len(callStack)].todo = @ \ {w}])
  /\ UNCHANGED <<input, phase, sccs, kahn, expanded>>

(* A neighbour that was seen counts while it is on the stack.              *)
Visit ==
  /\ phase = "tarjan" /\ callStack # << >>
  /\ \E w \in Top.todo :
       LET v == Top.node IN
       /\ Seen(w)
       /\ lowlink' = IF Contains(stack, w)
                       THEN [lowlink EXCEPT ![v] = Min({@, index[w]})] ELSE lowlink
       /\ callStack' = [callStack EXCEPT ![Len(callStack)].todo = @ \ {w}]
  /\ UNCHANGED <<input, phase, index, stack, sccs, kahn, expanded>>

(* The root of a component takes it off the stack.                         *)
Return ==
  /\ phase = "tarjan" /\ callStack # << >> /\ Top.todo = {}
  /\ LET v == Top.node
         at == CHOOSE i \in DOMAIN stack : stack[i] = v IN
       IF lowlink[v] = index[v]
         THEN /\ stack' = SubSeq(stack, 1, at - 1)
              /\ sccs' = Append(sccs, {stack[i] : i \in at..Len(stack)})
         ELSE UNCHANGED <<stack, sccs>>
  /\ callStack' = Front(callStack)
  /\ lowlink' =
       IF Len(callStack) = 1 THEN lowlink
       ELSE [lowlink EXCEPT ![callStack[Len(callStack) - 1].node] =
               Min({@, lowlink[Top.node]})]
  /\ UNCHANGED <<input, phase, index, kahn, expanded>>

-----------------------------------------------------------------------------
(* The graph of the components                                             *)

(* node_to_scc: the component of a package; a package that the resolution  *)
(* stopped at has none.                                                    *)
Component(p) == {i \in DOMAIN sccs : p \in sccs[i]}

Condense ==
  /\ phase = "tarjan" /\ callStack = << >> /\ nodes = DOMAIN index
  /\ phase' = "count"
  /\ uncounted' = Entries /\ inDegree' = [i \in DOMAIN sccs |-> 0]
  /\ UNCHANGED <<input, tarjan, condensedAdj, ready, sccOrder, expanded>>

(* Mistake: every edge between two components is counted.                  *)
EveryPair(d, p) == {c \in Component(d) \X Component(p) : c[1] # c[2]}

(* Mistake: the two ends of an edge are swapped.                           *)
NewPairSwapped(d, p) ==
  {c \in Component(p) \X Component(d) : c[1] # c[2] /\ c \notin condensedAdj}

(* The pair of components an edge adds to those that are known.            *)
NewPair(d, p) ==
  {c \in Component(d) \X Component(p) : c[1] # c[2] /\ c \notin condensedAdj}

(* One entry of the list, in an order the model leaves open: two entries   *)
(* may lead from one component to the same other one, which counts once.   *)
CountEdge ==
  /\ phase = "count" /\ uncounted # {}
  /\ LET x == CHOOSE x \in uncounted : TRUE
         new == NewPair(x[1][1], x[1][2]) IN
       /\ uncounted' = uncounted \ {x}
       /\ condensedAdj' = condensedAdj \cup new
       /\ inDegree' = [j \in DOMAIN sccs |->
                         IF \E c \in new : c[2] = j THEN inDegree[j] + 1 ELSE inDegree[j]]
  /\ UNCHANGED <<input, phase, tarjan, ready, sccOrder, expanded>>

CountEnds ==
  /\ phase = "count" /\ uncounted = {}
  /\ phase' = "kahn"
  /\ ready' = {i \in DOMAIN sccs : inDegree[i] = 0}
  /\ UNCHANGED <<input, tarjan, uncounted, condensedAdj, inDegree, sccOrder, expanded>>

(* The queue is sorted after every insertion, so it is a set here.         *)
Sort ==
  /\ phase = "kahn" /\ ready # {}
  /\ LET i == Min(ready)
         after == {j \in DOMAIN sccs : <<i, j>> \in condensedAdj} IN
       /\ sccOrder' = Append(sccOrder, i)
       /\ inDegree' = [j \in DOMAIN sccs |->
                         IF j \in after THEN inDegree[j] - 1 ELSE inDegree[j]]
       /\ ready' = (ready \ {i}) \cup {j \in after : inDegree'[j] = 0}
  /\ UNCHANGED <<input, phase, tarjan, uncounted, condensedAdj, expanded>>

(* "Add any remaining SCCs (shouldn't happen in condensed DAG, but safety)"*)
SortEnds ==
  /\ phase = "kahn" /\ ready = {}
  /\ phase' = "expand"
  /\ sccOrder' = sccOrder \o InOrder(DOMAIN sccs \ Range(sccOrder))
  /\ UNCHANGED <<input, tarjan, uncounted, condensedAdj, inDegree, ready, expanded>>

-----------------------------------------------------------------------------
(* Back to packages                                                        *)

Expand ==
  /\ phase = "expand" /\ remaining = {} /\ pos <= Len(sccOrder)
  /\ LET c == sccs[sccOrder[pos]] IN
       IF Cardinality(c) = 1
         THEN order' = order \o SetToSeq(c) /\ pos' = pos + 1 /\ remaining' = {}
         ELSE remaining' = c /\ UNCHANGED <<order, pos>>
  /\ UNCHANGED <<input, phase, tarjan, kahn>>

(* _order_scc_greedy counts the entries of reverse_adj, which has a        *)
(* dependency once for each of its names.                                  *)
Unresolved(p) == Cardinality({e \in remaining \X (1..MaxNames) : e[2] <= edges[<<e[1], p>>]})

(* The first package with the fewest.                                      *)
Best ==
  LET fewest == {p \in remaining : \A q \in remaining : Unresolved(p) <= Unresolved(q)}
  IN Min(fewest)

Greedy ==
  /\ phase = "expand" /\ remaining # {}
  /\ order' = Append(order, Best)
  /\ remaining' = remaining \ {Best}
  /\ pos' = IF remaining' = {} THEN pos + 1 ELSE pos
  /\ UNCHANGED <<input, phase, tarjan, kahn>>

(* "Add any isolated nodes not in any SCC"                                 *)
ExpandEnds ==
  /\ phase = "expand" /\ remaining = {} /\ pos > Len(sccOrder)
  /\ phase' = "done"
  /\ order' = order \o InOrder(nodes \ Range(order))
  /\ UNCHANGED <<input, tarjan, kahn, pos, remaining>>

Next == \/ Root \/ Descend \/ Visit \/ Return \/ Condense \/ CountEdge \/ CountEnds
        \/ Sort \/ SortEnds \/ Expand \/ Greedy \/ ExpandEnds

Spec == Init /\ [][Next]_vars

-----------------------------------------------------------------------------
(* A package reaches what is in every set that has it and, with any of its *)
(* packages, all that the edges lead to.                                   *)
Closed(S)     == \A p \in S : Neighbors(p) \subseteq S
Reaches(p, q) == \A S \in SUBSET nodes : p \in S /\ Closed(S) => q \in S

Together(p, q) == Reaches(p, q) /\ Reaches(q, p)

(* Tarjan's components, while they are found: each is the set of all the   *)
(* packages that reach one of its packages and are reached from it.        *)
ComponentsAreComplete ==
  \A i \in DOMAIN sccs : \A p \in sccs[i] :
    sccs[i] = {q \in nodes : Together(p, q)}

=============================================================================
