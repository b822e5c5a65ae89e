--------------------------- MODULE RoadmapReport ---------------------------
(***************************************************************************)
(* mogrix/roadmap.py, RoadmapResolver.resolve from its start to its end:   *)
(* the graph of what a package needs (Roadmap), the order to build it in   *)
(* (BuildOrder, which is given the visited packages and the list of        *)
(* edges), and the numbers of the report.  The back references (needed_by), *)
(* complexities and sources it shows beside them are left out.             *)
(***************************************************************************)
EXTENDS Roadmap

(* The packages are numbered in the order of their names.                  *)
ASSUME ReportAssumption == Packages \subseteq Nat

VARIABLES
  phase,     \* which part runs: "resolve", then those of BuildOrder, then "end"
  index, lowlink, stack, callStack, sccs,   \* Tarjan's algorithm
  uncounted, condensedAdj,                  \* the graph of the components
  inDegree, ready, sccOrder,                \* Kahn's
  pos, remaining, order,                    \* and the result
  numbers    \* packages[p].build_order; packages without one are left out

Order == INSTANCE BuildOrder WITH nodes <- visited, MaxNames <- Cardinality(Reqs)

locals == <<index, lowlink, stack, callStack, sccs, uncounted, condensedAdj, inDegree,
            ready, sccOrder, pos, remaining, order>>

ReportInit ==
  /\ Init /\ Order!Locals
  /\ phase = "resolve" /\ numbers = << >>

-----------------------------------------------------------------------------
(* enumerate(result.build_order): a package that was left out has no       *)
(* number, and its place stays empty.                                      *)
Numbers ==
  [p \in DOMAIN packages \cap Range(order) |-> CHOOSE i \in DOMAIN order : order[i] = p]

-----------------------------------------------------------------------------
Resolves ==
  /\ phase = "resolve" /\ Next
  /\ UNCHANGED <<phase, locals, numbers>>

(* _topological_sort(edges, visited) is called.  Nothing after this looks  *)
(* at the index and the rules again, and the model forgets them.           *)
Call ==
  /\ phase = "resolve" /\ Done
  /\ phase' = "tarjan"
  /\ requires' = [p \in Packages |-> {}] /\ provides' = [r \in Reqs |-> Unknown]
  /\ drops' = [p \in Packages |-> {}] /\ hasRules' = {}
  /\ maxDepth' = 0 /\ stopAtRules' = FALSE
  /\ dropped' = {} /\ sysroot' = {} /\ unresolvable' = {}
  /\ UNCHANGED <<queue, visited, edges, packages, locals, numbers>>

Sorts ==
  /\ Order!Next
  /\ UNCHANGED <<input, queue, packages, names, numbers>>

Numbered ==
  /\ phase = "done"
  /\ phase' = "end"
  /\ numbers' = Numbers
  /\ UNCHANGED <<input, queue, visited, edges, packages, names, locals>>

ReportNext == Resolves \/ Call \/ Sorts \/ Numbered

ReportSpec == ReportInit /\ [][ReportNext]_<<vars, phase, locals, numbers>>

-----------------------------------------------------------------------------
(* "Always resolves the complete graph": all the packages the target needs *)
(* directly or through others, up to the depth asked for, and no others.   *)
ReportIsComplete == TypeOK /\ (phase = "resolve" => GraphIsComplete)

(* Every name a package requires is built, or the report has it where it   *)
(* belongs; what is dropped for one package is not dropped for another.    *)
EveryNameHasItsPlace == phase = "resolve" => EveryNameIsReported

(* The sort is handed a graph of the kind it is written for, and each of   *)
(* Tarjan's components is the set of all the packages that reach one of    *)
(* its packages and are reached from it.                                   *)
ComponentsAreComplete ==
  /\ phase = "tarjan" /\ index = << >> => Order!Init
  /\ phase \notin {"resolve", "end"} => Order!TypeOK
  /\ phase # "resolve" => Order!ComponentsAreComplete

(* The numbers of the report are an order to build in: every package has   *)
(* one of its own, and what it requires has a smaller one, unless the two  *)
(* require each other or it is not in the report.                          *)
DependenciesFirst ==
  phase = "end" =>
    /\ IsInjective(order) /\ Range(order) = visited
    /\ DOMAIN numbers = DOMAIN packages
    /\ \A p, d \in DOMAIN packages :
         d \in packages[p] /\ d # p => numbers[d] < numbers[p] \/ Order!Together(d, p)
=============================================================================
