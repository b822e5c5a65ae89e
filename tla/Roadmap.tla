------------------------------ MODULE Roadmap ------------------------------
(***************************************************************************)
(* mogrix/roadmap.py, RoadmapResolver.resolve: from the package somebody   *)
(* wants, breadth first, to everything its build needs.  A requirement is  *)
(* a name; it is dropped by a rule, comes with the system, is unknown, or  *)
(* is provided by a package, which is then resolved in its turn.           *)
(*                                                                         *)
(* What it finds, visited and edges, is what BuildOrder starts from.       *)
(***************************************************************************)
EXTENDS Ordering, Sequences, SequencesExt, FiniteSetsExt

CONSTANTS
  Packages,    \* the source packages
  Reqs,        \* the names packages require, numbered in their order
  Target,      \* the package asked for
  Cases,       \* the indexes, rules and options a resolution may start from
  Sysroot, Unknown

(* What the index knows of who requires and who provides which name, what  *)
(* the rules drop, which packages have rules, and the options.             *)
Inputs == [requires : [Packages -> SUBSET Reqs],
           provides : [Reqs -> Packages \cup {Sysroot, Unknown}],
           drops : [Packages -> SUBSET Reqs], hasRules : SUBSET Packages,
           maxDepth : Nat, stopAtRules : BOOLEAN]

ASSUME RoadmapAssumption ==
  /\ Target \in Packages /\ IsFiniteSet(Packages)
  /\ Reqs \subseteq Nat /\ IsFiniteSet(Reqs)
  /\ \A c \in Cases : c \in Inputs
  /\ Sysroot \notin Packages /\ Unknown \notin Packages /\ Sysroot # Unknown

VARIABLES
  requires,  \* source_buildrequires, of each package
  provides,  \* _resolve_provider, where no rule drops the name
  drops,     \* _compute_effective_drops
  hasRules,  \* the packages classified HAS_RULES
  maxDepth, stopAtRules,
  queue, visited,
  edges,     \* how often (dependency, dependent) is in the list of edges
  packages,  \* result.packages: the buildrequires of each
  dropped, sysroot, unresolvable  \* the names in the rest of the result

vars == <<requires, provides, drops, hasRules, maxDepth, stopAtRules, queue,
          visited, edges, packages, dropped, sysroot, unresolvable>>

input == <<requires, provides, drops, hasRules, maxDepth, stopAtRules>>
names == <<dropped, sysroot, unresolvable>>

(* A package is queued once for every name that leads to it, at most as    *)
(* deep as there are packages.                                             *)
TypeOK ==
  /\ queue \in Seq([pkg : Packages, depth : 0..Cardinality(Packages)])
  /\ Len(queue) <= 1 + Cardinality(Packages) * Cardinality(Reqs)
  /\ visited \subseteq Packages
  /\ edges \in [Packages \X Packages -> 0..Cardinality(Reqs)]
  /\ DOMAIN packages \subseteq visited
  /\ \A p \in DOMAIN packages : packages[p] \subseteq Packages
  /\ dropped \subseteq Reqs /\ sysroot \subseteq Reqs /\ unresolvable \subseteq Reqs

Init ==
  /\ \E c \in Cases :
       /\ requires = c.requires /\ provides = c.provides /\ drops = c.drops
       /\ hasRules = c.hasRules
       /\ maxDepth = c.maxDepth /\ stopAtRules = c.stopAtRules
  /\ queue = <<[pkg |-> Target, depth |-> 0]>>
  /\ visited = {} /\ packages = << >>
  /\ edges = [e \in Packages \X Packages |-> 0]
  /\ dropped = {} /\ sysroot = {} /\ unresolvable = {}

-----------------------------------------------------------------------------
(* Mistakes the properties must tell from the code; no part of Next.       *)

(* The drops of one package hold for those after it.                       *)
KeptUnlessDroppedBefore(p) == requires[p] \ (drops[p] \cup dropped)

(* The names of p that no rule drops, and those of them that lead on.      *)
Kept(p)     == requires[p] \ drops[p]
Provided(p) == {r \in Kept(p) : provides[r] \in Packages}
BuildRequires(p) == {provides[r] : r \in Provided(p)}

(* What a package requires is resolved before the rest: depth first.       *)
NewQueueInFront(found) == found \o Tail(queue)

-----------------------------------------------------------------------------
Take == Head(queue)

(* stop_at_rules: a package with rules is noted and not followed.          *)
Follow(d) == ~(stopAtRules /\ d \in hasRules)

Visited(p) == visited \cup {p}

TooDeep == maxDepth > 0 /\ Take.depth > maxDepth

NewEdges(p) ==
  [e \in Packages \X Packages |->
     IF e[2] = p /\ e[1] # p
       THEN edges[e] + Cardinality({r \in Provided(p) : provides[r] = e[1]})
       ELSE edges[e]]

NewQueue(found) == Tail(queue) \o found

(* In the order of the names, one entry for each.                          *)
Queued(p) ==
  LET follow == {r \in Provided(p) : /\ provides[r] \notin Visited(p)
                                     /\ Follow(provides[r])}
      entry(r) == [pkg |-> provides[r], depth |-> Take.depth + 1]
      sorted == InOrder(follow)
  IN [i \in DOMAIN sorted |-> entry(sorted[i])]

Resolve ==
  /\ queue # << >> /\ Take.pkg \notin visited /\ ~TooDeep
  /\ LET p == Take.pkg IN
       /\ visited' = Visited(p)
       /\ queue' = NewQueue(Queued(p))
       /\ edges' = NewEdges(p)
       /\ packages' = [q \in DOMAIN packages \cup {p} |-> IF q = p THEN BuildRequires(p)
                                                          ELSE packages[q]]
       /\ dropped' = dropped \cup (requires[p] \cap drops[p])
       /\ sysroot' = sysroot \cup {r \in Kept(p) : provides[r] = Sysroot}
       /\ unresolvable' = unresolvable \cup {r \in Kept(p) : provides[r] = Unknown}
  /\ UNCHANGED input

(* A package below max_depth is visited, but there is nothing about it.    *)
LeaveOut ==
  /\ queue # << >> /\ Take.pkg \notin visited /\ TooDeep
  /\ visited' = Visited(Take.pkg) /\ queue' = Tail(queue)
  /\ UNCHANGED <<input, edges, packages, names>>

Skip ==
  /\ queue # << >> /\ Take.pkg \in visited
  /\ queue' = Tail(queue)
  /\ UNCHANGED <<input, visited, edges, packages, names>>

Next == Resolve \/ LeaveOut \/ Skip

Spec == Init /\ [][Next]_vars

-----------------------------------------------------------------------------
Done == queue = << >>

(* The packages that are n steps or fewer away from the target.            *)
Near[n \in Nat] ==
  IF n = 0 THEN {Target}
  ELSE LET wanted == UNION {{provides[r] : r \in requires[p] \ drops[p]} : p \in Near[n - 1]}
       IN Near[n - 1] \cup {d \in wanted \cap Packages : Follow(d)}

(* "Always resolves the complete graph": all the packages the target needs *)
(* directly or through others, up to the depth asked for, and no others.   *)
GraphIsComplete ==
  Done => DOMAIN packages =
            Near[IF maxDepth = 0 THEN Cardinality(Packages) ELSE maxDepth]

(* Every name a package requires is built, or the report has it where it   *)
(* belongs; what is dropped for one package is not dropped for another.    *)
EveryNameIsReported ==
  \A p \in DOMAIN packages : \A r \in requires[p] :
    IF r \in drops[p] THEN r \in dropped
    ELSE CASE provides[r] = Sysroot -> r \in sysroot
           [] provides[r] = Unknown -> r \in unresolvable
           [] OTHER                 -> provides[r] \in packages[p]

=============================================================================
