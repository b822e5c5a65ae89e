--------------------------- MODULE MCRoadmapReport ---------------------------
(* Packages 1 to 4; the names 1 to 4 are theirs, and the name 5 is another *)
(* one of package 2, comes with the system, or is unknown.                 *)
EXTENDS RoadmapReport

MCPackages == 1..4
MCReqs     == 1..5

NoDrops == [p \in MCPackages |-> {}]
Named(x) == [r \in MCReqs |-> IF r = 5 THEN x ELSE r]

Case(graph, x, dropped1, rules, depth, stop) ==
  [requires |-> graph, provides |-> Named(x), drops |-> dropped1, hasRules |-> rules,
   maxDepth |-> depth, stopAtRules |-> stop]

(* Any graph of the four packages, and nothing else.                       *)
Graphs4 ==
  {Case(<<a, b, c, d>>, 2, NoDrops, {}, 0, FALSE) :
     a \in SUBSET {2, 3, 4}, b \in SUBSET {1, 3, 4}, c \in SUBSET {1, 2, 4}, d \in SUBSET {1, 2, 3}}

(* Three of them with the name 5, and names of their own: no rule, or one  *)
(* that drops the name 3 for the target; no depth, or one; --stop-at-rules.*)
Graphs3 == {<<a, b, c, {}>> : a \in SUBSET {1, 2, 3, 5}, b \in SUBSET {1, 2, 3, 5}, c \in SUBSET {1, 2}}

Drops3 == {NoDrops, [p \in MCPackages |-> IF p = 1 THEN {3} ELSE {}]}
Options3 == {<<0, FALSE>>, <<1, FALSE>>, <<0, TRUE>>, <<1, TRUE>>}

MCCases ==
  Graphs4 \cup
  {Case(g, x, d, {2}, o[1], o[2]) :
     g \in Graphs3, x \in {2, Sysroot, Unknown}, d \in Drops3, o \in Options3}
=============================================================================
