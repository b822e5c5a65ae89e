--------------------------- MODULE MCConversion ---------------------------
(* Two versions of foo and one of bar; all have a patch called fix.        *)
EXTENDS Conversion, TLC

CONSTANTS foo1, foo2, bar1

MCPackages == {"foo", "bar"}
MCPackageOf == [s \in Srpms |-> IF s = bar1 THEN "bar" ELSE "foo"]
MCFiles == {"fix", "irix", "gone", "crash"}
MCOwnFiles == [s \in Srpms |-> {"fix"}]
MCRequires == {"gcc", "make", "perl"}
MCNative == [s \in Srpms |->
  CASE s = foo1 -> {[first |-> "gcc", more |-> {"perl"}]}
    [] s = bar1 -> {[first |-> "gcc", more |-> {}], [first |-> "make", more |-> {"perl"}]}
    [] OTHER -> {}]

Stage(add, drop) == [add |-> add, drop |-> drop]
Nothing == Stage({}, {})
Book(generic, classes, package, files) ==
  [generic |-> generic, classes |-> classes, package |-> package, files |-> files]

(* foo's rules add and drop at every stage; a patch is in its own          *)
(* directory, one is shared and one is not there.                          *)
Before ==
  LET generic == Stage({"perl"}, {"perl"}) IN
  [k \in MCPackages |->
     IF k = "bar" THEN Book(generic, << >>, Stage({}, {"gcc", "make"}), {})
     ELSE Book(generic, <<Stage({}, {"perl"})>>, Stage({"make", "perl"}, {}), {"irix", "gone"})]

After ==
  LET generic == Stage({}, {"gcc"}) IN
  [k \in MCPackages |->
     IF k = "bar" THEN Book(generic, << >>, Stage({"gcc"}, {}), {})
     ELSE Book(generic, <<Stage({"perl"}, {}), Stage({"gcc"}, {"perl"})>>, Nothing,
               {"fix", "crash"})]

MCRuleDirs == {Before, After}
MCBatchList == <<foo1, foo2>>
AnyProcess == Permutations(Procs)
=============================================================================
