------------------------------- MODULE Rules -------------------------------
(***************************************************************************)
(* What the rules engine (mogrix/rules/engine.py) and the spec writer      *)
(* (mogrix/emitter/spec.py) make of a spec's BuildRequires: the generic    *)
(* rules, then those of the package's classes in their order, then the     *)
(* package's own.  A stage is a record of what it adds and of the names    *)
(* its drop patterns match.                                                *)
(***************************************************************************)
EXTENDS Naturals, Sequences

(* The generic stage drops first, so that what it adds stays; the others   *)
(* add first, so that what they drop is gone.                              *)
ApplyGeneric(requires, stage) == (requires \ stage.drop) \cup stage.add
ApplyPackage(requires, stage) == (requires \cup stage.add) \ stage.drop

(* The classes of a package, one after the other.                          *)
ApplyClasses(requires, classes) ==
  LET applied[n \in Nat] == IF n = 0 THEN requires ELSE ApplyPackage(applied[n - 1], classes[n])
  IN applied[Len(classes)]

(* Mistake: the package's rules are applied before its classes'.           *)
ApplyPackageFirst(requires, book) ==
  ApplyClasses(ApplyPackage(ApplyGeneric(requires, book.generic), book.package), book.classes)

Apply(requires, book) ==
  ApplyPackage(ApplyClasses(ApplyGeneric(requires, book.generic), book.classes), book.package)

(* A spec has its BuildRequires in lines, one name or several in each.     *)
Names(lines) == {l.first : l \in lines} \cup UNION {l.more : l \in lines}

(* The first of several names: the writer's pattern for such a line wants  *)
(* something between "BuildRequires:" and the name it drops, and only a    *)
(* third blank, or the loss of the other names before its turn, lets it    *)
(* find the first.                                                         *)
Firsts(lines) == {l.first : l \in {m \in lines : m.more # {}}}

(* Mistake: what the rules drop is not taken out.                          *)
WritesDroppingNothing(lines, applied) ==
  {IF lines = {} THEN {} ELSE Names(lines) \cup applied}

(* What the writer may make of the lines: it takes out the names that were *)
(* dropped, perhaps not the first of several; new lines go behind the last *)
(* BuildRequires line that is left, and nowhere if none is.                *)
Writes(lines, applied) ==
  LET kept == {(Names(lines) \cap applied) \cup stay : stay \in SUBSET (Firsts(lines) \ applied)}
  IN {IF names = {} THEN {} ELSE names \cup (applied \ Names(lines)) : names \in kept}

-----------------------------------------------------------------------------
(* The reference: the last stage that mentions a name has the say over it. *)
(* It is no part of the code.                                              *)
Stages(book) == <<book.generic>> \o book.classes \o <<book.package>>

Wanted(r, requires, book) ==
  LET stages == Stages(book)
      mentions == {i \in DOMAIN stages : r \in stages[i].add \cup stages[i].drop}
  IN IF mentions = {} THEN r \in requires
     ELSE LET last == CHOOSE i \in mentions : \A j \in mentions : j <= i
          IN IF last = 1 THEN r \in stages[1].add ELSE r \notin stages[last].drop
=============================================================================
