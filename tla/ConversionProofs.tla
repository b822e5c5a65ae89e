-------------------------- MODULE ConversionProofs --------------------------
(***************************************************************************)
(* Proofs about Conversion and the Rules it applies.                       *)
(***************************************************************************)
EXTENDS Conversion, FiniteSetTheorems, WellFoundedInduction, TLAPS

-----------------------------------------------------------------------------
(* Induction over the natural numbers, for sets instead of predicates.     *)

LEMMA SmallestMember ==
  ASSUME NEW T, T \subseteq Nat, T # {}
  PROVE  \E n \in T : \A m \in T : n <= m
<1>1. \E n \in T : \A m \in T : <<m, n>> \notin OpToRel(<, Nat)
  BY NatLessThanWellFounded, WFMin
<1>2. PICK n \in T : \A m \in T : <<m, n>> \notin OpToRel(<, Nat)
  BY <1>1
<1>3. ASSUME NEW m \in T PROVE n <= m
  <2>1. m \in Nat /\ n \in Nat
    OBVIOUS
  <2>2. m < n => <<m, n>> \in OpToRel(<, Nat)
    BY <2>1 DEF OpToRel
  <2>3. ~(m < n)
    BY <1>2, <2>2, Zenon
  <2> QED BY ONLY <2>1, <2>3
<1> QED BY <1>3

LEMMA SetInduction ==
  ASSUME NEW T, 0 \in T, \A n \in Nat : n \in T => n + 1 \in T
  PROVE  Nat \subseteq T
<1> SUFFICES ASSUME Nat \ T # {} PROVE FALSE
  OBVIOUS
<1>1. Nat \ T \subseteq Nat
  OBVIOUS
<1>2. PICK n \in Nat \ T : \A m \in Nat \ T : n <= m
  BY <1>1, SmallestMember
<1>3. n \in Nat /\ n # 0
  OBVIOUS
<1>4. n - 1 \in Nat /\ (n - 1) + 1 = n /\ ~(n <= n - 1)
  BY <1>3
<1>5. n - 1 \in T
  BY <1>2, <1>4
<1> QED BY <1>4, <1>5

(* A set of numbers up to some number has a largest.                       *)
LEMMA LargestMember ==
  ASSUME NEW k \in Nat, NEW T, T \subseteq 0..k, T # {}
  PROVE  \E n \in T : \A m \in T : m <= n
<1> DEFINE U == {k - n : n \in T}
<1>0. \A n \in T : n \in Nat /\ k - n \in Nat
  OBVIOUS
<1>1. U \subseteq Nat /\ U # {}
  BY <1>0, Zenon
<1>2. PICK u \in U : \A v \in U : u <= v
  BY <1>1, SmallestMember
<1>3. PICK n \in T : u = k - n
  OBVIOUS
<1>4. ASSUME NEW m \in T PROVE m <= n
  <2>1. k - m \in U
    OBVIOUS
  <2>2. k - n <= k - m
    BY <1>2, <1>3, <2>1
  <2>3. m \in Nat /\ n \in Nat
    OBVIOUS
  <2> QED BY <2>2, <2>3
<1> QED BY <1>4

-----------------------------------------------------------------------------
(* What the rules make of BuildRequires                                    *)

(* A name is there after the first n classes if it was added, or there at  *)
(* the start, and none of them dropped it since.                           *)
Lasts(r, classes, i, n) == \A j \in (i + 1)..n : r \notin classes[j].drop

AfterClasses(r, requires, classes, n) ==
  \/ r \in requires /\ Lasts(r, classes, 0, n)
  \/ \E i \in 1..n : r \in classes[i].add \ classes[i].drop /\ Lasts(r, classes, i, n)

LEMMA AfterNoClass ==
  ASSUME NEW r, NEW requires, NEW classes
  PROVE  AfterClasses(r, requires, classes, 0) <=> r \in requires
BY DEF AfterClasses, Lasts

LEMMA LastsOneMore ==
  ASSUME NEW r, NEW classes, NEW n \in Nat \ {0}, NEW i \in 0..(n - 1)
  PROVE  Lasts(r, classes, i, n) <=> Lasts(r, classes, i, n - 1) /\ r \notin classes[n].drop
<1>1. (i + 1)..n = ((i + 1)..(n - 1)) \cup {n}
  OBVIOUS
<1> QED BY <1>1 DEF Lasts

LEMMA AfterOneMore ==
  ASSUME NEW r, NEW requires, NEW classes, NEW n \in Nat \ {0}
  PROVE  AfterClasses(r, requires, classes, n) <=>
           /\ AfterClasses(r, requires, classes, n - 1) \/ r \in classes[n].add
           /\ r \notin classes[n].drop
<1>1. 1..n = (1..(n - 1)) \cup {n}
  OBVIOUS
<1>2. Lasts(r, classes, n, n)
  BY DEF Lasts
<1>3. \A i \in 1..(n - 1) : i \in 0..(n - 1)
  OBVIOUS
<1>4. 0 \in 0..(n - 1)
  OBVIOUS
<1>5. \A i \in 0..(n - 1) :
        Lasts(r, classes, i, n) <=> Lasts(r, classes, i, n - 1) /\ r \notin classes[n].drop
  BY LastsOneMore
<1> HIDE DEF Lasts
<1>6. \A i \in 1..(n - 1) :
        Lasts(r, classes, i, n) <=> Lasts(r, classes, i, n - 1) /\ r \notin classes[n].drop
  BY <1>3, <1>5
<1> QED BY <1>1, <1>2, <1>4, <1>5, <1>6, Zenon DEF AfterClasses

(* The recursive definition has this set as its value.                     *)
LEMMA ClassesApplied ==
  ASSUME NEW requires \in SUBSET Requires, NEW classes \in Seq(RuleStages)
  PROVE  ApplyClasses(requires, classes)
           = {r \in Requires : AfterClasses(r, requires, classes, Len(classes))}
<1> DEFINE all == requires \cup UNION {classes[i].add : i \in Nat}
           after(n) == {r \in all : AfterClasses(r, requires, classes, n)}
           Step(f) == [n \in Nat |-> IF n = 0 THEN requires ELSE ApplyPackage(f[n - 1], classes[n])]
           h == CHOOSE f : f = Step(f)
<1>1. ApplyClasses(requires, classes) = h[Len(classes)]
  BY DEF ApplyClasses
<1>2. after(0) = requires
  BY AfterNoClass
<1>3. ASSUME NEW n \in Nat \ {0} PROVE after(n) = ApplyPackage(after(n - 1), classes[n])
  <2>1. classes[n].add \subseteq all
    OBVIOUS
  <2>2. ASSUME NEW r PROVE r \in after(n) <=> r \in ApplyPackage(after(n - 1), classes[n])
    BY <2>1, AfterOneMore DEF ApplyPackage
  <2> QED BY <2>2
<1> HIDE DEF all, after
<1>4. h = Step(h)
  <2> DEFINE g == [n \in Nat |-> after(n)]
  <2>1. \A n \in Nat \ {0} : n - 1 \in Nat
    OBVIOUS
  <2>2. g = Step(g)
    BY <1>2, <1>3, <2>1
  <2> HIDE DEF g, Step
  <2> QED BY <2>2
<1>5. \A n \in Nat : h[n] = after(n)
  <2> DEFINE T == {n \in Nat : h[n] = after(n)}
  <2> HIDE DEF h
  <2>1. h[0] = requires
    BY <1>4
  <2>2. \A n \in Nat : h[n + 1] = ApplyPackage(h[n], classes[n + 1])
    BY <1>4
  <2>3. 0 \in T
    BY <1>2, <2>1
  <2>4. ASSUME NEW n \in Nat, h[n] = after(n) PROVE h[n + 1] = after(n + 1)
    <3>1. n + 1 \in Nat \ {0} /\ (n + 1) - 1 = n
      OBVIOUS
    <3> QED BY <1>3, <2>2, <2>4, <3>1
  <2>5. \A n \in Nat : n \in T => n + 1 \in T
    BY <2>4
  <2>6. Nat \subseteq T
    <3> HIDE DEF T
    <3> QED BY <2>3, <2>5, SetInduction
  <2> QED BY <2>6
<1>6. after(Len(classes)) = {r \in Requires : AfterClasses(r, requires, classes, Len(classes))}
  <2>1. \A i \in 1..Len(classes) : classes[i].add \subseteq Requires
    <3>1. \A i \in 1..Len(classes) : classes[i] \in RuleStages
      OBVIOUS
    <3> QED BY <3>1 DEF RuleStages
  <2>2. ASSUME NEW r, AfterClasses(r, requires, classes, Len(classes))
        PROVE  r \in Requires /\ r \in all
    BY <2>1, <2>2 DEF AfterClasses, all
  <2> QED BY <2>2 DEF after
<1> QED BY <1>1, <1>5, <1>6

(* The stages are numbered from the generic one to the package's own.      *)
LEMMA StagesInOrder ==
  ASSUME NEW book \in Books
  PROVE  LET stages == Stages(book)
             k == Len(book.classes)
         IN /\ k \in Nat /\ DOMAIN stages = 1..(k + 2)
            /\ stages[1] = book.generic /\ stages[k + 2] = book.package
            /\ \A i \in 1..k : stages[i + 1] = book.classes[i]
<1>1. book.classes \in Seq(RuleStages) /\ book.generic \in RuleStages /\ book.package \in RuleStages
  BY DEF Books
<1> DEFINE c == book.classes
           first == <<book.generic>> \o c
<1>2. c \in Seq(RuleStages) /\ <<book.generic>> \in Seq(RuleStages) /\ <<book.package>> \in Seq(RuleStages)
  BY <1>1
<1> HIDE DEF c
<1>3. /\ first \in Seq(RuleStages) /\ Len(first) = Len(c) + 1
      /\ first[1] = book.generic /\ \A i \in 1..Len(c) : first[i + 1] = c[i]
  BY <1>2
<1> HIDE DEF first
<1>4. /\ Len(first \o <<book.package>>) = Len(c) + 2
      /\ (first \o <<book.package>>)[Len(c) + 2] = book.package
      /\ \A i \in 1..(Len(c) + 1) : (first \o <<book.package>>)[i] = first[i]
      /\ DOMAIN (first \o <<book.package>>) = 1..(Len(c) + 2)
  BY <1>2, <1>3
<1>5. Stages(book) = first \o <<book.package>>
  BY DEF Stages, first, c
<1>6. Len(c) \in Nat /\ 1 \in 1..(Len(c) + 1) /\ \A i \in 1..Len(c) : i + 1 \in 1..(Len(c) + 1)
  BY <1>2
<1> QED BY <1>3, <1>4, <1>5, <1>6 DEF c

(* The rules engine leaves the BuildRequires that the last stage to        *)
(* mention each of them wants, whatever the rules of the generic stage, of *)
(* the package and of any number of classes say.                           *)
THEOREM RulesApplied ==
  ASSUME NEW requires \in SUBSET Requires, NEW book \in Books
  PROVE  Apply(requires, book) = {r \in Requires : Wanted(r, requires, book)}
<1> DEFINE stages == Stages(book)
           classes == book.classes
           k == Len(classes)
           start == ApplyGeneric(requires, book.generic)
           after(r) == AfterClasses(r, start, classes, k)
<1>1. /\ k \in Nat /\ DOMAIN stages = 1..(k + 2)
      /\ stages[1] = book.generic /\ stages[k + 2] = book.package
      /\ \A i \in 1..k : stages[i + 1] = classes[i]
  BY StagesInOrder
<1>2. classes \in Seq(RuleStages) /\ book.generic \in RuleStages /\ book.package \in RuleStages
  BY DEF Books
<1>3. start \in SUBSET Requires
  BY <1>2 DEF ApplyGeneric, RuleStages
<1>4. book.package.add \subseteq Requires
  BY <1>2 DEF RuleStages
<1>5. Apply(requires, book) = ApplyPackage({r \in Requires : after(r)}, book.package)
  BY <1>2, <1>3, ClassesApplied DEF Apply
<1> HIDE DEF stages, k, classes, start
<1>6. ASSUME NEW r \in Requires
      PROVE  Wanted(r, requires, book)
               <=> (after(r) \/ r \in book.package.add) /\ r \notin book.package.drop
  <2> DEFINE mentions == {i \in DOMAIN stages : r \in stages[i].add \cup stages[i].drop}
  <2>1. r \in start <=> (r \in requires /\ r \notin book.generic.drop) \/ r \in book.generic.add
    BY DEF start, ApplyGeneric
  <2>2. 1 \in 1..(k + 2) /\ k + 2 \in 1..(k + 2) /\ \A i \in 1..k : i + 1 \in 1..(k + 2)
    BY <1>1
  <2>3. (\A i \in 1..k : r \notin classes[i].add \cup classes[i].drop) => (after(r) <=> r \in start)
    BY <1>1 DEF AfterClasses, Lasts
  <2>4. CASE mentions = {}
    <3>1. \A i \in 1..k : r \notin classes[i].add \cup classes[i].drop
      BY <1>1, <2>2, <2>4
    <3>2. r \notin book.generic.add \cup book.generic.drop \cup book.package.add \cup book.package.drop
      BY <1>1, <2>2, <2>4
    <3>3. Wanted(r, requires, book) <=> r \in requires
      BY <2>4 DEF Wanted, stages
    <3> QED BY <2>1, <2>3, <3>1, <3>2, <3>3
  <2>5. CASE mentions # {}
    <3> DEFINE Latest(i) == \A j \in mentions : j <= i
    <3>1. PICK last \in mentions : Latest(last)
      <4>1. k + 2 \in Nat /\ mentions \subseteq 0..(k + 2)
        BY <1>1
      <4> HIDE DEF mentions
      <4> QED BY <2>5, <4>1, LargestMember
    <3>2. last = CHOOSE i \in mentions : Latest(i)
      <4>1. mentions \subseteq Nat
        BY <1>1
      <4> HIDE DEF mentions
      <4>2. \A i \in mentions : Latest(i) => i = last
        BY <3>1, <4>1
      <4> HIDE DEF Latest
      <4> QED BY <3>1, <4>2
    <3>3. Wanted(r, requires, book)
            <=> IF last = 1 THEN r \in stages[1].add ELSE r \notin stages[last].drop
      BY <2>5, <3>2 DEF Wanted, stages
    <3>4. last \in 1..(k + 2) /\ r \in stages[last].add \cup stages[last].drop
      BY <1>1
    <3>5. \A i \in 1..(k + 2) : i > last => r \notin stages[i].add \cup stages[i].drop
      BY <1>1, <3>1, <3>4
    <3>6. \A i \in 1..k : i + 1 > last => r \notin classes[i].add \cup classes[i].drop
      BY <1>1, <2>2, <3>5
    <3> HIDE DEF mentions, Latest
    <3>7. last < k + 2 => r \notin book.package.add \cup book.package.drop
      BY <1>1, <2>2, <3>4, <3>5
    <3>8. CASE last = 1
      BY <1>1, <2>1, <2>3, <3>3, <3>4, <3>6, <3>7, <3>8
    <3>9. CASE last = k + 2
      BY <1>1, <3>3, <3>4, <3>9
    <3>10. CASE last # 1 /\ last # k + 2
      <4>1. PICK j \in 1..k : last = j + 1
        <5>1. last - 1 \in 1..k /\ last = (last - 1) + 1
          BY <1>1, <3>4, <3>10
        <5> QED BY <5>1
      <4>2. stages[last] = classes[j]
        BY <1>1, <4>1
      <4>3. \A i \in 1..k : i > j => r \notin classes[i].add \cup classes[i].drop
        BY <1>1, <3>6, <4>1
      <4>4. CASE r \in classes[j].drop
        <5>1. ASSUME NEW i \in 0..k, i < j PROVE ~Lasts(r, classes, i, k)
          <6>1. j \in (i + 1)..k
            BY <1>1, <5>1
          <6> QED BY <4>4, <6>1 DEF Lasts
        <5>2. ~after(r)
          BY <1>1, <4>3, <4>4, <5>1 DEF AfterClasses
        <5> QED BY <1>1, <3>3, <3>4, <3>7, <3>10, <4>2, <4>4, <5>2
      <4>5. CASE r \notin classes[j].drop
        <5>1. Lasts(r, classes, j, k)
          BY <1>1, <4>3 DEF Lasts
        <5>2. r \in classes[j].add \ classes[j].drop
          BY <3>4, <4>2, <4>5
        <5>3. after(r)
          BY <5>1, <5>2 DEF AfterClasses
        <5> QED BY <1>1, <3>3, <3>4, <3>7, <3>10, <4>2, <4>5, <5>3
      <4> QED BY <4>4, <4>5
    <3> QED BY <3>8, <3>9, <3>10
  <2> QED BY <2>4, <2>5
<1> HIDE DEF after
<1>7. ASSUME NEW r
      PROVE  r \in Apply(requires, book) <=> r \in {x \in Requires : Wanted(x, requires, book)}
  BY <1>4, <1>5, <1>6 DEF ApplyPackage
<1> QED BY <1>7

-----------------------------------------------------------------------------
(* The inductive invariant                                                 *)

PCs == {"idle", "extract", "apply", "gather", "putSpec", "putSources", "rpmbuild", "packing",
        "pick", "fetch", "clean", "next"}
Statuses == {"success", "error"}

(* Those of them at which a conversion has its spec, and has its files.    *)
Specified == {"gather", "putSpec", "putSources", "rpmbuild", "packing", "pick", "fetch"}
Unreturned == Specified \cup {"extract", "apply"}

SrpmFiles == {None, Torn} \cup [spec : Specs, files : UNION {[F -> Contents] : F \in SUBSET Files}]
OutputDirs == [files : [Files -> Contents], srpms : [Srpms -> SrpmFiles]]
Conversions == [pc : PCs, kind : Kinds, srpm : Srpms \cup {None}, todo : Seq(Srpms),
                book : Books \cup {None}, spec : Specs \cup {None}, picked : Srpms \cup {None},
                status : Statuses \cup {None}, alone : BOOLEAN,
                report : SUBSET (Srpms \X Statuses)]

TypeOK ==
  /\ rules \in RuleDirs
  /\ out \in [Dirs -> OutputDirs]
  /\ specs \in [Packages -> Specs \cup {None}]
  /\ sources \in [Files -> Contents]
  /\ made \in [Srpms -> SrpmFiles] /\ newest \in Srpms \cup {None}
  /\ conv \in [Procs -> Conversions]
  /\ left \in [runs : Nat, edits : Nat, faults : Nat]
  /\ results \subseteq [dir : Dirs, kind : Kinds, srpm : Srpms, book : Books]

(* What a conversion has by the time it is at a step.                      *)
HasWhatItNeeds(c, latest) ==
  /\ c.pc # "idle" => c.srpm \in Srpms
  /\ c.pc \in Specified => c.book \in Books /\ c.spec \in Specs
  /\ c.pc \in {"packing", "pick"} => latest \in Srpms
  /\ c.pc = "fetch" => c.picked \in Srpms
  /\ c.pc = "clean" => c.status \in Statuses

Accounted(c) ==
  /\ c.pc = "next" => c.kind = "batch"
  /\ c.pc # "idle" /\ c.kind = "batch" =>
       ToSet(BatchList) = {r[1] : r \in c.report} \cup ToSet(c.todo)
                            \cup (IF c.pc = "next" THEN {} ELSE {c.srpm})

(* Who is alone is alone: the others do not run.                           *)
Alone == \A p \in Procs : conv[p].alone => \A q \in Procs : At(q, "idle") <=> q # p

Asked(p) == SrpmOf(conv[p].srpm, conv[p].kind, conv[p].book, conv[p].spec.requires)
Ruled(p) == AsRuled(conv[p].srpm, conv[p].book, conv[p].spec.requires)

(* What a conversion that nobody overlaps has done so far, and finds as it *)
(* left it.                                                                *)
OnTheWay(p) ==
  LET c == conv[p] IN
  /\ c.pc \in Specified => c.spec = Asked(p).spec /\ Ruled(p)
  /\ c.pc \in Specified \ {"gather"} =>
       \A f \in c.spec.files : out[Dir(p)].files[f] = Asked(p).files[f]
  /\ c.pc \in {"putSources", "rpmbuild"} => specs[PackageOf[c.srpm]] = c.spec
  /\ c.pc \in {"rpmbuild", "packing"} => \A f \in c.spec.files : sources[f] = Asked(p).files[f]
  /\ c.pc \in {"pick", "fetch"} => made[c.srpm] = Asked(p)
  /\ c.pc = "pick" => newest = c.srpm
  /\ c.pc = "fetch" => c.picked = c.srpm
  /\ c.pc \in Unreturned => \A r \in results : r.dir # Dir(p) \/ r.srpm # c.srpm

Busy == UNION {Holding(p) : p \in Procs}

CountsTemporaries ==
  temps \in Nat /\ blamed \in Nat /\ IsFiniteSet(Busy) /\ temps = blamed + Cardinality(Busy)

IInv ==
  /\ TypeOK /\ Alone /\ ResultsAreTrue /\ CountsTemporaries
  /\ \A p \in Procs : HasWhatItNeeds(conv[p], newest) /\ Accounted(conv[p])
  /\ \A p \in Procs : conv[p].alone => OnTheWay(p)

Typed == TypeOK /\ \A p \in Procs : HasWhatItNeeds(conv[p], newest)

-----------------------------------------------------------------------------
(* What a conversion is to return                                          *)

LEMMA FoundAreFiles ==
  ASSUME NEW kind, NEW book \in Books
  PROVE  Found(kind, book) \in SUBSET Files
BY DEF Found, Books

(* What the writer makes of the lines has the names the rules want, but    *)
(* for the first of several names of a line, and for what is added to a    *)
(* spec that has no line left.                                             *)
LEMMA WrittenAsRuled ==
  ASSUME NEW s \in Srpms, NEW book \in Books,
         NEW requires \in Writes(Native[s], Apply(Names(Native[s]), book))
  PROVE  requires \in SUBSET Requires /\ AsRuled(s, book, requires)
<1> DEFINE names == Names(Native[s])
           applied == Apply(names, book)
           firsts == Firsts(Native[s])
<1>1. names \in SUBSET Requires /\ firsts \subseteq names
  BY ConversionAssumption DEF Names, Firsts, Lines
<1>2. applied = {q \in Requires : Wanted(q, names, book)}
  BY <1>1, RulesApplied
<1> HIDE DEF applied
<1>3. PICK stay \in SUBSET (firsts \ applied) :
        LET kept == (names \cap applied) \cup stay
        IN requires = IF kept = {} THEN {} ELSE kept \cup (applied \ names)
  BY DEF Writes, applied
<1> HIDE DEF names, firsts
<1>4. requires \in SUBSET Requires
  BY <1>1, <1>2, <1>3
<1>5. ASSUME NEW q \in Requires
      PROVE  /\ q \in requires => Wanted(q, names, book) \/ q \in firsts
             /\ Wanted(q, names, book) => q \in requires \/ (requires = {} /\ q \notin names)
  <2>1. q \in applied <=> Wanted(q, names, book)
    BY <1>2
  <2> QED BY <1>3, <2>1
<1> QED BY <1>4, <1>5 DEF AsRuled, names, firsts

LEMMA SpecTyped ==
  ASSUME NEW s \in Srpms, NEW kind, NEW book \in Books, NEW requires \in SUBSET Requires
  PROVE  SpecOf(s, requires, OwnFiles[s] \cup Found(kind, book)) \in Specs
<1>1. OwnFiles[s] \in SUBSET Files
  BY ConversionAssumption
<1> QED BY <1>1, FoundAreFiles DEF SpecOf, Specs

-----------------------------------------------------------------------------
(* Types                                                                   *)

LEMMA DirsOfConversions ==
  ASSUME NEW kind \in Kinds, NEW s \in Srpms
  PROVE  DirOf(kind, s) \in Dirs
BY ConversionAssumption DEF DirOf, Dirs, Kinds

LEMMA InitTyped == Init => Typed
<1> SUFFICES ASSUME Init PROVE Typed
  OBVIOUS
<1>1. Idle \in Conversions /\ Idle.pc = "idle"
  BY DEF Idle, Conversions, PCs, Kinds
<1>2. TypeOK
  BY <1>1, ConversionAssumption DEF Init, TypeOK, OutputDirs, Contents, SrpmFiles
<1>3. \A p \in Procs : conv[p].pc = "idle"
  BY <1>1 DEF Init
<1> QED BY <1>2, <1>3 DEF Typed, HasWhatItNeeds, Specified

(* A conversion starts with what it needs.                                 *)
LEMMA BeginsTyped ==
  ASSUME Typed, NEW p \in Procs, NEW kind \in Kinds, NEW s \in Srpms, NEW todo \in Seq(Srpms),
         NEW report \in SUBSET (Srpms \X Statuses), Begins(p, kind, s, todo, report),
         newest' = newest
  PROVE  /\ conv' \in [Procs -> Conversions] /\ results' \subseteq results
         /\ \A q \in Procs : HasWhatItNeeds(conv'[q], newest')
<1> DEFINE others == {q \in Procs \ {p} : ~At(q, "idle")}
           new == [Idle EXCEPT !.pc = "extract", !.kind = kind, !.srpm = s, !.todo = todo,
                               !.alone = others = {}, !.report = report]
<1>1. conv' = [q \in Procs |-> IF q = p THEN new ELSE [conv[q] EXCEPT !.alone = FALSE]]
  BY DEF Begins
<1>2. new \in Conversions /\ new.pc = "extract" /\ new.srpm = s
  BY DEF Idle, Conversions, PCs
<1>3. results' \subseteq results
  BY DEF Begins
<1> HIDE DEF new
<1>4. ASSUME NEW q \in Procs, q # p
      PROVE  conv'[q] \in Conversions
  <2>1. conv[q] \in Conversions
    BY DEF Typed, TypeOK
  <2>2. conv'[q] = [conv[q] EXCEPT !.alone = FALSE]
    BY <1>1, <1>4
  <2> QED BY ONLY <2>1, <2>2 DEF Conversions
<1>5. conv' \in [Procs -> Conversions]
  BY <1>1, <1>2, <1>4
<1>6. ASSUME NEW q \in Procs PROVE HasWhatItNeeds(conv'[q], newest')
  <2>1. CASE q = p
    BY <1>1, <1>2, <2>1 DEF HasWhatItNeeds, Specified
  <2>2. CASE q # p
    <3>1. /\ conv'[q].pc = conv[q].pc /\ conv'[q].srpm = conv[q].srpm /\ conv'[q].book = conv[q].book
          /\ conv'[q].spec = conv[q].spec /\ conv'[q].picked = conv[q].picked
          /\ conv'[q].status = conv[q].status
      BY <1>1, <2>2 DEF Typed, TypeOK, Conversions
    <3> QED BY <3>1 DEF HasWhatItNeeds, Typed
  <2> QED BY <2>1, <2>2
<1> QED BY <1>3, <1>5, <1>6

LEMMA IdleTyped == Idle \in Conversions /\ \A latest : HasWhatItNeeds(Idle, latest)
BY DEF Conversions, PCs, Kinds, HasWhatItNeeds, Specified, Idle

LEMMA OneMoves ==
  ASSUME Typed, NEW p \in Procs, NEW c, c \in Conversions, conv' = [conv EXCEPT ![p] = c],
         newest' = newest \/ newest' \in Srpms, HasWhatItNeeds(c, newest')
  PROVE  conv' \in [Procs -> Conversions] /\ \A q \in Procs : HasWhatItNeeds(conv'[q], newest')
<1>1. conv' \in [Procs -> Conversions]
  BY DEF Typed, TypeOK
<1>2. ASSUME NEW q \in Procs PROVE HasWhatItNeeds(conv'[q], newest')
  <2>1. CASE q = p
    BY <2>1 DEF Typed, TypeOK
  <2>2. CASE q # p
    BY <2>2 DEF Typed, TypeOK, HasWhatItNeeds
  <2> QED BY <2>1, <2>2
<1> QED BY <1>1, <1>2

LEMMA OutTyped ==
  ASSUME TypeOK, NEW d, NEW x
  PROVE  /\ \A v \in Contents : [out EXCEPT ![d].files[x] = v] \in [Dirs -> OutputDirs]
         /\ \A v \in SrpmFiles : [out EXCEPT ![d].srpms[x] = v] \in [Dirs -> OutputDirs]
<1>1. out \in [Dirs -> OutputDirs]
  BY DEF TypeOK
<1>2. ASSUME NEW v \in Contents PROVE [out EXCEPT ![d].files[x] = v] \in [Dirs -> OutputDirs]
  <2>1. d \in Dirs => [out[d] EXCEPT !.files[x] = v] \in OutputDirs
    <3>1. d \in Dirs => out[d] \in OutputDirs
      BY <1>1
    <3> QED BY <3>1 DEF OutputDirs
  <2> QED BY <1>1, <2>1
<1>3. ASSUME NEW v \in SrpmFiles PROVE [out EXCEPT ![d].srpms[x] = v] \in [Dirs -> OutputDirs]
  <2>1. d \in Dirs => [out[d] EXCEPT !.srpms[x] = v] \in OutputDirs
    <3>1. d \in Dirs => out[d] \in OutputDirs
      BY <1>1
    <3> QED BY <3>1 DEF OutputDirs
  <2> QED BY <1>1, <2>1
<1> QED BY <1>2, <1>3

(* What a step that fails leaves has the types of what was there.          *)
LEMMA HalfWayTyped ==
  ASSUME Typed, NEW p \in Procs, HalfWay(p)
  PROVE  /\ out' \in [Dirs -> OutputDirs] /\ specs' \in [Packages -> Specs \cup {None}]
         /\ sources' \in [Files -> Contents] /\ made' = made /\ newest' = newest
<1> DEFINE c == conv[p]
<1>0. c \in Conversions /\ HasWhatItNeeds(c, newest)
  BY DEF Typed, TypeOK
<1>1. CASE /\ At(p, "gather") /\ UNCHANGED Tree
           /\ \E f \in OwnFiles[c.srpm] \cup Found(c.kind, c.book) :
                out' = [out EXCEPT ![Dir(p)].files[f] = Torn]
  <2>1. out' \in [Dirs -> OutputDirs]
    <3>1. Torn \in Contents
      BY DEF Contents
    <3>2. PICK f : out' = [out EXCEPT ![Dir(p)].files[f] = Torn]
      BY <1>1
    <3>3. [out EXCEPT ![Dir(p)].files[f] = Torn] \in [Dirs -> OutputDirs]
      BY <3>1, OutTyped, Zenon DEF Typed
    <3> QED BY <3>2, <3>3
  <2> QED BY <1>1, <2>1 DEF Tree, Typed, TypeOK
<1>2. CASE /\ specs' \in {specs, [specs EXCEPT ![PackageOf[c.srpm]] = None]}
           /\ UNCHANGED <<out, sources, made, newest>>
  BY <1>2 DEF Typed, TypeOK
<1>3. CASE /\ \E f \in {g \in Files : out[Dir(p)].files[g] # None} : sources' = [sources EXCEPT ![f] = Torn]
           /\ UNCHANGED <<out, specs, made, newest>>
  BY <1>3 DEF Typed, TypeOK, Contents
<1>4. CASE /\ out' \in {out, [out EXCEPT ![Dir(p)].srpms[c.picked] = Torn]}
           /\ UNCHANGED Tree
  <2>1. out' \in [Dirs -> OutputDirs]
    <3>1. Torn \in SrpmFiles
      BY DEF SrpmFiles
    <3>2. out \in [Dirs -> OutputDirs]
      BY DEF Typed, TypeOK
    <3>3. [out EXCEPT ![Dir(p)].srpms[c.picked] = Torn] \in [Dirs -> OutputDirs]
      BY <3>1, OutTyped, Zenon DEF Typed
    <3> QED BY <1>4, <3>2, <3>3
  <2> QED BY <1>4, <2>1 DEF Tree, Typed, TypeOK
<1>5. CASE UNCHANGED <<out, Tree>>
  BY <1>5 DEF Tree, Typed, TypeOK
<1> QED BY <1>1, <1>2, <1>3, <1>4, <1>5 DEF HalfWay

LEMMA TypedStep == Typed /\ [Next]_vars => Typed'
<1> SUFFICES ASSUME Typed, [Next]_vars PROVE Typed'
  OBVIOUS
<1>1. CASE UNCHANGED vars
  BY <1>1 DEF vars, Typed, TypeOK, HasWhatItNeeds
<1>2. CASE EditRules
  BY <1>2 DEF EditRules, Tree, Typed, TypeOK, HasWhatItNeeds
<1>3. ASSUME NEW p \in Procs, Convert(p) PROVE Typed'
  <2>1. PICK s \in Srpms : Begins(p, "convert", s, << >>, {})
    BY <1>3 DEF Convert
  <2>2. "convert" \in Kinds /\ << >> \in Seq(Srpms) /\ {} \in SUBSET (Srpms \X Statuses)
    BY DEF Kinds
  <2>3. left' \in [runs : Nat, edits : Nat, faults : Nat] /\ newest' = newest
    BY <1>3 DEF Convert, Tree, Typed, TypeOK
  <2>4. /\ conv' \in [Procs -> Conversions] /\ results' \subseteq results
        /\ \A q \in Procs : HasWhatItNeeds(conv'[q], newest')
    BY <2>1, <2>2, <2>3, BeginsTyped
  <2> QED BY <1>3, <2>3, <2>4 DEF Convert, Tree, Typed, TypeOK
<1>4. ASSUME NEW p \in Procs, Batch(p) PROVE Typed'
  <2>1. Begins(p, "batch", Head(BatchList), Tail(BatchList), {})
    BY <1>4 DEF Batch
  <2>2. /\ "batch" \in Kinds /\ {} \in SUBSET (Srpms \X Statuses)
        /\ Head(BatchList) \in Srpms /\ Tail(BatchList) \in Seq(Srpms)
    BY <1>4, ConversionAssumption DEF Kinds, Batch
  <2>3. left' \in [runs : Nat, edits : Nat, faults : Nat] /\ newest' = newest
    BY <1>4 DEF Batch, Tree, Typed, TypeOK
  <2>4. /\ conv' \in [Procs -> Conversions] /\ results' \subseteq results
        /\ \A q \in Procs : HasWhatItNeeds(conv'[q], newest')
    BY <2>1, <2>2, <2>3, BeginsTyped
  <2> QED BY <1>4, <2>3, <2>4 DEF Batch, Tree, Typed, TypeOK
<1>5. ASSUME NEW p \in Procs, NextSrpm(p) PROVE Typed'
  <2> DEFINE c == conv[p]
  <2>1. Begins(p, "batch", Head(c.todo), Tail(c.todo), c.report)
    BY <1>5 DEF NextSrpm
  <2>2. c \in Conversions
    BY DEF Typed, TypeOK
  <2>3. /\ "batch" \in Kinds /\ c.report \in SUBSET (Srpms \X Statuses)
        /\ Head(c.todo) \in Srpms /\ Tail(c.todo) \in Seq(Srpms) /\ newest' = newest
    BY <1>5, <2>2 DEF Kinds, NextSrpm, Conversions, Tree
  <2>4. /\ conv' \in [Procs -> Conversions] /\ results' \subseteq results
        /\ \A q \in Procs : HasWhatItNeeds(conv'[q], newest')
    BY <2>1, <2>3, BeginsTyped
  <2> QED BY <1>5, <2>4 DEF NextSrpm, Tree, Typed, TypeOK
<1>6. ASSUME NEW p \in Procs,
             \/ Extract(p) \/ ApplyRules(p) \/ Gather(p) \/ Emit(p) \/ Clean(p) \/ Summary(p)
             \/ ExtractFails(p) \/ Fails(p) \/ Killed(p)
      PROVE  Typed'
  <2> DEFINE c == conv[p]
  <2>0. c \in Conversions /\ HasWhatItNeeds(c, newest)
    BY DEF Typed, TypeOK
  <2>1. CASE Extract(p)
    <3> DEFINE d == [c EXCEPT !.pc = "apply"]
    <3>1. d \in Conversions /\ HasWhatItNeeds(d, newest)
      BY <2>0, <2>1 DEF Conversions, PCs, HasWhatItNeeds, Extract, At, Specified
    <3> QED BY <2>1, <3>1, OneMoves DEF Extract, Goes, Tree, Typed, TypeOK
  <2>2. CASE ApplyRules(p)
    <3> DEFINE book == rules[PackageOf[c.srpm]]
    <3>1. c.srpm \in Srpms /\ book \in Books
      BY <2>0, <2>2, ConversionAssumption DEF HasWhatItNeeds, ApplyRules, At, Typed, TypeOK
    <3>5. PICK requires \in Writes(Native[c.srpm], Apply(Names(Native[c.srpm]), book)) :
            conv' = [conv EXCEPT ![p].pc = "gather", ![p].book = book,
                       ![p].spec = SpecOf(c.srpm, requires, OwnFiles[c.srpm] \cup Found(c.kind, book))]
      BY <2>2 DEF ApplyRules
    <3> DEFINE spec == SpecOf(c.srpm, requires, OwnFiles[c.srpm] \cup Found(c.kind, book))
               d == [c EXCEPT !.pc = "gather", !.book = book, !.spec = spec]
    <3> HIDE DEF book
    <3>2. spec \in Specs
      BY <3>1, <3>5, WrittenAsRuled, SpecTyped
    <3> HIDE DEF spec
    <3>3. d \in Conversions /\ HasWhatItNeeds(d, newest)
      BY <2>0, <3>1, <3>2 DEF Conversions, PCs, HasWhatItNeeds, Specified
    <3>4. conv' = [conv EXCEPT ![p] = d]
      BY <3>5 DEF spec, Typed, TypeOK
    <3> QED BY <2>2, <3>3, <3>4, OneMoves DEF ApplyRules, Tree, Typed, TypeOK
  <2>3. CASE Gather(p)
    <3> DEFINE d == [c EXCEPT !.pc = "putSpec"]
    <3>1. d \in Conversions /\ HasWhatItNeeds(d, newest)
      BY <2>0, <2>3 DEF Conversions, PCs, HasWhatItNeeds, Gather, At, Specified
    <3>2. Dir(p) \in Dirs /\ c.srpm \in Srpms
      BY <2>0, <2>3, DirsOfConversions DEF HasWhatItNeeds, Gather, At, Dir, Conversions
    <3>3. Gathered(p) \in [Files -> Contents]
      BY <3>2 DEF Gathered, Contents, Typed, TypeOK, OutputDirs
    <3>4. out' \in [Dirs -> OutputDirs]
      <4>1. [out[Dir(p)] EXCEPT !.files = Gathered(p)] \in OutputDirs
        BY <3>2, <3>3 DEF OutputDirs, Typed, TypeOK
      <4> QED BY <2>3, <4>1 DEF Gather, Typed, TypeOK
    <3> QED BY <2>3, <3>1, <3>4, OneMoves DEF Gather, Goes, Tree, Typed, TypeOK
  <2>4. CASE Emit(p)
    <3>1. CASE PutSpec(p)
      <4> DEFINE d == [c EXCEPT !.pc = "putSources"]
      <4>1. d \in Conversions /\ HasWhatItNeeds(d, newest)
        BY <2>0, <3>1 DEF Conversions, PCs, HasWhatItNeeds, PutSpec, At, Specified
      <4>2. specs' \in [Packages -> Specs \cup {None}]
        BY <2>0, <3>1 DEF PutSpec, HasWhatItNeeds, At, Specified, Typed, TypeOK
      <4> QED BY <3>1, <4>1, <4>2, OneMoves DEF PutSpec, Goes, Typed, TypeOK
    <3>2. CASE PutSources(p)
      <4> DEFINE d == [c EXCEPT !.pc = "rpmbuild"]
      <4>1. d \in Conversions /\ HasWhatItNeeds(d, newest)
        BY <2>0, <3>2 DEF Conversions, PCs, HasWhatItNeeds, PutSources, At, Specified
      <4>2. Dir(p) \in Dirs
        BY <2>0, <3>2, DirsOfConversions DEF HasWhatItNeeds, PutSources, At, Dir, Conversions
      <4>3. sources' \in [Files -> Contents]
        BY <3>2, <4>2 DEF PutSources, Put, Typed, TypeOK, OutputDirs
      <4> QED BY <3>2, <4>1, <4>3, OneMoves DEF PutSources, Goes, Typed, TypeOK
    <3>3. CASE RpmbuildWrites(p)
      <4> DEFINE d == [c EXCEPT !.pc = "packing", !.spec = TheSpec(p)]
      <4>1. TheSpec(p) \in Specs /\ TheSpec(p).srpm \in Srpms
        BY <2>0, <3>3, ConversionAssumption
        DEF RpmbuildWrites, Complete, TheSpec, HasWhatItNeeds, At, Typed, TypeOK, Specs
      <4>2. newest' \in Srpms /\ made' \in [Srpms -> SrpmFiles]
        BY <3>3, <4>1 DEF RpmbuildWrites, SrpmFiles, Typed, TypeOK
      <4> HIDE DEF c
      <4>3. d \in Conversions /\ HasWhatItNeeds(d, newest')
        BY <2>0, <3>3, <4>1, <4>2 DEF Conversions, PCs, HasWhatItNeeds, RpmbuildWrites, At, Specified, c
      <4>4. conv' = [conv EXCEPT ![p] = d]
        BY <3>3 DEF RpmbuildWrites, Typed, TypeOK, c
      <4> QED BY <3>3, <4>2, <4>3, <4>4, OneMoves DEF RpmbuildWrites, Typed, TypeOK
    <3>4. CASE RpmbuildEnds(p)
      <4> DEFINE d == [c EXCEPT !.pc = "pick"]
      <4>1. c.spec \in Specs /\ c.spec.srpm \in Srpms /\ c.spec.files \in SUBSET Files
        BY <2>0, <3>4 DEF RpmbuildEnds, HasWhatItNeeds, At, Specified, Specs
      <4>2. Packed(c.spec) \in SrpmFiles
        <5>1. [f \in c.spec.files |-> sources[f]] \in [c.spec.files -> Contents]
          BY <4>1 DEF Typed, TypeOK
        <5>2. [f \in c.spec.files |-> sources[f]] \in UNION {[F -> Contents] : F \in SUBSET Files}
          BY <4>1, <5>1
        <5> QED BY <4>1, <5>2 DEF Packed, SrpmFiles
      <4>3. newest' \in Srpms /\ made' \in [Srpms -> SrpmFiles]
        BY <3>4, <4>1, <4>2 DEF RpmbuildEnds, Typed, TypeOK
      <4>4. d \in Conversions /\ HasWhatItNeeds(d, newest')
        BY <2>0, <3>4, <4>3 DEF Conversions, PCs, HasWhatItNeeds, RpmbuildEnds, At, Specified
      <4> QED BY <3>4, <4>3, <4>4, OneMoves DEF RpmbuildEnds, Goes, Typed, TypeOK
    <3>5. CASE RpmbuildFails(p)
      <4> DEFINE d == [c EXCEPT !.pc = "clean", !.status = "error"]
      <4>1. d \in Conversions /\ HasWhatItNeeds(d, newest)
        BY <2>0, <3>5 DEF Conversions, PCs, Statuses, HasWhatItNeeds, RpmbuildFails, At, Specified
      <4>2. conv' = [conv EXCEPT ![p] = d]
        BY <3>5 DEF RpmbuildFails, Typed, TypeOK
      <4> QED BY <3>5, <4>1, <4>2, OneMoves DEF RpmbuildFails, Tree, Typed, TypeOK
    <3>6. CASE Pick(p)
      <4> DEFINE d == [c EXCEPT !.pc = "fetch", !.picked = newest]
      <4>1. d \in Conversions /\ HasWhatItNeeds(d, newest)
        BY <2>0, <3>6 DEF Conversions, PCs, HasWhatItNeeds, Pick, At, Specified
      <4>2. conv' = [conv EXCEPT ![p] = d]
        BY <3>6 DEF Pick, Typed, TypeOK
      <4> QED BY <3>6, <4>1, <4>2, OneMoves DEF Pick, Tree, Typed, TypeOK
    <3>7. CASE Fetch(p)
      <4> DEFINE d == [c EXCEPT !.pc = "clean", !.status = "success"]
      <4>1. d \in Conversions /\ HasWhatItNeeds(d, newest)
        BY <2>0, <3>7 DEF Conversions, PCs, Statuses, HasWhatItNeeds, Fetch, At, Specified
      <4>2. conv' = [conv EXCEPT ![p] = d]
        BY <3>7 DEF Fetch, Typed, TypeOK
      <4>3. c.picked \in Srpms /\ c.srpm \in Srpms /\ c.book \in Books /\ c.kind \in Kinds
        BY <2>0, <3>7 DEF HasWhatItNeeds, Fetch, At, Specified, Conversions
      <4>4. made[c.picked] \in SrpmFiles /\ Dir(p) \in Dirs
        BY <4>3, DirsOfConversions DEF Dir, Typed, TypeOK
      <4>5. out' \in [Dirs -> OutputDirs]
        BY <3>7, <4>4, OutTyped DEF Fetch, Typed
      <4>7. results' \subseteq [dir : Dirs, kind : Kinds, srpm : Srpms, book : Books]
        BY <3>7, <4>3, <4>4 DEF Fetch, Typed, TypeOK
      <4> QED BY <3>7, <4>1, <4>2, <4>5, <4>7, OneMoves DEF Fetch, Tree, Typed, TypeOK
    <3> QED BY <2>4, <3>1, <3>2, <3>3, <3>4, <3>5, <3>6, <3>7 DEF Emit
  <2>5. CASE Clean(p)
    <3> DEFINE d == IF c.kind = "convert" THEN Idle
                    ELSE [c EXCEPT !.pc = "next", !.report = @ \cup {<<c.srpm, c.status>>}]
    <3>1. d \in Conversions /\ HasWhatItNeeds(d, newest)
      <4>1. CASE c.kind = "convert"
        BY <4>1, IdleTyped
      <4>2. CASE c.kind # "convert"
        <5> DEFINE report == c.report \cup {<<c.srpm, c.status>>}
        <5>1. c.srpm \in Srpms /\ c.status \in Statuses
          BY <2>0, <2>5 DEF HasWhatItNeeds, Clean, At, Statuses
        <5>2. report \in SUBSET (Srpms \X Statuses)
          BY <2>0, <5>1 DEF Conversions
        <5> HIDE DEF report
        <5>3. [c EXCEPT !.pc = "next", !.report = report] \in Conversions
          BY <2>0, <5>2 DEF Conversions, PCs
        <5> QED BY <2>0, <4>2, <5>1, <5>3 DEF HasWhatItNeeds, Conversions, Specified, report
      <4> QED BY <4>1, <4>2
    <3>2. conv' = [conv EXCEPT ![p] = d]
      BY <2>5 DEF Clean
    <3> QED BY <2>5, <3>1, <3>2, OneMoves DEF Clean, Tree, Typed, TypeOK
  <2>6. CASE Summary(p)
    <3>1. Idle \in Conversions /\ HasWhatItNeeds(Idle, newest)
      BY IdleTyped
    <3> QED BY <2>6, <3>1, OneMoves DEF Summary, Tree, Typed, TypeOK
  <2>7. CASE ExtractFails(p)
    <3> DEFINE d == IF c.kind = "convert" THEN Idle
                    ELSE [c EXCEPT !.pc = "next", !.report = @ \cup {<<c.srpm, "error">>}]
    <3>1. d \in Conversions /\ HasWhatItNeeds(d, newest)
      <4>1. CASE c.kind = "convert"
        BY <4>1, IdleTyped
      <4>2. CASE c.kind # "convert"
        <5> DEFINE report == c.report \cup {<<c.srpm, "error">>}
        <5>1. c.srpm \in Srpms /\ "error" \in Statuses
          BY <2>0, <2>7 DEF HasWhatItNeeds, ExtractFails, At, Statuses
        <5>2. report \in SUBSET (Srpms \X Statuses)
          BY <2>0, <5>1 DEF Conversions
        <5> HIDE DEF report
        <5>3. [c EXCEPT !.pc = "next", !.report = report] \in Conversions
          BY <2>0, <5>2 DEF Conversions, PCs
        <5> QED BY <2>0, <4>2, <5>1, <5>3 DEF HasWhatItNeeds, Conversions, Specified, report
      <4> QED BY <4>1, <4>2
    <3>2. conv' = [conv EXCEPT ![p] = d]
      BY <2>7 DEF ExtractFails
    <3>3. left' \in [runs : Nat, edits : Nat, faults : Nat]
      BY <2>7 DEF ExtractFails, Faulty, Typed, TypeOK
    <3> QED BY <2>7, <3>1, <3>2, <3>3, OneMoves DEF ExtractFails, Tree, Typed, TypeOK
  <2>8. CASE Fails(p)
    <3> DEFINE d == [c EXCEPT !.pc = "clean", !.status = "error"]
    <3>1. d \in Conversions /\ HasWhatItNeeds(d, newest)
      BY <2>0, <2>8 DEF Conversions, PCs, Statuses, HasWhatItNeeds, Fails, HalfWay, At, Specified
    <3>2. conv' = [conv EXCEPT ![p] = d]
      BY <2>8 DEF Fails, Typed, TypeOK
    <3>3. left' \in [runs : Nat, edits : Nat, faults : Nat] /\ results' \subseteq results
      BY <2>8 DEF Fails, Faulty, Withdrawn, Typed, TypeOK
    <3>4. HalfWay(p) /\ UNCHANGED <<rules, temps, blamed>>
      BY <2>8 DEF Fails
    <3> QED BY <3>1, <3>2, <3>3, <3>4, OneMoves, HalfWayTyped DEF Typed, TypeOK
  <2>9. CASE Killed(p)
    <3>1. Idle \in Conversions /\ HasWhatItNeeds(Idle, newest)
      BY IdleTyped
    <3>2. left' \in [runs : Nat, edits : Nat, faults : Nat] /\ results' \subseteq results /\ rules' = rules
      BY <2>9 DEF Killed, Faulty, Withdrawn, Typed, TypeOK
    <3>3. CASE HalfWay(p)
      BY <2>9, <3>1, <3>2, <3>3, OneMoves, HalfWayTyped DEF Killed, Typed, TypeOK
    <3>4. CASE UNCHANGED <<out, Tree>>
      BY <2>9, <3>1, <3>2, <3>4, OneMoves DEF Killed, Tree, Typed, TypeOK
    <3> QED BY <2>9, <3>3, <3>4 DEF Killed
  <2> QED BY <1>6, <2>1, <2>2, <2>3, <2>4, <2>5, <2>6, <2>7, <2>8, <2>9
<1> QED BY <1>1, <1>2, <1>3, <1>4, <1>5, <1>6 DEF Next

-----------------------------------------------------------------------------
(* How the steps of a conversion that is under way change it               *)

(* It ends, or goes on, or a batch has another result.                     *)
Continues(a, b) ==
  \/ b = Idle
  \/ /\ a.pc # "next" /\ b.pc \notin {"idle", "next"}
     /\ b.report = a.report /\ b.alone = a.alone
     /\ b.kind = a.kind /\ b.srpm = a.srpm /\ b.todo = a.todo
  \/ /\ a.pc # "next" /\ a.kind # "convert" /\ b.pc = "next"
     /\ \E status \in Statuses : b.report = a.report \cup {<<a.srpm, status>>}
     /\ b.alone = a.alone /\ b.kind = a.kind /\ b.srpm = a.srpm /\ b.todo = a.todo

UnderWay(p) ==
  \/ Extract(p) \/ ApplyRules(p) \/ Gather(p) \/ Emit(p) \/ Clean(p) \/ Summary(p)
  \/ ExtractFails(p) \/ Fails(p) \/ Killed(p)

LEMMA MovesOn ==
  ASSUME Typed, NEW p \in Procs, UnderWay(p)
  PROVE  /\ conv[p].pc # "idle" /\ conv' = [conv EXCEPT ![p] = conv'[p]]
         /\ Continues(conv[p], conv'[p])
<1> DEFINE c == conv[p]
<1>0. c \in Conversions /\ HasWhatItNeeds(c, newest) /\ conv \in [Procs -> Conversions]
  BY DEF Typed, TypeOK
<1>a. ASSUME NEW pc \in PCs \ {"idle", "next"}, c.pc \notin {"idle", "next"},
             \E d \in Conversions :
               /\ conv' = [conv EXCEPT ![p] = d] /\ d.pc = pc
               /\ d.report = c.report /\ d.alone = c.alone
               /\ d.kind = c.kind /\ d.srpm = c.srpm /\ d.todo = c.todo
      PROVE  /\ c.pc # "idle" /\ conv' = [conv EXCEPT ![p] = conv'[p]]
             /\ Continues(c, conv'[p])
  <2> PICK d \in Conversions :
               /\ conv' = [conv EXCEPT ![p] = d] /\ d.pc = pc
               /\ d.report = c.report /\ d.alone = c.alone
               /\ d.kind = c.kind /\ d.srpm = c.srpm /\ d.todo = c.todo
    BY <1>a
  <2>1. conv'[p] = d
    BY <1>0
  <2> QED BY <1>a, <2>1 DEF Continues
<1>b. ASSUME c.pc # "idle", conv' = [conv EXCEPT ![p] = Idle]
      PROVE  /\ c.pc # "idle" /\ conv' = [conv EXCEPT ![p] = conv'[p]]
             /\ Continues(c, conv'[p])
  BY <1>0, <1>b DEF Continues
<1>c. ASSUME NEW status \in Statuses, c.pc \notin {"idle", "next"}, c.kind # "convert",
             conv' = [conv EXCEPT ![p] = [c EXCEPT !.pc = "next", !.report = @ \cup {<<c.srpm, status>>}]]
      PROVE  /\ c.pc # "idle" /\ conv' = [conv EXCEPT ![p] = conv'[p]]
             /\ Continues(c, conv'[p])
  <2> DEFINE d == [c EXCEPT !.pc = "next", !.report = @ \cup {<<c.srpm, status>>}]
  <2>1. /\ d.pc = "next" /\ d.report = c.report \cup {<<c.srpm, status>>} /\ d.alone = c.alone
        /\ d.kind = c.kind /\ d.srpm = c.srpm /\ d.todo = c.todo
    BY <1>0 DEF Conversions
  <2>2. conv'[p] = d
    BY <1>0, <1>c
  <2> HIDE DEF d
  <2> QED BY <1>c, <2>1, <2>2 DEF Continues, d
<1>d. conv' \in [Procs -> Conversions]
  <2>1. Typed'
    BY TypedStep DEF Next, UnderWay
  <2> QED BY <2>1 DEF Typed, TypeOK
<1>1. CASE Extract(p)
  <2> DEFINE d == [c EXCEPT !.pc = "apply"]
  <2>1. conv' = [conv EXCEPT ![p] = d] /\ c.pc \notin {"idle", "next"}
    BY <1>0, <1>1 DEF Extract, Goes, At
  <2>2. d \in Conversions
    BY <1>0, <1>d, <2>1
  <2>3. /\ d.pc = "apply" /\ d.report = c.report /\ d.alone = c.alone
        /\ d.kind = c.kind /\ d.srpm = c.srpm /\ d.todo = c.todo
    BY <1>0 DEF Conversions
  <2>4. "apply" \in PCs \ {"idle", "next"}
    BY DEF PCs
  <2> HIDE DEF d
  <2> QED BY <1>a, <2>1, <2>2, <2>3, <2>4
<1>2. CASE ApplyRules(p)
  <2>5. PICK requires : conv' = [conv EXCEPT
            ![p].pc = "gather", ![p].book = rules[PackageOf[c.srpm]],
            ![p].spec = SpecOf(c.srpm, requires, OwnFiles[c.srpm] \cup Found(c.kind, rules[PackageOf[c.srpm]]))]
    BY <1>2 DEF ApplyRules
  <2> DEFINE spec == SpecOf(c.srpm, requires, OwnFiles[c.srpm] \cup Found(c.kind, rules[PackageOf[c.srpm]]))
             d == [c EXCEPT !.pc = "gather", !.book = rules[PackageOf[c.srpm]], !.spec = spec]
  <2> HIDE DEF spec
  <2>1. conv' = [conv EXCEPT ![p] = d] /\ c.pc \notin {"idle", "next"}
    BY <1>0, <1>2, <2>5 DEF ApplyRules, At, spec
  <2>2. d \in Conversions
    BY <1>0, <1>d, <2>1
  <2>3. /\ d.pc = "gather" /\ d.report = c.report /\ d.alone = c.alone
        /\ d.kind = c.kind /\ d.srpm = c.srpm /\ d.todo = c.todo
    BY <1>0 DEF Conversions
  <2>4. "gather" \in PCs \ {"idle", "next"}
    BY DEF PCs
  <2> HIDE DEF d
  <2> QED BY <1>a, <2>1, <2>2, <2>3, <2>4
<1>3. CASE Gather(p)
  <2> DEFINE d == [c EXCEPT !.pc = "putSpec"]
  <2>1. conv' = [conv EXCEPT ![p] = d] /\ c.pc \notin {"idle", "next"}
    BY <1>0, <1>3 DEF Gather, Goes, At
  <2>2. d \in Conversions
    BY <1>0, <1>d, <2>1
  <2>3. /\ d.pc = "putSpec" /\ d.report = c.report /\ d.alone = c.alone
        /\ d.kind = c.kind /\ d.srpm = c.srpm /\ d.todo = c.todo
    BY <1>0 DEF Conversions
  <2>4. "putSpec" \in PCs \ {"idle", "next"}
    BY DEF PCs
  <2> HIDE DEF d
  <2> QED BY <1>a, <2>1, <2>2, <2>3, <2>4
<1>4. CASE PutSpec(p)
  <2> DEFINE d == [c EXCEPT !.pc = "putSources"]
  <2>1. conv' = [conv EXCEPT ![p] = d] /\ c.pc \notin {"idle", "next"}
    BY <1>0, <1>4 DEF PutSpec, Goes, At
  <2>2. d \in Conversions
    BY <1>0, <1>d, <2>1
  <2>3. /\ d.pc = "putSources" /\ d.report = c.report /\ d.alone = c.alone
        /\ d.kind = c.kind /\ d.srpm = c.srpm /\ d.todo = c.todo
    BY <1>0 DEF Conversions
  <2>4. "putSources" \in PCs \ {"idle", "next"}
    BY DEF PCs
  <2> HIDE DEF d
  <2> QED BY <1>a, <2>1, <2>2, <2>3, <2>4
<1>5. CASE PutSources(p)
  <2> DEFINE d == [c EXCEPT !.pc = "rpmbuild"]
  <2>1. conv' = [conv EXCEPT ![p] = d] /\ c.pc \notin {"idle", "next"}
    BY <1>0, <1>5 DEF PutSources, Goes, At
  <2>2. d \in Conversions
    BY <1>0, <1>d, <2>1
  <2>3. /\ d.pc = "rpmbuild" /\ d.report = c.report /\ d.alone = c.alone
        /\ d.kind = c.kind /\ d.srpm = c.srpm /\ d.todo = c.todo
    BY <1>0 DEF Conversions
  <2>4. "rpmbuild" \in PCs \ {"idle", "next"}
    BY DEF PCs
  <2> HIDE DEF d
  <2> QED BY <1>a, <2>1, <2>2, <2>3, <2>4
<1>6. CASE RpmbuildWrites(p)
  <2> DEFINE d == [c EXCEPT !.pc = "packing", !.spec = TheSpec(p)]
  <2>1. conv' = [conv EXCEPT ![p] = d] /\ c.pc \notin {"idle", "next"}
    BY <1>0, <1>6 DEF RpmbuildWrites, At
  <2>2. d \in Conversions
    BY <1>0, <1>d, <2>1
  <2>3. /\ d.pc = "packing" /\ d.report = c.report /\ d.alone = c.alone
        /\ d.kind = c.kind /\ d.srpm = c.srpm /\ d.todo = c.todo
    BY <1>0 DEF Conversions
  <2>4. "packing" \in PCs \ {"idle", "next"}
    BY DEF PCs
  <2> HIDE DEF d
  <2> QED BY <1>a, <2>1, <2>2, <2>3, <2>4
<1>7. CASE RpmbuildEnds(p)
  <2> DEFINE d == [c EXCEPT !.pc = "pick"]
  <2>1. conv' = [conv EXCEPT ![p] = d] /\ c.pc \notin {"idle", "next"}
    BY <1>0, <1>7 DEF RpmbuildEnds, Goes, At
  <2>2. d \in Conversions
    BY <1>0, <1>d, <2>1
  <2>3. /\ d.pc = "pick" /\ d.report = c.report /\ d.alone = c.alone
        /\ d.kind = c.kind /\ d.srpm = c.srpm /\ d.todo = c.todo
    BY <1>0 DEF Conversions
  <2>4. "pick" \in PCs \ {"idle", "next"}
    BY DEF PCs
  <2> HIDE DEF d
  <2> QED BY <1>a, <2>1, <2>2, <2>3, <2>4
<1>8. CASE RpmbuildFails(p)
  <2> DEFINE d == [c EXCEPT !.pc = "clean", !.status = "error"]
  <2>1. conv' = [conv EXCEPT ![p] = d] /\ c.pc \notin {"idle", "next"}
    BY <1>0, <1>8 DEF RpmbuildFails, At
  <2>2. d \in Conversions
    BY <1>0, <1>d, <2>1
  <2>3. /\ d.pc = "clean" /\ d.report = c.report /\ d.alone = c.alone
        /\ d.kind = c.kind /\ d.srpm = c.srpm /\ d.todo = c.todo
    BY <1>0 DEF Conversions
  <2>4. "clean" \in PCs \ {"idle", "next"}
    BY DEF PCs
  <2> HIDE DEF d
  <2> QED BY <1>a, <2>1, <2>2, <2>3, <2>4
<1>9. CASE Pick(p)
  <2> DEFINE d == [c EXCEPT !.pc = "fetch", !.picked = newest]
  <2>1. conv' = [conv EXCEPT ![p] = d] /\ c.pc \notin {"idle", "next"}
    BY <1>0, <1>9 DEF Pick, At
  <2>2. d \in Conversions
    BY <1>0, <1>d, <2>1
  <2>3. /\ d.pc = "fetch" /\ d.report = c.report /\ d.alone = c.alone
        /\ d.kind = c.kind /\ d.srpm = c.srpm /\ d.todo = c.todo
    BY <1>0 DEF Conversions
  <2>4. "fetch" \in PCs \ {"idle", "next"}
    BY DEF PCs
  <2> HIDE DEF d
  <2> QED BY <1>a, <2>1, <2>2, <2>3, <2>4
<1>10. CASE Fetch(p)
  <2> DEFINE d == [c EXCEPT !.pc = "clean", !.status = "success"]
  <2>1. conv' = [conv EXCEPT ![p] = d] /\ c.pc \notin {"idle", "next"}
    BY <1>0, <1>10 DEF Fetch, At
  <2>2. d \in Conversions
    BY <1>0, <1>d, <2>1
  <2>3. /\ d.pc = "clean" /\ d.report = c.report /\ d.alone = c.alone
        /\ d.kind = c.kind /\ d.srpm = c.srpm /\ d.todo = c.todo
    BY <1>0 DEF Conversions
  <2>4. "clean" \in PCs \ {"idle", "next"}
    BY DEF PCs
  <2> HIDE DEF d
  <2> QED BY <1>a, <2>1, <2>2, <2>3, <2>4
<1>11. CASE Fails(p)
  <2> DEFINE d == [c EXCEPT !.pc = "clean", !.status = "error"]
  <2>1. conv' = [conv EXCEPT ![p] = d] /\ c.pc \notin {"idle", "next"}
    BY <1>0, <1>11 DEF Fails, HalfWay, At
  <2>2. d \in Conversions
    BY <1>0, <1>d, <2>1
  <2>3. /\ d.pc = "clean" /\ d.report = c.report /\ d.alone = c.alone
        /\ d.kind = c.kind /\ d.srpm = c.srpm /\ d.todo = c.todo
    BY <1>0 DEF Conversions
  <2>4. "clean" \in PCs \ {"idle", "next"}
    BY DEF PCs
  <2> HIDE DEF d
  <2> QED BY <1>a, <2>1, <2>2, <2>3, <2>4
<1>12. CASE Clean(p)
  <2>1. c.pc = "clean" /\ c.status \in Statuses
    BY <1>0, <1>12 DEF Clean, At, HasWhatItNeeds
  <2> QED BY <1>12, <1>b, <1>c, <2>1 DEF Clean
<1>13. CASE Summary(p)
  BY <1>13, <1>b DEF Summary, At
<1>14. CASE ExtractFails(p)
  <2>1. c.pc = "extract" /\ "error" \in Statuses
    BY <1>14 DEF ExtractFails, At, Statuses
  <2> QED BY <1>14, <1>b, <1>c, <2>1 DEF ExtractFails
<1>15. CASE Killed(p)
  BY <1>15, <1>b DEF Killed, At
<1> QED BY <1>1, <1>2, <1>3, <1>4, <1>5, <1>6, <1>7, <1>8, <1>9, <1>10, <1>11, <1>12, <1>13, <1>14, <1>15
        DEF UnderWay, Emit

(* The steps that start a conversion.                                      *)
Starts(p) == \E kind \in Kinds, s \in Srpms, todo \in Seq(Srpms), report \in SUBSET (Srpms \X Statuses) :
  /\ Begins(p, kind, s, todo, report)
  /\ \/ At(p, "idle") /\ report = {} /\ kind = "convert"
     \/ At(p, "idle") /\ report = {} /\ kind = "batch" /\ ToSet(BatchList) = {s} \cup ToSet(todo)
     \/ At(p, "next") /\ kind = "batch" /\ report = conv[p].report /\ ToSet(conv[p].todo) = {s} \cup ToSet(todo)

LEMMA HeadAndTail ==
  ASSUME NEW S, NEW seq \in Seq(S), seq # << >>
  PROVE  ToSet(seq) = {Head(seq)} \cup ToSet(Tail(seq))
<1>1. Len(seq) \in Nat \ {0} /\ DOMAIN seq = 1..Len(seq) /\ Head(seq) = seq[1]
  OBVIOUS
<1>2. DOMAIN Tail(seq) = 1..(Len(seq) - 1) /\ \A i \in 1..(Len(seq) - 1) : Tail(seq)[i] = seq[i + 1]
  OBVIOUS
<1>3. ASSUME NEW i \in 1..Len(seq), i # 1
      PROVE  \E j \in 1..(Len(seq) - 1) : Tail(seq)[j] = seq[i]
  <2>1. i - 1 \in 1..(Len(seq) - 1) /\ (i - 1) + 1 = i
    BY <1>1, <1>3
  <2> QED BY <1>2, <2>1
<1>4. \A i \in 1..(Len(seq) - 1) : i + 1 \in 1..Len(seq)
  BY <1>1
<1>5. 1 \in 1..Len(seq)
  BY <1>1
<1>6. ASSUME NEW i \in 1..Len(seq) PROVE seq[i] \in {Head(seq)} \cup ToSet(Tail(seq))
  BY <1>1, <1>2, <1>3 DEF ToSet
<1>7. ASSUME NEW i \in 1..(Len(seq) - 1) PROVE Tail(seq)[i] \in ToSet(seq)
  BY <1>1, <1>2, <1>4 DEF ToSet
<1>8. Head(seq) \in ToSet(seq)
  BY <1>1, <1>5 DEF ToSet
<1>9. ToSet(seq) = {seq[i] : i \in 1..Len(seq)}
  BY <1>1 DEF ToSet
<1>10. ToSet(Tail(seq)) = {Tail(seq)[i] : i \in 1..(Len(seq) - 1)}
  BY <1>2 DEF ToSet
<1> QED BY <1>6, <1>7, <1>8, <1>9, <1>10

LEMMA FirstOfPairs ==
  ASSUME NEW R, NEW s, NEW status
  PROVE  {r[1] : r \in R \cup {<<s, status>>}} = {r[1] : r \in R} \cup {s}
<1>1. <<s, status>>[1] = s
  OBVIOUS
<1> DEFINE pair == <<s, status>>
<1> HIDE DEF pair
<1>2. {r[1] : r \in R \cup {pair}} = {r[1] : r \in R} \cup {pair[1]}
  OBVIOUS
<1> QED BY <1>1, <1>2 DEF pair

LEMMA StepsAre ==
  ASSUME Typed, [Next]_vars
  PROVE  \/ UNCHANGED <<out, Tree, conv, temps, blamed, results>>
         \/ \E p \in Procs : Starts(p) /\ UNCHANGED <<rules, out, Tree, temps, blamed>>
         \/ \E p \in Procs : UnderWay(p)
<1>1. CASE UNCHANGED vars \/ EditRules
  BY <1>1 DEF vars, Tree, EditRules
<1>2. ASSUME NEW p \in Procs, Convert(p)
      PROVE  Starts(p) /\ UNCHANGED <<rules, out, Tree, temps, blamed>>
  <2>1. PICK s \in Srpms : Begins(p, "convert", s, << >>, {})
    BY <1>2 DEF Convert
  <2>2. "convert" \in Kinds /\ << >> \in Seq(Srpms) /\ {} \in SUBSET (Srpms \X Statuses)
    BY DEF Kinds
  <2> QED BY <1>2, <2>1, <2>2 DEF Convert, Starts
<1>3. ASSUME NEW p \in Procs, Batch(p)
      PROVE  Starts(p) /\ UNCHANGED <<rules, out, Tree, temps, blamed>>
  <2>1. Begins(p, "batch", Head(BatchList), Tail(BatchList), {})
    BY <1>3 DEF Batch
  <2>2. /\ "batch" \in Kinds /\ {} \in SUBSET (Srpms \X Statuses)
        /\ Head(BatchList) \in Srpms /\ Tail(BatchList) \in Seq(Srpms)
    BY <1>3, ConversionAssumption DEF Kinds, Batch
  <2>3. ToSet(BatchList) = {Head(BatchList)} \cup ToSet(Tail(BatchList))
    BY <1>3, HeadAndTail, ConversionAssumption DEF Batch
  <2> QED BY <1>3, <2>1, <2>2, <2>3 DEF Batch, Starts
<1>4. ASSUME NEW p \in Procs, NextSrpm(p)
      PROVE  Starts(p) /\ UNCHANGED <<rules, out, Tree, temps, blamed>>
  <2> DEFINE c == conv[p]
  <2>1. Begins(p, "batch", Head(c.todo), Tail(c.todo), c.report)
    BY <1>4 DEF NextSrpm
  <2>2. c.todo \in Seq(Srpms) /\ c.report \in SUBSET (Srpms \X Statuses) /\ c.todo # << >>
    BY <1>4 DEF Typed, TypeOK, Conversions, NextSrpm
  <2>3. "batch" \in Kinds /\ Head(c.todo) \in Srpms /\ Tail(c.todo) \in Seq(Srpms)
    BY <2>2 DEF Kinds
  <2>4. ToSet(c.todo) = {Head(c.todo)} \cup ToSet(Tail(c.todo))
    BY <2>2, HeadAndTail
  <2> QED BY <1>4, <2>1, <2>2, <2>3, <2>4 DEF NextSrpm, Starts
<1> QED BY <1>1, <1>2, <1>3, <1>4 DEF Next, UnderWay

-----------------------------------------------------------------------------
(* Who is alone                                                            *)

LEMMA AloneStep == Typed /\ Alone /\ [Next]_vars => Alone'
<1> SUFFICES ASSUME Typed, Alone, [Next]_vars PROVE Alone'
  OBVIOUS
<1>0. conv \in [Procs -> Conversions]
  BY DEF Typed, TypeOK
<1>1. CASE UNCHANGED <<out, Tree, conv, temps, blamed, results>>
  BY <1>1 DEF Alone, At
<1>2. ASSUME NEW p \in Procs, Starts(p) PROVE Alone'
  <2>1. PICK kind \in Kinds, s \in Srpms, todo \in Seq(Srpms), report \in SUBSET (Srpms \X Statuses) :
          Begins(p, kind, s, todo, report)
    BY <1>2 DEF Starts
  <2> DEFINE others == {q \in Procs \ {p} : ~At(q, "idle")}
  <2>2. /\ conv'[p].alone = (others = {}) /\ conv'[p].pc = "extract"
        /\ \A q \in Procs \ {p} : conv'[q].alone = FALSE /\ conv'[q].pc = conv[q].pc
    BY <1>0, <2>1 DEF Begins, Idle, Conversions
  <2> QED BY <2>2 DEF Alone, At
<1>3. ASSUME NEW p \in Procs, UnderWay(p) PROVE Alone'
  <2>1. /\ conv[p].pc # "idle" /\ conv' = [conv EXCEPT ![p] = conv'[p]]
        /\ Continues(conv[p], conv'[p])
    BY <1>3, MovesOn
  <2>2. \A q \in Procs \ {p} : conv'[q] = conv[q] /\ ~conv[q].alone
    BY <1>0, <2>1 DEF Alone, At
  <2>3. conv'[p].alone => conv[p].alone /\ conv'[p].pc # "idle"
    <3>1. Idle.alone = FALSE
      BY DEF Idle
    <3>2. CASE conv'[p] = Idle
      BY <3>1, <3>2
    <3>3. CASE conv'[p] # Idle
      BY <2>1, <3>3, Zenon DEF Continues
    <3> QED BY <3>2, <3>3
  <2> QED BY <2>1, <2>2, <2>3 DEF Alone, At
<1> QED BY <1>1, <1>2, <1>3, StepsAre

-----------------------------------------------------------------------------
(* What a batch accounts for                                               *)

LEMMA AccountedStep ==
  Typed /\ (\A p \in Procs : Accounted(conv[p])) /\ [Next]_vars => \A p \in Procs : Accounted(conv'[p])
<1> SUFFICES ASSUME Typed, \A p \in Procs : Accounted(conv[p]), [Next]_vars, NEW q \in Procs
             PROVE  Accounted(conv'[q])
  OBVIOUS
<1>0. conv \in [Procs -> Conversions]
  BY DEF Typed, TypeOK
<1>1. CASE UNCHANGED <<out, Tree, conv, temps, blamed, results>>
  BY <1>1
<1>2. ASSUME NEW p \in Procs, Starts(p) PROVE Accounted(conv'[q])
  <2>1. PICK kind \in Kinds, s \in Srpms, todo \in Seq(Srpms), report \in SUBSET (Srpms \X Statuses) :
          /\ Begins(p, kind, s, todo, report)
          /\ \/ At(p, "idle") /\ report = {} /\ kind = "convert"
             \/ At(p, "idle") /\ report = {} /\ kind = "batch" /\ ToSet(BatchList) = {s} \cup ToSet(todo)
             \/ At(p, "next") /\ kind = "batch" /\ report = conv[p].report
                /\ ToSet(conv[p].todo) = {s} \cup ToSet(todo)
    BY <1>2 DEF Starts
  <2>2. CASE q # p
    <3>1. /\ conv'[q].pc = conv[q].pc /\ conv'[q].kind = conv[q].kind /\ conv'[q].report = conv[q].report
          /\ conv'[q].todo = conv[q].todo /\ conv'[q].srpm = conv[q].srpm
      BY <1>0, <2>1, <2>2 DEF Begins, Conversions
    <3> QED BY <3>1 DEF Accounted
  <2>3. CASE q = p
    <3>1. /\ conv'[p].pc = "extract" /\ conv'[p].kind = kind /\ conv'[p].report = report
          /\ conv'[p].todo = todo /\ conv'[p].srpm = s
      BY <2>1 DEF Begins, Idle
    <3>2. Accounted(conv[p])
      OBVIOUS
    <3> QED BY <2>1, <2>3, <3>1, <3>2 DEF Accounted, At
  <2> QED BY <2>2, <2>3
<1>3. ASSUME NEW p \in Procs, UnderWay(p) PROVE Accounted(conv'[q])
  <2>1. /\ conv[p].pc # "idle" /\ conv' = [conv EXCEPT ![p] = conv'[p]]
        /\ Continues(conv[p], conv'[p])
    BY <1>3, MovesOn
  <2>2. CASE q # p
    BY <1>0, <2>1, <2>2
  <2>3. CASE q = p
    <3>1. Accounted(conv[p]) /\ conv[p].kind \in Kinds
      BY <1>0 DEF Conversions
    <3>3. CASE conv'[p] = Idle
      BY <2>3, <3>3 DEF Accounted, Idle
    <3>4. CASE conv'[p] # Idle /\ conv'[p].pc # "next"
      BY <2>1, <2>3, <3>1, <3>4 DEF Continues, Accounted, Kinds
    <3>5. CASE conv'[p] # Idle /\ conv'[p].pc = "next"
      <4>1. PICK status : conv'[p].report = conv[p].report \cup {<<conv[p].srpm, status>>}
        BY <2>1, <3>5 DEF Continues
      <4>2. {r[1] : r \in conv'[p].report} = {r[1] : r \in conv[p].report} \cup {conv[p].srpm}
        <5>1. {r[1] : r \in conv[p].report \cup {<<conv[p].srpm, status>>}}
                = {r[1] : r \in conv[p].report} \cup {conv[p].srpm}
          BY FirstOfPairs, Zenon
        <5> QED BY <4>1, <5>1, Zenon
      <4> QED BY <2>1, <2>3, <3>1, <3>5, <4>2 DEF Continues, Accounted, Kinds
    <3> QED BY <3>3, <3>4, <3>5
  <2> QED BY <2>2, <2>3
<1> QED BY <1>1, <1>2, <1>3, StepsAre

-----------------------------------------------------------------------------
(* The temporary directories                                               *)

LEMMA BusyAre == Busy = {p \in Procs : conv[p].pc \notin {"idle", "extract", "next"}}
BY DEF Busy, Holding

LEMMA BusyMoves ==
  ASSUME conv \in [Procs -> Conversions], NEW p \in Procs, conv' = [conv EXCEPT ![p] = conv'[p]],
         IsFiniteSet(Busy)
  PROVE  LET held == conv[p].pc \notin {"idle", "extract", "next"}
             holds == conv'[p].pc \notin {"idle", "extract", "next"}
         IN /\ IsFiniteSet(Busy') /\ Cardinality(Busy) \in Nat /\ Cardinality(Busy') \in Nat
            /\ (held <=> holds) => Busy' = Busy
            /\ held /\ ~holds => Cardinality(Busy') = Cardinality(Busy) - 1
            /\ ~held /\ holds => Cardinality(Busy') = Cardinality(Busy) + 1
<1> DEFINE held == conv[p].pc \notin {"idle", "extract", "next"}
           holds == conv'[p].pc \notin {"idle", "extract", "next"}
<1>1. Busy' = {q \in Procs : conv'[q].pc \notin {"idle", "extract", "next"}}
  BY DEF Busy, Holding
<1>2. \A q \in Procs \ {p} : conv'[q] = conv[q]
  OBVIOUS
<1>3. /\ (held <=> holds) => Busy' = Busy
      /\ held /\ ~holds => p \in Busy /\ Busy' = Busy \ {p}
      /\ ~held /\ holds => p \notin Busy /\ Busy' = Busy \cup {p}
  BY <1>1, <1>2, BusyAre
<1> HIDE DEF held, holds
<1>4. IsFiniteSet(Busy \ {p}) /\ IsFiniteSet(Busy \cup {p})
  BY FS_RemoveElement, FS_AddElement
<1>5. /\ p \in Busy => Cardinality(Busy \ {p}) = Cardinality(Busy) - 1
      /\ p \notin Busy => Cardinality(Busy \cup {p}) = Cardinality(Busy) + 1
  BY FS_RemoveElement, FS_AddElement
<1>6. IsFiniteSet(Busy')
  BY <1>3, <1>4
<1>7. Cardinality(Busy) \in Nat /\ Cardinality(Busy') \in Nat
  BY <1>6, FS_CardinalityType
<1> QED BY <1>3, <1>5, <1>6, <1>7 DEF held, holds

LEMMA CountsStep == Typed /\ CountsTemporaries /\ [Next]_vars => CountsTemporaries'
<1> SUFFICES ASSUME Typed, CountsTemporaries, [Next]_vars PROVE CountsTemporaries'
  OBVIOUS
<1>0. conv \in [Procs -> Conversions] /\ IsFiniteSet(Busy) /\ temps \in Nat /\ blamed \in Nat
      /\ temps = blamed + Cardinality(Busy)
  BY DEF Typed, TypeOK, CountsTemporaries
<1>1. CASE UNCHANGED <<out, Tree, conv, temps, blamed, results>>
  BY <1>0, <1>1 DEF CountsTemporaries, Busy, Holding, At
<1>2. ASSUME NEW p \in Procs, Starts(p), UNCHANGED <<rules, out, Tree, temps, blamed>>
      PROVE  CountsTemporaries'
  <2>1. PICK kind \in Kinds, s \in Srpms, todo \in Seq(Srpms), report \in SUBSET (Srpms \X Statuses) :
          /\ Begins(p, kind, s, todo, report)
          /\ conv[p].pc \in {"idle", "next"}
    BY <1>2 DEF Starts, At
  <2>2. /\ conv'[p].pc = "extract"
        /\ \A q \in Procs \ {p} : conv'[q].pc = conv[q].pc
    BY <1>0, <2>1 DEF Begins, Idle, Conversions
  <2>3. Busy' = {q \in Procs : conv'[q].pc \notin {"idle", "extract", "next"}}
    BY DEF Busy, Holding
  <2>4. Busy' = Busy
    BY <2>1, <2>2, <2>3, BusyAre
  <2> QED BY <1>0, <1>2, <2>4 DEF CountsTemporaries
<1>3. ASSUME NEW p \in Procs, UnderWay(p) PROVE CountsTemporaries'
  <2> DEFINE held == conv[p].pc \notin {"idle", "extract", "next"}
             holds == conv'[p].pc \notin {"idle", "extract", "next"}
  <2>1. /\ conv[p].pc # "idle" /\ conv' = [conv EXCEPT ![p] = conv'[p]]
        /\ Continues(conv[p], conv'[p])
    BY <1>3, MovesOn
  <2>2. /\ IsFiniteSet(Busy') /\ Cardinality(Busy) \in Nat /\ Cardinality(Busy') \in Nat
        /\ (held <=> holds) => Busy' = Busy
        /\ held /\ ~holds => Cardinality(Busy') = Cardinality(Busy) - 1
        /\ ~held /\ holds => Cardinality(Busy') = Cardinality(Busy) + 1
    BY <1>0, <2>1, BusyMoves
  <2>3. CASE Extract(p)
    <3>1. ~held /\ holds /\ temps' = temps + 1 /\ blamed' = blamed
      BY <1>0, <2>3 DEF Extract, Goes, At
    <3> QED BY <1>0, <2>2, <3>1 DEF CountsTemporaries
  <2>4. CASE ApplyRules(p) \/ Gather(p) \/ Emit(p) \/ Fails(p)
    <3>1. held /\ temps' = temps /\ blamed' = blamed
      BY <2>4 DEF ApplyRules, Gather, Emit, PutSpec, PutSources, RpmbuildWrites, RpmbuildEnds,
                  RpmbuildFails, Pick, Fetch, Fails, HalfWay, At
    <3>2. CASE ApplyRules(p) \/ Gather(p) \/ PutSpec(p) \/ PutSources(p)
      <4>1. conv'[p].pc \in {"gather", "putSpec", "putSources", "rpmbuild"}
        BY <1>0, <3>2 DEF ApplyRules, Gather, PutSpec, PutSources, Goes, Conversions
      <4> QED BY <1>0, <2>2, <3>1, <4>1 DEF CountsTemporaries
    <3>3. CASE RpmbuildWrites(p) \/ RpmbuildEnds(p) \/ RpmbuildFails(p) \/ Pick(p)
      <4>1. conv'[p].pc \in {"packing", "pick", "clean", "fetch"}
        BY <1>0, <3>3 DEF RpmbuildWrites, RpmbuildEnds, RpmbuildFails, Pick, Goes, Conversions
      <4> QED BY <1>0, <2>2, <3>1, <4>1 DEF CountsTemporaries
    <3>4. CASE Fetch(p) \/ Fails(p)
      <4>1. conv'[p].pc = "clean"
        BY <1>0, <3>4 DEF Fetch, Fails, Conversions
      <4> QED BY <1>0, <2>2, <3>1, <4>1 DEF CountsTemporaries
    <3> QED BY <2>4, <3>2, <3>3, <3>4 DEF Emit
  <2>5. CASE Clean(p)
    <3>1. held /\ ~holds /\ temps' = temps - 1 /\ blamed' = blamed
      BY <1>0, <2>5 DEF Clean, At, Idle, Conversions
    <3> QED BY <1>0, <2>2, <3>1 DEF CountsTemporaries
  <2>6. CASE Summary(p)
    <3>1. ~held /\ ~holds /\ temps' = temps /\ blamed' = blamed
      BY <1>0, <2>6 DEF Summary, At, Idle
    <3> QED BY <1>0, <2>2, <3>1 DEF CountsTemporaries
  <2>7. CASE ExtractFails(p)
    <3>1. ~held /\ ~holds /\ temps' \in {temps, temps + 1} /\ blamed' = blamed + temps' - temps
      BY <1>0, <2>7 DEF ExtractFails, At, Idle, Conversions
    <3>2. blamed' \in Nat /\ temps' \in Nat /\ temps' = blamed' + Cardinality(Busy)
      <4> DEFINE n == Cardinality(Busy)
      <4>1. n \in Nat BY <2>2
      <4>2. temps \in Nat /\ blamed \in Nat /\ temps = blamed + n BY <1>0
      <4> HIDE DEF n
      <4>3. PICK d \in 0..1 : temps' = temps + d
        BY <4>2, <3>1
      <4>4. blamed' = blamed + d
        BY <4>2, <4>3, <3>1
      <4>5. temps' \in Nat /\ blamed' \in Nat /\ temps' = blamed' + n
        BY <4>1, <4>2, <4>3, <4>4
      <4> QED BY <4>5 DEF n
    <3> QED BY <2>2, <3>1, <3>2 DEF CountsTemporaries
  <2>8. CASE Killed(p)
    <3>1. ~holds
      BY <1>0, <2>8 DEF Killed, Idle
    <3>2. CASE At(p, "extract")
      <4>1. ~held /\ temps' \in {temps, temps + 1} /\ blamed' = blamed + temps' - temps
        BY <2>8, <3>2 DEF Killed, At
      <4>2. blamed' \in Nat /\ temps' \in Nat /\ temps' = blamed' + Cardinality(Busy)
        <5> DEFINE n == Cardinality(Busy)
        <5>1. n \in Nat BY <2>2
        <5>2. temps \in Nat /\ blamed \in Nat /\ temps = blamed + n BY <1>0
        <5> HIDE DEF n
        <5>3. PICK d \in 0..1 : temps' = temps + d
          BY <5>2, <4>1
        <5>4. blamed' = blamed + d
          BY <5>2, <5>3, <4>1
        <5>5. temps' \in Nat /\ blamed' \in Nat /\ temps' = blamed' + n
          BY <5>1, <5>2, <5>3, <5>4
        <5> QED BY <5>5 DEF n
      <4> QED BY <2>2, <3>1, <4>1, <4>2 DEF CountsTemporaries
    <3>3. CASE ~At(p, "extract") /\ held
      <4>1. Cardinality(Holding(p)) = 1
        BY <3>3, FS_Singleton DEF Holding
      <4>2. temps' = temps /\ blamed' = blamed + 1
        BY <2>8, <3>3, <4>1 DEF Killed
      <4> QED BY <1>0, <2>2, <3>1, <3>3, <4>2 DEF CountsTemporaries
    <3>4. CASE ~At(p, "extract") /\ ~held
      <4>1. Cardinality(Holding(p)) = 0
        BY <3>4, FS_EmptySet DEF Holding
      <4>2. temps' = temps /\ blamed' = blamed
        BY <1>0, <2>8, <3>4, <4>1 DEF Killed
      <4> QED BY <1>0, <2>2, <3>1, <3>4, <4>2 DEF CountsTemporaries
    <3> QED BY <3>2, <3>3, <3>4
  <2> QED BY <1>3, <2>3, <2>4, <2>5, <2>6, <2>7, <2>8 DEF UnderWay
<1> QED BY <1>1, <1>2, <1>3, StepsAre

-----------------------------------------------------------------------------
(* What nobody overlaps comes out right                                    *)

LEMMA AskedIs ==
  ASSUME Typed, NEW p \in Procs, conv[p].pc \in Specified
  PROVE  LET c == conv[p]
             found == Found(c.kind, c.book)
             names == OwnFiles[c.srpm] \cup found
         IN /\ c.srpm \in Srpms /\ c.kind \in Kinds /\ c.book \in Books /\ c.spec \in Specs
            /\ Asked(p).spec = SpecOf(c.srpm, c.spec.requires, names)
            /\ Asked(p).spec.files = names /\ Asked(p).spec.srpm = c.srpm
            /\ Asked(p).files = [f \in names |-> IF f \in found THEN "mogrix" ELSE c.srpm]
            /\ Asked(p) = [spec |-> Asked(p).spec, files |-> [f \in names |-> Asked(p).files[f]]]
<1> DEFINE c == conv[p]
           found == Found(c.kind, c.book)
           names == OwnFiles[c.srpm] \cup found
           spec == SpecOf(c.srpm, c.spec.requires, names)
           content == [f \in names |-> IF f \in found THEN "mogrix" ELSE c.srpm]
<1>1. c.srpm \in Srpms /\ c.kind \in Kinds /\ c.book \in Books /\ c.spec \in Specs
  BY DEF Typed, TypeOK, Conversions, HasWhatItNeeds, Specified
<1>2. Asked(p) = [spec |-> spec, files |-> content]
  BY Zenon DEF Asked, SrpmOf
<1>3. spec.files = names /\ spec.srpm = c.srpm
  BY DEF SpecOf
<1>4. content = [f \in names |-> content[f]]
  OBVIOUS
<1> HIDE DEF spec, content, names, c
<1>5. Asked(p).spec = spec /\ Asked(p).files = content
  BY <1>2
<1> QED BY <1>1, <1>2, <1>3, <1>4, <1>5 DEF spec, content, names, c

(* A step after which there is nothing left to go wrong.                   *)
LEMMA OffTheWay ==
  ASSUME NEW p \in Procs, conv'[p].pc \notin Unreturned
  PROVE  OnTheWay(p)'
BY DEF OnTheWay, Unreturned, Specified

LEMMA StaysOnTheWay ==
  ASSUME Typed, NEW p \in Procs, OnTheWay(p), UnderWay(p)
  PROVE  OnTheWay(p)'
<1> DEFINE c == conv[p]
           d == conv'[p]
           found == Found(c.kind, c.book)
           names == OwnFiles[c.srpm] \cup found
<1>0. conv \in [Procs -> Conversions] /\ c \in Conversions /\ HasWhatItNeeds(c, newest)
  BY DEF Typed, TypeOK
<1>a. ASSUME d.srpm = c.srpm, d.kind = c.kind
      PROVE  Dir(p)' = Dir(p) /\ (d.book = c.book /\ d.spec = c.spec => Asked(p)' = Asked(p) /\ (Ruled(p) => Ruled(p)'))
  BY <1>a DEF Dir, Asked, Ruled
<1>1. CASE Extract(p)
  <2>1. d = [c EXCEPT !.pc = "apply"] /\ c.pc = "extract" /\ results' = results
    BY <1>0, <1>1 DEF Extract, Goes, At
  <2>2. d.pc = "apply" /\ d.srpm = c.srpm /\ d.kind = c.kind
    BY <1>0, <2>1 DEF Conversions
  <2>3. Dir(p)' = Dir(p)
    BY <1>a, <2>2
  <2> QED BY <2>1, <2>2, <2>3 DEF OnTheWay, Specified, Unreturned
<1>2. CASE ApplyRules(p)
  <2> DEFINE book == rules[PackageOf[c.srpm]]
  <2>6. PICK requires \in Writes(Native[c.srpm], Apply(Names(Native[c.srpm]), book)) :
          conv' = [conv EXCEPT ![p].pc = "gather", ![p].book = book,
                     ![p].spec = SpecOf(c.srpm, requires, OwnFiles[c.srpm] \cup Found(c.kind, book))]
    BY <1>2 DEF ApplyRules
  <2> DEFINE spec == SpecOf(c.srpm, requires, OwnFiles[c.srpm] \cup Found(c.kind, book))
  <2>1. /\ d.pc = "gather" /\ d.srpm = c.srpm /\ d.kind = c.kind /\ d.book = book /\ d.spec = spec
        /\ c.pc = "apply" /\ results' = results
    BY <1>0, <1>2, <2>6 DEF ApplyRules, At, Conversions
  <2>2. Dir(p)' = Dir(p)
    BY <1>a, <2>1
  <2>3. c.srpm \in Srpms /\ book \in Books
    BY <1>0, <2>1, ConversionAssumption DEF HasWhatItNeeds, Typed, TypeOK
  <2> HIDE DEF book
  <2>4. spec.requires = requires /\ SrpmOf(c.srpm, c.kind, book, requires).spec = spec
    BY DEF SpecOf, SrpmOf
  <2> HIDE DEF spec
  <2>5. Asked(p)'.spec = spec /\ Ruled(p)'
    BY <2>1, <2>3, <2>4, <2>6, WrittenAsRuled DEF Asked, Ruled
  <2> QED BY <2>1, <2>2, <2>5 DEF OnTheWay, Specified, Unreturned
<1> HIDE DEF found, names
<1>b. ASSUME c.pc \in Specified
      PROVE  /\ Asked(p).spec.files = names /\ Asked(p).spec.srpm = c.srpm /\ c.srpm \in Srpms
             /\ c.spec = Asked(p).spec /\ Ruled(p) /\ names \subseteq Files
             /\ Asked(p).files = [f \in names |-> IF f \in found THEN "mogrix" ELSE c.srpm]
             /\ Asked(p) = [spec |-> Asked(p).spec, files |-> [f \in names |-> Asked(p).files[f]]]
             /\ \A r \in results : r.dir # Dir(p) \/ r.srpm # c.srpm
  <2>1. c.spec = Asked(p).spec /\ Ruled(p) /\ \A r \in results : r.dir # Dir(p) \/ r.srpm # c.srpm
    BY <1>b DEF OnTheWay, Unreturned
  <2>2. c.spec.files \subseteq Files
    BY <1>0, <1>b DEF HasWhatItNeeds, Specs
  <2> QED BY <1>b, <2>1, <2>2, AskedIs DEF names, found
<1>c. ASSUME NEW pc \in PCs, conv' = [conv EXCEPT ![p] = [c EXCEPT !.pc = pc]]
      PROVE  /\ d.pc = pc /\ d.spec = c.spec /\ d.srpm = c.srpm
             /\ Dir(p)' = Dir(p) /\ Asked(p)' = Asked(p) /\ (Ruled(p) => Ruled(p)')
  BY <1>0, <1>a, <1>c DEF Conversions
<1>d. {"gather", "putSpec", "putSources", "rpmbuild", "packing", "pick", "fetch"} \subseteq PCs
  BY DEF PCs
<1>3. CASE Gather(p)
  <2>1. /\ conv' = [conv EXCEPT ![p] = [c EXCEPT !.pc = "putSpec"]] /\ c.pc = "gather"
        /\ out' = [out EXCEPT ![Dir(p)].files = Gathered(p)] /\ results' = results
    BY <1>3 DEF Gather, Goes, At
  <2>2. Dir(p) \in Dirs
    BY <1>0, <1>b, <2>1, DirsOfConversions DEF Dir, Conversions, Specified
  <2>3. out'[Dir(p)].files = Gathered(p)
    <3>1. out[Dir(p)] \in OutputDirs /\ out \in [Dirs -> OutputDirs]
      BY <2>2 DEF Typed, TypeOK
    <3>2. out'[Dir(p)] = [out[Dir(p)] EXCEPT !.files = Gathered(p)]
      BY <2>1, <2>2, <3>1
    <3> QED BY <3>1, <3>2 DEF OutputDirs
  <2>4. \A f \in names : Gathered(p)[f] = Asked(p).files[f]
    BY <1>b, <2>1 DEF Gathered, Specified, names, found
  <2>8. /\ d.pc = "putSpec" /\ d.spec = c.spec /\ d.srpm = c.srpm
        /\ Dir(p)' = Dir(p) /\ Asked(p)' = Asked(p) /\ (Ruled(p) => Ruled(p)')
    BY <1>c, <1>d, <2>1
  <2>9. /\ c.spec = Asked(p).spec /\ c.spec.files = names /\ Ruled(p)
        /\ \A r \in results : r.dir # Dir(p) \/ r.srpm # c.srpm
    BY <1>b, <2>1 DEF Specified
  <2> QED BY <2>1, <2>3, <2>4, <2>8, <2>9 DEF OnTheWay, Specified, Unreturned
<1>4. CASE PutSpec(p)
  <2>1. /\ conv' = [conv EXCEPT ![p] = [c EXCEPT !.pc = "putSources"]] /\ c.pc = "putSpec"
        /\ specs' = [specs EXCEPT ![PackageOf[c.srpm]] = c.spec] /\ out' = out /\ results' = results
    BY <1>4 DEF PutSpec, Goes, At
  <2>2. specs'[PackageOf[c.srpm]] = c.spec
    BY <1>b, <2>1, ConversionAssumption DEF Typed, TypeOK, Specified
  <2>8. /\ d.pc = "putSources" /\ d.spec = c.spec /\ d.srpm = c.srpm
        /\ Dir(p)' = Dir(p) /\ Asked(p)' = Asked(p) /\ (Ruled(p) => Ruled(p)')
    BY <1>c, <1>d, <2>1
  <2>9. /\ c.spec = Asked(p).spec /\ c.spec.files = names /\ Ruled(p)
        /\ \A r \in results : r.dir # Dir(p) \/ r.srpm # c.srpm
    BY <1>b, <2>1 DEF Specified
  <2> QED BY <2>1, <2>2, <2>8, <2>9 DEF OnTheWay, Specified, Unreturned
<1>5. CASE PutSources(p)
  <2>1. /\ conv' = [conv EXCEPT ![p] = [c EXCEPT !.pc = "rpmbuild"]] /\ c.pc = "putSources"
        /\ sources' = Put(p) /\ specs' = specs /\ out' = out /\ results' = results
    BY <1>5 DEF PutSources, Goes, At
  <2>2. \A f \in names : out[Dir(p)].files[f] = Asked(p).files[f]
    BY <1>b, <2>1 DEF OnTheWay, Specified
  <2>3. \A f \in names : Asked(p).files[f] # None
    BY <1>b, <2>1, ConversionAssumption DEF Specified
  <2>4. \A f \in names : sources'[f] = Asked(p).files[f]
    BY <1>b, <2>1, <2>2, <2>3 DEF Put, Specified
  <2>8. /\ d.pc = "rpmbuild" /\ d.spec = c.spec /\ d.srpm = c.srpm
        /\ Dir(p)' = Dir(p) /\ Asked(p)' = Asked(p) /\ (Ruled(p) => Ruled(p)')
    BY <1>c, <1>d, <2>1
  <2>9. /\ c.spec = Asked(p).spec /\ c.spec.files = names /\ Ruled(p)
        /\ \A r \in results : r.dir # Dir(p) \/ r.srpm # c.srpm
    BY <1>b, <2>1 DEF Specified
  <2> QED BY <2>1, <2>4, <2>8, <2>9 DEF OnTheWay, Specified, Unreturned
<1>6. CASE RpmbuildWrites(p)
  <2>1. /\ d = [c EXCEPT !.pc = "packing", !.spec = TheSpec(p)] /\ c.pc = "rpmbuild"
        /\ UNCHANGED <<out, specs, sources, results>>
    BY <1>0, <1>6 DEF RpmbuildWrites, At
  <2>2. TheSpec(p) = c.spec
    BY <2>1 DEF OnTheWay, TheSpec
  <2>3. d.pc = "packing" /\ d.spec = c.spec /\ d.srpm = c.srpm /\ d.kind = c.kind /\ d.book = c.book
    BY <1>0, <2>1, <2>2 DEF Conversions
  <2> QED BY <1>a, <2>1, <2>3 DEF OnTheWay, Specified, Unreturned
<1>7. CASE RpmbuildEnds(p)
  <2>1. /\ conv' = [conv EXCEPT ![p] = [c EXCEPT !.pc = "pick"]] /\ c.pc = "packing"
        /\ made' = [made EXCEPT ![c.spec.srpm] = Packed(c.spec)] /\ newest' = c.spec.srpm
        /\ UNCHANGED <<out, specs, sources, results>>
    BY <1>7 DEF RpmbuildEnds, Goes, At
  <2>2. c.spec.srpm = c.srpm /\ c.spec.files = names
    BY <1>b, <2>1 DEF Specified
  <2>3. Packed(c.spec) = Asked(p)
    <3>1. \A f \in names : sources[f] = Asked(p).files[f]
      BY <2>1, <2>2 DEF OnTheWay
    <3>2. [f \in names |-> sources[f]] = [f \in names |-> Asked(p).files[f]]
      BY <3>1
    <3> QED BY <1>b, <2>1, <2>2, <3>2 DEF Packed, Specified
  <2>4. made'[c.srpm] = Asked(p)
    BY <1>b, <2>1, <2>2, <2>3 DEF Typed, TypeOK, Specified
  <2>8. /\ d.pc = "pick" /\ d.spec = c.spec /\ d.srpm = c.srpm
        /\ Dir(p)' = Dir(p) /\ Asked(p)' = Asked(p) /\ (Ruled(p) => Ruled(p)')
    BY <1>c, <1>d, <2>1
  <2>9. /\ c.spec = Asked(p).spec /\ c.spec.files = names /\ Ruled(p)
        /\ \A r \in results : r.dir # Dir(p) \/ r.srpm # c.srpm
    BY <1>b, <2>1 DEF Specified
  <2> QED BY <2>1, <2>2, <2>4, <2>8, <2>9 DEF OnTheWay, Specified, Unreturned
<1>8. CASE Pick(p)
  <2>1. /\ d = [c EXCEPT !.pc = "fetch", !.picked = newest] /\ c.pc = "pick"
        /\ UNCHANGED <<out, Tree, results>>
    BY <1>0, <1>8 DEF Pick, At
  <2>2. /\ d.pc = "fetch" /\ d.spec = c.spec /\ d.srpm = c.srpm /\ d.kind = c.kind /\ d.book = c.book
        /\ d.picked = newest
    BY <1>0, <2>1 DEF Conversions
  <2> QED BY <1>a, <2>1, <2>2 DEF OnTheWay, Specified, Unreturned, Tree
<1>9. CASE RpmbuildFails(p) \/ Fetch(p) \/ Fails(p)
  <2>1. d.pc = "clean"
    BY <1>0, <1>9 DEF RpmbuildFails, Fetch, Fails, Conversions
  <2> QED BY <2>1, OffTheWay DEF Unreturned, Specified
<1>10. CASE Clean(p) \/ Summary(p) \/ ExtractFails(p) \/ Killed(p)
  <2>1. d.pc \in {"idle", "next"}
    <3>1. Idle.pc = "idle"
      BY DEF Idle
    <3>2. CASE Summary(p) \/ Killed(p)
      BY <1>0, <3>1, <3>2 DEF Summary, Killed
    <3>3. CASE Clean(p)
      BY <1>0, <3>1, <3>3 DEF Clean, Conversions
    <3>4. CASE ExtractFails(p)
      BY <1>0, <3>1, <3>4 DEF ExtractFails, Conversions
    <3> QED BY <1>10, <3>2, <3>3, <3>4
  <2> QED BY <2>1, OffTheWay DEF Unreturned, Specified
<1> QED BY <1>1, <1>2, <1>3, <1>4, <1>5, <1>6, <1>7, <1>8, <1>9, <1>10 DEF UnderWay, Emit

(* A step that fails disturbs no SRPM that somebody may still rely on.     *)
LEMMA HalfWaySpares ==
  ASSUME Typed, NEW p \in Procs, HalfWay(p), NEW d \in Dirs, NEW s \in Srpms,
         At(p, "fetch") => d # Dir(p) \/ s # conv[p].picked
  PROVE  out'[d].srpms[s] = out[d].srpms[s]
<1>0. out \in [Dirs -> OutputDirs] /\ out[d] \in OutputDirs
  BY DEF Typed, TypeOK
<1>1. CASE \E f : out' = [out EXCEPT ![Dir(p)].files[f] = Torn]
  <2>1. PICK f : out' = [out EXCEPT ![Dir(p)].files[f] = Torn]
    BY <1>1
  <2>2. out'[d] = IF d = Dir(p) THEN [out[d] EXCEPT !.files[f] = Torn] ELSE out[d]
    BY <1>0, <2>1
  <2> QED BY <1>0, <2>2 DEF OutputDirs
<1>2. CASE At(p, "fetch") /\ out' = [out EXCEPT ![Dir(p)].srpms[conv[p].picked] = Torn]
  <2>1. out'[d] = IF d = Dir(p) THEN [out[d] EXCEPT !.srpms[conv[p].picked] = Torn] ELSE out[d]
    BY <1>0, <1>2
  <2> QED BY <1>0, <1>2, <2>1 DEF OutputDirs
<1>3. CASE out' = out
  BY <1>3
<1> QED BY <1>1, <1>2, <1>3 DEF HalfWay, Tree

LEMMA ResultsStayTrue ==
  ASSUME Typed, ResultsAreTrue, NEW p \in Procs, conv[p].alone => OnTheWay(p), UnderWay(p)
  PROVE  ResultsAreTrue'
<1> DEFINE c == conv[p]
<1>0. /\ c \in Conversions /\ HasWhatItNeeds(c, newest) /\ out \in [Dirs -> OutputDirs]
      /\ results \subseteq [dir : Dirs, kind : Kinds, srpm : Srpms, book : Books]
  BY DEF Typed, TypeOK
<1>a. \A r \in results : r.dir \in Dirs /\ r.srpm \in Srpms
  BY <1>0
<1>b. ASSUME NEW r \in results, out'[r.dir].srpms[r.srpm] = out[r.dir].srpms[r.srpm]
      PROVE  Stands(r)'
  BY <1>b DEF ResultsAreTrue, Stands
<1>1. CASE Gather(p)
  <2>1. out' = [out EXCEPT ![Dir(p)].files = Gathered(p)] /\ results' = results
    BY <1>1 DEF Gather
  <2>2. ASSUME NEW d \in Dirs PROVE out'[d].srpms = out[d].srpms
    <3>1. out'[d] = IF d = Dir(p) THEN [out[d] EXCEPT !.files = Gathered(p)] ELSE out[d]
      BY <1>0, <2>1
    <3>2. out[d] \in OutputDirs
      BY <1>0
    <3> QED BY <3>1, <3>2 DEF OutputDirs
  <2> QED BY <1>a, <1>b, <2>1, <2>2 DEF ResultsAreTrue
<1>2. CASE Fetch(p)
  <2>1. /\ c.pc = "fetch" /\ out' = [out EXCEPT ![Dir(p)].srpms[c.picked] = made[c.picked]]
        /\ results' = IF c.alone
             THEN results \cup {[dir |-> Dir(p), kind |-> c.kind, srpm |-> c.srpm, book |-> c.book]}
             ELSE {r \in results : r.dir # Dir(p) \/ r.srpm # c.picked}
    BY <1>2 DEF Fetch, At
  <2>2. c.picked \in Srpms /\ Dir(p) \in Dirs
    BY <1>0, <2>1, DirsOfConversions DEF HasWhatItNeeds, Dir, Conversions
  <2>3. ASSUME NEW d \in Dirs, NEW s \in Srpms
        PROVE  out'[d].srpms[s] = IF d = Dir(p) /\ s = c.picked THEN made[c.picked] ELSE out[d].srpms[s]
    <3>1. out'[d] = IF d = Dir(p) THEN [out[d] EXCEPT !.srpms[c.picked] = made[c.picked]] ELSE out[d]
      BY <1>0, <2>1
    <3>2. out[d] \in OutputDirs
      BY <1>0
    <3> QED BY <3>1, <3>2 DEF OutputDirs
  <2>4. CASE c.alone
    <3>1. /\ c.picked = c.srpm /\ made[c.picked] = Asked(p) /\ Ruled(p)
          /\ \A r \in results : r.dir # Dir(p) \/ r.srpm # c.picked
      BY <2>1, <2>4 DEF OnTheWay, Specified, Unreturned
    <3>2. ASSUME NEW r \in results' PROVE Stands(r)'
      <4>1. CASE r \in results
        BY <1>a, <1>b, <2>3, <3>1, <4>1
      <4>2. CASE r = [dir |-> Dir(p), kind |-> c.kind, srpm |-> c.srpm, book |-> c.book]
        <5>1. /\ r.dir = Dir(p) /\ r.kind = c.kind /\ r.srpm = c.srpm /\ r.book = c.book
              /\ out'[r.dir].srpms[r.srpm] = Asked(p)
          BY <2>2, <2>3, <3>1, <4>2
        <5>2. c.spec.requires \in SUBSET Requires
          BY <1>0, <2>1 DEF HasWhatItNeeds, Specified, Specs
        <5> QED BY <3>1, <5>1, <5>2 DEF Stands, Asked, Ruled
      <4> QED BY <2>1, <2>4, <4>1, <4>2
    <3> QED BY <3>2 DEF ResultsAreTrue
  <2>5. CASE ~c.alone
    BY <1>a, <1>b, <2>1, <2>3, <2>5 DEF ResultsAreTrue
  <2> QED BY <2>4, <2>5
<1>3. CASE HalfWay(p) /\ results' = Withdrawn(p)
  <2>1. ASSUME NEW r \in results'
        PROVE  r \in results /\ (At(p, "fetch") => r.dir # Dir(p) \/ r.srpm # c.picked)
    BY <1>3 DEF Withdrawn
  <2> QED BY <1>3, <1>a, <1>b, <2>1, HalfWaySpares DEF ResultsAreTrue
<1>4. CASE out' = out /\ results' \subseteq results
  BY <1>4, <1>b DEF ResultsAreTrue
<1>5. CASE Fails(p)
  BY <1>3, <1>5 DEF Fails
<1>6. CASE Killed(p)
  BY <1>3, <1>4, <1>6 DEF Killed, Withdrawn
<1>7. CASE \/ Extract(p) \/ ApplyRules(p) \/ Clean(p) \/ Summary(p) \/ ExtractFails(p)
           \/ PutSpec(p) \/ PutSources(p) \/ RpmbuildWrites(p) \/ RpmbuildEnds(p) \/ RpmbuildFails(p)
           \/ Pick(p)
  <2>1. out' = out /\ results' = results
    BY <1>7 DEF Extract, ApplyRules, Clean, Summary, ExtractFails, PutSpec, PutSources, RpmbuildWrites,
                RpmbuildEnds, RpmbuildFails, Pick
  <2> QED BY <1>4, <2>1
<1> QED BY <1>1, <1>2, <1>5, <1>6, <1>7 DEF UnderWay, Emit

LEMMA WayStep ==
  /\ Typed /\ Alone /\ ResultsAreTrue /\ \A p \in Procs : conv[p].alone => OnTheWay(p)
  /\ [Next]_vars
  => ResultsAreTrue' /\ \A p \in Procs : (conv[p].alone => OnTheWay(p))'
<1> SUFFICES ASSUME Typed, Alone, ResultsAreTrue, \A p \in Procs : conv[p].alone => OnTheWay(p),
                    [Next]_vars
             PROVE  ResultsAreTrue' /\ \A p \in Procs : (conv[p].alone => OnTheWay(p))'
  OBVIOUS
<1>0. conv \in [Procs -> Conversions]
  BY DEF Typed, TypeOK
<1>1. CASE UNCHANGED <<out, Tree, conv, temps, blamed, results>>
  <2>1. ResultsAreTrue'
    BY <1>1 DEF ResultsAreTrue, Stands
  <2>2. ASSUME NEW p \in Procs PROVE (conv[p].alone => OnTheWay(p))'
    <3>1. Asked(p)' = Asked(p) /\ Dir(p)' = Dir(p) /\ (Ruled(p) => Ruled(p)')
      BY <1>1 DEF Asked, Ruled, Dir
    <3> QED BY <1>1, <3>1 DEF OnTheWay, Tree
  <2> QED BY <2>1, <2>2
<1>2. ASSUME NEW p \in Procs, Starts(p), UNCHANGED <<rules, out, Tree, temps, blamed>>
      PROVE  ResultsAreTrue' /\ \A q \in Procs : (conv[q].alone => OnTheWay(q))'
  <2>1. PICK kind \in Kinds, s \in Srpms, todo \in Seq(Srpms), report \in SUBSET (Srpms \X Statuses) :
          Begins(p, kind, s, todo, report)
    BY <1>2 DEF Starts
  <2>2. results' = {r \in results : r.dir # DirOf(kind, s) \/ r.srpm # s}
    BY <2>1 DEF Begins
  <2>3. /\ conv'[p].pc = "extract" /\ conv'[p].kind = kind /\ conv'[p].srpm = s
        /\ \A q \in Procs \ {p} : conv'[q].alone = FALSE
    BY <1>0, <2>1 DEF Begins, Idle, Conversions
  <2>4. ResultsAreTrue'
    BY <1>2, <2>2 DEF ResultsAreTrue, Stands
  <2>5. OnTheWay(p)'
    BY <2>2, <2>3 DEF OnTheWay, Dir, Specified
  <2> QED BY <2>3, <2>4, <2>5
<1>3. ASSUME NEW p \in Procs, UnderWay(p)
      PROVE  ResultsAreTrue' /\ \A q \in Procs : (conv[q].alone => OnTheWay(q))'
  <2>1. /\ conv[p].pc # "idle" /\ conv' = [conv EXCEPT ![p] = conv'[p]]
        /\ Continues(conv[p], conv'[p])
    BY <1>3, MovesOn
  <2>2. ResultsAreTrue'
    BY <1>3, ResultsStayTrue
  <2>3. ASSUME NEW q \in Procs, conv'[q].alone PROVE OnTheWay(q)'
    <3>1. CASE q # p
      <4>1. conv'[q] = conv[q]
        BY <1>0, <2>1, <3>1
      <4> QED BY <2>1, <2>3, <3>1, <4>1 DEF Alone, At
    <3>2. CASE q = p /\ conv[p].alone
      BY <1>3, <3>2, StaysOnTheWay
    <3>3. CASE q = p /\ ~conv[p].alone
      <4>1. conv'[p] = Idle
        BY <2>1, <2>3, <3>3, Zenon DEF Continues
      <4>2. conv'[p].pc \notin Unreturned
        BY <4>1 DEF Idle, Unreturned, Specified
      <4> QED BY <3>3, <4>2, OffTheWay
    <3> QED BY <3>1, <3>2, <3>3
  <2> QED BY <2>2, <2>3
<1> QED BY <1>1, <1>2, <1>3, StepsAre

-----------------------------------------------------------------------------
(* The theorems                                                            *)

LEMMA InitIInv == Init => IInv
<1> SUFFICES ASSUME Init PROVE IInv
  OBVIOUS
<1>1. Typed
  BY InitTyped
<1>2. \A p \in Procs : conv[p].pc = "idle" /\ conv[p].alone = FALSE /\ Accounted(conv[p])
  BY DEF Init, Idle, Accounted
<1>3. Busy = {}
  BY <1>2, BusyAre
<1>4. CountsTemporaries
  BY <1>3, FS_EmptySet DEF CountsTemporaries, Init
<1>5. results = {} /\ ResultsAreTrue
  BY DEF Init, ResultsAreTrue
<1> QED BY <1>1, <1>2, <1>4, <1>5 DEF IInv, Typed, Alone

LEMMA StepIInv == IInv /\ [Next]_vars => IInv'
<1> SUFFICES ASSUME IInv, [Next]_vars PROVE IInv'
  OBVIOUS
<1>1. Typed
  BY DEF IInv, Typed
<1>2. Typed'
  BY <1>1, TypedStep
<1>3. Alone'
  BY <1>1, AloneStep DEF IInv
<1>4. CountsTemporaries'
  BY <1>1, CountsStep DEF IInv
<1>5. \A p \in Procs : Accounted(conv'[p])
  BY <1>1, AccountedStep DEF IInv
<1>6. ResultsAreTrue' /\ \A p \in Procs : (conv[p].alone => OnTheWay(p))'
  BY <1>1, WayStep DEF IInv
<1> QED BY <1>2, <1>3, <1>4, <1>5, <1>6 DEF IInv, Typed

(* The invariant: who is alone, what a conversion that is alone has in its *)
(* output directory and in the rpmbuild tree, what the batches reported,   *)
(* and how many temporary directories there are.                           *)
THEOREM Invariance == Spec => []IInv
BY InitIInv, StepIInv, PTL DEF Spec

(* What a conversion that nobody overlapped returned has, with any number  *)
(* of processes, SRPMs, faults and edits, its own files and those of its   *)
(* rules, and the BuildRequires that the last stage to mention each wants, *)
(* but for the first of several names of a line, which may stay, and for   *)
(* what is added to a spec that has no BuildRequires left.  It stays so    *)
(* until the same is asked for again or an overlapped conversion copies    *)
(* the SRPM it picked over it.                                             *)
THEOREM ReturnedSrpms == Spec => []ResultsAreTrue
<1>1. IInv => ResultsAreTrue
  BY DEF IInv
<1> QED BY <1>1, Invariance, PTL

(* rpmbuild finds the files the spec of such a conversion names.           *)
THEOREM FilesForRpmbuild == Spec => []NothingIsMissing
<1>1. IInv => NothingIsMissing
  <2> SUFFICES ASSUME IInv, NEW p \in Procs, At(p, "rpmbuild"), conv[p].alone PROVE Complete(p)
    BY DEF NothingIsMissing
  <2> DEFINE c == conv[p]
             found == Found(c.kind, c.book)
             names == OwnFiles[c.srpm] \cup found
  <2>1. Typed /\ OnTheWay(p) /\ c.pc = "rpmbuild"
    BY DEF IInv, Typed, At
  <2>2. /\ TheSpec(p) = c.spec /\ c.spec = Asked(p).spec
        /\ \A f \in c.spec.files : sources[f] = Asked(p).files[f]
    BY <2>1 DEF OnTheWay, TheSpec, Specified
  <2>3. c.pc \in Specified
    BY <2>1 DEF Specified
  <2> HIDE DEF found, names
  <2>4. /\ c.srpm \in Srpms /\ c.spec \in Specs /\ Asked(p).spec.files = names
        /\ Asked(p).files = [f \in names |-> IF f \in found THEN "mogrix" ELSE c.srpm]
    BY <2>1, <2>3, AskedIs DEF names, found
  <2>5. \A f \in names : Asked(p).files[f] \in {"mogrix", c.srpm}
    BY <2>4
  <2>6. None \notin {"mogrix", c.srpm} /\ None \notin Specs
    BY <2>4, ConversionAssumption
  <2> QED BY <2>2, <2>4, <2>5, <2>6 DEF Complete
<1> QED BY <1>1, Invariance, PTL

(* A batch has a result for every SRPM it was started with.                *)
THEOREM BatchReports == Spec => []BatchAccountsForAll
<1>1. IInv => BatchAccountsForAll
  <2> SUFFICES ASSUME IInv, NEW p \in Procs, At(p, "next"), conv[p].todo = << >>
               PROVE  {r[1] : r \in conv[p].report} = ToSet(BatchList)
    BY DEF BatchAccountsForAll
  <2>1. Accounted(conv[p]) /\ conv[p].pc = "next"
    BY DEF IInv, At
  <2>2. ToSet(conv[p].todo) = {}
    BY DEF ToSet
  <2> QED BY <2>1, <2>2 DEF Accounted
<1> QED BY <1>1, Invariance, PTL

(* Every temporary directory has a conversion, or a fault to blame.        *)
THEOREM TemporaryDirectories == Spec => []TemporariesAreAccountedFor
<1>1. IInv => TemporariesAreAccountedFor
  BY DEF IInv, CountsTemporaries, Busy, TemporariesAreAccountedFor
<1> QED BY <1>1, Invariance, PTL
=============================================================================
