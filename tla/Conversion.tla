----------------------------- MODULE Conversion -----------------------------
(***************************************************************************)
(* Converting SRPMs: `mogrix convert` of one SRPM (cli.py) and `mogrix     *)
(* batch` of all in a directory (batch.py).  Each conversion extracts the  *)
(* SRPM, applies the rules to its spec, gathers the files in an output     *)
(* directory, copies them with the spec into the rpmbuild tree, lets       *)
(* rpmbuild pack them and copies the newest SRPM of the tree back.  Output *)
(* directories and the rpmbuild tree keep what earlier conversions left,   *)
(* and all conversions share the tree; people edit the rules meanwhile.    *)
(***************************************************************************)
EXTENDS Rules, FiniteSets, SequencesExt

CONSTANTS
  Procs,       \* processes
  Srpms,       \* the SRPMs, each with a name of its own
  Packages,
  PackageOf,   \* the package of each SRPM, which also names its spec file
  Files,       \* names of sources and patches
  OwnFiles,    \* those each SRPM comes with
  Requires,    \* names of BuildRequires
  Native,      \* the BuildRequires lines of each SRPM's spec
  RuleDirs,    \* what the rules directory may hold: the rules for each package
  Shared,      \* files mogrix has in patches/shared only
  Missing,     \* files the rules name and mogrix does not have
  BatchList,   \* the SRPMs of the directory, sorted
  MaxRuns,     \* bound: commands started
  MaxEdits,    \* bound: times the rules are edited
  MaxFaults,   \* bound: steps that fail and processes that are killed
  None, Torn   \* no file; a file written in part

(* What the rules may say of a package, what a spec may be, and what a     *)
(* file may hold: what came with an SRPM, what mogrix has, or a part.      *)
RuleStages == [add : SUBSET Requires, drop : SUBSET Requires]
Books == [generic : RuleStages, classes : Seq(RuleStages), package : RuleStages,
          files : SUBSET Files]
Lines == [first : Requires, more : SUBSET Requires]
Specs == [srpm : Srpms, requires : SUBSET Requires, files : SUBSET Files]
Contents == Srpms \cup {"mogrix", Torn, None}

ASSUME ConversionAssumption ==
  /\ PackageOf \in [Srpms -> Packages] /\ OwnFiles \in [Srpms -> SUBSET Files]
  /\ Native \in [Srpms -> SUBSET Lines]
  /\ \A dir \in RuleDirs : dir \in [Packages -> Books]
  /\ \A dir \in RuleDirs : \A k, l \in Packages : dir[k].generic = dir[l].generic
  /\ Shared \subseteq Files /\ Missing \subseteq Files
  /\ BatchList \in Seq(Srpms)
  /\ {MaxRuns, MaxEdits, MaxFaults} \subseteq Nat
  /\ None \notin Srpms \cup {"mogrix", Torn} /\ None \notin Specs

VARIABLES
  rules,    \* the rules directory
  out,      \* the files and the SRPMs in each output directory
  specs,    \* rpmbuild/SPECS
  sources,  \* rpmbuild/SOURCES
  made,     \* rpmbuild/SRPMS
  newest,   \* the SRPM of it with the latest mtime
  conv,     \* what each process is at
  temps,    \* the number of temporary directories /tmp/mogrix-srpm-*
  left,     \* bounds: runs, edits and faults that are left
  blamed,   \* history: temporary directories of killed processes and failed extractions
  results   \* history: SRPMs returned by conversions that nobody overlapped

vars == <<rules, out, specs, sources, made, newest, conv, temps, left, blamed, results>>

Kinds == {"convert", "batch"}

Dirs == ({"convert"} \X Srpms) \cup ({"batch"} \X Packages)

DirOf(kind, s) == IF kind = "convert" THEN <<kind, s>> ELSE <<kind, PackageOf[s]>>

Idle == [pc |-> "idle", kind |-> "convert", srpm |-> None, todo |-> << >>, book |-> None,
         spec |-> None, picked |-> None, status |-> None, alone |-> FALSE, report |-> {}]

Init ==
  /\ rules \in RuleDirs
  /\ out = [d \in Dirs |-> [files |-> [f \in Files |-> None], srpms |-> [s \in Srpms |-> None]]]
  /\ specs = [k \in Packages |-> None]
  /\ sources = [f \in Files |-> None]
  /\ made = [s \in Srpms |-> None] /\ newest = None
  /\ conv = [p \in Procs |-> Idle]
  /\ temps = 0 /\ blamed = 0 /\ results = {}
  /\ left = [runs |-> MaxRuns, edits |-> MaxEdits, faults |-> MaxFaults]

At(p, pc) == conv[p].pc = pc
Holding(p) == IF conv[p].pc \in {"idle", "extract", "next"} THEN {} ELSE {p}
Goes(p, pc) == conv' = [conv EXCEPT ![p].pc = pc]
Dir(p) == DirOf(conv[p].kind, conv[p].srpm)
Tree == <<specs, sources, made, newest>>

(* A spec as it is written: whose it is, what it requires, what it names.  *)
SpecOf(s, requires, files) == [srpm |-> s, requires |-> requires, files |-> files]

(* The files of the rules that are found; batch.py looks for them in the   *)
(* package's own directory only.                                           *)
Found(kind, book) == (book.files \ Missing) \ (IF kind = "batch" THEN Shared ELSE {})

-----------------------------------------------------------------------------
(* A conversion of s begins.  Whoever is at work meanwhile is not alone,   *)
(* and what an earlier one returned for s in this directory is superseded. *)
Begins(p, kind, s, todo, report) ==
  LET others == {q \in Procs \ {p} : ~At(q, "idle")} IN
  /\ conv' = [q \in Procs |->
       IF q = p THEN [Idle EXCEPT !.pc = "extract", !.kind = kind, !.srpm = s, !.todo = todo,
                                  !.alone = others = {}, !.report = report]
       ELSE [conv[q] EXCEPT !.alone = FALSE]]
  /\ results' = {r \in results : r.dir # DirOf(kind, s) \/ r.srpm # s}

Convert(p) ==
  /\ At(p, "idle") /\ left.runs > 0
  /\ left' = [left EXCEPT !.runs = @ - 1]
  /\ \E s \in Srpms : Begins(p, "convert", s, << >>, {})
  /\ UNCHANGED <<rules, out, Tree, temps, blamed>>

Batch(p) ==
  /\ At(p, "idle") /\ left.runs > 0 /\ BatchList # << >>
  /\ left' = [left EXCEPT !.runs = @ - 1]
  /\ Begins(p, "batch", Head(BatchList), Tail(BatchList), {})
  /\ UNCHANGED <<rules, out, Tree, temps, blamed>>

(* extract_spec(): mkdtemp, rpm2cpio and cpio.                             *)
Extract(p) ==
  /\ At(p, "extract") /\ Goes(p, "apply")
  /\ temps' = temps + 1
  /\ UNCHANGED <<rules, out, Tree, left, blamed, results>>

(* Mistake: the spec names the files of the rules, found or not.           *)
ApplyRulesNamingAll(p) ==
  LET c == conv[p]
      book == rules[PackageOf[c.srpm]] IN
  /\ At(p, "apply")
  /\ \E requires \in Writes(Native[c.srpm], Apply(Names(Native[c.srpm]), book)) :
       conv' = [conv EXCEPT ![p].pc = "gather", ![p].book = book,
                 ![p].spec = SpecOf(c.srpm, requires, OwnFiles[c.srpm] \cup book.files)]
  /\ UNCHANGED <<rules, out, Tree, temps, left, blamed, results>>

(* The spec is parsed and the rules, as they are now, applied to it.       *)
ApplyRules(p) ==
  LET c == conv[p]
      book == rules[PackageOf[c.srpm]] IN
  /\ At(p, "apply")
  /\ \E requires \in Writes(Native[c.srpm], Apply(Names(Native[c.srpm]), book)) :
       conv' = [conv EXCEPT ![p].pc = "gather", ![p].book = book,
                 ![p].spec = SpecOf(c.srpm, requires, OwnFiles[c.srpm] \cup Found(c.kind, book))]
  /\ UNCHANGED <<rules, out, Tree, temps, left, blamed, results>>

(* What is copied to the output directory: the SRPM's files, then mogrix's *)
(* over them.                                                              *)
Gathered(p) ==
  [f \in Files |-> IF f \in Found(conv[p].kind, conv[p].book) THEN "mogrix"
                   ELSE IF f \in OwnFiles[conv[p].srpm] THEN conv[p].srpm
                   ELSE out[Dir(p)].files[f]]

Gather(p) ==
  /\ At(p, "gather") /\ Goes(p, "putSpec")
  /\ out' = [out EXCEPT ![Dir(p)].files = Gathered(p)]
  /\ UNCHANGED <<rules, Tree, temps, left, blamed, results>>

-----------------------------------------------------------------------------
(* emit_srpm()                                                             *)
PutSpec(p) ==
  /\ At(p, "putSpec") /\ Goes(p, "putSources")
  /\ specs' = [specs EXCEPT ![PackageOf[conv[p].srpm]] = conv[p].spec]
  /\ UNCHANGED <<rules, out, sources, made, newest, temps, left, blamed, results>>

(* Mistake: what is there is not copied again.                             *)
PutNew(p) ==
  [f \in Files |-> IF sources[f] = None THEN out[Dir(p)].files[f] ELSE sources[f]]

(* Everything that is in the output directory, of this conversion or not.  *)
Put(p) ==
  [f \in Files |-> IF out[Dir(p)].files[f] = None THEN sources[f] ELSE out[Dir(p)].files[f]]

PutSources(p) ==
  /\ At(p, "putSources") /\ Goes(p, "rpmbuild")
  /\ sources' = Put(p)
  /\ UNCHANGED <<rules, out, specs, made, newest, temps, left, blamed, results>>

(* rpmbuild -bs: it packs the files the spec names, into an SRPM with the  *)
(* spec's name and version.                                                *)
TheSpec(p) == specs[PackageOf[conv[p].srpm]]
Complete(p) == TheSpec(p) # None /\ \A f \in TheSpec(p).files : sources[f] # None
Packed(spec) == [spec |-> spec, files |-> [f \in spec.files |-> sources[f]]]

RpmbuildWrites(p) ==
  /\ At(p, "rpmbuild") /\ Complete(p)
  /\ conv' = [conv EXCEPT ![p].pc = "packing", ![p].spec = TheSpec(p)]
  /\ made' = [made EXCEPT ![TheSpec(p).srpm] = Torn] /\ newest' = TheSpec(p).srpm
  /\ UNCHANGED <<rules, out, specs, sources, temps, left, blamed, results>>

RpmbuildEnds(p) ==
  LET spec == conv[p].spec IN
  /\ At(p, "packing") /\ Goes(p, "pick")
  /\ made' = [made EXCEPT ![spec.srpm] = Packed(spec)] /\ newest' = spec.srpm
  /\ UNCHANGED <<rules, out, specs, sources, temps, left, blamed, results>>

RpmbuildFails(p) ==
  /\ At(p, "rpmbuild") /\ ~Complete(p)
  /\ conv' = [conv EXCEPT ![p].pc = "clean", ![p].status = "error"]
  /\ UNCHANGED <<rules, out, Tree, temps, left, blamed, results>>

(* max(srpms, key=mtime)                                                   *)
Pick(p) ==
  /\ At(p, "pick")
  /\ conv' = [conv EXCEPT ![p].pc = "fetch", ![p].picked = newest]
  /\ UNCHANGED <<rules, out, Tree, temps, left, blamed, results>>

(* The copy to the output directory is what the caller is told of.  What   *)
(* an overlapped conversion copies may be anybody's.                       *)
Fetch(p) ==
  LET c == conv[p] IN
  /\ At(p, "fetch")
  /\ out' = [out EXCEPT ![Dir(p)].srpms[c.picked] = made[c.picked]]
  /\ conv' = [conv EXCEPT ![p].pc = "clean", ![p].status = "success"]
  /\ results' = IF c.alone
       THEN results \cup {[dir |-> Dir(p), kind |-> c.kind, srpm |-> c.srpm, book |-> c.book]}
       ELSE {r \in results : r.dir # Dir(p) \/ r.srpm # c.picked}
  /\ UNCHANGED <<rules, Tree, temps, left, blamed>>

-----------------------------------------------------------------------------
(* Mistake: the directory is not removed after an error.                   *)
CleanAfterSuccess(p) ==
  LET c == conv[p] IN
  /\ At(p, "clean")
  /\ temps' = IF c.status = "error" THEN temps ELSE temps - 1
  /\ conv' = [conv EXCEPT ![p] =
       IF c.kind = "convert" THEN Idle
       ELSE [c EXCEPT !.pc = "next", !.report = @ \cup {<<c.srpm, c.status>>}]]
  /\ UNCHANGED <<rules, out, Tree, left, blamed, results>>

(* Mistake: convert_one() does not catch the exception.                    *)
CleanRaising(p) ==
  LET c == conv[p] IN
  /\ At(p, "clean")
  /\ temps' = temps - 1
  /\ conv' = [conv EXCEPT ![p] =
       IF c.kind = "convert" THEN Idle
       ELSE [c EXCEPT !.pc = "next", !.report = @ \cup {<<c.srpm, c.status>>},
                      !.todo = IF c.status = "error" THEN << >> ELSE @]]
  /\ UNCHANGED <<rules, out, Tree, left, blamed, results>>

(* finally: the temporary directory goes; convert ends with the exception, *)
(* if there was one, convert_one() returns its result.                     *)
Clean(p) ==
  LET c == conv[p] IN
  /\ At(p, "clean")
  /\ temps' = temps - 1
  /\ conv' = [conv EXCEPT ![p] =
       IF c.kind = "convert" THEN Idle
       ELSE [c EXCEPT !.pc = "next", !.report = @ \cup {<<c.srpm, c.status>>}]]
  /\ UNCHANGED <<rules, out, Tree, left, blamed, results>>

(* convert_all(): the loop.                                                *)
NextSrpm(p) ==
  LET c == conv[p] IN
  /\ At(p, "next") /\ c.todo # << >>
  /\ Begins(p, "batch", Head(c.todo), Tail(c.todo), c.report)
  /\ UNCHANGED <<rules, out, Tree, temps, left, blamed>>

Summary(p) ==
  /\ At(p, "next") /\ conv[p].todo = << >>
  /\ conv' = [conv EXCEPT ![p] = Idle]
  /\ UNCHANGED <<rules, out, Tree, temps, left, blamed, results>>

-----------------------------------------------------------------------------
(* Steps that fail.                                                        *)
Faulty == left.faults > 0 /\ left' = [left EXCEPT !.faults = @ - 1]

(* The SRPM is not there, and no directory is made; or rpm2cpio or cpio    *)
(* fails, or there is no spec: mkdtemp()'s directory is not known to the   *)
(* caller yet, and stays.                                                  *)
ExtractFails(p) ==
  LET c == conv[p] IN
  /\ At(p, "extract") /\ Faulty
  /\ temps' \in {temps, temps + 1} /\ blamed' = blamed + temps' - temps
  /\ conv' = [conv EXCEPT ![p] =
       IF c.kind = "convert" THEN Idle
       ELSE [c EXCEPT !.pc = "next", !.report = @ \cup {<<c.srpm, "error">>}]]
  /\ UNCHANGED <<rules, out, Tree, results>>

(* What a step leaves that fails, or whose process is killed, half way: a  *)
(* file written in part, and the rest as it was.                           *)
HalfWay(p) ==
  \/ /\ At(p, "gather")
     /\ \E f \in OwnFiles[conv[p].srpm] \cup Found(conv[p].kind, conv[p].book) :
          out' = [out EXCEPT ![Dir(p)].files[f] = Torn]
     /\ UNCHANGED Tree
  \/ /\ At(p, "putSpec")
     /\ specs' \in {specs, [specs EXCEPT ![PackageOf[conv[p].srpm]] = None]}
     /\ UNCHANGED <<out, sources, made, newest>>
  \/ /\ At(p, "putSources")
     /\ \E f \in {g \in Files : out[Dir(p)].files[g] # None} :
          sources' = [sources EXCEPT ![f] = Torn]
     /\ UNCHANGED <<out, specs, made, newest>>
  \/ /\ At(p, "fetch")
     /\ out' \in {out, [out EXCEPT ![Dir(p)].srpms[conv[p].picked] = Torn]}
     /\ UNCHANGED Tree
  \/ /\ conv[p].pc \in {"apply", "rpmbuild", "packing", "pick"}
     /\ UNCHANGED <<out, Tree>>

(* An overlapped conversion may tear somebody else's SRPM.                 *)
Withdrawn(p) ==
  IF At(p, "fetch") THEN {r \in results : r.dir # Dir(p) \/ r.srpm # conv[p].picked} ELSE results

(* An exception: no space, a spec that cannot be parsed, rpmbuild's error. *)
Fails(p) ==
  /\ Faulty /\ HalfWay(p)
  /\ conv' = [conv EXCEPT ![p].pc = "clean", ![p].status = "error"]
  /\ results' = Withdrawn(p)
  /\ UNCHANGED <<rules, temps, blamed>>

(* The process is killed, rpmbuild with it, or something outside the try   *)
(* of convert_one() fails.                                                 *)
Killed(p) ==
  /\ ~At(p, "idle") /\ Faulty
  /\ HalfWay(p) \/ (conv[p].pc \in {"extract", "clean", "next"} /\ UNCHANGED <<out, Tree>>)
  /\ conv' = [conv EXCEPT ![p] = Idle]
  /\ IF At(p, "extract") THEN temps' \in {temps, temps + 1} /\ blamed' = blamed + temps' - temps
                         ELSE temps' = temps /\ blamed' = blamed + Cardinality(Holding(p))
  /\ results' = Withdrawn(p)
  /\ UNCHANGED rules

EditRules ==
  /\ left.edits > 0 /\ left' = [left EXCEPT !.edits = @ - 1]
  /\ rules' \in RuleDirs \ {rules}
  /\ UNCHANGED <<out, Tree, conv, temps, blamed, results>>

Emit(p) == PutSpec(p) \/ PutSources(p) \/ RpmbuildWrites(p) \/ RpmbuildEnds(p)
           \/ RpmbuildFails(p) \/ Pick(p) \/ Fetch(p)

Next ==
  \/ EditRules
  \/ \E p \in Procs : \/ Convert(p) \/ Batch(p) \/ Extract(p) \/ ApplyRules(p) \/ Gather(p)
                      \/ Emit(p) \/ Clean(p) \/ NextSrpm(p) \/ Summary(p)
                      \/ ExtractFails(p) \/ Fails(p) \/ Killed(p)

Spec == Init /\ [][Next]_vars

-----------------------------------------------------------------------------
(* What the rules want of each name, and where the writer goes astray: the *)
(* first of several names of a line may stay, and nothing is added to a    *)
(* spec that is left without BuildRequires.                                *)
AsRuled(s, book, requires) ==
  LET names == Names(Native[s]) IN
  \A q \in Requires :
    /\ q \in requires => Wanted(q, names, book) \/ q \in Firsts(Native[s])
    /\ Wanted(q, names, book) => q \in requires \/ (requires = {} /\ q \notin names)

(* The SRPM of a conversion: of the spec it wrote, with the SRPM's own     *)
(* files and mogrix's over them.                                           *)
SrpmOf(s, kind, book, requires) ==
  LET found == Found(kind, book) IN
  [spec |-> SpecOf(s, requires, OwnFiles[s] \cup found),
   files |-> [f \in OwnFiles[s] \cup found |-> IF f \in found THEN "mogrix" ELSE s]]

Stands(r) ==
  \E requires \in SUBSET Requires :
    /\ AsRuled(r.srpm, r.book, requires)
    /\ out[r.dir].srpms[r.srpm] = SrpmOf(r.srpm, r.kind, r.book, requires)

(* What a conversion that nobody overlapped returned is in its output      *)
(* directory and is the SRPM it was asked for, made of its own files and   *)
(* with the BuildRequires that its rules want, but for what the writer     *)
(* misses: whatever earlier, failed and killed conversions left in the     *)
(* directory and in the rpmbuild tree.  It stays there until the same is   *)
(* asked for again, or a conversion that is overlapped copies the SRPM it  *)
(* takes for its own over it.                                              *)
ResultsAreTrue == \A r \in results : Stands(r)

(* rpmbuild finds every file a spec names: nothing is named that was not   *)
(* gathered.  Overlapped conversions of one package may name each other's. *)
NothingIsMissing ==
  \A p \in Procs : At(p, "rpmbuild") /\ conv[p].alone => Complete(p)

(* A batch that ends has a result for each SRPM of the directory, however  *)
(* many of them failed.                                                    *)
BatchAccountsForAll ==
  \A p \in Procs :
    At(p, "next") /\ conv[p].todo = << >> => {r[1] : r \in conv[p].report} = ToSet(BatchList)

(* A temporary directory belongs to a conversion under way, or is left by  *)
(* a process that was killed or an extraction that failed.                 *)
TemporariesAreAccountedFor ==
  temps = blamed + Cardinality(UNION {Holding(p) : p \in Procs})
=============================================================================
