------------------------------ MODULE Staging ------------------------------
(***************************************************************************)
(* The staging directory every cross build works on, and the commands that *)
(* write its base: ensure_ready() of mogrix/staging.py, which convert,     *)
(* build and batch-build call, setup-cross, stage --clean and sync-headers *)
(* of mogrix/cli.py, and cleanup.sh.                                       *)
(*                                                                         *)
(* No command locks anything and all of them take what exists for whole,   *)
(* so the model has every file being written, a command that is killed in  *)
(* the middle, and a second command beside the first.                      *)
(*                                                                         *)
(* irix-compat.h and getopt.h are one resource, "headers", which is        *)
(* missing while one of them is; "irix_ld" stands for rpmmacros.irix, too. *)
(* The toolchain and the sysroot are installed.  The files of staged       *)
(* packages, and what is in a file beyond its being whole, are left out.   *)
(***************************************************************************)
EXTENDS Naturals, Sequences

CONSTANTS
  Procs,         \* the processes that run commands
  MaxCommands,   \* bound: commands run
  MaxFaults      \* bound: failures of the system and commands killed

ASSUME StagingAssumption == MaxCommands \in Nat /\ MaxFaults \in Nat

VARIABLES
  file,      \* the resources of the staging directory
  made,      \* the staging directory exists
  sources,   \* the libraries whose source is in compat/runtime
  proc,      \* the command each process runs
  blamed,    \* what a killed command, or one that said so, left half written
  advised,   \* the last command was a build that was refused
  commands,  \* bound: commands so far
  faults     \* bound: failures and kills so far

vars == <<file, made, sources, proc, blamed, advised, commands, faults>>

Libs     == {"soft_float", "atomic"}
Trees    == {"dicl", "mogrix"}
Required == Libs \cup Trees \cup {"headers"}
Wrappers == {"irix_cc", "irix_ld"}
Names    == Required \cup Wrappers

Missing(r) == file[r] = "none"
Ready      == \A r \in Required : ~Missing(r)      \* check_status()

(* What a command does, one resource after the other.                      *)
Ops == [op : {"ensure",    \* write it unless it is there
              "resync",    \* remove it, then write it
              "write",     \* write it; a tree must not be there
              "over",      \* write it over what is there
              "rm"},       \* remove it
        name : Names]

All(op, names) == [i \in DOMAIN names |-> [op |-> op, name |-> names[i]]]
NamesOf(todo)  == {todo[i].name : i \in DOMAIN todo}

(* Mistake: the libraries are built before the headers are there.          *)
EnsureOpsLibsFirst == All("ensure", <<"soft_float", "atomic", "dicl", "mogrix", "headers">>)

EnsureOps  == All("ensure", <<"dicl", "mogrix", "headers", "soft_float", "atomic">>)
SyncOps    == All("resync", <<"dicl", "mogrix">>) \o All("ensure", <<"headers">>)
SetupOps   == All("over", <<"irix_cc", "irix_ld", "dicl">>)
CleanOps   == All("rm", <<"atomic", "headers">>)
CleanupOps == All("rm", <<"soft_float", "atomic", "dicl", "mogrix", "headers">>)
              \o All("over", <<"dicl", "headers", "mogrix", "soft_float">>)
              \o All("over", IF "atomic" \in sources THEN <<"atomic">> ELSE << >>)

Ensures  == {"convert", "build", "batch-build"}
Commands == Ensures \cup {"setup-cross", "sync-headers", "clean", "cleanup.sh"}

Idle == [cmd |-> "none", at |-> "idle", todo |-> << >>,
         cut |-> FALSE,       \* what it writes was removed under it
         alone |-> TRUE,      \* no other command ran beside it so far
         failed |-> FALSE]    \* the system failed it

Runs == [cmd : Commands \cup {"none"},
         at : {"idle", "doing", "removing", "writing", "validate", "building", "refused"},
         todo : Seq(Ops), cut : BOOLEAN, alone : BOOLEAN, failed : BOOLEAN]

TypeOK ==
  /\ file \in [Names -> {"none", "part", "whole"}]
  /\ made \in BOOLEAN /\ advised \in BOOLEAN
  /\ sources \subseteq Libs /\ blamed \subseteq Names
  /\ commands \in 0..MaxCommands /\ faults \in 0..MaxFaults
  /\ proc \in [Procs -> Runs]
  /\ \A p \in Procs : proc[p].at \in {"removing", "writing"} => proc[p].todo # << >>
  /\ (\E r \in Names : file[r] # "none") => made

(* A fresh machine, one whose staging directory has the soft float library *)
(* (a prerequisite of setup-cross), or one that is set up.  compat/runtime *)
(* is no part of the repository, so its sources may be missing.            *)
Init ==
  /\ \E there \in {{}, {"soft_float"}, Names} :
       /\ made = (there # {})
       /\ file = [r \in Names |-> IF r \in there THEN "whole" ELSE "none"]
  /\ sources \in {{}, Libs}
  /\ proc = [p \in Procs |-> Idle]
  /\ blamed = {} /\ advised = FALSE /\ commands = 0 /\ faults = 0

-----------------------------------------------------------------------------
At(p, at)  == proc[p].at = at
Doing(p)   == At(p, "doing") /\ proc[p].todo # << >>
Item(p)    == Head(proc[p].todo)
Finished(p) == At(p, "doing") /\ proc[p].todo = << >>

Becomes(p, s) == proc' = [proc EXCEPT ![p] = s]
Done(p)       == [proc[p] EXCEPT !.at = "doing", !.todo = Tail(@), !.cut = FALSE]

Goes(p, op)   == [proc[p] EXCEPT !.at = "doing",
                    !.todo = <<[op |-> op, name |-> Item(p).name]>> \o Tail(@)]

Writing(q, r) == At(q, "writing") /\ Item(q).name = r

(* p becomes s and has removed r from under whoever writes it.             *)
Removing(p, r, s) ==
  proc' = [q \in Procs |-> IF q = p THEN s
                           ELSE [proc[q] EXCEPT !.cut = @ \/ Writing(q, r)]]

(* What p leaves half written if it goes no further.                       *)
HalfWritten(p) ==
  IF proc[p].cmd = "cleanup.sh" THEN NamesOf(proc[p].todo)
  ELSE IF At(p, "removing") \/ At(p, "writing") \/ (Doing(p) /\ Item(p).op = "write")
    THEN {Item(p).name} ELSE {}

-----------------------------------------------------------------------------
(* Mistakes the properties must tell from the code; no part of Next.       *)

(* A tree that could not be copied is passed over in silence.              *)
FailsSilently(p) ==
  /\ faults < MaxFaults /\ faults' = faults + 1
  /\ Doing(p) \/ At(p, "removing") \/ At(p, "writing")
  /\ Becomes(p, [(IF proc[p].cmd \in Ensures \cup {"sync-headers"} THEN Done(p) ELSE Idle) EXCEPT !.failed = TRUE])
  /\ blamed' = blamed
  /\ UNCHANGED <<file, made, sources, advised, commands>>

(* What was missing before is not looked at again.                         *)
RecheckTrusting(p) ==
  /\ Finished(p) /\ proc[p].cmd \in {"build", "batch-build"}
  /\ Becomes(p, [proc[p] EXCEPT !.at = IF proc[p].cmd = "build" THEN "validate" ELSE "building"])
  /\ UNCHANGED <<file, made, sources, blamed, advised, commands, faults>>

-----------------------------------------------------------------------------
(* The commands begin.                                                     *)

Starts(p, c, todo) ==
  /\ At(p, "idle") /\ commands < MaxCommands
  /\ commands' = commands + 1
  /\ advised' = FALSE
  /\ LET alone == \A q \in Procs \ {p} : At(q, "idle") IN
       proc' = [q \in Procs |->
                  IF q = p THEN [Idle EXCEPT !.cmd = c, !.at = "doing", !.todo = todo, !.alone = alone]
                           ELSE [proc[q] EXCEPT !.alone = At(q, "idle")]]

(* ensure_ready(): nothing to do if everything exists.                     *)
Ensure(p) ==
  /\ \E c \in Ensures : Starts(p, c, IF Ready THEN << >> ELSE EnsureOps)
  /\ made' = (made \/ ~Ready)
  /\ UNCHANGED <<file, sources, blamed, faults>>

(* sync-headers makes the directory and calls _ensure_headers(force=True). *)
SyncHeaders(p) ==
  /\ Starts(p, "sync-headers", SyncOps)
  /\ made' = TRUE
  /\ UNCHANGED <<file, sources, blamed, faults>>

(* setup-cross wants the soft float library in a directory that exists.    *)
SetupAccepts == made => ~Missing("soft_float")

SetupCross(p) ==
  /\ SetupAccepts
  /\ Starts(p, "setup-cross", SetupOps)
  /\ made' = TRUE
  /\ UNCHANGED <<file, sources, blamed, faults>>

Clean(p) ==
  /\ made
  /\ Starts(p, "clean", CleanOps)
  /\ UNCHANGED <<file, made, sources, blamed, faults>>

Cleanup(p) ==
  /\ made
  /\ Starts(p, "cleanup.sh", CleanupOps)
  /\ UNCHANGED <<file, made, sources, blamed, faults>>

-----------------------------------------------------------------------------
(* One resource after the other.                                           *)

(* The look whether it is there.  A tree that is missing is looked for a   *)
(* second time: it is removed if another command has made it meanwhile.    *)
Look(p) ==
  /\ Doing(p) /\ Item(p).op \in {"ensure", "resync", "rm"}
  /\ LET i == Item(p) IN
       \/ /\ IF i.op = "rm" THEN Missing(i.name) ELSE i.op = "ensure" /\ ~Missing(i.name)
          /\ Becomes(p, Done(p))
       \/ /\ i.op # "rm" /\ Missing(i.name)
          /\ Becomes(p, Goes(p, IF i.op = "ensure" /\ i.name \in Trees THEN "resync" ELSE "write"))
  /\ UNCHANGED <<file, made, sources, blamed, advised, commands, faults>>

(* rmtree() and unlink(); a tree goes file by file.                        *)
Unlink(p) ==
  /\ Doing(p) /\ Item(p).op \in {"rm", "resync"} /\ ~Missing(Item(p).name)
  /\ LET r == Item(p).name IN
       IF r \in Trees
         THEN /\ file' = [file EXCEPT ![r] = "part"]
              /\ Removing(p, r, [proc[p] EXCEPT !.at = "removing"])
         ELSE /\ file' = [file EXCEPT ![r] = "none"]
              /\ Removing(p, r, Done(p))
  /\ UNCHANGED <<made, sources, blamed, advised, commands, faults>>

Removed(p) ==
  /\ At(p, "removing")
  /\ file' = [file EXCEPT ![Item(p).name] = "none"]
  /\ Removing(p, Item(p).name,
              IF Item(p).op = "rm" THEN Done(p)
              ELSE Goes(p, "write"))
  /\ UNCHANGED <<made, sources, blamed, advised, commands, faults>>

(* A library needs its source, the compiler wrapper and the headers that   *)
(* the wrapper includes; a tree must not have appeared meanwhile.          *)
CanWrite(r) ==
  /\ r \in Libs => r \in sources /\ ~Missing("irix_cc") /\ ~Missing("dicl")

Exists(p) == Item(p).op = "write" /\ Item(p).name \in Trees /\ ~Missing(Item(p).name)

Write(p) ==
  /\ Doing(p) /\ Item(p).op \in {"write", "over"}
  /\ CanWrite(Item(p).name) /\ ~Exists(p)
  /\ file' = [file EXCEPT ![Item(p).name] = "part"]
  /\ Becomes(p, [proc[p] EXCEPT !.at = "writing"])
  /\ UNCHANGED <<made, sources, blamed, advised, commands, faults>>

(* Written: whole, unless another process still writes it.  A writer whose *)
(* tree was removed under it may make the directory anew and not notice.   *)
Written(p) ==
  /\ At(p, "writing")
  /\ LET r == Item(p).name
         busy == \E q \in Procs \ {p} : Writing(q, r) /\ ~proc[q].cut IN
       IF proc[p].cut
         THEN /\ \/ file' = file
                 \/ /\ r \in Trees /\ Missing(r)
                    /\ file' = [file EXCEPT ![r] = "part"]
              /\ blamed' = blamed
         ELSE /\ file' = [file EXCEPT ![r] = IF busy THEN "part" ELSE "whole"]
              /\ blamed' = IF busy THEN blamed ELSE blamed \ {r}
  /\ Becomes(p, Done(p))
  /\ UNCHANGED <<made, sources, advised, commands, faults>>

(* An error: staging.py records it and goes on, the other commands end.    *)
AfterError(p) == IF proc[p].cmd \in Ensures \cup {"sync-headers"} THEN Done(p) ELSE Idle

(* The library cannot be built, or the tree has appeared after the second  *)
(* look: without the wrapper no other library is tried.                    *)
CannotWrite(p) ==
  /\ Doing(p) /\ Item(p).op \in {"write", "over"}
  /\ ~CanWrite(Item(p).name) \/ Exists(p)
  /\ Becomes(p, IF Item(p).name \in Libs /\ Missing("irix_cc") /\ proc[p].cmd \in Ensures
                THEN [proc[p] EXCEPT !.todo = << >>] ELSE AfterError(p))
  /\ blamed' = blamed \cup HalfWritten(p)
  /\ UNCHANGED <<file, made, sources, advised, commands, faults>>

(* The disk is full, the file is gone, the compiler or ar fails.           *)
Fails(p) ==
  /\ faults < MaxFaults /\ faults' = faults + 1
  /\ Doing(p) \/ At(p, "removing") \/ At(p, "writing")
  /\ Becomes(p, LET s == AfterError(p) IN [s EXCEPT !.failed = s.at # "idle"])
  /\ blamed' = blamed \cup HalfWritten(p)
  /\ UNCHANGED <<file, made, sources, advised, commands>>

Killed(p) ==
  /\ faults < MaxFaults /\ faults' = faults + 1
  /\ ~At(p, "idle")
  /\ Becomes(p, Idle)
  /\ blamed' = blamed \cup HalfWritten(p)
  /\ UNCHANGED <<file, made, sources, advised, commands>>

-----------------------------------------------------------------------------
(* The end of a command.                                                   *)

(* ensure_ready() looks again; a convert only warns.                       *)
Recheck(p) ==
  /\ Finished(p) /\ proc[p].cmd \in {"build", "batch-build"}
  /\ Becomes(p, [proc[p] EXCEPT !.at = IF ~Ready THEN "refused"
                                       ELSE IF proc[p].cmd = "build" THEN "validate"
                                       ELSE "building"])
  /\ advised' = (advised \/ ~Ready)
  /\ UNCHANGED <<file, made, sources, blamed, commands, faults>>

(* _validate_cross_env()                                                   *)
Validate(p) ==
  /\ At(p, "validate")
  /\ LET ok == \A w \in Wrappers : ~Missing(w) IN
       /\ Becomes(p, [proc[p] EXCEPT !.at = IF ok THEN "building" ELSE "refused"])
       /\ advised' = (advised \/ ~ok)
  /\ UNCHANGED <<file, made, sources, blamed, commands, faults>>

Ends(p) ==
  /\ At(p, "building") \/ At(p, "refused")
     \/ (Finished(p) /\ proc[p].cmd \notin {"build", "batch-build"})
  /\ Becomes(p, Idle)
  /\ UNCHANGED <<file, made, sources, blamed, advised, commands, faults>>

Command(p) == Ensure(p) \/ SyncHeaders(p) \/ SetupCross(p) \/ Clean(p) \/ Cleanup(p)

Step(p) == \/ Look(p) \/ Unlink(p) \/ Removed(p) \/ Write(p) \/ Written(p)
           \/ CannotWrite(p) \/ Recheck(p) \/ Validate(p)

Next == \E p \in Procs : Command(p) \/ Step(p) \/ Fails(p) \/ Killed(p) \/ Ends(p)

Spec == Init /\ [][Next]_vars

-----------------------------------------------------------------------------
(* A resource that exists is taken for whole by every later command.  One  *)
(* that is not is being written or about to be, or a command was killed    *)
(* over it or reported the error: no course of the commands leaves half a  *)
(* directory in silence.                                                   *)
HalvesAreAccountedFor ==
  \A r \in Names : file[r] = "part" =>
    \/ r \in blamed
    \/ \E p \in Procs : r \in NamesOf(proc[p].todo)

(* A build that no other command ran beside works on the whole base, apart *)
(* from what was left half written before, and build --cross on the        *)
(* wrappers, too.                                                          *)
LoneBuildsHaveTheirBase ==
  \A p \in Procs : At(p, "building") /\ proc[p].alone =>
    \A r \in Required \cup (IF proc[p].cmd = "build" THEN Wrappers ELSE {}) :
      file[r] = "whole" \/ r \in blamed

(* It is refused for a reason: the system failed it, setup-cross has not   *)
(* run to its end, or a library is missing that has no source.  What       *)
(* ensure_ready() can make it makes, in an order that works.               *)
RefusedForAReason ==
  \A p \in Procs : At(p, "refused") /\ proc[p].alone =>
    \/ proc[p].failed
    \/ \E w \in Wrappers : Missing(w)
    \/ \E l \in Libs \ sources : Missing(l)

(* What the code says of itself and does not keep.                         *)

(* "Try running: mogrix setup-cross": setup-cross does not refuse to run   *)
(* when a build that was refused has given this advice.                    *)
AdviceHelps == advised => SetupAccepts
=============================================================================
