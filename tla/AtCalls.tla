------------------------------ MODULE AtCalls ------------------------------
(***************************************************************************)
(* compat/dicl/openat-compat.c: the POSIX "at" functions for a system that *)
(* has none.  A call saves the working directory in a descriptor, changes  *)
(* to the directory it was given, does the plain operation there, and      *)
(* changes back.  The working directory belongs to the whole process, so   *)
(* every other thread sees the detour ("Not thread-safe!", line 8).        *)
(*                                                                         *)
(* Four shapes of call cover the file's functions:                         *)
(*   "open"   openat: gives a descriptor back, reports a failed return     *)
(*   "one"    fstatat, faccessat, mkdirat, unlinkat, readlinkat, symlinkat,*)
(*            fchmodat, fchownat, mkfifoat, mknodat, and utimensat without *)
(*            AT_SYMLINK_NOFOLLOW: one directory                           *)
(*   "utime"  utimensat with AT_SYMLINK_NOFOLLOW: looks at the file first, *)
(*            with a detour of its own                                     *)
(*   "two"    renameat, linkat: builds full paths in up to two directories *)
(* Each system call is a step; any of them may fail.                       *)
(***************************************************************************)
EXTENDS Naturals

CONSTANTS
  Callers,   \* the threads that make calls
  Dirs,      \* directories
  AtCwd,     \* the directory argument AT_FDCWD
  Abs,       \* stands for any directory argument, with an absolute path
  None

ASSUME DirAssumption ==
  /\ AtCwd \notin Dirs /\ Abs \notin Dirs /\ None \notin Dirs
  /\ AtCwd # Abs /\ AtCwd # None /\ Abs # None

Bases == Dirs \cup {AtCwd, Abs}
Kinds == {"open", "one", "utime", "two"}

VARIABLES
  cwd,       \* the working directory of the process
  pc,        \* per caller: the next system call; "idle" outside a call,
             \* "returned" while the caller looks at what it got
  call,      \* per caller: the arguments of its call
  saved,     \* per caller: the directory its descriptor saved_cwd refers to
  full,      \* per caller: the directories in old_fullpath and new_fullpath
  did,       \* per caller: where the operation's paths were resolved
  ret,       \* per caller: what the call returned
  resultFd,  \* per caller: the descriptor openat opened is open
  entry,     \* history: the working directory when the call began, None once
             \* another call has overlapped this one
  lost       \* history: an fchdir(saved_cwd) of this call failed

vars == <<cwd, pc, call, saved, full, did, ret, resultFd, entry, lost>>

Calls == [kind : Kinds, base : Bases, base2 : Bases]
Pairs == [old : Bases \cup {None}, new : Bases \cup {None}]
Nowhere == [old |-> None, new |-> None]

NoCall == [kind |-> "one", base |-> Abs, base2 |-> Abs]

Points == {"idle", "returned", "direct", "peekSave", "peekChdir", "peek", "peekBack",
           "save", "chdir", "chdirOld", "getcwdOld", "backOld",
           "chdirNew", "getcwdNew", "backNew", "op", "restore"}
Outside == {"idle", "returned"}

TypeOK ==
  /\ cwd \in Dirs
  /\ pc \in [Callers -> Points]
  /\ call \in [Callers -> Calls]
  /\ saved \in [Callers -> Dirs \cup {None}]
  /\ full \in [Callers -> Pairs]
  /\ did \in [Callers -> Pairs]
  /\ ret \in [Callers -> {"none", "ok", "fail"}]
  /\ resultFd \in [Callers -> BOOLEAN]
  /\ entry \in [Callers -> Dirs \cup {None}]
  /\ lost \in [Callers -> BOOLEAN]

Init ==
  /\ cwd \in Dirs
  /\ pc = [c \in Callers |-> "idle"]
  /\ call = [c \in Callers |-> NoCall]
  /\ saved = [c \in Callers |-> None]
  /\ full = [c \in Callers |-> Nowhere]
  /\ did = [c \in Callers |-> Nowhere]
  /\ ret = [c \in Callers |-> "none"]
  /\ resultFd = [c \in Callers |-> FALSE]
  /\ entry = [c \in Callers |-> None]
  /\ lost = [c \in Callers |-> FALSE]

-----------------------------------------------------------------------------
(* dirfd == AT_FDCWD || is_absolute_path(pathname)                         *)
Plain(base) == base \in {AtCwd, Abs}

(* Where a path is looked up: relative to b, in a process whose working    *)
(* directory is d.                                                         *)
Lookup(b, d) == IF b = AtCwd THEN d ELSE b

args    == <<call, entry>>
results == <<did, ret, resultFd>>

Goto(c, point) == pc' = [pc EXCEPT ![c] = point]

Return(c, value) ==
  /\ Goto(c, "returned")
  /\ ret' = [ret EXCEPT ![c] = value]

(* Mistake: saved_cwd is left open on the way out.                         *)
GiveUpOpen(c) ==
  /\ Return(c, "fail")
  /\ full' = [full EXCEPT ![c] = Nowhere]
  /\ UNCHANGED <<saved, did, resultFd>>

(* A system call that fails before anything was done: the function closes  *)
(* saved_cwd if it is open, frees old_fullpath, restores errno and returns *)
(* -1.                                                                     *)
GiveUp(c) ==
  /\ Return(c, "fail")
  /\ saved' = [saved EXCEPT ![c] = None]
  /\ full' = [full EXCEPT ![c] = Nowhere]
  /\ UNCHANGED <<did, resultFd>>

(* fchdir(saved_cwd), whose failure may go unnoticed.                      *)
ChdirBack(c) ==
  \/ cwd' = saved[c] /\ lost' = lost
  \/ cwd' = cwd /\ lost' = [lost EXCEPT ![c] = TRUE]

(* After save_cwd(): which directory comes first.                          *)
FirstPoint(k) ==
  IF k.kind # "two" THEN "chdir"
  ELSE IF ~Plain(k.base) THEN "chdirOld" ELSE "chdirNew"

AfterOld(k) == IF Plain(k.base2) THEN "op" ELSE "chdirNew"

Entered(k) ==
  IF Plain(k.base) /\ (k.kind = "two" => Plain(k.base2)) THEN "direct"
  ELSE IF k.kind = "utime" THEN "peekSave" ELSE "save"

(* Where the other callers are.                                            *)
Others(c) == {pc[x] : x \in Callers \ {c}}

Begin(c) ==
  /\ pc[c] = "idle"
  /\ \E k \in Calls :
       /\ k.kind # "two" => k.base2 = Abs
       /\ call' = [call EXCEPT ![c] = k]
       /\ Goto(c, Entered(k))
  /\ entry' = [x \in Callers |->
                 IF x = c
                 THEN IF Others(c) \subseteq Outside THEN cwd ELSE None
                 ELSE IF pc[x] \in Outside THEN entry[x] ELSE None]
  /\ UNCHANGED <<cwd, saved, full, results, lost>>

(* The caller has looked at the result, and closes what openat gave it.    *)
Finish(c) ==
  /\ pc[c] = "returned"
  /\ Goto(c, "idle")
  /\ call' = [call EXCEPT ![c] = NoCall]
  /\ did' = [did EXCEPT ![c] = Nowhere]
  /\ ret' = [ret EXCEPT ![c] = "none"]
  /\ resultFd' = [resultFd EXCEPT ![c] = FALSE]
  /\ entry' = [entry EXCEPT ![c] = None]
  /\ lost' = [lost EXCEPT ![c] = FALSE]
  /\ UNCHANGED <<cwd, saved, full>>

(* AT_FDCWD or an absolute path: the plain operation and nothing else.     *)
(* utimensat may find a symbolic link, which it leaves alone.              *)
Direct(c) ==
  /\ pc[c] = "direct"
  /\ \/ /\ Return(c, "ok")
        /\ did' = [did EXCEPT ![c] = [old |-> Lookup(call[c].base, cwd),
                                      new |-> Lookup(call[c].base2, cwd)]]
        /\ resultFd' = [resultFd EXCEPT ![c] = call[c].kind = "open"]
     \/ call[c].kind = "utime" /\ Return(c, "ok") /\ UNCHANGED <<did, resultFd>>
     \/ Return(c, "fail") /\ UNCHANGED <<did, resultFd>>
  /\ UNCHANGED <<cwd, args, saved, full, lost>>

-----------------------------------------------------------------------------
(* utimensat with AT_SYMLINK_NOFOLLOW: is the file a symbolic link?        *)

(* No descriptor to save the directory in: the look is left out.           *)
PeekSave(c) ==
  /\ pc[c] = "peekSave"
  /\ \/ saved' = [saved EXCEPT ![c] = cwd] /\ Goto(c, "peekChdir")
     \/ saved' = saved /\ Goto(c, "save")
  /\ UNCHANGED <<cwd, args, full, results, lost>>

PeekChdir(c) ==
  /\ pc[c] = "peekChdir"
  /\ \/ cwd' = call[c].base /\ Goto(c, "peek")
     \/ cwd' = cwd /\ Goto(c, "peekBack")
  /\ UNCHANGED <<args, saved, full, results, lost>>

(* Mistake: the early return closes saved_cwd but does not change back.    *)
PeekLinkStays(c) ==
  /\ pc[c] = "peek"
  /\ saved' = [saved EXCEPT ![c] = None]
  /\ Return(c, "ok")
  /\ UNCHANGED <<cwd, args, full, did, resultFd, lost>>

(* A symbolic link: restore_cwd() and return 0.                            *)
PeekLink(c) ==
  /\ pc[c] = "peek"
  /\ ChdirBack(c)
  /\ saved' = [saved EXCEPT ![c] = None]
  /\ Return(c, "ok")
  /\ UNCHANGED <<args, full, did, resultFd>>

PeekNoLink(c) ==
  /\ pc[c] = "peek"
  /\ Goto(c, "peekBack")
  /\ UNCHANGED <<cwd, args, saved, full, results, lost>>

PeekBack(c) ==
  /\ pc[c] = "peekBack"
  /\ ChdirBack(c)
  /\ saved' = [saved EXCEPT ![c] = None]
  /\ Goto(c, "save")
  /\ UNCHANGED <<args, full, results>>

-----------------------------------------------------------------------------
(* saved_cwd = save_cwd();                                                 *)
Save(c) ==
  /\ pc[c] = "save"
  /\ \/ /\ saved' = [saved EXCEPT ![c] = cwd]
        /\ Goto(c, FirstPoint(call[c]))
        /\ UNCHANGED <<full, results>>
     \/ GiveUp(c)
  /\ UNCHANGED <<cwd, args, lost>>

(* fchdir(dirfd)                                                           *)
Chdir(c) ==
  /\ pc[c] = "chdir"
  /\ \/ cwd' = call[c].base /\ Goto(c, "op") /\ UNCHANGED <<saved, full, results>>
     \/ cwd' = cwd /\ GiveUp(c)
  /\ UNCHANGED <<args, lost>>

(* renameat and linkat: into a directory, note its path, and back.         *)
ChdirFor(c, here, base, next) ==
  /\ pc[c] = here
  /\ \/ cwd' = base /\ Goto(c, next) /\ UNCHANGED <<saved, full, results>>
     \/ cwd' = cwd /\ GiveUp(c)
  /\ UNCHANGED <<args, lost>>

ChdirOld(c) == ChdirFor(c, "chdirOld", call[c].base, "getcwdOld")
ChdirNew(c) == ChdirFor(c, "chdirNew", call[c].base2, "getcwdNew")

(* getcwd() or malloc() fails: fchdir(saved_cwd), unchecked, and give up.  *)
GetcwdFails(c) ==
  /\ pc[c] \in {"getcwdOld", "getcwdNew"}
  /\ ChdirBack(c)
  /\ GiveUp(c)
  /\ UNCHANGED args

GetcwdOld(c) ==
  /\ pc[c] = "getcwdOld"
  /\ full' = [full EXCEPT ![c] = [old |-> cwd, new |-> full[c].new]]
  /\ Goto(c, "backOld")
  /\ UNCHANGED <<cwd, args, saved, results, lost>>

(* Mistake: the block for newpath, copied, still fills old_fullpath.       *)
GetcwdNewCopied(c) ==
  /\ pc[c] = "getcwdNew"
  /\ full' = [full EXCEPT ![c] = [old |-> cwd, new |-> full[c].new]]
  /\ Goto(c, "backNew")
  /\ UNCHANGED <<cwd, args, saved, results, lost>>

GetcwdNew(c) ==
  /\ pc[c] = "getcwdNew"
  /\ full' = [full EXCEPT ![c] = [old |-> full[c].old, new |-> cwd]]
  /\ Goto(c, "backNew")
  /\ UNCHANGED <<cwd, args, saved, results, lost>>

Back(c) ==
  /\ pc[c] \in {"backOld", "backNew"}
  /\ ChdirBack(c)
  /\ Goto(c, IF pc[c] = "backOld" THEN AfterOld(call[c]) ELSE "op")
  /\ UNCHANGED <<args, saved, full, results>>

(* The plain operation.  It looks up a full path as it is, and any other   *)
(* relative path in the working directory of the moment.                   *)
OpPaths(c) ==
  IF call[c].kind # "two" THEN [old |-> cwd, new |-> Abs]
  ELSE [old |-> IF Plain(call[c].base) THEN Lookup(call[c].base, cwd) ELSE full[c].old,
        new |-> IF Plain(call[c].base2) THEN Lookup(call[c].base2, cwd) ELSE full[c].new]

Operate(c) ==
  /\ pc[c] = "op"
  /\ \/ /\ did' = [did EXCEPT ![c] = OpPaths(c)]
        /\ ret' = [ret EXCEPT ![c] = "ok"]
        /\ resultFd' = [resultFd EXCEPT ![c] = call[c].kind = "open"]
     \/ /\ ret' = [ret EXCEPT ![c] = "fail"]
        /\ UNCHANGED <<did, resultFd>>
  /\ full' = [full EXCEPT ![c] = Nowhere]
  /\ Goto(c, "restore")
  /\ UNCHANGED <<cwd, args, saved, lost>>

(* Mistake: openat ignores the result like the others.                     *)
RestoreUnchecked(c) ==
  /\ pc[c] = "restore"
  /\ ChdirBack(c)
  /\ saved' = [saved EXCEPT ![c] = None]
  /\ Goto(c, "returned")
  /\ UNCHANGED <<args, full, results>>

(* restore_cwd(saved_cwd).  Only openat looks at the result: it closes the *)
(* file it opened and returns -1.                                          *)
Restore(c) ==
  /\ pc[c] = "restore"
  /\ saved' = [saved EXCEPT ![c] = None]
  /\ \/ /\ cwd' = saved[c]
        /\ UNCHANGED <<ret, resultFd, lost>>
     \/ /\ cwd' = cwd
        /\ lost' = [lost EXCEPT ![c] = TRUE]
        /\ IF call[c].kind = "open"
           THEN /\ ret' = [ret EXCEPT ![c] = "fail"]
                /\ resultFd' = [resultFd EXCEPT ![c] = FALSE]
           ELSE UNCHANGED <<ret, resultFd>>
  /\ Goto(c, "returned")
  /\ UNCHANGED <<args, full, did>>

Step(c) ==
  \/ Begin(c) \/ Direct(c) \/ Finish(c)
  \/ PeekSave(c) \/ PeekChdir(c) \/ PeekLink(c) \/ PeekNoLink(c) \/ PeekBack(c)
  \/ Save(c) \/ Chdir(c) \/ ChdirOld(c) \/ ChdirNew(c)
  \/ GetcwdFails(c) \/ GetcwdOld(c) \/ GetcwdNew(c) \/ Back(c)
  \/ Operate(c) \/ Restore(c)

Next == \E c \in Callers : Step(c)

Spec == Init /\ [][Next]_vars

-----------------------------------------------------------------------------
(* No path through a call, failing or not, leaves anything behind:         *)
(* saved_cwd is closed and the full paths are freed when the call is over, *)
(* and the file openat opened is open only if its caller was told so.      *)
NothingLeaked ==
  \A c \in Callers : pc[c] \in Outside =>
    /\ saved[c] = None /\ full[c] = Nowhere
    /\ resultFd[c] => call[c].kind = "open" /\ ret[c] = "ok"

(* A call that no other call overlaps does what POSIX says: the operation  *)
(* it reports was done in the directories it was given.  renameat and      *)
(* linkat need more: an unchecked fchdir(saved_cwd) must not fail.         *)
RightDirectory ==
  \A c \in Callers :
    /\ pc[c] = "returned" /\ ret[c] = "ok" /\ did[c] # Nowhere
    /\ entry[c] # None
    /\ call[c].kind = "two" => ~lost[c]
    => did[c] = [old |-> Lookup(call[c].base, entry[c]),
                 new |-> Lookup(call[c].base2, entry[c])]

(* openat never reports success with the working directory lost.           *)
OpenReportsLoss ==
  \A c \in Callers : call[c].kind = "open" /\ ret[c] = "ok" /\ pc[c] = "returned" =>
    ~lost[c]

(* A call that no other call overlaps gives the working directory back as  *)
(* it found it, on every path out, unless an fchdir(saved_cwd) failed.     *)
Returns(c) == pc[c] # "returned" /\ pc'[c] = "returned"

CwdGivenBack ==
  [][\A c \in Callers :
       (Returns(c) /\ entry[c] # None /\ ~lost'[c]) => cwd' = entry[c]]_vars

=============================================================================
