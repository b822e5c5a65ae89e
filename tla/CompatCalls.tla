----------------------------- MODULE CompatCalls -----------------------------
(***************************************************************************)
(* The threads of an application in the compat library (src/compat): they  *)
(* open streams with callbacks (CookieOpen), print to descriptors with     *)
(* dprintf(), open terminals with openpty(), set the times of a file with  *)
(* futimens() and utimensat(), and read lines with getdelim().             *)
(***************************************************************************)
EXTENDS CookieOpen, Integers

CONSTANTS
  Programs,     \* the kinds of calls that the threads of an application make
  InitialSize,  \* GETLINE_INITIAL_SIZE
  MaxLine,      \* bound: characters of a line
  MaxClock      \* bound: the last second

Descriptors == {"dprintf", "openpty"}
Times == {"futimens", "utimensat"}

ASSUME CompatAssumption ==
  /\ None \notin Descriptors \cup Times \cup {"getdelim"}
  /\ Programs \subseteq [Threads -> SUBSET {"streams", "descriptors", "times", "lines"}]
  /\ InitialSize \in Nat \ {0} /\ MaxLine \in Nat /\ MaxClock \in Nat \ 0..1

VARIABLES
  program,\* the kinds of calls that each thread makes
  task,   \* what each thread does when it is not in a call of CookieOpen
  file,   \* the times of a file
  clock   \* the time of day, in seconds

compatVars == <<openVars, program, task, file, clock>>

(* A time is a second and a fraction: none, some, or .999999.  What is     *)
(* asked for a time: a value, a value whose tv_nsec is 999999999,          *)
(* UTIME_NOW or UTIME_OMIT.                                                *)
Fields == {"atime", "mtime"}
Asked == {"given", "last", "now", "omit"}
Wants == [Fields -> Asked]
Given(asked) == IF asked = "given" THEN <<7, 1>> ELSE <<7, 2>>
Garbage == <<8, 1>>

(* line: the caller's pointer and size, the buffer, its size, how much of  *)
(* it is used, the blocks that are allocated, and history: the buffer has  *)
(* been moved, memory ran out.  Block 0 is NULL.                           *)
NoLine == [ptr |-> 0, n |-> 0, buf |-> 0, size |-> 0, used |-> 0, live |-> {},
           zero |-> FALSE, moved |-> FALSE, short |-> FALSE]

(* before and since are the times of the file and the clock when the call  *)
(* began; alone is TRUE until somebody else changes the file's times.      *)
NoTask == [function |-> None, pc |-> "idle", fd |-> {}, want |-> None, stat |-> None, now |-> 0,
           before |-> None, since |-> 0, alone |-> TRUE, result |-> 0, line |-> NoLine]

Stamps == [Fields -> Nat \X Nat]

Lines == [ptr : Nat, n : Nat, buf : Nat, size : Nat, used : Nat, live : SUBSET Nat,
          zero : BOOLEAN, moved : BOOLEAN, short : BOOLEAN]

Tasks ==
  [function : Descriptors \cup Times \cup {"getdelim", None},
   pc : {"idle", "first", "second", "fclose", "times", "utimes", "alloc", "chars", "done"},
   fd : SUBSET Fds, want : Wants \cup {None}, stat : Stamps \cup {None}, now : Nat,
   before : Stamps \cup {None}, since : Nat, alone : BOOLEAN, result : Int, line : Lines]

CompatTypeOK ==
  /\ OpenTypeOK
  /\ program \in Programs
  /\ task \in [Threads -> Tasks]
  /\ file \in Stamps
  /\ clock \in 0..MaxClock

CompatInit ==
  /\ OpenInit
  /\ program \in Programs
  /\ task = [t \in Threads |-> NoTask]
  /\ file = [atime |-> <<0, 1>>, mtime |-> <<1, 1>>]
  /\ clock = 2

Doing(t, function, pc) == task[t].function = function /\ task[t].pc = pc
Becomes(t, new) == task' = [task EXCEPT ![t] = new]
Moves(t, pc) == Becomes(t, [task[t] EXCEPT !.pc = pc])
Done(t, result) == Becomes(t, [task[t] EXCEPT !.pc = "done", !.result = result])
TimeStays == UNCHANGED <<program, file, clock>>

Begins(t, kind, new) ==
  /\ kind \in program[t] /\ At(t, "idle") /\ task[t].pc = "idle" /\ calls[t] < MaxCalls
  /\ calls' = [calls EXCEPT ![t] = @ + 1]
  /\ Becomes(t, new)
  /\ UNCHANGED <<owner, call, allocated, foreign>> /\ TimeStays

-----------------------------------------------------------------------------
(* dprintf(): dup, fdopen, vfprintf, fclose.  openpty(): _getpty and open. *)

OpenDescriptor(t) ==
  \E f \in Descriptors : Begins(t, "descriptors", [NoTask EXCEPT !.function = f, !.pc = "first"])

First(t) ==
  /\ task[t].pc = "first"
  /\ \E d \in Fds :
       /\ Free(d) /\ owner' = [owner EXCEPT ![d] = t]
       /\ Becomes(t, [task[t] EXCEPT !.pc = "second", !.fd = {d}])
  /\ UNCHANGED <<call, allocated, calls, foreign>> /\ TimeStays

FirstFails(t) ==
  /\ task[t].pc = "first" /\ Done(t, -1)
  /\ UNCHANGED openVars /\ TimeStays

Slave(t) ==
  /\ Doing(t, "openpty", "second")
  /\ \E d \in Fds :
       /\ Free(d) /\ owner' = [owner EXCEPT ![d] = t]
       /\ Becomes(t, [task[t] EXCEPT !.pc = "done", !.fd = @ \cup {d}])
  /\ UNCHANGED <<call, allocated, calls, foreign>> /\ TimeStays

Formats(t) ==
  /\ Doing(t, "dprintf", "second") /\ Moves(t, "fclose")
  /\ UNCHANGED openVars /\ TimeStays

(* The way out of dprintf(), and of openpty() without the slave.           *)
CloseFirst(t) ==
  /\ task[t].pc = "fclose" \/ task[t].pc = "second"
  /\ \E d \in task[t].fd : ClosesIn(task[t].function, t, d)
  /\ Done(t, IF task[t].pc = "fclose" THEN 0 ELSE -1)
  /\ UNCHANGED <<call, allocated, calls>> /\ TimeStays

-----------------------------------------------------------------------------
(* futimens(), and utimensat() with a path it needs no detour for.         *)

SetTimes(t) ==
  \E f \in Times, want \in Wants \cup {None} :
    Begins(t, "times", [NoTask EXCEPT !.function = f, !.pc = "times", !.want = want,
                                      !.before = file, !.since = clock])

(* gettimeofday() and, for UTIME_OMIT, fstat(); utimensat() knows neither. *)
Stat(t) ==
  /\ task[t].pc = "times"
  /\ Becomes(t, [task[t] EXCEPT !.pc = "utimes", !.stat = file, !.now = clock])
  /\ UNCHANGED openVars /\ TimeStays

StatFails(t) ==
  /\ Doing(t, "futimens", "times") /\ task[t].want # None
  /\ \E f \in Fields : task[t].want[f] = "omit"
  /\ Done(t, -1)
  /\ UNCHANGED openVars /\ TimeStays

(* lstat(): the times of a symbolic link are not set, which is no error.   *)
IsLink(t) ==
  /\ Doing(t, "utimensat", "times")
  /\ Becomes(t, [task[t] EXCEPT !.pc = "done", !.function = None])
  /\ UNCHANGED openVars /\ TimeStays

(* Mistake: st_atime is written for both.                                  *)
KeptAtime(stat, f) == <<stat["atime"][1], 0>>

(* What is left out keeps its second and loses its fraction.               *)
Kept(stat, f) == <<stat[f][1], 0>>

(* The value that utimes() is given; a tv_usec past the second is garbage. *)
Converted(c, f) ==
  CASE c.function = "futimens" /\ c.want[f] = "omit" -> Kept(c.stat, f)
    [] c.function = "futimens" /\ c.want[f] = "now" -> <<c.now, 1>>
    [] c.function = "utimensat" /\ c.want[f] = "last" -> <<c.now, 1>>
    [] c.function = "futimens" /\ c.want[f] = "last" -> Given("last")
    [] c.want[f] = "given" -> Given("given")
    [] OTHER -> Garbage

Writes(t, times) ==
  /\ file' = times
  /\ task' = [u \in Threads |-> IF u = t THEN [task[u] EXCEPT !.pc = "done"]
                                         ELSE [task[u] EXCEPT !.alone = FALSE]]
  /\ UNCHANGED <<openVars, program, clock>>

Utimes(t) ==
  /\ task[t].pc = "utimes"
  /\ Writes(t, [f \in Fields |-> IF task[t].want = None THEN <<clock, 1>>
                                                        ELSE Converted(task[t], f)])

UtimesFails(t) ==
  /\ task[t].pc = "utimes" /\ Done(t, -1)
  /\ UNCHANGED openVars /\ TimeStays

(* Another process writes to the file or reads it, or a second passes.     *)
Touch ==
  /\ \E f \in Fields : file' = [file EXCEPT ![f] = <<clock, 1>>]
  /\ task' = [u \in Threads |-> [task[u] EXCEPT !.alone = FALSE]]
  /\ \E t \in Threads : task[t].function \in Times
  /\ UNCHANGED <<openVars, program, clock>>

Tick ==
  /\ clock < MaxClock /\ \E t \in Threads : task[t].function \in Times
  /\ clock' = clock + 1
  /\ UNCHANGED <<openVars, program, task, file>>

-----------------------------------------------------------------------------
(* getdelim()                                                              *)

ReadLine(t) ==
  \E ptr \in {0, 1}, n \in 0..InitialSize :
    Begins(t, "lines", [NoTask EXCEPT !.function = "getdelim", !.pc = "alloc",
                 !.line = [NoLine EXCEPT !.ptr = ptr, !.n = n, !.live = {ptr} \ {0},
                                  !.zero = (n = 0)]])

(* The caller's buffer, or a new one.                                      *)
Buffer(t) ==
  LET l == task[t].line IN
  /\ Doing(t, "getdelim", "alloc")
  /\ Becomes(t, [task[t] EXCEPT !.pc = "chars", !.line =
       IF l.ptr # 0 /\ l.n # 0 THEN [l EXCEPT !.buf = l.ptr, !.size = l.n]
       ELSE [l EXCEPT !.buf = 2, !.size = InitialSize, !.live = @ \cup {2}]])
  /\ UNCHANGED openVars /\ TimeStays

NoBuffer(t) ==
  LET l == task[t].line IN
  /\ Doing(t, "getdelim", "alloc") /\ (l.ptr = 0 \/ l.n = 0)
  /\ Becomes(t, [task[t] EXCEPT !.pc = "done", !.result = -1,
                                !.line = [l EXCEPT !.short = TRUE]])
  /\ UNCHANGED openVars /\ TimeStays

(* Mistake: no room for the terminator.                                    *)
FullLate(used, size) == used + 1 > size

(* Space for the character and the terminator.                             *)
Full(used, size) == used + 2 > size

(* realloc(), which may move the block.                                    *)
Grown(l) ==
  LET new == 1 + CHOOSE b \in l.live : \A x \in l.live : x <= b IN
  {[l EXCEPT !.size = 2 * @],
   [l EXCEPT !.size = 2 * @, !.buf = new, !.live = (@ \ {l.buf}) \cup {new}, !.moved = TRUE]}

(* A character, the delimiter or another one.                              *)
Char(t) ==
  LET l == task[t].line IN
  /\ Doing(t, "getdelim", "chars") /\ l.used < MaxLine
  /\ \E g \in IF Full(l.used, l.size) THEN Grown(l) ELSE {l} :
       \/ Becomes(t, [task[t] EXCEPT !.line = [g EXCEPT !.used = @ + 1]])
       \/ Becomes(t, [task[t] EXCEPT !.pc = "done", !.result = g.used + 1,
            !.line = [g EXCEPT !.used = @ + 1, !.ptr = g.buf, !.n = g.size]])
  /\ UNCHANGED openVars /\ TimeStays

(* ENOMEM: the caller's pointer is left as it was.                         *)
CannotGrow(t) ==
  LET l == task[t].line IN
  /\ Doing(t, "getdelim", "chars") /\ Full(l.used, l.size)
  /\ Becomes(t, [task[t] EXCEPT !.pc = "done", !.result = -1,
                                !.line = [l EXCEPT !.short = TRUE]])
  /\ UNCHANGED openVars /\ TimeStays

EndOfFile(t) ==
  LET l == task[t].line IN
  /\ Doing(t, "getdelim", "chars")
  /\ Becomes(t, [task[t] EXCEPT !.pc = "done", !.result = IF l.used = 0 THEN -1 ELSE l.used,
                                !.line = [l EXCEPT !.ptr = l.buf, !.n = l.size]])
  /\ UNCHANGED openVars /\ TimeStays

-----------------------------------------------------------------------------
(* The caller goes on: it closes its terminal and frees its line.          *)
GoesOn(t) ==
  /\ task[t].pc = "done"
  /\ Becomes(t, NoTask)
  /\ owner' = [d \in Fds |-> IF d \in task[t].fd /\ owner[d] = t THEN None ELSE owner[d]]
  /\ UNCHANGED <<call, allocated, calls, foreign>> /\ TimeStays

CookieStep(t) == "streams" \in program[t] /\ task[t].pc = "idle" /\ Step(t) /\ UNCHANGED <<program, task, file, clock>>

DescriptorStep(t) == \/ OpenDescriptor(t) \/ First(t) \/ FirstFails(t) \/ Slave(t)
                     \/ Formats(t) \/ CloseFirst(t)
TimesStep(t) == \/ SetTimes(t) \/ Stat(t) \/ StatFails(t) \/ IsLink(t)
                \/ Utimes(t) \/ UtimesFails(t)
LineStep(t) == \/ ReadLine(t) \/ Buffer(t) \/ NoBuffer(t) \/ Char(t) \/ CannotGrow(t)
               \/ EndOfFile(t)

CompatNext ==
  \/ \E t \in Threads : \/ CookieStep(t) \/ DescriptorStep(t) \/ TimesStep(t) \/ LineStep(t)
                        \/ GoesOn(t)
  \/ Touch \/ Tick

CompatSpec == CompatInit /\ [][CompatNext]_compatVars

-----------------------------------------------------------------------------
(* No function leaves a descriptor or memory behind, on whichever way out: *)
(* the stream functions when they fail, dprintf() ever, openpty() when it  *)
(* has no terminal to return.                                              *)
NothingIsLeaked ==
  /\ NothingLeaked
  /\ \A t \in Threads :
       Doing(t, "dprintf", "done") \/ (Doing(t, "openpty", "done") /\ task[t].result = -1)
         => \A d \in task[t].fd : owner[d] # t

(* Nobody else having changed the times meanwhile, a call that fails has   *)
(* changed nothing, and one that succeeds has left in both fields:         *)
(*   - the value it was given, and for "now" a time within the call;       *)
(*   - futimens() with UTIME_OMIT: the second the file had in that field,  *)
(*     whose fraction is lost, though utimes() could have kept it;         *)
(*   - utimensat() with UTIME_NOW or UTIME_OMIT: a time nobody asked for,  *)
(*     for it knows neither; it takes tv_nsec 999999999 for "now".         *)
TimesAsAsked ==
  \A t \in Threads :
    LET c == task[t]
        asked(f) == IF c.want = None THEN "now"
                    ELSE IF c.function = "futimens" THEN c.want[f]
                    ELSE CASE c.want[f] = "last" -> "now"
                           [] c.want[f] \in {"now", "omit"} -> "unknown"
                           [] OTHER -> c.want[f]
    IN c.function \in Times /\ c.pc = "done" /\ c.alone =>
         IF c.result = -1 THEN file = c.before
         ELSE \A f \in Fields :
                \/ asked(f) = "now" /\ file[f] \in (c.since..clock) \X {1}
                \/ asked(f) = "omit" /\ file[f] = <<c.before[f][1], 0>>
                \/ asked(f) = "unknown" /\ file[f] = Garbage
                \/ asked(f) \in {"given", "last"} /\ file[f] = Given(asked(f))

(* A line that is returned ends inside its block, and the caller has the   *)
(* block and no other is lost.  When memory runs out, the new block is     *)
(* lost, and a line that had moved leaves the caller with a pointer to     *)
(* freed memory; a pointer of size 0 is lost whatever happens.             *)
LinesAreSound ==
  \A t \in Threads :
    LET l == task[t].line IN
    Doing(t, "getdelim", "done") =>
      /\ task[t].result # -1 => l.used < l.n /\ l.ptr \in l.live
      /\ l.ptr # 0 => l.ptr \in l.live \/ (l.short /\ l.moved)
      /\ l.live \subseteq {l.ptr} \cup (IF l.zero THEN {1} ELSE {}) \/ l.short
=============================================================================
