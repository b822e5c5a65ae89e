----------------------------- MODULE CookieOpen -----------------------------
(***************************************************************************)
(* How a stream with callbacks comes to be: funopen() and fopencookie()    *)
(* (compat/stdio) make a pipe, a FILE on one end and a thread that owns    *)
(* the other, or fail half way and clean up.  open_memstream() allocates  *)
(* its own two blocks and calls funopen(), which refuses its seek callback.*)
(*  The threads of a process share its descriptors: what one *)
(* closes twice may belong to another the second time.  CookieStream is    *)
(* what happens once the stream is open.                                   *)
(***************************************************************************)
EXTENDS Naturals

CONSTANTS
  Threads,    \* the threads of the application
  Fds,        \* the descriptors the process can have
  Functions,  \* the functions they call
  MaxCalls,   \* bound: calls of each thread
  None

StreamFunctions == {"funopen", "fopencookie", "open_memstream"}

ASSUME OpenAssumption ==
  /\ Functions \subseteq StreamFunctions
  /\ MaxCalls \in Nat
  /\ None \notin Fds /\ None \notin Threads /\ None \notin StreamFunctions

VARIABLES
  owner,    \* who has opened each descriptor
  call,     \* the call each thread is in
  allocated,\* how many blocks of memory each call has
  calls,    \* bound: calls of each thread
  foreign   \* history: the first function to close a descriptor of another thread

openVars == <<owner, call, allocated, calls, foreign>>

(* The FILE's end of the pipe, "app", and the thread's, "proxy".           *)
Ends == {"app", "proxy"}

OpenPCs == {"idle", "stream", "buffer", "entered", "pipe", "fdopen", "thread", "closeApp",
            "closeProxy", "fclose", "free", "freeBuffer", "freeStream", "ok", "failed"}

(* fd is p[]; file is the descriptor of the FILE, if there is one.         *)
Idle == [pc |-> "idle", function |-> "funopen", seek |-> FALSE,
         fd |-> [e \in Ends |-> None], file |-> None]

OpenTypeOK ==
  /\ owner \in [Fds -> Threads \cup {None}]
  /\ allocated \in [Threads -> 0..2]
  /\ calls \in [Threads -> 0..MaxCalls]
  /\ foreign \in StreamFunctions \cup {None}
  /\ call \in [Threads -> [pc : OpenPCs, function : StreamFunctions, seek : BOOLEAN,
                           fd : [Ends -> Fds \cup {None}], file : Fds \cup {None}]]

OpenInit ==
  /\ owner = [d \in Fds |-> None]
  /\ call = [t \in Threads |-> Idle]
  /\ allocated = [t \in Threads |-> 0]
  /\ calls = [t \in Threads |-> 0]
  /\ foreign = None

At(t, pc) == call[t].pc = pc
Goes(t, pc) == call' = [call EXCEPT ![t].pc = pc]
Free(d) == owner[d] = None

(* close(d) in a function: the descriptor is free whoever had opened it.   *)
ClosesIn(function, t, d) ==
  /\ owner' = IF d = None THEN owner ELSE [owner EXCEPT ![d] = None]
  /\ foreign' = IF foreign = None /\ d # None /\ owner[d] \in Threads \ {t}
                 THEN function ELSE foreign

Closes(t, d) == ClosesIn(call[t].function, t, d)

-----------------------------------------------------------------------------
(* Mistakes the properties must tell from the code; no part of OpenNext.   *)

(* fopencookie() without p[wr] = -1.                                       *)
FdopenKeepingFd(t) ==
  /\ At(t, "fdopen")
  /\ call' = [call EXCEPT ![t].pc = "thread", ![t].file = call[t].fd["app"]]
  /\ UNCHANGED <<owner, allocated, calls, foreign>>

(* The error path returns when the pipe's ends are closed.                 *)
CloseProxyReturns(t) ==
  /\ At(t, "closeProxy")
  /\ Closes(t, call[t].fd["proxy"])
  /\ Goes(t, "failed")
  /\ UNCHANGED <<allocated, calls>>

(* open_memstream() returns when there is no memory for its buffer.        *)
BufferFailsReturning(t) ==
  /\ At(t, "buffer")
  /\ \/ allocated' = [allocated EXCEPT ![t] = @ + 1] /\ Goes(t, "entered")
     \/ allocated' = allocated /\ Goes(t, "failed")
  /\ UNCHANGED <<owner, calls, foreign>>

-----------------------------------------------------------------------------
(* The application opens and closes files of its own.                      *)
OpensFile(t) ==
  /\ At(t, "idle") /\ \E d \in Fds : Free(d) /\ owner' = [owner EXCEPT ![d] = t]
  /\ UNCHANGED <<call, allocated, calls, foreign>>

ClosesFile(t) ==
  /\ At(t, "idle")
  /\ \E d \in Fds : owner[d] = t /\ owner' = [owner EXCEPT ![d] = None]
  /\ UNCHANGED <<call, allocated, calls, foreign>>

(* A new call; open_memstream() will call funopen() with a seek callback.  *)
Open(t) ==
  /\ At(t, "idle") /\ calls[t] < MaxCalls
  /\ calls' = [calls EXCEPT ![t] = @ + 1]
  /\ \E f \in Functions, seek \in BOOLEAN :
       /\ f = "open_memstream" => seek
       /\ call' = [call EXCEPT ![t] =
            [Idle EXCEPT !.pc = IF f = "open_memstream" THEN "stream" ELSE "entered",
                         !.function = f, !.seek = seek]]
  /\ UNCHANGED <<owner, allocated, foreign>>

(* open_memstream(): its struct memstream; or NULL arguments, or no memory.*)
AllocateStream(t) ==
  /\ At(t, "stream")
  /\ \/ allocated' = [allocated EXCEPT ![t] = @ + 1] /\ Goes(t, "buffer")
     \/ allocated' = allocated /\ Goes(t, "failed")
  /\ UNCHANGED <<owner, calls, foreign>>

(* Its buffer; then it calls funopen().                                    *)
AllocateBuffer(t) ==
  /\ At(t, "buffer")
  /\ \/ allocated' = [allocated EXCEPT ![t] = @ + 1] /\ Goes(t, "entered")
     \/ allocated' = allocated /\ Goes(t, "freeStream")
  /\ UNCHANGED <<owner, calls, foreign>>

(* A seek callback, or a mode that is not supported: ENOTSUP or EINVAL.    *)
(* open_memstream() gets the NULL and frees what it has.                   *)
Refuse(t) ==
  /\ At(t, "entered")
  /\ Goes(t, IF call[t].function = "open_memstream" THEN "freeBuffer" ELSE "failed")
  /\ UNCHANGED <<owner, allocated, calls, foreign>>

Allocate(t) ==
  /\ At(t, "entered") /\ ~call[t].seek
  /\ \/ allocated' = [allocated EXCEPT ![t] = @ + 1] /\ Goes(t, "pipe")
     \/ allocated' = allocated /\ Goes(t, "failed")
  /\ UNCHANGED <<owner, calls, foreign>>

Pipe(t) ==
  /\ At(t, "pipe")
  /\ \E a, b \in Fds :
       /\ a # b /\ Free(a) /\ Free(b)
       /\ owner' = [owner EXCEPT ![a] = t, ![b] = t]
       /\ call' = [call EXCEPT ![t].pc = "fdopen",
                               ![t].fd = [e \in Ends |-> IF e = "app" THEN a ELSE b]]
  /\ UNCHANGED <<allocated, calls, foreign>>

PipeFails(t) ==
  /\ At(t, "pipe") /\ Goes(t, "free")
  /\ UNCHANGED <<owner, allocated, calls, foreign>>

(* fopencookie() forgets the number (p[wr] = -1), funopen() does not.      *)
Fdopen(t) ==
  /\ At(t, "fdopen")
  /\ call' = [call EXCEPT ![t].pc = "thread", ![t].file = call[t].fd["app"],
                ![t].fd["app"] = IF call[t].function = "fopencookie" THEN None ELSE @]
  /\ UNCHANGED <<owner, allocated, calls, foreign>>

FdopenFails(t) ==
  /\ At(t, "fdopen") /\ Goes(t, "closeApp")
  /\ UNCHANGED <<owner, allocated, calls, foreign>>

ThreadStarts(t) ==
  /\ At(t, "thread") /\ Goes(t, "ok")
  /\ UNCHANGED <<owner, allocated, calls, foreign>>

ThreadFails(t) ==
  /\ At(t, "thread") /\ Goes(t, "closeApp")
  /\ UNCHANGED <<owner, allocated, calls, foreign>>

-----------------------------------------------------------------------------
(* err:                                                                    *)

CloseApp(t) ==
  /\ At(t, "closeApp")
  /\ Closes(t, call[t].fd["app"])
  /\ Goes(t, "closeProxy")
  /\ UNCHANGED <<allocated, calls>>

CloseProxy(t) ==
  /\ At(t, "closeProxy")
  /\ Closes(t, call[t].fd["proxy"])
  /\ Goes(t, "fclose")
  /\ UNCHANGED <<allocated, calls>>

Fclose(t) ==
  /\ At(t, "fclose")
  /\ Closes(t, call[t].file)
  /\ Goes(t, "free")
  /\ UNCHANGED <<allocated, calls>>

FreeContext(t) ==
  /\ At(t, "free") /\ Goes(t, "failed")
  /\ allocated' = [allocated EXCEPT ![t] = @ - 1]
  /\ UNCHANGED <<owner, calls, foreign>>

(* open_memstream() without a FILE frees its buffer and its struct.        *)
FreeBuffer(t) ==
  /\ At(t, "freeBuffer") /\ Goes(t, "freeStream")
  /\ allocated' = [allocated EXCEPT ![t] = @ - 1]
  /\ UNCHANGED <<owner, calls, foreign>>

FreeStream(t) ==
  /\ At(t, "freeStream") /\ Goes(t, "failed")
  /\ allocated' = [allocated EXCEPT ![t] = @ - 1]
  /\ UNCHANGED <<owner, calls, foreign>>

(* The caller has its NULL, or its FILE, which is used, closed and         *)
(* forgotten: see CookieStream.                                            *)
Returns(t) ==
  /\ call[t].pc \in {"ok", "failed"}
  /\ owner' = [d \in Fds |-> IF At(t, "ok") /\ d \in {call[t].file, call[t].fd["proxy"]}
                               THEN None ELSE owner[d]]
  /\ allocated' = [allocated EXCEPT ![t] = IF At(t, "ok") THEN 0 ELSE @]
  /\ call' = [call EXCEPT ![t] = Idle]
  /\ UNCHANGED <<calls, foreign>>

Fails(t) == \/ Refuse(t) \/ PipeFails(t) \/ FdopenFails(t) \/ ThreadFails(t)
            \/ CloseApp(t) \/ CloseProxy(t) \/ Fclose(t) \/ FreeContext(t)
            \/ FreeBuffer(t) \/ FreeStream(t)

Step(t) == \/ OpensFile(t) \/ ClosesFile(t) \/ Open(t)
           \/ AllocateStream(t) \/ AllocateBuffer(t) \/ Allocate(t)
           \/ Pipe(t) \/ Fdopen(t) \/ ThreadStarts(t) \/ Fails(t) \/ Returns(t)

OpenNext == \E t \in Threads : Step(t)

OpenSpec == OpenInit /\ [][OpenNext]_openVars

-----------------------------------------------------------------------------
(* A call that failed, at whichever step, has closed what it opened and    *)
(* freed what it allocated, open_memstream() both of its blocks too.       *)
NothingLeaked ==
  \A t \in Threads : At(t, "failed") =>
    /\ \A d \in {call[t].fd["app"], call[t].fd["proxy"], call[t].file} \ {None} :
         owner[d] # t
    /\ allocated[t] = 0

(* Whatever way out it takes, no function but funopen() closes a           *)
(* descriptor that another thread has opened since (unless funopen() has   *)
(* taken one of its own away before): fopencookie() forgets the number it  *)
(* has given to the FILE.                                                  *)
OnlyFunopenClosesForeign == foreign \in {None, "funopen"}
=============================================================================
