---------------------------- MODULE CookieStream ----------------------------
(***************************************************************************)
(* The running half of compat/stdio/funopen.c and compat/stdio/fopencookie.c*)
(* (both have the same loop): a FILE whose other side is a callback.  The  *)
(* FILE holds one end of a pipe; a detached proxy thread holds the other   *)
(* end and moves bytes between it and the callback.                        *)
(*                                                                         *)
(*   reading stream:  readfn --> ctx->buf --> pipe --> application         *)
(*   writing stream:  application --> pipe --> ctx->buf --> writefn        *)
(*                                                                         *)
(* The application, the proxy thread and the callbacks interleave freely;  *)
(* callbacks may take or give fewer bytes than asked, or fail; the         *)
(* application may close at any moment.  The retry of an interrupted call  *)
(* (EINTR) leaves every variable as it is, so it is a stuttering step.     *)
(***************************************************************************)
EXTENDS Naturals, Sequences

CONSTANTS
  Data,           \* the bytes
  PipeCapacity,   \* bytes the kernel's pipe holds
  BufSize,        \* sizeof(ctx->buf)
  MaxBytes        \* bound: bytes that enter the stream

ASSUME StreamAssumption ==
  /\ PipeCapacity \in Nat \ {0}
  /\ BufSize \in Nat \ {0}
  /\ MaxBytes \in Nat

VARIABLES
  isRead,     \* ctx->is_read
  hasClose,   \* ctx->closefn is not NULL
  sigpipeFatal, \* SIGPIPE has its default disposition: it kills the process
  sent,       \* history: bytes accepted from the source
  delivered,  \* history: bytes accepted by the sink
  pipe,       \* the bytes in the pipe
  chunk,      \* ctx->buf[k .. k+n): read and not yet passed on
  pc,         \* where the proxy thread is
  appOpen,    \* the application has not called fclose()
  fdOpen,     \* ctx->fd is open
  ctx,        \* ctx is allocated
  closeCalls, \* history: how often closefn was called
  appSaw,     \* what the application's last read or write told it
  failed,     \* history: the callback reported an error (or took nothing)
  process     \* "running", "exited" or "killed" (by a signal)

vars == <<isRead, hasClose, sigpipeFatal, sent, delivered, pipe, chunk, pc, appOpen, fdOpen,
          ctx, closeCalls, appSaw, failed, process>>

mode     == <<isRead, hasClose, sigpipeFatal>>
history  == <<closeCalls, failed>>
ends     == <<appOpen, fdOpen, ctx>>

PCs == {"input", "output", "closefn", "closefd", "free", "done"}

(* The first n elements of s, and the others.                              *)
FirstOf(s, n)  == SubSeq(s, 1, n)
WithoutFirst(s, n) == SubSeq(s, n + 1, Len(s))

TypeOK ==
  /\ isRead \in BOOLEAN /\ hasClose \in BOOLEAN /\ sigpipeFatal \in BOOLEAN
  /\ sent \in Seq(Data) /\ delivered \in Seq(Data)
  /\ pipe \in Seq(Data) /\ Len(pipe) <= PipeCapacity
  /\ chunk \in Seq(Data) /\ Len(chunk) <= BufSize
  /\ pc \in PCs
  /\ appOpen \in BOOLEAN /\ fdOpen \in BOOLEAN /\ ctx \in BOOLEAN
  /\ closeCalls \in Nat
  /\ appSaw \in {"ok", "eof", "epipe"}
  /\ failed \in BOOLEAN /\ process \in {"running", "exited", "killed"}

Init ==
  /\ isRead \in BOOLEAN /\ hasClose \in BOOLEAN /\ sigpipeFatal \in BOOLEAN
  /\ sent = << >> /\ delivered = << >> /\ pipe = << >> /\ chunk = << >>
  /\ pc = "input"
  /\ appOpen = TRUE /\ fdOpen = TRUE /\ ctx = TRUE
  /\ closeCalls = 0 /\ appSaw = "ok" /\ failed = FALSE
  /\ process = "running"

-----------------------------------------------------------------------------
(* Mistakes the properties must tell from the code: each stands for one    *)
(* action of the next sections and is no part of Next.                     *)

(* n -= r without k += r: the next writefn gets the same bytes again.      *)
CallWriteSameBytes ==
  /\ process = "running" /\ pc = "output" /\ ~isRead
  /\ \E r \in 1..Len(chunk) :
       /\ delivered' = delivered \o FirstOf(chunk, r)
       /\ chunk' = FirstOf(chunk, Len(chunk) - r)
  /\ pc' = IF chunk' = << >> THEN "input" ELSE "output"
  /\ UNCHANGED <<mode, sent, pipe, ends, history, appSaw, process>>

(* No inner loop: one write() is taken to have written everything.         *)
WritePipeOnce ==
  /\ process = "running" /\ pc = "output" /\ isRead /\ appOpen
  /\ \E r \in 1..Len(chunk) : /\ Len(pipe) + r <= PipeCapacity
                              /\ pipe' = pipe \o FirstOf(chunk, r)
  /\ chunk' = << >> /\ pc' = "input"
  /\ UNCHANGED <<mode, sent, delivered, ends, history, appSaw, process>>

(* close(ctx->fd) moved in front of closefn.                               *)
CallReadEndsClosingFirst ==
  /\ process = "running" /\ pc = "input" /\ isRead
  /\ failed' \in BOOLEAN /\ pc' = "closefn" /\ fdOpen' = FALSE
  /\ UNCHANGED <<mode, sent, delivered, pipe, chunk, appOpen, ctx, closeCalls,
                 appSaw, process>>

(* An empty pipe is taken for the end of the data.                         *)
ReadEmptyIsEof ==
  /\ process = "running" /\ pc = "input" /\ ~isRead
  /\ pipe = << >>
  /\ pc' = "closefn"
  /\ UNCHANGED <<mode, sent, delivered, pipe, chunk, ends, history, appSaw, process>>

(* The closed FILE is noticed before the rest of the pipe was read.        *)
ReadEofEarly ==
  /\ process = "running" /\ pc = "input" /\ ~isRead
  /\ ~appOpen
  /\ pc' = "closefn"
  /\ UNCHANGED <<mode, sent, delivered, pipe, chunk, ends, history, appSaw, process>>

(* closefn is called a second time on the way out.                         *)
CloseFdClosingAgain ==
  /\ process = "running" /\ pc = "closefd"
  /\ fdOpen' = FALSE /\ pc' = "free"
  /\ pipe' = IF isRead THEN pipe ELSE << >>
  /\ closeCalls' = IF hasClose THEN closeCalls + 1 ELSE closeCalls
  /\ UNCHANGED <<mode, sent, delivered, chunk, appOpen, ctx, failed, appSaw, process>>

-----------------------------------------------------------------------------
(* The application's side of the pipe                                      *)

(* A byte leaves the FILE's buffer for the pipe; a full pipe blocks.       *)
AppWrite ==
  /\ process = "running" /\ ~isRead /\ appOpen /\ fdOpen
  /\ Len(pipe) < PipeCapacity /\ Len(sent) < MaxBytes
  /\ \E b \in Data : /\ sent' = Append(sent, b)
                     /\ pipe' = Append(pipe, b)
  /\ UNCHANGED <<mode, delivered, chunk, pc, ends, history, appSaw, process>>

(* Nobody holds the read end any more: the write raises SIGPIPE, which     *)
(* kills the process or leaves the application with EPIPE.                 *)
AppWriteBroken ==
  /\ process = "running" /\ ~isRead /\ appOpen /\ ~fdOpen
  /\ IF sigpipeFatal THEN process' = "killed" /\ appSaw' = appSaw
                     ELSE process' = process /\ appSaw' = "epipe"
  /\ UNCHANGED <<mode, sent, delivered, pipe, chunk, pc, ends, history>>

AppRead ==
  /\ process = "running" /\ isRead /\ appOpen
  /\ \E r \in 1..Len(pipe) :
       /\ delivered' = delivered \o FirstOf(pipe, r)
       /\ pipe' = WithoutFirst(pipe, r)
  /\ UNCHANGED <<mode, sent, chunk, pc, ends, history, appSaw, process>>

AppReadEof ==
  /\ process = "running" /\ isRead /\ appOpen
  /\ pipe = << >> /\ ~fdOpen
  /\ appSaw' = "eof"
  /\ UNCHANGED <<mode, sent, delivered, pipe, chunk, pc, ends, history, process>>

(* fclose(): what it still had to flush went out by AppWrite before.       *)
AppClose ==
  /\ process = "running" /\ appOpen
  /\ appOpen' = FALSE
  /\ UNCHANGED <<mode, sent, delivered, pipe, chunk, pc, fdOpen, ctx, history,
                 appSaw, process>>

(* exit() or a return from main(): it ends the process with the detached   *)
(* proxy thread in it, whatever that thread is doing.                      *)
AppExit ==
  /\ process = "running"
  /\ process' = "exited"
  /\ UNCHANGED <<mode, sent, delivered, pipe, chunk, pc, ends, history, appSaw>>

-----------------------------------------------------------------------------
(* The proxy thread                                                        *)

(* r = read(ctx->fd, ctx->buf, sizeof(ctx->buf)) returns some bytes.       *)
ProxyReadPipe ==
  /\ process = "running" /\ pc = "input" /\ ~isRead
  /\ \E r \in 1..Len(pipe) :
       /\ r <= BufSize
       /\ chunk' = FirstOf(pipe, r)
       /\ pipe' = WithoutFirst(pipe, r)
  /\ pc' = "output"
  /\ UNCHANGED <<mode, sent, delivered, ends, history, appSaw, process>>

(* ... or 0: the pipe is empty and the application has closed its end.     *)
ProxyReadEof ==
  /\ process = "running" /\ pc = "input" /\ ~isRead
  /\ pipe = << >> /\ ~appOpen
  /\ pc' = "closefn"
  /\ UNCHANGED <<mode, sent, delivered, pipe, chunk, ends, history, appSaw, process>>

(* r = ctx->readfn(ctx->cookie, ctx->buf, sizeof(ctx->buf)), r > 0.        *)
ProxyCallRead ==
  /\ process = "running" /\ pc = "input" /\ isRead
  /\ \E r \in 1..BufSize :
       /\ Len(sent) + r <= MaxBytes
       /\ \E block \in [1..r -> Data] : /\ chunk' = block
                                        /\ sent' = sent \o block
  /\ pc' = "output"
  /\ UNCHANGED <<mode, delivered, pipe, ends, history, appSaw, process>>

(* ... r = 0 (end of the data) or r < 0 (an error): the loop is left.      *)
ProxyCallReadEnds ==
  /\ process = "running" /\ pc = "input" /\ isRead
  /\ failed' \in BOOLEAN
  /\ pc' = "closefn"
  /\ UNCHANGED <<mode, sent, delivered, pipe, chunk, ends, closeCalls, appSaw, process>>

(* r = write(ctx->fd, ctx->buf + k, n): what fits goes into the pipe.      *)
ProxyWritePipe ==
  /\ process = "running" /\ pc = "output" /\ isRead /\ appOpen
  /\ \E r \in 1..Len(chunk) :
       /\ Len(pipe) + r <= PipeCapacity
       /\ pipe' = pipe \o FirstOf(chunk, r)
       /\ chunk' = WithoutFirst(chunk, r)
  /\ pc' = IF chunk' = << >> THEN "input" ELSE "output"
  /\ UNCHANGED <<mode, sent, delivered, ends, history, appSaw, process>>

(* The application has closed the read end: SIGPIPE, or EPIPE and break.   *)
ProxyWriteBroken ==
  /\ process = "running" /\ pc = "output" /\ isRead /\ ~appOpen
  /\ IF sigpipeFatal THEN process' = "killed" /\ pc' = pc
                     ELSE process' = process /\ pc' = "closefn"
  /\ UNCHANGED <<mode, sent, delivered, pipe, chunk, ends, history, appSaw>>

(* r = ctx->writefn(ctx->cookie, ctx->buf + k, n), r > 0; n -= r, k += r.  *)
ProxyCallWrite ==
  /\ process = "running" /\ pc = "output" /\ ~isRead
  /\ \E r \in 1..Len(chunk) :
       /\ delivered' = delivered \o FirstOf(chunk, r)
       /\ chunk' = WithoutFirst(chunk, r)
  /\ pc' = IF chunk' = << >> THEN "input" ELSE "output"
  /\ UNCHANGED <<mode, sent, pipe, ends, history, appSaw, process>>

(* ... r <= 0: both loops are left and the rest of the chunk is dropped.   *)
ProxyCallWriteFails ==
  /\ process = "running" /\ pc = "output" /\ ~isRead
  /\ failed' = TRUE
  /\ pc' = "closefn"
  /\ UNCHANGED <<mode, sent, delivered, pipe, chunk, ends, closeCalls, appSaw, process>>

(* Cleanup: if (ctx->closefn) ctx->closefn(ctx->cookie);                   *)
ProxyCallClose ==
  /\ process = "running" /\ pc = "closefn"
  /\ closeCalls' = IF hasClose THEN closeCalls + 1 ELSE closeCalls
  /\ pc' = "closefd"
  /\ UNCHANGED <<mode, sent, delivered, pipe, chunk, ends, failed, appSaw, process>>

(* close(ctx->fd): closing the read end discards what the pipe still held. *)
ProxyCloseFd ==
  /\ process = "running" /\ pc = "closefd"
  /\ fdOpen' = FALSE
  /\ pipe' = IF isRead THEN pipe ELSE << >>
  /\ pc' = "free"
  /\ UNCHANGED <<mode, sent, delivered, chunk, appOpen, ctx, history, appSaw, process>>

ProxyFree ==
  /\ process = "running" /\ pc = "free"
  /\ ctx' = FALSE
  /\ pc' = "done"
  /\ UNCHANGED <<mode, sent, delivered, pipe, chunk, appOpen, fdOpen, history,
                 appSaw, process>>

-----------------------------------------------------------------------------
(* Nothing is left to run: the stream is closed on both sides, or the      *)
(* process is dead.                                                        *)
Terminated ==
  /\ process # "running" \/ (pc = "done" /\ ~appOpen)
  /\ UNCHANGED vars

Application == AppWrite \/ AppWriteBroken \/ AppRead \/ AppReadEof \/ AppClose
               \/ AppExit

Proxy == \/ ProxyReadPipe \/ ProxyReadEof \/ ProxyCallRead \/ ProxyCallReadEnds
         \/ ProxyWritePipe \/ ProxyWriteBroken \/ ProxyCallWrite
         \/ ProxyCallWriteFails \/ ProxyCallClose \/ ProxyCloseFd \/ ProxyFree

Next == Application \/ Proxy \/ Terminated

Spec == Init /\ [][Next]_vars

(* The scheduler runs the proxy thread and its callbacks return; nothing   *)
(* is assumed of the application.                                          *)
FairSpec == Spec /\ WF_vars(Proxy)

-----------------------------------------------------------------------------
(* Where every byte that entered is, as long as none was dropped.          *)
InFlight == IF isRead THEN pipe \o chunk ELSE chunk \o pipe

(* What came out is what went in, in order: no byte is lost in the middle, *)
(* repeated or overtaken, whatever short reads, short writes and failures  *)
(* the two loops of funopen_proxy go through.                              *)
InOrder == /\ Len(delivered) <= Len(sent)
           /\ delivered = SubSeq(sent, 1, Len(delivered))

(* The reason: while the proxy runs, every byte the stream accepted and    *)
(* has not passed on is in the pipe or in ctx->buf, in order.              *)
NothingLost ==
  (isRead \/ fdOpen) => sent = delivered \o InFlight

(* A reader that is told "end of file" has had every byte readfn produced, *)
(* even when readfn ended with an error, and closefn has run by then.      *)
EofIsComplete ==
  appSaw = "eof" => /\ delivered = sent
                    /\ hasClose => closeCalls = 1

(* A writer meets a broken pipe only after the callback failed: as long as *)
(* writefn works, the proxy outlives the application's end of the pipe.    *)
BrokenOnlyAfterFailure ==
  appSaw = "epipe" => /\ failed
                      /\ hasClose => closeCalls = 1

(* With the default SIGPIPE the stream kills the process in two cases      *)
(* only: a writer goes on after its callback failed, or a reader closes    *)
(* before it has read everything.                                          *)
KilledOnlyByBrokenPipe ==
  process = "killed" =>
    \/ (~isRead /\ failed /\ appOpen)
    \/ (isRead /\ ~appOpen /\ Len(delivered) < Len(sent))

(* closefn is the last callback: after it neither readfn nor writefn runs, *)
(* and it never runs a second time; the context is freed after the last    *)
(* use.                                                                    *)
CallbacksFrozen ==
  /\ closeCalls' = closeCalls
  /\ IF isRead THEN sent' = sent ELSE delivered' = delivered

CallbacksStopAtClose ==
  [][(pc \in {"closefd", "free", "done"}) => CallbacksFrozen]_vars

(* fclose() of a writing stream returns before its bytes are delivered,    *)
(* but they all are in the end and closefn runs, unless writefn itself     *)
(* fails or the process exits first: nobody joins the proxy thread.        *)
FlushedInTheEnd ==
  (process = "running" /\ ~isRead /\ ~appOpen) ~>
     \/ /\ pc = "done"
        /\ failed \/ delivered = sent
        /\ hasClose => closeCalls = 1
     \/ process = "exited"

(* The stream implements the ordered channel.                              *)
Channel == INSTANCE OrderedChannel
             WITH callbackSends <- isRead,
                  ended <- pc \in {"closefn", "closefd", "free", "done"}
ImplementsChannel == Channel!Spec

=============================================================================
