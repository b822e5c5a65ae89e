----------------------------- MODULE SocketPair -----------------------------
(***************************************************************************)
(* compat/sys/socketpair.c: two connected sockets made with bind(),        *)
(* listen(), connect() and accept() under a path in /tmp that the process  *)
(* number and a counter of the process make up.                            *)
(*                                                                         *)
(* sp_counter++ is a load and a store: threads of one process may both     *)
(* load the same value.  A process may be killed at any step, and a new    *)
(* one may get its number.                                                 *)
(***************************************************************************)
EXTENDS Naturals, Sequences, FiniteSets

CONSTANTS
  Threads,   \* the threads that call socketpair()
  Process,   \* the number of the process of each thread
  MaxCalls,  \* bound: calls of all threads
  None

Pids == {Process[t] : t \in Threads}

ASSUME PairAssumption ==
  /\ DOMAIN Process = Threads
  /\ MaxCalls \in Nat
  /\ None \notin Threads \X Nat

VARIABLES
  counter,   \* sp_counter of each process
  bound,     \* the listener each path in /tmp leads to
  listening, \* the calls whose listener takes connections
  backlog,   \* the connections that wait at each listener
  call,      \* what each thread is doing
  number,    \* bound: how many calls it has made
  made,      \* history: the pairs that were returned
  killed     \* history: the calls that ended with their process

vars == <<counter, bound, listening, backlog, call, number, made, killed>>

Calls == Threads \X (1..MaxCalls)
Counts == 0..MaxCalls
Paths == Pids \X Counts

PCs == {"idle", "load", "store", "unlink", "bind", "listen", "connect",
        "accept", "close", "remove", "failUnlink", "failClose"}

(* rivals is history: the calls that were under way with the same path.    *)
Idle == [pc |-> "idle", cnt |-> 0, peer |-> None, rivals |-> {}]

(* sv[0] is the call's own connection, sv[1] the one it accepted.          *)
Pairs == [call : Calls, accepted : Calls, rivals : SUBSET Calls]

TypeOK ==
  /\ counter \in [Pids -> Counts]
  /\ bound \in [Paths -> Calls \cup {None}]
  /\ listening \subseteq Calls
  /\ backlog \in [Calls -> Seq(Calls)]
  /\ call \in [Threads -> [pc : PCs, cnt : Counts,
                           peer : Calls \cup {None}, rivals : SUBSET Calls]]
  /\ number \in [Threads -> 0..MaxCalls]
  /\ made \subseteq Pairs /\ killed \subseteq Calls

Init ==
  /\ counter = [p \in Pids |-> 0]
  /\ bound = [f \in Paths |-> None]
  /\ listening = {} /\ backlog = [c \in Calls |-> << >>]
  /\ call = [t \in Threads |-> Idle]
  /\ number = [t \in Threads |-> 0]
  /\ made = {} /\ killed = {}

At(t, pc) == call[t].pc = pc
Goes(t, pc) == call' = [call EXCEPT ![t].pc = pc]
This(t) == <<t, number[t]>>
Begun == {c \in Calls : c[2] <= number[c[1]]}

(* A mistake: the path has no process number in it.                        *)
PathOfCounter(t) == <<CHOOSE p \in Pids : TRUE, call[t].cnt>>

Path(t) == <<Process[t], call[t].cnt>>   \* /tmp/.msp_<pid>_<cnt>
Pair(t) == [call |-> This(t), accepted |-> call[t].peer, rivals |-> call[t].rivals]
sockets == <<listening, backlog>>

-----------------------------------------------------------------------------
(* Mistakes the properties must tell from the code; no part of Next.       *)

(* The path stays behind when the pair is made.                            *)
RemoveSkipped(t) ==
  /\ At(t, "remove")
  /\ made' = made \cup {Pair(t)}
  /\ call' = [call EXCEPT ![t] = Idle]
  /\ UNCHANGED <<counter, bound, sockets, number, killed>>

(* Nobody asks whether connect() worked.                                   *)
ConnectUnchecked(t) ==
  /\ \/ At(t, "listen") /\ Goes(t, "failUnlink")
     \/ At(t, "connect") /\ Goes(t, "accept")
  /\ UNCHANGED <<counter, bound, sockets, number, made, killed>>

(* The path a process before this one has left is not looked for.          *)
UnlinkSkipped(t) ==
  /\ At(t, "unlink") /\ Goes(t, "bind")
  /\ UNCHANGED <<counter, bound, sockets, number, made, killed>>

-----------------------------------------------------------------------------
Enter(t) ==
  /\ At(t, "idle") /\ Cardinality(Begun) < MaxCalls /\ number[t] < MaxCalls
  /\ number' = [number EXCEPT ![t] = @ + 1]
  /\ Goes(t, "load")
  /\ UNCHANGED <<counter, bound, sockets, made, killed>>

(* cnt = sp_counter++                                                      *)
Load(t) ==
  LET cnt == counter[Process[t]]
      rivals == {u \in Threads : /\ Process[u] = Process[t] /\ call[u].cnt = cnt
                                 /\ call[u].pc \notin {"idle", "load"}}
  IN
  /\ At(t, "load")
  /\ call' = [u \in Threads |->
       CASE u = t -> [call[t] EXCEPT !.pc = "store", !.cnt = cnt,
                                     !.rivals = {This(r) : r \in rivals}]
         [] u \in rivals -> [call[u] EXCEPT !.rivals = @ \cup {This(t)}]
         [] OTHER -> call[u]]
  /\ UNCHANGED <<counter, bound, sockets, number, made, killed>>

Store(t) ==
  /\ At(t, "store")
  /\ counter' = [counter EXCEPT ![Process[t]] = call[t].cnt + 1]
  /\ Goes(t, "unlink")
  /\ UNCHANGED <<bound, sockets, number, made, killed>>

(* A path an earlier process of this number has left behind.               *)
Unlink(t) ==
  /\ At(t, "unlink")
  /\ bound' = [bound EXCEPT ![Path(t)] = None]
  /\ Goes(t, "bind")
  /\ UNCHANGED <<counter, sockets, number, made, killed>>

Bind(t) ==
  /\ At(t, "bind") /\ bound[Path(t)] = None
  /\ bound' = [bound EXCEPT ![Path(t)] = This(t)]
  /\ Goes(t, "listen")
  /\ UNCHANGED <<counter, sockets, number, made, killed>>

Listen(t) ==
  /\ At(t, "listen")
  /\ listening' = listening \cup {This(t)}
  /\ Goes(t, "connect")
  /\ UNCHANGED <<counter, bound, backlog, number, made, killed>>

(* The connection goes to whoever listens behind the path, and waits; the  *)
(* backlog of listen(listener, 1) is a hint, and systems queue more.       *)
Connect(t) ==
  /\ At(t, "connect")
  /\ bound[Path(t)] \in listening
  /\ backlog' = [backlog EXCEPT ![bound[Path(t)]] = Append(@, This(t))]
  /\ Goes(t, "accept")
  /\ UNCHANGED <<counter, bound, listening, number, made, killed>>

(* accept() waits for a connection.                                        *)
Accept(t) ==
  /\ At(t, "accept") /\ backlog[This(t)] # << >>
  /\ call' = [call EXCEPT ![t].pc = "close", ![t].peer = Head(backlog[This(t)])]
  /\ backlog' = [backlog EXCEPT ![This(t)] = Tail(@)]
  /\ UNCHANGED <<counter, bound, listening, number, made, killed>>

CloseListener(t) ==
  /\ \/ At(t, "close") /\ Goes(t, "remove")
     \/ At(t, "failClose") /\ call' = [call EXCEPT ![t] = Idle]
  /\ listening' = listening \ {This(t)}
  /\ backlog' = [backlog EXCEPT ![This(t)] = << >>]
  /\ UNCHANGED <<counter, bound, number, made, killed>>

Remove(t) ==
  /\ At(t, "remove")
  /\ bound' = [bound EXCEPT ![Path(t)] = None]
  /\ made' = made \cup {Pair(t)}
  /\ call' = [call EXCEPT ![t] = Idle]
  /\ UNCHANGED <<counter, sockets, number, killed>>

-----------------------------------------------------------------------------
(* A path that is taken, or a system call without resources: what was made *)
(* so far goes away again, and the call returns -1.                        *)
BindFails(t) ==
  /\ At(t, "bind") /\ Goes(t, "failClose")
  /\ UNCHANGED <<counter, bound, sockets, number, made, killed>>

LaterFails(t) ==
  /\ call[t].pc \in {"listen", "connect", "accept"} /\ Goes(t, "failUnlink")
  /\ UNCHANGED <<counter, bound, sockets, number, made, killed>>

FailUnlink(t) ==
  /\ At(t, "failUnlink")
  /\ bound' = [bound EXCEPT ![Path(t)] = None]
  /\ Goes(t, "failClose")
  /\ UNCHANGED <<counter, sockets, number, made, killed>>

(* A process is killed, and another starts under the same number; the      *)
(* sockets are gone, the path is not.                                      *)
Killed(p) ==
  LET mine == {c \in Calls : Process[c[1]] = p}
      busy == {t \in Threads : Process[t] = p /\ ~At(t, "idle")}
  IN /\ busy # {}
     /\ call' = [t \in Threads |-> IF t \in busy THEN Idle ELSE call[t]]
     /\ killed' = killed \cup {This(t) : t \in busy}
     /\ counter' = [counter EXCEPT ![p] = 0]
     /\ listening' = listening \ mine
     /\ backlog' = [c \in Calls |-> IF c \in mine THEN << >> ELSE backlog[c]]
     /\ UNCHANGED <<bound, number, made>>

Step(t) == \/ Load(t) \/ Store(t) \/ Unlink(t) \/ Bind(t) \/ Listen(t) \/ Connect(t)
           \/ Accept(t) \/ CloseListener(t) \/ Remove(t) \/ FailUnlink(t)

Next == \/ \E t \in Threads : Enter(t) \/ Step(t) \/ BindFails(t) \/ LaterFails(t)
        \/ \E p \in Pids : Killed(p)

Spec == Init /\ [][Next]_vars

(* A call goes on; only accept() may wait, for a connection, and does not  *)
(* fail of its own accord.                                                 *)
GoesOn(t) == \/ Step(t) \/ BindFails(t)
             \/ LaterFails(t) /\ ~At(t, "accept")

FairSpec == Spec /\ \A t \in Threads : WF_vars(GoesOn(t))

-----------------------------------------------------------------------------
(* The two ends of a pair that is returned are connected with each other,  *)
(* or the second leads to a call of the same process that had the same     *)
(* number of the counter, and so the same path, at a time.  The pairs of   *)
(* calls that nobody shared a path with are whole, whoever else is making  *)
(* pairs; two threads that load the counter together may get each other's. *)
PairsAreConnected == \A r \in made : r.accepted \in {r.call} \cup r.rivals

(* A path in /tmp is that of a call under way, or of one whose process was *)
(* killed; a call that returned, with a pair or with -1, has removed it.   *)
(* What a killed process has left is in nobody's way: who comes to bind()  *)
(* finds the path free, or shares it with another call.                    *)
NothingLeft ==
  /\ \A f \in Paths : bound[f] # None =>
       \/ bound[f] \in killed
       \/ \E t \in Threads : /\ bound[f] = This(t) /\ f = Path(t)
                             /\ call[t].pc \in {"listen", "connect", "accept", "close", "remove",
                                               "failUnlink"}
  /\ \A t \in Threads : At(t, "bind") /\ call[t].rivals = {} => bound[Path(t)] = None

(* A call that nobody else shares its path with returns: its accept() has  *)
(* a connection to wait for, its own.                                      *)
LoneCallsReturn == \A t \in Threads : []<>(At(t, "idle") \/ call[t].rivals # {})
=============================================================================
