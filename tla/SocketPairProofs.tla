-------------------------- MODULE SocketPairProofs --------------------------
(***************************************************************************)
(* Proofs about SocketPair, for any threads, processes and calls: what is  *)
(* left behind is a killed call's and in nobody's way, and the ends of a   *)
(* pair belong together unless calls share a path.  Whoever connects finds *)
(* its own listener, or that of a call that has loaded the same number.    *)
(***************************************************************************)
EXTENDS SocketPair, FiniteSetTheorems, TLAPS

(* A call has a path of its own from its load of the counter on.           *)
Loaded(t) == call[t].pc \notin {"idle", "load"}

(* The calls that have loaded the counter, now or earlier.                 *)
Past == {c \in Calls : \/ c[2] < number[c[1]]
                       \/ c[2] = number[c[1]] /\ ~At(c[1], "load")}

(* The counter stays below the number of calls.                            *)
Counted ==
  /\ IsFiniteSet(Begun) /\ Cardinality(Begun) <= MaxCalls
  /\ \A t \in Threads : ~At(t, "idle") => This(t) \in Begun
  /\ \A p \in Pids : counter[p] <= Cardinality(Past)
  /\ \A t \in Threads : Loaded(t) => call[t].cnt < Cardinality(Past)

(* Calls under way with the same path know of each other.                  *)
Rivals ==
  /\ \A t \in Threads : call[t].rivals \subseteq Past
  /\ \A t, u \in Threads : t # u /\ Loaded(t) /\ Loaded(u) /\ Path(t) = Path(u)
       => This(u) \in call[t].rivals

(* Who has a listener that takes connections.                              *)
Listens(t) == call[t].pc \in {"connect", "accept", "close", "failUnlink", "failClose"}

Sockets ==
  /\ \A c \in listening : \E t \in Threads : c = This(t) /\ Listens(t)
  /\ \A c \in Calls : backlog[c] # << >> => c \in listening
  /\ \A f \in Paths : bound[f] # None => bound[f] \in Begun
  /\ \A c \in killed : c \in Begun /\ \A t \in Threads : c = This(t) => At(t, "idle")

(* What NothingLeft says of the paths that are there, and of those that    *)
(* are to be bound.                                                        *)
Owned ==
  \A f \in Paths : bound[f] # None =>
    \/ bound[f] \in killed
    \/ \E t \in Threads : /\ bound[f] = This(t) /\ f = Path(t)
                          /\ call[t].pc \in {"listen", "connect", "accept", "close", "remove",
                                            "failUnlink"}

Unobstructed ==
  \A t \in Threads : At(t, "bind") /\ call[t].rivals = {} => bound[Path(t)] = None

(* Who waits at a listener has loaded the number that it was bound with.   *)
Own(t) == {This(t)} \cup call[t].rivals

Connected ==
  \A t \in Threads : This(t) \in Calls =>
    \A i \in 1..Len(backlog[This(t)]) : backlog[This(t)][i] \in Own(t)

Paired ==
  /\ \A t \in Threads : call[t].pc \in {"close", "remove"} => call[t].peer \in Own(t)
  /\ \A r \in made : r.accepted \in {r.call} \cup r.rivals

IInv ==
  /\ TypeOK /\ Counted /\ Rivals /\ Owned /\ Unobstructed /\ Sockets
  /\ Connected /\ Paired

Records == [pc : PCs, cnt : Counts, peer : Calls \cup {None}, rivals : SUBSET Calls]

(* The steps of a call that has loaded the counter.                        *)
Moves(t) == \/ Store(t) \/ Unlink(t) \/ Bind(t) \/ Listen(t) \/ Connect(t) \/ Accept(t)
            \/ CloseListener(t) \/ Remove(t) \/ FailUnlink(t) \/ BindFails(t) \/ LaterFails(t)

-----------------------------------------------------------------------------
(* A thread that does something has begun a call.                          *)
LEMMA Begins ==
  ASSUME IInv, NEW t \in Threads
  PROVE  /\ call \in [Threads -> Records] /\ call[t] \in Records
         /\ number \in [Threads -> 0..MaxCalls] /\ MaxCalls \in Nat
         /\ Process[t] \in Pids /\ Path(t) \in Paths
BY PairAssumption DEF IInv, TypeOK, Records, Path, Paths, Pids

(* Only the thread itself is moved, and it keeps its path and its rivals.  *)
LEMMA Moving ==
  ASSUME IInv, NEW t \in Threads, Moves(t)
  PROVE  /\ \A u \in Threads \ {t} : call'[u] = call[u]
         /\ UNCHANGED <<number, killed>> /\ Loaded(t)
         /\ call'[t].pc # "load"
         /\ Loaded(t)' => call'[t].cnt = call[t].cnt /\ call'[t].rivals = call[t].rivals
PROOF
<1> USE Begins DEF Records, Loaded, Goes, At
<1>1. CASE Store(t) BY <1>1 DEF Store
<1>2. CASE Unlink(t) BY <1>2 DEF Unlink
<1>3. CASE Bind(t) BY <1>3 DEF Bind
<1>4. CASE Listen(t) BY <1>4 DEF Listen
<1>5. CASE Connect(t) BY <1>5 DEF Connect
<1>6. CASE Accept(t) BY <1>6 DEF Accept
<1>7. CASE CloseListener(t) BY SMTT(30), <1>7 DEF CloseListener, Idle
<1>8. CASE Remove(t) BY <1>8 DEF Remove, Idle
<1>9. CASE FailUnlink(t) BY <1>9 DEF FailUnlink
<1>10. CASE BindFails(t) BY <1>10 DEF BindFails
<1>11. CASE LaterFails(t) BY <1>11 DEF LaterFails
<1> QED BY <1>1, <1>2, <1>3, <1>4, <1>5, <1>6, <1>7, <1>8, <1>9, <1>10, <1>11 DEF Moves

(* A load: the calls with the same path, and this one, learn of each other. *)
LEMMA Loading ==
  ASSUME IInv, NEW t \in Threads, Load(t)
  PROVE  LET cnt == counter[Process[t]]
             same == {u \in Threads : Process[u] = Process[t] /\ call[u].cnt = cnt /\ Loaded(u)}
         IN /\ t \notin same
            /\ call'[t] = [call[t] EXCEPT !.pc = "store", !.cnt = cnt,
                                         !.rivals = {This(r) : r \in same}]
            /\ \A u \in Threads \ {t} :
                 call'[u] = IF u \in same THEN [call[u] EXCEPT !.rivals = @ \cup {This(t)}]
                                          ELSE call[u]
            /\ DOMAIN call' = Threads /\ call' = [u \in Threads |-> call'[u]]
            /\ UNCHANGED <<counter, bound, sockets, number, made, killed>>
PROOF
<1> DEFINE cnt == counter[Process[t]]
           same == {u \in Threads : Process[u] = Process[t] /\ call[u].cnt = cnt /\ Loaded(u)}
           After(u) == CASE u = t -> [call[t] EXCEPT !.pc = "store", !.cnt = cnt,
                                                    !.rivals = {This(r) : r \in same}]
                        [] u \in same -> [call[u] EXCEPT !.rivals = @ \cup {This(t)}]
                        [] OTHER -> call[u]
<1>1. t \notin same BY DEF Load, At, Loaded
<1>2. call' = [u \in Threads |-> After(u)] BY DEF Load, Loaded
<1>3. UNCHANGED <<counter, bound, sockets, number, made, killed>> BY DEF Load
<1> HIDE DEF same, cnt
<1>4. After(t) = [call[t] EXCEPT !.pc = "store", !.cnt = cnt, !.rivals = {This(r) : r \in same}]
  BY <1>1
<1>5. \A u \in Threads \ {t} :
        After(u) = IF u \in same THEN [call[u] EXCEPT !.rivals = @ \cup {This(t)}] ELSE call[u]
  OBVIOUS
<1> HIDE DEF After
<1>6. DOMAIN call' = Threads /\ call' = [u \in Threads |-> call'[u]] BY <1>2
<1> QED BY <1>1, <1>2, <1>3, <1>4, <1>5, <1>6 DEF same, cnt

LEMMA LoadingOthers ==
  ASSUME IInv, NEW t \in Threads, Load(t), NEW u \in Threads \ {t}
  PROVE  /\ call'[u].pc = call[u].pc /\ call'[u].cnt = call[u].cnt
         /\ call'[u].peer = call[u].peer /\ call[u].rivals \subseteq call'[u].rivals
         /\ call'[u].rivals \subseteq call[u].rivals \cup {This(t)}
         /\ call'[u] = [call[u] EXCEPT !.rivals = call'[u].rivals]
PROOF
<1>1. call'[u] = [call[u] EXCEPT !.rivals = @ \cup {This(t)}] \/ call'[u] = call[u]
  BY Loading
<1> QED BY <1>1, Begins DEF Records

(* The calls that have loaded the counter stay the same, or one more.      *)
LEMMA PastGrows ==
  ASSUME IInv, [Next]_vars
  PROVE  /\ Begun \subseteq Begun' /\ Past \subseteq Past' /\ Past \subseteq Begun
         /\ \A t \in Threads : Enter(t) => Begun' = Begun \cup {This(t)'} /\ This(t)' \notin Begun
         /\ (\A t \in Threads : ~Enter(t)) => Begun' = Begun
PROOF
<1> USE Begins DEF Past, Begun, Calls, Records
<1>1. Past \subseteq Begun OBVIOUS
<1>2. \A t \in Threads : Enter(t) => number' # number BY DEF Enter
<1>3. ASSUME NEW t \in Threads, Enter(t) PROVE
        Past \subseteq Past' /\ Begun \subseteq Begun'
        /\ Begun' = Begun \cup {This(t)'} /\ This(t)' \notin Begun
  BY <1>3 DEF Enter, This, At, Goes
<1>4. ASSUME NEW t \in Threads, Load(t) PROVE Past \subseteq Past' /\ UNCHANGED number
  BY ZenonT(60), <1>4 DEF Load, At
<1>5. ASSUME NEW t \in Threads, Moves(t) PROVE Past \subseteq Past' /\ UNCHANGED number
  BY <1>5, Moving DEF At, Loaded
<1>6. ASSUME NEW p \in Pids, Killed(p) PROVE Past \subseteq Past' /\ UNCHANGED number
  BY <1>6 DEF Killed, At, Idle
<1>7. CASE UNCHANGED vars BY <1>2, <1>7 DEF vars, At
<1> QED BY <1>1, <1>2, <1>3, <1>4, <1>5, <1>6, <1>7 DEF Next, Step, Moves

(* There are as many calls as have begun, and the counter is below those   *)
(* that have loaded it.                                                    *)
LEMMA Cards ==
  ASSUME IInv, [Next]_vars
  PROVE  /\ IsFiniteSet(Begun)' /\ IsFiniteSet(Past) /\ IsFiniteSet(Past)'
         /\ Cardinality(Begun)' \in Nat /\ Cardinality(Begun)' <= MaxCalls
         /\ Cardinality(Past) \in Nat /\ Cardinality(Past)' \in Nat
         /\ Cardinality(Past) <= Cardinality(Past)'
         /\ Cardinality(Past)' <= Cardinality(Begun)'
PROOF
<1>1. IsFiniteSet(Begun) /\ Cardinality(Begun) <= MaxCalls /\ Cardinality(Begun) \in Nat
  BY FS_CardinalityType DEF IInv, Counted
<1>2. IsFiniteSet(Begun)' /\ Cardinality(Begun)' \in Nat /\ Cardinality(Begun)' <= MaxCalls
  <2>1. CASE \E t \in Threads : Enter(t)
    <3>1. PICK t \in Threads : Enter(t) BY <2>1
    <3>2. Begun' = Begun \cup {This(t)'} /\ This(t)' \notin Begun BY <3>1, PastGrows
    <3>3. IsFiniteSet(Begun') /\ Cardinality(Begun') = Cardinality(Begun) + 1
      BY <1>1, <3>2, FS_AddElement
    <3>4. Cardinality(Begun) < MaxCalls /\ MaxCalls \in Nat BY <3>1, PairAssumption DEF Enter
    <3> QED BY <1>1, <3>3, <3>4
  <2>2. CASE ~\E t \in Threads : Enter(t) BY <1>1, <2>2, PastGrows
  <2> QED BY <2>1, <2>2
<1>3. Past' \subseteq Begun'
  <2>1. \A c \in Calls : c[1] \in Threads /\ c[2] \in Nat BY PairAssumption DEF Calls
  <2>2. TypeOK => \A t \in Threads : number[t] \in Nat BY PairAssumption DEF TypeOK
  <2>3. \A t \in Threads : number'[t] \in Nat
    <3>1. \A t \in Threads : number[t] \in Nat BY <2>2 DEF IInv
    <3>2. \A t \in Threads : Enter(t) => \A u \in Threads : number'[u] \in Nat
      BY <3>1, Begins DEF Enter
    <3> QED BY <3>1, <3>2, Moving DEF Next, Step, Moves, Load, Killed, vars
  <2> QED BY <2>1, <2>3 DEF Past, Begun
<1>4. Past \subseteq Begun /\ Past \subseteq Past' BY PastGrows
<1>5. /\ IsFiniteSet(Past) /\ IsFiniteSet(Past')
      /\ Cardinality(Past) <= Cardinality(Past') /\ Cardinality(Past') <= Cardinality(Begun')
  BY <1>1, <1>2, <1>3, <1>4, FS_Subset
<1> QED BY <1>2, <1>5, FS_CardinalityType

LEMMA CountedKept ==
  ASSUME IInv, [Next]_vars
  PROVE  Counted'
PROOF
<1> DEFINE n == Cardinality(Past)
           m == Cardinality(Past)'
<1>1. /\ n \in Nat /\ m \in Nat /\ n <= m
      /\ IsFiniteSet(Begun)' /\ Cardinality(Begun)' <= MaxCalls
  BY Cards
<1>2. /\ \A p \in Pids : counter[p] \in Nat /\ counter[p] <= n
      /\ \A t \in Threads : call[t].cnt \in Nat /\ (Loaded(t) => call[t].cnt < n)
  BY DEF IInv, TypeOK, Counted, Counts
<1>8. \A t \in Threads : ~At(t, "idle")' => This(t)' \in Begun'
  <2>1. ASSUME NEW t \in Threads, Enter(t)
        PROVE  \A u \in Threads : ~At(u, "idle")' => This(u)' \in Begun'
    <3>1. This(t)' \in Begun' BY <2>1, PastGrows
    <3>2. \A u \in Threads \ {t} : (At(u, "idle")' <=> At(u, "idle")) /\ This(u)' = This(u)
      BY <2>1, Begins DEF Enter, Goes, At, This
    <3> QED BY <3>1, <3>2, PastGrows DEF IInv, Counted
  <2>2. ASSUME NEW t \in Threads, Load(t) \/ Moves(t)
        PROVE  \A u \in Threads : ~At(u, "idle")' => ~At(u, "idle") /\ This(u)' = This(u)
    BY <2>2, Moving, Begins DEF Load, At, This, Loaded, Records
  <2>3. ASSUME NEW p \in Pids, Killed(p)
        PROVE  \A u \in Threads : ~At(u, "idle")' => ~At(u, "idle") /\ This(u)' = This(u)
    BY <2>3, Begins DEF Killed, At, This, Idle
  <2>4. UNCHANGED vars => \A u \in Threads : (At(u, "idle")' <=> At(u, "idle")) /\ This(u)' = This(u)
    BY DEF vars, At, This
  <2> QED BY <2>1, <2>2, <2>3, <2>4, PastGrows DEF IInv, Counted, Next, Step, Moves
<1> SUFFICES /\ \A p \in Pids : counter'[p] <= m
             /\ \A t \in Threads : Loaded(t)' => call'[t].cnt < m
  BY <1>1, <1>8 DEF Counted
<1>3. ASSUME NEW t \in Threads, Load(t)
      PROVE  \A u \in Threads : Loaded(u)' => call'[u].cnt < m
  <2>1. This(t) \in Past' /\ This(t) \notin Past
    <3>1. This(t) \in Calls /\ UNCHANGED number BY <1>3 DEF IInv, Counted, Begun, Load, At
    <3>2. call'[t].pc = "store" BY <1>3, Begins, Loading DEF Records
    <3> DEFINE c == This(t)
    <3>3. c[1] = t /\ c[2] = number[t] BY DEF This
    <3> HIDE DEF c
    <3>4. c \notin Past
      <4>1. At(t, "load") BY <1>3 DEF Load
      <4>2. number[t] \in Nat BY Begins
      <4> QED BY <3>3, <4>1, <4>2 DEF Past
    <3>5. c \in Past'
      <4>1. c \in Calls BY <3>1 DEF c
      <4> QED BY <3>1, <3>2, <3>3, <4>1 DEF Past, At
    <3> QED BY <3>4, <3>5 DEF c
  <2>2. IsFiniteSet(Past) /\ IsFiniteSet(Past') /\ Past \subseteq Past' BY Cards, PastGrows
  <2>3. Cardinality(Past \cup {This(t)}) = n + 1 BY <2>1, <2>2, FS_AddElement
  <2>4. Past \cup {This(t)} \subseteq Past' BY <2>1, <2>2
  <2>5. n + 1 <= m BY <2>2, <2>3, <2>4, FS_Subset
  <2>6. /\ call'[t].cnt = counter[Process[t]]
        /\ \A u \in Threads \ {t} : Loaded(u)' => Loaded(u) /\ call'[u].cnt = call[u].cnt
    <3>1. call'[t].cnt = counter[Process[t]] BY <1>3, Begins, Loading DEF Records
    <3> QED BY <1>3, <3>1, LoadingOthers DEF Loaded
  <2>7. counter[Process[t]] \in Nat /\ counter[Process[t]] <= n BY <1>2, Begins
  <2> HIDE DEF n, m
  <2> QED BY <1>1, <1>2, <2>5, <2>6, <2>7
<1> HIDE DEF n, m
<1>4. ASSUME NEW t \in Threads, Moves(t)
      PROVE  /\ \A u \in Threads : Loaded(u)' => call'[u].cnt < m
             /\ \A p \in Pids : counter'[p] <= m
  <2>1. \A u \in Threads : Loaded(u)' => Loaded(u) /\ call'[u].cnt = call[u].cnt
    BY <1>4, Moving DEF Loaded
  <2>2. Store(t) => \A p \in Pids : counter'[p] <= m
    BY <1>1, <1>2, <1>4, Moving, Begins DEF Store, IInv, TypeOK
  <2>3. ~Store(t) => UNCHANGED counter
    BY <1>4 DEF Moves, Unlink, Bind, Listen, Connect, Accept, CloseListener, Remove,
                FailUnlink, BindFails, LaterFails
  <2> QED BY <1>1, <1>2, <2>1, <2>2, <2>3
<1>5. ASSUME NEW t \in Threads, Enter(t)
      PROVE  /\ \A u \in Threads : Loaded(u)' => Loaded(u) /\ call'[u].cnt = call[u].cnt
             /\ UNCHANGED counter
  BY <1>5, Begins DEF Enter, Goes, At, Loaded, Records
<1>6. ASSUME NEW p \in Pids, Killed(p)
      PROVE  /\ \A u \in Threads : Loaded(u)' => Loaded(u) /\ call'[u].cnt = call[u].cnt
             /\ \A q \in Pids : counter'[q] \in {counter[q], 0}
  BY <1>6, Begins DEF Killed, At, Loaded, Records, Idle, IInv, TypeOK
<1>7. CASE UNCHANGED vars BY <1>1, <1>2, <1>7 DEF vars, Loaded
<1>9. CASE \E t \in Threads : Load(t)
  <2>1. UNCHANGED counter BY <1>9, Loading
  <2> QED BY <1>1, <1>2, <1>3, <1>9, <2>1
<1>10. CASE \E t \in Threads : Moves(t) BY <1>4, <1>10
<1>11. CASE \E t \in Threads : Enter(t) BY <1>1, <1>2, <1>5, <1>11
<1>12. CASE \E p \in Pids : Killed(p) BY <1>1, <1>2, <1>6, <1>12
<1> QED BY <1>7, <1>9, <1>10, <1>11, <1>12 DEF Next, Step, Moves

(* Calls that come to share a path learn of each other; who knows of one   *)
(* goes on to know.                                                        *)
LEMMA RivalsKept ==
  ASSUME IInv, [Next]_vars
  PROVE  Rivals'
PROOF
<1> USE DEF Path
<1>0. /\ \A t \in Threads : call[t].rivals \subseteq Past /\ Past \subseteq Past'
      /\ \A t, u \in Threads : t # u /\ Loaded(t) /\ Loaded(u) /\ Path(t) = Path(u)
           => This(u) \in call[t].rivals
  BY PastGrows DEF IInv, Rivals
<1>1. ASSUME NEW t \in Threads, Load(t) PROVE Rivals'
  <2> DEFINE cnt == counter[Process[t]]
             same == {u \in Threads : Process[u] = Process[t] /\ call[u].cnt = cnt /\ Loaded(u)}
  <2>1. /\ t \notin same /\ UNCHANGED number
        /\ call'[t] = [call[t] EXCEPT !.pc = "store", !.cnt = cnt,
                                     !.rivals = {This(r) : r \in same}]
        /\ \A u \in Threads \ {t} :
             call'[u] = IF u \in same THEN [call[u] EXCEPT !.rivals = @ \cup {This(t)}]
                                      ELSE call[u]
    BY <1>1, Loading
  <2>2. \A u \in Threads : This(u)' = This(u) BY <2>1 DEF This
  <2>3. call'[t].cnt = cnt /\ call'[t].rivals = {This(r) : r \in same}
    BY <2>1, Begins DEF Records
  <2>4. \A u \in Threads : u \in same => This(u) \in Past
    BY Begins DEF Loaded, At, Past, This, IInv, Counted, Begun
  <2>5. This(t) \in Past'
    <3>1. call'[t].pc = "store" BY <2>1, Begins DEF Records
    <3>2. This(t) \in Calls BY <1>1 DEF Load, At, IInv, Counted, Begun
    <3> DEFINE c == This(t)
    <3>3. c[1] = t /\ c[2] = number[t] BY DEF This
    <3> HIDE DEF c
    <3>4. c \in Calls BY <3>2 DEF c
    <3>5. c \in Past' BY <2>1, <3>1, <3>3, <3>4 DEF Past, At
    <3> QED BY <3>5 DEF c
  <2>6. \A u \in Threads : call'[u].rivals \subseteq Past'
    <3>1. call'[t].rivals \subseteq Past' BY <1>0, <2>3, <2>4
    <3>2. ASSUME NEW u \in Threads \ {t} PROVE call'[u].rivals \subseteq Past'
      <4>1. call'[u].rivals \subseteq call[u].rivals \cup {This(t)} BY <1>1, LoadingOthers
      <4> QED BY <1>0, <2>5, <4>1
    <3> QED BY <3>1, <3>2
  <2>7. ASSUME NEW u \in Threads \ {t}, Loaded(u)', Path(t)' = Path(u)'
        PROVE  This(u) \in call'[t].rivals /\ This(t) \in call'[u].rivals
    <3>1. call'[u].cnt = call[u].cnt /\ (Loaded(u)' <=> Loaded(u))
      BY <1>1, LoadingOthers DEF Loaded
    <3>2. u \in same BY <2>3, <2>7, <3>1
    <3>3. call'[u] = [call[u] EXCEPT !.rivals = @ \cup {This(t)}] BY <2>1, <3>2
    <3> QED BY <2>3, <3>2, <3>3, Begins DEF Records
  <2>8. ASSUME NEW u \in Threads \ {t}, NEW v \in Threads \ {t}, u # v, Loaded(u)', Loaded(v)',
               Path(u)' = Path(v)'
        PROVE  This(v) \in call'[u].rivals
    BY <1>0, <1>1, <2>8, LoadingOthers DEF Loaded
  <2> HIDE DEF same, cnt
  <2> QED BY <2>2, <2>6, <2>7, <2>8 DEF Rivals
<1>2. ASSUME NEW t \in Threads, Moves(t) PROVE Rivals'
  <2>1. /\ \A u \in Threads : This(u)' = This(u)
        /\ \A u \in Threads : Loaded(u)' => Loaded(u) /\ call'[u].cnt = call[u].cnt
                                                  /\ call'[u].rivals = call[u].rivals
    BY <1>2, Moving DEF Loaded, This
  <2>2. \A u \in Threads : call'[u].rivals \subseteq call[u].rivals
    <3>1. ASSUME ~Loaded(t)' PROVE call'[t].rivals = {}
      <4>1. CASE CloseListener(t)
        <5>1. CASE At(t, "close") /\ Goes(t, "remove")
          BY <3>1, <5>1, Begins DEF Goes, Loaded, Records
        <5>2. CASE call' = [call EXCEPT ![t] = Idle] BY <5>2, Begins DEF Idle
        <5> QED BY <4>1, <5>1, <5>2 DEF CloseListener
      <4>2. CASE Remove(t) BY <4>2, Begins DEF Remove, Idle
      <4>3. CASE Store(t) \/ Unlink(t) \/ Bind(t) \/ Listen(t) \/ Connect(t) \/ FailUnlink(t)
                 \/ BindFails(t) \/ LaterFails(t)
        BY <3>1, <4>3, Begins DEF Store, Unlink, Bind, Listen, Connect, FailUnlink, BindFails,
                                  LaterFails, Goes, Loaded, Records
      <4>4. CASE Accept(t) BY <3>1, <4>4, Begins DEF Accept, Loaded, Records
      <4> QED BY <1>2, <4>1, <4>2, <4>3, <4>4 DEF Moves
    <3> QED BY <1>2, <2>1, <3>1, Moving
  <2> QED BY <1>0, <2>1, <2>2 DEF Rivals
<1>3. ASSUME NEW t \in Threads, Enter(t) PROVE Rivals'
  <2>1. /\ \A u \in Threads : call'[u].rivals = call[u].rivals /\ call'[u].cnt = call[u].cnt
        /\ \A u \in Threads : Loaded(u)' => Loaded(u) /\ This(u)' = This(u)
    BY <1>3, Begins DEF Enter, Goes, At, Loaded, Records, This
  <2> QED BY <1>0, <2>1 DEF Rivals
<1>4. ASSUME NEW p \in Pids, Killed(p) PROVE Rivals'
  <2>1. \A u \in Threads : call'[u] = call[u] \/ (call'[u].rivals = {} /\ ~Loaded(u)')
    BY <1>4, Begins DEF Killed, Idle, Loaded
  <2>2. \A u \in Threads : This(u)' = This(u) BY <1>4 DEF Killed, This
  <2> QED BY <1>0, <2>1, <2>2 DEF Rivals, Loaded
<1>5. CASE UNCHANGED vars BY <1>0, <1>5 DEF vars, Rivals, Loaded, This
<1> QED BY <1>1, <1>2, <1>3, <1>4, <1>5 DEF Next, Step, Moves

(* The files in /tmp and the listeners.                                    *)
LEMMA SocketsKept ==
  ASSUME IInv, [Next]_vars
  PROVE  Owned' /\ Sockets'
PROOF
<1> DEFINE Bound == \A f \in Paths : bound[f] # None => bound[f] \in Begun
           Dead == \A c \in killed : c \in Begun /\ \A t \in Threads : c = This(t) => At(t, "idle")
           Open == \A c \in listening : \E t \in Threads : c = This(t) /\ Listens(t)
           Queued == \A c \in Calls : backlog[c] # << >> => c \in listening
<1>0. Owned /\ Bound /\ Dead /\ Open /\ Queued BY DEF IInv, Sockets
<1>1. Begun \subseteq Begun' BY PastGrows
<1>2. ASSUME NEW t \in Threads, Enter(t) PROVE Owned' /\ Sockets'
  <2>1. /\ call'[t].pc = "load" /\ call[t].pc = "idle"
        /\ \A u \in Threads \ {t} : call'[u] = call[u] /\ This(u)' = This(u)
        /\ UNCHANGED <<bound, listening, backlog, killed>>
    BY <1>2, Begins DEF Enter, Goes, At, This, sockets, Records
  <2>2. This(t)' \notin Begun BY <1>2, PastGrows
  <2>3. Owned' BY <1>0, <2>1 DEF Owned, Path
  <2>4. Dead' BY <1>0, <1>1, <2>1, <2>2 DEF At
  <2>5. Open' BY <1>0, <2>1 DEF Listens
  <2> QED BY <1>0, <1>1, <2>1, <2>3, <2>4, <2>5 DEF Sockets
<1>3. ASSUME NEW t \in Threads, Load(t) PROVE Owned' /\ Sockets'
  <2>1. /\ call'[t].pc = "store" /\ call[t].pc = "load" /\ \A u \in Threads : This(u)' = This(u)
        /\ \A u \in Threads \ {t} : call'[u].pc = call[u].pc /\ call'[u].cnt = call[u].cnt
        /\ UNCHANGED <<bound, listening, backlog, killed>>
    <3>1. call'[t].pc = "store" BY <1>3, Loading, Begins DEF Records
    <3>2. UNCHANGED <<bound, listening, backlog, killed, number>> BY <1>3, Loading DEF sockets
    <3> QED BY <1>3, <3>1, <3>2, LoadingOthers DEF Load, At, This
  <2>3. Owned' BY <1>0, <2>1 DEF Owned, Path
  <2>4. Dead' BY <1>0, <1>1, <2>1 DEF At
  <2>5. Open' BY <1>0, <2>1 DEF Listens
  <2> QED BY <1>0, <1>1, <2>1, <2>3, <2>4, <2>5 DEF Sockets
<1>4. ASSUME NEW p \in Pids, Killed(p) PROVE Owned' /\ Sockets'
  <2> DEFINE busy == {t \in Threads : Process[t] = p /\ ~At(t, "idle")}
             mine == {c \in Calls : Process[c[1]] = p}
  <2>1. /\ \A u \in Threads : call'[u] = IF u \in busy THEN Idle ELSE call[u]
        /\ killed' = killed \cup {This(t) : t \in busy}
        /\ \A u \in Threads : This(u)' = This(u)
        /\ listening' = listening \ mine
        /\ backlog' = [c \in Calls |-> IF c \in mine THEN << >> ELSE backlog[c]]
        /\ UNCHANGED bound
    BY <1>4 DEF Killed, This
  <2>2. \A t \in busy : This(t) \in Begun BY DEF IInv, Counted
  <2>3. Owned'
    <3> SUFFICES ASSUME NEW f \in Paths, bound[f] # None, bound[f] \notin killed'
                 PROVE  \E t \in Threads : /\ bound[f] = This(t)' /\ f = Path(t)'
                           /\ call'[t].pc \in {"listen", "connect", "accept", "close", "remove",
                                              "failUnlink"}
      BY <2>1 DEF Owned
    <3>1. PICK t \in Threads : /\ bound[f] = This(t) /\ f = Path(t)
                               /\ call[t].pc \in {"listen", "connect", "accept", "close", "remove",
                                                  "failUnlink"}
      BY <1>0, <2>1 DEF Owned
    <3>2. t \notin busy BY <2>1, <3>1
    <3> QED BY <2>1, <3>1, <3>2 DEF Path
  <2>4. Dead'
    <3>1. \A u \in Threads, t \in busy : This(u) = This(t) => u = t BY DEF This
    <3>2. \A t \in busy : At(t, "idle")' BY <2>1 DEF At, Idle
    <3>3. \A u \in Threads : At(u, "idle") => At(u, "idle")' BY <2>1, <3>2 DEF At
    <3> QED BY <1>0, <1>1, <2>1, <2>2, <3>1, <3>2, <3>3
  <2>5. Open'
    <3> SUFFICES ASSUME NEW c \in listening \ mine
                 PROVE  \E t \in Threads : c = This(t) /\ Listens(t)'
      BY <2>1
    <3>1. PICK t \in Threads : c = This(t) /\ Listens(t) BY <1>0
    <3>2. Process[t] # p
      <4>1. c \in Calls /\ c[1] = t BY <3>1 DEF IInv, TypeOK, This
      <4> QED BY <4>1
    <3> QED BY <2>1, <3>1, <3>2 DEF Listens
  <2>6. Queued' BY <1>0, <2>1
  <2>7. Bound' BY <1>0, <1>1, <2>1
  <2> HIDE DEF Dead, Open, Queued, Bound
  <2> QED BY <2>3, <2>4, <2>5, <2>6, <2>7 DEF Sockets, Dead, Open, Queued, Bound
<1>5. ASSUME NEW t \in Threads, Moves(t) PROVE Owned' /\ Sockets'
  <2>1. /\ \A u \in Threads : This(u)' = This(u)
        /\ \A u \in Threads \ {t} : call'[u] = call[u]
        /\ Begun' = Begun /\ UNCHANGED killed /\ ~At(t, "idle") /\ This(t) \in Begun
        /\ Loaded(t)' => Path(t)' = Path(t)
    BY <1>1, <1>5, Moving DEF Begun, This, Path, Loaded, At, IInv, Counted
  <2>2. \A u \in Threads : This(u) = This(t) => u = t BY DEF This
  <2>3. Dead' BY <1>0, <2>1, <2>2 DEF At
  <2>4. CASE Store(t) \/ BindFails(t)
    <3>1. /\ call[t].pc \in {"store", "bind"} /\ call'[t].pc \in {"unlink", "failClose"}
          /\ UNCHANGED <<bound, listening, backlog>>
      BY <2>4, Begins DEF Store, BindFails, Goes, At, sockets, Records
    <3>2. Owned' BY <1>0, <2>1, <3>1 DEF Owned, Path
    <3>3. Open' BY <1>0, <2>1, <3>1 DEF Listens
    <3> QED BY <1>0, <2>1, <2>3, <3>1, <3>2, <3>3 DEF Sockets
  <2>5. CASE Listen(t) \/ Connect(t) \/ Accept(t) \/ LaterFails(t)
    <3>1. /\ call[t].pc \in {"listen", "connect", "accept"}
          /\ call'[t].pc \in {"connect", "accept", "close", "failUnlink"}
          /\ bound' = bound /\ listening' \in {listening, listening \cup {This(t)}}
      BY <2>5, Begins DEF Listen, Connect, Accept, LaterFails, Goes, At, sockets, Records
    <3>2. Owned' BY <1>0, <2>1, <3>1, Moving DEF Owned, Path, Loaded
    <3>3. Open' BY <1>0, <2>1, <3>1 DEF Listens
    <3>4. Queued'
      <4>1. CASE Listen(t) \/ LaterFails(t)
        BY <1>0, <3>1, <4>1 DEF Listen, LaterFails, sockets
      <4>2. CASE Connect(t) BY <1>0, <4>2 DEF Connect, IInv, TypeOK
      <4>3. CASE Accept(t) BY <1>0, <4>3 DEF Accept, IInv, TypeOK
      <4> QED BY <2>5, <4>1, <4>2, <4>3
    <3> QED BY <1>0, <2>1, <2>3, <3>1, <3>2, <3>3, <3>4 DEF Sockets
  <2>6. CASE Unlink(t) \/ FailUnlink(t) \/ Remove(t)
    <3>1. /\ call[t].pc \in {"unlink", "failUnlink", "remove"}
          /\ call'[t].pc \in {"bind", "failClose", "idle"}
          /\ call[t].pc = "failUnlink" => call'[t].pc = "failClose"
          /\ bound' = [bound EXCEPT ![Path(t)] = None] /\ UNCHANGED <<listening, backlog>>
      BY <2>6, Begins DEF Unlink, FailUnlink, Remove, Idle, Goes, At, sockets, Records
    <3>2. \A f \in Paths : bound'[f] = IF f = Path(t) THEN None ELSE bound[f]
      BY <3>1 DEF IInv, TypeOK
    <3>3. Owned' BY <1>0, <2>1, <3>1, <3>2 DEF Owned, Path
    <3>4. Open' BY <1>0, <2>1, <2>2, <3>1 DEF Listens
    <3>5. Bound' BY <1>0, <2>1, <3>2
    <3> QED BY <1>0, <2>1, <2>3, <3>1, <3>3, <3>4, <3>5 DEF Sockets
  <2>7. CASE Bind(t)
    <3>1. /\ call[t].pc = "bind" /\ call'[t].pc = "listen"
          /\ bound' = [bound EXCEPT ![Path(t)] = This(t)] /\ UNCHANGED <<listening, backlog>>
      BY <2>7, Begins DEF Bind, Goes, At, sockets, Records
    <3>2. \A f \in Paths : bound'[f] = IF f = Path(t) THEN This(t) ELSE bound[f]
      BY <3>1 DEF IInv, TypeOK
    <3>3. Path(t)' = Path(t) BY <2>1, <3>1 DEF Loaded
    <3>4. Owned' BY <1>0, <2>1, <3>1, <3>2, <3>3 DEF Owned, Path
    <3>5. Open' BY <1>0, <2>1, <3>1 DEF Listens
    <3>6. Bound' BY <1>0, <2>1, <3>2
    <3> QED BY <1>0, <2>1, <2>3, <3>1, <3>4, <3>5, <3>6 DEF Sockets
  <2>8. CASE CloseListener(t)
    <3>1. /\ \/ call[t].pc = "close" /\ call'[t].pc = "remove"
             \/ call[t].pc = "failClose" /\ call'[t].pc = "idle"
          /\ bound' = bound /\ listening' = listening \ {This(t)}
          /\ backlog' = [backlog EXCEPT ![This(t)] = << >>]
      <4>1. ASSUME At(t, "close"), Goes(t, "remove")
            PROVE  call[t].pc = "close" /\ call'[t].pc = "remove"
        BY <4>1, Begins DEF Goes, At, Records
      <4>2. ASSUME At(t, "failClose"), call' = [call EXCEPT ![t] = Idle]
            PROVE  call[t].pc = "failClose" /\ call'[t].pc = "idle"
        BY <4>2, Begins DEF At, Idle
      <4>3. /\ bound' = bound /\ listening' = listening \ {This(t)}
            /\ backlog' = [backlog EXCEPT ![This(t)] = << >>]
        BY <2>8 DEF CloseListener
      <4> QED BY <2>8, <4>1, <4>2, <4>3 DEF CloseListener
    <3>2. Path(t)' = Path(t) \/ call[t].pc = "failClose" BY <2>1, <3>1 DEF Loaded
    <3>3. Owned' BY <1>0, <2>1, <3>1, <3>2 DEF Owned, Path
    <3>4. Open' BY <1>0, <2>1, <3>1 DEF Listens
    <3>5. Queued' BY <1>0, <3>1 DEF IInv, TypeOK
    <3> QED BY <1>0, <2>1, <2>3, <3>1, <3>3, <3>4, <3>5 DEF Sockets
  <2> QED BY <1>5, <2>4, <2>5, <2>6, <2>7, <2>8 DEF Moves
<1>6. CASE UNCHANGED vars
  BY <1>0, <1>6 DEF vars, sockets, Owned, Sockets, Begun, This, Path, Listens, At
<1> QED BY <1>2, <1>3, <1>4, <1>5, <1>6 DEF Next, Step, Moves

(* Who shares its path with nobody finds what it has unlinked gone.        *)
LEMMA UnobstructedKept ==
  ASSUME IInv, [Next]_vars
  PROVE  Unobstructed'
PROOF
<1>0. Unobstructed /\ bound \in [Paths -> Calls \cup {None}] BY DEF IInv, TypeOK
<1>1. ASSUME NEW t \in Threads, Enter(t) PROVE Unobstructed'
  <2>1. /\ call'[t].pc = "load" /\ \A u \in Threads \ {t} : call'[u] = call[u]
        /\ UNCHANGED bound
    BY <1>1, Begins DEF Enter, Goes, Records
  <2> QED BY <1>0, <2>1 DEF Unobstructed, At, Path
<1>2. ASSUME NEW t \in Threads, Load(t) PROVE Unobstructed'
  <2>1. call'[t].pc = "store" BY <1>2, Loading, Begins DEF Records
  <2>2. \A u \in Threads \ {t} : /\ call'[u].pc = call[u].pc /\ call'[u].cnt = call[u].cnt
                                 /\ call[u].rivals \subseteq call'[u].rivals
    BY <1>2, LoadingOthers
  <2>3. UNCHANGED bound BY <1>2, Loading
  <2> QED BY <1>0, <2>1, <2>2, <2>3 DEF Unobstructed, At, Path
<1>3. ASSUME NEW p \in Pids, Killed(p) PROVE Unobstructed'
  <2>1. \A u \in Threads : call'[u] = call[u] \/ call'[u].pc = "idle"
    BY <1>3, Begins DEF Killed, Idle
  <2>2. UNCHANGED bound BY <1>3 DEF Killed
  <2> QED BY <1>0, <2>1, <2>2 DEF Unobstructed, At, Path
<1>4. ASSUME NEW t \in Threads, Moves(t) PROVE Unobstructed'
  <2>1. \A u \in Threads \ {t} : call'[u] = call[u] BY <1>4, Moving
  <2>2. \A u \in Threads : Path(u) \in Paths BY Begins
  <2>3. CASE Bind(t)
    <3>1. call'[t].pc = "listen" /\ bound' = [bound EXCEPT ![Path(t)] = This(t)]
      BY <2>3, Begins DEF Bind, Goes, Records
    <3>2. ASSUME NEW u \in Threads \ {t}, At(u, "bind"), call[u].rivals = {}
          PROVE  Path(u) # Path(t)
      BY <2>3, <3>2 DEF IInv, Rivals, Loaded, At, Bind
    <3>3. \A f \in Paths : f # Path(t) => bound'[f] = bound[f] BY <1>0, <3>1
    <3>4. \A u \in Threads \ {t} : Path(u)' = Path(u) BY <2>1 DEF Path
    <3> QED BY <1>0, <2>1, <2>2, <3>1, <3>2, <3>3, <3>4 DEF Unobstructed, At
  <2>4. CASE Unlink(t)
    <3>1. call'[t] = [call[t] EXCEPT !.pc = "bind"] /\ bound' = [bound EXCEPT ![Path(t)] = None]
      BY <2>4, Begins DEF Unlink, Goes
    <3>2. \A u \in Threads : Path(u)' = Path(u) BY <2>1, <3>1, Begins DEF Path, Records
    <3>3. \A f \in Paths : bound'[f] = IF f = Path(t) THEN None ELSE bound[f] BY <1>0, <3>1
    <3> QED BY <1>0, <2>1, <2>2, <3>2, <3>3 DEF Unobstructed, At
  <2>5. CASE ~Bind(t) /\ ~Unlink(t)
    <3>1. call'[t].pc # "bind"
      <4>1. CASE CloseListener(t)
        <5>1. CASE At(t, "close") /\ Goes(t, "remove") BY <5>1, Begins DEF Goes, Records
        <5>2. CASE call' = [call EXCEPT ![t] = Idle] BY <5>2, Begins DEF Idle
        <5> QED BY <4>1, <5>1, <5>2 DEF CloseListener
      <4>2. CASE Accept(t) BY <4>2, Begins DEF Accept, Records
      <4> QED BY <1>4, <2>5, <4>1, <4>2, Begins DEF Moves, Store, Listen, Connect, Remove,
                 FailUnlink, BindFails, LaterFails, Goes, Records, Idle
    <3>2. \A f \in Paths : bound'[f] \in {bound[f], None}
      BY <1>0, <1>4, <2>5 DEF Moves, Store, Listen, Connect, Accept, CloseListener, Remove,
                 FailUnlink, BindFails, LaterFails
    <3>3. \A u \in Threads \ {t} : Path(u)' = Path(u) BY <2>1 DEF Path
    <3> QED BY <1>0, <2>1, <2>2, <3>1, <3>2, <3>3 DEF Unobstructed, At
  <2> QED BY <2>3, <2>4, <2>5
<1>5. CASE UNCHANGED vars BY <1>0, <1>5 DEF vars, Unobstructed, At, Path
<1> QED BY <1>1, <1>2, <1>3, <1>4, <1>5 DEF Next, Step, Moves

(* Nobody is connected to the listener of a call it does not know.         *)
LEMMA ConnectedKept ==
  ASSUME IInv, [Next]_vars
  PROVE  Connected' /\ Paired'
PROOF
<1> DEFINE Conn(t) == This(t) \in Calls =>
                        \A i \in 1..Len(backlog[This(t)]) : backlog[This(t)][i] \in Own(t)
           Peer(t) == call[t].pc \in {"close", "remove"} => call[t].peer \in Own(t)
           Made == \A r \in made : r.accepted \in {r.call} \cup r.rivals
<1>0. /\ \A t \in Threads : Conn(t) /\ Peer(t)
      /\ Made
  BY DEF IInv, Connected, Paired
<1>a. backlog \in [Calls -> Seq(Calls)] BY DEF IInv, TypeOK
<1>2. ASSUME NEW t \in Threads, Enter(t) PROVE Connected' /\ Paired'
  <2>1. /\ call'[t].pc = "load"
        /\ \A u \in Threads \ {t} : call'[u] = call[u] /\ This(u)' = This(u)
        /\ UNCHANGED <<listening, backlog, made>>
    BY <1>2, Begins DEF Enter, Goes, At, This, sockets, Records
  <2>2. This(t)' \notin Begun BY <1>2, PastGrows
  <2>3. This(t)' \in Calls => backlog[This(t)'] = << >>
    BY <2>2, Begins DEF IInv, Sockets, Counted, Listens, At
  <2>4. Conn(t)' BY <2>1, <2>3
  <2>5. \A u \in Threads \ {t} : Conn(u)' BY <1>0, <2>1 DEF Own
  <2>6. \A u \in Threads : Peer(u)' BY <1>0, <2>1 DEF Own
  <2> QED BY <1>0, <2>1, <2>4, <2>5, <2>6 DEF Connected, Paired
<1>3. ASSUME NEW t \in Threads, Load(t) PROVE Connected' /\ Paired'
  <2>1. /\ call'[t].pc = "store" /\ call[t].pc = "load" /\ \A u \in Threads : This(u)' = This(u)
        /\ \A u \in Threads \ {t} : /\ call'[u].pc = call[u].pc /\ call'[u].peer = call[u].peer
                                    /\ call[u].rivals \subseteq call'[u].rivals
        /\ UNCHANGED <<listening, backlog, made>>
    <3>1. call'[t].pc = "store" BY <1>3, Loading, Begins DEF Records
    <3>2. UNCHANGED <<listening, backlog, made, number>> BY <1>3, Loading DEF sockets
    <3> QED BY <1>3, <3>1, <3>2, LoadingOthers DEF Load, At, This
  <2>2. This(t) \in Calls => backlog[This(t)] = << >>
    <3>1. \A u \in Threads : This(u) = This(t) => u = t BY DEF This
    <3> QED BY <2>1, <3>1 DEF IInv, Sockets, Listens
  <2>3. \A u \in Threads \ {t} : Own(u) \subseteq Own(u)' BY <2>1 DEF Own
  <2>4. Conn(t)' BY <2>1, <2>2
  <2>5. \A u \in Threads \ {t} : Conn(u)' BY <1>0, <2>1, <2>3
  <2>6. \A u \in Threads : Peer(u)' BY <1>0, <2>1, <2>3
  <2> QED BY <1>0, <2>1, <2>4, <2>5, <2>6 DEF Connected, Paired
<1>4. ASSUME NEW p \in Pids, Killed(p) PROVE Connected' /\ Paired'
  <2> DEFINE mine == {c \in Calls : Process[c[1]] = p}
  <2>1. /\ \A u \in Threads : call'[u] = call[u] \/ (call'[u] = Idle /\ Process[u] = p)
        /\ \A u \in Threads : This(u)' = This(u)
        /\ \A c \in Calls : backlog'[c] = IF c \in mine THEN << >> ELSE backlog[c]
        /\ UNCHANGED made
    BY <1>4 DEF Killed, This
  <2>2. \A u \in Threads : This(u) \in Calls => (This(u) \in mine <=> Process[u] = p)
    BY DEF This
  <2>3. ASSUME NEW u \in Threads PROVE Conn(u)'
    <3>1. CASE This(u) \in mine BY <2>1, <3>1
    <3>2. CASE This(u) \in Calls \ mine
      <4>1. call'[u] = call[u] /\ backlog'[This(u)] = backlog[This(u)]
        BY <2>1, <2>2, <3>2
      <4> QED BY <1>0, <2>1, <4>1 DEF Own
    <3> QED BY <2>1, <3>1, <3>2
  <2>4. \A u \in Threads : Peer(u)' BY <1>0, <2>1 DEF Idle, Own
  <2> QED BY <1>0, <2>1, <2>3, <2>4 DEF Connected, Paired
<1>5. ASSUME NEW t \in Threads, Moves(t) PROVE Connected' /\ Paired'
  <2>1. /\ \A u \in Threads : This(u)' = This(u)
        /\ \A u \in Threads \ {t} : call'[u] = call[u] /\ Own(u)' = Own(u)
        /\ This(t) \in Calls
        /\ Loaded(t)' => Own(t)' = Own(t)
    BY <1>5, Moving DEF Begun, This, Own, Loaded, At, IInv, Counted
  <2>2. \A u \in Threads : This(u) = This(t) => u = t BY DEF This
  <2>a. ~Loaded(t)' => CloseListener(t) \/ Remove(t)
    <3>1. Accept(t) => Loaded(t)' BY Begins DEF Accept, Loaded, Records
    <3> QED BY <1>5, <3>1, Begins DEF Moves, Loaded, Store, Unlink, Bind, Listen, Connect,
                                  FailUnlink, BindFails, LaterFails, Goes, Records
  <2>3. CASE Store(t) \/ Unlink(t) \/ Bind(t) \/ Listen(t) \/ FailUnlink(t) \/ BindFails(t)
             \/ LaterFails(t)
    <3>1. /\ call'[t].pc \in {"unlink", "bind", "listen", "connect", "failUnlink", "failClose"}
          /\ UNCHANGED <<backlog, made>>
      BY <2>3, Begins DEF Store, Unlink, Bind, Listen, FailUnlink, BindFails, LaterFails, Goes, At,
                          sockets, Records
    <3>2. Loaded(t)' BY <3>1 DEF Loaded
    <3>3. \A u \in Threads : Conn(u)' BY <1>0, <2>1, <3>1, <3>2
    <3>4. \A u \in Threads : Peer(u)' BY <1>0, <2>1, <3>1
    <3> QED BY <1>0, <3>1, <3>3, <3>4 DEF Connected, Paired
  <2>4. CASE Connect(t)
    <3>1. PICK c \in Calls : /\ c = bound[Path(t)] /\ c \in listening
                             /\ backlog' = [backlog EXCEPT ![c] = Append(@, This(t))]
      BY <2>4 DEF Connect, IInv, TypeOK
    <3>2. /\ call[t].pc = "connect" /\ call'[t].pc = "accept" /\ UNCHANGED <<bound, made>>
      BY <2>4, Begins DEF Connect, Goes, At, Records
    <3>3. Path(t) \in Paths BY Begins
    <3>4. PICK v \in Threads : c = This(v) /\ Path(v) = Path(t) /\ Loaded(v)
      <4>1. c \notin killed BY <3>1 DEF IInv, Sockets, Listens, At
      <4>2. c # None BY PairAssumption DEF Calls
      <4> QED BY <3>1, <3>3, <4>1, <4>2 DEF IInv, Owned, Loaded
    <3>5. This(t) \in Own(v) BY <3>2, <3>4 DEF IInv, Rivals, Loaded, Own
    <3>6. \A u \in Threads : Own(u)' = Own(u) BY <2>1, <3>2 DEF Loaded
    <3>7. Conn(v)'
      <4>1. backlog[c] \in Seq(Calls) /\ backlog'[c] = Append(backlog[c], This(t))
        BY <1>a, <3>1
      <4>2. \A i \in 1..Len(backlog'[c]) :
              backlog'[c][i] = This(t) \/ (i \in 1..Len(backlog[c]) /\ backlog'[c][i] = backlog[c][i])
        BY <2>1, <4>1
      <4> QED BY <1>0, <2>1, <3>4, <3>5, <3>6, <4>2
    <3>8. ASSUME NEW u \in Threads \ {v} PROVE Conn(u)'
      <4>1. This(u) # c BY <3>4 DEF This
      <4>2. This(u) \in Calls => backlog'[This(u)] = backlog[This(u)] BY <1>a, <3>1, <4>1
      <4> QED BY <1>0, <2>1, <3>6, <4>2
    <3>9. \A u \in Threads : Peer(u)' BY <1>0, <2>1, <3>2
    <3> QED BY <1>0, <3>2, <3>7, <3>8, <3>9 DEF Connected, Paired
  <2>5. CASE Accept(t)
    <3> DEFINE b == backlog[This(t)]
    <3>1. b \in Seq(Calls) /\ b # << >> BY <1>a, <2>1, <2>5 DEF Accept
    <3>2. /\ Head(b) = b[1] /\ 1 \in 1..Len(b) /\ Tail(b) \in Seq(Calls)
          /\ \A i \in 1..Len(Tail(b)) : i + 1 \in 1..Len(b) /\ Tail(b)[i] = b[i + 1]
      BY <3>1
    <3>3. Head(b) \in Own(t) /\ \A i \in 1..Len(Tail(b)) : Tail(b)[i] \in Own(t)
      BY <1>0, <2>1, <3>2
    <3>4. /\ call'[t].pc = "close" /\ call'[t].peer = Head(b) /\ UNCHANGED made
          /\ backlog' = [backlog EXCEPT ![This(t)] = Tail(b)]
      BY <1>a, <2>1, <2>5, Begins DEF Accept, Records
    <3> HIDE DEF b
    <3>5. \A u \in Threads : Own(u)' = Own(u) BY <2>1, <3>4 DEF Loaded
    <3>6. Conn(t)'
      <4>1. backlog'[This(t)] = Tail(b) BY <1>a, <2>1, <3>4
      <4> QED BY <2>1, <3>3, <3>5, <4>1
    <3>7. ASSUME NEW u \in Threads \ {t} PROVE Conn(u)'
      <4>1. This(u) \in Calls => backlog'[This(u)] = backlog[This(u)] BY <1>a, <2>2, <3>4, <3>7
      <4> QED BY <1>0, <2>1, <3>5, <4>1
    <3>8. \A u \in Threads : Peer(u)' BY <1>0, <2>1, <3>3, <3>4, <3>5
    <3> QED BY <1>0, <3>4, <3>6, <3>7, <3>8 DEF Connected, Paired
  <2>6. CASE CloseListener(t)
    <3>1. /\ call'[t].pc = "remove" => call[t].pc = "close" /\ call'[t].peer = call[t].peer
                                         /\ call'[t].rivals = call[t].rivals
          /\ call'[t].pc \in {"remove", "idle"}
          /\ UNCHANGED made
      <4>1. CASE At(t, "close") /\ Goes(t, "remove")
        BY <2>6, <4>1, Begins DEF CloseListener, Goes, At, Records
      <4>2. CASE call' = [call EXCEPT ![t] = Idle]
        BY <2>6, <4>2, Begins DEF CloseListener, Idle
      <4> QED BY <2>6, <4>1, <4>2 DEF CloseListener
    <3>2. \A u \in Threads : This(u) \in Calls =>
            backlog'[This(u)] = IF u = t THEN << >> ELSE backlog[This(u)]
      BY <1>a, <2>2, <2>6 DEF CloseListener
    <3>3. \A u \in Threads : Conn(u)' BY <1>0, <2>1, <3>2
    <3>4. \A u \in Threads : Peer(u)' BY <1>0, <2>1, <3>1 DEF Own
    <3> QED BY <1>0, <3>1, <3>3, <3>4 DEF Connected, Paired
  <2>7. CASE Remove(t)
    <3>1. /\ call[t].pc = "remove" /\ call'[t].pc = "idle" /\ made' = made \cup {Pair(t)}
          /\ UNCHANGED backlog
      BY <2>7, Begins DEF Remove, At, Idle, sockets
    <3>2. backlog[This(t)] = << >>
      BY <2>1, <2>2, <3>1 DEF IInv, Sockets, Listens
    <3>3. \A u \in Threads : Conn(u)' BY <1>0, <2>1, <3>1, <3>2
    <3>4. \A u \in Threads : Peer(u)' BY <1>0, <2>1, <3>1
    <3>5. Pair(t).accepted \in {Pair(t).call} \cup Pair(t).rivals
      BY <1>0, <3>1 DEF Pair, Own
    <3> QED BY <1>0, <3>1, <3>3, <3>4, <3>5 DEF Connected, Paired
  <2> QED BY <1>5, <2>3, <2>4, <2>5, <2>6, <2>7 DEF Moves
<1>6. CASE UNCHANGED vars
  BY ZenonT(60), <1>6 DEF IInv, vars, sockets, Connected, Paired, Own, This
<1> QED BY <1>2, <1>3, <1>4, <1>5, <1>6 DEF Next, Step, Moves

(* The values stay those that the counter and the calls can take.          *)
LEMMA Typed ==
  ASSUME IInv, [Next]_vars
  PROVE  TypeOK'
PROOF
<1> USE Begins
<1>0. Counted' BY CountedKept
<1>1. /\ IsFiniteSet(Past)' /\ Cardinality(Past)' \in Nat /\ Cardinality(Past)' <= MaxCalls
  BY Cards, PairAssumption
<1>a. TypeOK BY DEF IInv
<1>2. ASSUME NEW t \in Threads, Enter(t) PROVE TypeOK'
  <2>1. call' \in [Threads -> Records]
    BY <1>2 DEF Enter, Goes, Records, PCs
  <2>2. number' \in [Threads -> 0..MaxCalls] BY <1>2 DEF Enter
  <2> QED BY <1>a, <1>2, <2>1, <2>2 DEF TypeOK, Enter, sockets, Records
<1>3. ASSUME NEW t \in Threads, Load(t) PROVE TypeOK'
  <2>1. counter[Process[t]] \in Counts BY <1>a DEF TypeOK
  <2>2. call' \in [Threads -> Records]
    <3>1. Rivals' BY RivalsKept
    <3>2. \A u \in Threads : call'[u].rivals \in SUBSET Calls
      BY <3>1 DEF Rivals, Past
    <3>3. \A u \in Threads \ {t} : call'[u] \in Records
      <4> SUFFICES ASSUME NEW u \in Threads \ {t} PROVE call'[u] \in Records OBVIOUS
      <4>1. call'[u] = [call[u] EXCEPT !.rivals = call'[u].rivals] BY <1>3, LoadingOthers
      <4>2. call'[u].rivals \in SUBSET Calls BY <3>2
      <4>3. call[u] \in Records OBVIOUS
      <4> HIDE DEF Calls
      <4> QED BY <4>1, <4>2, <4>3 DEF Records
    <3>4. call'[t] \in Records
      <4> DEFINE same == {u \in Threads : /\ Process[u] = Process[t]
                                          /\ call[u].cnt = counter[Process[t]] /\ Loaded(u)}
      <4>1. call'[t] = [call[t] EXCEPT !.pc = "store", !.cnt = counter[Process[t]],
                                      !.rivals = {This(r) : r \in same}]
        BY <1>3, Loading
      <4> HIDE DEF same
      <4>2. call'[t].rivals = {This(r) : r \in same} BY <4>1 DEF Records
      <4>3. {This(r) : r \in same} \in SUBSET Calls BY <3>2, <4>2
      <4> QED BY <2>1, <4>1, <4>3 DEF Records, PCs
    <3>5. DOMAIN call' = Threads /\ call' = [u \in Threads |-> call'[u]]
      BY <1>3, Loading
    <3> QED BY <3>3, <3>4, <3>5
  <2> QED BY <1>a, <1>3, <2>2, Loading DEF TypeOK, sockets, Records
<1>4. ASSUME NEW p \in Pids, Killed(p) PROVE TypeOK'
  <2>1. call' \in [Threads -> Records] BY <1>4 DEF Killed, Idle, Records, PCs, Counts
  <2>2. counter' \in [Pids -> Counts] BY <1>4, <1>a DEF Killed, TypeOK, Counts
  <2>3. backlog' \in [Calls -> Seq(Calls)]
    BY <1>4, <1>a DEF Killed, TypeOK
  <2>4. killed' \subseteq Calls
    <3>1. \A t \in Threads : ~At(t, "idle") => This(t) \in Calls BY DEF IInv, Counted, Begun
    <3> QED BY <1>4, <1>a, <3>1 DEF Killed, TypeOK
  <2>5. listening' \subseteq Calls /\ UNCHANGED <<bound, number, made>>
    BY <1>4, <1>a DEF Killed, TypeOK
  <2> QED BY <1>a, <2>1, <2>2, <2>3, <2>4, <2>5 DEF TypeOK, Records
<1>5. ASSUME NEW t \in Threads, Moves(t) PROVE TypeOK'
  <2>1. This(t) \in Calls /\ Path(t) \in Paths
    BY <1>5, Moving DEF IInv, Counted, Begun, Loaded, At
  <2>2. UNCHANGED <<number, killed>> BY <1>5, Moving
  <2>3. CASE Store(t)
    <3>1. counter' = [counter EXCEPT ![Process[t]] = call[t].cnt + 1] BY <2>3 DEF Store
    <3>2. call[t].cnt + 1 \in Counts
      <4>1. Loaded(t) BY <1>5, Moving
      <4>2. call[t].cnt \in Nat /\ call[t].cnt < Cardinality(Past)
        BY <4>1 DEF IInv, Counted, Records, Counts
      <4>3. Cardinality(Past) \in Nat /\ Cardinality(Past) <= MaxCalls BY Cards
      <4> QED BY <4>2, <4>3 DEF Counts
    <3>3. counter' \in [Pids -> Counts] BY <1>a, <3>1, <3>2 DEF TypeOK
    <3>4. call' \in [Threads -> Records] BY <2>3 DEF Store, Goes, Records, PCs
    <3> QED BY <1>a, <2>2, <2>3, <3>3, <3>4 DEF TypeOK, Store, sockets, Records
  <2>4. CASE Unlink(t) \/ FailUnlink(t) \/ Bind(t)
    <3>1. call' \in [Threads -> Records]
      BY <2>4 DEF Unlink, FailUnlink, Bind, Goes, Records, PCs
    <3>2. bound' \in [Paths -> Calls \cup {None}]
      BY <1>a, <2>1, <2>4 DEF Unlink, FailUnlink, Bind, TypeOK
    <3> QED BY <1>a, <2>2, <2>4, <3>1, <3>2
            DEF TypeOK, Unlink, FailUnlink, Bind, sockets, Records
  <2>5. CASE Listen(t) \/ BindFails(t) \/ LaterFails(t)
    <3>1. call' \in [Threads -> Records]
      BY <2>5 DEF Listen, BindFails, LaterFails, Goes, Records, PCs
    <3> QED BY <1>a, <2>1, <2>2, <2>5, <3>1
            DEF TypeOK, Listen, BindFails, LaterFails, sockets, Records
  <2>6. CASE Connect(t)
    <3>1. call' \in [Threads -> Records] BY <2>6 DEF Connect, Goes, Records, PCs
    <3>2. backlog' \in [Calls -> Seq(Calls)]
      BY <1>a, <2>1, <2>6 DEF TypeOK, Connect
    <3> QED BY <1>a, <2>2, <2>6, <3>1, <3>2 DEF TypeOK, Connect, Records
  <2>7. CASE Accept(t)
    <3> DEFINE b == backlog[This(t)]
    <3>1. b \in Seq(Calls) /\ b # << >>
      BY <1>a, <2>1, <2>7 DEF TypeOK, Accept
    <3>2. Head(b) \in Calls /\ Tail(b) \in Seq(Calls) BY <3>1
    <3>3. call' = [call EXCEPT ![t].pc = "close", ![t].peer = Head(b)] BY <2>7 DEF Accept
    <3>4. backlog' = [backlog EXCEPT ![This(t)] = Tail(b)] BY <1>a, <2>7 DEF Accept
    <3> HIDE DEF b
    <3>5. call' \in [Threads -> Records] BY ZenonT(60), <3>2, <3>3 DEF Records, PCs
    <3>6. backlog' \in [Calls -> Seq(Calls)]
      BY <1>a, <3>2, <3>4 DEF TypeOK
    <3> QED BY <1>a, <2>2, <2>7, <3>5, <3>6 DEF TypeOK, Accept, Records
  <2>8. CASE CloseListener(t)
    <3>1. call' \in [Threads -> Records]
      <4>1. ASSUME Goes(t, "remove") PROVE call' \in [Threads -> Records]
        BY <4>1 DEF Goes, Records, PCs
      <4>2. ASSUME call' = [call EXCEPT ![t] = Idle] PROVE call' \in [Threads -> Records]
        BY <4>2 DEF Idle, Records, PCs, Counts
      <4> QED BY <2>8, <4>1, <4>2 DEF CloseListener
    <3>2. backlog' \in [Calls -> Seq(Calls)]
      BY <1>a, <2>1, <2>8 DEF TypeOK, CloseListener
    <3> QED BY <1>a, <2>2, <2>8, <3>1, <3>2 DEF TypeOK, CloseListener, Records
  <2>9. CASE Remove(t)
    <3>1. call' \in [Threads -> Records] BY <2>9 DEF Remove, Idle, Records, PCs, Counts
    <3>2. bound' \in [Paths -> Calls \cup {None}] BY <1>a, <2>9 DEF Remove, TypeOK
    <3>3. Pair(t) \in Pairs
      <4>1. call[t].pc = "remove" BY <2>9 DEF Remove, At
      <4>2. call[t].peer \in Calls BY <1>a, <2>1, <4>1 DEF IInv, Paired, Own, TypeOK
      <4> QED BY <2>1, <4>2 DEF Pair, Pairs, Records
    <3>4. made' \subseteq Pairs BY <1>a, <2>9, <3>3 DEF TypeOK, Remove
    <3> QED BY <1>a, <2>2, <2>9, <3>1, <3>2, <3>4 DEF TypeOK, Remove, sockets, Records
  <2> QED BY <1>5, <2>3, <2>4, <2>5, <2>6, <2>7, <2>8, <2>9 DEF Moves
<1>6. CASE UNCHANGED vars BY <1>6, <1>a DEF vars, TypeOK
<1> QED BY <1>2, <1>3, <1>4, <1>5, <1>6 DEF Next, Step, Moves

LEMMA Starts ==
  ASSUME Init
  PROVE  IInv
PROOF
<1> USE PairAssumption DEF Init
<1>1. TypeOK
  <2>1. None \notin Calls BY DEF Calls
  <2> QED BY DEF TypeOK, Idle, PCs, Counts, Calls
<1>2. Begun = {} /\ Past = {} BY DEF Begun, Past, Calls, At, Idle
<1>3. Counted
  <2>1. IsFiniteSet({}) /\ Cardinality({}) = 0 BY FS_EmptySet
  <2>2. \A p \in Pids : counter[p] = 0 OBVIOUS
  <2>3. \A t \in Threads : At(t, "idle") /\ ~Loaded(t) BY DEF At, Loaded, Idle
  <2> QED BY <1>2, <2>1, <2>2, <2>3 DEF Counted
<1>4. \A t \in Threads : call[t].pc = "idle" /\ call[t].rivals = {} BY DEF Idle
<1>5. Rivals /\ Sockets /\ Owned /\ Unobstructed
  BY <1>4 DEF Rivals, Sockets, Owned, Unobstructed, Loaded, At
<1>6. Connected /\ Paired BY <1>4 DEF Connected, Paired
<1> QED BY <1>1, <1>3, <1>5, <1>6 DEF IInv

-----------------------------------------------------------------------------
(* The invariant the other theorems rest on: calls that share a path know  *)
(* of each other (int cnt = sp_counter++ may give one number to several),  *)
(* and only those that do can be connected to each other.                  *)
THEOREM Inductive == Spec => []IInv
PROOF
<1>1. Init => IInv BY Starts
<1>2. IInv /\ [Next]_vars => IInv'
  BY Typed, CountedKept, RivalsKept, SocketsKept, UnobstructedKept, ConnectedKept DEF IInv
<1> QED BY <1>1, <1>2, PTL DEF Spec

(* The counter of a process never passes the number of calls: a value that *)
(* two threads have loaded is stored by both (socketpair.c, sp_counter).   *)
THEOREM TypeCorrect == Spec => []TypeOK
PROOF
<1>1. IInv => TypeOK BY DEF IInv
<1> QED BY <1>1, Inductive, PTL

(* A path in /tmp belongs to a call that is under way, or to one that was  *)
(* killed: every return of socketpair() has removed its own, and a call    *)
(* that shares its path with no other finds it free.                       *)
THEOREM NothingStays == Spec => []NothingLeft
PROOF
<1>1. IInv => NothingLeft BY DEF IInv, Owned, Unobstructed, NothingLeft
<1> QED BY <1>1, Inductive, PTL

(* The second end of a returned pair is connected to its first, or to that *)
(* of another call of the process that had the same path, for any number   *)
(* of threads and processes.                                               *)
THEOREM Connects == Spec => []PairsAreConnected
PROOF
<1>1. IInv => PairsAreConnected BY DEF IInv, Paired, PairsAreConnected
<1> QED BY <1>1, Inductive, PTL
=============================================================================
