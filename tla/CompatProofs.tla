---------------------------- MODULE CompatProofs ----------------------------
(***************************************************************************)
(* Proofs about the compat library.  First CookieStream, for every set of  *)
(* bytes, every size of the pipe and of ctx->buf, and every length of the  *)
(* data; then CompatCalls and CookieOpen, for any threads, descriptors,    *)
(* calls and lines.                                                        *)
(***************************************************************************)
EXTENDS CookieStream, CompatCalls, SequenceTheorems, TLAPS

(***************************************************************************)
(* CookieStream                                                            *)
(***************************************************************************)

(* What the two loops and the cleanup keep true beside the conservation of *)
(* the bytes: which program points go with which contents of the buffer,   *)
(* with an open descriptor, with a callback that failed.                   *)
LoopInv ==
  /\ pc = "input" => chunk = << >>
  /\ pc = "output" => chunk # << >>
  /\ fdOpen <=> pc \notin {"free", "done"}
  /\ closeCalls = IF hasClose /\ pc \in {"closefd", "free", "done"} THEN 1 ELSE 0
  /\ (isRead /\ appOpen /\ pc # "output") => chunk = << >>
  /\ (~isRead /\ appOpen /\ pc \notin {"input", "output"}) => failed

(* What the application was told, and why the process was killed.          *)
ToldInv ==
  /\ appSaw = "eof" => isRead /\ ~fdOpen /\ pipe = << >> /\ chunk = << >>
  /\ appSaw = "epipe" => ~isRead /\ ~fdOpen /\ failed
  /\ process = "killed" => \/ (~isRead /\ appOpen /\ failed)
                           \/ (isRead /\ ~appOpen /\ chunk # << >>)

(* The inductive invariant.                                                *)
IInv == TypeOK /\ LoopInv /\ ToldInv /\ NothingLost /\ InOrder

-----------------------------------------------------------------------------
(* Laws of sequences.  Concatenation gets a name of its own: the provers   *)
(* then take it as a symbol and use these laws, not its definition.        *)

Cat(s, t) == s \o t

(* A concatenation is a sequence, as long as both.                         *)
LEMMA CatType ==
  ASSUME NEW S, NEW s \in Seq(S), NEW t \in Seq(S)
  PROVE  Cat(s, t) \in Seq(S) /\ Len(Cat(s, t)) = Len(s) + Len(t)
BY ConcatProperties DEF Cat

(* Concatenation is associative.                                           *)
LEMMA CatAssoc ==
  ASSUME NEW S, NEW s \in Seq(S), NEW t \in Seq(S), NEW u \in Seq(S)
  PROVE  Cat(Cat(s, t), u) = Cat(s, Cat(t, u))
BY SMTT(30), ConcatAssociative DEF Cat

(* The empty sequence is neutral.                                          *)
LEMMA CatEmpty ==
  ASSUME NEW S, NEW s \in Seq(S)
  PROVE  Cat(s, << >>) = s /\ Cat(<< >>, s) = s
BY ConcatEmptySeq DEF Cat

(* Bytes leave what is in flight at the front, or enter it at the back:    *)
(* the whole sequence stays in order.                                      *)
LEMMA FrontOut ==
  ASSUME NEW S, NEW a \in Seq(S), NEW h \in Seq(S), NEW t \in Seq(S), NEW c \in Seq(S)
  PROVE  Cat(a, Cat(Cat(h, t), c)) = Cat(Cat(a, h), Cat(t, c))
BY CatType, CatAssoc

(* And at the back.                                                        *)
LEMMA BackIn ==
  ASSUME NEW S, NEW a \in Seq(S), NEW t \in Seq(S), NEW c \in Seq(S), NEW h \in Seq(S)
  PROVE  Cat(Cat(a, Cat(t, c)), h) = Cat(a, Cat(t, Cat(c, h)))
BY CatType, CatAssoc

(* Cutting a sequence in two and joining the parts gives it back, and the  *)
(* parts have the lengths one expects.                                     *)
LEMMA Cut ==
  ASSUME NEW S, NEW s \in Seq(S), NEW r \in 0..Len(s)
  PROVE  /\ FirstOf(s, r) \in Seq(S) /\ WithoutFirst(s, r) \in Seq(S)
         /\ Len(FirstOf(s, r)) = r /\ Len(WithoutFirst(s, r)) = Len(s) - r
         /\ Cat(FirstOf(s, r), WithoutFirst(s, r)) = s
<1>1. Len(s) \in Nat /\ r \in Nat /\ r <= Len(s)
  BY LenProperties
<1>2. \A i \in 1..Len(s) : s[i] \in S
  BY ElementOfSeq
<1>3. FirstOf(s, r) \in Seq(S) /\ Len(FirstOf(s, r)) = r
  BY <1>1, <1>2, SubSeqProperties DEF FirstOf
<1>4. WithoutFirst(s, r) \in Seq(S) /\ Len(WithoutFirst(s, r)) = Len(s) - r
  BY <1>1, <1>2, SubSeqProperties DEF WithoutFirst
<1>5. FirstOf(s, r) \o WithoutFirst(s, r) = s
  <2>1. 1 \in 1..Len(s) + 1 /\ r \in 1 - 1..Len(s) /\ Len(s) \in r..Len(s)
    BY <1>1
  <2>2. SubSeq(s, 1, r) \o SubSeq(s, r + 1, Len(s)) = SubSeq(s, 1, Len(s))
    BY <2>1, ConcatAdjacentSubSeq, Zenon
  <2> QED
    BY <2>2, SubSeqFull DEF FirstOf, WithoutFirst
<1> QED
  BY <1>3, <1>4, <1>5 DEF Cat

(* A sequence that is followed by another is its beginning.                *)
LEMMA Beginning ==
  ASSUME NEW S, NEW s \in Seq(S), NEW t \in Seq(S)
  PROVE  Len(s) <= Len(Cat(s, t)) /\ s = SubSeq(Cat(s, t), 1, Len(s))
<1>1. Len(s) \in Nat /\ Len(t) \in Nat /\ s \o t \in Seq(S)
      /\ Len(s \o t) = Len(s) + Len(t)
  BY ConcatProperties, LenProperties
<1>2. CASE Len(s) = 0
  <2>1. s = << >>
    BY <1>2, EmptySeq
  <2>2. SubSeq(s \o t, 1, 0) = << >>
    BY SubSeqEmpty
  <2> QED
    BY <1>1, <1>2, <2>1, <2>2 DEF Cat
<1>3. CASE Len(s) > 0
  <2>1. SubSeq(s \o t, 1, Len(s)) = SubSeq(s, 1, Len(s))
    BY <1>1, <1>3, SubSeqOfConcat1
  <2> QED
    BY <1>1, <2>1, SubSeqFull DEF Cat
<1> QED
  BY <1>1, <1>2, <1>3

-----------------------------------------------------------------------------
(* A new stream satisfies the invariant.                                   *)
LEMMA InitIInv == Init => IInv
<1> SUFFICES ASSUME Init PROVE IInv
  OBVIOUS
<1>1. << >> \in Seq(Data) /\ Len(<< >>) = 0 /\ SubSeq(<< >>, 1, 0) = << >>
  BY EmptySeq, SubSeqEmpty
<1>2. << >> \o << >> = << >>
  BY <1>1, ConcatEmptySeq
<1>3. 0 \in Nat /\ 0 <= PipeCapacity /\ 0 <= BufSize
  BY StreamAssumption
<1>4. TypeOK
  BY <1>1, <1>3, Zenon DEF Init, TypeOK, PCs
<1>5. LoopInv /\ ToldInv
  BY DEF Init, LoopInv, ToldInv
<1>6. NothingLost /\ InOrder
  BY <1>1, <1>2 DEF Init, NothingLost, InOrder, InFlight
<1> QED
  BY <1>4, <1>5, <1>6 DEF IInv

(* The steps that move no byte: they touch program points, descriptors and *)
(* what the application is told.                                           *)
LEMMA ControlSteps ==
  ASSUME IInv,
         \/ AppWriteBroken \/ AppReadEof \/ AppClose \/ AppExit
         \/ ProxyReadEof \/ ProxyCallReadEnds \/ ProxyWriteBroken
         \/ ProxyCallWriteFails \/ ProxyCallClose \/ ProxyFree
         \/ UNCHANGED vars
  PROVE  IInv'
<1> USE DEF IInv, TypeOK, PCs, LoopInv, ToldInv, NothingLost, InOrder, InFlight,
        mode, history, ends
<1>1. CASE AppWriteBroken
  BY <1>1 DEF AppWriteBroken
<1>2. CASE AppReadEof
  BY <1>2 DEF AppReadEof
<1>3. CASE AppClose
  BY ZenonT(60), <1>3 DEF AppClose
<1>4. CASE AppExit
  BY <1>4 DEF AppExit
<1>5. CASE ProxyReadEof
  BY <1>5 DEF ProxyReadEof
<1>6. CASE ProxyCallReadEnds
  BY <1>6 DEF ProxyCallReadEnds
<1>7. CASE ProxyWriteBroken
  BY <1>7 DEF ProxyWriteBroken
<1>8. CASE ProxyCallWriteFails
  BY <1>8 DEF ProxyCallWriteFails
<1>9. CASE ProxyCallClose
  BY SMTT(30), <1>9 DEF ProxyCallClose
<1>10. CASE ProxyFree
  BY <1>10 DEF ProxyFree
<1>11. CASE UNCHANGED vars
  BY SMTT(30), <1>11 DEF vars
<1> QED
  BY <1>1, <1>2, <1>3, <1>4, <1>5, <1>6, <1>7, <1>8, <1>9, <1>10, <1>11

-----------------------------------------------------------------------------
(* The steps that move bytes.  In each, what is in flight loses a part at  *)
(* the front or gains one at the back, or bytes pass from one half of it   *)
(* to the other; the laws above say that the whole sequence stays the same.*)
LEMMA InOrderNext ==
  ASSUME NEW x \in Seq(Data), NEW y \in Seq(Data),
         delivered' \in Seq(Data), sent' = Cat(delivered', Cat(x, y))
  PROVE  InOrder'
<1>1. Cat(x, y) \in Seq(Data)
  BY CatType
<1> QED
  BY <1>1, Beginning DEF InOrder

(* The application writes.                                                 *)
LEMMA AppWriteStep == IInv /\ AppWrite => IInv'
<1> SUFFICES ASSUME IInv, AppWrite PROVE IInv'
  OBVIOUS
<1> USE DEF IInv, AppWrite, mode, history, ends
<1>t. /\ sent \in Seq(Data) /\ delivered \in Seq(Data)
      /\ pipe \in Seq(Data) /\ chunk \in Seq(Data) /\ << >> \in Seq(Data)
  BY EmptySeq DEF TypeOK
<1>1. PICK b \in Data : sent' = Append(sent, b) /\ pipe' = Append(pipe, b)
  OBVIOUS
<1> DEFINE bs == <<b>>
<1>2. bs \in Seq(Data)
  OBVIOUS
<1>3. /\ sent' = Cat(sent, bs) /\ pipe' = Cat(pipe, bs)
      /\ sent' \in Seq(Data) /\ pipe' \in Seq(Data)
      /\ Len(pipe') = Len(pipe) + 1 /\ pipe' # << >>
  BY <1>1, <1>t, AppendIsConcat, AppendProperties DEF Cat
<1> HIDE DEF bs
<1>4. TypeOK'
  BY <1>3, StreamAssumption, LenProperties DEF TypeOK
<1>5. LoopInv' /\ ToldInv'
  BY DEF LoopInv, ToldInv
<1>6. sent = Cat(delivered, Cat(chunk, pipe))
  BY DEF NothingLost, InFlight, Cat
<1>7. sent' = Cat(delivered, Cat(chunk, pipe'))
  <2>1. Cat(Cat(delivered, Cat(chunk, pipe)), bs)
          = Cat(delivered, Cat(chunk, Cat(pipe, bs)))
    BY ONLY <1>t, <1>2, BackIn
  <2> QED
    BY <1>3, <1>6, <2>1
<1>8. NothingLost'
  BY <1>7 DEF NothingLost, InFlight, Cat
<1>9. InOrder'
  BY <1>t, <1>3, <1>7, InOrderNext
<1> QED
  BY <1>4, <1>5, <1>8, <1>9

(* The application reads.                                                  *)
LEMMA AppReadStep == IInv /\ AppRead => IInv'
<1> SUFFICES ASSUME IInv, AppRead PROVE IInv'
  OBVIOUS
<1> USE DEF IInv, AppRead, mode, history, ends
<1>t. /\ sent \in Seq(Data) /\ delivered \in Seq(Data)
      /\ pipe \in Seq(Data) /\ chunk \in Seq(Data) /\ << >> \in Seq(Data)
  BY EmptySeq DEF TypeOK
<1>1. PICK r \in 1..Len(pipe) : /\ delivered' = Cat(delivered, FirstOf(pipe, r))
                               /\ pipe' = WithoutFirst(pipe, r)
  BY DEF Cat
<1>2. r \in 0..Len(pipe)
  BY <1>t, LenProperties
<1> DEFINE h == FirstOf(pipe, r)
<1>3. /\ h \in Seq(Data) /\ pipe' \in Seq(Data) /\ pipe = Cat(h, pipe')
      /\ Len(pipe') <= Len(pipe)
  BY <1>t, <1>1, <1>2, Cut
<1> HIDE DEF h
<1>4. delivered' = Cat(delivered, h) /\ delivered' \in Seq(Data)
  BY <1>t, <1>1, <1>3, CatType DEF h
<1>5. TypeOK'
  BY <1>3, <1>4, StreamAssumption, LenProperties DEF TypeOK
<1>6. LoopInv' /\ ToldInv'
  BY <1>t, EmptySeq DEF LoopInv, ToldInv
<1>7. sent = Cat(delivered, Cat(pipe, chunk))
  BY DEF NothingLost, InFlight, Cat
<1>8. sent' = Cat(delivered', Cat(pipe', chunk))
  <2>1. Cat(delivered, Cat(Cat(h, pipe'), chunk))
          = Cat(Cat(delivered, h), Cat(pipe', chunk))
    BY ONLY <1>t, <1>3, FrontOut
  <2> QED
    BY <1>3, <1>4, <1>7, <2>1
<1>9. NothingLost'
  BY <1>8 DEF NothingLost, InFlight, Cat
<1>10. InOrder'
  BY <1>t, <1>3, <1>4, <1>8, InOrderNext
<1> QED
  BY <1>5, <1>6, <1>9, <1>10

(* The proxy of a writing stream reads the pipe.                           *)
LEMMA ProxyReadPipeStep == IInv /\ ProxyReadPipe => IInv'
<1> SUFFICES ASSUME IInv, ProxyReadPipe PROVE IInv'
  OBVIOUS
<1> USE DEF IInv, ProxyReadPipe, mode, history, ends
<1>t. /\ sent \in Seq(Data) /\ delivered \in Seq(Data)
      /\ pipe \in Seq(Data) /\ chunk \in Seq(Data) /\ << >> \in Seq(Data)
  BY EmptySeq DEF TypeOK
<1>1. PICK r \in 1..Len(pipe) : /\ r <= BufSize
                               /\ chunk' = FirstOf(pipe, r)
                               /\ pipe' = WithoutFirst(pipe, r)
  OBVIOUS
<1>2. r \in 0..Len(pipe)
  BY <1>t, LenProperties
<1>3. /\ chunk' \in Seq(Data) /\ pipe' \in Seq(Data) /\ pipe = Cat(chunk', pipe')
      /\ Len(pipe') <= Len(pipe) /\ Len(chunk') = r
  BY <1>t, <1>1, <1>2, Cut
<1>4. TypeOK'
  BY <1>1, <1>3, StreamAssumption, LenProperties DEF TypeOK, PCs
<1>5. chunk' # << >>
  BY <1>3, EmptySeq
<1>6. LoopInv' /\ ToldInv'
  BY <1>5 DEF LoopInv, ToldInv
<1>7. sent = Cat(delivered, Cat(chunk, pipe)) /\ chunk = << >>
  BY DEF NothingLost, InFlight, LoopInv, Cat
<1>8. sent' = Cat(delivered', Cat(chunk', pipe'))
  BY <1>t, <1>3, <1>7, CatEmpty
<1>9. NothingLost'
  BY <1>8 DEF NothingLost, InFlight, Cat
<1>10. InOrder'
  BY <1>t, <1>3, <1>8, InOrderNext
<1> QED
  BY <1>4, <1>6, <1>9, <1>10

(* The proxy of a reading stream calls readfn.                             *)
LEMMA ProxyCallReadStep == IInv /\ ProxyCallRead => IInv'
<1> SUFFICES ASSUME IInv, ProxyCallRead PROVE IInv'
  OBVIOUS
<1> USE DEF IInv, ProxyCallRead, mode, history, ends
<1>t. /\ sent \in Seq(Data) /\ delivered \in Seq(Data)
      /\ pipe \in Seq(Data) /\ chunk \in Seq(Data) /\ << >> \in Seq(Data)
  BY EmptySeq DEF TypeOK
<1>0. PICK r \in 1..BufSize :
        \E block \in [1..r -> Data] : chunk' = block /\ sent' = Cat(sent, block)
  BY DEF Cat
<1>1. PICK block \in [1..r -> Data] : chunk' = block /\ sent' = Cat(sent, block)
  BY <1>0
<1>2. r \in Nat /\ r >= 1 /\ block \in Seq(Data) /\ Len(block) = r
  BY <1>1, StreamAssumption
<1>3. sent' \in Seq(Data) /\ chunk' \in Seq(Data) /\ chunk' # << >>
  BY <1>t, <1>1, <1>2, CatType, EmptySeq
<1>4. TypeOK'
  BY <1>1, <1>2, <1>3, StreamAssumption DEF TypeOK, PCs
<1>5. LoopInv' /\ ToldInv'
  BY <1>3 DEF LoopInv, ToldInv
<1>6. sent = Cat(delivered, Cat(pipe, chunk)) /\ chunk = << >>
  BY DEF NothingLost, InFlight, LoopInv, Cat
<1>7. sent' = Cat(delivered', Cat(pipe', chunk'))
  <2>1. Cat(pipe, chunk) = pipe
    BY <1>t, <1>6, CatEmpty
  <2>2. Cat(Cat(delivered, pipe), block) = Cat(delivered, Cat(pipe, block))
    BY ONLY <1>t, <1>2, CatAssoc
  <2> QED
    BY <1>1, <1>6, <2>1, <2>2
<1>8. NothingLost'
  BY <1>7 DEF NothingLost, InFlight, Cat
<1>9. InOrder'
  BY <1>t, <1>3, <1>7, InOrderNext
<1> QED
  BY <1>4, <1>5, <1>8, <1>9

(* The proxy of a reading stream writes the pipe.                          *)
LEMMA ProxyWritePipeStep == IInv /\ ProxyWritePipe => IInv'
<1> SUFFICES ASSUME IInv, ProxyWritePipe PROVE IInv'
  OBVIOUS
<1> USE DEF IInv, ProxyWritePipe, mode, history, ends
<1>t. /\ sent \in Seq(Data) /\ delivered \in Seq(Data)
      /\ pipe \in Seq(Data) /\ chunk \in Seq(Data) /\ << >> \in Seq(Data)
  BY EmptySeq DEF TypeOK
<1>1. PICK r \in 1..Len(chunk) : /\ Len(pipe) + r <= PipeCapacity
                                /\ pipe' = Cat(pipe, FirstOf(chunk, r))
                                /\ chunk' = WithoutFirst(chunk, r)
  BY DEF Cat
<1>2. r \in 0..Len(chunk)
  BY <1>t, LenProperties
<1> DEFINE h == FirstOf(chunk, r)
<1>3. /\ h \in Seq(Data) /\ chunk' \in Seq(Data) /\ chunk = Cat(h, chunk')
      /\ Len(h) = r /\ Len(chunk') <= Len(chunk)
  BY <1>t, <1>1, <1>2, Cut
<1> HIDE DEF h
<1>4. pipe' = Cat(pipe, h) /\ pipe' \in Seq(Data) /\ Len(pipe') <= PipeCapacity
  BY <1>t, <1>1, <1>3, CatType DEF h
<1>5. TypeOK'
  BY <1>3, <1>4, StreamAssumption, LenProperties DEF TypeOK, PCs
<1>6. LoopInv' /\ ToldInv'
  BY DEF LoopInv, ToldInv
<1>7. sent = Cat(delivered, Cat(pipe, chunk))
  BY DEF NothingLost, InFlight, Cat
<1>8. sent' = Cat(delivered', Cat(pipe', chunk'))
  <2>1. Cat(pipe, Cat(h, chunk')) = Cat(Cat(pipe, h), chunk')
    BY ONLY <1>t, <1>3, CatAssoc
  <2> QED
    BY <1>3, <1>4, <1>7, <2>1
<1>9. NothingLost'
  BY <1>8 DEF NothingLost, InFlight, Cat
<1>10. InOrder'
  BY <1>t, <1>3, <1>4, <1>8, InOrderNext
<1> QED
  BY <1>5, <1>6, <1>9, <1>10

(* The proxy of a writing stream calls writefn.                            *)
LEMMA ProxyCallWriteStep == IInv /\ ProxyCallWrite => IInv'
<1> SUFFICES ASSUME IInv, ProxyCallWrite PROVE IInv'
  OBVIOUS
<1> USE DEF IInv, ProxyCallWrite, mode, history, ends
<1>t. /\ sent \in Seq(Data) /\ delivered \in Seq(Data)
      /\ pipe \in Seq(Data) /\ chunk \in Seq(Data) /\ << >> \in Seq(Data)
  BY EmptySeq DEF TypeOK
<1>1. PICK r \in 1..Len(chunk) : /\ delivered' = Cat(delivered, FirstOf(chunk, r))
                                /\ chunk' = WithoutFirst(chunk, r)
  BY DEF Cat
<1>2. r \in 0..Len(chunk)
  BY <1>t, LenProperties
<1> DEFINE h == FirstOf(chunk, r)
<1>3. /\ h \in Seq(Data) /\ chunk' \in Seq(Data) /\ chunk = Cat(h, chunk')
      /\ Len(h) = r /\ Len(chunk') <= Len(chunk)
  BY <1>t, <1>1, <1>2, Cut
<1> HIDE DEF h
<1>4. delivered' = Cat(delivered, h) /\ delivered' \in Seq(Data)
  BY <1>t, <1>1, <1>3, CatType DEF h
<1>5. TypeOK'
  BY <1>3, <1>4, StreamAssumption, LenProperties DEF TypeOK, PCs
<1>6. LoopInv' /\ ToldInv'
  BY DEF LoopInv, ToldInv
<1>7. sent = Cat(delivered, Cat(chunk, pipe))
  BY DEF NothingLost, InFlight, LoopInv, Cat
<1>8. sent' = Cat(delivered', Cat(chunk', pipe'))
  <2>1. Cat(delivered, Cat(Cat(h, chunk'), pipe))
          = Cat(Cat(delivered, h), Cat(chunk', pipe))
    BY ONLY <1>t, <1>3, FrontOut
  <2> QED
    BY <1>3, <1>4, <1>7, <2>1
<1>9. NothingLost'
  BY <1>8 DEF NothingLost, InFlight, Cat
<1>10. InOrder'
  BY <1>t, <1>3, <1>4, <1>8, InOrderNext
<1> QED
  BY <1>5, <1>6, <1>9, <1>10

(* Closing the read end throws the rest of the pipe away: nothing that     *)
(* came out is touched.                                                    *)
LEMMA ProxyCloseFdStep == IInv /\ ProxyCloseFd => IInv'
<1> SUFFICES ASSUME IInv, ProxyCloseFd PROVE IInv'
  OBVIOUS
<1> USE DEF IInv, ProxyCloseFd, mode, history, ends
<1>1. pipe' = pipe \/ (~isRead /\ pipe' = << >>)
  OBVIOUS
<1>2. << >> \in Seq(Data) /\ Len(<< >>) <= PipeCapacity
  BY EmptySeq, StreamAssumption
<1>3. pipe' \in Seq(Data) /\ Len(pipe') <= PipeCapacity
  BY <1>1, <1>2 DEF TypeOK
<1>4. TypeOK'
  BY <1>3, Zenon DEF TypeOK, PCs
<1>5. LoopInv'
  BY DEF LoopInv
<1>6. ToldInv'
  BY <1>1 DEF ToldInv, LoopInv
<1>7. NothingLost' /\ InOrder'
  BY DEF NothingLost, InOrder, InFlight
<1> QED
  BY <1>4, <1>5, <1>6, <1>7

(* Every step keeps the invariant.                                         *)
LEMMA NextIInv == IInv /\ [Next]_vars => IInv'
BY AppWriteStep, AppReadStep, ProxyReadPipeStep, ProxyCallReadStep,
   ProxyWritePipeStep, ProxyCallWriteStep, ProxyCloseFdStep, ControlSteps
   DEF Next, Application, Proxy, Terminated

(* The invariant holds in every state of a stream.                         *)
THEOREM StreamInductive == Spec => []IInv
BY InitIInv, NextIInv, PTL DEF Spec

-----------------------------------------------------------------------------
(* The results.                                                            *)

(* Every variable keeps its type; the pipe and ctx->buf stay within their  *)
(* sizes.                                                                  *)
THEOREM StreamTypeCorrect == Spec => []TypeOK
<1>1. IInv => TypeOK
  BY DEF IInv
<1> QED
  BY <1>1, StreamInductive, PTL

(* Bytes come out in the order in which they went in, whatever is short,   *)
(* interrupted or broken on the way.                                       *)
THEOREM OrderPreserved == Spec => []InOrder
<1>1. IInv => InOrder
  BY DEF IInv
<1> QED
  BY <1>1, StreamInductive, PTL

(* No byte is dropped between the pipe, the buffer and the callback.       *)
THEOREM Conservation == Spec => []NothingLost
<1>1. IInv => NothingLost
  BY DEF IInv
<1> QED
  BY <1>1, StreamInductive, PTL

(* End of file means that everything readfn produced was read, and that    *)
(* closefn has run.                                                        *)
THEOREM EofComplete == Spec => []EofIsComplete
<1>1. IInv => EofIsComplete
  <2> SUFFICES ASSUME IInv, appSaw = "eof" PROVE EofIsComplete
    BY DEF EofIsComplete
  <2>1. delivered \in Seq(Data) /\ << >> \in Seq(Data)
    BY EmptySeq DEF IInv, TypeOK
  <2>2. isRead /\ pipe = << >> /\ chunk = << >> /\ ~fdOpen
    BY DEF IInv, ToldInv
  <2>3. sent = Cat(delivered, Cat(<< >>, << >>))
    BY <2>2 DEF IInv, NothingLost, InFlight, Cat
  <2>4. sent = delivered
    BY <2>1, <2>3, CatEmpty
  <2>5. hasClose => closeCalls = 1
    BY <2>2 DEF IInv, LoopInv, TypeOK, PCs
  <2> QED
    BY <2>4, <2>5 DEF EofIsComplete
<1> QED
  BY <1>1, StreamInductive, PTL

(* A writer meets a broken pipe only after its own callback failed.        *)
THEOREM NoSpuriousBrokenPipe == Spec => []BrokenOnlyAfterFailure
<1>1. IInv => BrokenOnlyAfterFailure
  BY DEF IInv, LoopInv, ToldInv, TypeOK, PCs, BrokenOnlyAfterFailure
<1> QED
  BY <1>1, StreamInductive, PTL

(* The two situations in which the stream's SIGPIPE kills the process.     *)
THEOREM KillSituations == Spec => []KilledOnlyByBrokenPipe
<1>1. IInv => KilledOnlyByBrokenPipe
  <2> SUFFICES ASSUME IInv, isRead, ~appOpen, chunk # << >>
               PROVE  Len(delivered) < Len(sent)
    BY DEF IInv, ToldInv, KilledOnlyByBrokenPipe
  <2>1. /\ delivered \in Seq(Data) /\ pipe \in Seq(Data) /\ chunk \in Seq(Data)
        /\ sent = Cat(delivered, Cat(pipe, chunk))
    BY DEF IInv, TypeOK, NothingLost, InFlight, Cat
  <2> DEFINE rest == Cat(pipe, chunk)
  <2>r. rest \in Seq(Data) /\ Len(rest) = Len(pipe) + Len(chunk)
    BY <2>1, CatType
  <2> HIDE DEF rest
  <2>2. Len(sent) = Len(delivered) + (Len(pipe) + Len(chunk))
    BY <2>1, <2>r, CatType DEF rest
  <2>3. Len(delivered) \in Nat /\ Len(pipe) \in Nat /\ Len(chunk) \in Nat \ {0}
    BY <2>1, LenProperties, EmptySeq
  <2> QED
    BY <2>2, <2>3
<1> QED
  BY <1>1, StreamInductive, PTL

(* closefn is the last callback and runs once.                             *)
THEOREM CallbacksStop == Spec => CallbacksStopAtClose
<1>1. IInv /\ [Next]_vars =>
        [(pc \in {"closefd", "free", "done"}) => CallbacksFrozen]_vars
  BY DEF Next, Application, Proxy, Terminated, CallbacksFrozen, vars, mode,
     history, ends, AppWrite, AppWriteBroken, AppRead, AppReadEof, AppClose,
     AppExit, ProxyReadPipe, ProxyReadEof, ProxyCallRead, ProxyCallReadEnds,
     ProxyWritePipe, ProxyWriteBroken, ProxyCallWrite, ProxyCallWriteFails,
     ProxyCallClose, ProxyCloseFd, ProxyFree
<1> QED
  BY <1>1, StreamInductive, PTL DEF Spec, CallbacksStopAtClose

-----------------------------------------------------------------------------
(* The stream implements the ordered channel.                              *)

(* A byte that enters the stream is a Send of the channel.                 *)
LEMMA SendStep ==
  ASSUME IInv, AppWrite \/ ProxyCallRead
  PROVE  Channel!Send
<1>1. CASE AppWrite
  <2>1. PICK b \in Data : sent' = Append(sent, b)
    BY <1>1 DEF AppWrite
  <2>2. sent' = sent \o <<b>> /\ <<b>> \in [1..1 -> Data] /\ 1 \in 1..MaxBytes
    BY <1>1, <2>1, AppendIsConcat, LenProperties, StreamAssumption
       DEF AppWrite, IInv, TypeOK
  <2>3. ~isRead /\ isRead' = isRead /\ delivered' = delivered /\ pc' = pc
    BY <1>1 DEF AppWrite, mode
  <2> QED
    BY <2>2, <2>3 DEF Channel!Send
<1>2. CASE ProxyCallRead
  <2>1. PICK r \in 1..BufSize :
          /\ Len(sent) + r <= MaxBytes
          /\ \E block \in [1..r -> Data] : sent' = sent \o block
    BY <1>2 DEF ProxyCallRead
  <2>2. r \in 1..MaxBytes
    BY <2>1, LenProperties, StreamAssumption DEF IInv, TypeOK
  <2>3. isRead' = isRead /\ delivered' = delivered /\ pc = "input" /\ pc' = "output"
    BY <1>2 DEF ProxyCallRead, mode
  <2>4. \E n \in 1..MaxBytes : \E block \in [1..n -> Data] : sent' = sent \o block
    BY <2>1, <2>2, Zenon
  <2>5. isRead => ~(pc \in {"closefn", "closefd", "free", "done"})
    BY <2>3
  <2>6. (pc \in {"closefn", "closefd", "free", "done"})'
          = (pc \in {"closefn", "closefd", "free", "done"})
    BY <2>3
  <2> QED
    BY <2>3, <2>4, <2>5, <2>6, Zenon DEF Channel!Send
<1> QED
  BY <1>1, <1>2

(* Bytes that reach the sink are a Deliver of the channel.                 *)
LEMMA DeliverStep ==
  ASSUME IInv, IInv', AppRead \/ ProxyCallWrite
  PROVE  Channel!Deliver
<1>1. PICK part \in Seq(Data) : Len(part) >= 1 /\ delivered' = Cat(delivered, part)
  <2>1. CASE AppRead
    <3>1. PICK r \in 1..Len(pipe) : delivered' = Cat(delivered, FirstOf(pipe, r))
      BY <2>1 DEF AppRead, Cat
    <3>2. pipe \in Seq(Data) /\ r \in 0..Len(pipe) /\ r >= 1
      BY LenProperties DEF IInv, TypeOK
    <3> QED
      BY <3>1, <3>2, Cut
  <2>2. CASE ProxyCallWrite
    <3>1. PICK r \in 1..Len(chunk) : delivered' = Cat(delivered, FirstOf(chunk, r))
      BY <2>2 DEF ProxyCallWrite, Cat
    <3>2. chunk \in Seq(Data) /\ r \in 0..Len(chunk) /\ r >= 1
      BY LenProperties DEF IInv, TypeOK
    <3> QED
      BY <3>1, <3>2, Cut
  <2> QED
    BY <2>1, <2>2
<1>2. delivered \in Seq(Data) /\ sent \in Seq(Data)
  BY DEF IInv, TypeOK
<1>3. Len(delivered') \in (Len(delivered) + 1)..Len(sent)
  <2>1. Len(delivered') = Len(delivered) + Len(part)
    BY <1>1, <1>2, CatType
  <2>2. sent' = sent /\ Len(delivered') <= Len(sent')
    BY DEF AppRead, ProxyCallWrite, IInv, InOrder
  <2>3. Len(delivered) \in Nat /\ Len(part) \in Nat /\ Len(sent) \in Nat
    BY <1>1, <1>2, LenProperties
  <2> QED
    BY <1>1, <2>1, <2>2, <2>3
<1>4. delivered' = SubSeq(sent, 1, Len(delivered'))
  BY DEF AppRead, ProxyCallWrite, IInv, InOrder
<1>5. /\ isRead' = isRead /\ sent' = sent /\ pc' \in {pc, "input"}
      /\ ~isRead => pc = "output"
      /\ isRead => pc' = pc
  BY DEF AppRead, ProxyCallWrite, mode
<1>6. (pc \in {"closefn", "closefd", "free", "done"})'
        = (pc \in {"closefn", "closefd", "free", "done"})
  BY <1>5 DEF AppRead, ProxyCallWrite
<1> QED
  BY <1>3, <1>4, <1>5, <1>6 DEF Channel!Deliver

(* Every other step ends the stream or changes nothing the channel shows.  *)
LEMMA OtherStep ==
  ASSUME IInv,
         \/ AppWriteBroken \/ AppReadEof \/ AppClose \/ AppExit
         \/ ProxyReadPipe \/ ProxyReadEof \/ ProxyCallReadEnds \/ ProxyWritePipe
         \/ ProxyWriteBroken \/ ProxyCallWriteFails \/ ProxyCallClose
         \/ ProxyCloseFd \/ ProxyFree \/ UNCHANGED vars
  PROVE  Channel!End \/ UNCHANGED Channel!vars
BY DEF Channel!End, Channel!vars, vars, mode, history, ends,
   AppWriteBroken, AppReadEof, AppClose, AppExit, ProxyReadPipe, ProxyReadEof,
   ProxyCallReadEnds, ProxyWritePipe, ProxyWriteBroken, ProxyCallWriteFails,
   ProxyCallClose, ProxyCloseFd, ProxyFree

(* funopen's pipe, buffer and thread are a correct way to build the        *)
(* channel: refinement, for every value of the constants.                  *)
THEOREM Refinement == Spec => ImplementsChannel
<1>1. Init => Channel!Init
  BY DEF Init, Channel!Init
<1>2. IInv /\ IInv' /\ [Next]_vars => [Channel!Next]_(Channel!vars)
  BY SendStep, DeliverStep, OtherStep
     DEF Next, Application, Proxy, Terminated, Channel!Next
<1> QED
  BY <1>1, <1>2, StreamInductive, PTL DEF Spec, ImplementsChannel, Channel!Spec


(***************************************************************************)
(* CompatCalls and CookieOpen.  Until a function has closed a descriptor   *)
(* of another thread, every thread owns what its call has opened and not   *)
(* yet closed; and only funopen() closes one twice.                        *)
(***************************************************************************)

(* d is a descriptor of t, or has been forgotten; t has none there.        *)
Mine(t, d) == d # None => owner[d] = t
Gone(t, d) == d # None => owner[d] # t

(* The places in open_memstream() outside funopen().                       *)
MemoryPCs == {"stream", "buffer", "freeBuffer", "freeStream"}

(* Where a call of the stream functions is, and what it has.               *)
Shape(t) ==
  LET c == call[t] IN
  /\ c.pc # "idle" => task[t].pc = "idle"
  /\ c.pc \in {"idle", "entered", "pipe", "fdopen"} => c.file = None
  /\ c.pc \in {"idle", "entered", "pipe"} => \A e \in Ends : c.fd[e] = None
  /\ c.function = "open_memstream" =>
       /\ c.pc \in {"entered", "failed"} \cup MemoryPCs /\ c.seek = TRUE
       /\ c.file = None /\ \A e \in Ends : c.fd[e] = None
  /\ c.pc \in MemoryPCs => c.function = "open_memstream"
  /\ allocated[t] =
       CASE c.pc \in {"idle", "stream", "failed"} -> 0
         [] c.pc = "entered" -> IF c.function = "open_memstream" THEN 2 ELSE 0
         [] c.pc = "freeBuffer" -> 2
         [] OTHER -> 1

Held(t) ==
  LET c == call[t] IN
  foreign = None =>
    /\ c.pc \in {"fdopen", "thread", "closeApp"} => \A e \in Ends : Mine(t, c.fd[e])
    /\ c.pc \in {"thread", "closeApp", "ok"} => Mine(t, c.file)
    /\ c.pc \in {"closeProxy", "ok"} => Mine(t, c.fd["proxy"])
    /\ c.pc \in {"closeProxy", "fclose"} => Mine(t, c.file) \/ c.function = "funopen"

Closed(t) ==
  LET c == call[t] IN
  /\ c.pc \in {"closeProxy", "fclose", "free", "failed"} => Gone(t, c.fd["app"])
  /\ c.pc \in {"fclose", "free", "failed"} => Gone(t, c.fd["proxy"])
  /\ c.pc \in {"free", "failed"} => Gone(t, c.file)

(* The two ends are different descriptors, and the FILE has the first.     *)
Apart(t) ==
  LET c == call[t] IN
  /\ c.fd["app"] = None \/ c.fd["app"] # c.fd["proxy"]
  /\ c.file = None \/ c.file # c.fd["proxy"]
  /\ c.file = None \/ c.fd["app"] = None \/ c.function = "funopen"

(* dprintf() and openpty() have one descriptor until they return.          *)
Descriptor(t) ==
  LET k == task[t] IN
  /\ k.pc \in {"first", "second", "fclose"} => k.function \in Descriptors /\ k.result = 0
  /\ k.pc = "fclose" => k.function = "dprintf"
  /\ k.pc = "first" => k.fd = {}
  /\ k.pc \in {"second", "fclose"} =>
       \E d \in Fds : k.fd = {d} /\ (foreign = None => owner[d] = t)
  /\ k.pc = "done" /\ (k.function = "dprintf" \/ (k.function = "openpty" /\ k.result = -1)) =>
       \A d \in k.fd : owner[d] # t

(* What a call that sets times has looked up is still so, if it is alone.  *)
Timed(t) ==
  LET k == task[t] IN
  /\ k.pc \in {"times", "utimes"} =>
       /\ k.function \in Times /\ k.before \in Stamps /\ k.result = 0
       /\ k.since <= clock
       /\ k.alone => file = k.before
  /\ k.pc = "utimes" =>
       /\ k.stat \in Stamps /\ k.now \in k.since..clock
       /\ k.alone => k.stat = k.before

AskedFor(k, f) ==
  IF k.want = None THEN "now"
  ELSE IF k.function = "futimens" THEN k.want[f]
  ELSE CASE k.want[f] = "last" -> "now"
         [] k.want[f] \in {"now", "omit"} -> "unknown"
         [] OTHER -> k.want[f]

AsAsked(t) ==
  LET k == task[t] IN
  k.function \in Times /\ k.pc = "done" /\ k.alone =>
    /\ k.since <= clock
    /\ IF k.result = -1 THEN file = k.before
       ELSE \A f \in Fields :
              \/ AskedFor(k, f) = "now" /\ file[f] \in (k.since..clock) \X {1}
              \/ AskedFor(k, f) = "omit" /\ file[f] = <<k.before[f][1], 0>>
              \/ AskedFor(k, f) = "unknown" /\ file[f] = Garbage
              \/ AskedFor(k, f) \in {"given", "last"} /\ file[f] = Given(AskedFor(k, f))

(* The buffer of getdelim(), with room for what it holds and a terminator. *)
Buffered(t) ==
  LET k == task[t]
      l == k.line
  IN
  /\ k.pc \in {"alloc", "chars"} => k.function = "getdelim"
  /\ k.pc = "alloc" => /\ l.live = {l.ptr} \ {0} /\ l.zero = (l.n = 0)
                       /\ l.ptr \in {0, 1} /\ l.used = 0
  /\ k.pc = "chars" =>
       /\ l.buf \in l.live /\ l.used < l.size
       /\ l.live \subseteq {l.buf} \cup (IF l.zero THEN {1} ELSE {})
       /\ l.ptr # 0 => l.ptr \in l.live \/ l.moved

SoundLine(t) ==
  LET l == task[t].line IN
  Doing(t, "getdelim", "done") =>
    /\ task[t].result # -1 => l.used < l.n /\ l.ptr \in l.live
    /\ l.ptr # 0 => l.ptr \in l.live \/ (l.short /\ l.moved)
    /\ l.live \subseteq {l.ptr} \cup (IF l.zero THEN {1} ELSE {}) \/ l.short

Streams(t) == Shape(t) /\ Held(t) /\ Closed(t) /\ Apart(t)
Works(t)   == Descriptor(t) /\ Timed(t) /\ AsAsked(t) /\ Buffered(t) /\ SoundLine(t)

Inv == /\ CompatTypeOK /\ OnlyFunopenClosesForeign
       /\ \A t \in Threads : Streams(t) /\ Works(t)

Calls == [pc : OpenPCs, function : StreamFunctions, seek : BOOLEAN,
          fd : [Ends -> Fds \cup {None}], file : Fds \cup {None}]

-----------------------------------------------------------------------------
(* No step of another thread takes a descriptor of t, unless it closes a   *)
(* foreign one, and none gives t one.                                      *)
OwnersOf(s) ==
  /\ foreign # None => foreign' # None
  /\ \A d \in Fds :
       \/ owner'[d] = owner[d]
       \/ owner'[d] \in {s, None} /\ (foreign' = None => owner[d] \in {s, None})

Waits(t) ==
  /\ call'[t] = call[t] /\ allocated'[t] = allocated[t]
  /\ task'[t] \in {task[t], [task[t] EXCEPT !.alone = FALSE]}

LEMMA Reads ==
  ASSUME CompatTypeOK, NEW t \in Threads
  PROVE  /\ call[t] \in Calls /\ task[t] \in Tasks
         /\ call[t].file \in Fds \cup {None}
         /\ \A e \in Ends : call[t].fd[e] \in Fds \cup {None}
         /\ "app" \in Ends /\ "proxy" \in Ends
BY DEF CompatTypeOK, OpenTypeOK, Calls, Ends

(* A thread that waits keeps all that is said of its descriptors.          *)
LEMMA WaitingKeeps ==
  ASSUME Inv, NEW s \in Threads, NEW t \in Threads \ {s}, OwnersOf(s), Waits(t)
  PROVE  Streams(t)' /\ Descriptor(t)'
PROOF
<1>0. Streams(t) /\ Descriptor(t) /\ s # t /\ t # None BY OpenAssumption DEF Inv, Works
<1>1. call[t] \in Calls /\ task[t] \in Tasks /\ call[t].file \in Fds \cup {None}
      /\ (\A e \in Ends : call[t].fd[e] \in Fds \cup {None}) /\ "app" \in Ends /\ "proxy" \in Ends
  BY Reads DEF Inv
<1>2. /\ task'[t].pc = task[t].pc /\ task'[t].function = task[t].function
      /\ task'[t].fd = task[t].fd /\ task'[t].result = task[t].result
  BY <1>1 DEF Waits, Tasks
<1>3. \A d \in Fds \cup {None} : Gone(t, d) => Gone(t, d)'
  BY <1>0 DEF OwnersOf, Gone
<1>4. foreign' = None => foreign = None /\ \A d \in Fds \cup {None} : Mine(t, d) => Mine(t, d)'
  BY <1>0 DEF OwnersOf, Mine
<1>5. call'[t] = call[t] /\ allocated'[t] = allocated[t] BY DEF Waits
<1>6. Shape(t)' BY <1>0, <1>2, <1>5 DEF Streams, Shape
<1>7. Held(t)' BY <1>0, <1>1, <1>4, <1>5 DEF Streams, Held
<1>8. Closed(t)' BY <1>0, <1>1, <1>3, <1>5 DEF Streams, Closed
<1>9. Apart(t)' BY <1>0, <1>5 DEF Streams, Apart
<1>10. Descriptor(t)'
  <2>1. \A d \in task[t].fd : d \in Fds BY <1>1 DEF Tasks
  <2>2. \A d \in Fds : owner[d] # t => owner'[d] # t BY <1>0 DEF OwnersOf
  <2>3. \A d \in Fds : foreign' = None /\ owner[d] = t => foreign = None /\ owner'[d] = t
    BY <1>0 DEF OwnersOf
  <2>4. foreign' = None => foreign = None BY DEF OwnersOf
  <2> QED BY <1>0, <1>2, <2>1, <2>2, <2>3, <2>4 DEF Descriptor
<1> QED BY <1>6, <1>7, <1>8, <1>9, <1>10 DEF Streams

(* What is said of the times, while the file stays and the clock goes on.  *)
LEMMA TimesKeep ==
  ASSUME Inv, NEW t \in Threads, task'[t] = task[t], file' = file, clock' \in Nat, clock <= clock'
  PROVE  Timed(t)' /\ AsAsked(t)'
PROOF
<1>0. Timed(t) /\ AsAsked(t) /\ task[t] \in Tasks /\ clock \in Nat /\ file \in Stamps
  BY Reads DEF Inv, Works, CompatTypeOK
<1>1. task[t].since \in Nat /\ task[t].now \in Nat BY <1>0 DEF Tasks
<1>2. \A n \in Nat : n \in task[t].since..clock => n \in task[t].since..clock' BY <1>0, <1>1
<1>3. Timed(t)' BY <1>0, <1>1, <1>2 DEF Timed
<1>4. \A f \in Fields : file[f][1] \in Nat BY <1>0 DEF Stamps
<1>5. AsAsked(t)' BY <1>0, <1>1, <1>2, <1>4 DEF AsAsked, AskedFor
<1> QED BY <1>3, <1>5

(* A call that is no longer alone: nothing is asked of the times.          *)
LEMMA DisturbedTimes ==
  ASSUME Inv, NEW t \in Threads, task'[t] = [task[t] EXCEPT !.alone = FALSE], clock' = clock
  PROVE  Timed(t)' /\ AsAsked(t)'
PROOF
<1>0. Timed(t) /\ task[t] \in Tasks BY Reads DEF Inv, Works
<1>1. /\ ~task'[t].alone /\ task'[t].pc = task[t].pc /\ task'[t].function = task[t].function
      /\ task'[t].before = task[t].before /\ task'[t].since = task[t].since
      /\ task'[t].stat = task[t].stat /\ task'[t].now = task[t].now
  BY <1>0 DEF Tasks
<1> QED BY <1>0, <1>1 DEF Timed, AsAsked

(* A line that is not read on.                                             *)
LEMMA LineKeeps ==
  ASSUME Inv, NEW t \in Threads, task'[t].pc = task[t].pc, task'[t].function = task[t].function,
         task'[t].result = task[t].result, task'[t].line = task[t].line
  PROVE  Buffered(t)' /\ SoundLine(t)'
BY DEF Inv, Works, Buffered, SoundLine, Doing

(* A step of s, all others waiting.                                        *)
LEMMA Stepping ==
  ASSUME Inv, NEW s \in Threads, CompatTypeOK', OnlyFunopenClosesForeign', OwnersOf(s),
         \A t \in Threads \ {s} : Waits(t) /\ Timed(t)' /\ AsAsked(t)',
         Streams(s)', Works(s)'
  PROVE  Inv'
PROOF
<1> SUFFICES ASSUME NEW t \in Threads \ {s} PROVE Streams(t)' /\ Works(t)'
  BY DEF Inv
<1>1. Streams(t)' /\ Descriptor(t)' BY WaitingKeeps
<1>2. task[t] \in Tasks BY Reads DEF Inv
<1>3. /\ task'[t].pc = task[t].pc /\ task'[t].function = task[t].function
      /\ task'[t].result = task[t].result /\ task'[t].line = task[t].line
  BY <1>2 DEF Waits, Tasks
<1>4. Buffered(t)' /\ SoundLine(t)' BY <1>3, LineKeeps
<1> QED BY <1>1, <1>4 DEF Works

-----------------------------------------------------------------------------
(* A step of the stream functions.                                         *)
LEMMA StreamStepping ==
  ASSUME Inv, NEW s \in Threads, task[s].pc = "idle", UNCHANGED <<program, task, file, clock>>,
         OpenTypeOK', OnlyFunopenClosesForeign', OwnersOf(s),
         \A t \in Threads \ {s} : call'[t] = call[t] /\ allocated'[t] = allocated[t],
         Streams(s)'
  PROVE  Inv'
PROOF
<1>1. CompatTypeOK' BY DEF Inv, CompatTypeOK
<1>2. clock \in Nat BY CompatAssumption DEF Inv, CompatTypeOK
<1>3. \A t \in Threads : Timed(t)' /\ AsAsked(t)' BY <1>2, TimesKeep
<1>4. \A t \in Threads \ {s} : Waits(t) BY DEF Waits
<1>5. Buffered(s)' /\ SoundLine(s)' BY LineKeeps
<1>6. Descriptor(s)' BY DEF Descriptor
<1> QED BY <1>1, <1>3, <1>4, <1>5, <1>6, Stepping DEF Works

(* No descriptor changes hands.                                            *)
LEMMA OwnersStay ==
  ASSUME Inv, NEW s, UNCHANGED <<owner, foreign>>
  PROVE  OwnersOf(s) /\ OnlyFunopenClosesForeign'
BY DEF Inv, OwnersOf, OnlyFunopenClosesForeign

(* A descriptor is closed.                                                 *)
LEMMA Closing ==
  ASSUME Inv, NEW s \in Threads, NEW f, f # None, NEW d \in Fds \cup {None}, ClosesIn(f, s, d),
         f = "funopen" \/ (foreign = None => Mine(s, d))
  PROVE  /\ OwnersOf(s) /\ OnlyFunopenClosesForeign'
         /\ owner' \in [Fds -> Threads \cup {None}]
         /\ foreign' \in {None, "funopen"}
         /\ d # None => owner'[d] = None
         /\ \A x \in Fds : x # d => owner'[x] = owner[x]
         /\ \A x \in Fds : owner[x] # s => owner'[x] # s
         /\ foreign' = None => foreign = None
PROOF
<1>1. owner \in [Fds -> Threads \cup {None}] /\ foreign \in {None, "funopen"}
  BY DEF Inv, CompatTypeOK, OpenTypeOK, OnlyFunopenClosesForeign
<1>2. s # None /\ None \notin Fds BY OpenAssumption
<1>3. owner' \in [Fds -> Threads \cup {None}] BY <1>1 DEF ClosesIn
<1>4. /\ d # None => owner'[d] = None
      /\ \A x \in Fds : x # d => owner'[x] = owner[x]
  BY <1>1 DEF ClosesIn
<1>5. foreign' \in {None, "funopen"} /\ (foreign # None => foreign' # None)
  BY <1>1, <1>2 DEF ClosesIn, Mine
<1>6. foreign' = None /\ d # None => owner[d] \in {s, None}
  <2>1. CASE foreign # None BY <1>5, <2>1
  <2>2. CASE foreign = None /\ d # None
    <3>1. d \in Fds /\ owner[d] \in Threads \cup {None} BY <1>1, <2>2
    <3> QED BY <2>2, <3>1 DEF ClosesIn
  <2> QED BY <2>1, <2>2
<1>7. OwnersOf(s) BY <1>2, <1>4, <1>5, <1>6 DEF OwnersOf
<1> QED BY <1>2, <1>3, <1>4, <1>5, <1>7 DEF OnlyFunopenClosesForeign

(* The next place of a call.                                               *)
LEMMA Going ==
  ASSUME Inv, NEW s \in Threads, NEW place \in OpenPCs, Goes(s, place)
  PROVE  /\ call' \in [Threads -> Calls]
         /\ \A t \in Threads \ {s} : call'[t] = call[t]
         /\ call'[s].pc = place /\ call'[s].function = call[s].function
         /\ call'[s].seek = call[s].seek /\ call'[s].fd = call[s].fd
         /\ call'[s].file = call[s].file
PROOF
<1>1. call \in [Threads -> Calls] /\ call[s] \in Calls BY DEF Inv, CompatTypeOK, OpenTypeOK, Calls
<1>2. [call[s] EXCEPT !.pc = place] \in Calls BY <1>1 DEF Calls
<1> QED BY <1>1, <1>2 DEF Goes, Calls

(* What a thread that makes no call has to keep is little.                 *)
LEMMA NoCall ==
  ASSUME Inv, NEW s \in Threads, At(s, "idle"), call'[s] = call[s], allocated'[s] = allocated[s]
  PROVE  Streams(s)'
BY DEF Inv, At, Streams, Shape, Held, Closed, Apart, Mine, Gone

-----------------------------------------------------------------------------
Beside(s) == task[s].pc = "idle" /\ UNCHANGED <<program, task, file, clock>>

LEMMA FilesKeep ==
  ASSUME Inv, NEW s \in Threads, Beside(s), OpensFile(s) \/ ClosesFile(s)
  PROVE  Inv'
PROOF
<1>0. /\ owner \in [Fds -> Threads \cup {None}] /\ s # None
      /\ At(s, "idle") /\ UNCHANGED <<call, allocated, calls, foreign>>
  BY OpenAssumption DEF Inv, CompatTypeOK, OpenTypeOK, OpensFile, ClosesFile
<1>1. owner' \in [Fds -> Threads \cup {None}] BY <1>0 DEF OpensFile, ClosesFile
<1>2. OwnersOf(s)
  <2>1. CASE OpensFile(s) BY <1>0, <2>1 DEF OpensFile, OwnersOf, Free
  <2>2. CASE ClosesFile(s) BY <1>0, <2>2 DEF ClosesFile, OwnersOf
  <2> QED BY <2>1, <2>2
<1>3. OpenTypeOK' /\ OnlyFunopenClosesForeign'
  BY <1>0, <1>1 DEF Inv, CompatTypeOK, OpenTypeOK, OnlyFunopenClosesForeign
<1>4. Streams(s)' BY <1>0, NoCall
<1> QED BY <1>0, <1>2, <1>3, <1>4, StreamStepping DEF Beside

LEMMA OpenKeeps ==
  ASSUME Inv, NEW s \in Threads, Beside(s), Open(s)
  PROVE  Inv'
PROOF
<1>0. /\ OpenTypeOK /\ call \in [Threads -> Calls] /\ s # None /\ UNCHANGED <<owner, allocated, foreign>>
      /\ At(s, "idle") /\ allocated \in [Threads -> 0..2] /\ Streams(s)
      /\ MaxCalls \in Nat /\ calls \in [Threads -> 0..MaxCalls]
  BY OpenAssumption DEF Inv, CompatTypeOK, OpenTypeOK, Calls, Open
<1>1. PICK f \in Functions, seek \in BOOLEAN :
        /\ f = "open_memstream" => seek
        /\ call' = [call EXCEPT ![s] =
             [Idle EXCEPT !.pc = IF f = "open_memstream" THEN "stream" ELSE "entered",
                          !.function = f, !.seek = seek]]
  BY DEF Open
<1>2. PICK i \in Calls : i = Idle BY DEF Calls, Idle, OpenPCs, StreamFunctions
<1> DEFINE place == IF f = "open_memstream" THEN "stream" ELSE "entered"
           c == [i EXCEPT !.pc = place, !.function = f, !.seek = seek]
<1>3. /\ c \in Calls
      /\ c.pc = place /\ c.function = f /\ c.seek = seek
      /\ c.file = None /\ \A e \in Ends : c.fd[e] = None
  <2>1. i.file = None /\ i.fd = [e \in Ends |-> None] BY <1>2 DEF Idle
  <2> QED BY <1>2, <2>1, OpenAssumption DEF Calls, OpenPCs
<1>4. call' = [call EXCEPT ![s] = c] BY Zenon, <1>1, <1>2
<1>5. call' \in [Threads -> Calls] /\ call'[s] = c /\ \A t \in Threads \ {s} : call'[t] = call[t]
  <2> HIDE DEF c
  <2> QED BY <1>0, <1>3, <1>4
<1>6. /\ calls' \in [Threads -> 0..MaxCalls] /\ allocated' \in [Threads -> 0..2]
      /\ allocated'[s] = 0
      /\ \A t \in Threads \ {s} : allocated'[t] = allocated[t]
  BY <1>0, <1>1 DEF Open, OpenTypeOK, Streams, Shape, At
<1>7. OpenTypeOK' BY <1>0, <1>5, <1>6 DEF OpenTypeOK, Calls
<1>8. Streams(s)'
  <2> HIDE DEF c
  <2>1. "app" \in Ends /\ "proxy" \in Ends BY DEF Ends
  <2>2. /\ call'[s].pc = place /\ call'[s].function = f /\ call'[s].file = None
        /\ \A e \in Ends : call'[s].fd[e] = None
        /\ call'[s].seek = seek
    BY <1>3, <1>5
  <2>a. f = "open_memstream" => seek = TRUE BY <1>1
  <2>3. Shape(s)' BY <1>6, <2>2, <2>a DEF Beside, Shape, MemoryPCs
  <2> QED BY <2>1, <2>2, <2>3 DEF Streams, Held, Closed, Apart
<1> QED BY <1>5, <1>6, <1>7, <1>8, OwnersStay, StreamStepping, <1>0 DEF Beside

(* The steps that take a call on, or end it, and change nothing else.      *)
LEMMA PlaceKeeps ==
  ASSUME Inv, NEW s \in Threads, Beside(s),
         Refuse(s) \/ Allocate(s) \/ PipeFails(s) \/ FdopenFails(s) \/ ThreadStarts(s)
           \/ ThreadFails(s) \/ FreeContext(s) \/ AllocateStream(s) \/ AllocateBuffer(s)
           \/ FreeBuffer(s) \/ FreeStream(s)
  PROVE  Inv'
PROOF
<1>0. /\ OpenTypeOK /\ s # None /\ UNCHANGED <<owner, foreign, calls>> /\ Streams(s)
      /\ allocated \in [Threads -> 0..2] /\ call[s] \in Calls
  BY OpenAssumption, Reads
  DEF Inv, CompatTypeOK, OpenTypeOK, Refuse, Allocate, PipeFails, FdopenFails, ThreadStarts,
      ThreadFails, FreeContext, AllocateStream, AllocateBuffer, FreeBuffer, FreeStream
<1>1. PICK place \in {"pipe", "failed", "free", "closeApp", "ok", "buffer", "entered",
                      "freeBuffer", "freeStream"} : Goes(s, place)
  BY DEF Refuse, Allocate, PipeFails, FdopenFails, ThreadStarts, ThreadFails, FreeContext,
         AllocateStream, AllocateBuffer, FreeBuffer, FreeStream
<1>2. place \in OpenPCs BY DEF OpenPCs
<1>3. /\ call' \in [Threads -> Calls] /\ \A t \in Threads \ {s} : call'[t] = call[t]
      /\ call'[s].pc = place /\ call'[s].function = call[s].function
      /\ call'[s].seek = call[s].seek /\ call'[s].fd = call[s].fd
      /\ call'[s].file = call[s].file
  BY <1>1, <1>2, Going
<1>4. /\ allocated' \in [Threads -> 0..2]
      /\ \A t \in Threads \ {s} : allocated'[t] = allocated[t]
  <2>1. CASE Allocate(s) \/ AllocateStream(s) \/ AllocateBuffer(s)
    <3>1. allocated[s] \in {0, 1}
      BY <1>0, <2>1 DEF Allocate, AllocateStream, AllocateBuffer, At, Streams, Shape
    <3> QED BY <1>0, <2>1, <3>1 DEF Allocate, AllocateStream, AllocateBuffer
  <2>2. CASE FreeContext(s) \/ FreeBuffer(s) \/ FreeStream(s)
    <3>1. allocated[s] \in {1, 2}
      BY <1>0, <2>2 DEF FreeContext, FreeBuffer, FreeStream, At, Streams, Shape, MemoryPCs
    <3> QED BY <1>0, <2>2, <3>1 DEF FreeContext, FreeBuffer, FreeStream
  <2>3. CASE UNCHANGED allocated BY <1>0, <2>3
  <2> QED BY <2>1, <2>2, <2>3 DEF Refuse, PipeFails, FdopenFails, ThreadStarts, ThreadFails
<1>5. OpenTypeOK' BY <1>0, <1>3, <1>4 DEF OpenTypeOK, Calls
<1>6. call'[s].pc # "idle" /\ task'[s].pc = "idle" BY <1>1, <1>3 DEF Beside
<1>7. Streams(s)'
  <2>0. Apart(s)' BY <1>0, <1>3 DEF Streams, Apart
  <2>1. CASE Refuse(s) \/ Allocate(s) \/ AllocateStream(s) \/ AllocateBuffer(s)
              \/ FreeBuffer(s) \/ FreeStream(s)
    <3>1. /\ call[s].file = None /\ \A e \in Ends : call[s].fd[e] = None
          /\ call'[s].pc \in {"pipe", "failed", "entered"} \cup MemoryPCs
      BY <1>0, <1>3, <2>1, Going
      DEF Refuse, Allocate, AllocateStream, AllocateBuffer, FreeBuffer, FreeStream, At, OpenPCs,
          MemoryPCs, Streams, Shape
    <3>2. Held(s)' /\ Closed(s)'
      BY <1>0, <1>3, <3>1 DEF Held, Closed, Mine, Gone, Ends, MemoryPCs
    <3>3. Shape(s)'
      <4>1. CASE Refuse(s) \/ Allocate(s)
        <5>1. /\ call[s].pc = "entered"
              /\ \/ call'[s].pc = "pipe" /\ allocated'[s] = allocated[s] + 1 /\ ~call[s].seek
                 \/ call'[s].pc = "failed" /\ allocated'[s] = allocated[s] /\ ~call[s].seek
                 \/ /\ allocated'[s] = allocated[s]
                    /\ call'[s].pc = IF call[s].function = "open_memstream" THEN "freeBuffer"
                                                                           ELSE "failed"
          BY <1>0, <4>1, Going DEF Refuse, Allocate, At, OpenPCs
        <5> QED BY <1>0, <1>3, <1>6, <3>1, <5>1 DEF Streams, Shape, MemoryPCs
      <4>2. CASE AllocateStream(s) \/ AllocateBuffer(s)
        <5>1. \/ /\ call[s].pc = "stream" /\ call'[s].pc = "buffer"
                 /\ allocated'[s] = allocated[s] + 1
              \/ /\ call[s].pc = "stream" /\ call'[s].pc = "failed"
                 /\ allocated'[s] = allocated[s]
              \/ /\ call[s].pc = "buffer" /\ call'[s].pc = "entered"
                 /\ allocated'[s] = allocated[s] + 1
              \/ /\ call[s].pc = "buffer" /\ call'[s].pc = "freeStream"
                 /\ allocated'[s] = allocated[s]
          BY <1>0, <4>2, Going DEF AllocateStream, AllocateBuffer, At, OpenPCs
        <5> QED BY <1>0, <1>3, <1>6, <3>1, <5>1 DEF Streams, Shape, MemoryPCs
      <4>3. CASE FreeBuffer(s) \/ FreeStream(s)
        <5>1. /\ \/ call[s].pc = "freeBuffer" /\ call'[s].pc = "freeStream"
                 \/ call[s].pc = "freeStream" /\ call'[s].pc = "failed"
              /\ allocated'[s] = allocated[s] - 1
          BY <1>0, <4>3, Going DEF FreeBuffer, FreeStream, At, OpenPCs
        <5> QED BY <1>0, <1>3, <1>6, <3>1, <5>1 DEF Streams, Shape, MemoryPCs
      <4> QED BY <2>1, <4>1, <4>2, <4>3
    <3> QED BY <2>0, <3>2, <3>3 DEF Streams
  <2>2. CASE PipeFails(s)
    <3>1. call[s].pc = "pipe" /\ call'[s].pc = "free" /\ allocated' = allocated
      BY <1>0, <2>2, Going DEF PipeFails, At, OpenPCs
    <3> QED BY <1>0, <1>3, <1>6, <3>1
        DEF Streams, Shape, MemoryPCs, Held, Closed, Apart, Mine, Gone, Ends
  <2>3. CASE FdopenFails(s) \/ ThreadFails(s) \/ ThreadStarts(s)
    <3>1. /\ call[s].pc \in {"fdopen", "thread"} /\ call'[s].pc \in {"closeApp", "ok"}
          /\ call'[s].pc = "ok" => call[s].pc = "thread"
          /\ allocated' = allocated
      BY <1>0, <2>3, Going DEF FdopenFails, ThreadFails, ThreadStarts, At, OpenPCs
    <3> QED BY <1>0, <1>3, <1>6, <3>1
        DEF Streams, Shape, MemoryPCs, Held, Closed, Apart, Mine, Gone, Ends
  <2>4. CASE FreeContext(s)
    <3>1. /\ call[s].pc = "free" /\ call'[s].pc = "failed"
          /\ allocated'[s] = allocated[s] - 1
      BY <1>0, <2>4, Going DEF FreeContext, At, OpenPCs
    <3> QED BY <1>0, <1>3, <1>6, <3>1
        DEF Streams, Shape, MemoryPCs, Held, Closed, Apart, Mine, Gone, Ends
  <2> QED BY <2>1, <2>2, <2>3, <2>4
<1> QED BY <1>0, <1>3, <1>4, <1>5, <1>7, OwnersStay, StreamStepping DEF Beside

LEMMA PipeKeeps ==
  ASSUME Inv, NEW s \in Threads, Beside(s), Pipe(s)
  PROVE  Inv'
PROOF
<1>0. /\ OpenTypeOK /\ call \in [Threads -> Calls] /\ call[s] \in Calls /\ s # None
      /\ owner \in [Fds -> Threads \cup {None}] /\ UNCHANGED <<allocated, calls, foreign>>
      /\ Streams(s) /\ call[s].pc = "pipe" /\ task[s].pc = "idle"
  BY OpenAssumption, Reads DEF Inv, CompatTypeOK, OpenTypeOK, Calls, Pipe, At, Beside
<1>1. PICK a \in Fds, b \in Fds :
        /\ a # b /\ owner[a] = None /\ owner[b] = None
        /\ owner' = [owner EXCEPT ![a] = s, ![b] = s]
        /\ call' = [call EXCEPT ![s].pc = "fdopen",
                                ![s].fd = [e \in Ends |-> IF e = "app" THEN a ELSE b]]
  BY DEF Pipe, Free
<1>2. /\ owner' \in [Fds -> Threads \cup {None}] /\ owner'[a] = s /\ owner'[b] = s
      /\ \A d \in Fds \ {a, b} : owner'[d] = owner[d]
  BY <1>0, <1>1
<1> DEFINE fd == [e \in Ends |-> IF e = "app" THEN a ELSE b]
<1>3. /\ fd \in [Ends -> Fds \cup {None}] /\ fd["app"] = a /\ fd["proxy"] = b
      /\ \A e \in Ends : fd[e] \in {a, b}
  BY DEF Ends
<1>4. /\ call' \in [Threads -> Calls] /\ \A t \in Threads \ {s} : call'[t] = call[t]
      /\ call'[s].pc = "fdopen" /\ call'[s].fd = fd
      /\ call'[s].file = call[s].file /\ call'[s].function = call[s].function
  <2>1. call' = [call EXCEPT ![s].pc = "fdopen", ![s].fd = fd] BY <1>1
  <2> HIDE DEF fd
  <2> QED BY <1>0, <1>3, <2>1 DEF Calls, OpenPCs
<1> HIDE DEF fd
<1>5. OpenTypeOK' BY <1>0, <1>2, <1>4 DEF OpenTypeOK, Calls
<1>6. OwnersOf(s) BY <1>0, <1>1, <1>2 DEF OwnersOf
<1>7. Streams(s)'
  <2>1. Shape(s)' BY <1>0, <1>4 DEF Streams, Shape, Beside, MemoryPCs
  <2>2. \A e \in Ends : Mine(s, call[s].fd[e])' BY <1>2, <1>3, <1>4 DEF Mine
  <2>3. Held(s)' BY <1>4, <2>2 DEF Held
  <2>4. Closed(s)' BY <1>4 DEF Closed
  <2>5. Apart(s)' BY <1>0, <1>1, <1>3, <1>4 DEF Streams, Shape, Apart
  <2> QED BY <2>1, <2>3, <2>4, <2>5 DEF Streams
<1>8. OnlyFunopenClosesForeign' BY <1>0 DEF Inv, OnlyFunopenClosesForeign
<1> QED BY <1>0, <1>4, <1>5, <1>6, <1>7, <1>8, StreamStepping DEF Beside

LEMMA FdopenKeeps ==
  ASSUME Inv, NEW s \in Threads, Beside(s), Fdopen(s)
  PROVE  Inv'
PROOF
<1>0. /\ OpenTypeOK /\ call \in [Threads -> Calls] /\ call[s] \in Calls
      /\ UNCHANGED <<owner, allocated, calls, foreign>>
      /\ Streams(s) /\ call[s].pc = "fdopen" /\ task[s].pc = "idle"
      /\ "app" \in Ends /\ "proxy" \in Ends
  BY Reads DEF Inv, CompatTypeOK, OpenTypeOK, Calls, Fdopen, At, Beside
<1> DEFINE fd == [call[s].fd EXCEPT !["app"] =
                    IF call[s].function = "fopencookie" THEN None ELSE @]
<1>1. /\ fd \in [Ends -> Fds \cup {None}] /\ fd["proxy"] = call[s].fd["proxy"]
      /\ fd["app"] = IF call[s].function = "fopencookie" THEN None ELSE call[s].fd["app"]
      /\ \A e \in Ends : fd[e] \in {None, call[s].fd[e]}
  BY <1>0 DEF Calls, Ends
<1>2. /\ call' \in [Threads -> Calls] /\ \A t \in Threads \ {s} : call'[t] = call[t]
      /\ call'[s].pc = "thread" /\ call'[s].fd = fd
      /\ call'[s].file = call[s].fd["app"] /\ call'[s].function = call[s].function
  BY ZenonT(60), <1>0, <1>1 DEF Fdopen, Calls, OpenPCs
<1> HIDE DEF fd
<1>3. OpenTypeOK' BY <1>0, <1>2 DEF OpenTypeOK, Calls
<1>4. Streams(s)'
  <2>1. Shape(s)' BY <1>0, <1>2 DEF Streams, Shape, Beside, MemoryPCs
  <2>2. Held(s)' BY <1>0, <1>1, <1>2 DEF Streams, Held, Mine
  <2>3. Closed(s)' BY <1>2 DEF Closed
  <2>4. call[s].function \in {"funopen", "fopencookie"}
    BY <1>0 DEF Streams, Shape, Calls, StreamFunctions, MemoryPCs
  <2>5. Apart(s)' BY <1>0, <1>1, <1>2, <2>4 DEF Streams, Apart
  <2> QED BY <2>1, <2>2, <2>3, <2>5 DEF Streams
<1> QED BY <1>0, <1>2, <1>3, <1>4, OwnersStay, StreamStepping DEF Beside

(* The error path: every descriptor is closed once, but for funopen()'s.   *)
LEMMA CloseKeeps ==
  ASSUME Inv, NEW s \in Threads, Beside(s), CloseApp(s) \/ CloseProxy(s) \/ Fclose(s)
  PROVE  Inv'
PROOF
<1> DEFINE c == call[s]
<1>0. /\ OpenTypeOK /\ c \in Calls /\ UNCHANGED <<allocated, calls>> /\ Streams(s)
      /\ c.file \in Fds \cup {None} /\ \A e \in Ends : c.fd[e] \in Fds \cup {None}
      /\ "app" \in Ends /\ "proxy" \in Ends /\ s # None
  BY Reads, OpenAssumption DEF Inv, CompatTypeOK, CloseApp, CloseProxy, Fclose
<1>1. PICK d \in {c.fd["app"], c.fd["proxy"], c.file},
           place \in {"closeProxy", "fclose", "free"} :
        /\ ClosesIn(c.function, s, d) /\ Goes(s, place)
        /\ \/ c.pc = "closeApp" /\ place = "closeProxy" /\ d = c.fd["app"]
           \/ c.pc = "closeProxy" /\ place = "fclose" /\ d = c.fd["proxy"]
           \/ c.pc = "fclose" /\ place = "free" /\ d = c.file
  BY DEF CloseApp, CloseProxy, Fclose, Closes, At
<1>2. place \in OpenPCs BY DEF OpenPCs
<1>3. /\ call' \in [Threads -> Calls] /\ \A t \in Threads \ {s} : call'[t] = call[t]
      /\ call'[s].pc = place /\ call'[s].function = c.function
      /\ call'[s].seek = c.seek /\ call'[s].fd = c.fd /\ call'[s].file = c.file
  BY <1>1, <1>2, Going
<1>4. d \in Fds \cup {None} /\ c.function # None
  BY <1>0, <1>1, OpenAssumption DEF Calls
<1>5. c.function = "funopen" \/ (foreign = None => Mine(s, d))
  BY <1>0, <1>1 DEF Streams, Held
<1>6. /\ OwnersOf(s) /\ OnlyFunopenClosesForeign'
      /\ owner' \in [Fds -> Threads \cup {None}]
      /\ foreign' \in {None, "funopen"}
      /\ d # None => owner'[d] = None
      /\ \A x \in Fds : x # d => owner'[x] = owner[x]
      /\ \A x \in Fds : owner[x] # s => owner'[x] # s
      /\ foreign' = None => foreign = None
  BY <1>1, <1>4, <1>5, Closing
<1>7. OpenTypeOK' BY <1>0, <1>3, <1>6 DEF OpenTypeOK, Calls, StreamFunctions
<1>8. Shape(s)' BY <1>0, <1>1, <1>3 DEF Streams, Shape, Beside, MemoryPCs
<1> HIDE DEF c
<1>9. Held(s)'
  <2>1. CASE place = "closeProxy"
    <3>1. foreign' = None => Mine(s, c.fd["proxy"]) /\ Mine(s, c.file)
      BY <1>0, <1>1, <1>6, <2>1 DEF Streams, Held, c
    <3>2. c.fd["proxy"] # None => c.fd["proxy"] # d
      BY <1>0, <1>1, <2>1 DEF Streams, Apart, c
    <3>3. c.file # None /\ c.function # "funopen" => c.file # d
      BY <1>0, <1>1, <2>1 DEF Streams, Apart, c
    <3>4. foreign' = None => Mine(s, c.fd["proxy"])' /\ (Mine(s, c.file)' \/ c.function = "funopen")
      BY <1>0, <1>3, <1>6, <3>1, <3>2, <3>3 DEF Mine, c
    <3> QED BY <1>3, <2>1, <3>4 DEF Held, c
  <2>2. CASE place = "fclose"
    <3>1. foreign' = None => Mine(s, c.file) \/ c.function = "funopen"
      BY <1>0, <1>1, <1>6, <2>2 DEF Streams, Held, c
    <3>2. c.file # None => c.file # d
      BY <1>0, <1>1, <2>2 DEF Streams, Apart, c
    <3>3. foreign' = None => Mine(s, c.file)' \/ c.function = "funopen"
      BY <1>0, <1>3, <1>6, <3>1, <3>2 DEF Mine, c
    <3> QED BY <1>3, <2>2, <3>3 DEF Held, c
  <2>3. CASE place = "free" BY <1>3, <2>3 DEF Held
  <2> QED BY <2>1, <2>2, <2>3
<1>10. Closed(s)'
  <2>1. \A x \in Fds \cup {None} : Gone(s, x) \/ x = d => Gone(s, x)'
    BY <1>0, <1>6 DEF Gone
  <2> QED BY <1>0, <1>1, <1>3, <2>1 DEF Streams, Closed, c
<1>11. Apart(s)' BY <1>0, <1>3 DEF Streams, Apart, c
<1> QED BY <1>0, <1>3, <1>6, <1>7, <1>8, <1>9, <1>10, <1>11, StreamStepping DEF Streams, Beside

(* The caller has its stream, which it closes some time, or none.          *)
LEMMA ReturnsKeep ==
  ASSUME Inv, NEW s \in Threads, Beside(s), Returns(s)
  PROVE  Inv'
PROOF
<1>0. /\ OpenTypeOK /\ call \in [Threads -> Calls] /\ call[s] \in Calls /\ s # None
      /\ owner \in [Fds -> Threads \cup {None}] /\ UNCHANGED <<calls, foreign>>
      /\ allocated \in [Threads -> 0..2]
      /\ Streams(s) /\ call[s].pc \in {"ok", "failed"} /\ task[s].pc = "idle"
  BY OpenAssumption, Reads DEF Inv, CompatTypeOK, OpenTypeOK, Calls, Returns, At, Beside
<1>1. PICK i \in Calls : i = Idle BY DEF Calls, Idle, OpenPCs, StreamFunctions
<1>2. /\ i.pc = "idle" /\ i.function = "funopen" /\ i.file = None
      /\ \A e \in Ends : i.fd[e] = None
  BY <1>1 DEF Idle
<1>3. call' \in [Threads -> Calls] /\ call'[s] = i /\ \A t \in Threads \ {s} : call'[t] = call[t]
  BY <1>0, <1>1 DEF Returns
<1>4. /\ owner' \in [Fds -> Threads \cup {None}]
      /\ \A d \in Fds : owner'[d] # owner[d] =>
           owner'[d] = None /\ At(s, "ok") /\ d \in {call[s].file, call[s].fd["proxy"]}
  BY <1>0 DEF Returns
<1>5. foreign = None /\ At(s, "ok") =>
        \A d \in Fds : d \in {call[s].file, call[s].fd["proxy"]} => owner[d] = s
  BY <1>0, OpenAssumption DEF Streams, Held, Mine, At
<1>6. OwnersOf(s) BY <1>0, <1>4, <1>5 DEF OwnersOf
<1>7. /\ allocated' \in [Threads -> 0..2] /\ allocated'[s] = 0
      /\ \A t \in Threads \ {s} : allocated'[t] = allocated[t]
  <2>1. call[s].pc # "ok" => allocated[s] = 0 BY <1>0 DEF Streams, Shape
  <2> QED BY <1>0, <2>1 DEF Returns, At
<1>8. OpenTypeOK' BY <1>0, <1>3, <1>4, <1>7 DEF OpenTypeOK, Calls
<1>9. Streams(s)'
  <2>1. "app" \in Ends /\ "proxy" \in Ends BY DEF Ends
  <2> QED BY <1>2, <1>3, <1>7, <2>1 DEF Streams, Shape, Held, Closed, Apart, MemoryPCs
<1>10. OnlyFunopenClosesForeign' BY <1>0 DEF Inv, OnlyFunopenClosesForeign
<1> QED BY <1>0, <1>3, <1>6, <1>7, <1>8, <1>9, <1>10, StreamStepping DEF Beside

LEMMA CookieStepKeeps ==
  ASSUME Inv, NEW s \in Threads, CookieStep(s)
  PROVE  Inv'
PROOF
<1>1. Beside(s) /\ Step(s) BY DEF CookieStep, Beside
<1> QED
  BY <1>1, FilesKeep, OpenKeeps, PlaceKeeps, PipeKeeps, FdopenKeeps, CloseKeeps, ReturnsKeep
  DEF Step, Fails

-----------------------------------------------------------------------------
(* A step of the other functions, the file's times staying as they are.    *)
LEMMA TaskStepping ==
  ASSUME Inv, NEW s \in Threads, At(s, "idle"), NEW k \in Tasks, Becomes(s, k),
         UNCHANGED <<call, allocated, program, file, clock>>,
         owner' \in [Fds -> Threads \cup {None}], calls' \in [Threads -> 0..MaxCalls],
         OnlyFunopenClosesForeign', OwnersOf(s), Works(s)'
  PROVE  Inv'
PROOF
<1>0. task \in [Threads -> Tasks] /\ clock \in Nat
  BY CompatAssumption DEF Inv, CompatTypeOK
<1>1. task' \in [Threads -> Tasks] /\ \A t \in Threads \ {s} : task'[t] = task[t]
  BY <1>0 DEF Becomes
<1>2. CompatTypeOK'
  BY <1>1 DEF Inv, CompatTypeOK, OpenTypeOK, OnlyFunopenClosesForeign, StreamFunctions
<1>3. \A t \in Threads \ {s} : Waits(t) /\ Timed(t)' /\ AsAsked(t)'
  BY <1>0, <1>1, TimesKeep DEF Waits
<1>4. Streams(s)' BY NoCall
<1> QED BY <1>2, <1>3, <1>4, Stepping

(* One that leaves the descriptors alone as well.                          *)
LEMMA QuietStepping ==
  ASSUME Inv, NEW s \in Threads, At(s, "idle"), NEW k \in Tasks, Becomes(s, k),
         UNCHANGED <<owner, foreign, call, allocated, program, file, clock>>,
         calls' \in [Threads -> 0..MaxCalls], Works(s)'
  PROVE  Inv'
PROOF
<1>1. owner' \in [Fds -> Threads \cup {None}] BY DEF Inv, CompatTypeOK, OpenTypeOK
<1> QED BY <1>1, OwnersStay, TaskStepping

(* A thread that is in one of these functions is in no other.              *)
LEMMA InNoStream ==
  ASSUME Inv, NEW s \in Threads, task[s].pc # "idle"
  PROVE  At(s, "idle")
BY DEF Inv, Streams, Shape, At

LEMMA NoTaskType ==
  /\ NoTask \in Tasks /\ NoLine \in Lines
  /\ NoTask.pc = "idle" /\ NoTask.fd = {} /\ NoTask.result = 0 /\ NoTask.alone
  /\ NoTask.line = NoLine
PROOF
<1>1. NoLine \in Lines BY DEF NoLine, Lines
<1> QED BY <1>1 DEF NoTask, Tasks

LEMMA BeginsKeeps ==
  ASSUME Inv, NEW s \in Threads, NEW kind, NEW k \in Tasks, Begins(s, kind, k), Works(s)'
  PROVE  Inv'
PROOF
<1>1. calls' \in [Threads -> 0..MaxCalls]
  BY OpenAssumption DEF Inv, CompatTypeOK, OpenTypeOK, Begins
<1> QED BY <1>1, QuietStepping DEF Begins, TimeStays

LEMMA OpenDescriptorKeeps ==
  ASSUME Inv, NEW s \in Threads, OpenDescriptor(s)
  PROVE  Inv'
PROOF
<1>1. PICK f \in Descriptors :
        Begins(s, "descriptors", [NoTask EXCEPT !.function = f, !.pc = "first"])
  BY DEF OpenDescriptor
<1>2. PICK i \in Tasks : i = NoTask BY NoTaskType
<1> DEFINE k == [i EXCEPT !.function = f, !.pc = "first"]
<1>3. /\ k \in Tasks /\ k.pc = "first" /\ k.function = f /\ k.fd = {} /\ k.result = 0
  BY <1>2, NoTaskType DEF Tasks
<1>4. Begins(s, "descriptors", k) BY Zenon, <1>1, <1>2
<1> HIDE DEF k
<1>5. task'[s] = k BY <1>4 DEF Begins, Becomes, Inv, CompatTypeOK
<1>6. Works(s)'
  BY <1>3, <1>5 DEF Works, Descriptor, Timed, AsAsked, Buffered, SoundLine, Doing
<1> QED BY <1>3, <1>4, <1>6, BeginsKeeps

LEMMA SetTimesKeeps ==
  ASSUME Inv, NEW s \in Threads, SetTimes(s)
  PROVE  Inv'
PROOF
<1>1. PICK f \in Times, want \in Wants \cup {None} :
        Begins(s, "times", [NoTask EXCEPT !.function = f, !.pc = "times", !.want = want,
                                          !.before = file, !.since = clock])
  BY DEF SetTimes
<1>2. PICK i \in Tasks : i = NoTask BY NoTaskType
<1> DEFINE k == [i EXCEPT !.function = f, !.pc = "times", !.want = want,
                          !.before = file, !.since = clock]
<1>0. file \in Stamps /\ clock \in Nat BY CompatAssumption DEF Inv, CompatTypeOK
<1>3. /\ k \in Tasks /\ k.pc = "times" /\ k.function = f
      /\ k.before = file /\ k.since = clock /\ k.result = 0
  BY ZenonT(60), <1>0, <1>2, NoTaskType DEF Tasks
<1>4. Begins(s, "times", k) BY Zenon, <1>1, <1>2
<1> HIDE DEF k
<1>5. task'[s] = k /\ clock' = clock /\ file' = file
  BY <1>4 DEF Begins, Becomes, Inv, CompatTypeOK, TimeStays
<1>6. Works(s)'
  BY <1>0, <1>3, <1>5 DEF Works, Descriptor, Timed, AsAsked, Buffered, SoundLine, Doing
<1> QED BY <1>3, <1>4, <1>6, BeginsKeeps

LEMMA ReadLineKeeps ==
  ASSUME Inv, NEW s \in Threads, ReadLine(s)
  PROVE  Inv'
PROOF
<1>1. PICK ptr \in {0, 1}, n \in 0..InitialSize :
        Begins(s, "lines", [NoTask EXCEPT !.function = "getdelim", !.pc = "alloc",
                 !.line = [NoLine EXCEPT !.ptr = ptr, !.n = n, !.live = {ptr} \ {0},
                                  !.zero = (n = 0)]])
  BY DEF ReadLine
<1>2. PICK i \in Tasks : i = NoTask BY NoTaskType
<1>3. PICK j \in Lines : j = NoLine BY NoTaskType
<1> DEFINE z == (n = 0)
<1> DEFINE l == [j EXCEPT !.ptr = ptr, !.n = n, !.live = {ptr} \ {0}, !.zero = z]
<1>4. l \in Lines /\ l.ptr = ptr /\ l.n = n /\ l.live = {ptr} \ {0} /\ l.zero = z
  <2>1. z \in BOOLEAN /\ ptr \in Nat /\ n \in Nat /\ {ptr} \ {0} \in SUBSET Nat
    BY CompatAssumption
  <2> HIDE DEF z
  <2> QED BY <2>1 DEF Lines
<1> DEFINE k == [i EXCEPT !.function = "getdelim", !.pc = "alloc", !.line = l]
<1>5. Begins(s, "lines", k) BY Zenon, <1>1, <1>2, <1>3
<1>6. k \in Tasks /\ k.pc = "alloc" /\ k.function = "getdelim" /\ k.line = l
  <2> HIDE DEF l
  <2> QED BY <1>4 DEF Tasks
<1>7. /\ l.live = {l.ptr} \ {0} /\ l.zero = (l.n = 0)
      /\ l.ptr \in {0, 1} /\ l.used = 0
  <2>1. j.used = 0 BY <1>3 DEF NoLine
  <2>2. l.used = j.used BY DEF Lines
  <2> HIDE DEF l
  <2> QED BY <1>4, <2>1, <2>2
<1> HIDE DEF k, l, z
<1>8. task'[s] = k BY <1>5 DEF Begins, Becomes, Inv, CompatTypeOK
<1>9. Works(s)'
  BY <1>6, <1>7, <1>8 DEF Works, Descriptor, Timed, AsAsked, Buffered, SoundLine, Doing
<1> QED BY <1>5, <1>6, <1>9, BeginsKeeps

-----------------------------------------------------------------------------
(* dprintf() and openpty().                                                *)
LEMMA OnlyDescriptors ==
  ASSUME NEW s, task'[s].function \in Descriptors \cup {None},
         task'[s].pc \in {"idle", "first", "second", "fclose", "done"}
  PROVE  Timed(s)' /\ AsAsked(s)' /\ Buffered(s)' /\ SoundLine(s)'
BY CompatAssumption DEF Timed, AsAsked, Buffered, SoundLine, Doing, Descriptors, Times

LEMMA OpenedKeeps ==
  ASSUME Inv, NEW s \in Threads, First(s) \/ Slave(s)
  PROVE  Inv'
PROOF
<1>0. /\ task[s] \in Tasks /\ task \in [Threads -> Tasks] /\ Descriptor(s)
      /\ At(s, "idle") /\ s # None
      /\ owner \in [Fds -> Threads \cup {None}] /\ calls \in [Threads -> 0..MaxCalls]
      /\ UNCHANGED <<call, allocated, program, file, clock, calls, foreign>>
  BY Reads, InNoStream, OpenAssumption
  DEF Inv, Works, CompatTypeOK, OpenTypeOK, First, Slave, Doing, TimeStays
<1>1. PICK d \in Fds : /\ owner[d] = None /\ owner' = [owner EXCEPT ![d] = s]
                       /\ \/ First(s) /\ Becomes(s, [task[s] EXCEPT !.pc = "second", !.fd = {d}])
                          \/ Slave(s) /\ Becomes(s, [task[s] EXCEPT !.pc = "done", !.fd = @ \cup {d}])
  BY DEF First, Slave, Free
<1>2. owner' \in [Fds -> Threads \cup {None}] /\ owner'[d] = s /\ OwnersOf(s)
  BY <1>0, <1>1 DEF OwnersOf
<1>3. OnlyFunopenClosesForeign' BY <1>0 DEF Inv, OnlyFunopenClosesForeign
<1>4. CASE First(s)
  <2> DEFINE k == [task[s] EXCEPT !.pc = "second", !.fd = {d}]
  <2>1. /\ k \in Tasks /\ k.pc = "second" /\ k.fd = {d}
        /\ k.function = task[s].function /\ k.result = task[s].result
    BY <1>0 DEF Tasks
  <2>2. Becomes(s, k)
    <3>1. ~(task[s].pc = "first" /\ task[s].pc = "second") OBVIOUS
    <3> QED BY <1>1, <1>4, <3>1 DEF First, Slave, Doing
  <2> HIDE DEF k
  <2>3. task'[s] = k BY <1>0, <2>2 DEF Becomes
  <2>4. k.function \in Descriptors /\ k.result = 0
    BY <1>0, <1>4, <2>1 DEF Descriptor, First
  <2>5. Descriptor(s)' BY <1>2, <2>1, <2>3, <2>4 DEF Descriptor
  <2>6. Works(s)' BY <2>1, <2>3, <2>4, <2>5, OnlyDescriptors DEF Works
  <2> QED BY <1>0, <1>2, <1>3, <2>1, <2>2, <2>6, TaskStepping
<1>5. CASE Slave(s)
  <2> DEFINE k == [task[s] EXCEPT !.pc = "done", !.fd = @ \cup {d}]
  <2>1. /\ k \in Tasks /\ k.pc = "done"
        /\ k.function = task[s].function /\ k.result = task[s].result
    BY <1>0 DEF Tasks
  <2>2. Becomes(s, k)
    <3>1. ~(task[s].pc = "first" /\ task[s].pc = "second") OBVIOUS
    <3> QED BY <1>1, <1>5, <3>1 DEF First, Slave, Doing
  <2> HIDE DEF k
  <2>3. task'[s] = k BY <1>0, <2>2 DEF Becomes
  <2>4. k.function = "openpty" /\ k.result = 0
    BY <1>0, <1>5, <2>1 DEF Descriptor, Slave, Doing
  <2>5. Descriptor(s)' BY <2>1, <2>3, <2>4 DEF Descriptor
  <2>6. Works(s)' BY <2>1, <2>3, <2>4, <2>5, OnlyDescriptors DEF Works, Descriptors
  <2> QED BY <1>0, <1>2, <1>3, <2>1, <2>2, <2>6, TaskStepping
<1> QED BY <1>1, <1>4, <1>5

LEMMA FormatsKeep ==
  ASSUME Inv, NEW s \in Threads, Formats(s) \/ FirstFails(s)
  PROVE  Inv'
PROOF
<1>0. /\ task[s] \in Tasks /\ task \in [Threads -> Tasks] /\ Descriptor(s) /\ At(s, "idle")
      /\ UNCHANGED <<owner, foreign, call, allocated, program, file, clock, calls>>
      /\ calls \in [Threads -> 0..MaxCalls]
  BY Reads, InNoStream
  DEF Inv, Works, CompatTypeOK, OpenTypeOK, Formats, FirstFails, Doing, TimeStays, openVars
<1>1. CASE Formats(s)
  <2> DEFINE k == [task[s] EXCEPT !.pc = "fclose"]
  <2>1. /\ k \in Tasks /\ k.pc = "fclose" /\ k.function = "dprintf" /\ k.fd = task[s].fd
        /\ k.result = 0
    BY <1>0, <1>1 DEF Tasks, Formats, Doing, Descriptor
  <2>2. Becomes(s, k) BY <1>1 DEF Formats, Moves
  <2> HIDE DEF k
  <2>3. task'[s] = k BY <1>0, <2>2 DEF Becomes
  <2>4. task[s].pc = "second" BY <1>1 DEF Formats, Doing
  <2>5. Descriptor(s)' BY <1>0, <2>1, <2>3, <2>4 DEF Descriptor, Descriptors
  <2>6. Works(s)' BY <2>1, <2>3, <2>5, OnlyDescriptors DEF Works, Descriptors
  <2> QED BY <1>0, <2>1, <2>2, <2>6, QuietStepping
<1>2. CASE FirstFails(s)
  <2>0. PICK n \in Int : n = -1 OBVIOUS
  <2> DEFINE k == [task[s] EXCEPT !.pc = "done", !.result = n]
  <2>1. k \in Tasks /\ k.pc = "done" /\ k.function \in Descriptors /\ k.fd = {}
    BY <1>0, <1>2 DEF Tasks, FirstFails, Descriptor
  <2>2. Becomes(s, k) BY Zenon, <1>2, <2>0 DEF FirstFails, Done
  <2> HIDE DEF k
  <2>3. task'[s] = k BY <1>0, <2>2 DEF Becomes
  <2>5. Descriptor(s)' BY <2>1, <2>3 DEF Descriptor
  <2>6. Works(s)' BY <2>1, <2>3, <2>5, OnlyDescriptors DEF Works
  <2> QED BY <1>0, <2>1, <2>2, <2>6, QuietStepping
<1> QED BY <1>1, <1>2

LEMMA CloseFirstKeeps ==
  ASSUME Inv, NEW s \in Threads, CloseFirst(s)
  PROVE  Inv'
PROOF
<1>0. /\ task[s] \in Tasks /\ task \in [Threads -> Tasks] /\ Descriptor(s) /\ At(s, "idle")
      /\ UNCHANGED <<call, allocated, program, file, clock, calls>>
      /\ calls \in [Threads -> 0..MaxCalls] /\ task[s].pc \in {"second", "fclose"} /\ s # None
      /\ task[s].function \in Descriptors
  BY Reads, InNoStream, OpenAssumption
  DEF Inv, Works, CompatTypeOK, OpenTypeOK, CloseFirst, TimeStays, Descriptor
<1>1. PICK d \in Fds : task[s].fd = {d} /\ (foreign = None => owner[d] = s)
  BY <1>0 DEF Descriptor
<1>2. ClosesIn(task[s].function, s, d) BY <1>1 DEF CloseFirst
<1>3. foreign = None => Mine(s, d) BY <1>1 DEF Mine
<1>4. task[s].function # None BY <1>0, CompatAssumption
<1>5. /\ OwnersOf(s) /\ OnlyFunopenClosesForeign'
      /\ owner' \in [Fds -> Threads \cup {None}]
      /\ d # None => owner'[d] = None
  <2>1. d \in Fds \cup {None} OBVIOUS
  <2>2. task[s].function = "funopen" \/ (foreign = None => Mine(s, d)) BY <1>3
  <2> QED BY <1>2, <1>4, <2>1, <2>2, Closing
<1> DEFINE n == IF task[s].pc = "fclose" THEN 0 ELSE -1
           k == [task[s] EXCEPT !.pc = "done", !.result = n]
<1>6. /\ k \in Tasks /\ k.pc = "done" /\ k.function = task[s].function /\ k.fd = {d}
  <2>1. n \in Int OBVIOUS
  <2> HIDE DEF n
  <2> QED BY <1>0, <1>1, <2>1 DEF Tasks
<1>7. Becomes(s, k) BY DEF CloseFirst, Done
<1> HIDE DEF k, n
<1>8. task'[s] = k BY <1>0, <1>7 DEF Becomes
<1>9. owner'[d] # s BY <1>0, <1>5, OpenAssumption
<1>10. Descriptor(s)' BY <1>6, <1>8, <1>9 DEF Descriptor
<1>11. Works(s)' BY <1>0, <1>6, <1>8, <1>10, OnlyDescriptors DEF Works
<1> QED BY <1>0, <1>5, <1>6, <1>7, <1>11, TaskStepping

-----------------------------------------------------------------------------
(* futimens() and utimensat().                                             *)
LEMMA OnlyTimes ==
  ASSUME NEW s, task'[s].function \in Times, task'[s].pc \in {"times", "utimes", "done"}
  PROVE  Descriptor(s)' /\ Buffered(s)' /\ SoundLine(s)'
BY DEF Descriptor, Buffered, SoundLine, Doing, Times

LEMMA StatKeeps ==
  ASSUME Inv, NEW s \in Threads, Stat(s)
  PROVE  Inv'
PROOF
<1>0. /\ task[s] \in Tasks /\ task \in [Threads -> Tasks] /\ Timed(s) /\ At(s, "idle")
      /\ UNCHANGED <<owner, foreign, call, allocated, program, file, clock, calls>>
      /\ calls \in [Threads -> 0..MaxCalls] /\ file \in Stamps /\ clock \in Nat
      /\ task[s].pc = "times"
  BY Reads, InNoStream, CompatAssumption
  DEF Inv, Works, CompatTypeOK, OpenTypeOK, Stat, TimeStays, openVars
<1> DEFINE k == [task[s] EXCEPT !.pc = "utimes", !.stat = file, !.now = clock]
<1>1. /\ k \in Tasks /\ k.pc = "utimes" /\ k.stat = file /\ k.now = clock
      /\ k.function = task[s].function /\ k.result = task[s].result /\ k.before = task[s].before
      /\ k.since = task[s].since /\ k.alone = task[s].alone
  BY <1>0 DEF Tasks
<1>2. Becomes(s, k) BY DEF Stat
<1> HIDE DEF k
<1>3. task'[s] = k BY <1>0, <1>2 DEF Becomes
<1>4. k.since \in Nat BY <1>1 DEF Tasks
<1>5. clock \in k.since..clock BY <1>0, <1>1, <1>4 DEF Timed
<1>6. Timed(s)' BY <1>0, <1>1, <1>3, <1>5 DEF Timed
<1>7. AsAsked(s)' BY <1>1, <1>3 DEF AsAsked
<1>8. Works(s)' BY <1>0, <1>1, <1>3, <1>6, <1>7, OnlyTimes DEF Works, Timed
<1> QED BY <1>0, <1>1, <1>2, <1>8, QuietStepping

LEMMA TimesFailKeeps ==
  ASSUME Inv, NEW s \in Threads, StatFails(s) \/ UtimesFails(s)
  PROVE  Inv'
PROOF
<1>0. /\ task[s] \in Tasks /\ task \in [Threads -> Tasks] /\ Timed(s) /\ At(s, "idle")
      /\ UNCHANGED <<owner, foreign, call, allocated, program, file, clock, calls>>
      /\ calls \in [Threads -> 0..MaxCalls] /\ task[s].pc \in {"times", "utimes"}
  BY Reads, InNoStream
  DEF Inv, Works, CompatTypeOK, OpenTypeOK, StatFails, UtimesFails, TimeStays, openVars, Doing
<1>a. PICK n \in Int : n = -1 OBVIOUS
<1> DEFINE k == [task[s] EXCEPT !.pc = "done", !.result = n]
<1>1. /\ k \in Tasks /\ k.pc = "done" /\ k.result = -1
      /\ k.function = task[s].function /\ k.before = task[s].before
      /\ k.since = task[s].since /\ k.alone = task[s].alone
  BY <1>0, <1>a DEF Tasks
<1>2. Becomes(s, k) BY Zenon, <1>a DEF StatFails, UtimesFails, Done
<1> HIDE DEF k
<1>3. task'[s] = k BY <1>0, <1>2 DEF Becomes
<1>4. AsAsked(s)' /\ Timed(s)' BY <1>0, <1>1, <1>3 DEF AsAsked, Timed
<1>5. Works(s)' BY <1>0, <1>1, <1>3, <1>4, OnlyTimes DEF Works, Timed
<1> QED BY <1>0, <1>1, <1>2, <1>5, QuietStepping

LEMMA IsLinkKeeps ==
  ASSUME Inv, NEW s \in Threads, IsLink(s)
  PROVE  Inv'
PROOF
<1>0. /\ task[s] \in Tasks /\ task \in [Threads -> Tasks] /\ At(s, "idle")
      /\ UNCHANGED <<owner, foreign, call, allocated, program, file, clock, calls>>
      /\ calls \in [Threads -> 0..MaxCalls]
  BY Reads, InNoStream DEF Inv, CompatTypeOK, OpenTypeOK, IsLink, TimeStays, openVars, Doing
<1> DEFINE k == [task[s] EXCEPT !.pc = "done", !.function = None]
<1>1. k \in Tasks /\ k.pc = "done" /\ k.function = None BY <1>0 DEF Tasks
<1>2. Becomes(s, k) BY DEF IsLink
<1> HIDE DEF k
<1>3. task'[s] = k BY <1>0, <1>2 DEF Becomes
<1>4. Descriptor(s)' BY <1>1, <1>3, CompatAssumption DEF Descriptor, Descriptors
<1>5. Works(s)' BY <1>1, <1>3, <1>4, OnlyDescriptors DEF Works
<1> QED BY <1>0, <1>1, <1>2, <1>5, QuietStepping

(* The value that utimes() is given is a time, and what was asked for.     *)
LEMMA ConvertedRight ==
  ASSUME Inv, NEW s \in Threads, Utimes(s)
  PROVE  /\ file' \in Stamps
         /\ task[s].alone => \A f \in Fields :
              LET k == task[s] IN
              \/ AskedFor(k, f) = "now" /\ file'[f] \in (k.since..clock) \X {1}
              \/ AskedFor(k, f) = "omit" /\ file'[f] = <<k.before[f][1], 0>>
              \/ AskedFor(k, f) = "unknown" /\ file'[f] = Garbage
              \/ AskedFor(k, f) \in {"given", "last"} /\ file'[f] = Given(AskedFor(k, f))
PROOF
<1> DEFINE k == task[s]
<1>0. /\ k \in Tasks /\ Timed(s) /\ clock \in Nat /\ k.pc = "utimes"
      /\ k.function \in Times /\ k.stat \in Stamps /\ k.now \in k.since..clock
      /\ k.alone => k.stat = k.before
      /\ k.since \in Nat /\ k.now \in Nat /\ k.since <= clock
  BY Reads, CompatAssumption DEF Inv, Works, CompatTypeOK, Utimes, Timed, Tasks
<1> HIDE DEF k
<1>1. CASE k.want = None
  <2>1. file' = [f \in Fields |-> <<clock, 1>>]
    BY <1>1 DEF Utimes, Writes, k
  <2>2. file' \in Stamps BY <1>0, <2>1 DEF Stamps
  <2>3. \A f \in Fields : AskedFor(k, f) = "now" /\ file'[f] = <<clock, 1>>
    BY <1>1, <2>1 DEF AskedFor
  <2>4. clock \in k.since..clock BY <1>0
  <2> QED BY <2>2, <2>3, <2>4 DEF k
<1>2. CASE k.want # None
  <2>1. file' = [f \in Fields |-> Converted(k, f)]
    BY <1>2 DEF Utimes, Writes, k
  <2>2. k.want \in Wants BY <1>0, <1>2 DEF Tasks
  <2>3. ASSUME NEW f \in Fields
        PROVE  /\ Converted(k, f) \in Nat \X Nat
               /\ k.alone =>
                   \/ AskedFor(k, f) = "now" /\ Converted(k, f) \in (k.since..clock) \X {1}
                   \/ AskedFor(k, f) = "omit" /\ Converted(k, f) = <<k.before[f][1], 0>>
                   \/ AskedFor(k, f) = "unknown" /\ Converted(k, f) = Garbage
                   \/ AskedFor(k, f) \in {"given", "last"} /\ Converted(k, f) = Given(AskedFor(k, f))
    <3>0. k.want[f] \in Asked /\ k.stat[f] \in Nat \X Nat
      BY <1>0, <2>2 DEF Wants, Stamps
    <3>1. CASE k.function = "futimens" /\ k.want[f] = "omit"
      <4>1. Converted(k, f) = <<k.stat[f][1], 0>> BY <3>1 DEF Converted, Kept
      <4>2. AskedFor(k, f) = "omit" BY <1>2, <3>1 DEF AskedFor
      <4> QED BY <1>0, <3>0, <4>1, <4>2
    <3>2. CASE k.function = "futimens" /\ k.want[f] = "now"
      <4>1. Converted(k, f) = <<k.now, 1>> BY <3>2 DEF Converted
      <4>2. AskedFor(k, f) = "now" BY <1>2, <3>2 DEF AskedFor
      <4> QED BY <1>0, <4>1, <4>2
    <3>3. CASE k.function = "utimensat" /\ k.want[f] = "last"
      <4>1. Converted(k, f) = <<k.now, 1>> BY <3>3 DEF Converted
      <4>2. AskedFor(k, f) = "now" BY <3>3 DEF AskedFor
      <4> QED BY <1>0, <4>1, <4>2
    <3>4. CASE k.want[f] = "given" \/ (k.function = "futimens" /\ k.want[f] = "last")
      <4>1. Converted(k, f) = Given(k.want[f]) BY <3>4 DEF Converted
      <4>2. AskedFor(k, f) = k.want[f] BY <1>2, <3>4 DEF AskedFor
      <4>3. Given(k.want[f]) \in Nat \X Nat BY DEF Given
      <4> QED BY <3>4, <4>1, <4>2, <4>3
    <3>5. CASE k.function = "utimensat" /\ k.want[f] \in {"now", "omit"}
      <4>1. Converted(k, f) = Garbage BY <3>5 DEF Converted
      <4>2. Garbage \in Nat \X Nat BY DEF Garbage
      <4>3. AskedFor(k, f) = "unknown" BY <1>2, <3>5 DEF AskedFor
      <4> QED BY <4>1, <4>2, <4>3
    <3> QED BY <1>0, <3>0, <3>1, <3>2, <3>3, <3>4, <3>5 DEF Asked, Times
  <2>4. file' \in Stamps BY <2>1, <2>3 DEF Stamps
  <2> QED BY <2>1, <2>3, <2>4 DEF k
<1> QED BY <1>1, <1>2

LEMMA UtimesKeeps ==
  ASSUME Inv, NEW s \in Threads, Utimes(s)
  PROVE  Inv'
PROOF
<1>0. /\ task \in [Threads -> Tasks] /\ task[s] \in Tasks /\ clock \in Nat
      /\ At(s, "idle") /\ Timed(s) /\ task[s].pc = "utimes" /\ task[s].function \in Times
      /\ UNCHANGED <<owner, foreign, call, allocated, program, clock, calls>>
  BY Reads, InNoStream, CompatAssumption
  DEF Inv, Works, CompatTypeOK, Utimes, Writes, openVars, Timed
<1> DEFINE new(u) == IF u = s THEN [task[u] EXCEPT !.pc = "done"]
                              ELSE [task[u] EXCEPT !.alone = FALSE]
<1>1. \A u \in Threads : new(u) \in Tasks BY <1>0 DEF Tasks
<1>2. task' = [u \in Threads |-> new(u)] BY DEF Utimes, Writes
<1>3. /\ task' \in [Threads -> Tasks] /\ task'[s] = [task[s] EXCEPT !.pc = "done"]
      /\ \A u \in Threads \ {s} : task'[u] = [task[u] EXCEPT !.alone = FALSE]
  <2> HIDE DEF new
  <2>1. task' \in [Threads -> Tasks] BY <1>1, <1>2
  <2>2. task'[s] = new(s) /\ \A u \in Threads \ {s} : task'[u] = new(u) BY <1>2
  <2> QED BY <2>1, <2>2 DEF new
<1>4. CompatTypeOK' BY <1>0, <1>3, ConvertedRight DEF Inv, CompatTypeOK, OpenTypeOK
<1>5. OwnersOf(s) /\ OnlyFunopenClosesForeign' BY <1>0, OwnersStay
<1>6. \A t \in Threads \ {s} : Waits(t) /\ Timed(t)' /\ AsAsked(t)'
  BY <1>0, <1>3, DisturbedTimes DEF Waits
<1>7. Streams(s)' BY <1>0, NoCall
<1>8. /\ task'[s].pc = "done" /\ task'[s].function = task[s].function
      /\ task'[s].want = task[s].want /\ task'[s].before = task[s].before
      /\ task'[s].since = task[s].since /\ task'[s].alone = task[s].alone
      /\ task'[s].result = task[s].result
  BY <1>0, <1>3 DEF Tasks
<1>9. task[s].result = 0 BY <1>0 DEF Timed
<1>10. Timed(s)' BY <1>8 DEF Timed
<1>11. AsAsked(s)'
  <2>1. \A f \in Fields : AskedFor(task'[s], f) = AskedFor(task[s], f)
    BY <1>8 DEF AskedFor
  <2>2. task[s].alone => \A f \in Fields :
          LET k == task'[s] IN
          \/ AskedFor(k, f) = "now" /\ file'[f] \in (k.since..clock) \X {1}
          \/ AskedFor(k, f) = "omit" /\ file'[f] = <<k.before[f][1], 0>>
          \/ AskedFor(k, f) = "unknown" /\ file'[f] = Garbage
          \/ AskedFor(k, f) \in {"given", "last"} /\ file'[f] = Given(AskedFor(k, f))
    BY <1>8, <2>1, ConvertedRight
  <2>3. task'[s].since <= clock' BY <1>0, <1>8 DEF Timed
  <2>4. task'[s].result = 0 /\ clock' = clock /\ (task'[s].alone => task[s].alone)
    BY <1>0, <1>8, <1>9
  <2> QED BY <2>2, <2>3, <2>4 DEF AsAsked, AskedFor
<1>12. Works(s)' BY <1>0, <1>8, <1>10, <1>11, OnlyTimes DEF Works
<1> QED BY <1>4, <1>5, <1>6, <1>7, <1>12, Stepping

-----------------------------------------------------------------------------
(* getdelim().                                                             *)
LEMMA OnlyLines ==
  ASSUME NEW s, task'[s].function = "getdelim", task'[s].pc \in {"alloc", "chars", "done"}
  PROVE  Descriptor(s)' /\ Timed(s)' /\ AsAsked(s)'
BY DEF Descriptor, Timed, AsAsked, Descriptors, Times

Other(l) == IF l.zero THEN {1} ELSE {}

(* What is said of the buffer while it is read into.                       *)
Room(l) == /\ l.buf \in l.live /\ l.used < l.size
           /\ l.live \subseteq {l.buf} \cup Other(l)
           /\ l.ptr # 0 => l.ptr \in l.live \/ l.moved

(* There is room for the character and the terminator.                     *)
LEMMA RoomForMore ==
  ASSUME NEW l \in Lines, Room(l), NEW g \in IF Full(l.used, l.size) THEN Grown(l) ELSE {l}
  PROVE  /\ g \in Lines /\ g.used = l.used /\ g.used + 1 < g.size /\ g.buf \in g.live
         /\ g.live \subseteq {g.buf} \cup Other(g)
         /\ g.ptr # 0 => g.ptr \in g.live \/ g.moved
PROOF
<1>0. /\ l.used \in Nat /\ l.size \in Nat /\ l.live \in SUBSET Nat /\ l.buf \in Nat
      /\ l.zero \in BOOLEAN
  BY DEF Lines
<1>1. CASE ~Full(l.used, l.size) BY <1>0, <1>1 DEF Full, Room
<1>2. CASE Full(l.used, l.size)
  <2> DEFINE top == CHOOSE b \in l.live : \A x \in l.live : x <= b
             new == 1 + top
             one == [l EXCEPT !.size = 2 * @]
             two == [l EXCEPT !.size = 2 * @, !.buf = new, !.live = (@ \ {l.buf}) \cup {new},
                              !.moved = TRUE]
  <2>1. new \in Nat
    <3>1. \E b \in l.live : \A x \in l.live : x <= b
      <4>1. \A x \in l.live : x = l.buf \/ x = 1 BY <1>0 DEF Room, Other
      <4>2. CASE l.buf = 0 /\ 1 \in l.live BY <4>1, <4>2
      <4>3. CASE l.buf # 0 \/ 1 \notin l.live
        <5>1. \A x \in l.live : x <= l.buf BY <1>0, <4>1, <4>3
        <5> QED BY <5>1 DEF Room
      <4> QED BY <4>2, <4>3
    <3>2. top \in l.live BY <3>1
    <3> HIDE DEF top
    <3> QED BY <1>0, <3>2
  <2> HIDE DEF new
  <2>2. g \in {one, two} BY Zenon, <1>2 DEF Grown, new
  <2>3. 2 * l.size \in Nat /\ l.used + 1 < 2 * l.size BY <1>0 DEF Room
  <2>4. CASE g = one
    <3>1. /\ one \in Lines /\ one.used = l.used /\ one.size = 2 * l.size /\ one.buf = l.buf
          /\ one.live = l.live /\ one.ptr = l.ptr /\ one.moved = l.moved /\ one.zero = l.zero
      BY <2>3 DEF Lines
    <3> HIDE DEF one
    <3> QED BY <2>3, <2>4, <3>1 DEF Room, Other
  <2>5. CASE g = two
    <3>1. (l.live \ {l.buf}) \cup {new} \in SUBSET Nat BY <1>0, <2>1
    <3>2. /\ two \in Lines /\ two.used = l.used /\ two.size = 2 * l.size /\ two.buf = new
          /\ two.live = (l.live \ {l.buf}) \cup {new} /\ two.ptr = l.ptr
          /\ two.moved = TRUE /\ two.zero = l.zero
      BY <2>1, <2>3, <3>1 DEF Lines
    <3> HIDE DEF two
    <3>3. two.live \subseteq {two.buf} \cup Other(two) BY <3>2 DEF Room, Other
    <3> QED BY <2>3, <2>5, <3>2, <3>3
  <2> QED BY <2>2, <2>4, <2>5
<1> QED BY <1>1, <1>2

(* A step of getdelim() to k.                                              *)
LEMMA LineStepping ==
  ASSUME Inv, NEW s \in Threads, task[s].pc # "idle", NEW k \in Tasks, Becomes(s, k),
         UNCHANGED openVars, TimeStays,
         k.function = "getdelim", k.pc \in {"chars", "done"},
         k.pc = "chars" => Room(k.line),
         k.pc = "done" =>
           /\ k.result # -1 => k.line.used < k.line.n /\ k.line.ptr \in k.line.live
           /\ k.line.ptr # 0 => k.line.ptr \in k.line.live \/ (k.line.short /\ k.line.moved)
           /\ k.line.live \subseteq {k.line.ptr} \cup Other(k.line) \/ k.line.short
  PROVE  Inv'
PROOF
<1>0. /\ At(s, "idle") /\ calls \in [Threads -> 0..MaxCalls] /\ task \in [Threads -> Tasks]
  BY InNoStream DEF Inv, CompatTypeOK, OpenTypeOK
<1>1. task'[s] = k BY <1>0 DEF Becomes
<1>2. Buffered(s)' /\ SoundLine(s)'
  BY <1>1 DEF Buffered, SoundLine, Doing, Room, Other
<1>3. Works(s)' BY <1>1, <1>2, OnlyLines DEF Works
<1> QED BY <1>0, <1>3, QuietStepping DEF openVars, TimeStays

LEMMA BufferKeeps ==
  ASSUME Inv, NEW s \in Threads, Buffer(s)
  PROVE  Inv'
PROOF
<1> DEFINE l == task[s].line
<1>0. /\ task[s] \in Tasks /\ l \in Lines /\ task[s].function = "getdelim"
      /\ task[s].pc = "alloc" /\ l.live = {l.ptr} \ {0} /\ l.zero = (l.n = 0)
      /\ InitialSize \in Nat \ {0} /\ l.ptr \in Nat /\ l.n \in Nat
  BY Reads, CompatAssumption DEF Inv, Works, Buffered, Buffer, Doing, Tasks, Lines
<1>a. l.used = 0 /\ l.ptr \in {0, 1}
  BY <1>0 DEF Inv, Works, Buffered
<1> DEFINE a == [l EXCEPT !.buf = l.ptr, !.size = l.n]
           b == [l EXCEPT !.buf = 2, !.size = InitialSize, !.live = @ \cup {2}]
<1> HIDE DEF l
<1>1. PICK m \in {a, b} :
        /\ m = IF l.ptr # 0 /\ l.n # 0 THEN a ELSE b
        /\ Becomes(s, [task[s] EXCEPT !.pc = "chars", !.line = m])
  BY Zenon DEF Buffer, l
<1>2. /\ a \in Lines /\ a.buf = l.ptr /\ a.size = l.n /\ a.live = l.live /\ a.used = l.used
      /\ a.ptr = l.ptr /\ a.zero = l.zero
  BY <1>0 DEF Lines
<1>3. /\ b \in Lines /\ b.buf = 2 /\ b.size = InitialSize /\ b.live = l.live \cup {2}
      /\ b.used = l.used /\ b.ptr = l.ptr /\ b.zero = l.zero
  <2>1. l.live \cup {2} \in SUBSET Nat /\ InitialSize \in Nat BY <1>0 DEF Lines
  <2> QED BY <1>0, <2>1 DEF Lines
<1> HIDE DEF a, b
<1>4. m \in Lines /\ Room(m)
  <2>1. CASE l.ptr # 0 /\ l.n # 0
    BY <1>0, <1>1, <1>2, <1>a, <2>1 DEF Room, Other
  <2>2. CASE l.ptr = 0 \/ l.n = 0
    <3>1. m = b BY <1>1, <2>2
    <3>2. b.live \subseteq {b.buf} \cup Other(b)
      BY <1>0, <1>3, <1>a, <2>2 DEF Other
    <3> QED BY <1>0, <1>3, <1>a, <3>1, <3>2 DEF Room
  <2> QED BY <2>1, <2>2
<1> DEFINE k == [task[s] EXCEPT !.pc = "chars", !.line = m]
<1>5. k \in Tasks /\ k.pc = "chars" /\ k.line = m /\ k.function = "getdelim"
  BY <1>0, <1>4 DEF Tasks
<1>6. Becomes(s, k) BY <1>1
<1> HIDE DEF k
<1>7. UNCHANGED openVars /\ TimeStays BY DEF Buffer
<1> QED BY <1>0, <1>4, <1>5, <1>6, <1>7, LineStepping

LEMMA NoMemoryKeeps ==
  ASSUME Inv, NEW s \in Threads, NoBuffer(s) \/ CannotGrow(s)
  PROVE  Inv'
PROOF
<1> DEFINE l == task[s].line
<1>0. /\ task[s] \in Tasks /\ l \in Lines /\ task[s].function = "getdelim"
      /\ task[s].pc \in {"alloc", "chars"}
      /\ l.ptr # 0 => l.ptr \in l.live \/ l.moved
  BY Reads DEF Inv, Works, Buffered, NoBuffer, CannotGrow, Doing, Tasks, Lines
<1>1. PICK n \in Int : n = -1 OBVIOUS
<1> DEFINE m == [l EXCEPT !.short = TRUE]
           k == [task[s] EXCEPT !.pc = "done", !.result = n, !.line = m]
<1>2. Becomes(s, k) BY Zenon, <1>1 DEF NoBuffer, CannotGrow
<1> HIDE DEF l
<1>3. m \in Lines /\ m.short /\ m.ptr = l.ptr /\ m.live = l.live /\ m.moved = l.moved
  BY <1>0 DEF Lines
<1> HIDE DEF m
<1>4. k \in Tasks /\ k.pc = "done" /\ k.line = m /\ k.function = "getdelim" /\ k.result = n
  BY <1>0, <1>3 DEF Tasks
<1> HIDE DEF k
<1>5. UNCHANGED openVars /\ TimeStays BY DEF NoBuffer, CannotGrow
<1> QED BY <1>0, <1>1, <1>2, <1>3, <1>4, <1>5, LineStepping

LEMMA CharKeeps ==
  ASSUME Inv, NEW s \in Threads, Char(s)
  PROVE  Inv'
PROOF
<1> DEFINE l == task[s].line
<1>0. /\ task[s] \in Tasks /\ l \in Lines /\ task[s].function = "getdelim"
      /\ task[s].pc = "chars" /\ Room(l)
  BY Reads DEF Inv, Works, Buffered, Char, Doing, Tasks, Room, Other
<1>1. PICK g \in IF Full(l.used, l.size) THEN Grown(l) ELSE {l} :
        \/ Becomes(s, [task[s] EXCEPT !.line = [g EXCEPT !.used = @ + 1]])
        \/ Becomes(s, [task[s] EXCEPT !.pc = "done", !.result = g.used + 1,
             !.line = [g EXCEPT !.used = @ + 1, !.ptr = g.buf, !.n = g.size]])
  BY Zenon DEF Char
<1>2. /\ g \in Lines /\ g.used = l.used /\ g.used + 1 < g.size /\ g.buf \in g.live
      /\ g.live \subseteq {g.buf} \cup Other(g)
      /\ g.ptr # 0 => g.ptr \in g.live \/ g.moved
  BY <1>0, RoomForMore
<1>3. g.used \in Nat /\ g.size \in Nat /\ g.buf \in Nat BY <1>2 DEF Lines
<1>4. UNCHANGED openVars /\ TimeStays BY DEF Char
<1> DEFINE a == [g EXCEPT !.used = @ + 1]
           b == [g EXCEPT !.used = @ + 1, !.ptr = g.buf, !.n = g.size]
           n == g.used + 1
<1>5. /\ a \in Lines /\ a.used = n /\ a.ptr = g.ptr /\ a.live = g.live /\ a.buf = g.buf
      /\ a.size = g.size /\ a.zero = g.zero /\ a.moved = g.moved
  BY <1>2, <1>3 DEF Lines
<1>6. /\ b \in Lines /\ b.used = n /\ b.ptr = g.buf /\ b.n = g.size /\ b.live = g.live
      /\ b.zero = g.zero
  <2>1. n \in Nat BY <1>3
  <2> QED BY <1>2, <1>3, <2>1 DEF Lines
<1> HIDE DEF l, a, b
<1>7. CASE Becomes(s, [task[s] EXCEPT !.line = a])
  <2> DEFINE k == [task[s] EXCEPT !.line = a]
  <2>1. k \in Tasks /\ k.pc = "chars" /\ k.line = a /\ k.function = "getdelim"
    BY <1>0, <1>5 DEF Tasks
  <2> HIDE DEF k
  <2>2. Room(k.line) BY <1>2, <1>5, <2>1 DEF Room, Other
  <2>3. Becomes(s, k) BY <1>7 DEF k
  <2> QED BY <1>0, <1>4, <2>1, <2>2, <2>3, LineStepping
<1>8. CASE Becomes(s, [task[s] EXCEPT !.pc = "done", !.result = n, !.line = b])
  <2> DEFINE k == [task[s] EXCEPT !.pc = "done", !.result = n, !.line = b]
  <2>0. n \in Int BY <1>3
  <2> HIDE DEF n
  <2>1. k \in Tasks /\ k.pc = "done" /\ k.line = b /\ k.function = "getdelim"
    BY <1>0, <1>6, <2>0 DEF Tasks
  <2> HIDE DEF k
  <2>2. b.used < b.n /\ b.ptr \in b.live /\ b.live \subseteq {b.ptr} \cup Other(b)
    BY <1>2, <1>6 DEF Other, n
  <2>3. Becomes(s, k) BY <1>8 DEF k
  <2> QED BY <1>0, <1>4, <2>1, <2>2, <2>3, LineStepping
<1> QED BY Zenon, <1>1, <1>7, <1>8 DEF a, b

LEMMA EndOfFileKeeps ==
  ASSUME Inv, NEW s \in Threads, EndOfFile(s)
  PROVE  Inv'
PROOF
<1> DEFINE l == task[s].line
<1>0. /\ task[s] \in Tasks /\ l \in Lines /\ task[s].function = "getdelim"
      /\ task[s].pc = "chars" /\ Room(l) /\ l.used \in Nat
  BY Reads DEF Inv, Works, Buffered, EndOfFile, Doing, Tasks, Lines, Room, Other
<1>1. UNCHANGED openVars /\ TimeStays BY DEF EndOfFile
<1> DEFINE n == IF l.used = 0 THEN -1 ELSE l.used
           m == [l EXCEPT !.ptr = l.buf, !.n = l.size]
           k == [task[s] EXCEPT !.pc = "done", !.result = n, !.line = m]
<1>2. Becomes(s, k) BY Zenon DEF EndOfFile
<1>3. n \in Int BY <1>0
<1> HIDE DEF l
<1>4. /\ m \in Lines /\ m.ptr = l.buf /\ m.n = l.size /\ m.used = l.used /\ m.live = l.live
      /\ m.zero = l.zero
  BY <1>0 DEF Lines
<1> HIDE DEF m, n
<1>5. k \in Tasks /\ k.pc = "done" /\ k.line = m /\ k.function = "getdelim"
  BY <1>0, <1>3, <1>4 DEF Tasks
<1> HIDE DEF k
<1>6. m.used < m.n /\ m.ptr \in m.live /\ m.live \subseteq {m.ptr} \cup Other(m)
  BY <1>0, <1>4 DEF Room, Other
<1> QED BY <1>0, <1>1, <1>2, <1>5, <1>6, LineStepping

-----------------------------------------------------------------------------
(* The caller closes what it was given.                                    *)
LEMMA GoesOnKeeps ==
  ASSUME Inv, NEW s \in Threads, GoesOn(s)
  PROVE  Inv'
PROOF
<1>0. /\ At(s, "idle") /\ task \in [Threads -> Tasks] /\ s # None
      /\ owner \in [Fds -> Threads \cup {None}] /\ calls \in [Threads -> 0..MaxCalls]
      /\ UNCHANGED <<call, allocated, calls, foreign, program, file, clock>>
  BY InNoStream, OpenAssumption DEF Inv, CompatTypeOK, OpenTypeOK, GoesOn, TimeStays
<1>1. owner' = [d \in Fds |-> IF d \in task[s].fd /\ owner[d] = s THEN None ELSE owner[d]]
  BY DEF GoesOn
<1>2. owner' \in [Fds -> Threads \cup {None}] /\ OwnersOf(s) BY <1>0, <1>1 DEF OwnersOf
<1>3. OnlyFunopenClosesForeign' BY <1>0 DEF Inv, OnlyFunopenClosesForeign
<1>4. PICK i \in Tasks : i = NoTask /\ i.pc = "idle" BY NoTaskType
<1>5. Becomes(s, i) BY <1>4 DEF GoesOn
<1>6. task'[s] = i BY <1>0, <1>5 DEF Becomes
<1>7. Works(s)'
  BY <1>4, <1>6 DEF Works, Descriptor, Timed, AsAsked, Buffered, SoundLine, Doing
<1> QED BY <1>0, <1>2, <1>3, <1>5, <1>7, TaskStepping

(* Another process at the file, and the clock.                             *)
LEMMA TouchKeeps ==
  ASSUME Inv, Touch
  PROVE  Inv'
PROOF
<1>0. /\ task \in [Threads -> Tasks] /\ clock \in Nat /\ file \in Stamps
      /\ UNCHANGED <<owner, foreign, call, allocated, calls, program, clock>>
  BY CompatAssumption DEF Inv, CompatTypeOK, Touch, openVars
<1>1. /\ task' \in [Threads -> Tasks]
      /\ \A u \in Threads : task'[u] = [task[u] EXCEPT !.alone = FALSE]
  <2>1. \A u \in Threads : [task[u] EXCEPT !.alone = FALSE] \in Tasks BY ZenonT(60), <1>0 DEF Tasks
  <2>2. task' = [u \in Threads |-> [task[u] EXCEPT !.alone = FALSE]] BY DEF Touch
  <2> QED BY <2>1, <2>2
<1>2. file' \in Stamps
  <2>1. PICK f \in Fields : file' = [file EXCEPT ![f] = <<clock, 1>>] BY DEF Touch
  <2> QED BY <1>0, <2>1 DEF Stamps
<1>3. CompatTypeOK' BY <1>0, <1>1, <1>2 DEF Inv, CompatTypeOK, OpenTypeOK
<1>4. \A s \in Threads : OwnersOf(s) /\ OnlyFunopenClosesForeign' BY <1>0, OwnersStay
<1>5. \A t \in Threads : Waits(t) /\ Timed(t)' /\ AsAsked(t)'
  BY <1>0, <1>1, DisturbedTimes DEF Waits
<1>6. ASSUME NEW s \in Threads PROVE Streams(s)' /\ Works(s)'
  <2>1. /\ task[s] \in Tasks /\ task'[s].pc = task[s].pc /\ task'[s].function = task[s].function
        /\ task'[s].fd = task[s].fd /\ task'[s].result = task[s].result
        /\ task'[s].line = task[s].line
    BY <1>0, <1>1 DEF Tasks
  <2>2. Buffered(s)' /\ SoundLine(s)' BY <2>1, LineKeeps
  <2>3. Descriptor(s)' BY <1>0, <2>1 DEF Inv, Works, Descriptor
  <2>4. Streams(s)'
    BY <1>0, <2>1 DEF Inv, Streams, Shape, Held, Closed, Apart, Mine, Gone
  <2> QED BY <1>5, <2>2, <2>3, <2>4 DEF Works
<1>7. OnlyFunopenClosesForeign' BY <1>0 DEF Inv, OnlyFunopenClosesForeign
<1> QED BY <1>3, <1>6, <1>7 DEF Inv

LEMMA TickKeeps ==
  ASSUME Inv, Tick
  PROVE  Inv'
PROOF
<1>0. /\ clock \in 0..MaxClock /\ MaxClock \in Nat /\ clock' = clock + 1 /\ clock < MaxClock
      /\ UNCHANGED <<owner, foreign, call, allocated, calls, program, task, file>>
  BY CompatAssumption DEF Inv, CompatTypeOK, Tick, openVars
<1>1. CompatTypeOK' BY <1>0 DEF Inv, CompatTypeOK, OpenTypeOK
<1>2. clock' \in Nat /\ clock <= clock' BY <1>0
<1>3. \A t \in Threads : Timed(t)' /\ AsAsked(t)' BY <1>0, <1>2, TimesKeep
<1>4. ASSUME NEW t \in Threads PROVE Streams(t)' /\ Works(t)'
  <2>1. Buffered(t)' /\ SoundLine(t)' BY <1>0, LineKeeps
  <2>2. Descriptor(t)' BY <1>0 DEF Inv, Works, Descriptor
  <2>3. Streams(t)' BY <1>0 DEF Inv, Streams, Shape, Held, Closed, Apart, Mine, Gone
  <2> QED BY <1>3, <2>1, <2>2, <2>3 DEF Works
<1>5. OnlyFunopenClosesForeign' BY <1>0 DEF Inv, OnlyFunopenClosesForeign
<1> QED BY <1>1, <1>4, <1>5 DEF Inv

-----------------------------------------------------------------------------
LEMMA InitInv == CompatInit => Inv
PROOF
<1> SUFFICES ASSUME CompatInit PROVE Inv
  OBVIOUS
<1>1. Idle \in Calls BY DEF Idle, Calls, OpenPCs, StreamFunctions
<1>2. OpenTypeOK
  BY <1>1, OpenAssumption DEF CompatInit, OpenInit, OpenTypeOK, Calls
<1>3. CompatTypeOK
  <2>1. task \in [Threads -> Tasks] BY NoTaskType DEF CompatInit
  <2>2. file \in Stamps
    <3>1. file = [f \in Fields |-> file[f]] /\ file["atime"] = <<0, 1>> /\ file["mtime"] = <<1, 1>>
      BY DEF CompatInit, Fields
    <3> QED BY <3>1 DEF Stamps, Fields
  <2> QED BY <1>2, <2>1, <2>2, CompatAssumption DEF CompatTypeOK, CompatInit
<1>4. ASSUME NEW t \in Threads PROVE Streams(t) /\ Works(t)
  <2>1. /\ call[t].pc = "idle" /\ call[t].file = None /\ call[t].function = "funopen"
        /\ \A e \in Ends : call[t].fd[e] = None
        /\ allocated[t] = 0 /\ task[t].pc = "idle"
    BY NoTaskType DEF CompatInit, OpenInit, Idle
  <2>2. "app" \in Ends /\ "proxy" \in Ends BY DEF Ends
  <2>3. Streams(t) BY <2>1, <2>2 DEF Streams, Shape, Held, Closed, Apart, MemoryPCs
  <2>4. Works(t) BY <2>1 DEF Works, Descriptor, Timed, AsAsked, Buffered, SoundLine, Doing
  <2> QED BY <2>3, <2>4
<1> QED BY <1>3, <1>4 DEF Inv, OnlyFunopenClosesForeign, CompatInit, OpenInit

LEMMA NextInv == Inv /\ [CompatNext]_compatVars => Inv'
PROOF
<1> SUFFICES ASSUME Inv, [CompatNext]_compatVars PROVE Inv'
  OBVIOUS
<1>1. ASSUME NEW s \in Threads, CookieStep(s) PROVE Inv'
  BY <1>1, CookieStepKeeps
<1>2. ASSUME NEW s \in Threads, DescriptorStep(s) PROVE Inv'
  BY <1>2, OpenDescriptorKeeps, OpenedKeeps, FormatsKeep, CloseFirstKeeps DEF DescriptorStep
<1>3. ASSUME NEW s \in Threads, TimesStep(s) PROVE Inv'
  BY <1>3, SetTimesKeeps, StatKeeps, TimesFailKeeps, IsLinkKeeps, UtimesKeeps DEF TimesStep
<1>4. ASSUME NEW s \in Threads, LineStep(s) PROVE Inv'
  BY <1>4, ReadLineKeeps, BufferKeeps, NoMemoryKeeps, CharKeeps, EndOfFileKeeps DEF LineStep
<1>5. ASSUME NEW s \in Threads, GoesOn(s) PROVE Inv'
  BY <1>5, GoesOnKeeps
<1>6. CASE Touch \/ Tick BY <1>6, TouchKeeps, TickKeeps
<1>7. CASE UNCHANGED compatVars
  <2>1. UNCHANGED <<owner, call, allocated, calls, foreign, program, task, file, clock>>
    BY <1>7 DEF compatVars, openVars
  <2>2. CompatTypeOK' /\ OnlyFunopenClosesForeign'
    BY <2>1 DEF Inv, CompatTypeOK, OpenTypeOK, OnlyFunopenClosesForeign
  <2>3. ASSUME NEW t \in Threads PROVE Streams(t)' /\ Works(t)'
    <3>1. Streams(t)' BY <2>1 DEF Inv, Streams, Shape, Held, Closed, Apart, Mine, Gone
    <3>2. clock' \in Nat /\ clock <= clock' BY <2>1, CompatAssumption DEF Inv, CompatTypeOK
    <3>3. Timed(t)' /\ AsAsked(t)' BY <2>1, <3>2, TimesKeep
    <3>4. Buffered(t)' /\ SoundLine(t)' BY <2>1, LineKeeps
    <3>5. Descriptor(t)' BY <2>1 DEF Inv, Works, Descriptor
    <3> QED BY <3>1, <3>3, <3>4, <3>5 DEF Works
  <2> QED BY <2>2, <2>3 DEF Inv
<1> QED BY <1>1, <1>2, <1>3, <1>4, <1>5, <1>6, <1>7 DEF CompatNext

(* What threads hold, the file's times and the lines, for ever.            *)
THEOREM CallsInductive == CompatSpec => []Inv
BY InitInv, NextInv, PTL DEF CompatSpec

(* Every variable has its type.                                            *)
THEOREM CallsTypeCorrect == CompatSpec => []CompatTypeOK
PROOF
<1>1. Inv => CompatTypeOK BY DEF Inv
<1> QED BY <1>1, CallsInductive, PTL

(* Neither funopen(), fopencookie() and open_memstream() when they fail,   *)
(* nor dprintf(), nor openpty() without a terminal leave anything behind.  *)
THEOREM LeakFree == CompatSpec => []NothingIsLeaked
PROOF
<1>1. ASSUME Inv PROVE NothingIsLeaked
  <2>1. NothingLeaked
    <3> SUFFICES ASSUME NEW t \in Threads, At(t, "failed")
                 PROVE  /\ \A d \in {call[t].fd["app"], call[t].fd["proxy"], call[t].file} \ {None} :
                             owner[d] # t
                        /\ allocated[t] = 0
      BY DEF NothingLeaked
    <3>1. Shape(t) /\ Closed(t) BY <1>1 DEF Inv, Streams
    <3> QED BY <3>1 DEF Shape, Closed, Gone, At
  <2>2. ASSUME NEW t \in Threads,
               Doing(t, "dprintf", "done") \/ (Doing(t, "openpty", "done") /\ task[t].result = -1)
        PROVE  \A d \in task[t].fd : owner[d] # t
    BY <1>1, <2>2 DEF Inv, Works, Descriptor, Doing
  <2> QED BY <2>1, <2>2 DEF NothingIsLeaked
<1> QED BY <1>1, CallsInductive, PTL

(* Only funopen() closes a descriptor that another thread has opened.      *)
THEOREM ForeignDescriptors == CompatSpec => []OnlyFunopenClosesForeign
PROOF
<1>1. Inv => OnlyFunopenClosesForeign BY DEF Inv
<1> QED BY <1>1, CallsInductive, PTL

(* A call that nobody disturbs leaves the times it was asked for, a time   *)
(* left out by futimens() at its second and without its fraction, and one  *)
(* that utimensat() was to leave out at a time nobody asked for.           *)
THEOREM TimesSet == CompatSpec => []TimesAsAsked
PROOF
<1>1. ASSUME Inv PROVE TimesAsAsked
  <2>1. \A t \in Threads : AsAsked(t) BY <1>1 DEF Inv, Works
  <2> QED BY <2>1 DEF AsAsked, AskedFor, TimesAsAsked
<1> QED BY <1>1, CallsInductive, PTL

(* getdelim() returns lines that end inside their block.                   *)
THEOREM LinesSound == CompatSpec => []LinesAreSound
PROOF
<1>1. ASSUME Inv PROVE LinesAreSound
  <2>1. \A t \in Threads : SoundLine(t) BY <1>1 DEF Inv, Works
  <2> QED BY <2>1 DEF SoundLine, LinesAreSound
<1> QED BY <1>1, CallsInductive, PTL
=============================================================================
