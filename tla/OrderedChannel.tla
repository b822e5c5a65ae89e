--------------------------- MODULE OrderedChannel ---------------------------
(***************************************************************************)
(* What a caller of funopen() or fopencookie() is promised: the bytes put  *)
(* in on one side come out on the other side, in order, each once, and the *)
(* callbacks stop for good once the stream has ended.  No thread, no pipe  *)
(* and no buffer appear here.                                              *)
(***************************************************************************)
EXTENDS Naturals, Sequences

CONSTANTS
  Data,          \* the bytes
  MaxBytes       \* bound: how many bytes enter the channel

VARIABLES
  callbackSends, \* TRUE: the callback is the source (a stream opened to read)
  sent,          \* the bytes that entered
  delivered,     \* the bytes that came out
  ended          \* the callback will not be called any more

vars == <<callbackSends, sent, delivered, ended>>

Init ==
  /\ callbackSends \in BOOLEAN
  /\ sent = << >>
  /\ delivered = << >>
  /\ ended = FALSE

(* One call puts a non-empty block of bytes in.                            *)
Send ==
  /\ callbackSends => ~ended
  /\ \E n \in 1..MaxBytes : \E block \in [1..n -> Data] : sent' = sent \o block
  /\ UNCHANGED <<callbackSends, delivered, ended>>

(* The next bytes come out: they extend what came out before.              *)
Deliver ==
  /\ ~callbackSends => ~ended
  /\ \E n \in (Len(delivered) + 1)..Len(sent) : delivered' = SubSeq(sent, 1, n)
  /\ UNCHANGED <<callbackSends, sent, ended>>

End ==
  /\ ended' = TRUE
  /\ UNCHANGED <<callbackSends, sent, delivered>>

Next == Send \/ Deliver \/ End

Spec == Init /\ [][Next]_vars

=============================================================================
