---------------------------- MODULE MCSocketPair ----------------------------
(* Three threads of one process, and one of another.                       *)
EXTENDS SocketPair, TLC

CONSTANTS t1, t2, t3, t4, p1, p2

MCProcess == (t1 :> p1) @@ (t2 :> p1) @@ (t3 :> p1) @@ (t4 :> p2)
=============================================================================
