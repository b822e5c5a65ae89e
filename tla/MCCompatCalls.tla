---------------------------- MODULE MCCompatCalls ----------------------------
EXTENDS CompatCalls, TLC

(* Threads and descriptors are alike.                                      *)
Alike == Permutations(Threads) \cup Permutations(Fds)

(* All threads work with descriptors, or one sets times, or one reads.     *)
MCPrograms ==
  {[t \in Threads |-> {"streams", "descriptors"}]}
    \cup {[t \in Threads |-> IF t = u THEN {kind} ELSE {}] :
            u \in Threads, kind \in {"times", "lines"}}
=============================================================================
