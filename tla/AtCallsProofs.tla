--------------------------- MODULE AtCallsProofs ---------------------------
(***************************************************************************)
(* Proofs about AtCalls, for every set of threads and of directories.      *)
(*                                                                         *)
(* Local(c) ties the fields of one call to its place in the code: when     *)
(* saved_cwd is open, what may still be allocated, and which arguments     *)
(* lead there.  Solo(c) is about a call that no other call has overlapped: *)
(* nobody else is inside one of these functions, so the working directory  *)
(* is where the call itself has put it.                                    *)
(***************************************************************************)
EXTENDS AtCalls, TLAPS

Opened  == Points \ {"idle", "returned", "direct", "peekSave", "save"}
PeekAt  == {"peekSave", "peekChdir", "peek", "peekBack"}
OldAt   == {"chdirOld", "getcwdOld", "backOld"}
NewAt   == {"chdirNew", "getcwdNew", "backNew"}
HomeAt  == {"direct", "peekSave", "save", "peekChdir", "chdir", "chdirOld", "chdirNew"}
EmptyAt == {"idle", "returned", "direct", "save", "chdirOld", "restore"} \cup PeekAt
Ended   == {"restore", "returned"}

Two(c) == call[c].kind = "two"

(* What the call was asked to do.                                          *)
Asked(c) == [old |-> Lookup(call[c].base, entry[c]),
             new |-> Lookup(call[c].base2, entry[c])]

(* The arguments that lead to each place, and what is held there.          *)
Held(c) ==
  /\ ~Two(c) => call[c].base2 = Abs
  /\ saved[c] # None <=> pc[c] \in Opened
  /\ pc[c] \in PeekAt => call[c].kind = "utime" /\ ~Plain(call[c].base)
  /\ pc[c] \in OldAt => Two(c) /\ ~Plain(call[c].base)
  /\ pc[c] \in NewAt => Two(c) /\ ~Plain(call[c].base2)
  /\ pc[c] = "save" => ~(Plain(call[c].base) /\ (Two(c) => Plain(call[c].base2)))
  /\ pc[c] = "chdir" => ~Two(c)
  /\ pc[c] \in {"chdir", "op"} => (~Two(c) => ~Plain(call[c].base))
  /\ pc[c] \in EmptyAt => full[c] = Nowhere

(* What the call has to show for itself so far.                            *)
Shown(c) ==
  /\ pc[c] \notin Ended => ret[c] = "none" /\ did[c] = Nowhere /\ ~resultFd[c]
  /\ resultFd[c] => call[c].kind = "open" /\ ret[c] = "ok"
  /\ pc[c] \in {"idle", "direct"} => ~lost[c]
  /\ call[c].kind = "open" /\ lost[c] => pc[c] = "returned" /\ ret[c] = "fail"

Local(c) == Held(c) /\ Shown(c)

Solo(c) == entry[c] # None =>
  /\ pc[c] \notin Outside => \A x \in Callers \ {c} : pc[x] \in Outside
  /\ pc[c] \in HomeAt /\ ~lost[c] => cwd = entry[c]
  /\ pc[c] = "op" /\ Two(c) /\ ~lost[c] => cwd = entry[c]
  /\ pc[c] \in Opened /\ ~lost[c] => saved[c] = entry[c]
  /\ pc[c] = "op" /\ ~Two(c) => cwd = call[c].base
  /\ pc[c] = "getcwdOld" => cwd = call[c].base
  /\ pc[c] = "getcwdNew" => cwd = call[c].base2
  /\ pc[c] \in {"backOld", "op"} \cup NewAt /\ Two(c) /\ ~Plain(call[c].base)
       => full[c].old = call[c].base
  /\ pc[c] \in {"backNew", "op"} /\ Two(c) /\ ~Plain(call[c].base2)
       => full[c].new = call[c].base2
  /\ did[c] # Nowhere /\ (Two(c) => ~lost[c]) => did[c] = Asked(c)

Inv ==
  /\ TypeOK
  /\ \A c \in Callers : Local(c)
  /\ \A c \in Callers : Solo(c)

PlaceTypes ==
  /\ cwd \in Dirs
  /\ pc \in [Callers -> Points]
  /\ call \in [Callers -> Calls]
  /\ saved \in [Callers -> Dirs \cup {None}]
  /\ full \in [Callers -> Pairs]

ResultTypes ==
  /\ did \in [Callers -> Pairs]
  /\ ret \in [Callers -> {"none", "ok", "fail"}]
  /\ resultFd \in [Callers -> BOOLEAN]
  /\ entry \in [Callers -> Dirs \cup {None}]
  /\ lost \in [Callers -> BOOLEAN]

-----------------------------------------------------------------------------
(* No call is under way at first.                                          *)
LEMMA InitInv == Init => Inv
BY DirAssumption
DEF Init, Inv, TypeOK, Local, Held, Shown, Solo, Two, NoCall, Calls, Kinds, Bases, Pairs, Nowhere,
    Points, Outside, Opened, PeekAt, OldAt, NewAt, HomeAt, EmptyAt, Ended, Plain

(* A step of one caller leaves the calls of the others alone; only the     *)
(* history of who was overlapped may change.                               *)
LEMMA Frame ==
  ASSUME TypeOK, NEW c \in Callers, Step(c), NEW x \in Callers, x # c
  PROVE  /\ pc'[x] = pc[x] /\ call'[x] = call[x] /\ saved'[x] = saved[x]
         /\ full'[x] = full[x] /\ did'[x] = did[x] /\ ret'[x] = ret[x]
         /\ resultFd'[x] = resultFd[x] /\ lost'[x] = lost[x]
         /\ entry'[x] \in {entry[x], None}
PROOF
<1> USE DEF TypeOK, Goto, Return, results, args
<1>1. CASE Begin(c) BY <1>1 DEF Begin
<1>2. CASE Direct(c) \/ Finish(c) BY <1>2 DEF Direct, Finish
<1>3. CASE PeekSave(c) \/ PeekChdir(c) \/ PeekNoLink(c)
  BY <1>3 DEF PeekSave, PeekChdir, PeekNoLink
<1>4. CASE PeekLink(c) \/ PeekBack(c) BY <1>4 DEF PeekLink, PeekBack, ChdirBack
<1>5. CASE Save(c) \/ Chdir(c) BY <1>5 DEF Save, Chdir, GiveUp
<1>6. CASE ChdirOld(c) \/ ChdirNew(c) BY <1>6 DEF ChdirOld, ChdirNew, ChdirFor, GiveUp
<1>7. CASE GetcwdFails(c) BY <1>7 DEF GetcwdFails, ChdirBack, GiveUp
<1>8. CASE GetcwdOld(c) \/ GetcwdNew(c) BY <1>8 DEF GetcwdOld, GetcwdNew
<1>9. CASE Back(c) BY <1>9 DEF Back, ChdirBack
<1>10. CASE Operate(c) \/ Restore(c) BY <1>10 DEF Operate, Restore
<1> QED BY <1>1, <1>2, <1>3, <1>4, <1>5, <1>6, <1>7, <1>8, <1>9, <1>10 DEF Step

(* Nor does it touch the working directory when it is outside: only a call *)
(* that begins, which marks every call inside as overlapped, or the end of *)
(* one, is possible there.                                                 *)
LEMMA OutsideStep ==
  ASSUME TypeOK, NEW c \in Callers, Step(c), pc[c] \in Outside
  PROVE  /\ cwd' = cwd
         /\ \/ pc'[c] \in Outside
            \/ \A x \in Callers \ {c} : pc[x] \notin Outside => entry'[x] = None
BY DEF TypeOK, Step, Outside, Goto, Begin, Direct, Finish, PeekSave, PeekChdir, PeekLink,
       PeekNoLink, PeekBack, Save, Chdir, ChdirOld, ChdirNew, ChdirFor, GetcwdFails,
       GetcwdOld, GetcwdNew, Back, Operate, Restore

-----------------------------------------------------------------------------
(* One action at a time: the types, and the two halves of the invariant    *)
(* for the caller that takes the step.                                     *)
LEMMA BeginKeeps ==
  ASSUME Inv, NEW c \in Callers, Begin(c)
  PROVE  TypeOK' /\ Local(c)' /\ Solo(c)'
PROOF
<1> USE DirAssumption DEF Begin, Entered, Others, Goto, Return, results, args
<1>0. TypeOK /\ Held(c) /\ Shown(c) /\ Solo(c) BY DEF Inv, Local
<1>1. PlaceTypes'
  BY <1>0 DEF TypeOK, PlaceTypes, Held, Calls, Kinds, Bases, Pairs, Nowhere, Points,
              Opened, PeekAt, OldAt, NewAt, Plain, Two
<1>2. ResultTypes'
  BY <1>0 DEF TypeOK, ResultTypes, Calls, Bases, Pairs, Lookup
<1>3. Held(c)'
  BY <1>0 DEF TypeOK, Held, Calls, Kinds, Bases, Pairs, Nowhere, Points, Outside, Opened,
              PeekAt, OldAt, NewAt, EmptyAt, Plain, Two
<1>4. Shown(c)'
  BY <1>0 DEF TypeOK, Shown, Calls, Kinds, Bases, Pairs, Nowhere, Points, Outside, Ended
<1>5. Solo(c)'
  <2> SUFFICES ASSUME entry'[c] # None PROVE Solo(c)'
    BY DEF Solo
  <2>1. entry'[c] = cwd /\ cwd' = cwd /\ Others(c) \subseteq Outside
    BY <1>0 DEF TypeOK
  <2>2. pc'[c] \in {"direct", "peekSave", "save"} /\ did'[c] = Nowhere
    BY <1>0 DEF TypeOK, Shown, Ended
  <2>3. \A x \in Callers \ {c} : pc'[x] \in Outside
    BY <1>0, <2>1 DEF TypeOK
  <2> QED BY <2>1, <2>2, <2>3 DEF Solo, Opened, NewAt
<1> QED BY ONLY <1>1, <1>2, <1>3, <1>4, <1>5 DEF TypeOK, PlaceTypes, ResultTypes, Local

(* A call whose paths need no detour does its operation at once.           *)
LEMMA DirectKeeps ==
  ASSUME Inv, NEW c \in Callers, Direct(c)
  PROVE  TypeOK' /\ Local(c)' /\ Solo(c)'
PROOF
<1> USE DirAssumption DEF Direct, Goto, Return, results, args
<1>0. TypeOK /\ Held(c) /\ Shown(c) /\ Solo(c) BY DEF Inv, Local
<1>1. PlaceTypes'
  BY <1>0 DEF TypeOK, PlaceTypes, Held, Calls, Kinds, Bases, Pairs, Nowhere, Points,
              Opened, PeekAt, OldAt, NewAt, Plain, Two
<1>2. ResultTypes'
  <2>1. [old |-> Lookup(call[c].base, cwd), new |-> Lookup(call[c].base2, cwd)] \in Pairs
    BY <1>0 DEF TypeOK, Calls, Bases, Pairs, Lookup
  <2>2. did' = did \/ did' = [did EXCEPT ![c] = [old |-> Lookup(call[c].base, cwd),
                                  new |-> Lookup(call[c].base2, cwd)]]
    OBVIOUS
  <2>3. did' \in [Callers -> Pairs] BY <1>0, <2>1, <2>2 DEF TypeOK
  <2> QED BY <1>0, <2>3 DEF TypeOK, ResultTypes
<1>3. Held(c)'
  BY <1>0 DEF TypeOK, Held, Calls, Kinds, Bases, Pairs, Nowhere, Points, Outside, Opened,
              PeekAt, OldAt, NewAt, EmptyAt, Plain, Two
<1>4. Shown(c)'
  BY <1>0 DEF TypeOK, Shown, Calls, Kinds, Bases, Pairs, Nowhere, Points, Outside, Ended
<1>5. Solo(c)'
  BY <1>0 DEF TypeOK, Held, Shown, Solo, Calls, Kinds, Bases, Pairs, Nowhere, Points, Outside,
              Opened, PeekAt, OldAt, NewAt, HomeAt, EmptyAt, Ended, Plain, Lookup, Asked, Two
<1> QED BY ONLY <1>1, <1>2, <1>3, <1>4, <1>5 DEF TypeOK, PlaceTypes, ResultTypes, Local

(* The caller has looked at what it got.                                   *)
LEMMA FinishKeeps ==
  ASSUME Inv, NEW c \in Callers, Finish(c)
  PROVE  TypeOK' /\ Local(c)' /\ Solo(c)'
PROOF
<1> USE DirAssumption DEF Finish, NoCall, Goto, Return, results, args
<1>0. TypeOK /\ Held(c) /\ Shown(c) /\ Solo(c) BY DEF Inv, Local
<1>1. PlaceTypes'
  BY <1>0 DEF TypeOK, PlaceTypes, Held, Calls, Kinds, Bases, Pairs, Nowhere, Points,
              Opened, PeekAt, OldAt, NewAt, Plain, Two
<1>2. ResultTypes'
  BY <1>0 DEF TypeOK, ResultTypes, Bases, Pairs, Nowhere
<1>3. Held(c)'
  BY <1>0 DEF TypeOK, Held, Calls, Kinds, Bases, Pairs, Nowhere, Points, Outside, Opened,
              PeekAt, OldAt, NewAt, EmptyAt, Plain, Two
<1>4. Shown(c)'
  BY <1>0 DEF TypeOK, Shown, Calls, Kinds, Bases, Pairs, Nowhere, Points, Outside, Ended
<1>5. Solo(c)'
  BY <1>0 DEF TypeOK, Held, Shown, Solo, Calls, Kinds, Bases, Pairs, Nowhere, Points, Outside,
              Opened, PeekAt, OldAt, NewAt, HomeAt, EmptyAt, Ended, Plain, Lookup, Asked, Two
<1> QED BY ONLY <1>1, <1>2, <1>3, <1>4, <1>5 DEF TypeOK, PlaceTypes, ResultTypes, Local

(* utimensat saves the directory to look at a symbolic link.               *)
LEMMA PeekSaveKeeps ==
  ASSUME Inv, NEW c \in Callers, PeekSave(c)
  PROVE  TypeOK' /\ Local(c)' /\ Solo(c)'
PROOF
<1> USE DirAssumption DEF PeekSave, Goto, Return, results, args
<1>0. TypeOK /\ Held(c) /\ Shown(c) /\ Solo(c) BY DEF Inv, Local
<1>1. PlaceTypes'
  <2>1. saved' \in [Callers -> Dirs \cup {None}]
    <3>1. \E d \in Dirs \cup {None} : saved' = saved \/ saved' = [saved EXCEPT ![c] = d]
      BY <1>0 DEF TypeOK
    <3> QED BY <1>0, <3>1 DEF TypeOK
  <2> QED
    BY <1>0, <2>1 DEF TypeOK, PlaceTypes, Held, Calls, Kinds, Bases, Pairs, Nowhere,
                      Points, Opened, PeekAt, OldAt, NewAt, Plain, Two
<1>2. ResultTypes'
  BY <1>0 DEF TypeOK, ResultTypes, Calls, Bases, Pairs, Lookup
<1>3. Held(c)'
  BY <1>0 DEF TypeOK, Held, Calls, Kinds, Bases, Pairs, Nowhere, Points, Outside, Opened,
              PeekAt, OldAt, NewAt, EmptyAt, Plain, Two
<1>4. Shown(c)'
  BY <1>0 DEF TypeOK, Shown, Calls, Kinds, Bases, Pairs, Nowhere, Points, Outside, Ended
<1>5. Solo(c)'
  BY <1>0 DEF TypeOK, Held, Shown, Solo, Calls, Kinds, Bases, Pairs, Nowhere, Points, Outside,
              Opened, PeekAt, OldAt, NewAt, HomeAt, EmptyAt, Ended, Plain, Lookup, Asked, Two
<1> QED BY ONLY <1>1, <1>2, <1>3, <1>4, <1>5 DEF TypeOK, PlaceTypes, ResultTypes, Local

(* It changes to the directory of the link.                                *)
LEMMA PeekChdirKeeps ==
  ASSUME Inv, NEW c \in Callers, PeekChdir(c)
  PROVE  TypeOK' /\ Local(c)' /\ Solo(c)'
PROOF
<1> USE DirAssumption DEF PeekChdir, Goto, Return, results, args
<1>0. TypeOK /\ Held(c) /\ Shown(c) /\ Solo(c) BY DEF Inv, Local
<1>1. PlaceTypes'
  BY ZenonT(60), <1>0 DEF TypeOK, PlaceTypes, Held, Calls, Kinds, Bases, Pairs, Nowhere, Points,
              Opened, PeekAt, OldAt, NewAt, Plain, Two
<1>2. ResultTypes'
  BY <1>0 DEF TypeOK, ResultTypes, Calls, Bases, Pairs, Lookup
<1>3. Held(c)'
  BY <1>0 DEF TypeOK, Held, Calls, Kinds, Bases, Pairs, Nowhere, Points, Outside, Opened,
              PeekAt, OldAt, NewAt, EmptyAt, Plain, Two
<1>4. Shown(c)'
  BY <1>0 DEF TypeOK, Shown, Calls, Kinds, Bases, Pairs, Nowhere, Points, Outside, Ended
<1>5. Solo(c)'
  BY <1>0 DEF TypeOK, Held, Shown, Solo, Calls, Kinds, Bases, Pairs, Nowhere, Points, Outside,
              Opened, PeekAt, OldAt, NewAt, HomeAt, EmptyAt, Ended, Plain, Lookup, Asked, Two
<1> QED BY ONLY <1>1, <1>2, <1>3, <1>4, <1>5 DEF TypeOK, PlaceTypes, ResultTypes, Local

(* What it finds there is a link.                                          *)
LEMMA PeekLinkKeeps ==
  ASSUME Inv, NEW c \in Callers, PeekLink(c)
  PROVE  TypeOK' /\ Local(c)' /\ Solo(c)'
PROOF
<1> USE DirAssumption DEF PeekLink, ChdirBack, Goto, Return, results, args
<1>0. TypeOK /\ Held(c) /\ Shown(c) /\ Solo(c) BY DEF Inv, Local
<1>1. PlaceTypes'
  BY <1>0 DEF TypeOK, PlaceTypes, Held, Calls, Kinds, Bases, Pairs, Nowhere, Points,
              Opened, PeekAt, OldAt, NewAt, Plain, Two
<1>2. ResultTypes'
  BY <1>0 DEF TypeOK, ResultTypes, Calls, Bases, Pairs, Lookup
<1>3. Held(c)'
  BY <1>0 DEF TypeOK, Held, Calls, Kinds, Bases, Pairs, Nowhere, Points, Outside, Opened,
              PeekAt, OldAt, NewAt, EmptyAt, Plain, Two
<1>4. Shown(c)'
  BY <1>0 DEF TypeOK, Held, Shown, Calls, Kinds, Bases, Pairs, Nowhere, Points, Outside,
              PeekAt, OldAt, NewAt, Ended, Two
<1>5. Solo(c)'
  BY <1>0 DEF TypeOK, Held, Shown, Solo, Calls, Kinds, Bases, Pairs, Nowhere, Points, Outside,
              Opened, PeekAt, OldAt, NewAt, HomeAt, EmptyAt, Ended, Plain, Lookup, Asked, Two
<1> QED BY ONLY <1>1, <1>2, <1>3, <1>4, <1>5 DEF TypeOK, PlaceTypes, ResultTypes, Local

(* What it finds there is no link.                                         *)
LEMMA PeekNoLinkKeeps ==
  ASSUME Inv, NEW c \in Callers, PeekNoLink(c)
  PROVE  TypeOK' /\ Local(c)' /\ Solo(c)'
PROOF
<1> USE DirAssumption DEF PeekNoLink, Goto, Return, results, args
<1>0. TypeOK /\ Held(c) /\ Shown(c) /\ Solo(c) BY DEF Inv, Local
<1>1. PlaceTypes'
  BY <1>0 DEF TypeOK, PlaceTypes, Held, Calls, Kinds, Bases, Pairs, Nowhere, Points,
              Opened, PeekAt, OldAt, NewAt, Plain, Two
<1>2. ResultTypes'
  BY <1>0 DEF TypeOK, ResultTypes, Calls, Bases, Pairs, Lookup
<1>3. Held(c)'
  BY <1>0 DEF TypeOK, Held, Calls, Kinds, Bases, Pairs, Nowhere, Points, Outside, Opened,
              PeekAt, OldAt, NewAt, EmptyAt, Plain, Two
<1>4. Shown(c)'
  BY <1>0 DEF TypeOK, Shown, Calls, Kinds, Bases, Pairs, Nowhere, Points, Outside, Ended
<1>5. Solo(c)'
  BY <1>0 DEF TypeOK, Held, Shown, Solo, Calls, Kinds, Bases, Pairs, Nowhere, Points, Outside,
              Opened, PeekAt, OldAt, NewAt, HomeAt, EmptyAt, Ended, Plain, Lookup, Asked, Two
<1> QED BY ONLY <1>1, <1>2, <1>3, <1>4, <1>5 DEF TypeOK, PlaceTypes, ResultTypes, Local

(* It changes back, or cannot, before the operation proper.                *)
LEMMA PeekBackKeeps ==
  ASSUME Inv, NEW c \in Callers, PeekBack(c)
  PROVE  TypeOK' /\ Local(c)' /\ Solo(c)'
PROOF
<1> USE DirAssumption DEF PeekBack, ChdirBack, Goto, Return, results, args
<1>0. TypeOK /\ Held(c) /\ Shown(c) /\ Solo(c) BY DEF Inv, Local
<1>1. PlaceTypes'
  BY <1>0 DEF TypeOK, PlaceTypes, Held, Calls, Kinds, Bases, Pairs, Nowhere, Points,
              Opened, PeekAt, OldAt, NewAt, Plain, Two
<1>2. ResultTypes'
  BY <1>0 DEF TypeOK, ResultTypes, Calls, Bases, Pairs, Lookup
<1>3. Held(c)'
  BY <1>0 DEF TypeOK, Held, Calls, Kinds, Bases, Pairs, Nowhere, Points, Outside, Opened,
              PeekAt, OldAt, NewAt, EmptyAt, Plain, Two
<1>4. Shown(c)'
  BY <1>0 DEF TypeOK, Held, Shown, Calls, Kinds, Bases, Pairs, Nowhere, Points, Outside,
              PeekAt, OldAt, NewAt, Ended, Two
<1>5. Solo(c)'
  BY <1>0 DEF TypeOK, Held, Shown, Solo, Calls, Kinds, Bases, Pairs, Nowhere, Points, Outside,
              Opened, PeekAt, OldAt, NewAt, HomeAt, EmptyAt, Ended, Plain, Lookup, Asked, Two
<1> QED BY ONLY <1>1, <1>2, <1>3, <1>4, <1>5 DEF TypeOK, PlaceTypes, ResultTypes, Local

(* A call saves the working directory.                                     *)
LEMMA SaveKeeps ==
  ASSUME Inv, NEW c \in Callers, Save(c)
  PROVE  TypeOK' /\ Local(c)' /\ Solo(c)'
PROOF
<1> USE DirAssumption DEF Save, GiveUp, FirstPoint, Goto, Return, results, args
<1>0. TypeOK /\ Held(c) /\ Shown(c) /\ Solo(c) BY DEF Inv, Local
<1>1. PlaceTypes'
  <2>1. saved' \in [Callers -> Dirs \cup {None}]
    <3>1. \E d \in Dirs \cup {None} : saved' = saved \/ saved' = [saved EXCEPT ![c] = d]
      BY <1>0 DEF TypeOK
    <3> QED BY <1>0, <3>1 DEF TypeOK
  <2>2. full' \in [Callers -> Pairs]
    <3>1. full' = full \/ full' = [full EXCEPT ![c] = Nowhere]
      BY <1>0 DEF TypeOK
    <3> QED BY SMTT(30), <1>0, <3>1 DEF TypeOK, Pairs, Nowhere, Bases
  <2>3. pc' \in [Callers -> Points]
    <3>1. \/ pc' = [pc EXCEPT ![c] = "chdir"]
          \/ pc' = [pc EXCEPT ![c] = "chdirOld"]
          \/ pc' = [pc EXCEPT ![c] = "chdirNew"]
          \/ pc' = [pc EXCEPT ![c] = "returned"]
      OBVIOUS
    <3> QED BY <1>0, <3>1 DEF TypeOK, Points
  <2> QED BY <1>0, <2>1, <2>2, <2>3 DEF TypeOK, PlaceTypes
<1>2. ResultTypes'
  BY <1>0 DEF TypeOK, ResultTypes, Calls, Bases, Pairs, Lookup
<1>3. Held(c)'
  BY <1>0 DEF TypeOK, Held, Calls, Kinds, Bases, Pairs, Nowhere, Points, Outside, Opened,
              PeekAt, OldAt, NewAt, EmptyAt, Plain, Two
<1>4. Shown(c)'
  BY <1>0 DEF TypeOK, Shown, Calls, Kinds, Bases, Pairs, Nowhere, Points, Outside, Ended
<1>5. Solo(c)'
  BY <1>0 DEF TypeOK, Held, Shown, Solo, Calls, Kinds, Bases, Pairs, Nowhere, Points, Outside,
              Opened, PeekAt, OldAt, NewAt, HomeAt, EmptyAt, Ended, Plain, Lookup, Asked, Two
<1> QED BY ONLY <1>1, <1>2, <1>3, <1>4, <1>5 DEF TypeOK, PlaceTypes, ResultTypes, Local

(* A call with one directory changes to it.                                *)
LEMMA ChdirKeeps ==
  ASSUME Inv, NEW c \in Callers, Chdir(c)
  PROVE  TypeOK' /\ Local(c)' /\ Solo(c)'
PROOF
<1> USE DirAssumption DEF Chdir, GiveUp, Goto, Return, results, args
<1>0. TypeOK /\ Held(c) /\ Shown(c) /\ Solo(c) BY DEF Inv, Local
<1>1. PlaceTypes'
  <2>1. saved' \in [Callers -> Dirs \cup {None}]
    <3>1. \E d \in Dirs \cup {None} : saved' = saved \/ saved' = [saved EXCEPT ![c] = d]
      BY <1>0 DEF TypeOK
    <3> QED BY <1>0, <3>1 DEF TypeOK
  <2>2. full' \in [Callers -> Pairs]
    <3>1. full' = full \/ full' = [full EXCEPT ![c] = Nowhere]
      BY <1>0 DEF TypeOK
    <3> QED BY <1>0, <3>1 DEF TypeOK, Pairs, Nowhere, Bases
  <2>3. cwd' \in Dirs
    BY <1>0 DEF TypeOK, Held, Calls, Bases, Plain
  <2>4. pc' \in [Callers -> Points]
    <3>1. pc' = [pc EXCEPT ![c] = "op"] \/ pc' = [pc EXCEPT ![c] = "returned"]
      OBVIOUS
    <3> QED BY <1>0, <3>1 DEF TypeOK, Points
  <2> QED BY <1>0, <2>1, <2>2, <2>3, <2>4 DEF TypeOK, PlaceTypes
<1>2. ResultTypes'
  BY <1>0 DEF TypeOK, ResultTypes, Calls, Bases, Pairs, Lookup
<1>3. Held(c)'
  BY <1>0 DEF TypeOK, Held, Calls, Kinds, Bases, Pairs, Nowhere, Points, Outside, Opened,
              PeekAt, OldAt, NewAt, EmptyAt, Plain, Two
<1>4. Shown(c)'
  BY <1>0 DEF TypeOK, Shown, Calls, Kinds, Bases, Pairs, Nowhere, Points, Outside, Ended
<1>5. Solo(c)'
  BY <1>0 DEF TypeOK, Held, Shown, Solo, Calls, Kinds, Bases, Pairs, Nowhere, Points, Outside,
              Opened, PeekAt, OldAt, NewAt, HomeAt, EmptyAt, Ended, Plain, Lookup, Asked, Two
<1> QED BY ONLY <1>1, <1>2, <1>3, <1>4, <1>5 DEF TypeOK, PlaceTypes, ResultTypes, Local

(* A call with two directories changes to the first.                       *)
LEMMA ChdirOldKeeps ==
  ASSUME Inv, NEW c \in Callers, ChdirOld(c)
  PROVE  TypeOK' /\ Local(c)' /\ Solo(c)'
PROOF
<1> USE DirAssumption DEF ChdirOld, ChdirFor, GiveUp, Goto, Return, results, args
<1>0. TypeOK /\ Held(c) /\ Shown(c) /\ Solo(c) BY DEF Inv, Local
<1>1. PlaceTypes'
  <2>1. saved' \in [Callers -> Dirs \cup {None}]
    <3>1. \E d \in Dirs \cup {None} : saved' = saved \/ saved' = [saved EXCEPT ![c] = d]
      BY <1>0 DEF TypeOK
    <3> QED BY <1>0, <3>1 DEF TypeOK
  <2>2. full' \in [Callers -> Pairs]
    <3>1. full' = full \/ full' = [full EXCEPT ![c] = Nowhere]
      BY <1>0 DEF TypeOK
    <3> QED BY <1>0, <3>1 DEF TypeOK, Pairs, Nowhere, Bases
  <2>3. cwd' \in Dirs
    BY <1>0 DEF TypeOK, Held, Calls, Bases, Plain, OldAt
  <2>4. pc' \in [Callers -> Points]
    <3>1. pc' = [pc EXCEPT ![c] = "getcwdOld"] \/ pc' = [pc EXCEPT ![c] = "returned"]
      OBVIOUS
    <3> QED BY <1>0, <3>1 DEF TypeOK, Points
  <2> QED BY <1>0, <2>1, <2>2, <2>3, <2>4 DEF TypeOK, PlaceTypes
<1>2. ResultTypes'
  BY <1>0 DEF TypeOK, ResultTypes, Calls, Bases, Pairs, Lookup
<1>3. Held(c)'
  BY <1>0 DEF TypeOK, Held, Calls, Kinds, Bases, Pairs, Nowhere, Points, Outside, Opened,
              PeekAt, OldAt, NewAt, EmptyAt, Plain, Two
<1>4. Shown(c)'
  BY <1>0 DEF TypeOK, Shown, Calls, Kinds, Bases, Pairs, Nowhere, Points, Outside, Ended
<1>5. Solo(c)'
  BY <1>0 DEF TypeOK, Held, Shown, Solo, Calls, Kinds, Bases, Pairs, Nowhere, Points, Outside,
              Opened, PeekAt, OldAt, NewAt, HomeAt, EmptyAt, Ended, Plain, Lookup, Asked, Two
<1> QED BY ONLY <1>1, <1>2, <1>3, <1>4, <1>5 DEF TypeOK, PlaceTypes, ResultTypes, Local

(* And to the second.                                                      *)
LEMMA ChdirNewKeeps ==
  ASSUME Inv, NEW c \in Callers, ChdirNew(c)
  PROVE  TypeOK' /\ Local(c)' /\ Solo(c)'
PROOF
<1> USE DirAssumption DEF ChdirNew, ChdirFor, GiveUp, Goto, Return, results, args
<1>0. TypeOK /\ Held(c) /\ Shown(c) /\ Solo(c) BY DEF Inv, Local
<1>1. PlaceTypes'
  <2>1. saved' \in [Callers -> Dirs \cup {None}]
    <3>1. \E d \in Dirs \cup {None} : saved' = saved \/ saved' = [saved EXCEPT ![c] = d]
      BY <1>0 DEF TypeOK
    <3> QED BY <1>0, <3>1 DEF TypeOK
  <2>2. full' \in [Callers -> Pairs]
    <3>1. full' = full \/ full' = [full EXCEPT ![c] = Nowhere]
      BY <1>0 DEF TypeOK
    <3> QED BY <1>0, <3>1 DEF TypeOK, Pairs, Nowhere, Bases
  <2>3. cwd' \in Dirs
    BY <1>0 DEF TypeOK, Held, Calls, Bases, Plain, NewAt
  <2>4. pc' \in [Callers -> Points]
    <3>1. pc' = [pc EXCEPT ![c] = "getcwdNew"] \/ pc' = [pc EXCEPT ![c] = "returned"]
      OBVIOUS
    <3> QED BY <1>0, <3>1 DEF TypeOK, Points
  <2> QED BY <1>0, <2>1, <2>2, <2>3, <2>4 DEF TypeOK, PlaceTypes
<1>2. ResultTypes'
  BY <1>0 DEF TypeOK, ResultTypes, Calls, Bases, Pairs, Lookup
<1>3. Held(c)'
  BY <1>0 DEF TypeOK, Held, Calls, Kinds, Bases, Pairs, Nowhere, Points, Outside, Opened,
              PeekAt, OldAt, NewAt, EmptyAt, Plain, Two
<1>4. Shown(c)'
  BY <1>0 DEF TypeOK, Shown, Calls, Kinds, Bases, Pairs, Nowhere, Points, Outside, Ended
<1>5. Solo(c)'
  BY <1>0 DEF TypeOK, Held, Shown, Solo, Calls, Kinds, Bases, Pairs, Nowhere, Points, Outside,
              Opened, PeekAt, OldAt, NewAt, HomeAt, EmptyAt, Ended, Plain, Lookup, Asked, Two
<1> QED BY ONLY <1>1, <1>2, <1>3, <1>4, <1>5 DEF TypeOK, PlaceTypes, ResultTypes, Local

(* The full path cannot be had.                                            *)
LEMMA GetcwdFailsKeeps ==
  ASSUME Inv, NEW c \in Callers, GetcwdFails(c)
  PROVE  TypeOK' /\ Local(c)' /\ Solo(c)'
PROOF
<1> USE DirAssumption DEF GetcwdFails, ChdirBack, GiveUp, Goto, Return, results, args
<1>0. TypeOK /\ Held(c) /\ Shown(c) /\ Solo(c) BY DEF Inv, Local
<1>1. PlaceTypes'
  BY <1>0 DEF TypeOK, PlaceTypes, Held, Calls, Kinds, Bases, Pairs, Nowhere, Points,
              Opened, PeekAt, OldAt, NewAt, Plain, Two
<1>2. ResultTypes'
  BY <1>0 DEF TypeOK, ResultTypes, Calls, Bases, Pairs, Lookup
<1>3. Held(c)'
  BY <1>0 DEF TypeOK, Held, Calls, Kinds, Bases, Pairs, Nowhere, Points, Outside, Opened,
              PeekAt, OldAt, NewAt, EmptyAt, Plain, Two
<1>4. Shown(c)'
  BY <1>0 DEF TypeOK, Held, Shown, Calls, Kinds, Bases, Pairs, Nowhere, Points, Outside,
              PeekAt, OldAt, NewAt, Ended, Two
<1>5. Solo(c)'
  BY <1>0 DEF TypeOK, Held, Shown, Solo, Calls, Kinds, Bases, Pairs, Nowhere, Points, Outside,
              Opened, PeekAt, OldAt, NewAt, HomeAt, EmptyAt, Ended, Plain, Lookup, Asked, Two
<1> QED BY ONLY <1>1, <1>2, <1>3, <1>4, <1>5 DEF TypeOK, PlaceTypes, ResultTypes, Local

(* The full path of the first directory is made.                           *)
LEMMA GetcwdOldKeeps ==
  ASSUME Inv, NEW c \in Callers, GetcwdOld(c)
  PROVE  TypeOK' /\ Local(c)' /\ Solo(c)'
PROOF
<1> USE DirAssumption DEF GetcwdOld, Goto, Return, results, args
<1>0. TypeOK /\ Held(c) /\ Shown(c) /\ Solo(c) BY DEF Inv, Local
<1>1. PlaceTypes'
  BY <1>0 DEF TypeOK, PlaceTypes, Held, Calls, Kinds, Bases, Pairs, Nowhere, Points,
              Opened, PeekAt, OldAt, NewAt, Plain, Two
<1>2. ResultTypes'
  BY <1>0 DEF TypeOK, ResultTypes, Calls, Bases, Pairs, Lookup
<1>3. Held(c)'
  BY <1>0 DEF TypeOK, Held, Calls, Kinds, Bases, Pairs, Nowhere, Points, Outside, Opened,
              PeekAt, OldAt, NewAt, EmptyAt, Plain, Two
<1>4. Shown(c)'
  BY <1>0 DEF TypeOK, Shown, Calls, Kinds, Bases, Pairs, Nowhere, Points, Outside, Ended
<1>5. Solo(c)'
  BY <1>0 DEF TypeOK, Held, Shown, Solo, Calls, Kinds, Bases, Pairs, Nowhere, Points, Outside,
              Opened, PeekAt, OldAt, NewAt, HomeAt, EmptyAt, Ended, Plain, Lookup, Asked, Two
<1> QED BY ONLY <1>1, <1>2, <1>3, <1>4, <1>5 DEF TypeOK, PlaceTypes, ResultTypes, Local

(* And that of the second.                                                 *)
LEMMA GetcwdNewKeeps ==
  ASSUME Inv, NEW c \in Callers, GetcwdNew(c)
  PROVE  TypeOK' /\ Local(c)' /\ Solo(c)'
PROOF
<1> USE DirAssumption DEF GetcwdNew, Goto, Return, results, args
<1>0. TypeOK /\ Held(c) /\ Shown(c) /\ Solo(c) BY DEF Inv, Local
<1>1. PlaceTypes'
  BY <1>0 DEF TypeOK, PlaceTypes, Held, Calls, Kinds, Bases, Pairs, Nowhere, Points,
              Opened, PeekAt, OldAt, NewAt, Plain, Two
<1>2. ResultTypes'
  BY <1>0 DEF TypeOK, ResultTypes, Calls, Bases, Pairs, Lookup
<1>3. Held(c)'
  BY <1>0 DEF TypeOK, Held, Calls, Kinds, Bases, Pairs, Nowhere, Points, Outside, Opened,
              PeekAt, OldAt, NewAt, EmptyAt, Plain, Two
<1>4. Shown(c)'
  BY <1>0 DEF TypeOK, Shown, Calls, Kinds, Bases, Pairs, Nowhere, Points, Outside, Ended
<1>5. Solo(c)'
  BY <1>0 DEF TypeOK, Held, Shown, Solo, Calls, Kinds, Bases, Pairs, Nowhere, Points, Outside,
              Opened, PeekAt, OldAt, NewAt, HomeAt, EmptyAt, Ended, Plain, Lookup, Asked, Two
<1> QED BY ONLY <1>1, <1>2, <1>3, <1>4, <1>5 DEF TypeOK, PlaceTypes, ResultTypes, Local

(* A call with two directories changes back in between.                    *)
LEMMA BackKeeps ==
  ASSUME Inv, NEW c \in Callers, Back(c)
  PROVE  TypeOK' /\ Local(c)' /\ Solo(c)'
PROOF
<1> USE DirAssumption DEF Back, ChdirBack, AfterOld, Goto, Return, results, args
<1>0. TypeOK /\ Held(c) /\ Shown(c) /\ Solo(c) BY DEF Inv, Local
<1>1. PlaceTypes'
  BY <1>0 DEF TypeOK, PlaceTypes, Held, Calls, Kinds, Bases, Pairs, Nowhere, Points,
              Opened, PeekAt, OldAt, NewAt, Plain, Two
<1>2. ResultTypes'
  BY <1>0 DEF TypeOK, ResultTypes, Calls, Bases, Pairs, Lookup
<1>3. Held(c)'
  BY <1>0 DEF TypeOK, Held, Calls, Kinds, Bases, Pairs, Nowhere, Points, Outside, Opened,
              PeekAt, OldAt, NewAt, EmptyAt, Plain, Two
<1>4. Shown(c)'
  BY <1>0 DEF TypeOK, Held, Shown, Calls, Kinds, Bases, Pairs, Nowhere, Points, Outside,
              PeekAt, OldAt, NewAt, Ended, Two
<1>5. Solo(c)'
  BY <1>0 DEF TypeOK, Held, Shown, Solo, Calls, Kinds, Bases, Pairs, Nowhere, Points, Outside,
              Opened, PeekAt, OldAt, NewAt, HomeAt, EmptyAt, Ended, Plain, Lookup, Asked, Two
<1> QED BY ONLY <1>1, <1>2, <1>3, <1>4, <1>5 DEF TypeOK, PlaceTypes, ResultTypes, Local

(* The operation is done, or fails.                                        *)
LEMMA OperateKeeps ==
  ASSUME Inv, NEW c \in Callers, Operate(c)
  PROVE  TypeOK' /\ Local(c)' /\ Solo(c)'
PROOF
<1> USE DirAssumption DEF Operate, OpPaths, Goto, Return, results, args
<1>0. TypeOK /\ Held(c) /\ Shown(c) /\ Solo(c) BY DEF Inv, Local
<1>1. PlaceTypes'
  BY <1>0 DEF TypeOK, PlaceTypes, Held, Calls, Kinds, Bases, Pairs, Nowhere, Points,
              Opened, PeekAt, OldAt, NewAt, Plain, Two
<1>2. ResultTypes'
  <2>1. OpPaths(c) \in Pairs
    BY <1>0 DEF TypeOK, Calls, Bases, Pairs, Lookup
  <2>2. did' = did \/ did' = [did EXCEPT ![c] = OpPaths(c)]
    OBVIOUS
  <2>3. did' \in [Callers -> Pairs] BY <1>0, <2>1, <2>2 DEF TypeOK
  <2> QED BY <1>0, <2>3 DEF TypeOK, ResultTypes
<1>3. Held(c)'
  BY <1>0 DEF TypeOK, Held, Calls, Kinds, Bases, Pairs, Nowhere, Points, Outside, Opened,
              PeekAt, OldAt, NewAt, EmptyAt, Plain, Two
<1>4. Shown(c)'
  BY <1>0 DEF TypeOK, Shown, Calls, Kinds, Bases, Pairs, Nowhere, Points, Outside, Ended
<1>5. Solo(c)'
  BY <1>0 DEF TypeOK, Held, Shown, Solo, Calls, Kinds, Bases, Pairs, Nowhere, Points, Outside,
              Opened, PeekAt, OldAt, NewAt, HomeAt, EmptyAt, Ended, Plain, Lookup, Asked, Two
<1> QED BY ONLY <1>1, <1>2, <1>3, <1>4, <1>5 DEF TypeOK, PlaceTypes, ResultTypes, Local

(* The call gives the working directory back, or cannot.                   *)
LEMMA RestoreKeeps ==
  ASSUME Inv, NEW c \in Callers, Restore(c)
  PROVE  TypeOK' /\ Local(c)' /\ Solo(c)'
PROOF
<1> USE DirAssumption DEF Restore, Goto, Return, results, args
<1>0. TypeOK /\ Held(c) /\ Shown(c) /\ Solo(c) BY DEF Inv, Local
<1>1. PlaceTypes'
  BY <1>0 DEF TypeOK, PlaceTypes, Held, Calls, Kinds, Bases, Pairs, Nowhere, Points,
              Opened, PeekAt, OldAt, NewAt, Plain, Two
<1>2. ResultTypes'
  BY <1>0 DEF TypeOK, ResultTypes, Calls, Bases, Pairs, Lookup
<1>3. Held(c)'
  BY <1>0 DEF TypeOK, Held, Calls, Kinds, Bases, Pairs, Nowhere, Points, Outside, Opened,
              PeekAt, OldAt, NewAt, EmptyAt, Plain, Two
<1>4. Shown(c)'
  BY <1>0 DEF TypeOK, Shown, Calls, Kinds, Bases, Pairs, Nowhere, Points, Outside, Ended
<1>5. Solo(c)'
  BY <1>0 DEF TypeOK, Held, Shown, Solo, Calls, Kinds, Bases, Pairs, Nowhere, Points, Outside,
              Opened, PeekAt, OldAt, NewAt, HomeAt, EmptyAt, Ended, Plain, Lookup, Asked, Two
<1> QED BY ONLY <1>1, <1>2, <1>3, <1>4, <1>5 DEF TypeOK, PlaceTypes, ResultTypes, Local

-----------------------------------------------------------------------------
(* Every step of every caller keeps the invariant.                         *)
LEMMA StepInv ==
  ASSUME Inv, NEW c \in Callers, Step(c)
  PROVE  Inv'
PROOF
<1>1. TypeOK' /\ Local(c)' /\ Solo(c)'
  BY BeginKeeps, DirectKeeps, FinishKeeps, PeekSaveKeeps, PeekChdirKeeps, PeekLinkKeeps,
     PeekNoLinkKeeps, PeekBackKeeps, SaveKeeps, ChdirKeeps, ChdirOldKeeps, ChdirNewKeeps,
     GetcwdFailsKeeps, GetcwdOldKeeps, GetcwdNewKeeps, BackKeeps, OperateKeeps, RestoreKeeps
  DEF Step
<1>2. ASSUME NEW x \in Callers, x # c PROVE Local(x)' /\ Solo(x)'
  <2> USE <1>2
  <2>0. TypeOK /\ Local(x) /\ Solo(x) BY DEF Inv
  <2>1. /\ pc'[x] = pc[x] /\ call'[x] = call[x] /\ saved'[x] = saved[x]
        /\ full'[x] = full[x] /\ did'[x] = did[x] /\ ret'[x] = ret[x]
        /\ resultFd'[x] = resultFd[x] /\ lost'[x] = lost[x]
        /\ entry'[x] \in {entry[x], None}
    BY <2>0, Frame
  <2>2. Local(x)' BY <2>0, <2>1 DEF Local, Held, Shown, Two
  <2>3. Solo(x)'
    <3> SUFFICES ASSUME entry'[x] # None PROVE Solo(x)'
      BY DEF Solo
    <3>1. entry[x] # None /\ entry'[x] = entry[x] BY <2>1
    <3>2. CASE pc[x] \in Outside
      BY <2>0, <2>1, <3>1, <3>2
      DEF Solo, Two, Asked, Outside, HomeAt, NewAt, Opened, Points
    <3>3. CASE pc[x] \notin Outside
      <4>1. pc[c] \in Outside BY <2>0, <3>1, <3>3 DEF Solo
      <4>2. cwd' = cwd /\ pc'[c] \in Outside BY <2>0, <3>1, <3>3, <4>1, OutsideStep
      <4>3. \A y \in Callers \ {x} : pc'[y] \in Outside
        BY <2>0, <3>1, <3>3, <4>2, Frame DEF Solo
      <4> QED BY <2>0, <2>1, <3>1, <4>2, <4>3 DEF Solo, Two, Asked
    <3> QED BY <3>2, <3>3
  <2> QED BY <2>2, <2>3
<1> QED BY <1>1, <1>2 DEF Inv

(* The invariant is inductive.                                             *)
THEOREM Inductive == Spec => []Inv
PROOF
<1>1. Inv /\ [Next]_vars => Inv'
  <2> SUFFICES ASSUME Inv, [Next]_vars PROVE Inv' OBVIOUS
  <2>1. CASE Next BY <2>1, StepInv DEF Next
  <2>2. CASE UNCHANGED vars
    BY <2>2 DEF vars, Inv, TypeOK, Local, Held, Shown, Solo, Two, Asked
  <2> QED BY <2>1, <2>2
<1> QED BY InitInv, <1>1, PTL DEF Spec

-----------------------------------------------------------------------------
(* Every field keeps its type, for every set of threads and directories.   *)
THEOREM TypeCorrect == Spec => []TypeOK
BY Inductive, PTL DEF Inv

(* On every path out of every function saved_cwd is closed, the full paths *)
(* are freed, and a file is open only for a caller that was told so.       *)
THEOREM LeakFree == Spec => []NothingLeaked
PROOF
<1>1. Inv => NothingLeaked
  BY DEF Inv, Local, Held, Shown, NothingLeaked, Outside, Opened, EmptyAt, Points, TypeOK
<1> QED BY <1>1, Inductive, PTL

(* A call that no other call overlapped worked where it was told to.       *)
THEOREM Located == Spec => []RightDirectory
PROOF
<1>1. Inv => RightDirectory
  BY DEF Inv, Solo, RightDirectory, Asked, Two
<1> QED BY <1>1, Inductive, PTL

(* openat never reports success after a failed fchdir(saved_cwd).          *)
THEOREM LossReported == Spec => []OpenReportsLoss
PROOF
<1>1. Inv => OpenReportsLoss
  BY DEF Inv, Local, Shown, OpenReportsLoss
<1> QED BY <1>1, Inductive, PTL

(* A call that no other call overlapped leaves the process in the working  *)
(* directory it found, unless fchdir(saved_cwd) failed.                    *)
THEOREM DirectoryReturned == Spec => CwdGivenBack
PROOF
<1>1. ASSUME Inv, NEW c \in Callers, Step(c), NEW x \in Callers,
             Returns(x), entry[x] # None, ~lost'[x]
      PROVE  cwd' = entry[x]
  <2> USE <1>1
  <2>0. TypeOK /\ Held(c) /\ Shown(c) /\ Solo(c) BY DEF Inv, Local
  <2>1. x = c BY <2>0, Frame DEF Returns
  <2>2. ~lost[c]
    BY <2>0, <2>1
    DEF Step, TypeOK, Returns, Begin, Direct, Finish, PeekSave, PeekChdir, PeekLink,
        PeekNoLink, PeekBack, ChdirBack, Save, Chdir, ChdirOld, ChdirNew, ChdirFor,
        GetcwdFails, GetcwdOld, GetcwdNew, Back, Operate, Restore, GiveUp, Goto, Return
  <2>3. CASE Direct(c) \/ Save(c) \/ Chdir(c) \/ ChdirOld(c) \/ ChdirNew(c)
    BY <2>0, <2>1, <2>2, <2>3
    DEF Solo, HomeAt, TypeOK, Returns, Direct, Save, Chdir, ChdirOld, ChdirNew, ChdirFor,
        FirstPoint, Goto
  <2>4. CASE PeekLink(c) \/ GetcwdFails(c) \/ Restore(c)
    BY <2>0, <2>1, <2>2, <2>4
    DEF Solo, Opened, Points, TypeOK, PeekLink, GetcwdFails, Restore, ChdirBack
  <2>5. CASE \/ Begin(c) \/ Finish(c) \/ PeekSave(c) \/ PeekChdir(c) \/ PeekNoLink(c)
             \/ PeekBack(c) \/ GetcwdOld(c) \/ GetcwdNew(c) \/ Back(c) \/ Operate(c)
    BY <2>0, <2>1, <2>5
    DEF Returns, TypeOK, Begin, Entered, Finish, PeekSave, PeekChdir, PeekNoLink, PeekBack,
        GetcwdOld, GetcwdNew, Back, AfterOld, Operate, Goto
  <2> QED BY <2>3, <2>4, <2>5 DEF Step
<1>2. Inv /\ [Next]_vars =>
        [\A c \in Callers : (Returns(c) /\ entry[c] # None /\ ~lost'[c]) => cwd' = entry[c]]_vars
  BY <1>1 DEF Next
<1> QED BY <1>2, Inductive, PTL DEF CwdGivenBack, Spec

=============================================================================
