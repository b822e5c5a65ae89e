-------------------------- MODULE BundleHostProofs --------------------------
(***************************************************************************)
(* Proofs about BundleHost, for any shells, bundles, commands, bounds: the *)
(* registry is true, the scripts implement CommandOwners, commands lead to *)
(* bundles that are there, and test reports are honest.  A script that     *)
(* runs alone may trust what it has read and written; where scripts run    *)
(* beside each other, all they can disturb is shaky already.               *)
(***************************************************************************)
EXTENDS BundleTest, TLAPS

Good(c) ==
  \/ trampoline[c] = Nobody /\ registry[c] = NoLines
  \/ trampoline[c] \in Bundles /\ c \in executable /\ OwnedBy(c, trampoline[c])

Rewriting == {"exec", "chmod", "filter", "grep", "move", "append"}

(* What a script has left to do belongs to its bundle; only its grep has a *)
(* file open; two scripts that are run at the same time, and one that has  *)
(* failed to write, know that no command may be relied on.                 *)
ScriptOK(s) ==
  LET r == script[s] IN
  /\ s \in Busy => r.bundle \in Bundles /\ r.todo \subseteq Provides[r.bundle]
  /\ r.pc \in Rewriting \cup {"rm"} => r.cmd \in Provides[r.bundle] \ r.todo
  /\ r.pc \in Rewriting \cup {"unpack"} => r.kind = "install"
  /\ r.pc \in {"rm", "sweep", "swept", "advice"} => r.kind = "uninstall"
  /\ r.pc \in {"sweep", "swept"} => r.todo = {}
  /\ r.pc \notin {"grep", "sweep"} => out[s] = "none"
  /\ out[s] = "tmp" => tmp # NoFile
  /\ s \in Busy => IF r.alone THEN Busy = {s} ELSE shaky = Commands

(* Trampolines, lines and the temporary file speak of commands that the    *)
(* bundles provide.                                                        *)
Provided ==
  /\ \A c \in Commands : trampoline[c] \in Bundles => c \in Provides[trampoline[c]]
  /\ \A c \in Commands, b \in Bundles : registry[c][b] # 0 => c \in Provides[b]
  /\ tmp # NoFile => \A c \in Commands, b \in Bundles : tmp[c][b] # 0 => c \in Provides[b]

(* Whoever has written the temporary file that is moved next, it has the   *)
(* lines of all commands that are not shaky.                               *)
Copied(s) ==
  LET r == script[s] IN
  tmp # NoFile => \A c \in Commands \ shaky :
    /\ r.pc = "move" /\ c # r.cmd => tmp[c] = registry[c]
    /\ r.pc = "swept" => tmp[c] = [registry[c] EXCEPT ![r.bundle] = 0]

(* How far an install that runs alone is with its command, shaky or not.   *)
Rewritten(s) ==
  LET r == script[s] IN
  /\ r.pc = "exec" => trampoline[r.cmd] = Headed
  /\ r.pc \in Rewriting \ {"exec"} => trampoline[r.cmd] = r.bundle
  /\ r.pc \in {"filter", "grep", "move", "append"} => r.cmd \in executable
  /\ r.pc \in {"grep", "sweep"} => out[s] = "tmp" /\ tmp = Empty
  /\ r.pc \in {"move", "swept"} => tmp # NoFile
  /\ r.pc = "move" => tmp[r.cmd] = NoLines
  /\ r.pc = "append" => registry[r.cmd] = NoLines

(* And an uninstall with those it has been through.                        *)
Cleared(c, b) ==
  \/ trampoline[c] = Nobody /\ (registry[c] = NoLines \/ OwnedBy(c, b))
  \/ Good(c) /\ ~OwnedBy(c, b)

Emptied(s) ==
  LET r == script[s] IN
  r.kind = "uninstall" /\ r.pc \in {"loop", "rm", "sweep", "swept"} =>
    \A c \in Provides[r.bundle] \ (r.todo \cup shaky) :
       IF r.pc = "rm" /\ c = r.cmd
         THEN Good(c) /\ (OwnedBy(c, r.bundle) \/ registry[c] = NoLines)
         ELSE Cleared(c, r.bundle)

Progress(s) == s \in Busy /\ script[s].alone => Rewritten(s) /\ Emptied(s)

Settled == \A c \in Commands \ shaky : Good(c) \/ \E s \in Shells : c \in InHand(s)

IInv ==
  /\ TypeOK /\ Provided /\ Settled
  /\ \A s \in Shells : ScriptOK(s) /\ Copied(s) /\ Progress(s)

(* What shell scripts are made of.                                         *)
Records ==
  [pc : PCs, kind : Kinds, bundle : Bundles \cup {Nobody}, todo : SUBSET Commands,
   cmd : Commands \cup {Nobody}, alone : BOOLEAN]

-----------------------------------------------------------------------------
(* The types that the steps of a script need.                              *)
LEMMA Reads ==
  ASSUME IInv, NEW s \in Shells
  PROVE  /\ script \in [Shells -> Records] /\ script[s] \in Records
         /\ s \in Busy => /\ script[s].bundle \in Bundles
                          /\ script[s].todo \subseteq Provides[script[s].bundle]
                          /\ Provides[script[s].bundle] \subseteq Commands
         /\ script[s].pc \in Rewriting \cup {"rm"} =>
              script[s].cmd \in Commands /\ script[s].cmd \in Provides[script[s].bundle]
         /\ trampoline \in [Commands -> Bundles \cup {Nobody, Headed}]
         /\ executable \in SUBSET Commands
         /\ registry \in [Commands -> [Bundles -> Nat]]
         /\ tmp # NoFile => tmp \in [Commands -> [Bundles -> Nat]]
         /\ out \in [Shells -> Outs]
PROOF
<1>1. script \in [Shells -> Records] /\ script[s] \in Records BY DEF IInv, TypeOK, Records
<1>2. ScriptOK(s) BY DEF IInv
<1>3. script[s].pc \in Rewriting \cup {"rm"} => s \in Busy BY DEF Busy, At, Rewriting
<1>4. s \in Busy => Provides[script[s].bundle] \subseteq Commands
  BY <1>1, <1>2, HostAssumption DEF ScriptOK
<1> QED BY <1>1, <1>2, <1>3, <1>4 DEF IInv, TypeOK, ScriptOK

(* A script that does not move has the same commands in hand.              *)
LEMMA HandStays ==
  ASSUME NEW u, script'[u] = script[u]
  PROVE  InHand(u)' = InHand(u)
BY DEF InHand, At

(* A script beside which another one runs is not alone.                    *)
LEMMA NotAlone ==
  ASSUME IInv, NEW s \in Shells, s \in Busy, NEW u \in Shells \ {s}
  PROVE  ~(u \in Busy /\ script[u].alone)
BY DEF IInv, ScriptOK

(* A step on to the next place in the script.                              *)
LEMMA Going ==
  ASSUME IInv, NEW s \in Shells, NEW pc \in PCs, Goes(s, pc)
  PROVE  /\ script' \in [Shells -> Records]
         /\ script'[s] = [script[s] EXCEPT !.pc = pc]
         /\ script'[s].pc = pc /\ script'[s].kind = script[s].kind
         /\ script'[s].bundle = script[s].bundle /\ script'[s].todo = script[s].todo
         /\ script'[s].cmd = script[s].cmd /\ script'[s].alone = script[s].alone
PROOF
<1>1. script \in [Shells -> Records] /\ script[s] \in Records BY Reads
<1>2. [script[s] EXCEPT !.pc = pc] \in Records BY <1>1 DEF Records
<1> QED BY <1>1, <1>2 DEF Goes, Records

(* A file that is written is not the one that is not there.                *)
LEMMA IsFile ==
  ASSUME NEW t \in [Commands -> [Bundles -> Nat]] PROVE t # NoFile
BY HostAssumption

-----------------------------------------------------------------------------
(* What grep writes, whoever writes beside it.                             *)
FromBundles(file) == \A c \in Commands, b \in Bundles : file[c][b] # 0 => c \in Provides[b]

(* A mixture of two files has lines of one and of the other.               *)
LEMMA Mixed ==
  ASSUME NEW x \in [Commands -> [Bundles -> Nat]], NEW y \in [Commands -> [Bundles -> Nat]],
         FromBundles(x), FromBundles(y), NEW f \in Mixtures(x, y)
  PROVE  f \in [Commands -> [Bundles -> Nat]] /\ FromBundles(f)
PROOF
<1>1. PICK xs \in SUBSET Lines(x), ys \in SUBSET Lines(y) :
        f = Both(Some(x, xs), Some(y, ys))
  BY DEF Mixtures
<1>2. \A c \in Commands, b \in Bundles :
        Some(x, xs)[c][b] \in {0, x[c][b]} /\ Some(y, ys)[c][b] \in {0, y[c][b]}
  BY DEF Some
<1>3. \A c \in Commands, b \in Bundles : x[c][b] \in Nat /\ y[c][b] \in Nat OBVIOUS
<1>4. \A c \in Commands, b \in Bundles :
        f[c][b] \in Nat /\ (f[c][b] # 0 => x[c][b] # 0 \/ y[c][b] # 0)
  <2> SUFFICES ASSUME NEW c \in Commands, NEW b \in Bundles
               PROVE  f[c][b] \in Nat /\ (f[c][b] # 0 => x[c][b] # 0 \/ y[c][b] # 0)
    OBVIOUS
  <2> DEFINE m == Some(x, xs)[c][b]
             n == Some(y, ys)[c][b]
  <2>1. f[c][b] = m + n BY <1>1 DEF Both
  <2>2. m \in {0, x[c][b]} /\ n \in {0, y[c][b]} BY <1>2
  <2> HIDE DEF m, n
  <2> QED BY <1>3, <2>1, <2>2
<1>5. f \in [Commands -> [Bundles -> Nat]]
  <2>1. f = [c \in Commands |-> [b \in Bundles |-> f[c][b]]] BY <1>1 DEF Both
  <2> QED BY <1>4, <2>1
<1> QED BY <1>4, <1>5 DEF FromBundles

(* Whatever file the lines get into keeps to what the bundles provide.     *)
LEMMA Written ==
  ASSUME IInv, NEW s \in Shells, NEW lines \in [Commands -> [Bundles -> Nat]],
         FromBundles(lines), Writes(s, lines)
  PROVE  /\ registry' \in [Commands -> [Bundles -> Nat]] /\ FromBundles(registry')
         /\ tmp' \in [Commands -> [Bundles -> Nat]] \cup {NoFile}
         /\ tmp' # NoFile => FromBundles(tmp')
         /\ tmp # NoFile => tmp' # NoFile
         /\ out' \in [Shells -> Outs] /\ out'[s] = "none"
         /\ \A u \in Shells \ {s} : out'[u] = out[u]
PROOF
<1>1. /\ registry \in [Commands -> [Bundles -> Nat]] /\ FromBundles(registry)
      /\ tmp \in [Commands -> [Bundles -> Nat]] \cup {NoFile}
      /\ tmp # NoFile => FromBundles(tmp)
      /\ out \in [Shells -> Outs] /\ (out[s] = "tmp" => tmp # NoFile)
  BY DEF IInv, TypeOK, Provided, FromBundles, ScriptOK
<1>2. /\ out' \in [Shells -> Outs] /\ out'[s] = "none"
      /\ \A u \in Shells \ {s} : out'[u] = out[u]
  BY <1>1 DEF Writes, Outs
<1>3. CASE tmp' = lines /\ UNCHANGED registry BY <1>1, <1>2, <1>3, IsFile
<1>4. CASE out[s] = "tmp" /\ tmp' \in Mixtures(lines, tmp) /\ UNCHANGED registry
  BY <1>1, <1>2, <1>4, Mixed, IsFile
<1>5. CASE registry' \in Mixtures(lines, registry) /\ UNCHANGED tmp
  BY <1>1, <1>2, <1>5, Mixed
<1>6. CASE UNCHANGED <<registry, tmp>> BY <1>1, <1>2, <1>6
<1> QED BY <1>3, <1>4, <1>5, <1>6 DEF Writes

(* A script that runs alone writes into a file of its own.                 *)
LEMMA WrittenAlone ==
  ASSUME IInv, NEW s \in Shells, script[s].pc \in {"grep", "sweep"}, script[s].alone,
         NEW lines, Writes(s, lines)
  PROVE  tmp' = lines /\ UNCHANGED registry
PROOF
<1>1. s \in Busy BY DEF Busy, At
<1>2. Busy = {s} /\ Rewritten(s) BY <1>1 DEF IInv, ScriptOK, Progress
<1>3. out[s] = "tmp" /\ tmp = Empty BY <1>2 DEF Rewritten
<1>4. \A o \in Shells \ {s} : out[o] # "tmp" BY <1>2 DEF IInv, ScriptOK, Busy, At
<1> QED BY <1>3, <1>4 DEF Writes

(* The lines that a script means to write.                                 *)
LEMMA Meant ==
  ASSUME IInv, NEW s \in Shells, s \in Busy
  PROVE  /\ script[s].cmd \in Commands =>
              Filtered(s) \in [Commands -> [Bundles -> Nat]] /\ FromBundles(Filtered(s))
         /\ Rest(s) \in [Commands -> [Bundles -> Nat]] /\ FromBundles(Rest(s))
PROOF
<1>1. registry \in [Commands -> [Bundles -> Nat]] /\ FromBundles(registry)
  BY DEF IInv, TypeOK, Provided, FromBundles
<1>2. script[s].cmd \in Commands =>
        Filtered(s) \in [Commands -> [Bundles -> Nat]] /\ FromBundles(Filtered(s))
  BY <1>1 DEF Filtered, FromBundles, NoLines
<1>3. Rest(s) \in [Commands -> [Bundles -> Nat]] /\ FromBundles(Rest(s))
  BY <1>1 DEF Rest, FromBundles
<1> QED BY <1>2, <1>3

(* And some of them.                                                       *)
LEMMA SomeOfIt ==
  ASSUME NEW x \in [Commands -> [Bundles -> Nat]], FromBundles(x), NEW some
  PROVE  Some(x, some) \in [Commands -> [Bundles -> Nat]] /\ FromBundles(Some(x, some))
BY DEF Some, FromBundles

(* mv leaves files in place of files.                                      *)
LEMMA Moved ==
  ASSUME IInv, Moves
  PROVE  /\ registry' \in [Commands -> [Bundles -> Nat]]
         /\ tmp' \in [Commands -> [Bundles -> Nat]] \cup {NoFile}
         /\ out' \in [Shells -> Outs]
PROOF
<1>1. /\ registry \in [Commands -> [Bundles -> Nat]]
      /\ tmp \in [Commands -> [Bundles -> Nat]] \cup {NoFile} /\ out \in [Shells -> Outs]
  BY DEF IInv, TypeOK
<1>2. CASE tmp = NoFile BY <1>1, <1>2 DEF Moves
<1>3. CASE tmp # NoFile
  <2>1. out' \in [Shells -> Outs] BY <1>1, <1>3 DEF Moves, Outs
  <2> QED BY <1>1, <1>3, <2>1 DEF Moves
<1> QED BY <1>2, <1>3

-----------------------------------------------------------------------------
(* The extraction ends.                                                    *)
LEMMA UnpackedKeeps ==
  ASSUME IInv, NEW s \in Shells, Unpacked(s)
  PROVE  IInv'
PROOF
<1>0. s \in Busy
  BY DEF Busy, At, Unpacked
<1>a. \A u \in Shells \ {s} : script'[u] = script[u]
  BY DEF IInv, TypeOK, Unpacked, Goes, At
<1>1. TypeOK'
  <2>1. script' \in [Shells -> Records]
    BY Going DEF Unpacked, PCs
  <2>2. dir' \in [Bundles -> {"absent", "part", "whole"}] /\ torn' \in SUBSET Bundles
    BY <1>0, Reads DEF IInv, TypeOK, Unpacked, Goes, At
  <2>3. /\ trampoline' \in [Commands -> Bundles \cup {Nobody, Headed}]
        /\ executable' \in SUBSET Commands /\ shaky' \in SUBSET Commands
    BY DEF IInv, TypeOK, Unpacked, Goes, At
  <2>4. /\ registry' \in [Commands -> [Bundles -> Nat]]
        /\ tmp' \in [Commands -> [Bundles -> Nat]] \cup {NoFile} /\ out' \in [Shells -> Outs]
    BY DEF IInv, TypeOK, Unpacked, Goes, At
  <2>5. left' \in [work : 0..MaxWork, faults : 0..MaxFaults]
    BY DEF IInv, TypeOK, Unpacked, Goes, At
  <2> QED BY <2>1, <2>2, <2>3, <2>4, <2>5 DEF TypeOK, Records
<1>2. Provided'
  BY DEF IInv, Provided, Unpacked, Goes, At
<1>3. ASSUME NEW u \in Shells PROVE ScriptOK(u)'
  BY <1>0, <1>a, Reads DEF IInv, ScriptOK, Busy, Rewriting, Records, Unpacked, Goes, At
<1>4. ASSUME NEW u \in Shells PROVE Copied(u)'
  BY <1>a DEF IInv, Copied, Unpacked, Goes, At
<1>5. ASSUME NEW u \in Shells, (u \in Busy /\ script[u].alone)' PROVE Rewritten(u)' /\ Emptied(u)'
  <2>1. u = s /\ s \in Busy /\ script[s].alone
    BY <1>0, <1>5, NotAlone DEF Busy, Unpacked, Goes, At
  <2>2. Rewritten(s) /\ Emptied(s) /\ ScriptOK(s) BY <2>1 DEF IInv, Progress
  <2>3. Rewritten(s)'
    BY <2>2, Reads DEF Rewritten, Rewriting, Records, Unpacked, Goes, At
  <2>4. Emptied(s)'
    BY <1>0, <2>2, Reads DEF Emptied, ScriptOK, Records, Rewriting, Unpacked, Goes, At
  <2> QED BY <2>1, <2>3, <2>4
<1>6. ASSUME NEW c \in Commands, c \notin shaky', ~(Good(c)')
      PROVE  \E u \in Shells : c \in InHand(u)'
  <2>1. \A u \in Shells \ {s} : InHand(u)' = InHand(u) BY <1>a, HandStays
  <2>2. c \notin shaky
    BY <1>6 DEF Unpacked
  <2>3. Good(c) => c \in InHand(s)'
    BY <1>6 DEF Good, OwnedBy, Unpacked
  <2>4. c \in InHand(s) => c \in InHand(s)'
    BY DEF InHand, Unpacked, Goes, At
  <2> QED BY <2>1, <2>2, <2>3, <2>4 DEF IInv, Settled
<1> QED BY <1>1, <1>2, <1>3, <1>4, <1>5, <1>6 DEF IInv, Progress, Settled

(* The extraction fails.                                                   *)
LEMMA UnpackFailsKeeps ==
  ASSUME IInv, NEW s \in Shells, UnpackFails(s)
  PROVE  IInv'
PROOF
<1>0. s \in Busy
  BY DEF Busy, At, UnpackFails
<1>a. \A u \in Shells \ {s} : script'[u] = script[u]
  BY DEF IInv, TypeOK, UnpackFails, At, Idle
<1>1. TypeOK'
  <2>1. script' \in [Shells -> Records]
    BY <1>0, Reads DEF Records, PCs, Kinds, UnpackFails, At, Idle
  <2>2. dir' \in [Bundles -> {"absent", "part", "whole"}] /\ torn' \in SUBSET Bundles
    BY <1>0, Reads DEF IInv, TypeOK, UnpackFails, At, Idle
  <2>3. /\ trampoline' \in [Commands -> Bundles \cup {Nobody, Headed}]
        /\ executable' \in SUBSET Commands /\ shaky' \in SUBSET Commands
    BY DEF IInv, TypeOK, UnpackFails, At, Idle
  <2>4. /\ registry' \in [Commands -> [Bundles -> Nat]]
        /\ tmp' \in [Commands -> [Bundles -> Nat]] \cup {NoFile} /\ out' \in [Shells -> Outs]
    BY DEF IInv, TypeOK, UnpackFails, At, Idle
  <2>5. left' \in [work : 0..MaxWork, faults : 0..MaxFaults]
    BY DEF IInv, TypeOK, UnpackFails, At, Idle
  <2> QED BY <2>1, <2>2, <2>3, <2>4, <2>5 DEF TypeOK, Records
<1>2. Provided'
  BY DEF IInv, Provided, UnpackFails, At, Idle
<1>3. ASSUME NEW u \in Shells PROVE ScriptOK(u)'
  BY <1>0, <1>a, Reads DEF IInv, ScriptOK, Busy, Rewriting, Records, UnpackFails, At, Idle
<1>4. ASSUME NEW u \in Shells PROVE Copied(u)'
  BY <1>a DEF IInv, Copied, UnpackFails, At, Idle
<1>5. ASSUME NEW u \in Shells, (u \in Busy /\ script[u].alone)' PROVE Rewritten(u)' /\ Emptied(u)'
  <2>1. u = s /\ s \in Busy /\ script[s].alone
    BY <1>0, <1>5, NotAlone DEF Busy, UnpackFails, At, Idle
  <2>2. Rewritten(s) /\ Emptied(s) /\ ScriptOK(s) BY <2>1 DEF IInv, Progress
  <2>3. Rewritten(s)'
    BY <2>2, Reads DEF Rewritten, Rewriting, Records, UnpackFails, At, Idle
  <2>4. Emptied(s)'
    BY <2>2, Reads DEF Emptied, Records, UnpackFails, At, Idle
  <2> QED BY <2>1, <2>3, <2>4
<1>6. ASSUME NEW c \in Commands, c \notin shaky', ~(Good(c)')
      PROVE  \E u \in Shells : c \in InHand(u)'
  <2>1. \A u \in Shells \ {s} : InHand(u)' = InHand(u) BY <1>a, HandStays
  <2>2. c \notin shaky
    BY <1>6 DEF UnpackFails
  <2>3. Good(c) => c \in InHand(s)'
    BY <1>6 DEF Good, OwnedBy, UnpackFails
  <2>4. c \in InHand(s) => c \in InHand(s)'
    BY DEF InHand, UnpackFails, At, Idle
  <2> QED BY <2>1, <2>2, <2>3, <2>4 DEF IInv, Settled
<1> QED BY <1>1, <1>2, <1>3, <1>4, <1>5, <1>6 DEF IInv, Progress, Settled

(* The extraction fails and nobody sees it.                                *)
LEMMA UnpackedInPartKeeps ==
  ASSUME IInv, NEW s \in Shells, UnpackedInPart(s)
  PROVE  IInv'
PROOF
<1>0. s \in Busy
  BY DEF Busy, At, UnpackedInPart
<1>a. \A u \in Shells \ {s} : script'[u] = script[u]
  BY DEF IInv, TypeOK, UnpackedInPart, Goes, At, Idle
<1>b. script[s].pc = "unpack" /\ script[s].kind = "install" /\ out[s] = "none"
  BY DEF UnpackedInPart, At, IInv, ScriptOK, Rewriting
<1>c. /\ script' \in [Shells -> Records]
      /\ \/ script'[s] = Idle
         \/ /\ script'[s].pc = "loop" /\ script'[s].kind = "install"
            /\ script'[s].bundle = script[s].bundle /\ script'[s].todo = script[s].todo
            /\ script'[s].cmd = script[s].cmd /\ script'[s].alone = script[s].alone
  <2>1. CASE Goes(s, "loop") BY <1>b, <2>1, Going DEF PCs
  <2>2. CASE script' = [script EXCEPT ![s] = Idle]
    <3>1. Idle \in Records BY DEF Idle, Records, PCs, Kinds
    <3> QED BY <2>2, <3>1, Reads
  <2> QED BY <2>1, <2>2 DEF UnpackedInPart
<1>1. TypeOK'
  <2>1. script' \in [Shells -> Records]
    BY <1>c
  <2>2. dir' \in [Bundles -> {"absent", "part", "whole"}] /\ torn' \in SUBSET Bundles
    BY <1>0, Reads DEF IInv, TypeOK, UnpackedInPart, Goes, At, Idle
  <2>3. /\ trampoline' \in [Commands -> Bundles \cup {Nobody, Headed}]
        /\ executable' \in SUBSET Commands /\ shaky' \in SUBSET Commands
    BY DEF IInv, TypeOK, UnpackedInPart, Goes, At, Idle
  <2>4. /\ registry' \in [Commands -> [Bundles -> Nat]]
        /\ tmp' \in [Commands -> [Bundles -> Nat]] \cup {NoFile} /\ out' \in [Shells -> Outs]
    BY DEF IInv, TypeOK, UnpackedInPart, Goes, At, Idle
  <2>5. left' \in [work : 0..MaxWork, faults : 0..MaxFaults]
    BY HostAssumption DEF IInv, TypeOK, UnpackedInPart, Goes, At, Idle
  <2> QED BY <2>1, <2>2, <2>3, <2>4, <2>5 DEF TypeOK, Records
<1>2. Provided'
  BY DEF IInv, Provided, UnpackedInPart, Goes, At, Idle
<1>3. ASSUME NEW u \in Shells PROVE ScriptOK(u)'
  <2>1. UNCHANGED <<tmp, out, shaky>> BY DEF UnpackedInPart
  <2>2. ScriptOK(s) /\ ScriptOK(u) BY DEF IInv
  <2>3. Busy' \subseteq Busy /\ (s \in Busy' => script'[s].pc = "loop")
    BY <1>0, <1>a, <1>c DEF Busy, At, Idle
  <2>4. CASE u # s
    <3>1. script'[u] = script[u] /\ (u \in Busy' <=> u \in Busy) BY <1>a, <2>4 DEF Busy, At
    <3>2. u \in Busy => ~script[u].alone BY <1>0, <2>4, NotAlone
    <3> QED BY <2>1, <2>2, <3>1, <3>2 DEF ScriptOK
  <2>5. CASE u = s
    <3>1. script[s].alone => Busy = {s} BY <1>0, <2>2 DEF ScriptOK
    <3>2. s \in Busy' => IF script'[s].alone THEN Busy' = {s} ELSE shaky' = Commands
      BY <1>0, <1>c, <2>1, <2>2, <2>3, <3>1 DEF ScriptOK, Idle, Busy, At
    <3>3. s \in Busy' => script'[s].bundle \in Bundles /\ script'[s].todo \subseteq Provides[script'[s].bundle]
      BY <1>0, <1>c, <2>2 DEF ScriptOK, Idle, Busy, At
    <3> QED BY <1>b, <1>c, <2>1, <2>5, <3>2, <3>3 DEF ScriptOK, Rewriting, Idle
  <2> QED BY <2>4, <2>5
<1>4. ASSUME NEW u \in Shells PROVE Copied(u)'
  BY <1>a, <1>c DEF IInv, Copied, UnpackedInPart, Idle
<1>5. ASSUME NEW u \in Shells, (u \in Busy /\ script[u].alone)' PROVE Rewritten(u)' /\ Emptied(u)'
  <2>1. u = s /\ s \in Busy /\ script[s].alone
    BY <1>0, <1>a, <1>c, <1>5, NotAlone DEF Busy, At, Idle
  <2>3. Rewritten(s)'
    BY <1>c DEF Rewritten, Rewriting, Idle
  <2>4. Emptied(s)'
    BY <1>c DEF Emptied, Idle
  <2> QED BY <2>1, <2>3, <2>4
<1>6. ASSUME NEW c \in Commands, c \notin shaky', ~(Good(c)')
      PROVE  \E u \in Shells : c \in InHand(u)'
  <2>1. \A u \in Shells \ {s} : InHand(u)' = InHand(u) BY <1>a, HandStays
  <2>2. c \notin shaky
    BY <1>6 DEF UnpackedInPart
  <2>3. Good(c) => c \in InHand(s)'
    BY <1>6 DEF Good, OwnedBy, UnpackedInPart
  <2>4. c \in InHand(s) => c \in InHand(s)'
    BY <1>b DEF InHand, Rewriting
  <2> QED BY <2>1, <2>2, <2>3, <2>4 DEF IInv, Settled
<1> QED BY <1>1, <1>2, <1>3, <1>4, <1>5, <1>6 DEF IInv, Progress, Settled

(* The head of a trampoline is written.                                    *)
LEMMA HeadKeeps ==
  ASSUME IInv, NEW s \in Shells, Head(s)
  PROVE  IInv'
PROOF
<1>0. s \in Busy
  BY DEF Busy, At, Head
<1>a. \A u \in Shells \ {s} : script'[u] = script[u]
  BY DEF IInv, TypeOK, Head, At
<1>1. TypeOK'
  <2>1. script' \in [Shells -> Records]
    BY Reads DEF Records, PCs, Head, At
  <2>2. dir' \in [Bundles -> {"absent", "part", "whole"}] /\ torn' \in SUBSET Bundles
    BY DEF IInv, TypeOK, Head, At
  <2>3. /\ trampoline' \in [Commands -> Bundles \cup {Nobody, Headed}]
        /\ executable' \in SUBSET Commands /\ shaky' \in SUBSET Commands
    BY DEF IInv, TypeOK, Head, At
  <2>4. /\ registry' \in [Commands -> [Bundles -> Nat]]
        /\ tmp' \in [Commands -> [Bundles -> Nat]] \cup {NoFile} /\ out' \in [Shells -> Outs]
    BY DEF IInv, TypeOK, Head, At
  <2>5. left' \in [work : 0..MaxWork, faults : 0..MaxFaults]
    BY DEF IInv, TypeOK, Head, At
  <2> QED BY <2>1, <2>2, <2>3, <2>4, <2>5 DEF TypeOK, Records
<1>2. Provided'
  BY <1>1, HostAssumption DEF IInv, TypeOK, Provided, ScriptOK, Busy, Rewriting, NoLines, Head, At
<1>3. ASSUME NEW u \in Shells PROVE ScriptOK(u)'
  BY <1>0, <1>a, Reads DEF IInv, ScriptOK, Busy, Rewriting, Records, Head, At
<1>4. ASSUME NEW u \in Shells PROVE Copied(u)'
  <2>1. script'[s].pc = "exec" BY Reads DEF Records, Head
  <2>2. UNCHANGED <<tmp, registry, shaky>> /\ Copied(u) BY DEF IInv, Head
  <2> QED BY <1>a, <2>1, <2>2 DEF Copied
<1>5. ASSUME NEW u \in Shells, (u \in Busy /\ script[u].alone)' PROVE Rewritten(u)' /\ Emptied(u)'
  <2>1. u = s /\ s \in Busy /\ script[s].alone
    BY <1>0, <1>a, <1>5, NotAlone, Reads DEF Busy, Head, At
  <2>2. Rewritten(s) /\ Emptied(s) /\ ScriptOK(s) BY <2>1 DEF IInv, Progress
  <2>3. Rewritten(s)'
    BY <2>2, Reads DEF Rewritten, Rewriting, Records, Head, At
  <2>4. Emptied(s)'
    BY <2>2, Reads DEF Emptied, Records, Head, At
  <2> QED BY <2>1, <2>3, <2>4
<1>6. ASSUME NEW c \in Commands, c \notin shaky', ~(Good(c)')
      PROVE  \E u \in Shells : c \in InHand(u)'
  <2>1. \A u \in Shells \ {s} : InHand(u)' = InHand(u) BY <1>a, HandStays
  <2>2. c \notin shaky
    BY <1>6 DEF Head
  <2>3. Good(c) => c \in InHand(s)'
    <3>1. PICK cmd \in script[s].todo :
            /\ trampoline' = [trampoline EXCEPT ![cmd] = Headed]
            /\ executable' = IF trampoline[cmd] = Nobody THEN executable \ {cmd} ELSE executable
            /\ script' = [script EXCEPT ![s].pc = "exec", ![s].cmd = cmd, ![s].todo = @ \ {cmd}]
      BY DEF Head
    <3>2. script'[s].pc = "exec" /\ script'[s].cmd = cmd BY <3>1, Reads DEF Records
    <3>3. CASE c = cmd BY <3>2, <3>3 DEF InHand
    <3>4. CASE c # cmd
      <4>1. /\ trampoline'[c] = trampoline[c] /\ registry' = registry
            /\ c \in executable' <=> c \in executable
        BY <3>1, <3>4, Reads DEF Head
      <4> QED BY <1>6, <4>1 DEF Good, OwnedBy
    <3> QED BY <3>3, <3>4
  <2>4. c \in InHand(s) => c \in InHand(s)'
    BY DEF InHand, Head, At
  <2> QED BY <2>1, <2>2, <2>3, <2>4 DEF IInv, Settled
<1> QED BY <1>1, <1>2, <1>3, <1>4, <1>5, <1>6 DEF IInv, Progress, Settled

(* Its exec line.                                                          *)
LEMMA ExecKeeps ==
  ASSUME IInv, NEW s \in Shells, Exec(s)
  PROVE  IInv'
PROOF
<1>0. s \in Busy
  BY DEF Busy, At, Exec
<1>a. \A u \in Shells \ {s} : script'[u] = script[u]
  BY DEF IInv, TypeOK, Exec, Goes, At
<1>b. /\ script' \in [Shells -> Records] /\ script'[s].pc = "chmod"
      /\ script'[s].kind = script[s].kind /\ script'[s].bundle = script[s].bundle
      /\ script'[s].todo = script[s].todo /\ script'[s].cmd = script[s].cmd
      /\ script'[s].alone = script[s].alone
  BY Going DEF Exec, PCs
<1>1. TypeOK'
  <2>1. script' \in [Shells -> Records]
    BY <1>b
  <2>2. dir' \in [Bundles -> {"absent", "part", "whole"}] /\ torn' \in SUBSET Bundles
    BY DEF IInv, TypeOK, Exec, Goes, At
  <2>3. /\ trampoline' \in [Commands -> Bundles \cup {Nobody, Headed}]
        /\ executable' \in SUBSET Commands /\ shaky' \in SUBSET Commands
    BY DEF IInv, TypeOK, Exec, Goes, At
  <2>4. /\ registry' \in [Commands -> [Bundles -> Nat]]
        /\ tmp' \in [Commands -> [Bundles -> Nat]] \cup {NoFile} /\ out' \in [Shells -> Outs]
    BY DEF IInv, TypeOK, Exec, Goes, At
  <2>5. left' \in [work : 0..MaxWork, faults : 0..MaxFaults]
    BY DEF IInv, TypeOK, Exec, Goes, At
  <2> QED BY <2>1, <2>2, <2>3, <2>4, <2>5 DEF TypeOK, Records
<1>2. Provided'
  BY <1>1, HostAssumption
     DEF IInv, TypeOK, Provided, ScriptOK, Busy, Rewriting, NoLines, Exec, Goes, At
<1>3. ASSUME NEW u \in Shells PROVE ScriptOK(u)'
  BY <1>0, <1>a, Reads DEF IInv, ScriptOK, Busy, Rewriting, Records, Exec, Goes, At
<1>4. ASSUME NEW u \in Shells PROVE Copied(u)'
  BY <1>a DEF IInv, Copied, Exec, Goes, At
<1>5. ASSUME NEW u \in Shells, (u \in Busy /\ script[u].alone)' PROVE Rewritten(u)' /\ Emptied(u)'
  <2>1. u = s /\ s \in Busy /\ script[s].alone
    BY <1>0, <1>5, NotAlone DEF Busy, Exec, Goes, At
  <2>2. Rewritten(s) /\ Emptied(s) /\ ScriptOK(s) BY <2>1 DEF IInv, Progress
  <2>3. Rewritten(s)'
    BY <1>0, <1>b, <2>2, Reads, HostAssumption DEF Rewritten, Rewriting, Exec, At
  <2>4. Emptied(s)'
    BY <2>2, Reads DEF Emptied, Records, Exec, Goes, At
  <2> QED BY <2>1, <2>3, <2>4
<1>6. ASSUME NEW c \in Commands, c \notin shaky', ~(Good(c)')
      PROVE  \E u \in Shells : c \in InHand(u)'
  <2>1. \A u \in Shells \ {s} : InHand(u)' = InHand(u) BY <1>a, HandStays
  <2>2. c \notin shaky
    BY <1>6 DEF Exec
  <2>3. Good(c) => c \in InHand(s)'
    <3>1. CASE c = script[s].cmd BY <1>b, <3>1 DEF InHand
    <3>2. CASE c # script[s].cmd
      <4>1. /\ trampoline'[c] = trampoline[c] /\ registry' = registry
            /\ c \in executable' <=> c \in executable
        BY <3>2, Reads DEF Exec
      <4> QED BY <1>6, <4>1 DEF Good, OwnedBy
    <3> QED BY <3>1, <3>2
  <2>4. c \in InHand(s) => c \in InHand(s)'
    BY DEF InHand, Exec, Goes, At
  <2> QED BY <2>1, <2>2, <2>3, <2>4 DEF IInv, Settled
<1> QED BY <1>1, <1>2, <1>3, <1>4, <1>5, <1>6 DEF IInv, Progress, Settled

(* Its mode.                                                               *)
LEMMA ChmodKeeps ==
  ASSUME IInv, NEW s \in Shells, Chmod(s)
  PROVE  IInv'
PROOF
<1>0. s \in Busy
  BY DEF Busy, At, Chmod
<1>a. \A u \in Shells \ {s} : script'[u] = script[u]
  BY DEF IInv, TypeOK, Chmod, Goes, At
<1>b. /\ script' \in [Shells -> Records] /\ script'[s].pc = "filter"
      /\ script'[s].kind = script[s].kind /\ script'[s].bundle = script[s].bundle
      /\ script'[s].todo = script[s].todo /\ script'[s].cmd = script[s].cmd
      /\ script'[s].alone = script[s].alone
  BY Going DEF Chmod, PCs
<1>1. TypeOK'
  <2>1. script' \in [Shells -> Records]
    BY <1>b
  <2>2. dir' \in [Bundles -> {"absent", "part", "whole"}] /\ torn' \in SUBSET Bundles
    BY DEF IInv, TypeOK, Chmod, Goes, At
  <2>3. /\ trampoline' \in [Commands -> Bundles \cup {Nobody, Headed}]
        /\ executable' \in SUBSET Commands /\ shaky' \in SUBSET Commands
    BY <1>0, Reads DEF IInv, TypeOK, Chmod, Goes, At, Rewriting
  <2>4. /\ registry' \in [Commands -> [Bundles -> Nat]]
        /\ tmp' \in [Commands -> [Bundles -> Nat]] \cup {NoFile} /\ out' \in [Shells -> Outs]
    BY DEF IInv, TypeOK, Chmod, Goes, At
  <2>5. left' \in [work : 0..MaxWork, faults : 0..MaxFaults]
    BY DEF IInv, TypeOK, Chmod, Goes, At
  <2> QED BY <2>1, <2>2, <2>3, <2>4, <2>5 DEF TypeOK, Records
<1>2. Provided'
  BY DEF IInv, Provided, Chmod, Goes, At
<1>3. ASSUME NEW u \in Shells PROVE ScriptOK(u)'
  BY <1>0, <1>a, Reads DEF IInv, ScriptOK, Busy, Rewriting, Records, Chmod, Goes, At
<1>4. ASSUME NEW u \in Shells PROVE Copied(u)'
  BY <1>a DEF IInv, Copied, Chmod, Goes, At
<1>5. ASSUME NEW u \in Shells, (u \in Busy /\ script[u].alone)' PROVE Rewritten(u)' /\ Emptied(u)'
  <2>1. u = s /\ s \in Busy /\ script[s].alone
    BY <1>0, <1>5, NotAlone DEF Busy, Chmod, Goes, At
  <2>2. Rewritten(s) /\ Emptied(s) /\ ScriptOK(s) BY <2>1 DEF IInv, Progress
  <2>3. Rewritten(s)'
    BY <1>0, <1>b, <2>2, Reads, HostAssumption
       DEF Rewritten, Rewriting, Chmod, At, Busy, IInv, ScriptOK
  <2>4. Emptied(s)'
    BY <2>2, Reads DEF Emptied, Records, Chmod, Goes, At
  <2> QED BY <2>1, <2>3, <2>4
<1>6. ASSUME NEW c \in Commands, c \notin shaky', ~(Good(c)')
      PROVE  \E u \in Shells : c \in InHand(u)'
  <2>1. \A u \in Shells \ {s} : InHand(u)' = InHand(u) BY <1>a, HandStays
  <2>2. c \notin shaky
    BY <1>6 DEF Chmod
  <2>3. Good(c) => c \in InHand(s)'
    BY <1>6 DEF Good, OwnedBy, Chmod
  <2>4. c \in InHand(s) => c \in InHand(s)'
    BY DEF InHand, Chmod, Goes, At
  <2> QED BY <2>1, <2>2, <2>3, <2>4 DEF IInv, Settled
<1> QED BY <1>1, <1>2, <1>3, <1>4, <1>5, <1>6 DEF IInv, Progress, Settled

(* The file for grep is made or emptied.                                   *)
LEMMA TruncateKeeps ==
  ASSUME IInv, NEW s \in Shells, Truncate(s)
  PROVE  IInv'
PROOF
<1>0. s \in Busy
  BY DEF Busy, At, Truncate
<1>a. \A u \in Shells \ {s} : script'[u] = script[u] /\ out'[u] = out[u]
  BY DEF IInv, TypeOK, Truncate, Goes, At
<1>b. /\ script' \in [Shells -> Records]
      /\ \/ script[s].pc = "filter" /\ script'[s].pc = "grep"
         \/ /\ script[s].pc = "loop" /\ script'[s].pc = "sweep"
            /\ script[s].kind = "uninstall" /\ script[s].todo = {}
      /\ script'[s].kind = script[s].kind /\ script'[s].bundle = script[s].bundle
      /\ script'[s].todo = script[s].todo /\ script'[s].cmd = script[s].cmd
      /\ script'[s].alone = script[s].alone
  <2>1. CASE At(s, "filter") /\ Goes(s, "grep") BY <2>1, Going DEF At, PCs
  <2>2. CASE /\ At(s, "loop") /\ Goes(s, "sweep")
             /\ script[s].kind = "uninstall" /\ script[s].todo = {}
    BY <2>2, Going DEF At, PCs
  <2> QED BY <2>1, <2>2 DEF Truncate
<1>c. Empty \in [Commands -> [Bundles -> Nat]] /\ tmp' = Empty /\ tmp' # NoFile
  <2>1. Empty \in [Commands -> [Bundles -> Nat]] BY DEF Empty, NoLines
  <2> QED BY <2>1, IsFile DEF Truncate
<1>d. UNCHANGED <<trampoline, executable, registry, shaky>> /\ out'[s] = "tmp"
  BY Reads DEF Truncate
<1>1. TypeOK'
  <2>1. script' \in [Shells -> Records]
    BY <1>b
  <2>2. dir' \in [Bundles -> {"absent", "part", "whole"}] /\ torn' \in SUBSET Bundles
    BY DEF IInv, TypeOK, Truncate
  <2>3. /\ trampoline' \in [Commands -> Bundles \cup {Nobody, Headed}]
        /\ executable' \in SUBSET Commands /\ shaky' \in SUBSET Commands
    BY DEF IInv, TypeOK, Truncate
  <2>4. /\ registry' \in [Commands -> [Bundles -> Nat]]
        /\ tmp' \in [Commands -> [Bundles -> Nat]] \cup {NoFile} /\ out' \in [Shells -> Outs]
    BY <1>c DEF IInv, TypeOK, Truncate, Outs
  <2>5. left' \in [work : 0..MaxWork, faults : 0..MaxFaults]
    BY DEF IInv, TypeOK, Truncate
  <2> QED BY <2>1, <2>2, <2>3, <2>4, <2>5 DEF TypeOK, Records
<1>2. Provided'
  <2>1. \A c \in Commands, b \in Bundles : tmp'[c][b] = 0 BY <1>c DEF Empty, NoLines
  <2> QED BY <1>d, <2>1 DEF IInv, Provided
<1>3. ASSUME NEW u \in Shells PROVE ScriptOK(u)'
  <2>1. ScriptOK(u) /\ Busy' = Busy BY <1>a, <1>b DEF IInv, Busy, At
  <2>2. CASE u = s BY <1>0, <1>b, <1>c, <1>d, <2>1, <2>2, Reads DEF ScriptOK, Rewriting
  <2>3. CASE u # s BY <1>a, <1>c, <1>d, <2>1, <2>3 DEF ScriptOK
  <2> QED BY <2>2, <2>3
<1>4. ASSUME NEW u \in Shells PROVE Copied(u)'
  <2>1. CASE u = s BY <1>b, <2>1 DEF Copied
  <2>2. CASE u # s /\ script[u].pc \in {"move", "swept"}
    <3>1. u \in Busy BY <2>2 DEF Busy, At
    <3>2. shaky = Commands BY <1>0, <2>2, <3>1, NotAlone DEF IInv, ScriptOK
    <3> QED BY <1>d, <3>2 DEF Copied
  <2>3. CASE u # s /\ script[u].pc \notin {"move", "swept"} BY <1>a, <2>3 DEF Copied
  <2> QED BY <2>1, <2>2, <2>3
<1>5. ASSUME NEW u \in Shells, (u \in Busy /\ script[u].alone)' PROVE Rewritten(u)' /\ Emptied(u)'
  <2>1. u = s /\ s \in Busy /\ script[s].alone
    BY <1>0, <1>a, <1>b, <1>5, NotAlone DEF Busy, At
  <2>2. Rewritten(s) /\ Emptied(s) /\ ScriptOK(s) BY <2>1 DEF IInv, Progress
  <2>3. Rewritten(s)'
    BY <1>b, <1>c, <1>d, <2>2 DEF Rewritten, Rewriting, ScriptOK
  <2>4. Emptied(s)'
    <3> DEFINE b == script[s].bundle
    <3>1. CASE script'[s].pc = "grep" BY <3>1 DEF Emptied
    <3>2. CASE script'[s].pc = "sweep"
      <4>1. ASSUME NEW c \in Provides[b] \ (script[s].todo \cup shaky) PROVE Cleared(c, b)
        BY <1>b, <2>2, <3>2, <4>1 DEF Emptied
      <4>2. \A c : Cleared(c, b)' <=> Cleared(c, b) BY <1>b, <1>d DEF Cleared, Good, OwnedBy
      <4> HIDE DEF b
      <4> QED BY <1>b, <1>d, <3>2, <4>1, <4>2 DEF Emptied, b
    <3> QED BY <1>b, <3>1, <3>2
  <2> QED BY <2>1, <2>3, <2>4
<1>6. ASSUME NEW c \in Commands, c \notin shaky', ~(Good(c)')
      PROVE  \E u \in Shells : c \in InHand(u)'
  <2>1. \A u \in Shells \ {s} : InHand(u)' = InHand(u) BY <1>a, HandStays
  <2>2. c \notin shaky /\ ~Good(c) BY <1>6, <1>d DEF Good, OwnedBy
  <2>3. c \in InHand(s) => c \in InHand(s)' BY <1>b DEF InHand
  <2> QED BY <2>1, <2>2, <2>3 DEF IInv, Settled
<1> QED BY <1>1, <1>2, <1>3, <1>4, <1>5, <1>6 DEF IInv, Progress, Settled

(* The registry without the command is written aside.                      *)
LEMMA FilterKeeps ==
  ASSUME IInv, NEW s \in Shells, Filter(s)
  PROVE  IInv'
PROOF
<1>0. s \in Busy
  BY DEF Busy, At, Filter
<1>b. /\ script' \in [Shells -> Records] /\ script'[s].pc = "move" /\ script[s].pc = "grep"
      /\ script'[s].kind = script[s].kind /\ script'[s].bundle = script[s].bundle
      /\ script'[s].todo = script[s].todo /\ script'[s].cmd = script[s].cmd
      /\ script'[s].alone = script[s].alone
  BY Going DEF Filter, At, PCs
<1>c. Filtered(s) \in [Commands -> [Bundles -> Nat]] /\ FromBundles(Filtered(s))
  BY <1>0, Meant, Reads DEF Filter, At, Rewriting
<1>d. Writes(s, Filtered(s)) /\ UNCHANGED <<dir, trampoline, executable, left, shaky, torn>>
  BY DEF Filter
<1>a. \A u \in Shells \ {s} : script'[u] = script[u] /\ out'[u] = out[u]
  BY <1>c, <1>d, Written DEF IInv, TypeOK, Filter, Goes, At
<1>e. script[s].alone => tmp' = Filtered(s) /\ UNCHANGED registry
  BY <1>b, <1>c, <1>d, WrittenAlone
<1>f. ~script[s].alone => shaky = Commands BY <1>0 DEF IInv, ScriptOK
<1>1. TypeOK'
  <2>1. dir' \in [Bundles -> {"absent", "part", "whole"}] /\ torn' \in SUBSET Bundles
    BY <1>d DEF IInv, TypeOK
  <2>2. /\ trampoline' \in [Commands -> Bundles \cup {Nobody, Headed}]
        /\ executable' \in SUBSET Commands /\ shaky' \in SUBSET Commands
    BY <1>d DEF IInv, TypeOK
  <2>3. /\ registry' \in [Commands -> [Bundles -> Nat]]
        /\ tmp' \in [Commands -> [Bundles -> Nat]] \cup {NoFile} /\ out' \in [Shells -> Outs]
    BY <1>c, <1>d, Written
  <2>4. left' \in [work : 0..MaxWork, faults : 0..MaxFaults]
    BY <1>d DEF IInv, TypeOK
  <2> QED BY <1>b, <2>1, <2>2, <2>3, <2>4 DEF TypeOK, Records
<1>2. Provided'
  <2>1. FromBundles(registry') /\ (tmp' # NoFile => FromBundles(tmp')) BY <1>c, <1>d, Written
  <2> QED BY <1>d, <2>1 DEF IInv, Provided, FromBundles
<1>3. ASSUME NEW u \in Shells PROVE ScriptOK(u)'
  <2>1. ScriptOK(u) /\ Busy' = Busy BY <1>a, <1>b DEF IInv, Busy, At
  <2>2. out'[s] = "none" /\ (tmp # NoFile => tmp' # NoFile) BY <1>c, <1>d, Written
  <2>3. CASE u = s BY <1>0, <1>b, <1>d, <2>1, <2>2, <2>3 DEF ScriptOK, Rewriting
  <2>4. CASE u # s BY <1>a, <1>d, <2>1, <2>2, <2>4 DEF ScriptOK
  <2> QED BY <2>3, <2>4
<1>4. ASSUME NEW u \in Shells PROVE Copied(u)'
  <2>1. CASE u = s /\ script[s].alone
    <3>1. \A c \in Commands \ shaky : c # script[s].cmd => tmp'[c] = registry[c]
      BY <1>e, <2>1, Reads DEF Filtered
    <3> QED BY <1>b, <1>d, <1>e, <2>1, <3>1 DEF Copied
  <2>2. CASE ~script[s].alone BY <1>d, <1>f, <2>2 DEF Copied
  <2>3. CASE u # s /\ script[u].pc \in {"move", "swept"}
    <3>1. u \in Busy BY <2>3 DEF Busy, At
    <3>2. shaky = Commands BY <1>0, <2>3, <3>1, NotAlone DEF IInv, ScriptOK
    <3> QED BY <1>d, <3>2 DEF Copied
  <2>4. CASE u # s /\ script[u].pc \notin {"move", "swept"} BY <1>a, <2>4 DEF Copied
  <2> QED BY <2>1, <2>2, <2>3, <2>4
<1>5. ASSUME NEW u \in Shells, (u \in Busy /\ script[u].alone)' PROVE Rewritten(u)' /\ Emptied(u)'
  <2>1. u = s /\ s \in Busy /\ script[s].alone
    BY <1>0, <1>a, <1>b, <1>5, NotAlone DEF Busy, At
  <2>2. Rewritten(s) /\ Emptied(s) /\ ScriptOK(s) BY <2>1 DEF IInv, Progress
  <2>3. Rewritten(s)'
    <3>1. tmp' # NoFile BY <1>c, <1>e, <2>1, IsFile
    <3>2. tmp'[script[s].cmd] = NoLines BY <1>0, <1>b, <1>e, <2>1, Reads DEF Filtered, Rewriting
    <3> QED BY <1>b, <1>d, <2>2, <3>1, <3>2 DEF Rewritten, Rewriting
  <2>4. Emptied(s)'
    BY <1>b DEF Emptied
  <2> QED BY <2>1, <2>3, <2>4
<1>6. ASSUME NEW c \in Commands, c \notin shaky', ~(Good(c)')
      PROVE  \E u \in Shells : c \in InHand(u)'
  <2>1. \A u \in Shells \ {s} : InHand(u)' = InHand(u) BY <1>a, HandStays
  <2>2. c \notin shaky /\ UNCHANGED registry BY <1>6, <1>d, <1>e, <1>f
  <2>3. ~Good(c) BY <1>6, <1>d, <2>2 DEF Good, OwnedBy
  <2>4. c \in InHand(s) => c \in InHand(s)' BY <1>b DEF InHand
  <2> QED BY <2>1, <2>2, <2>3, <2>4 DEF IInv, Settled
<1> QED BY <1>1, <1>2, <1>3, <1>4, <1>5, <1>6 DEF IInv, Progress, Settled

(* It is moved back.                                                       *)
LEMMA MoveKeeps ==
  ASSUME IInv, NEW s \in Shells, Move(s)
  PROVE  IInv'
PROOF
<1>0. s \in Busy
  BY DEF Busy, At, Move
<1>a. \A u \in Shells \ {s} : script'[u] = script[u]
  BY DEF IInv, TypeOK, Move, Moves, Goes, At
<1>b. /\ script' \in [Shells -> Records] /\ script'[s].pc = "append"
      /\ script'[s].kind = script[s].kind /\ script'[s].bundle = script[s].bundle
      /\ script'[s].todo = script[s].todo /\ script'[s].cmd = script[s].cmd
      /\ script'[s].alone = script[s].alone
  BY Going DEF Move, PCs
<1>1. TypeOK'
  <2>1. script' \in [Shells -> Records]
    BY <1>b
  <2>2. dir' \in [Bundles -> {"absent", "part", "whole"}] /\ torn' \in SUBSET Bundles
    BY DEF IInv, TypeOK, Move, Moves, Goes, At
  <2>3. /\ trampoline' \in [Commands -> Bundles \cup {Nobody, Headed}]
        /\ executable' \in SUBSET Commands /\ shaky' \in SUBSET Commands
    BY DEF IInv, TypeOK, Move, Moves, Goes, At
  <2>4. /\ registry' \in [Commands -> [Bundles -> Nat]]
        /\ tmp' \in [Commands -> [Bundles -> Nat]] \cup {NoFile} /\ out' \in [Shells -> Outs]
    BY Moved DEF Move
  <2>5. left' \in [work : 0..MaxWork, faults : 0..MaxFaults]
    BY DEF IInv, TypeOK, Move, Moves, Goes, At
  <2> QED BY <2>1, <2>2, <2>3, <2>4, <2>5 DEF TypeOK, Records
<1>2. Provided'
  BY DEF IInv, Provided, Move, Moves, Goes, At
<1>3. ASSUME NEW u \in Shells PROVE ScriptOK(u)'
  BY <1>0, <1>a, Reads DEF IInv, ScriptOK, Busy, Rewriting, Records, Move, Moves, Goes, At
<1>4. ASSUME NEW u \in Shells PROVE Copied(u)'
  BY <1>a DEF IInv, Copied, Move, Moves, Goes, At
<1>5. ASSUME NEW u \in Shells, (u \in Busy /\ script[u].alone)' PROVE Rewritten(u)' /\ Emptied(u)'
  <2>1. u = s /\ s \in Busy /\ script[s].alone
    BY <1>0, <1>5, NotAlone DEF Busy, Move, Moves, Goes, At
  <2>2. Rewritten(s) /\ Emptied(s) /\ ScriptOK(s) BY <2>1 DEF IInv, Progress
  <2>3. Rewritten(s)'
    BY <2>2, Reads DEF Rewritten, Rewriting, Records, Move, Moves, Goes, At
  <2>4. Emptied(s)'
    BY <2>2, Reads DEF Emptied, Records, Move, Moves, Goes, At
  <2> QED BY <2>1, <2>3, <2>4
<1>6. ASSUME NEW c \in Commands, c \notin shaky', ~(Good(c)')
      PROVE  \E u \in Shells : c \in InHand(u)'
  <2>1. \A u \in Shells \ {s} : InHand(u)' = InHand(u) BY <1>a, HandStays
  <2>2. c \notin shaky
    BY <1>6 DEF Move
  <2>3. Good(c) => c \in InHand(s)'
    <3>1. CASE c = script[s].cmd BY <1>b, <3>1 DEF InHand, At
    <3>2. CASE c # script[s].cmd
      <4>1. registry'[c] = registry[c] BY <2>2, <3>2 DEF IInv, Copied, Move, Moves, At
      <4> QED BY <1>6, <4>1 DEF Good, OwnedBy, Move
    <3> QED BY <3>1, <3>2
  <2>4. c \in InHand(s) => c \in InHand(s)'
    BY DEF InHand, Move, Moves, Goes, At
  <2> QED BY <2>1, <2>2, <2>3, <2>4 DEF IInv, Settled
<1> QED BY <1>1, <1>2, <1>3, <1>4, <1>5, <1>6 DEF IInv, Progress, Settled

(* The new line.                                                           *)
LEMMA AppendKeeps ==
  ASSUME IInv, NEW s \in Shells, Append(s)
  PROVE  IInv'
PROOF
<1>0. s \in Busy
  BY DEF Busy, At, Append
<1>a. \A u \in Shells \ {s} : script'[u] = script[u]
  BY DEF IInv, TypeOK, Append, Goes, At
<1>b. /\ script' \in [Shells -> Records] /\ script'[s].pc = "loop"
      /\ script'[s].kind = script[s].kind /\ script'[s].bundle = script[s].bundle
      /\ script'[s].todo = script[s].todo /\ script'[s].cmd = script[s].cmd
      /\ script'[s].alone = script[s].alone
  BY Going DEF Append, PCs
<1>1. TypeOK'
  <2>1. script' \in [Shells -> Records]
    BY <1>b
  <2>2. dir' \in [Bundles -> {"absent", "part", "whole"}] /\ torn' \in SUBSET Bundles
    BY DEF IInv, TypeOK, Append, Goes, At
  <2>3. /\ trampoline' \in [Commands -> Bundles \cup {Nobody, Headed}]
        /\ executable' \in SUBSET Commands /\ shaky' \in SUBSET Commands
    BY DEF IInv, TypeOK, Append, Goes, At
  <2>4. /\ registry' \in [Commands -> [Bundles -> Nat]]
        /\ tmp' \in [Commands -> [Bundles -> Nat]] \cup {NoFile} /\ out' \in [Shells -> Outs]
    BY <1>0, Reads DEF IInv, TypeOK, NoLines, Append, Goes, At, Rewriting
  <2>5. left' \in [work : 0..MaxWork, faults : 0..MaxFaults]
    BY DEF IInv, TypeOK, Append, Goes, At
  <2> QED BY <2>1, <2>2, <2>3, <2>4, <2>5 DEF TypeOK, Records
<1>2. Provided'
  BY <1>1, HostAssumption
     DEF IInv, TypeOK, Provided, ScriptOK, Busy, Rewriting, NoLines, Append, Goes, At
<1>3. ASSUME NEW u \in Shells PROVE ScriptOK(u)'
  BY <1>0, <1>a, Reads DEF IInv, ScriptOK, Busy, Rewriting, Records, Append, Goes, At
<1>4. ASSUME NEW u \in Shells PROVE Copied(u)'
  BY <1>1, HostAssumption
     DEF IInv, TypeOK, ScriptOK, Copied, Provided, Busy, Rewriting, NoLines, Append, Goes, At
<1>5. ASSUME NEW u \in Shells, (u \in Busy /\ script[u].alone)' PROVE Rewritten(u)' /\ Emptied(u)'
  <2>1. u = s /\ s \in Busy /\ script[s].alone
    BY <1>0, <1>5, NotAlone DEF Busy, Append, Goes, At
  <2>2. Rewritten(s) /\ Emptied(s) /\ ScriptOK(s) BY <2>1 DEF IInv, Progress
  <2>3. Rewritten(s)'
    BY <2>2, Reads DEF Rewritten, Rewriting, Records, Append, Goes, At
  <2>4. Emptied(s)'
    BY <1>0, <2>2, Reads DEF Emptied, ScriptOK, Records, Rewriting, Append, Goes, At
  <2> QED BY <2>1, <2>3, <2>4
<1>6. ASSUME NEW c \in Commands, c \notin shaky', ~(Good(c)')
      PROVE  \E u \in Shells : c \in InHand(u)'
  <2>1. \A u \in Shells \ {s} : InHand(u)' = InHand(u) BY <1>a, HandStays
  <2>2. CASE c = script[s].cmd
    <3>1. script[s].alone BY <1>0, <1>6, <2>2, Reads DEF IInv, ScriptOK, Append, At, Rewriting
    <3>2. /\ trampoline[c] = script[s].bundle /\ c \in executable
          /\ registry[c] = NoLines
      BY <1>0, <2>2, <3>1 DEF IInv, Progress, Rewritten, Rewriting, Append, At
    <3>3. registry'[c] = [NoLines EXCEPT ![script[s].bundle] = 1]
      <4>1. registry'[c] =
              [registry[c] EXCEPT ![script[s].bundle] = registry[c][script[s].bundle] + 1]
        BY <1>0, <2>2, Reads DEF Append
      <4>2. registry[c][script[s].bundle] = 0 BY <1>0, <3>2, Reads DEF NoLines
      <4> QED BY <3>2, <4>1, <4>2
    <3> QED BY <1>0, <1>6, <3>2, <3>3, Reads DEF Good, OwnedBy, Append
  <2>3. CASE c # script[s].cmd
    <3>1. c \notin shaky BY <1>6, <2>3 DEF Append
    <3>2. registry'[c] = registry[c] BY <2>3, Reads DEF Append
    <3>3. c \notin InHand(s) BY <2>3 DEF InHand, Append, At
    <3>4. ~Good(c) BY <1>6, <3>2 DEF Good, OwnedBy, Append
    <3> QED BY <2>1, <3>1, <3>3, <3>4 DEF IInv, Settled
  <2> QED BY <2>2, <2>3
<1> QED BY <1>1, <1>2, <1>3, <1>4, <1>5, <1>6 DEF IInv, Progress, Settled

(* An install ends.                                                        *)
LEMMA InstalledKeeps ==
  ASSUME IInv, NEW s \in Shells, Installed(s)
  PROVE  IInv'
PROOF
<1>0. s \in Busy
  BY DEF Busy, At, Installed
<1>a. \A u \in Shells \ {s} : script'[u] = script[u]
  BY DEF IInv, TypeOK, Installed, At, Idle
<1>1. TypeOK'
  <2>1. script' \in [Shells -> Records]
    BY Reads DEF Records, PCs, Installed, At, Idle
  <2>2. dir' \in [Bundles -> {"absent", "part", "whole"}] /\ torn' \in SUBSET Bundles
    BY DEF IInv, TypeOK, Installed, At, Idle
  <2>3. /\ trampoline' \in [Commands -> Bundles \cup {Nobody, Headed}]
        /\ executable' \in SUBSET Commands /\ shaky' \in SUBSET Commands
    BY DEF IInv, TypeOK, Installed, At, Idle
  <2>4. /\ registry' \in [Commands -> [Bundles -> Nat]]
        /\ tmp' \in [Commands -> [Bundles -> Nat]] \cup {NoFile} /\ out' \in [Shells -> Outs]
    BY DEF IInv, TypeOK, Installed, At, Idle
  <2>5. left' \in [work : 0..MaxWork, faults : 0..MaxFaults]
    BY DEF IInv, TypeOK, Installed, At, Idle
  <2> QED BY <2>1, <2>2, <2>3, <2>4, <2>5 DEF TypeOK, Records
<1>2. Provided'
  BY DEF IInv, Provided, Installed, At, Idle
<1>3. ASSUME NEW u \in Shells PROVE ScriptOK(u)'
  BY <1>0, <1>a, Reads DEF IInv, ScriptOK, Busy, Rewriting, Records, Installed, At, Idle
<1>4. ASSUME NEW u \in Shells PROVE Copied(u)'
  BY <1>a DEF IInv, Copied, Installed, At, Idle
<1>5. ASSUME NEW u \in Shells, (u \in Busy /\ script[u].alone)' PROVE Rewritten(u)' /\ Emptied(u)'
  <2>1. u = s /\ s \in Busy /\ script[s].alone
    BY <1>0, <1>5, NotAlone DEF Busy, Installed, At, Idle
  <2>2. Rewritten(s) /\ Emptied(s) /\ ScriptOK(s) BY <2>1 DEF IInv, Progress
  <2>3. Rewritten(s)'
    BY <2>2, Reads DEF Rewritten, Rewriting, Records, Installed, At, Idle
  <2>4. Emptied(s)'
    BY <2>2, Reads DEF Emptied, Records, Installed, At, Idle
  <2> QED BY <2>1, <2>3, <2>4
<1>6. ASSUME NEW c \in Commands, c \notin shaky', ~(Good(c)')
      PROVE  \E u \in Shells : c \in InHand(u)'
  <2>1. \A u \in Shells \ {s} : InHand(u)' = InHand(u) BY <1>a, HandStays
  <2>2. c \notin shaky
    BY <1>6 DEF Installed
  <2>3. Good(c) => c \in InHand(s)'
    BY <1>6 DEF Good, OwnedBy, Installed
  <2>4. c \in InHand(s) => c \in InHand(s)'
    BY DEF InHand, Installed, At, Idle
  <2> QED BY <2>1, <2>2, <2>3, <2>4 DEF IInv, Settled
<1> QED BY <1>1, <1>2, <1>3, <1>4, <1>5, <1>6 DEF IInv, Progress, Settled

(* An uninstall looks at a command.                                        *)
LEMMA LookKeeps ==
  ASSUME IInv, NEW s \in Shells, Look(s)
  PROVE  IInv'
PROOF
<1>0. s \in Busy
  BY DEF Busy, At, Look
<1>a. \A u \in Shells \ {s} : script'[u] = script[u]
  BY DEF IInv, TypeOK, Look, At
<1>1. TypeOK'
  <2>1. script' \in [Shells -> Records]
    <3>1. PICK c \in script[s].todo : script' =
            [script EXCEPT ![s].todo = @ \ {c}, ![s].cmd = c,
               ![s].pc = IF OwnedBy(c, script[s].bundle) \/ registry[c] = NoLines
                           THEN "rm" ELSE "loop"]
      BY DEF Look
    <3> DEFINE pc == IF OwnedBy(c, script[s].bundle) \/ registry[c] = NoLines THEN "rm" ELSE "loop"
    <3>2. pc \in PCs BY DEF PCs
    <3>3. c \in Commands /\ script[s].todo \ {c} \in SUBSET Commands BY <1>0, Reads
    <3>4. [script[s] EXCEPT !.todo = @ \ {c}, !.cmd = c, !.pc = pc] \in Records
      <4> HIDE DEF pc
      <4> QED BY <3>2, <3>3, Reads DEF Records
    <3>5. script' = [script EXCEPT ![s] = [script[s] EXCEPT !.todo = @ \ {c}, !.cmd = c, !.pc = pc]]
      BY <3>1
    <3> QED BY <3>4, <3>5, Reads
  <2>2. dir' \in [Bundles -> {"absent", "part", "whole"}] /\ torn' \in SUBSET Bundles
    BY DEF IInv, TypeOK, Look, At
  <2>3. /\ trampoline' \in [Commands -> Bundles \cup {Nobody, Headed}]
        /\ executable' \in SUBSET Commands /\ shaky' \in SUBSET Commands
    BY DEF IInv, TypeOK, Look, At
  <2>4. /\ registry' \in [Commands -> [Bundles -> Nat]]
        /\ tmp' \in [Commands -> [Bundles -> Nat]] \cup {NoFile} /\ out' \in [Shells -> Outs]
    BY DEF IInv, TypeOK, Look, At
  <2>5. left' \in [work : 0..MaxWork, faults : 0..MaxFaults]
    BY DEF IInv, TypeOK, Look, At
  <2> QED BY <2>1, <2>2, <2>3, <2>4, <2>5 DEF TypeOK, Records
<1>2. Provided'
  BY DEF IInv, Provided, Look, At
<1>b. /\ Busy' = Busy /\ UNCHANGED <<out, tmp, shaky>>
      /\ script[s] \in Records /\ script[s].pc = "loop" /\ script[s].kind = "uninstall"
  BY <1>0, <1>a, Reads DEF Busy, Look, At
<1>3. ASSUME NEW u \in Shells PROVE ScriptOK(u)'
  <2>1. CASE u # s
    <3>1. script'[u] = script[u] /\ (u \in Busy' <=> u \in Busy) BY <1>a, <1>b, <2>1
    <3> QED BY <1>b, <3>1 DEF IInv, ScriptOK
  <2>2. CASE u = s
    <3>1. PICK c \in script[s].todo :
            /\ script'[s].todo = script[s].todo \ {c} /\ script'[s].cmd = c
            /\ script'[s].pc \in {"rm", "loop"} /\ script'[s].kind = script[s].kind
            /\ script'[s].bundle = script[s].bundle /\ script'[s].alone = script[s].alone
      BY Reads DEF Look, Records
    <3>2. ScriptOK(s) BY DEF IInv
    <3> QED BY <1>0, <1>b, <2>2, <3>1, <3>2 DEF ScriptOK, Rewriting
  <2> QED BY <2>1, <2>2
<1>4. ASSUME NEW u \in Shells PROVE Copied(u)'
  BY SMTT(30), <1>a, Reads DEF IInv, Copied, Records, Look, At
<1>5. ASSUME NEW u \in Shells, (u \in Busy /\ script[u].alone)' PROVE Rewritten(u)' /\ Emptied(u)'
  <2>1. u = s /\ s \in Busy /\ script[s].alone
    BY <1>0, <1>a, <1>5, NotAlone, Reads DEF Busy, Look, At
  <2>2. Rewritten(s) /\ Emptied(s) /\ ScriptOK(s) BY <2>1 DEF IInv, Progress
  <2>3. Rewritten(s)'
    BY <2>2, Reads DEF Rewritten, Rewriting, Records, Look, At
  <2>4. Emptied(s)'
    <3> DEFINE b == script[s].bundle
    <3>1. PICK d \in script[s].todo : script' =
            [script EXCEPT ![s].todo = @ \ {d}, ![s].cmd = d,
               ![s].pc = IF OwnedBy(d, b) \/ registry[d] = NoLines THEN "rm" ELSE "loop"]
      BY DEF Look
    <3>2. /\ script'[s].bundle = b /\ script'[s].kind = "uninstall"
          /\ script'[s].todo = script[s].todo \ {d} /\ script'[s].cmd = d
          /\ script'[s].pc = IF OwnedBy(d, b) \/ registry[d] = NoLines THEN "rm" ELSE "loop"
      BY <3>1, Reads DEF Look, Records
    <3>3. d \notin shaky => Good(d)
      <4>1. \A o \in Shells \ {s} : InHand(o) = {}
        BY <1>0, <2>1, <2>2, Reads DEF ScriptOK, Busy, At, InHand
      <4>2. d \notin InHand(s) BY DEF InHand, Look, At
      <4> QED BY <1>0, <4>1, <4>2, Reads DEF IInv, Settled
    <3>4. ASSUME NEW c \in Provides[b] \ (script[s].todo \cup shaky) PROVE Cleared(c, b)
      BY <2>2, <3>4 DEF Emptied, Look, At
    <3>5. /\ UNCHANGED <<trampoline, executable, registry, shaky>> BY DEF Look
    <3>6. \A c : (Good(c)' <=> Good(c)) /\ (Cleared(c, b)' <=> Cleared(c, b))
                 /\ (OwnedBy(c, b)' <=> OwnedBy(c, b))
      BY <3>5, <3>2 DEF Good, Cleared, OwnedBy
    <3>7. ASSUME NEW c \in Provides[b] \ ((script[s].todo \ {d}) \cup shaky)
          PROVE  IF script'[s].pc = "rm" /\ c = d
                   THEN Good(c) /\ (OwnedBy(c, b) \/ registry[c] = NoLines)
                   ELSE Cleared(c, b)
      <4>1. CASE c = d BY <3>2, <3>3, <3>7, <4>1 DEF Cleared
      <4>2. CASE c # d BY <3>4, <3>7, <4>2
      <4> QED BY <4>1, <4>2
    <3> QED BY <3>2, <3>5, <3>6, <3>7 DEF Emptied, Good, Cleared, OwnedBy
  <2> QED BY <2>1, <2>3, <2>4
<1>6. ASSUME NEW c \in Commands, c \notin shaky', ~(Good(c)')
      PROVE  \E u \in Shells : c \in InHand(u)'
  <2>1. \A u \in Shells \ {s} : InHand(u)' = InHand(u) BY <1>a, HandStays
  <2>2. c \notin shaky
    BY <1>6 DEF Look
  <2>3. Good(c) => c \in InHand(s)'
    BY <1>6 DEF Good, OwnedBy, Look
  <2>4. c \in InHand(s) => c \in InHand(s)'
    BY Reads DEF InHand, Records, Look, At
  <2> QED BY <2>1, <2>2, <2>3, <2>4 DEF IInv, Settled
<1> QED BY <1>1, <1>2, <1>3, <1>4, <1>5, <1>6 DEF IInv, Progress, Settled

(* It removes one.                                                         *)
LEMMA RmKeeps ==
  ASSUME IInv, NEW s \in Shells, Rm(s)
  PROVE  IInv'
PROOF
<1>0. s \in Busy
  BY DEF Busy, At, Rm
<1>a. \A u \in Shells \ {s} : script'[u] = script[u]
  BY DEF IInv, TypeOK, Rm, Goes, At
<1>b. /\ script' \in [Shells -> Records] /\ script'[s].pc = "loop"
      /\ script'[s].kind = script[s].kind /\ script'[s].bundle = script[s].bundle
      /\ script'[s].todo = script[s].todo /\ script'[s].cmd = script[s].cmd
      /\ script'[s].alone = script[s].alone
  BY Going DEF Rm, PCs
<1>1. TypeOK'
  <2>1. script' \in [Shells -> Records]
    BY <1>b
  <2>2. dir' \in [Bundles -> {"absent", "part", "whole"}] /\ torn' \in SUBSET Bundles
    BY DEF IInv, TypeOK, Rm, Goes, At
  <2>3. /\ trampoline' \in [Commands -> Bundles \cup {Nobody, Headed}]
        /\ executable' \in SUBSET Commands /\ shaky' \in SUBSET Commands
    BY DEF IInv, TypeOK, Rm, Goes, At
  <2>4. /\ registry' \in [Commands -> [Bundles -> Nat]]
        /\ tmp' \in [Commands -> [Bundles -> Nat]] \cup {NoFile} /\ out' \in [Shells -> Outs]
    BY DEF IInv, TypeOK, Rm, Goes, At
  <2>5. left' \in [work : 0..MaxWork, faults : 0..MaxFaults]
    BY DEF IInv, TypeOK, Rm, Goes, At
  <2> QED BY <2>1, <2>2, <2>3, <2>4, <2>5 DEF TypeOK, Records
<1>2. Provided'
  BY <1>1, HostAssumption
     DEF IInv, TypeOK, Provided, ScriptOK, Busy, Rewriting, NoLines, Rm, Goes, At
<1>3. ASSUME NEW u \in Shells PROVE ScriptOK(u)'
  BY <1>0, <1>a, Reads DEF IInv, ScriptOK, Busy, Rewriting, Records, Rm, Goes, At
<1>4. ASSUME NEW u \in Shells PROVE Copied(u)'
  BY <1>a DEF IInv, Copied, Rm, Goes, At
<1>5. ASSUME NEW u \in Shells, (u \in Busy /\ script[u].alone)' PROVE Rewritten(u)' /\ Emptied(u)'
  <2>1. u = s /\ s \in Busy /\ script[s].alone
    BY <1>0, <1>5, NotAlone DEF Busy, Rm, Goes, At
  <2>2. Rewritten(s) /\ Emptied(s) /\ ScriptOK(s) BY <2>1 DEF IInv, Progress
  <2>3. Rewritten(s)'
    BY <2>2, Reads DEF Rewritten, Rewriting, Records, Rm, Goes, At
  <2>4. Emptied(s)'
    <3> DEFINE b == script[s].bundle
    <3>1. ASSUME NEW c \in Provides[b] \ (script[s].todo \cup shaky) PROVE Cleared(c, b)'
      <4>1. c \in Commands BY <1>0, Reads
      <4>2. CASE c = script[s].cmd
        BY <2>2, <3>1, <4>1, <4>2, <1>b, Reads DEF Emptied, ScriptOK, Cleared, OwnedBy, Rm, At
      <4>3. CASE c # script[s].cmd
        <5>1. Cleared(c, b) BY <2>2, <3>1, <4>3 DEF Emptied, ScriptOK, Rm, At
        <5> QED BY <4>1, <4>3, <5>1, <1>b, Reads DEF Cleared, Good, OwnedBy, Rm
      <4> QED BY <4>2, <4>3
    <3> QED BY <3>1, <1>b DEF Emptied, Rm
  <2> QED BY <2>1, <2>3, <2>4
<1>6. ASSUME NEW c \in Commands, c \notin shaky', ~(Good(c)')
      PROVE  \E u \in Shells : c \in InHand(u)'
  <2>1. \A u \in Shells \ {s} : InHand(u)' = InHand(u) BY <1>a, HandStays
  <2>2. c \notin shaky
    BY <1>6 DEF Rm
  <2>3. Good(c) => c \in InHand(s)'
    <3>1. CASE c = script[s].cmd
      BY <1>b, <3>1 DEF IInv, ScriptOK, InHand, Rm, At
    <3>2. CASE c # script[s].cmd
      BY <1>6, <3>2, Reads DEF Good, OwnedBy, Rm
    <3> QED BY <3>1, <3>2
  <2>4. c \in InHand(s) => c \in InHand(s)'
    BY <1>b DEF IInv, ScriptOK, InHand, Rm, At
  <2> QED BY <2>1, <2>2, <2>3, <2>4 DEF IInv, Settled
<1> QED BY <1>1, <1>2, <1>3, <1>4, <1>5, <1>6 DEF IInv, Progress, Settled

(* The registry without the bundle is written aside.                       *)
LEMMA SweepKeeps ==
  ASSUME IInv, NEW s \in Shells, Sweep(s)
  PROVE  IInv'
PROOF
<1>0. s \in Busy
  BY DEF Busy, At, Sweep
<1>b. /\ script' \in [Shells -> Records] /\ script'[s].pc = "swept" /\ script[s].pc = "sweep"
      /\ script'[s].kind = script[s].kind /\ script'[s].bundle = script[s].bundle
      /\ script'[s].todo = script[s].todo /\ script'[s].cmd = script[s].cmd
      /\ script'[s].alone = script[s].alone
  BY Going DEF Sweep, At, PCs
<1>c. Rest(s) \in [Commands -> [Bundles -> Nat]] /\ FromBundles(Rest(s))
  BY <1>0, Meant, Reads DEF Sweep, At, Rewriting
<1>d. Writes(s, Rest(s)) /\ UNCHANGED <<dir, trampoline, executable, left, shaky, torn>>
  BY DEF Sweep
<1>a. \A u \in Shells \ {s} : script'[u] = script[u] /\ out'[u] = out[u]
  BY <1>c, <1>d, Written DEF IInv, TypeOK, Sweep, Goes, At
<1>e. script[s].alone => tmp' = Rest(s) /\ UNCHANGED registry
  BY <1>b, <1>c, <1>d, WrittenAlone
<1>f. ~script[s].alone => shaky = Commands BY <1>0 DEF IInv, ScriptOK
<1>1. TypeOK'
  <2>1. dir' \in [Bundles -> {"absent", "part", "whole"}] /\ torn' \in SUBSET Bundles
    BY <1>d DEF IInv, TypeOK
  <2>2. /\ trampoline' \in [Commands -> Bundles \cup {Nobody, Headed}]
        /\ executable' \in SUBSET Commands /\ shaky' \in SUBSET Commands
    BY <1>d DEF IInv, TypeOK
  <2>3. /\ registry' \in [Commands -> [Bundles -> Nat]]
        /\ tmp' \in [Commands -> [Bundles -> Nat]] \cup {NoFile} /\ out' \in [Shells -> Outs]
    BY <1>c, <1>d, Written
  <2>4. left' \in [work : 0..MaxWork, faults : 0..MaxFaults]
    BY <1>d DEF IInv, TypeOK
  <2> QED BY <1>b, <2>1, <2>2, <2>3, <2>4 DEF TypeOK, Records
<1>2. Provided'
  <2>1. FromBundles(registry') /\ (tmp' # NoFile => FromBundles(tmp')) BY <1>c, <1>d, Written
  <2> QED BY <1>d, <2>1 DEF IInv, Provided, FromBundles
<1>3. ASSUME NEW u \in Shells PROVE ScriptOK(u)'
  <2>1. ScriptOK(u) /\ Busy' = Busy BY <1>a, <1>b DEF IInv, Busy, At
  <2>2. out'[s] = "none" /\ (tmp # NoFile => tmp' # NoFile) BY <1>c, <1>d, Written
  <2>3. CASE u = s BY <1>0, <1>b, <1>d, <2>1, <2>2, <2>3 DEF ScriptOK, Rewriting
  <2>4. CASE u # s BY <1>a, <1>d, <2>1, <2>2, <2>4 DEF ScriptOK
  <2> QED BY <2>3, <2>4
<1>4. ASSUME NEW u \in Shells PROVE Copied(u)'
  <2>1. CASE u = s /\ script[s].alone
    <3>1. \A c \in Commands \ shaky : tmp'[c] = [registry[c] EXCEPT ![script[s].bundle] = 0]
      BY <1>e, <2>1 DEF Rest
    <3> QED BY <1>b, <1>d, <1>e, <2>1, <3>1 DEF Copied
  <2>2. CASE ~script[s].alone BY <1>d, <1>f, <2>2 DEF Copied
  <2>3. CASE u # s /\ script[u].pc \in {"move", "swept"}
    <3>1. u \in Busy BY <2>3 DEF Busy, At
    <3>2. shaky = Commands BY <1>0, <2>3, <3>1, NotAlone DEF IInv, ScriptOK
    <3> QED BY <1>d, <3>2 DEF Copied
  <2>4. CASE u # s /\ script[u].pc \notin {"move", "swept"} BY <1>a, <2>4 DEF Copied
  <2> QED BY <2>1, <2>2, <2>3, <2>4
<1>5. ASSUME NEW u \in Shells, (u \in Busy /\ script[u].alone)' PROVE Rewritten(u)' /\ Emptied(u)'
  <2>1. u = s /\ s \in Busy /\ script[s].alone
    BY <1>0, <1>a, <1>b, <1>5, NotAlone DEF Busy, At
  <2>2. Rewritten(s) /\ Emptied(s) /\ ScriptOK(s) BY <2>1 DEF IInv, Progress
  <2>3. Rewritten(s)'
    <3>1. tmp' # NoFile BY <1>c, <1>e, <2>1, IsFile
    <3> QED BY <1>b, <3>1 DEF Rewritten, Rewriting
  <2>4. Emptied(s)'
    <3> DEFINE b == script[s].bundle
    <3>1. ASSUME NEW c \in Provides[b] \ (script[s].todo \cup shaky) PROVE Cleared(c, b)
      BY <1>b, <2>2, <3>1 DEF Emptied, ScriptOK
    <3>2. UNCHANGED <<trampoline, executable, registry, shaky>> BY <1>d, <1>e, <2>1
    <3>3. \A c : Cleared(c, b)' <=> Cleared(c, b) BY <1>b, <3>2 DEF Cleared, Good, OwnedBy
    <3> HIDE DEF b
    <3> QED BY <1>b, <3>1, <3>2, <3>3 DEF Emptied, b
  <2> QED BY <2>1, <2>3, <2>4
<1>6. ASSUME NEW c \in Commands, c \notin shaky', ~(Good(c)')
      PROVE  \E u \in Shells : c \in InHand(u)'
  <2>1. \A u \in Shells \ {s} : InHand(u)' = InHand(u) BY <1>a, HandStays
  <2>2. c \notin shaky /\ UNCHANGED registry BY <1>6, <1>d, <1>e, <1>f
  <2>3. ~Good(c) BY <1>6, <1>d, <2>2 DEF Good, OwnedBy
  <2>4. c \in InHand(s) => c \in InHand(s)' BY <1>b DEF InHand
  <2> QED BY <2>1, <2>2, <2>3, <2>4 DEF IInv, Settled
<1> QED BY <1>1, <1>2, <1>3, <1>4, <1>5, <1>6 DEF IInv, Progress, Settled

(* It is moved back.                                                       *)
LEMMA SweptKeeps ==
  ASSUME IInv, NEW s \in Shells, Swept(s)
  PROVE  IInv'
PROOF
<1>0. s \in Busy
  BY DEF Busy, At, Swept
<1>a. \A u \in Shells \ {s} : script'[u] = script[u]
  BY DEF IInv, TypeOK, Swept, Moves, Goes, At
<1>b. /\ script' \in [Shells -> Records] /\ script'[s].pc = "advice"
      /\ script'[s].kind = script[s].kind /\ script'[s].bundle = script[s].bundle
      /\ script'[s].todo = script[s].todo /\ script'[s].cmd = script[s].cmd
      /\ script'[s].alone = script[s].alone
  BY Going DEF Swept, PCs
<1>1. TypeOK'
  <2>1. script' \in [Shells -> Records]
    BY <1>b
  <2>2. dir' \in [Bundles -> {"absent", "part", "whole"}] /\ torn' \in SUBSET Bundles
    BY DEF IInv, TypeOK, Swept, Moves, Goes, At
  <2>3. /\ trampoline' \in [Commands -> Bundles \cup {Nobody, Headed}]
        /\ executable' \in SUBSET Commands /\ shaky' \in SUBSET Commands
    BY DEF IInv, TypeOK, Swept, Moves, Goes, At
  <2>4. /\ registry' \in [Commands -> [Bundles -> Nat]]
        /\ tmp' \in [Commands -> [Bundles -> Nat]] \cup {NoFile} /\ out' \in [Shells -> Outs]
    BY Moved DEF Swept
  <2>5. left' \in [work : 0..MaxWork, faults : 0..MaxFaults]
    BY DEF IInv, TypeOK, Swept, Moves, Goes, At
  <2> QED BY <2>1, <2>2, <2>3, <2>4, <2>5 DEF TypeOK, Records
<1>2. Provided'
  BY DEF IInv, Provided, Swept, Moves, Goes, At
<1>3. ASSUME NEW u \in Shells PROVE ScriptOK(u)'
  BY <1>0, <1>a, Reads DEF IInv, ScriptOK, Busy, Rewriting, Records, Swept, Moves, Goes, At
<1>4. ASSUME NEW u \in Shells PROVE Copied(u)'
  BY <1>a DEF IInv, Copied, Swept, Moves, Goes, At
<1>5. ASSUME NEW u \in Shells, (u \in Busy /\ script[u].alone)' PROVE Rewritten(u)' /\ Emptied(u)'
  <2>1. u = s /\ s \in Busy /\ script[s].alone
    BY <1>0, <1>5, NotAlone DEF Busy, Swept, Moves, Goes, At
  <2>2. Rewritten(s) /\ Emptied(s) /\ ScriptOK(s) BY <2>1 DEF IInv, Progress
  <2>3. Rewritten(s)'
    BY <2>2, Reads DEF Rewritten, Rewriting, Records, Swept, Moves, Goes, At
  <2>4. Emptied(s)'
    BY <2>2, Reads DEF Emptied, Records, Swept, Moves, Goes, At
  <2> QED BY <2>1, <2>3, <2>4
<1>6. ASSUME NEW c \in Commands, c \notin shaky', ~(Good(c)')
      PROVE  \E u \in Shells : c \in InHand(u)'
  <2> DEFINE b == script[s].bundle
  <2>1. \A u \in Shells \ {s} : InHand(u)' = InHand(u) BY <1>a, HandStays
  <2>2. c \notin shaky /\ b \in Bundles BY <1>0, <1>6, Reads DEF Swept
  <2>3. registry'[c] = registry[c] \/ registry'[c] = [registry[c] EXCEPT ![b] = 0]
    BY <2>2 DEF IInv, Copied, Swept, Moves, At
  <2>4. c \in Provides[b] => FALSE
    <3> SUFFICES ASSUME c \in Provides[b] PROVE FALSE OBVIOUS
    <3>1. script[s].alone BY <1>0, <2>2 DEF IInv, ScriptOK
    <3>2. Rewritten(s) /\ Emptied(s) BY <1>0, <3>1 DEF IInv, Progress
    <3>3. tmp # NoFile BY <3>2 DEF Rewritten, Swept, At
    <3>4. registry'[c] = [registry[c] EXCEPT ![b] = 0]
      BY <2>2, <3>3 DEF IInv, Copied, Swept, Moves, At
    <3>5. Cleared(c, b) BY <2>2, <3>2 DEF Emptied, IInv, ScriptOK, Swept, At
    <3>6. CASE trampoline[c] = Nobody
      <4>1. registry[c] = NoLines \/ OwnedBy(c, b)
        BY <3>5, <3>6, HostAssumption DEF Cleared, Good
      <4>2. registry'[c] = NoLines BY <2>2, <3>4, <4>1 DEF OwnedBy, NoLines
      <4> QED BY <1>6, <3>6, <4>2 DEF Good, Swept
    <3>7. CASE trampoline[c] # Nobody
      <4>1. Good(c) /\ ~OwnedBy(c, b) /\ OwnedBy(c, trampoline[c]) /\ trampoline[c] \in Bundles
        BY <3>5, <3>7 DEF Cleared, Good
      <4>2. trampoline[c] # b BY <4>1
      <4>3. registry[c][b] = 0 BY <2>2, <4>1, <4>2 DEF OwnedBy, NoLines
      <4>4. registry'[c] = registry[c] BY <2>2, <3>4, <4>3, Reads
      <4> QED BY <1>6, <4>1, <4>4 DEF Good, OwnedBy, Swept
    <3> QED BY <3>6, <3>7
  <2>5. c \notin Provides[b] => ~Good(c)
    <3> SUFFICES ASSUME c \notin Provides[b] PROVE ~Good(c) OBVIOUS
    <3>1. registry[c][b] = 0 BY <2>2, Reads DEF IInv, Provided
    <3>2. registry'[c] = registry[c] BY <2>2, <2>3, <3>1, Reads
    <3> QED BY <1>6, <3>2 DEF Good, OwnedBy, Swept
  <2>6. c \notin InHand(s) BY <2>4 DEF InHand, Swept, At
  <2> QED BY <2>1, <2>2, <2>4, <2>5, <2>6 DEF IInv, Settled
<1> QED BY <1>1, <1>2, <1>3, <1>4, <1>5, <1>6 DEF IInv, Progress, Settled

(* An uninstall ends.                                                      *)
LEMMA UninstalledKeeps ==
  ASSUME IInv, NEW s \in Shells, Uninstalled(s)
  PROVE  IInv'
PROOF
<1>0. s \in Busy
  BY DEF Busy, At, Uninstalled
<1>a. \A u \in Shells \ {s} : script'[u] = script[u]
  BY DEF IInv, TypeOK, Uninstalled, At, Idle
<1>1. TypeOK'
  <2>1. script' \in [Shells -> Records]
    BY <1>0, Reads DEF Records, PCs, Kinds, Uninstalled, At, Idle
  <2>2. dir' \in [Bundles -> {"absent", "part", "whole"}] /\ torn' \in SUBSET Bundles
    BY DEF IInv, TypeOK, Uninstalled, At, Idle
  <2>3. /\ trampoline' \in [Commands -> Bundles \cup {Nobody, Headed}]
        /\ executable' \in SUBSET Commands /\ shaky' \in SUBSET Commands
    BY DEF IInv, TypeOK, Uninstalled, At, Idle
  <2>4. /\ registry' \in [Commands -> [Bundles -> Nat]]
        /\ tmp' \in [Commands -> [Bundles -> Nat]] \cup {NoFile} /\ out' \in [Shells -> Outs]
    BY DEF IInv, TypeOK, Uninstalled, At, Idle
  <2>5. left' \in [work : 0..MaxWork, faults : 0..MaxFaults]
    BY DEF IInv, TypeOK, Uninstalled, At, Idle
  <2> QED BY <2>1, <2>2, <2>3, <2>4, <2>5 DEF TypeOK, Records
<1>2. Provided'
  BY DEF IInv, Provided, Uninstalled, At, Idle
<1>3. ASSUME NEW u \in Shells PROVE ScriptOK(u)'
  BY <1>0, <1>a, Reads DEF IInv, ScriptOK, Busy, Rewriting, Records, Uninstalled, At, Idle
<1>4. ASSUME NEW u \in Shells PROVE Copied(u)'
  BY <1>a DEF IInv, Copied, Uninstalled, At, Idle
<1>5. ASSUME NEW u \in Shells, (u \in Busy /\ script[u].alone)' PROVE Rewritten(u)' /\ Emptied(u)'
  <2>1. u = s /\ s \in Busy /\ script[s].alone
    BY <1>0, <1>5, NotAlone DEF Busy, Uninstalled, At, Idle
  <2>2. Rewritten(s) /\ Emptied(s) /\ ScriptOK(s) BY <2>1 DEF IInv, Progress
  <2>3. Rewritten(s)'
    BY <2>2, Reads DEF Rewritten, Rewriting, Records, Uninstalled, At, Idle
  <2>4. Emptied(s)'
    BY <2>2, Reads DEF Emptied, Records, Uninstalled, At, Idle
  <2> QED BY <2>1, <2>3, <2>4
<1>6. ASSUME NEW c \in Commands, c \notin shaky', ~(Good(c)')
      PROVE  \E u \in Shells : c \in InHand(u)'
  <2>1. \A u \in Shells \ {s} : InHand(u)' = InHand(u) BY <1>a, HandStays
  <2>2. c \notin shaky
    BY <1>6 DEF Uninstalled
  <2>3. Good(c) => c \in InHand(s)'
    BY <1>6 DEF Good, OwnedBy, Uninstalled
  <2>4. c \in InHand(s) => c \in InHand(s)'
    BY DEF InHand, Uninstalled, At, Idle
  <2> QED BY <2>1, <2>2, <2>3, <2>4 DEF IInv, Settled
<1> QED BY <1>1, <1>2, <1>3, <1>4, <1>5, <1>6 DEF IInv, Progress, Settled

(* A script fails to write: from now on no command may be relied on.       *)
LEMMA WriteFailsKeeps ==
  ASSUME IInv, NEW s \in Shells, WriteFails(s)
  PROVE  IInv'
PROOF
<1>0. s \in Busy
  BY DEF Busy, At, WriteFails
<1>a. PICK pc \in {"chmod", "loop", "move", "swept"} :
        /\ script' = [script EXCEPT ![s].pc = pc, ![s].alone = FALSE]
        /\ <<script[s].pc, pc>> \in
             {<<"exec", "chmod">>, <<"append", "loop">>, <<"grep", "move">>, <<"sweep", "swept">>}
  BY DEF WriteFails, At
<1>b. /\ script' \in [Shells -> Records] /\ script'[s].pc = pc
      /\ script'[s].kind = script[s].kind /\ script'[s].bundle = script[s].bundle
      /\ script'[s].todo = script[s].todo /\ script'[s].cmd = script[s].cmd
      /\ script'[s].alone = FALSE
      /\ \A u \in Shells \ {s} : script'[u] = script[u]
  <2>1. script \in [Shells -> Records] /\ script[s] \in Records /\ pc \in PCs
    BY <1>a, Reads DEF PCs
  <2>2. [script[s] EXCEPT !.pc = pc, !.alone = FALSE] \in Records BY <2>1 DEF Records
  <2> QED BY <1>a, <2>1, <2>2 DEF Records
<1>c. /\ registry' \in [Commands -> [Bundles -> Nat]] /\ FromBundles(registry')
      /\ tmp' \in [Commands -> [Bundles -> Nat]] \cup {NoFile}
      /\ tmp' # NoFile => FromBundles(tmp')
      /\ tmp # NoFile => tmp' # NoFile
      /\ out' \in [Shells -> Outs] /\ out'[s] = "none"
      /\ \A u \in Shells \ {s} : out'[u] = out[u]
  <2>1. CASE UNCHANGED <<registry, tmp, out>> /\ script[s].pc \in {"exec", "append"}
    BY <2>1 DEF IInv, TypeOK, Provided, FromBundles, ScriptOK
  <2>2. CASE At(s, "grep") /\ \E some \in SUBSET Lines(Filtered(s)) : Writes(s, Some(Filtered(s), some))
    <3>1. script[s].cmd \in Commands BY <1>0, <2>2, Reads DEF At, Rewriting
    <3>2. PICK some : Writes(s, Some(Filtered(s), some)) BY <2>2
    <3>3. /\ Some(Filtered(s), some) \in [Commands -> [Bundles -> Nat]]
          /\ FromBundles(Some(Filtered(s), some))
      BY <1>0, <3>1, Meant, SomeOfIt
    <3> QED BY <3>2, <3>3, Written
  <2>3. CASE At(s, "sweep") /\ \E some \in SUBSET Lines(Rest(s)) : Writes(s, Some(Rest(s), some))
    <3>1. PICK some : Writes(s, Some(Rest(s), some)) BY <2>3
    <3>2. /\ Some(Rest(s), some) \in [Commands -> [Bundles -> Nat]]
          /\ FromBundles(Some(Rest(s), some))
      BY <1>0, Meant, SomeOfIt
    <3> QED BY <3>1, <3>2, Written
  <2> QED BY <2>1, <2>2, <2>3 DEF WriteFails, At
<1>d. UNCHANGED <<dir, trampoline, executable, torn>> /\ shaky' = Commands
  BY DEF WriteFails
<1>1. TypeOK'
  <2>1. left' \in [work : 0..MaxWork, faults : 0..MaxFaults]
    BY HostAssumption DEF IInv, TypeOK, WriteFails
  <2> QED BY <1>b, <1>c, <1>d, <2>1 DEF IInv, TypeOK, Records
<1>2. Provided' BY <1>c, <1>d DEF IInv, Provided, FromBundles
<1>3. ASSUME NEW u \in Shells PROVE ScriptOK(u)'
  <2>1. ScriptOK(u) /\ Busy' = Busy BY <1>0, <1>a, <1>b DEF IInv, Busy, At
  <2>2. CASE u = s BY <1>0, <1>a, <1>b, <1>c, <1>d, <2>1, <2>2 DEF ScriptOK, Rewriting
  <2>3. CASE u # s
    <3>1. u \in Busy => ~script[u].alone BY <1>0, <2>3, NotAlone
    <3> QED BY <1>b, <1>c, <1>d, <2>1, <2>3, <3>1 DEF ScriptOK
  <2> QED BY <2>2, <2>3
<1>4. ASSUME NEW u \in Shells PROVE (Copied(u) /\ Progress(u))'
  <2>1. ~(u \in Busy /\ script[u].alone)'
    BY <1>0, <1>b, NotAlone DEF Busy, At
  <2> QED BY <1>d, <2>1 DEF Copied, Progress
<1>5. Settled' BY <1>d DEF Settled
<1> QED BY <1>1, <1>2, <1>3, <1>4, <1>5 DEF IInv

(* A script is killed.                                                     *)
LEMMA KillKeeps ==
  ASSUME IInv, NEW s \in Shells, Kill(s)
  PROVE  IInv'
PROOF
<1>0. s \in Busy
  BY DEF Busy, At, Kill
<1>a. \A u \in Shells \ {s} : script'[u] = script[u] /\ out'[u] = out[u]
  BY DEF IInv, TypeOK, Kill, At, Idle
<1>1. TypeOK'
  <2>1. script' \in [Shells -> Records]
    BY <1>0, Reads DEF Records, PCs, Kinds, Kill, At, Idle
  <2>2. dir' \in [Bundles -> {"absent", "part", "whole"}] /\ torn' \in SUBSET Bundles
    BY <1>0, Reads DEF IInv, TypeOK, Kill, At, Idle
  <2>3. /\ trampoline' \in [Commands -> Bundles \cup {Nobody, Headed}]
        /\ executable' \in SUBSET Commands /\ shaky' \in SUBSET Commands
    <3>1. InHand(s) \subseteq Commands BY <1>0, Reads DEF InHand, At, Rewriting
    <3> QED BY <3>1 DEF IInv, TypeOK, Kill
  <2>4. /\ registry' \in [Commands -> [Bundles -> Nat]]
        /\ tmp' \in [Commands -> [Bundles -> Nat]] \cup {NoFile} /\ out' \in [Shells -> Outs]
    BY DEF IInv, TypeOK, Kill, Outs
  <2>5. left' \in [work : 0..MaxWork, faults : 0..MaxFaults]
    <3>1. left \in [work : 0..MaxWork, faults : 0..MaxFaults] BY DEF IInv, TypeOK
    <3> QED BY <3>1, HostAssumption DEF Kill
  <2> QED BY <2>1, <2>2, <2>3, <2>4, <2>5 DEF TypeOK, Records
<1>2. Provided'
  BY DEF IInv, Provided, Kill, At, Idle
<1>3. ASSUME NEW u \in Shells PROVE ScriptOK(u)'
  <2>1. ScriptOK(u) /\ UNCHANGED tmp /\ shaky \subseteq shaky' /\ shaky' \subseteq Commands
    BY <1>1 DEF IInv, TypeOK, Kill
  <2>2. CASE u = s
    <3>1. script'[s] = Idle /\ out'[s] = "none" BY Reads DEF Kill
    <3> QED BY <2>2, <3>1 DEF ScriptOK, Rewriting, Idle, Busy, At
  <2>3. CASE u # s
    <3>1. u \in Busy => ~script[u].alone BY <1>0, <2>3, NotAlone
    <3>2. script'[u] = script[u] /\ out'[u] = out[u] BY <1>a, <2>3
    <3>3. u \in Busy' <=> u \in Busy BY <3>2 DEF Busy, At
    <3>4. u \in Busy => shaky' = Commands BY <2>1, <3>1 DEF ScriptOK
    <3> QED BY <2>1, <3>1, <3>2, <3>3, <3>4 DEF ScriptOK
  <2> QED BY <2>2, <2>3
<1>4. ASSUME NEW u \in Shells PROVE Copied(u)'
  BY <1>a DEF IInv, Copied, Kill, At, Idle
<1>5. ASSUME NEW u \in Shells, (u \in Busy /\ script[u].alone)' PROVE Rewritten(u)' /\ Emptied(u)'
  <2>1. u = s /\ s \in Busy /\ script[s].alone
    BY <1>0, <1>5, NotAlone DEF Busy, Kill, At, Idle
  <2>2. Rewritten(s) /\ Emptied(s) /\ ScriptOK(s) BY <2>1 DEF IInv, Progress
  <2>3. Rewritten(s)'
    BY <2>2, Reads DEF Rewritten, Rewriting, Records, Kill, At, Idle
  <2>4. Emptied(s)'
    BY <2>2, Reads DEF Emptied, Records, Kill, At, Idle
  <2> QED BY <2>1, <2>3, <2>4
<1>6. ASSUME NEW c \in Commands, c \notin shaky', ~(Good(c)')
      PROVE  \E u \in Shells : c \in InHand(u)'
  <2>1. \A u \in Shells \ {s} : InHand(u)' = InHand(u) BY <1>a, HandStays
  <2>2. c \notin shaky
    BY <1>6 DEF Kill
  <2>3. Good(c) => c \in InHand(s)'
    BY <1>6 DEF Good, OwnedBy, Kill
  <2>4. c \in InHand(s) => c \in InHand(s)'
    BY <1>0, <1>6, Reads DEF InHand, Records, Kill, At, Idle
  <2> QED BY <2>1, <2>2, <2>3, <2>4 DEF IInv, Settled
<1> QED BY <1>1, <1>2, <1>3, <1>4, <1>5, <1>6 DEF IInv, Progress, Settled

-----------------------------------------------------------------------------
(* A script begins: the others know that they are not alone any more, and  *)
(* all commands are shaky.                                                 *)
LEMMA StartsKeeps ==
  ASSUME IInv, NEW s \in Shells, NEW b \in Bundles, NEW kind \in Kinds,
         NEW pc \in {"unpack", "loop"}, pc = "unpack" => kind = "install",
         Starts(s, b, kind, pc), dir' \in [Bundles -> {"absent", "part", "whole"}],
         UNCHANGED <<trampoline, executable, registry, tmp, torn>>
  PROVE  IInv'
PROOF
<1> DEFINE others == Busy \ {s}
<1>1. /\ script' \in [Shells -> Records]
      /\ script'[s] = [pc |-> pc, kind |-> kind, bundle |-> b, todo |-> Provides[b],
                       cmd |-> Nobody, alone |-> others = {}]
      /\ \A u \in Shells \ {s} :
           script'[u] = [script[u] EXCEPT !.alone = @ /\ u \notin others]
  <2>1. [pc |-> pc, kind |-> kind, bundle |-> b, todo |-> Provides[b],
         cmd |-> Nobody, alone |-> others = {}] \in Records
    BY HostAssumption DEF Records, PCs
  <2>2. \A u \in Shells : [script[u] EXCEPT !.alone = @ /\ u \notin others] \in Records
    BY Reads DEF Records
  <2> QED BY <2>1, <2>2 DEF Starts
<1>2. s \notin Busy /\ s \in Busy' BY <1>1, Reads DEF Starts, Busy, At
<1>3. ASSUME NEW u \in Shells \ {s}
      PROVE  /\ u \in Busy' <=> u \in Busy
             /\ script'[u].pc = script[u].pc /\ script'[u].kind = script[u].kind
             /\ script'[u].bundle = script[u].bundle /\ script'[u].todo = script[u].todo
             /\ script'[u].cmd = script[u].cmd
             /\ u \in Busy => script'[u].alone = FALSE
  BY <1>1, Reads DEF Busy, At, Records
<1>4. /\ shaky \subseteq shaky' /\ shaky' \in SUBSET Commands
      /\ others # {} => shaky' = Commands
  <2>1. shaky' = IF others = {} THEN shaky ELSE Commands BY DEF Starts
  <2>2. shaky \subseteq Commands BY DEF IInv, TypeOK
  <2> QED BY <2>1, <2>2
<1>5. TypeOK'
  <2>1. left' \in [work : 0..MaxWork, faults : 0..MaxFaults]
    BY HostAssumption DEF IInv, TypeOK, Starts
  <2>2. script' \in [Shells -> [pc : PCs, kind : Kinds, bundle : Bundles \cup {Nobody},
           todo : SUBSET Commands, cmd : Commands \cup {Nobody}, alone : BOOLEAN]]
    BY <1>1 DEF Records
  <2> QED BY <1>4, <2>1, <2>2 DEF IInv, TypeOK, Starts
<1>6. Provided' BY DEF IInv, Provided
<1>7. ASSUME NEW u \in Shells PROVE ScriptOK(u)'
  <2>1. CASE u = s
    <3>1. others = {} => Busy' = {s} BY <1>2, <1>3 DEF Busy
    <3>2. /\ script'[s].pc = pc /\ script'[s].kind = kind /\ script'[s].bundle = b
          /\ script'[s].todo = Provides[b] /\ script'[s].alone = (others = {})
      BY <1>1
    <3>3. IF script'[s].alone THEN Busy' = {s} ELSE shaky' = Commands
      <4>1. CASE others = {} BY <3>1, <3>2, <4>1
      <4>2. CASE others # {} BY <1>4, <3>2, <4>2
      <4> QED BY <4>1, <4>2
    <3>4. out'[s] = "none" BY DEF IInv, ScriptOK, Starts, At
    <3> QED BY <2>1, <3>2, <3>3, <3>4 DEF ScriptOK, Rewriting
  <2>2. CASE u # s
    <3>1. ScriptOK(u) BY DEF IInv
    <3>2. UNCHANGED out BY DEF Starts
    <3> QED BY <1>3, <1>4, <2>2, <3>1, <3>2 DEF ScriptOK
  <2> QED BY <2>1, <2>2
<1>8. ASSUME NEW u \in Shells PROVE Copied(u)'
  <2>1. CASE u = s BY <1>1, <2>1 DEF Copied
  <2>2. CASE u # s
    <3>1. Copied(u) BY DEF IInv
    <3> QED BY <1>3, <1>4, <2>2, <3>1 DEF Copied
  <2> QED BY <2>1, <2>2
<1>9. ASSUME NEW u \in Shells PROVE Progress(u)'
  <2>1. CASE u = s BY <1>1, <2>1 DEF Progress, Rewritten, Rewriting, Emptied
  <2>2. CASE u # s BY <1>3, <2>2 DEF Progress
  <2> QED BY <2>1, <2>2
<1>10. Settled'
  <2>1. ASSUME NEW c \in Commands, c \notin shaky'
        PROVE  Good(c)' \/ \E u \in Shells : c \in InHand(u)'
    <3>1. Good(c) \/ \E u \in Shells : c \in InHand(u) BY <1>4, <2>1 DEF IInv, Settled
    <3>2. Good(c)' <=> Good(c) BY DEF Good, OwnedBy
    <3>3. InHand(s) = {} BY <1>2 DEF InHand, Busy, At
    <3>4. \A u \in Shells \ {s} : InHand(u)' = InHand(u) BY <1>3 DEF InHand
    <3> QED BY <3>1, <3>2, <3>3, <3>4
  <2> QED BY <2>1 DEF Settled
<1> QED BY <1>5, <1>6, <1>7, <1>8, <1>9, <1>10 DEF IInv

(* What leaves scripts, trampolines and registry alone keeps the invariant. *)
LEMMA NothingKeeps ==
  ASSUME IInv, UNCHANGED <<trampoline, executable, registry, tmp, out, script, shaky>>,
         dir' \in [Bundles -> {"absent", "part", "whole"}], torn' \in SUBSET Bundles,
         left' \in [work : 0..MaxWork, faults : 0..MaxFaults]
  PROVE  IInv'
PROOF
<1>1. TypeOK' /\ Provided' BY DEF IInv, TypeOK, Provided
<1>2. Settled' BY DEF IInv, Settled, Good, OwnedBy, InHand, At
<1>3. ASSUME NEW s \in Shells PROVE (ScriptOK(s) /\ Copied(s) /\ Progress(s))'
  BY DEF IInv, ScriptOK, Copied, Progress, Rewritten, Emptied, Cleared, Good, OwnedBy, Busy, At
<1> QED BY <1>1, <1>2, <1>3 DEF IInv

LEMMA InitKeeps ==
  ASSUME Init PROVE IInv
PROOF
<1>1. TypeOK /\ Busy = {} /\ tmp = NoFile /\ \A s \in Shells : script[s] = Idle
  BY HostAssumption DEF Init, TypeOK, Idle, PCs, Kinds, Outs, Busy, At
<1>2. ASSUME NEW c \in Commands
      PROVE  /\ Good(c) /\ (trampoline[c] \in Bundles => c \in Provides[trampoline[c]])
             /\ \A b \in Bundles : registry[c][b] # 0 => c \in Provides[b]
  BY HostAssumption DEF Init, Good, OwnedBy, NoLines
<1>3. \A s \in Shells : ScriptOK(s) /\ Copied(s) /\ Progress(s)
  <2>1. \A s \in Shells : out[s] = "none" BY DEF Init
  <2> QED BY <1>1, <2>1 DEF Idle, ScriptOK, Rewriting, Copied, Progress
<1> QED BY <1>1, <1>2, <1>3 DEF IInv, Provided, Settled

LEMMA HostStepKeeps ==
  ASSUME IInv, HostNext PROVE IInv'
PROOF
<1>1. ASSUME NEW s \in Shells, Unpack(s) PROVE IInv'
  <2>1. PICK b \in Bundles : Starts(s, b, "install", "unpack") /\ dir' = [dir EXCEPT ![b] = "part"]
    BY <1>1 DEF Unpack
  <2>2. dir' \in [Bundles -> {"absent", "part", "whole"}] BY <2>1 DEF IInv, TypeOK
  <2> QED BY <1>1, <2>1, <2>2, StartsKeeps DEF Unpack, Kinds
<1>2. ASSUME NEW s \in Shells, RunsScript(s) PROVE IInv'
  <2>1. PICK b \in Bundles, kind \in Kinds : Starts(s, b, kind, "loop")
    BY <1>2 DEF RunsScript
  <2>2. UNCHANGED <<dir, trampoline, executable, registry, tmp, torn>> BY <1>2 DEF RunsScript
  <2>3. dir' \in [Bundles -> {"absent", "part", "whole"}] BY <2>2 DEF IInv, TypeOK
  <2> QED BY <2>1, <2>2, <2>3, StartsKeeps
<1>3. ASSUME NEW s \in Shells,
             Installs(s) \/ Uninstalls(s) \/ Truncate(s) \/ WriteFails(s) \/ Kill(s)
      PROVE  IInv'
  BY <1>1, <1>2, <1>3, UnpackedKeeps, UnpackedInPartKeeps, UnpackFailsKeeps, HeadKeeps,
     ExecKeeps, ChmodKeeps, TruncateKeeps, FilterKeeps, MoveKeeps, AppendKeeps, InstalledKeeps,
     LookKeeps, RmKeeps, SweepKeeps, SweptKeeps, UninstalledKeeps, WriteFailsKeeps, KillKeeps
     DEF Installs, Uninstalls
<1> QED BY <1>3 DEF HostNext

(* The steps of the test server: they change directories and nothing else. *)
LEMMA ServerStays ==
  ASSUME IInv, Next, ~UserStep
  PROVE  /\ UNCHANGED <<trampoline, executable, registry, tmp, out, script, shaky, torn>>
         /\ dir' \in [Bundles -> {"absent", "part", "whole"}]
         /\ left' \in [work : 0..MaxWork, faults : 0..MaxFaults]
PROOF
<1> USE DEF IInv, TypeOK
<1>1. CASE Called BY <1>1, HostAssumption DEF Called, ScriptsStay
<1>2. CASE Remote
  <2>1. CASE Mkdir BY <2>1 DEF Mkdir, hostVars
  <2>2. CASE Untars \/ Deploys \/ Cleans BY <2>2 DEF Untars, Deploys, Cleans, Takes, ScriptsStay
  <2>3. CASE DeploysPart
    <3>1. dir' \in [Bundles -> {"absent", "part", "whole"}] BY <2>3 DEF DeploysPart, Takes
    <3>2. left' \in [work : 0..MaxWork, faults : 0..MaxFaults]
      BY <2>3, HostAssumption DEF DeploysPart, CostsFault
    <3> QED BY <2>3, <3>1, <3>2 DEF DeploysPart, ScriptsStay
  <2>4. CASE RunsTest BY <2>4, HostAssumption DEF RunsTest, CostsFault, ScriptsStay
  <2> QED BY <1>2, <2>1, <2>2, <2>3, <2>4 DEF Remote
<1>3. CASE Waited
  BY <1>3
     DEF Waited, Reconnects, MkdirFails, DeployFails, RunCut, RunTimesOut, CleanGivenUp, hostVars
<1>4. CASE Server
  BY <1>4, HostAssumption DEF Server, Ran, Saves, SaveFails, Returns, CostsFault, ScriptsStay, hostVars
<1>5. CASE ConnectionLost BY <1>5, HostAssumption DEF ConnectionLost, CostsFault, ScriptsStay
<1>6. CASE OrphanEnds BY <1>6 DEF OrphanEnds, Takes, ScriptsStay
<1> QED BY <1>1, <1>2, <1>3, <1>4, <1>5, <1>6 DEF Next

(* IInv is an invariant of the host and its users, tested or not.          *)
THEOREM Inductive == Spec => []IInv
PROOF
<1>1. TestInit => IInv BY InitKeeps DEF TestInit
<1>2. IInv /\ [Next]_vars => IInv'
  <2>1. CASE UNCHANGED vars
    <3>1. UNCHANGED hostVars BY <2>1 DEF vars
    <3> QED BY <3>1, NothingKeeps DEF IInv, TypeOK, hostVars
  <2>2. CASE Next /\ ~UserStep
    <3> SUFFICES ASSUME IInv PROVE IInv' OBVIOUS
    <3>1. torn \in SUBSET Bundles BY DEF IInv, TypeOK
    <3> QED BY <2>2, <3>1, ServerStays, NothingKeeps
  <2>3. CASE UserStep BY <2>3, HostStepKeeps DEF UserStep
  <2> QED BY <2>1, <2>2, <2>3
<1> QED BY <1>1, <1>2, PTL DEF Spec

(* The types of the host's variables.                                      *)
THEOREM TypeCorrect == Spec => []TypeOK
PROOF
<1>1. IInv => TypeOK BY DEF IInv
<1> QED BY <1>1, Inductive, PTL

(* The registry tells the truth about every command that no script is at   *)
(* and that is not shaky: a kill puts at stake what the script was at, two *)
(* scripts side by side or a write that fails every command.               *)
THEOREM RegistryTrue == Spec => []RegistryIsTrue
PROOF
<1>1. IInv => RegistryIsTrue BY DEF IInv, Settled, Good, RegistryIsTrue
<1> QED BY <1>1, Inductive, PTL

-----------------------------------------------------------------------------
LEMMA OwnerType ==
  ASSUME IInv, NEW c \in Commands
  PROVE  OwnerOf(c) \in Bundles \cup {Nobody}
BY DEF OwnerOf

(* A line for one bundle names no other, and there is one.                 *)
LEMMA OneOwner ==
  ASSUME NEW c, NEW b \in Bundles, OwnedBy(c, b)
  PROVE  registry[c] # NoLines /\ \A d \in Bundles : OwnedBy(c, d) => d = b
PROOF
<1>1. registry[c][b] = 1 /\ NoLines[b] = 0 BY DEF OwnedBy, NoLines
<1>2. \A d \in Bundles : OwnedBy(c, d) /\ d # b => registry[c][b] = 0 BY DEF OwnedBy, NoLines
<1> QED BY <1>1, <1>2

(* What a script has in hand, its bundle provides.                         *)
LEMMA HandIsProvided ==
  ASSUME IInv, NEW u \in Shells, NEW c \in InHand(u)
  PROVE  u \in Busy /\ c \in Provides[script[u].bundle]
BY Reads DEF InHand, Busy, At, Rewriting

(* A script at a command that is not shaky runs alone.                     *)
LEMMA RunsAlone ==
  ASSUME IInv, NEW s \in Shells, s \in Busy, NEW c \in Commands \ shaky,
         c \in Provides[script[s].bundle]
  PROVE  /\ script[s].alone /\ Rewritten(s) /\ Emptied(s)
         /\ \A u \in Shells \ {s} : InHand(u) = {}
PROOF
<1>1. script[s].alone /\ Busy = {s} BY DEF IInv, ScriptOK
<1>2. \A u \in Shells \ {s} : InHand(u) = {} BY <1>1, HandIsProvided
<1> QED BY <1>1, <1>2 DEF IInv, Progress

(* Every step that leaves the commands that are not shaky to their owners  *)
(* is one the promise allows.                                              *)
LEMMA Disturbs ==
  ASSUME IInv, IInv', \A c \in Commands \ (shaky \cup shaky') : OwnerOf(c)' = OwnerOf(c)
  PROVE  Owners!Disturbed
PROOF
<1>1. {<<script[s].bundle, script[s].kind>> : s \in Busy}' \in SUBSET (Bundles \X Kinds)
  BY DEF IInv, TypeOK, ScriptOK, Busy, Kinds
<1>2. [c \in Commands |-> OwnerOf(c)]' \in [Commands -> Bundles \cup {Nobody}]
  BY OwnerType DEF OwnerOf
<1>3. shaky' \in SUBSET Commands BY DEF IInv, TypeOK
<1> QED BY <1>1, <1>2, <1>3 DEF Owners!Disturbed, Owners!Kinds, Kinds

LEMMA HeadRefines ==
  ASSUME IInv, NEW s \in Shells, Head(s)
  PROVE  \A c \in Commands \ (shaky \cup shaky') : OwnerOf(c)' = OwnerOf(c)
PROOF
<1>1. PICK cmd \in script[s].todo : trampoline' = [trampoline EXCEPT ![cmd] = Headed]
  BY DEF Head
<1> SUFFICES ASSUME NEW c \in Commands \ shaky PROVE OwnerOf(c)' = OwnerOf(c) OBVIOUS
<1>2. s \in Busy /\ UNCHANGED registry BY DEF Head, Busy, At
<1>3. CASE c # cmd BY <1>1, <1>2, <1>3, Reads DEF OwnerOf, OwnedBy
<1>4. CASE c = cmd
  <2>1. \A u \in Shells \ {s} : InHand(u) = {} BY <1>2, <1>4, Reads, RunsAlone
  <2>2. InHand(s) = {} BY DEF InHand, Head, At
  <2>3. Good(c) BY <2>1, <2>2 DEF IInv, Settled
  <2>4. trampoline'[c] = Headed BY <1>1, <1>4, Reads
  <2>5. CASE trampoline[c] = Nobody /\ registry[c] = NoLines
    <3>1. \A b \in Bundles : ~OwnedBy(c, b) BY <2>5, OneOwner
    <3> QED BY <1>2, <2>4, <2>5, <3>1, HostAssumption DEF OwnerOf, OwnedBy
  <2>6. CASE trampoline[c] \in Bundles /\ OwnedBy(c, trampoline[c])
    <3>1. \A b \in Bundles : OwnedBy(c, b) <=> b = trampoline[c] BY <2>6, OneOwner
    <3>2. \A b \in Bundles : OwnedBy(c, b)' <=> b = trampoline[c] BY <1>2, <3>1 DEF OwnedBy
    <3>3. (CHOOSE b \in Bundles : OwnedBy(c, b)') = trampoline[c] BY <2>6, <3>2
    <3>4. OwnerOf(c)' = trampoline[c] BY <2>4, <2>6, <3>2, <3>3 DEF OwnerOf
    <3> QED BY <2>6, <3>4, HostAssumption DEF OwnerOf
  <2> QED BY <2>3, <2>5, <2>6 DEF Good
<1> QED BY <1>3, <1>4

LEMMA ExecRefines ==
  ASSUME IInv, IInv', NEW s \in Shells, Exec(s)
  PROVE  Owners!Next
PROOF
<1>1. PICK b \in Bundles, cmd \in Commands :
        /\ b = script[s].bundle /\ cmd = script[s].cmd
        /\ s \in Busy /\ cmd \in Provides[b]
        /\ UNCHANGED <<registry, shaky>> /\ script[s].kind = "install"
  BY Reads DEF Exec, Busy, At, Rewriting, IInv, ScriptOK
<1>2. \A c \in Commands : c # cmd => OwnerOf(c)' = OwnerOf(c)
  BY <1>1, Reads DEF OwnerOf, OwnedBy, Exec
<1>3. CASE cmd \in shaky
  <2>1. Owners!Disturbed BY <1>2, <1>3, Disturbs
  <2> QED BY <2>1 DEF Owners!Next
<1>4. CASE cmd \notin shaky
  <2>1. Rewritten(s) BY <1>1, <1>4, RunsAlone
  <2>2. trampoline'[cmd] = b
    <3>1. trampoline[cmd] = Headed BY <1>1, <2>1 DEF Rewritten, Exec, At
    <3> QED BY <1>1, <3>1, Reads, HostAssumption DEF Exec
  <2>3. OwnerOf(cmd)' = b BY <1>1, <2>2, HostAssumption DEF OwnerOf
  <2>4. [c \in Commands |-> OwnerOf(c)'] = [[c \in Commands |-> OwnerOf(c)] EXCEPT ![cmd] = b]
    BY <1>1, <1>2, <2>3
  <2>5. /\ \A u \in Shells : /\ u \in Busy' <=> u \in Busy
                            /\ script'[u].bundle = script[u].bundle
                            /\ script'[u].kind = script[u].kind
    BY Going, Reads DEF Exec, Goes, PCs, Busy, At
  <2>6. UNCHANGED {<<script[u].bundle, script[u].kind>> : u \in Busy} BY <2>5 DEF Busy
  <2>7. <<b, "install">> \in {<<script[u].bundle, script[u].kind>> : u \in Busy} BY <1>1
  <2>8. Owners!Take(b, cmd) BY <1>1, <2>4, <2>6, <2>7 DEF Owners!Take
  <2> QED BY <1>1, <2>8 DEF Owners!Next
<1> QED BY <1>3, <1>4

(* The registry is written: that a command is lost from it, or doubled in  *)
(* it, would show only where no trampoline says whose the command is.      *)
LEMMA SameTrampoline ==
  ASSUME NEW c \in Commands, UNCHANGED trampoline,
         trampoline[c] # Headed \/ registry'[c] = registry[c]
  PROVE  OwnerOf(c)' = OwnerOf(c)
PROOF
<1>1. CASE trampoline[c] # Headed BY <1>1 DEF OwnerOf
<1>2. CASE registry'[c] = registry[c] BY <1>2 DEF OwnerOf, OwnedBy
<1> QED BY <1>1, <1>2

LEMMA RegistryStepsRefine ==
  ASSUME IInv, NEW s \in Shells, Move(s) \/ Append(s) \/ Swept(s)
  PROVE  \A c \in Commands \ (shaky \cup shaky') : OwnerOf(c)' = OwnerOf(c)
PROOF
<1> SUFFICES ASSUME NEW c \in Commands \ (shaky \cup shaky') PROVE OwnerOf(c)' = OwnerOf(c)
  OBVIOUS
<1>1. s \in Busy /\ UNCHANGED trampoline BY DEF Move, Append, Swept, Busy, At
<1>2. CASE Move(s) \/ Append(s)
  <2>1. CASE c # script[s].cmd
    <3>1. Move(s) => registry'[c] = registry[c] BY <2>1 DEF IInv, Copied, Move, Moves, At
    <3>2. Append(s) => registry'[c] = registry[c] BY <2>1, Reads DEF Append
    <3> QED BY <1>1, <1>2, <3>1, <3>2, SameTrampoline
  <2>2. CASE c = script[s].cmd
    <3>1. script[s].pc \in Rewriting \ {"exec"} BY <1>2 DEF Move, Append, At, Rewriting
    <3>2. Rewritten(s) BY <1>1, <2>2, <3>1, Reads, RunsAlone
    <3>3. trampoline[c] # Headed BY <1>1, <2>2, <3>1, <3>2, Reads, HostAssumption DEF Rewritten
    <3> QED BY <1>1, <3>3, SameTrampoline
  <2> QED BY <2>1, <2>2
<1>3. CASE Swept(s)
  <2> DEFINE b == script[s].bundle
  <2>1. CASE c \in Provides[b]
    <3>1. Emptied(s) BY <1>1, <2>1, RunsAlone
    <3>2. Cleared(c, b) BY <1>3, <2>1, <3>1 DEF Emptied, IInv, ScriptOK, Swept, At
    <3>3. trampoline[c] # Headed BY <3>2, HostAssumption DEF Cleared, Good
    <3> QED BY <1>1, <3>3, SameTrampoline
  <2>2. CASE c \notin Provides[b]
    <3>1. registry[c][b] = 0 BY <1>1, <2>2, Reads DEF IInv, Provided
    <3>2. registry'[c] = registry[c] \/ registry'[c] = [registry[c] EXCEPT ![b] = 0]
      BY <1>3 DEF IInv, Copied, Swept, Moves, At
    <3>3. registry'[c] = registry[c] BY <1>1, <3>1, <3>2, Reads
    <3> QED BY <1>1, <3>3, SameTrampoline
  <2> QED BY <2>1, <2>2
<1> QED BY <1>2, <1>3

LEMMA RmRefines ==
  ASSUME IInv, IInv', NEW s \in Shells, Rm(s)
  PROVE  Owners!Next
PROOF
<1>1. PICK b \in Bundles, cmd \in Commands :
        /\ b = script[s].bundle /\ cmd = script[s].cmd
        /\ s \in Busy /\ cmd \in Provides[b] /\ cmd \notin script[s].todo
        /\ UNCHANGED <<registry, shaky>> /\ script[s].kind = "uninstall"
  BY Reads DEF Rm, Busy, At, IInv, ScriptOK
<1>2. \A c \in Commands : c # cmd => OwnerOf(c)' = OwnerOf(c)
  BY <1>1, Reads DEF OwnerOf, OwnedBy, Rm
<1>3. OwnerOf(cmd)' = Nobody
  BY <1>1, Reads, HostAssumption DEF OwnerOf, Rm
<1>4. CASE cmd \in shaky \/ OwnerOf(cmd) = Nobody
  <2>1. Owners!Disturbed BY <1>2, <1>3, <1>4, Disturbs
  <2> QED BY <2>1 DEF Owners!Next
<1>5. CASE cmd \notin shaky /\ OwnerOf(cmd) # Nobody
  <2>1. Emptied(s) BY <1>1, <1>5, RunsAlone
  <2>2. Good(cmd) /\ (OwnedBy(cmd, b) \/ registry[cmd] = NoLines)
    BY <1>1, <1>5, <2>1 DEF Emptied, Rm, At
  <2>3. trampoline[cmd] \in Bundles /\ OwnedBy(cmd, trampoline[cmd])
    BY <1>5, <2>2, HostAssumption DEF Good, OwnerOf
  <2>4. trampoline[cmd] = b BY <1>1, <2>2, <2>3, OneOwner
  <2>5. OwnerOf(cmd) = b BY <2>3, <2>4, HostAssumption DEF OwnerOf
  <2>6. [c \in Commands |-> OwnerOf(c)'] = [[c \in Commands |-> OwnerOf(c)] EXCEPT ![cmd] = Nobody]
    BY <1>1, <1>2, <1>3
  <2>7. /\ \A u \in Shells : /\ u \in Busy' <=> u \in Busy
                            /\ script'[u].bundle = script[u].bundle
                            /\ script'[u].kind = script[u].kind
    BY Going, Reads DEF Rm, Goes, PCs, Busy, At
  <2>8. UNCHANGED {<<script[u].bundle, script[u].kind>> : u \in Busy} BY <2>7 DEF Busy
  <2>9. <<b, "uninstall">> \in {<<script[u].bundle, script[u].kind>> : u \in Busy} BY <1>1
  <2>10. Owners!Release(b, cmd) BY <1>1, <2>5, <2>6, <2>8, <2>9 DEF Owners!Release
  <2> QED BY <1>1, <2>10 DEF Owners!Next
<1> QED BY <1>4, <1>5

LEMMA StepRefines ==
  ASSUME IInv, IInv', HostNext
  PROVE  Owners!Next
PROOF
<1>1. PICK s \in Shells :
        Installs(s) \/ Uninstalls(s) \/ Truncate(s) \/ WriteFails(s) \/ Kill(s)
  BY DEF HostNext
<1>2. CASE Exec(s) BY <1>2, ExecRefines
<1>3. CASE Rm(s) BY <1>3, RmRefines
<1>4. CASE Head(s) \/ Move(s) \/ Append(s) \/ Swept(s)
  <2>1. Owners!Disturbed BY <1>4, HeadRefines, RegistryStepsRefine, Disturbs
  <2> QED BY <2>1 DEF Owners!Next
<1>5. CASE UNCHANGED <<trampoline, registry>>
  <2>1. \A c \in Commands : OwnerOf(c)' = OwnerOf(c) BY <1>5, SameTrampoline
  <2>2. Owners!Disturbed BY <2>1, Disturbs, SMTT(30)
  <2> QED BY <2>2 DEF Owners!Next
<1>6. CASE Filter(s) \/ Sweep(s)
  <2>1. UNCHANGED trampoline /\ s \in Busy BY <1>6 DEF Filter, Sweep, Busy, At
  <2>2. CASE script[s].alone
    <3>1. UNCHANGED registry BY <1>6, <2>2, WrittenAlone DEF Filter, Sweep, At
    <3> QED BY <1>5, <2>1, <3>1
  <2>3. CASE ~script[s].alone
    <3>1. shaky = Commands BY <2>1, <2>3 DEF IInv, ScriptOK
    <3>2. Owners!Disturbed BY <3>1, Disturbs
    <3> QED BY <3>2 DEF Owners!Next
  <2> QED BY <2>2, <2>3
<1>7. CASE WriteFails(s)
  <2>1. shaky' = Commands BY <1>7 DEF WriteFails
  <2>2. Owners!Disturbed BY <2>1, Disturbs
  <2> QED BY <2>2 DEF Owners!Next
<1>8. \/ Exec(s) \/ Rm(s) \/ Head(s) \/ Move(s) \/ Append(s) \/ Swept(s)
      \/ Filter(s) \/ Sweep(s) \/ WriteFails(s) \/ UNCHANGED <<trampoline, registry>>
  BY <1>1 DEF Installs, Uninstalls, Unpack, Unpacked, UnpackedInPart, UnpackFails, RunsScript,
              Chmod, Truncate, Installed, Look, Uninstalled, Kill
<1> QED BY <1>2, <1>3, <1>4, <1>5, <1>6, <1>7, <1>8

(* A command that is not shaky changes hands by an install of a bundle     *)
(* that provides it and is lost only to its owner's uninstall, whoever     *)
(* kills scripts or tests bundles meanwhile.                               *)
THEOREM Refinement == Spec => ImplementsOwners
PROOF
<1> DEFINE ownersVars == <<[c \in Commands |-> OwnerOf(c)],
                           {<<script[s].bundle, script[s].kind>> : s \in Busy}, shaky>>
<1>1. TestInit => Owners!Init
  <2> SUFFICES ASSUME TestInit PROVE Owners!Init OBVIOUS
  <2>1. IInv BY InitKeeps DEF TestInit
  <2>2. Busy = {} /\ shaky = {} BY DEF TestInit, Init, Busy, At, Idle
  <2> QED BY <2>1, <2>2, OwnerType DEF Owners!Init
<1>2. IInv /\ IInv' /\ [Next]_vars => [Owners!Next]_ownersVars
  <2> SUFFICES ASSUME IInv, IInv', [Next]_vars PROVE Owners!Next \/ UNCHANGED ownersVars
    OBVIOUS
  <2>1. CASE UserStep BY <2>1, StepRefines DEF UserStep
  <2>2. CASE UNCHANGED <<trampoline, registry, script, shaky>>
    <3>1. UNCHANGED [c \in Commands |-> OwnerOf(c)] BY <2>2 DEF OwnerOf, OwnedBy
    <3>2. UNCHANGED {<<script[s].bundle, script[s].kind>> : s \in Busy} BY <2>2 DEF Busy, At
    <3> QED BY <2>2, <3>1, <3>2
  <2>3. UserStep \/ UNCHANGED <<trampoline, registry, script, shaky>>
    BY ServerStays DEF vars, hostVars
  <2> QED BY <2>1, <2>2, <2>3
<1> QED BY <1>1, <1>2, Inductive, PTL DEF Spec, ImplementsOwners, Owners!Spec
-----------------------------------------------------------------------------
(* A bundle is there, or something that is not a script's fault has        *)
(* happened to its directory.                                              *)
Here(b) ==
  \/ dir[b] = "whole" \/ b \in torn \cup taken
  \/ \E s \in Shells : At(s, "unpack") /\ script[s].bundle = b

(* What an install that runs alone makes commands of is there, and when an *)
(* uninstall that runs alone says that the directory may go, no command    *)
(* leads to it any more.                                                   *)
Ready(s) ==
  LET r == script[s] IN
  s \in Busy /\ r.alone =>
    /\ r.kind = "install" => Here(r.bundle)
    /\ r.pc = "advice" => \A c \in Commands \ shaky : trampoline[c] # r.bundle

(* A call of test_bundle is about a bundle.                                *)
Tested == ~Now("idle") => test.bundle \in Bundles

(* Commands lead to bundles that are there, and so does every directory.   *)
Lead ==
  /\ \A c \in Commands \ shaky, b \in Bundles : trampoline[c] = b => Here(b)
  /\ \A b \in Bundles : dir[b] # "absent" => Here(b)

(* That a test has taken a directory is forgotten when it is whole again.  *)
TakenStays == \A b \in taken : b \in taken' \/ dir'[b] = "whole"

Led ==
  /\ IInv /\ TestTypeOK /\ Tested /\ Lead
  /\ \A s \in Shells : Ready(s)

(* What a script that was running does tells only of itself: a script that *)
(* runs beside it is not alone.                                            *)
LEMMA OnlyIts ==
  ASSUME Led, NEW s \in Shells, s \in Busy, \A u \in Shells \ {s} : script'[u] = script[u],
         Ready(s)'
  PROVE  \A u \in Shells : Ready(u)'
PROOF
<1> SUFFICES ASSUME NEW u \in Shells \ {s}, (u \in Busy)', script'[u].alone PROVE FALSE
  BY DEF Ready
<1>1. u \in Busy /\ script[u].alone BY DEF Busy, At
<1> QED BY <1>1, NotAlone DEF Led

(* Steps that leave trampolines and directories alone.                     *)
Quiet(s) ==
  Chmod(s) \/ Truncate(s) \/ Filter(s) \/ Move(s) \/ Installed(s) \/ Look(s) \/ Sweep(s)

(* Such a step ends the script or goes on within it.                       *)
LEMMA QuietStep ==
  ASSUME IInv, NEW s \in Shells, Quiet(s)
  PROVE  /\ s \in Busy /\ ~At(s, "unpack") /\ UNCHANGED <<dir, torn, trampoline, shaky>>
         /\ \A u \in Shells \ {s} : script'[u] = script[u]
         /\ \/ script'[s].pc = "idle"
            \/ /\ script'[s].pc # "advice"
               /\ script'[s].kind = script[s].kind /\ script'[s].bundle = script[s].bundle
               /\ script'[s].alone = script[s].alone
PROOF
<1>1. script \in [Shells -> Records] /\ script[s] \in Records BY Reads
<1>2. CASE Chmod(s) \/ Truncate(s) \/ Filter(s) \/ Move(s) \/ Sweep(s)
  BY <1>1, <1>2 DEF Chmod, Truncate, Filter, Move, Sweep, Goes, At, Busy, Records
<1>3. CASE Installed(s) BY <1>1, <1>3 DEF Installed, Idle, At, Busy
<1>4. CASE Look(s)
  <2>1. PICK c \in script[s].todo :
          script' = [script EXCEPT ![s].todo = @ \ {c}, ![s].cmd = c,
             ![s].pc = IF OwnedBy(c, script[s].bundle) \/ registry[c] = NoLines
                         THEN "rm" ELSE "loop"]
    BY <1>4 DEF Look
  <2> QED BY <1>1, <1>4, <2>1 DEF Look, At, Busy, Records
<1> QED BY <1>2, <1>3, <1>4 DEF Quiet

(* They change nothing that Led speaks of.                                 *)
LEMMA QuietLeads ==
  ASSUME Led, NEW s \in Shells, Quiet(s), TakenStays
  PROVE  /\ Lead'
         /\ \A u \in Shells : Ready(u)'
PROOF
<1>1. IInv BY DEF Led
<1>2. \A b \in Bundles : Here(b) => Here(b)' BY <1>1, QuietStep DEF Here, At, TakenStays
<1>3. Lead'
  BY <1>1, <1>2, QuietStep DEF Led, Lead
<1>4. Ready(s)' BY <1>1, <1>2, QuietStep, Reads DEF Led, Lead, Ready, Busy, At
<1> QED BY <1>1, <1>3, <1>4, QuietStep, OnlyIts

(* Head and exec line of a trampoline, its line in the registry, and its   *)
(* removal.                                                                *)
LEMMA HeadLeads ==
  ASSUME Led, NEW s \in Shells, Head(s) \/ Rm(s), TakenStays
  PROVE  /\ Lead'
         /\ \A u \in Shells : Ready(u)'
PROOF
<1>1. IInv BY DEF Led
<1>2. /\ s \in Busy /\ ~At(s, "unpack") /\ UNCHANGED <<dir, torn, shaky>>
      /\ \A u \in Shells \ {s} : script'[u] = script[u]
      /\ script'[s].pc \in {"exec", "loop"} /\ script'[s].kind = script[s].kind
      /\ script'[s].bundle = script[s].bundle /\ script'[s].alone = script[s].alone
  <2>1. script \in [Shells -> Records] /\ script[s] \in Records BY <1>1, Reads
  <2>2. CASE Head(s)
    <3>1. PICK c \in script[s].todo :
            script' = [script EXCEPT ![s].pc = "exec", ![s].cmd = c, ![s].todo = @ \ {c}]
      BY <2>2 DEF Head
    <3> QED BY <2>1, <2>2, <3>1 DEF Head, At, Busy, Records
  <2>3. CASE Rm(s) BY <2>1, <2>3 DEF Rm, Goes, At, Busy, Records
  <2> QED BY <2>2, <2>3
<1>3. PICK c \in Commands, to \in {Headed, Nobody} : trampoline' = [trampoline EXCEPT ![c] = to]
  BY <1>1, <1>2, Reads DEF Head, Rm, At
<1>4. \A b \in Bundles : Here(b) => Here(b)' BY <1>2 DEF Here, At, TakenStays
<1>5. \A d \in Commands : trampoline'[d] \in Bundles => trampoline'[d] = trampoline[d]
  BY <1>1, <1>3, Reads, HostAssumption
<1>6. Ready(s)' BY <1>1, <1>2, <1>4, Reads DEF Led, Lead, Ready, Busy, At
<1> QED BY <1>2, <1>4, <1>5, <1>6, OnlyIts DEF Led, Lead

(* A command leads to the bundle of the install that has come so far.      *)
LEMMA ExecLeads ==
  ASSUME Led, NEW s \in Shells, Exec(s) \/ Append(s), TakenStays
  PROVE  /\ Lead'
         /\ \A u \in Shells : Ready(u)'
PROOF
<1>1. IInv /\ ScriptOK(s) BY DEF Led, IInv
<1>2. PICK b \in Bundles, cmd \in Commands :
        /\ b = script[s].bundle /\ cmd = script[s].cmd /\ cmd \in Provides[b]
        /\ s \in Busy /\ ~At(s, "unpack") /\ script[s].kind = "install"
  BY <1>1, Reads DEF Exec, Append, Busy, At, Rewriting, ScriptOK
<1>3. /\ UNCHANGED <<dir, torn>> /\ \A u \in Shells \ {s} : script'[u] = script[u]
      /\ script'[s].pc \in {"chmod", "loop"} /\ script'[s].kind = script[s].kind
      /\ script'[s].bundle = script[s].bundle /\ script'[s].alone = script[s].alone
  BY <1>1, Reads DEF Exec, Append, Goes, Records
<1>4. \A x \in Bundles : Here(x) => Here(x)' BY <1>2, <1>3 DEF Here, At, TakenStays
<1>5. Ready(s)' BY <1>2, <1>3, <1>4 DEF Led, Lead, Ready, Busy, At
<1>6. ASSUME NEW c \in Commands \ shaky', NEW x \in Bundles, trampoline'[c] = x PROVE Here(x)'
  <2>1. CASE c # cmd
    <3>1. trampoline'[c] = trampoline[c] /\ c \notin shaky
      BY <1>1, <1>2, <1>6, <2>1, Reads DEF Exec, Append
    <3> QED BY <1>4, <1>6, <3>1 DEF Led, Lead
  <2>2. CASE c = cmd
    <3>1. script[s].alone
      <4>1. CASE Exec(s) BY <1>1, <1>2, <1>6, <2>2, <4>1, RunsAlone DEF Exec
      <4>2. CASE Append(s) BY <1>1, <1>2, <1>6, <2>2, <4>2 DEF Append, ScriptOK
      <4> QED BY <4>1, <4>2
    <3>2. Rewritten(s) /\ Here(b) BY <1>1, <1>2, <3>1 DEF Led, IInv, Progress, Ready
    <3>3. trampoline'[c] = b
      <4>1. CASE Exec(s)
        <5>1. trampoline[c] = Headed BY <1>2, <2>2, <3>2, <4>1 DEF Rewritten, Exec, At
        <5> QED BY <1>1, <1>2, <2>2, <4>1, <5>1, Reads, HostAssumption DEF Exec
      <4>2. CASE Append(s) BY <1>2, <2>2, <3>2, <4>2 DEF Rewritten, Rewriting, Append, At
      <4> QED BY <4>1, <4>2
    <3> QED BY <1>4, <1>2, <1>6, <3>2, <3>3
  <2> QED BY <2>1, <2>2
<1> QED BY <1>2, <1>3, <1>4, <1>5, <1>6, OnlyIts DEF Led, Lead

(* The disk is full: no command may be relied on any more.                 *)
LEMMA WriteFailsLeads ==
  ASSUME Led, NEW s \in Shells, WriteFails(s), TakenStays
  PROVE  /\ Lead'
         /\ \A u \in Shells : Ready(u)'
PROOF
<1>1. IInv BY DEF Led
<1>2. /\ s \in Busy /\ ~At(s, "unpack") /\ UNCHANGED <<dir, torn>> /\ shaky' = Commands
      /\ \A u \in Shells \ {s} : script'[u] = script[u]
      /\ script'[s].alone = FALSE
  BY <1>1, Reads DEF WriteFails, At, Busy, Records
<1>3. \A b \in Bundles : Here(b) => Here(b)' BY <1>2 DEF Here, At, TakenStays
<1>4. Ready(s)' BY <1>2 DEF Ready
<1> QED BY <1>2, <1>3, <1>4, OnlyIts DEF Led, Lead

(* The lines are swept: a lone uninstall has gone through all its commands.*)
LEMMA SweptLeads ==
  ASSUME Led, NEW s \in Shells, Swept(s), TakenStays
  PROVE  /\ Lead'
         /\ \A u \in Shells : Ready(u)'
PROOF
<1>1. IInv /\ ScriptOK(s) BY DEF Led, IInv
<1>2. /\ s \in Busy /\ ~At(s, "unpack") /\ UNCHANGED <<dir, torn, trampoline, shaky>>
      /\ \A u \in Shells \ {s} : script'[u] = script[u]
      /\ script[s].kind = "uninstall" /\ script[s].todo = {} /\ script[s].bundle \in Bundles
      /\ script'[s].kind = script[s].kind
      /\ script'[s].bundle = script[s].bundle /\ script'[s].alone = script[s].alone
  BY <1>1, Reads DEF Swept, Goes, At, Busy, Records, ScriptOK
<1>3. \A b \in Bundles : Here(b) => Here(b)' BY <1>2 DEF Here, At, TakenStays
<1>4. ASSUME script[s].alone, NEW c \in Commands \ shaky PROVE trampoline[c] # script[s].bundle
  <2> SUFFICES ASSUME trampoline[c] = script[s].bundle PROVE FALSE OBVIOUS
  <2>1. c \in Provides[script[s].bundle] BY <1>1, <1>2 DEF IInv, Provided
  <2>2. Emptied(s) BY <1>1, <1>2, <1>4 DEF IInv, Progress
  <2>3. Cleared(c, script[s].bundle) BY <1>2, <2>1, <2>2 DEF Emptied, Swept, At
  <2> QED BY <1>2, <2>3, HostAssumption DEF Cleared, Good
<1>5. Ready(s)' BY <1>2, <1>4 DEF Ready
<1> QED BY <1>2, <1>3, <1>5, OnlyIts DEF Led, Lead

(* The user removes the directory, or not.                                 *)
LEMMA UninstalledLeads ==
  ASSUME Led, NEW s \in Shells, Uninstalled(s), TakenStays
  PROVE  /\ Lead'
         /\ \A u \in Shells : Ready(u)'
PROOF
<1>1. IInv /\ ScriptOK(s) BY DEF Led, IInv
<1>2. /\ s \in Busy /\ At(s, "advice") /\ UNCHANGED <<torn, trampoline, shaky>>
      /\ \A u \in Shells \ {s} : script'[u] = script[u]
      /\ script'[s].pc = "idle" /\ script[s].bundle \in Bundles
      /\ \A b \in Bundles \ {script[s].bundle} : dir'[b] = dir[b]
  BY <1>1, Reads DEF Uninstalled, Idle, At, Busy, ScriptOK, IInv, TypeOK
<1>3. Ready(s)' BY <1>2 DEF Ready, Busy, At
<1>a. \A b \in Bundles : dir'[b] # "absent" => dir'[b] = dir[b]
  BY <1>1, <1>2 DEF Uninstalled, IInv, TypeOK
<1>b. \A b \in Bundles : Here(b) /\ dir'[b] = dir[b] => Here(b)'
  BY <1>2 DEF Here, At, TakenStays
<1>4. ASSUME NEW c \in Commands \ shaky, NEW b \in Bundles, trampoline[c] = b PROVE Here(b)'
  <2>1. b # script[s].bundle
    <3>1. CASE script[s].alone BY <1>2, <1>4, <3>1 DEF Led, Lead, Ready, At
    <3>2. CASE ~script[s].alone BY <1>1, <1>2, <1>4, <3>2 DEF ScriptOK, IInv, Provided
    <3> QED BY <3>1, <3>2
  <2>2. Here(b) BY <1>4 DEF Led, Lead
  <2> QED BY <1>2, <1>b, <2>1, <2>2
<1> QED BY <1>2, <1>3, <1>4, <1>a, <1>b, OnlyIts DEF Led, Lead

(* An extraction ends, or a script is killed.                              *)
LEMMA EndsLead ==
  ASSUME Led, NEW s \in Shells,
         Unpacked(s) \/ UnpackedInPart(s) \/ UnpackFails(s) \/ Kill(s), TakenStays
  PROVE  /\ Lead'
         /\ \A u \in Shells : Ready(u)'
PROOF
<1>1. IInv /\ ScriptOK(s) BY DEF Led, IInv
<1>2. /\ s \in Busy /\ UNCHANGED trampoline /\ shaky \subseteq shaky'
      /\ script[s].bundle \in Bundles
  BY <1>1 DEF Unpacked, UnpackedInPart, UnpackFails, Kill, At, Busy, ScriptOK
<1>3. /\ \A u \in Shells \ {s} : script'[u] = script[u]
      /\ \/ script'[s].pc = "idle"
         \/ /\ At(s, "unpack") /\ script'[s].pc = "loop"
            /\ script'[s].bundle = script[s].bundle
  <2>1. CASE Goes(s, "loop") /\ At(s, "unpack") BY <1>1, <2>1, Going DEF Goes, PCs
  <2>2. CASE script' = [script EXCEPT ![s] = Idle] BY <1>1, <2>2, Reads DEF Idle
  <2> QED BY <2>1, <2>2 DEF Unpacked, UnpackedInPart, UnpackFails, Kill
<1>4. At(s, "unpack") => dir'[script[s].bundle] = "whole" \/ script[s].bundle \in torn'
  BY <1>1, <1>2 DEF Unpacked, UnpackedInPart, UnpackFails, Kill, IInv, TypeOK
<1>5. ~At(s, "unpack") => UNCHANGED <<dir, torn>>
  BY DEF Unpacked, UnpackedInPart, UnpackFails, Kill
<1>6. \A b \in Bundles \ {script[s].bundle} : dir'[b] = dir[b] /\ (b \in torn => b \in torn')
  BY <1>1, <1>2 DEF Unpacked, UnpackedInPart, UnpackFails, Kill, IInv, TypeOK
<1>7. \A b \in Bundles : Here(b) => Here(b)'
  BY <1>2, <1>3, <1>4, <1>5, <1>6 DEF Here, At, TakenStays
<1>8. \A b \in Bundles : dir'[b] # "absent" => Here(b)'
  BY <1>4, <1>5, <1>6, <1>7 DEF Led, Lead, Here
<1>9. Ready(s)' BY <1>3, <1>4 DEF Ready, Here, Busy, At
<1> QED BY <1>2, <1>3, <1>7, <1>8, <1>9, OnlyIts DEF Led, Lead

(* A script begins.                                                        *)
LEMMA StartsLead ==
  ASSUME Led, NEW s \in Shells, Unpack(s) \/ RunsScript(s), TakenStays
  PROVE  /\ Lead'
         /\ \A u \in Shells : Ready(u)'
PROOF
<1>1. IInv BY DEF Led
<1>2. PICK b \in Bundles, kind \in Kinds, pc \in {"unpack", "loop"} :
        /\ Starts(s, b, kind, pc) /\ UNCHANGED <<trampoline, torn>>
        /\ \/ pc = "unpack" /\ dir' = [dir EXCEPT ![b] = "part"]
           \/ dir[b] # "absent" /\ UNCHANGED dir
  BY DEF Unpack, RunsScript, Kinds
<1>3. /\ ~(s \in Busy) /\ shaky \subseteq shaky'
      /\ script'[s].pc = pc /\ script'[s].bundle = b
      /\ \A u \in Shells \ {s} :
           /\ script'[u].pc = script[u].pc /\ script'[u].bundle = script[u].bundle
           /\ u \in Busy => script'[u].alone = FALSE
  <2>1. script \in [Shells -> Records] BY <1>1, Reads
  <2>2. s \notin Busy /\ script'[s].pc = pc /\ script'[s].bundle = b
    BY <1>2, <2>1 DEF Starts, Busy, At
  <2>3. shaky' = IF Busy \ {s} = {} THEN shaky ELSE Commands BY <1>2 DEF Starts
  <2>4. shaky \subseteq shaky' BY <1>1, <2>3 DEF IInv, TypeOK
  <2>5. ASSUME NEW u \in Shells \ {s}
        PROVE  /\ script'[u].pc = script[u].pc /\ script'[u].bundle = script[u].bundle
               /\ u \in Busy => script'[u].alone = FALSE
    <3>1. script'[u] = [script[u] EXCEPT !.alone = @ /\ u \notin Busy \ {s}]
      BY <1>2 DEF Starts
    <3>2. script[u] \in Records BY <2>1
    <3>3. ASSUME NEW a
          PROVE  LET r == [script[u] EXCEPT !.alone = a]
                 IN  r.pc = script[u].pc /\ r.bundle = script[u].bundle /\ r.alone = a
      BY <3>2 DEF Records
    <3>4. /\ script'[u].pc = script[u].pc /\ script'[u].bundle = script[u].bundle
          /\ script'[u].alone = (script[u].alone /\ u \notin Busy \ {s})
      BY <3>1, <3>3
    <3> QED BY <3>4
  <2> QED BY <2>2, <2>4, <2>5
<1>4. \A x \in Bundles \ {b} : dir'[x] = dir[x] BY <1>1, <1>2 DEF IInv, TypeOK
<1>5. \A x \in Bundles \ {b} : Here(x) => Here(x)'
  BY <1>2, <1>3, <1>4 DEF Here, At, Busy, TakenStays
<1>6. Here(b)'
  <2>1. CASE pc = "unpack" BY <1>3, <2>1 DEF At, Here
  <2>2. CASE dir[b] # "absent" /\ UNCHANGED dir
    <3>1. Here(b) BY <2>2 DEF Led, Lead
    <3> QED BY <1>2, <1>3, <2>2, <3>1 DEF Here, At, Busy, TakenStays
  <2> QED BY <1>2, <2>1, <2>2
<1>7. Ready(s)' BY <1>2, <1>3, <1>6 DEF Ready
<1>8. \A u \in Shells \ {s} : Ready(u)' BY <1>3 DEF Ready, Busy, At
<1> QED BY <1>2, <1>3, <1>4, <1>5, <1>6, <1>7, <1>8 DEF Led, Lead

(* Every step of the host's scripts.                                       *)
LEMMA HostLeads ==
  ASSUME Led, HostNext, TakenStays
  PROVE  /\ Lead'
         /\ \A u \in Shells : Ready(u)'
PROOF
<1>1. PICK s \in Shells :
        Installs(s) \/ Uninstalls(s) \/ Truncate(s) \/ WriteFails(s) \/ Kill(s)
  BY DEF HostNext
<1> QED BY <1>1, QuietLeads, HeadLeads, ExecLeads, WriteFailsLeads, SweptLeads, UninstalledLeads,
           EndsLead, StartsLead DEF Installs, Uninstalls, Quiet

-----------------------------------------------------------------------------
TestRecords ==
  [pc : TestPCs, bundle : Bundles \cup {Nobody}, tries : 1..2,
   results : [Tests -> {"none", "PASS", "FAIL", "SKIP"}],
   cut : BOOLEAN, part : BOOLEAN, touched : BOOLEAN]

(* The server goes on to its next step.                                    *)
LEMMA Passed ==
  ASSUME test \in TestRecords, NEW pc \in TestPCs
  PROVE  LET t == [test EXCEPT !.pc = pc, !.tries = 1]
         IN  t \in TestRecords /\ t.pc = pc /\ t.bundle = test.bundle
PROOF
<1>1. ASSUME NEW t \in TestRecords PROVE [t EXCEPT !.tries = 1] \in TestRecords
  <2>1. 1 \in 1..2 OBVIOUS
  <2> QED BY <2>1 DEF TestRecords
<1>2. [test EXCEPT !.pc = pc] \in TestRecords BY DEF TestRecords
<1>3. [[test EXCEPT !.pc = pc] EXCEPT !.tries = 1] \in TestRecords BY <1>1, <1>2
<1> QED BY <1>2, <1>3 DEF TestRecords

LEMMA Passing ==
  ASSUME test \in TestRecords, NEW pc \in TestPCs, Passes(pc)
  PROVE  test' \in TestRecords /\ test'.pc = pc /\ test'.bundle = test.bundle
BY Passed DEF Passes

(* The server's own variables, whoever moves.                              *)
LEMMA ServerTypes ==
  ASSUME TestTypeOK, Tested, TypeOK', Next
  PROVE  TestTypeOK' /\ Tested'
PROOF
<1>0. /\ test \in TestRecords /\ up \in BOOLEAN /\ orphans \in SUBSET ({"tar", "rm"} \X Bundles)
      /\ taken \in SUBSET Bundles
  BY DEF TestTypeOK, TestRecords
<1> SUFFICES /\ test' \in TestRecords /\ up' \in BOOLEAN
             /\ orphans' \in SUBSET ({"tar", "rm"} \X Bundles) /\ taken' \in SUBSET Bundles
             /\ Tested'
  BY DEF TestTypeOK, TestRecords
<1>1. CASE Called
  <2>1. PICK b \in Bundles : test' = [NoTest EXCEPT !.pc = "mkdir", !.bundle = b]
    BY <1>1 DEF Called
  <2>2. NoTest \in TestRecords BY DEF NoTest, NoResults, TestRecords, TestPCs
  <2>3. test' \in TestRecords /\ test'.bundle = b BY <2>1, <2>2 DEF TestRecords, TestPCs
  <2> QED BY <1>0, <1>1, <2>3 DEF Called, Tested
<1>2. CASE Mkdir \/ Untars \/ Deploys \/ Cleans
  <2>1. test' \in TestRecords /\ test'.bundle = test.bundle
    BY <1>0, <1>2, Passing DEF Mkdir, Untars, Deploys, Cleans, TestPCs
  <2>2. test.bundle \in Bundles BY <1>2 DEF Mkdir, Untars, Deploys, Cleans, Now, Tested
  <2> QED BY <1>0, <1>2, <2>1, <2>2 DEF Mkdir, Untars, Deploys, Cleans, Tested, Takes, hostVars
<1>3. CASE DeploysPart
  <2>1. test.bundle \in Bundles BY <1>3 DEF DeploysPart, Now, Tested
  <2> DEFINE on == [test EXCEPT !.pc = "run", !.tries = 1]
  <2>2. on \in TestRecords /\ on.bundle = test.bundle BY <1>0, Passed DEF TestPCs
  <2>3. test' = [on EXCEPT !.part = TRUE] BY <1>3 DEF DeploysPart
  <2> HIDE DEF on
  <2>4. test' \in TestRecords /\ test'.bundle = test.bundle
    BY <2>2, <2>3 DEF TestRecords
  <2> QED BY <1>0, <1>3, <2>1, <2>4 DEF DeploysPart, Tested, Takes
<1>4. CASE RunsTest
  <2>1. PICK t \in Tests, status \in {"PASS", "FAIL", "SKIP"} :
          test' = [test EXCEPT !.results[t] = status]
    BY <1>4 DEF RunsTest
  <2>2. test' \in TestRecords /\ test'.pc = test.pc /\ test'.bundle = test.bundle
    BY <1>0, <2>1 DEF TestRecords
  <2> QED BY <1>0, <1>4, <2>2 DEF RunsTest, Now, Tested
<1>5. CASE Waited
  <2>1. CASE Reconnects
    <3>1. test' \in TestRecords /\ test'.bundle = test.bundle
      BY <1>0, <2>1 DEF Reconnects, TestRecords
    <3>2. test.bundle \in Bundles BY <2>1 DEF Reconnects, Now, Tested
    <3> QED BY <1>0, <2>1, <3>1, <3>2 DEF Reconnects, Tested
  <2>2. CASE MkdirFails \/ DeployFails \/ CleanGivenUp
    <3>1. test' \in TestRecords /\ test'.bundle = test.bundle
      BY <1>0, <2>2, Passing DEF MkdirFails, DeployFails, CleanGivenUp, TestPCs
    <3>2. test.bundle \in Bundles
      BY <2>2 DEF MkdirFails, DeployFails, CleanGivenUp, Now, Tested
    <3>3. /\ UNCHANGED <<up, taken>>
          /\ \/ UNCHANGED orphans
             \/ \E op \in {"tar", "rm"} : orphans' = orphans \cup {<<op, test.bundle>>}
      BY <2>2 DEF MkdirFails, DeployFails, CleanGivenUp
    <3> QED BY <1>0, <3>1, <3>2, <3>3 DEF Tested
  <2>3. CASE RunCut \/ RunTimesOut
    <3> DEFINE cut == [test EXCEPT !.pc = "save", !.tries = 1, !.cut = TRUE]
    <3>1. [test EXCEPT !.pc = "save", !.tries = 1] \in TestRecords
      BY <1>0, Passed DEF TestPCs
    <3>2. cut \in TestRecords /\ cut.bundle = test.bundle
      BY <1>0, <3>1 DEF TestRecords
    <3>3. test' \in {cut, [cut EXCEPT !.results = NoResults]} BY <2>3 DEF RunCut, RunTimesOut
    <3>4. NoResults \in [Tests -> {"none", "PASS", "FAIL", "SKIP"}] BY DEF NoResults
    <3> HIDE DEF cut
    <3>5. test' \in TestRecords /\ test'.bundle = test.bundle
      BY <3>2, <3>3, <3>4 DEF TestRecords
    <3>6. test.bundle \in Bundles BY <2>3 DEF RunCut, RunTimesOut, Now, Tested
    <3> QED BY <1>0, <2>3, <3>5, <3>6 DEF RunCut, RunTimesOut, Tested
  <2> QED BY <1>5, <2>1, <2>2, <2>3 DEF Waited
<1>6. CASE Server
  <2>1. CASE Ran \/ Saves \/ SaveFails
    <3>1. test' \in TestRecords /\ test'.bundle = test.bundle
      BY <1>0, <2>1, Passing DEF Ran, Saves, SaveFails, TestPCs
    <3>2. test.bundle \in Bundles BY <2>1 DEF Ran, Saves, SaveFails, Now, Tested
    <3> QED BY <1>0, <2>1, <3>1, <3>2 DEF Ran, Saves, SaveFails, Tested
  <2>2. CASE Returns
    <3>1. NoTest \in TestRecords BY DEF NoTest, NoResults, TestRecords, TestPCs
    <3> QED BY SMTT(30), <1>0, <2>2, <3>1 DEF Returns, NoTest, Now, Tested
  <2> QED BY <1>6, <2>1, <2>2 DEF Server
<1>7. CASE ConnectionLost BY <1>0, <1>7 DEF ConnectionLost, Now, Tested
<1>8. CASE OrphanEnds \/ UserStep
  <2>1. test' \in TestRecords /\ test'.pc = test.pc /\ test'.bundle = test.bundle
    <3>1. Beside BY <1>8 DEF OrphanEnds, UserStep
    <3>2. test' = test \/ test' = [test EXCEPT !.touched = TRUE] BY <3>1 DEF Beside
    <3> QED BY <1>0, <3>2 DEF TestRecords
  <2>2. taken' \in SUBSET Bundles
    <3>1. CASE OrphanEnds
      <4>1. PICK o \in orphans : taken' = taken \cup {o[2]} BY <3>1 DEF OrphanEnds, Takes
      <4> QED BY <1>0, <4>1
    <3>2. CASE UserStep BY <1>0, <3>2 DEF UserStep
    <3> QED BY <1>8, <3>1, <3>2
  <2> QED BY <1>0, <1>8, <2>1, <2>2 DEF OrphanEnds, UserStep, Now, Tested
<1> QED BY <1>1, <1>2, <1>3, <1>4, <1>5, <1>6, <1>7, <1>8 DEF Next, Remote

(* The server changes only directories it has taken.                       *)
LEMMA ServerLeads ==
  ASSUME Led, Next, ~UserStep
  PROVE  /\ Lead'
         /\ \A u \in Shells : Ready(u)'
PROOF
<1>1. IInv /\ Tested /\ TestTypeOK BY DEF Led
<1>2. UNCHANGED <<trampoline, script, shaky, torn>> BY <1>1, ServerStays
<1>3. ASSUME NEW b, NEW state, b \in Bundles, Takes(b, state)
      PROVE  taken \subseteq taken' /\ \A x \in Bundles : dir'[x] = dir[x] \/ x \in taken'
  BY <1>1, <1>3 DEF Takes, IInv, TypeOK
<1>4. taken \subseteq taken' /\ \A b \in Bundles : dir'[b] = dir[b] \/ b \in taken'
  <2>1. CASE Called \/ Mkdir \/ RunsTest \/ Waited \/ Server \/ ConnectionLost
    BY <2>1 DEF Called, Mkdir, RunsTest, Waited, Reconnects, MkdirFails, DeployFails, RunCut,
                RunTimesOut, CleanGivenUp, Server, Ran, Saves, SaveFails, Returns, ConnectionLost,
                hostVars
  <2>2. CASE Untars \/ Deploys \/ DeploysPart \/ Cleans
    <3>1. test.bundle \in Bundles
      BY <1>1, <2>2 DEF Untars, Deploys, DeploysPart, Cleans, Tested, Now
    <3>2. \E state : Takes(test.bundle, state)
      BY <2>2 DEF Untars, Deploys, DeploysPart, Cleans
    <3> QED BY <1>3, <3>1, <3>2
  <2>3. CASE OrphanEnds
    <3>1. PICK o \in orphans : \E state : Takes(o[2], state) BY <2>3 DEF OrphanEnds
    <3>2. o[2] \in Bundles BY <1>1, <3>1 DEF TestTypeOK
    <3> QED BY <1>3, <3>1, <3>2
  <2> QED BY <2>1, <2>2, <2>3 DEF Next, Remote
<1>5. \A b \in Bundles : Here(b) => Here(b)' BY <1>2, <1>4 DEF Here, At
<1>6. \A u \in Shells : Ready(u)'
  BY <1>1, <1>2, <1>5, Reads DEF Led, Lead, Ready, Busy, At
<1> QED BY <1>2, <1>4, <1>5, <1>6 DEF Led, Lead, Here

(* Led is an invariant of the host and the server together.                *)
LEMMA LedInductive == Spec => []Led
PROOF
<1>1. TestInit => Led
  <2> SUFFICES ASSUME TestInit PROVE Led OBVIOUS
  <2>1. IInv /\ TypeOK BY InitKeeps DEF TestInit, IInv
  <2>2. TestTypeOK /\ Tested
    BY <2>1 DEF TestInit, TestTypeOK, NoTest, NoResults, TestPCs, Now, Tested
  <2>3. \A s \in Shells : Ready(s) BY DEF TestInit, Init, Ready, Busy, At, Idle
  <2>4. ASSUME NEW c \in Commands, NEW b \in Bundles, trampoline[c] = b PROVE Here(b)
    BY <2>4, HostAssumption DEF TestInit, Init, Here
  <2>5. \A b \in Bundles : dir[b] # "absent" => Here(b) BY DEF TestInit, Init, Here
  <2> QED BY <2>1, <2>2, <2>3, <2>4, <2>5 DEF Led, Lead
<1>2. Led /\ IInv' /\ [Next]_vars => Led'
  <2> SUFFICES ASSUME Led, IInv', [Next]_vars PROVE Led' OBVIOUS
  <2>1. CASE UNCHANGED vars
    <3>1. UNCHANGED <<hostVars, testVars>> BY <2>1 DEF vars
    <3>2. \A b \in Bundles : Here(b) => Here(b)' BY <3>1 DEF Here, At, hostVars, testVars
    <3>3. TestTypeOK' /\ Tested' BY <3>1 DEF Led, TestTypeOK, TypeOK, Now, Tested, hostVars, testVars
    <3>4. \A s \in Shells : Ready(s)'
      BY <3>1, <3>2, Reads DEF Led, Lead, Ready, Busy, At, hostVars
    <3> QED BY <3>1, <3>2, <3>3, <3>4 DEF Led, Lead, hostVars
  <2>2. CASE Next
    <3>1. TestTypeOK' /\ Tested' BY <2>2, ServerTypes DEF Led, IInv
    <3>2. CASE UserStep
      <4>1. HostNext /\ TakenStays BY <3>2 DEF UserStep, Reinstalled, TakenStays
      <4> QED BY <3>1, <4>1, HostLeads DEF Led
    <3>3. CASE ~UserStep BY <2>2, <3>1, <3>3, ServerLeads DEF Led
    <3> QED BY <3>2, <3>3
  <2> QED BY <2>1, <2>2
<1> QED BY <1>1, <1>2, Inductive, PTL DEF Spec

(* The types of the server's variables and the host's.                     *)
THEOREM AllTypesCorrect == Spec => []TestTypeOK
PROOF
<1>1. Led => TestTypeOK BY DEF Led
<1> QED BY <1>1, LedInductive, PTL

(* Who types a command that was registered undisturbed reaches a bundle    *)
(* that is there, but for tests and extractions of it.                     *)
THEOREM CommandsLead == Spec => []CommandsLeadToBundles
PROOF
<1>1. Led => CommandsLeadToBundles BY DEF Led, Lead, Here, CommandsLeadToBundles
<1> QED BY <1>1, LedInductive, PTL

-----------------------------------------------------------------------------
(* While nobody else changes the directory under test and the bundle has   *)
(* come as a whole, it is what the server has made it, and what has been   *)
(* reported of it is true until the first test is skipped.                 *)
True(results) ==
  \A t \in Tests :
    /\ results[t] = "FAIL" => <<test.bundle, t>> \in Defects
    /\ results[t] = "PASS" => <<test.bundle, t>> \notin Defects

Truthful ==
  ~test.touched /\ ~test.part =>
    /\ test.pc = "untar" => dir[test.bundle] = "part"
    /\ test.pc = "run" => dir[test.bundle] = "whole"
    /\ test.pc \in {"save", "clean", "report"} /\ ~test.cut =>
         \A t \in Tests : test.results[t] # "none"
    /\ (\A t \in Tests : test.results[t] # "SKIP") => True(test.results)

(* A call starts with no results.                                         *)
LEMMA NoTestType ==
  NoTest \in TestRecords /\ \A t \in Tests : NoTest.results[t] = "none"
BY DEF NoTest, NoResults, TestRecords, TestPCs

(* What a step that does not run a test leaves of the record.              *)
LEMMA TestGoesOn ==
  ASSUME test \in TestRecords, Next, ~Called, ~RunsTest, ~RunTimesOut, ~Returns
  PROVE  /\ test'.results = test.results /\ test'.bundle = test.bundle
         /\ test.touched => test'.touched
         /\ test.part => test'.part
         /\ RunCut \/ (test'.cut = test.cut)
PROOF
<1>1. ASSUME NEW pc \in TestPCs, Passes(pc)
      PROVE  /\ test'.results = test.results /\ test'.bundle = test.bundle
             /\ test'.touched = test.touched /\ test'.cut = test.cut /\ test'.part = test.part
  BY <1>1 DEF Passes, TestRecords
<1>2. CASE \/ Mkdir \/ Untars \/ Deploys \/ Cleans \/ MkdirFails \/ DeployFails \/ CleanGivenUp
           \/ Ran \/ Saves \/ SaveFails
  BY <1>1, <1>2 DEF Mkdir, Untars, Deploys, Cleans, MkdirFails, DeployFails, CleanGivenUp, Ran,
                    Saves, SaveFails, TestPCs
<1>3. CASE Reconnects \/ RunCut \/ DeploysPart
  BY <1>3 DEF Reconnects, RunCut, DeploysPart, TestRecords
<1>4. CASE OrphanEnds \/ UserStep BY <1>4 DEF OrphanEnds, UserStep, Beside, TestRecords
<1>5. CASE ConnectionLost BY <1>5 DEF ConnectionLost
<1> QED BY <1>2, <1>3, <1>4, <1>5 DEF Next, Remote, Waited, Server

(* The next result tells the truth of its test.                            *)
LEMMA TruthfulResult ==
  ASSUME Led, Truthful, RunsTest
  PROVE  Truthful'
PROOF
<1>0. test \in TestRecords BY DEF Led, TestTypeOK, TestRecords
<1>1. PICK t \in Tests, status \in {"PASS", "FAIL", "SKIP"} :
        /\ test.results[t] = "none"
        /\ Undisturbed /\ status # "SKIP" => (status = "FAIL" <=> <<test.bundle, t>> \in Defects)
        /\ test' = [test EXCEPT !.results[t] = status]
  BY DEF RunsTest
<1>2. /\ test'.pc = test.pc /\ test'.bundle = test.bundle /\ test'.touched = test.touched
      /\ test'.part = test.part /\ test.pc = "run" /\ UNCHANGED dir
      /\ test'.results = [test.results EXCEPT ![t] = status]
      /\ test.results \in [Tests -> {"none", "PASS", "FAIL", "SKIP"}]
  BY <1>0, <1>1 DEF RunsTest, TestRecords, Now
<1>3. ASSUME ~test'.touched, ~test'.part, \A u \in Tests : test'.results[u] # "SKIP"
      PROVE  True(test.results)'
  <2>1. status # "SKIP" /\ \A u \in Tests : test.results[u] # "SKIP" BY <1>1, <1>2, <1>3
  <2>2. True(test.results) /\ dir[test.bundle] = "whole" BY <1>2, <1>3, <2>1 DEF Truthful
  <2>3. status = "FAIL" <=> <<test.bundle, t>> \in Defects
    BY <1>1, <2>1, <2>2 DEF Undisturbed
  <2>4. ASSUME NEW u \in Tests
        PROVE  /\ test'.results[u] = "FAIL" => <<test.bundle, u>> \in Defects
               /\ test'.results[u] = "PASS" => <<test.bundle, u>> \notin Defects
    BY <1>2, <2>2, <2>3 DEF True
  <2> QED BY <1>2, <2>4 DEF True
<1> QED BY <1>2, <1>3 DEF Truthful

(* Every step of the server and of others leaves the reports true.         *)
LEMMA TruthfulStep ==
  ASSUME Led, Truthful, Next
  PROVE  Truthful'
PROOF
<1>0. test \in TestRecords /\ dir \in [Bundles -> {"absent", "part", "whole"}] /\ Tested
  BY DEF Led, TestTypeOK, TypeOK, TestRecords
<1>1. CASE Called
  <2>1. PICK b \in Bundles : test' = [NoTest EXCEPT !.pc = "mkdir", !.bundle = b]
    BY <1>1 DEF Called
  <2>2. test'.pc = "mkdir" /\ \A t \in Tests : test'.results[t] = "none"
    BY <2>1, NoTestType DEF TestRecords
  <2> QED BY <2>2 DEF Truthful, True
<1>2. CASE Returns
  <2>1. test'.pc = "idle" /\ \A t \in Tests : test'.results[t] = "none"
    BY <1>2, NoTestType DEF Returns, NoTest
  <2> QED BY <2>1 DEF Truthful, True
<1>3. CASE RunTimesOut
  <2>1. test' = [test EXCEPT !.pc = "save", !.tries = 1, !.cut = TRUE, !.results = NoResults]
    BY <1>3 DEF RunTimesOut
  <2>2. test'.cut /\ test'.pc = "save" /\ test'.results = NoResults
    BY <1>0, <2>1 DEF TestRecords
  <2> QED BY <2>2 DEF Truthful, True, NoResults
<1>4. CASE RunsTest BY <1>4, TruthfulResult
<1>5. CASE ~Called /\ ~RunsTest /\ ~RunTimesOut /\ ~Returns
  <2>0. /\ test'.results = test.results /\ test'.bundle = test.bundle
        /\ test.touched => test'.touched
        /\ test.part => test'.part
        /\ RunCut \/ (test'.cut = test.cut)
    BY <1>0, <1>5, TestGoesOn
  <2>a. True(test.results)' <=> True(test.results) BY <2>0 DEF True
  <2>1. CASE Mkdir \/ MkdirFails \/ DeployFails \/ SaveFails
    <3>1. test'.pc \in {"deploy", "error"}
      BY <1>0, <2>1, Passing DEF Mkdir, MkdirFails, DeployFails, SaveFails, TestPCs
    <3> QED BY <2>0, <2>a, <3>1 DEF Truthful
  <2>2. CASE Untars
    <3>1. test'.pc = "untar" /\ test.bundle \in Bundles
      BY <1>0, <2>2, Passing DEF Untars, TestPCs, Tested, Now
    <3>2. dir'[test.bundle] = "part" BY <1>0, <2>2, <3>1 DEF Untars, Takes
    <3> QED BY <2>0, <2>a, <3>1, <3>2 DEF Truthful
  <2>3. CASE Deploys
    <3>1. test.pc = "untar" /\ test'.pc = "run" /\ test.bundle \in Bundles
      BY <1>0, <2>3, Passing DEF Deploys, TestPCs, Tested, Now
    <3>2. dir[test.bundle] = "part" => dir'[test.bundle] = "whole"
      BY <1>0, <2>3, <3>1 DEF Deploys, Takes
    <3> QED BY <2>0, <2>a, <3>1, <3>2 DEF Truthful
  <2>4. CASE DeploysPart
    <3>1. test'.part BY <1>0, <2>4 DEF DeploysPart, TestRecords
    <3> QED BY <3>1 DEF Truthful
  <2>5. CASE Ran
    <3>1. test.pc = "run" /\ test'.pc = "save"
      BY <1>0, <2>5, Passing DEF Ran, TestPCs, Now
    <3>2. dir[test.bundle] # "absent" => \A t \in Tests : test.results[t] # "none"
      BY <2>5 DEF Ran
    <3> QED BY <2>0, <2>a, <3>1, <3>2 DEF Truthful
  <2>6. CASE RunCut
    <3>1. test'.pc = "save" /\ test'.cut BY <1>0, <2>6 DEF RunCut, TestRecords
    <3> QED BY <2>0, <2>a, <3>1 DEF Truthful
  <2>7. CASE Saves \/ Cleans \/ CleanGivenUp
    <3>1. test.pc \in {"save", "clean"} BY <2>7 DEF Saves, Cleans, CleanGivenUp, Now
    <3>2. test'.pc \in {"clean", "report"}
      BY <1>0, <2>7, Passing DEF Saves, Cleans, CleanGivenUp, TestPCs
    <3>3. test'.cut = test.cut BY <2>0, <3>1 DEF RunCut, Now
    <3> QED BY <2>0, <2>a, <3>1, <3>2, <3>3 DEF Truthful
  <2>8. CASE Reconnects \/ ConnectionLost
    <3>1. test'.pc = test.pc /\ test'.cut = test.cut /\ UNCHANGED dir
      BY <1>0, <2>8 DEF Reconnects, ConnectionLost, TestRecords, hostVars
    <3> QED BY <2>0, <2>a, <3>1 DEF Truthful
  <2>9. CASE OrphanEnds \/ UserStep
    <3>1. /\ test'.pc = test.pc /\ test'.cut = test.cut
          /\ test.pc \in {"untar", "run"} /\ dir'[test.bundle] # dir[test.bundle] => test'.touched
      BY <1>0, <2>9 DEF OrphanEnds, UserStep, Beside, TestRecords
    <3> QED BY <2>0, <2>a, <3>1 DEF Truthful
  <2> QED BY <1>5, <2>1, <2>2, <2>3, <2>4, <2>5, <2>6, <2>7, <2>8, <2>9
          DEF Next, Remote, Waited, Server
<1> QED BY <1>1, <1>2, <1>3, <1>4, <1>5

(* When no test was skipped, "passed" is true but of tests that were cut   *)
(* off, and "failures" always, unless a part of the bundle was taken for   *)
(* the whole or somebody else changed the directory under test.            *)
THEOREM HonestReports == Spec => []ReportIsHonest
PROOF
<1>1. TestInit => Truthful BY NoTestType DEF TestInit, Truthful, True, NoTest
<1>2. Led /\ Truthful /\ [Next]_vars => Truthful'
  <2>1. CASE Next BY <2>1, TruthfulStep
  <2>2. CASE UNCHANGED vars BY <2>2 DEF vars, hostVars, testVars, Truthful, True
  <2> QED BY <2>1, <2>2
<1>3. Led /\ Truthful => ReportIsHonest
  <2> SUFFICES ASSUME Led, Truthful, test.pc = "report", ~test.touched, ~test.part,
                      \A t \in Tests : test.results[t] # "SKIP"
               PROVE  IF Verdict = "All tests passed."
                      THEN \A t \in Tests : <<test.bundle, t>> \in Defects =>
                             test.cut /\ test.results[t] = "none"
                      ELSE \E t \in Tests : <<test.bundle, t>> \in Defects
    BY DEF ReportIsHonest, Now
  <2>1. \A t \in Tests : test.results[t] \in {"none", "PASS", "FAIL", "SKIP"}
    BY DEF Led, TestTypeOK
  <2>2. True(test.results) BY DEF Truthful
  <2>3. CASE Verdict = "All tests passed."
    <3>1. \A t \in Tests : test.results[t] # "FAIL" BY <2>3 DEF Verdict
    <3>2. ~test.cut => \A t \in Tests : test.results[t] # "none" BY DEF Truthful
    <3> QED BY <2>1, <2>2, <2>3, <3>1, <3>2 DEF True
  <2>4. CASE Verdict # "All tests passed."
    <3>1. \E t \in Tests : test.results[t] = "FAIL" BY <2>4 DEF Verdict
    <3> QED BY <2>2, <2>4, <3>1 DEF True
  <2> QED BY <2>3, <2>4
<1> QED BY <1>1, <1>2, <1>3, LedInductive, PTL DEF Spec
=============================================================================
