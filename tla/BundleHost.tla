----------------------------- MODULE BundleHost -----------------------------
(***************************************************************************)
(* An IRIX host with app bundles (mogrix/bundle.py).  Every bundle has a   *)
(* directory of its own and shares one bin directory with the others: its  *)
(* install script writes a trampoline per command and notes in a registry  *)
(* which bundle owns the command, its uninstall script removes what it     *)
(* owns.  Users run the scripts from several shells, nothing locks, a      *)
(* script may be killed at every step, and what it writes may get lost on  *)
(* a full disk.                                                            *)
(***************************************************************************)
EXTENDS Naturals, FiniteSets

CONSTANTS
  Shells,      \* the shells scripts run in
  Bundles,
  Commands,
  Provides,    \* the commands of each bundle
  MaxWork,     \* bound: scripts run (and bundles tested)
  MaxFaults,   \* bound: scripts killed and writes failed (connections lost,
               \* tests that hang, results not saved)
  Nobody,      \* no bundle; a trampoline that is not there
  Headed,      \* a trampoline without its exec line
  NoFile

ASSUME HostAssumption ==
  /\ Provides \in [Bundles -> SUBSET Commands]
  /\ Nobody \notin Bundles /\ Headed \notin Bundles /\ Nobody # Headed
  /\ MaxWork \in Nat /\ MaxFaults \in Nat
  /\ NoFile \notin [Commands -> [Bundles -> Nat]]

VARIABLES
  dir,         \* the directory of each bundle: absent, part, whole
  trampoline,  \* bin/<command>: the bundle it runs, Headed or Nobody
  executable,  \* the trampolines with permission to execute
  registry,    \* .bundle-owners: how many lines <command>=<bundle> it has
  tmp,         \* .bundle-owners.tmp
  out,         \* the name that the file each shell's grep writes into has now
  script,      \* what each shell runs
  left,        \* bounds: how much work and how many faults are left
  shaky,       \* history: commands whose registration may have been disturbed
  torn         \* history: directories left in part by a killed or failed tar

hostVars == <<dir, trampoline, executable, registry, tmp, out, script, left, shaky, torn>>

Kinds == {"install", "uninstall"}

PCs == {"idle", "unpack", "loop", "exec", "chmod", "filter", "grep", "move", "append",
        "rm", "sweep", "swept", "advice"}

Outs == {"none", "tmp", "registry", "gone"}

(* todo is the rest of the script's commands, alone is TRUE until another  *)
(* script runs beside this one or it fails to write.                       *)
Idle == [pc |-> "idle", kind |-> "install", bundle |-> Nobody, todo |-> {},
         cmd |-> Nobody, alone |-> TRUE]

NoLines == [b \in Bundles |-> 0]
Empty == [c \in Commands |-> NoLines]

TypeOK ==
  /\ dir \in [Bundles -> {"absent", "part", "whole"}]
  /\ trampoline \in [Commands -> Bundles \cup {Nobody, Headed}]
  /\ executable \in SUBSET Commands
  /\ registry \in [Commands -> [Bundles -> Nat]]
  /\ tmp \in [Commands -> [Bundles -> Nat]] \cup {NoFile}
  /\ out \in [Shells -> Outs]
  /\ left \in [work : 0..MaxWork, faults : 0..MaxFaults]
  /\ shaky \in SUBSET Commands /\ torn \in SUBSET Bundles
  /\ script \in [Shells ->
       [pc : PCs, kind : Kinds, bundle : Bundles \cup {Nobody}, todo : SUBSET Commands,
        cmd : Commands \cup {Nobody}, alone : BOOLEAN]]

(* A host where some bundles have been installed.                          *)
Init ==
  /\ dir \in [Bundles -> {"absent", "whole"}]
  /\ trampoline \in [Commands -> Bundles \cup {Nobody}]
  /\ \A c \in Commands :
       LET providers == {b \in Bundles : dir[b] = "whole" /\ c \in Provides[b]} IN
       IF providers = {} THEN trampoline[c] = Nobody ELSE trampoline[c] \in providers
  /\ executable = {c \in Commands : trampoline[c] # Nobody}
  /\ registry = [c \in Commands |-> [b \in Bundles |-> IF b = trampoline[c] THEN 1 ELSE 0]]
  /\ tmp = NoFile /\ out = [s \in Shells |-> "none"]
  /\ script = [s \in Shells |-> Idle]
  /\ left = [work |-> MaxWork, faults |-> MaxFaults]
  /\ shaky = {} /\ torn = {}

At(s, pc) == script[s].pc = pc
Busy == {s \in Shells : ~At(s, "idle")}
Goes(s, pc) == script' = [script EXCEPT ![s].pc = pc]

(* owner=`grep "^cmd=" registry | sed ...`: the bundle, when there is one  *)
(* line; several lines are no bundle's name.                               *)
OwnedBy(c, b) == registry[c] = [NoLines EXCEPT ![b] = 1]

(* The lines of a file, and some of them.                                  *)
Lines(file) == {l \in Commands \X Bundles : file[l[1]][l[2]] # 0}
Some(file, some) ==
  [c \in Commands |-> [b \in Bundles |-> IF <<c, b>> \in some THEN file[c][b] ELSE 0]]

(* Two writers of one file write over and between each other's lines.      *)
Both(x, y) == [c \in Commands |-> [b \in Bundles |-> x[c][b] + y[c][b]]]

Mixtures(x, y) ==
  {Both(Some(x, xs), Some(y, ys)) : xs \in SUBSET Lines(x), ys \in SUBSET Lines(y)}

(* grep writes into the file that the shell has truncated for it, whatever *)
(* that is called by now: nobody's but this script's, or one into which    *)
(* another script writes as well, or the registry it reads from.           *)
Writes(s, lines) ==
  LET own == out[s] = "tmp" /\ tmp = Empty /\ \A o \in Shells \ {s} : out[o] # "tmp" IN
  /\ out' = [out EXCEPT ![s] = "none"]
  /\ \/ own /\ tmp' = lines /\ UNCHANGED registry
     \/ out[s] = "tmp" /\ ~own /\ tmp' \in Mixtures(lines, tmp) /\ UNCHANGED registry
     \/ out[s] = "registry" /\ registry' \in Mixtures(lines, registry) /\ UNCHANGED tmp
     \/ out[s] = "gone" /\ UNCHANGED <<registry, tmp>>

-----------------------------------------------------------------------------
(* Mistakes the properties must tell from the code; no part of HostNext.   *)

(* The old line of the command stays in the registry.                      *)
FilterNothing(s) ==
  /\ At(s, "grep") /\ Goes(s, "move")
  /\ Writes(s, registry)
  /\ UNCHANGED <<dir, trampoline, executable, left, shaky, torn>>

(* uninstall without the look-up of the owner.                             *)
LookAtNothing(s) ==
  /\ At(s, "loop") /\ script[s].kind = "uninstall"
  /\ \E c \in script[s].todo :
       script' = [script EXCEPT ![s].todo = @ \ {c}, ![s].cmd = c, ![s].pc = "rm"]
  /\ UNCHANGED <<dir, trampoline, executable, registry, tmp, out, left, shaky, torn>>

(* uninstall cleans the registry only.                                     *)
RmNothing(s) ==
  /\ At(s, "rm") /\ Goes(s, "loop")
  /\ UNCHANGED <<dir, trampoline, executable, registry, tmp, out, left, shaky, torn>>

-----------------------------------------------------------------------------
(* A script begins.  It and those it runs beside are no longer alone; they *)
(* rewrite one registry, which puts every command at stake.                *)
Starts(s, b, kind, pc) ==
  LET others == Busy \ {s}
  IN /\ At(s, "idle") /\ left.work > 0
     /\ left' = [left EXCEPT !.work = @ - 1]
     /\ script' = [o \in Shells |->
          IF o = s THEN [pc |-> pc, kind |-> kind, bundle |-> b, todo |-> Provides[b],
                         cmd |-> Nobody, alone |-> others = {}]
          ELSE [script[o] EXCEPT !.alone = @ /\ o \notin others]]
     /\ shaky' = IF others = {} THEN shaky ELSE Commands
     /\ UNCHANGED out

(* The self-extracting installer: tar, then the install script.            *)
Unpack(s) ==
  \E b \in Bundles :
    /\ Starts(s, b, "install", "unpack")
    /\ dir' = [dir EXCEPT ![b] = "part"]
    /\ UNCHANGED <<trampoline, executable, registry, tmp, torn>>

Unpacked(s) ==
  LET b == script[s].bundle IN
  /\ At(s, "unpack") /\ Goes(s, "loop")
  /\ dir' = [dir EXCEPT ![b] = IF @ = "absent" THEN "part" ELSE "whole"]
  /\ torn' = IF dir[b] = "absent" THEN torn \cup {b} ELSE torn \ {b}
  /\ UNCHANGED <<trampoline, executable, registry, tmp, out, left, shaky>>

(* What $? tells is tar's status: gzcat may have failed and left tar with  *)
(* a part.  The script goes on to ./install, should that have arrived.     *)
UnpackedInPart(s) ==
  LET b == script[s].bundle IN
  /\ At(s, "unpack") /\ left.faults > 0
  /\ Goes(s, "loop") \/ script' = [script EXCEPT ![s] = Idle]
  /\ left' = [left EXCEPT !.faults = @ - 1]
  /\ dir' = [dir EXCEPT ![b] = "part"] /\ torn' = torn \cup {b}
  /\ UNCHANGED <<trampoline, executable, registry, tmp, out, shaky>>

(* "Error: extraction failed".                                             *)
UnpackFails(s) ==
  /\ At(s, "unpack")
  /\ script' = [script EXCEPT ![s] = Idle]
  /\ torn' = torn \cup {script[s].bundle}
  /\ UNCHANGED <<dir, trampoline, executable, registry, tmp, out, left, shaky>>

(* ./install or ./uninstall in a bundle that has been unpacked before.     *)
RunsScript(s) ==
  \E b \in Bundles, kind \in Kinds :
    /\ dir[b] # "absent"
    /\ Starts(s, b, kind, "loop")
    /\ UNCHANGED <<dir, trampoline, executable, registry, tmp, torn>>

-----------------------------------------------------------------------------
(* install, for each command: the first lines of the trampoline, alike for *)
(* all, with >; a file that was there keeps its mode.                      *)
Head(s) ==
  /\ At(s, "loop") /\ script[s].kind = "install"
  /\ \E c \in script[s].todo :
       /\ trampoline' = [trampoline EXCEPT ![c] = Headed]
       /\ executable' = IF trampoline[c] = Nobody THEN executable \ {c} ELSE executable
       /\ script' = [script EXCEPT ![s].pc = "exec", ![s].cmd = c, ![s].todo = @ \ {c}]
  /\ UNCHANGED <<dir, registry, tmp, out, left, shaky, torn>>

(* The exec line, with >>: behind another exec line it is never reached,   *)
(* and in a new file it comes without the head it needs.                   *)
Exec(s) ==
  LET c == script[s].cmd IN
  /\ At(s, "exec") /\ Goes(s, "chmod")
  /\ trampoline' = [trampoline EXCEPT ![c] = CASE @ = Headed -> script[s].bundle
                                               [] @ = Nobody -> Headed
                                               [] OTHER -> @]
  /\ executable' = IF trampoline[c] = Nobody THEN executable \ {c} ELSE executable
  /\ UNCHANGED <<dir, registry, tmp, out, left, shaky, torn>>

Chmod(s) ==
  LET c == script[s].cmd IN
  /\ At(s, "chmod") /\ Goes(s, "filter")
  /\ executable' = IF trampoline[c] = Nobody THEN executable ELSE executable \cup {c}
  /\ UNCHANGED <<dir, trampoline, registry, tmp, out, left, shaky, torn>>

(* > registry.tmp: before it runs grep the shell makes or empties the file *)
(* that all scripts share.                                                 *)
Truncate(s) ==
  /\ \/ At(s, "filter") /\ Goes(s, "grep")
     \/ At(s, "loop") /\ script[s].kind = "uninstall" /\ script[s].todo = {} /\ Goes(s, "sweep")
  /\ tmp' = Empty /\ out' = [out EXCEPT ![s] = "tmp"]
  /\ UNCHANGED <<dir, trampoline, executable, registry, left, shaky, torn>>

(* grep -v "^cmd=" registry                                                *)
Filtered(s) == [registry EXCEPT ![script[s].cmd] = NoLines]

Filter(s) ==
  /\ At(s, "grep") /\ Goes(s, "move")
  /\ Writes(s, Filtered(s))
  /\ UNCHANGED <<dir, trampoline, executable, left, shaky, torn>>

(* mv registry.tmp registry: fails when the file is gone.  Whoever has the *)
(* file open goes on writing into it.                                      *)
Moves ==
  IF tmp = NoFile THEN UNCHANGED <<registry, tmp, out>>
  ELSE /\ registry' = tmp /\ tmp' = NoFile
       /\ out' = [s \in Shells |-> CASE out[s] = "tmp" -> "registry"
                                     [] out[s] = "registry" -> "gone"
                                     [] OTHER -> out[s]]

Move(s) ==
  /\ At(s, "move") /\ Goes(s, "append")
  /\ Moves
  /\ UNCHANGED <<dir, trampoline, executable, left, shaky, torn>>

Append(s) ==
  LET c == script[s].cmd IN
  /\ At(s, "append") /\ Goes(s, "loop")
  /\ registry' = [registry EXCEPT ![c][script[s].bundle] = @ + 1]
  /\ shaky' = IF script[s].alone THEN shaky \ {c} ELSE shaky
  /\ UNCHANGED <<dir, trampoline, executable, tmp, out, left, torn>>

Installed(s) ==
  /\ At(s, "loop") /\ script[s].kind = "install" /\ script[s].todo = {}
  /\ script' = [script EXCEPT ![s] = Idle]
  /\ UNCHANGED <<dir, trampoline, executable, registry, tmp, out, left, shaky, torn>>

-----------------------------------------------------------------------------
(* uninstall, for each command: the owner is looked up, and the trampoline *)
(* removed if it is this bundle or nobody.                                 *)
Look(s) ==
  LET b == script[s].bundle IN
  /\ At(s, "loop") /\ script[s].kind = "uninstall"
  /\ \E c \in script[s].todo :
       script' = [script EXCEPT ![s].todo = @ \ {c}, ![s].cmd = c,
                    ![s].pc = IF OwnedBy(c, b) \/ registry[c] = NoLines THEN "rm" ELSE "loop"]
  /\ UNCHANGED <<dir, trampoline, executable, registry, tmp, out, left, shaky, torn>>

Rm(s) ==
  LET c == script[s].cmd IN
  /\ At(s, "rm") /\ Goes(s, "loop")
  /\ trampoline' = [trampoline EXCEPT ![c] = Nobody]
  /\ executable' = executable \ {c}
  /\ UNCHANGED <<dir, registry, tmp, out, left, shaky, torn>>

(* grep -v "=bundle$" registry                                             *)
Rest(s) == [c \in Commands |-> [registry[c] EXCEPT ![script[s].bundle] = 0]]

Sweep(s) ==
  /\ At(s, "sweep") /\ Goes(s, "swept")
  /\ Writes(s, Rest(s))
  /\ UNCHANGED <<dir, trampoline, executable, left, shaky, torn>>

Swept(s) ==
  /\ At(s, "swept") /\ Goes(s, "advice")
  /\ Moves
  /\ UNCHANGED <<dir, trampoline, executable, left, shaky, torn>>

(* "To remove the bundle directory, run: rm -rf": the user may.            *)
Uninstalled(s) ==
  /\ At(s, "advice")
  /\ script' = [script EXCEPT ![s] = Idle]
  /\ \/ dir' = [dir EXCEPT ![script[s].bundle] = "absent"]
     \/ UNCHANGED dir
  /\ UNCHANGED <<trampoline, executable, registry, tmp, out, left, shaky, torn>>

(* The disk is full: what echo or grep should write is not all there.      *)
(* Nobody looks, the script goes on, and mv puts what grep has written in  *)
(* the registry's place.                                                   *)
WriteFails(s) ==
  LET GoesOn(pc) == script' = [script EXCEPT ![s].pc = pc, ![s].alone = FALSE] IN
  /\ left.faults > 0
  /\ left' = [left EXCEPT !.faults = @ - 1] /\ shaky' = Commands
  /\ \/ At(s, "exec") /\ GoesOn("chmod") /\ UNCHANGED <<registry, tmp, out>>
     \/ At(s, "append") /\ GoesOn("loop") /\ UNCHANGED <<registry, tmp, out>>
     \/ /\ At(s, "grep") /\ GoesOn("move")
        /\ \E some \in SUBSET Lines(Filtered(s)) : Writes(s, Some(Filtered(s), some))
     \/ /\ At(s, "sweep") /\ GoesOn("swept")
        /\ \E some \in SUBSET Lines(Rest(s)) : Writes(s, Some(Rest(s), some))
  /\ UNCHANGED <<dir, trampoline, executable, torn>>

(* The commands whose trampoline and line disagree while the script is at  *)
(* work on them.                                                           *)
InHand(s) ==
  CASE script[s].pc \in {"exec", "chmod", "filter", "grep", "move", "append"} -> {script[s].cmd}
    [] script[s].kind = "uninstall" /\ script[s].pc \in {"loop", "rm", "sweep", "swept"} ->
         Provides[script[s].bundle] \ script[s].todo
    [] OTHER -> {}

(* The script is interrupted, or its shell loses its connection.           *)
Kill(s) ==
  /\ s \in Busy /\ left.faults > 0
  /\ left' = [left EXCEPT !.faults = @ - 1]
  /\ script' = [script EXCEPT ![s] = Idle]
  /\ shaky' = shaky \cup InHand(s)
  /\ torn' = IF At(s, "unpack") THEN torn \cup {script[s].bundle} ELSE torn
  /\ out' = [out EXCEPT ![s] = "none"]
  /\ UNCHANGED <<dir, trampoline, executable, registry, tmp>>

Installs(s) == \/ Unpack(s) \/ Unpacked(s) \/ UnpackedInPart(s) \/ UnpackFails(s)
               \/ RunsScript(s) \/ Head(s) \/ Exec(s) \/ Chmod(s) \/ Filter(s) \/ Move(s)
               \/ Append(s) \/ Installed(s)

Uninstalls(s) == Look(s) \/ Rm(s) \/ Sweep(s) \/ Swept(s) \/ Uninstalled(s)

HostNext ==
  \E s \in Shells : Installs(s) \/ Uninstalls(s) \/ Truncate(s) \/ WriteFails(s) \/ Kill(s)

HostSpec == Init /\ [][HostNext]_hostVars

-----------------------------------------------------------------------------
(* The registry tells the truth: a command is there, executable and runs   *)
(* the one bundle that has a line for it, or is not there and has no line. *)
(* A kill disturbs this for no more than the commands the script was at.   *)
(* Scripts side by side, and one that fails to write, may disturb it for   *)
(* every command, their own or not, until an install that runs by itself   *)
(* registers the command again.                                            *)
RegistryIsTrue ==
  \A c \in Commands \ (shaky \cup UNION {InHand(s) : s \in Shells}) :
    \/ trampoline[c] = Nobody /\ registry[c] = NoLines
    \/ trampoline[c] \in Bundles /\ c \in executable /\ OwnedBy(c, trampoline[c])

(* What a user gets who types a command: the trampoline's bundle, and      *)
(* while the trampoline is rewritten the bundle the registry names.        *)
OwnerOf(c) ==
  IF trampoline[c] = Headed /\ \E b \in Bundles : OwnedBy(c, b)
    THEN CHOOSE b \in Bundles : OwnedBy(c, b)
    ELSE IF trampoline[c] \in Bundles THEN trampoline[c] ELSE Nobody

Owners == INSTANCE CommandOwners WITH
  owner <- [c \in Commands |-> OwnerOf(c)],
  scripts <- {<<script[s].bundle, script[s].kind>> : s \in Busy}

(* The scripts keep the promise: a command changes hands by an install of  *)
(* a bundle that provides it, and is lost only to its owner's uninstall.   *)
ImplementsOwners == Owners!Spec
=============================================================================
