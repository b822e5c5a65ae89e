--------------------------- MODULE CommandOwners ---------------------------
(***************************************************************************)
(* What the install and uninstall scripts of bundles promise about the bin *)
(* directory they share: a command belongs to the bundle that was last     *)
(* installed with it, and only its owner's uninstall takes it away.  The   *)
(* promise ends (shaky) for the commands a script was at when it was       *)
(* killed, and for every command when scripts run side by side or one of   *)
(* them fails to write, until it is registered again.                      *)
(***************************************************************************)
CONSTANTS Bundles, Commands, Provides, Nobody

VARIABLES
  owner,   \* the bundle each command runs
  scripts, \* which scripts are run: pairs of a bundle and "install" or "uninstall"
  shaky    \* the commands the promise does not cover

Kinds == {"install", "uninstall"}

Init ==
  owner \in [Commands -> Bundles \cup {Nobody}] /\ scripts = {} /\ shaky = {}

(* Whoever had the command loses it to the bundle that is installed.       *)
Take(b, c) ==
  /\ <<b, "install">> \in scripts /\ c \in Provides[b]
  /\ owner' = [owner EXCEPT ![c] = b]
  /\ UNCHANGED <<scripts, shaky>>

Release(b, c) ==
  /\ <<b, "uninstall">> \in scripts /\ owner[c] = b
  /\ owner' = [owner EXCEPT ![c] = Nobody]
  /\ UNCHANGED <<scripts, shaky>>

(* Scripts begin and end, or are killed.  Not promised is what becomes of  *)
(* the shaky commands, before or after the step.                           *)
Disturbed ==
  /\ scripts' \in SUBSET (Bundles \X Kinds) /\ shaky' \in SUBSET Commands
  /\ owner' \in [Commands -> Bundles \cup {Nobody}]
  /\ \A c \in Commands \ (shaky \cup shaky') : owner'[c] = owner[c]

Next == \/ \E b \in Bundles, c \in Commands : Take(b, c) \/ Release(b, c)
        \/ Disturbed

Spec == Init /\ [][Next]_<<owner, scripts, shaky>>
=============================================================================
