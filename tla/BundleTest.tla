----------------------------- MODULE BundleTest -----------------------------
(***************************************************************************)
(* The test server (tools/mogrix-test-server.py) beside the users of an    *)
(* IRIX host: test_bundle copies a bundle over ssh into the directory      *)
(* where bundles are installed, runs its test script there, saves and      *)
(* reports the results, and removes the bundle's directory.  The           *)
(* connection may be lost at every step; every remote command has a        *)
(* timeout, after which it may go on without anybody waiting for it.       *)
(***************************************************************************)
EXTENDS BundleHost

CONSTANTS
  Tests,      \* the tests of each bundle
  Defects     \* the tests that fail when nothing disturbs them: pairs of a
              \* bundle and a test

ASSUME TestAssumption ==
  Defects \subseteq Bundles \X Tests

VARIABLES
  test,    \* the call of test_bundle the server is in
  up,      \* the connection stands
  orphans, \* remote commands that go on: <<"tar" or "rm", bundle>>
  taken    \* history: directories a test has overwritten or removed, until
           \* somebody installs the bundle again

testVars == <<test, up, orphans, taken>>
vars == <<hostVars, testVars>>

(* tries counts the runs of one exec_host(), results are the lines that    *)
(* have arrived; history: cut, the script was cut short; part, a part of   *)
(* the bundle was taken for the whole; touched, the directory changed      *)
(* under the test.                                                         *)
NoResults == [t \in Tests |-> "none"]

NoTest == [pc |-> "idle", bundle |-> Nobody, tries |-> 1,
           results |-> NoResults, cut |-> FALSE, part |-> FALSE, touched |-> FALSE]

TestPCs == {"idle", "mkdir", "deploy", "untar", "run", "save", "clean", "error", "report"}

TestTypeOK ==
  /\ TypeOK
  /\ test \in [pc : TestPCs, bundle : Bundles \cup {Nobody}, tries : 1..2,
               results : [Tests -> {"none", "PASS", "FAIL", "SKIP"}],
               cut : BOOLEAN, part : BOOLEAN, touched : BOOLEAN]
  /\ up \in BOOLEAN /\ orphans \in SUBSET ({"tar", "rm"} \X Bundles)
  /\ taken \in SUBSET Bundles

TestInit ==
  /\ Init
  /\ test = NoTest /\ up = TRUE /\ orphans = {} /\ taken = {}

Now(pc) == test.pc = pc
Passes(pc) == test' = [test EXCEPT !.pc = pc, !.tries = 1]

(* The server writes over a directory or removes it, and leaves the host's *)
(* scripts alone.                                                          *)
Takes(b, state) == dir' = [dir EXCEPT ![b] = state] /\ taken' = taken \cup {b}
ScriptsStay == UNCHANGED <<trampoline, executable, registry, tmp, out, script, shaky, torn>>

CostsFault == left.faults > 0 /\ left' = [left EXCEPT !.faults = @ - 1]

-----------------------------------------------------------------------------
(* Mistakes the properties must tell from the code; no part of Next.       *)

(* The tests are run whether the bundle has arrived or not.                *)
DeployFailsUnseen ==
  /\ test.pc \in {"deploy", "untar"} /\ Passes("run")
  /\ orphans' \in {orphans, orphans \cup {<<"tar", test.bundle>>}}
  /\ UNCHANGED <<hostVars, up, taken>>

(* subprocess.run() without a timeout.                                     *)
RunWaits == FALSE /\ UNCHANGED vars

-----------------------------------------------------------------------------
(* _ensure_connected(); a connection that cannot be made is an error right *)
(* away.                                                                   *)
Called ==
  /\ Now("idle") /\ left.work > 0
  /\ left' = [left EXCEPT !.work = @ - 1]
  /\ up' = TRUE
  /\ \E b \in Bundles : test' = [NoTest EXCEPT !.pc = "mkdir", !.bundle = b]
  /\ ScriptsStay /\ UNCHANGED <<dir, orphans, taken>>

(* exec_host(): the command ended with 255 and the connection is gone.  It *)
(* is made again, and the command run again, once.                         *)
Reconnects ==
  /\ test.pc \in {"mkdir", "clean"}
  /\ ~up /\ test.tries = 1
  /\ up' = TRUE /\ test' = [test EXCEPT !.tries = 2]
  /\ orphans' \in {orphans, IF Now("clean") THEN orphans \cup {<<"rm", test.bundle>>}
                                             ELSE orphans}
  /\ UNCHANGED <<hostVars, taken>>

(* deploy_dir(): mkdir -p of the directory where all bundles are.          *)
Mkdir ==
  /\ Now("mkdir") /\ up /\ Passes("deploy")
  /\ UNCHANGED <<hostVars, up, orphans, taken>>

MkdirFails ==
  /\ Now("mkdir") /\ Passes("error")
  /\ UNCHANGED <<hostVars, up, orphans, taken>>

(* tar c | ssh tar x: the bundle is written over what is there.            *)
Untars ==
  /\ Now("deploy") /\ up /\ Passes("untar")
  /\ Takes(test.bundle, "part")
  /\ ScriptsStay /\ UNCHANGED <<left, up, orphans>>

Deploys ==
  /\ Now("untar") /\ up /\ Passes("run")
  /\ Takes(test.bundle, IF dir[test.bundle] = "absent" THEN "part" ELSE "whole")
  /\ ScriptsStay /\ UNCHANGED <<left, up, orphans>>

(* The status of the pipe is ssh's: that the local tar has failed and a    *)
(* part of the bundle has come is "Deployed", too.                         *)
DeploysPart ==
  /\ Now("untar") /\ up /\ CostsFault
  /\ test' = [test EXCEPT !.pc = "run", !.tries = 1, !.part = TRUE]
  /\ Takes(test.bundle, "part")
  /\ ScriptsStay /\ UNCHANGED <<up, orphans>>

(* The connection is lost, tar fails, or 120 seconds have passed.          *)
DeployFails ==
  /\ test.pc \in {"deploy", "untar"} /\ Passes("error")
  /\ orphans' \in {orphans, orphans \cup {<<"tar", test.bundle>>}}
  /\ UNCHANGED <<hostVars, up, taken>>

(* run_test(): a test that does not end is skipped.  Its watchdog kills    *)
(* the subshell; the program itself may go on and write into the file that *)
(* the next tests' output is read from.  What is found in a directory that *)
(* is not whole is open.                                                   *)
Undisturbed == dir[test.bundle] = "whole" /\ \A t \in Tests : test.results[t] # "SKIP"

RunsTest ==
  /\ Now("run") /\ up
  /\ test.results = NoResults => dir[test.bundle] # "absent"
  /\ \E t \in Tests, status \in {"PASS", "FAIL", "SKIP"} :
       /\ test.results[t] = "none"
       /\ Undisturbed /\ status # "SKIP" => (status = "FAIL" <=> <<test.bundle, t>> \in Defects)
       /\ test' = [test EXCEPT !.results[t] = status]
       /\ IF status = "SKIP" THEN CostsFault ELSE UNCHANGED left
  /\ ScriptsStay /\ UNCHANGED <<dir, up, orphans, taken>>

(* The script ends; at once, with no result, when there is no directory.   *)
Ran ==
  /\ Now("run") /\ up /\ Passes("save")
  /\ \/ \A t \in Tests : test.results[t] # "none"
     \/ test.results = NoResults /\ dir[test.bundle] = "absent"
  /\ UNCHANGED <<hostVars, up, orphans, taken>>

(* ssh ends with the connection: the lines that have arrived are parsed,   *)
(* its exit status is not looked at.                                       *)
RunCut ==
  /\ Now("run") /\ ~up
  /\ test' = [test EXCEPT !.pc = "save", !.tries = 1, !.cut = TRUE]
  /\ UNCHANGED <<hostVars, up, orphans, taken>>

(* TimeoutExpired: stdout = "".                                            *)
RunTimesOut ==
  /\ Now("run")
  /\ test' = [test EXCEPT !.pc = "save", !.tries = 1, !.cut = TRUE,
                          !.results = NoResults]
  /\ UNCHANGED <<hostVars, up, orphans, taken>>

-----------------------------------------------------------------------------
(* save_results(), and then rm if not keep, an argument of the call that   *)
(* is not read before.                                                     *)
Saves ==
  /\ Now("save")
  /\ Passes("clean") \/ Passes("report")
  /\ UNCHANGED <<hostVars, up, orphans, taken>>

(* The results cannot be saved: the call ends with an error, before rm.    *)
SaveFails ==
  /\ Now("save") /\ Passes("error") /\ CostsFault
  /\ ScriptsStay /\ UNCHANGED <<dir, up, orphans, taken>>

(* rm -rf of the deployed directory, whatever was there before the test.   *)
Cleans ==
  /\ Now("clean") /\ up /\ Passes("report")
  /\ Takes(test.bundle, "absent")
  /\ ScriptsStay /\ UNCHANGED <<left, up, orphans>>

(* No answer in 60 seconds, or no connection even the second time: nobody  *)
(* looks at the result of rm, which may go on.                             *)
CleanGivenUp ==
  /\ Now("clean") /\ Passes("report")
  /\ orphans' \in {orphans, orphans \cup {<<"rm", test.bundle>>}}
  /\ UNCHANGED <<hostVars, up, taken>>

Verdict == IF \A t \in Tests : test.results[t] # "FAIL"
           THEN "All tests passed." ELSE "BUNDLE HAS TEST FAILURES"

Returns ==
  /\ test.pc \in {"report", "error"}
  /\ test' = NoTest
  /\ UNCHANGED <<hostVars, up, orphans, taken>>

-----------------------------------------------------------------------------
ConnectionLost ==
  /\ up /\ up' = FALSE /\ CostsFault
  /\ ScriptsStay /\ UNCHANGED <<dir, test, orphans, taken>>

(* Somebody else than the call changes the host: touched if it is the      *)
(* directory under test.                                                   *)
Beside ==
  test' = IF test.pc \in {"untar", "run"} /\ dir'[test.bundle] # dir[test.bundle]
            THEN [test EXCEPT !.touched = TRUE] ELSE test

OrphanEnds ==
  \E o \in orphans :
    /\ orphans' = orphans \ {o}
    /\ IF o[1] = "rm" THEN Takes(o[2], "absent")
       ELSE \E state \in {"part", "whole"} :
              (dir[o[2]] = "absent" => state = "part") /\ Takes(o[2], state)
    /\ Beside /\ ScriptsStay /\ UNCHANGED <<left, up>>

(* The bundle whose extraction ends in this step, and is all there.        *)
Reinstalled ==
  {b \in Bundles : \E s \in Shells : script[s].bundle = b /\ Unpacked(s) /\ dir'[b] = "whole"}

UserStep ==
  /\ HostNext /\ Beside
  /\ taken' = taken \ Reinstalled
  /\ UNCHANGED <<up, orphans>>

(* What the host must do for the call to go on, and what the server does   *)
(* when it has waited long enough or has its answer.                       *)
Remote == Mkdir \/ Untars \/ Deploys \/ DeploysPart \/ RunsTest \/ Cleans
Waited == \/ Reconnects \/ MkdirFails \/ DeployFails \/ RunCut \/ RunTimesOut \/ CleanGivenUp
Server == Ran \/ Saves \/ SaveFails \/ Returns

Next == Called \/ Remote \/ Waited \/ Server \/ ConnectionLost \/ OrphanEnds \/ UserStep

Spec == TestInit /\ [][Next]_vars

(* The server's own process is scheduled, and its timers run.  Nothing is  *)
(* assumed of the host and the network.                                    *)
FairSpec == Spec /\ WF_vars(Waited) /\ WF_vars(Server)

-----------------------------------------------------------------------------
(* Who types a command whose registration nothing has disturbed reaches a  *)
(* bundle that is there, whatever else was installed and uninstalled; only *)
(* a test of the bundle since it was installed, and an extraction that     *)
(* failed, was killed or is going on, can be in the way.                   *)
CommandsLeadToBundles ==
  \A c \in Commands \ shaky :
    LET b == trampoline[c] IN
    b \in Bundles => \/ dir[b] = "whole" \/ b \in torn \cup taken
                     \/ \E s \in Shells : At(s, "unpack") /\ script[s].bundle = b

(* When no test was skipped, the server says "passed" of a bundle with a   *)
(* defect only when the script was cut short before the test that shows it *)
(* (a timeout or a lost connection counts as success), and "failures" only *)
(* of one with a defect: unless the local tar had failed unseen, or a      *)
(* user, or a command an earlier test had given up, changed the directory  *)
(* meanwhile.                                                              *)
ReportIsHonest ==
  /\ Now("report") /\ ~test.touched /\ ~test.part
  /\ \A t \in Tests : test.results[t] # "SKIP"
  => IF Verdict = "All tests passed."
       THEN \A t \in Tests :
              <<test.bundle, t>> \in Defects => test.cut /\ test.results[t] = "none"
       ELSE \E t \in Tests : <<test.bundle, t>> \in Defects

(* A call of test_bundle returns, whatever host and connection do.         *)
TestsReturn == ~Now("idle") ~> Now("idle")
=============================================================================
