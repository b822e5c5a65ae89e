---------------------------- MODULE BatchBuild ----------------------------
(***************************************************************************)
(* mogrix/batch_build.py: `mogrix batch-build` takes a list of packages    *)
(* through fetch, rules, convert and build, one after the other, and the   *)
(* reports what became of each.  SRPMs, rules, candidate rules and RPMs    *)
(* outlive the run; what the run knows of them was read before its first   *)
(* package.  Between runs a person turns candidates into rules.            *)
(*                                                                         *)
(* rpmbuild is a process of its own: it writes a package's RPMs one after  *)
(* the other into ~/rpmbuild/RPMS, may fail or be killed between two, and  *)
(* killing it leaves the scripts it started running.                       *)
(***************************************************************************)
EXTENDS Naturals, Sequences, FiniteSets

CONSTANTS
  Packages,   \* source packages
  Rpms,       \* RPM files
  Owner,      \* the package whose build makes an RPM
  Glob,       \* the RPMs whose file names match "{package}-*.rpm"
  Lookalike,  \* what a search for a package nobody has may turn up first
  Lists,      \* the package lists the runs are given
  Options,    \* the command lines
  MaxRuns,    \* bound: runs of batch-build
  None

ASSUME BatchAssumption ==
  /\ Owner \in [Rpms -> Packages]
  /\ Glob \in [Packages -> SUBSET Rpms]
  /\ Lookalike \in [Packages -> SUBSET Packages]
  /\ Lists \subseteq Seq(Packages) \ {<<>>}
  /\ Options \subseteq [dryRun : BOOLEAN, generate : BOOLEAN, stopOnError : BOOLEAN,
                        skipFetch : BOOLEAN, skipBuilt : BOOLEAN]
  /\ MaxRuns \in Nat
  /\ None \notin Packages

VARIABLES
  srpms,       \* packages with an SRPM in inputs/SRPMS
  rules,       \* packages with rules/packages/<pkg>.yaml
  candidates,  \* packages with rules/candidates/<pkg>.yaml
  out,         \* RPMs in outputs/RPMS
  torn,        \* those of them a copy has left in part
  tree,        \* RPMs in ~/rpmbuild/RPMS
  runs,        \* runs begun
  opts,        \* the options of this run
  tasks,       \* its tasks, as they were resolved
  pos,         \* the task the loop is at
  at,          \* where the loop is; "idle" between runs
  written,     \* RPMs written since _build looked at ~/rpmbuild/RPMS
  pending,     \* new RPMs that _build still has to copy
  results,     \* report.results
  whole,       \* history: RPMs written by a build that ended well
  stray        \* packages whose build scripts run on without rpmbuild

files == <<srpms, rules, candidates>>
buildVars == <<files, out, torn, tree, runs, opts, tasks, pos, at, written, pending, results,
              whole, stray>>

Statuses == {"success", "skipped", "needs_review", "fetch_failed", "convert_failed",
             "build_failed", "timeout"}
Failures == {"fetch_failed", "convert_failed", "build_failed", "timeout"}
Places   == {"idle", "task", "fetch", "rules", "convert", "build", "copy"}
Tasks    == [package : Packages, srpm : Packages \cup {None},
             hasRules : BOOLEAN, hasRpms : BOOLEAN]
Results  == [package : Packages, status : Statuses, rpms : SUBSET Rpms]

Made(p) == {r \in Rpms : Owner[r] = p}

BuildTypeOK ==
  /\ srpms \in SUBSET Packages /\ rules \in SUBSET Packages
  /\ candidates \in SUBSET Packages
  /\ out \in SUBSET Rpms /\ torn \in SUBSET out /\ tree \in SUBSET Rpms
  /\ runs \in 0..MaxRuns
  /\ opts \in Options
  /\ tasks \in Seq(Tasks) /\ pos \in 1..(Len(tasks) + 1)
  /\ at \in Places
  /\ written \in SUBSET tree /\ pending \in SUBSET written
  /\ results \in Seq(Results)
  /\ whole \in SUBSET Rpms /\ stray \in SUBSET Packages

BuildInit ==
  /\ srpms \in SUBSET Packages /\ rules \in SUBSET Packages
  /\ candidates = {} /\ out = {} /\ torn = {} /\ tree = {} /\ runs = 0
  /\ opts \in Options /\ tasks = <<>> /\ pos = 1 /\ at = "idle"
  /\ written = {} /\ pending = {} /\ results = <<>> /\ whole = {} /\ stray = {}

-----------------------------------------------------------------------------
(* _check_has_rpms: any file of that name pattern will do.                 *)
CheckHasRpms(p) == Glob[p] \cap out # {}

(* _resolve_packages: everything is looked up here, once.                  *)
Resolve(list) ==
  [i \in DOMAIN list |->
     [package  |-> list[i],
      srpm     |-> IF list[i] \in srpms THEN list[i] ELSE None,
      hasRules |-> list[i] \in rules,
      hasRpms  |-> CheckHasRpms(list[i])]]

StartRun ==
  /\ at = "idle" /\ runs < MaxRuns
  /\ opts' \in Options
  /\ \E list \in Lists : tasks' = Resolve(list)
  /\ runs' = runs + 1 /\ pos' = 1 /\ at' = "task" /\ results' = <<>>
  /\ UNCHANGED <<files, out, torn, tree, written, pending, whole, stray>>

(* A candidate is reviewed and becomes rules.                              *)
Promote ==
  /\ at = "idle"
  /\ \E p \in candidates :
       /\ rules' = rules \cup {p}
       /\ candidates' = candidates \ {p}
  /\ UNCHANGED <<srpms, out, torn, tree, runs, opts, tasks, pos, at, written, pending, results,
                 whole, stray>>

-----------------------------------------------------------------------------
task == tasks[pos]

(* report.results.append(...)                                              *)
Record(p, status, rpms) ==
  results' = Append(results, [package |-> p, status |-> status, rpms |-> rpms])

(* continue, or the end of the loop                                        *)
MoveOn == pos' = pos + 1 /\ at' = "task"

(* break                                                                   *)
Break == pos' = pos /\ at' = "idle"

(* What follows a result that stop_on_error asks about.                    *)
StopOrMoveOn == IF opts.stopOnError THEN Break ELSE MoveOn

rest == <<runs, opts, whole, stray>>

EndRun ==
  /\ at = "task" /\ pos > Len(tasks)
  /\ at' = "idle"
  /\ UNCHANGED <<files, out, torn, tree, rest, tasks, pos, written, pending, results>>

Skip ==
  /\ at = "task" /\ pos <= Len(tasks)
  /\ opts.skipBuilt /\ task.hasRpms
  /\ Record(task.package, "skipped", {}) /\ MoveOn
  /\ UNCHANGED <<files, out, torn, tree, rest, tasks, written, pending>>

(* Mistake: the package is passed over without a word in the report.       *)
NoSrpmUnreported ==
  /\ at = "task" /\ pos <= Len(tasks)
  /\ ~(opts.skipBuilt /\ task.hasRpms)
  /\ task.srpm = None /\ opts.skipFetch
  /\ MoveOn
  /\ UNCHANGED <<files, out, torn, tree, rest, tasks, written, pending, results>>

(* --skip-fetch without an SRPM: on to the next, stop_on_error or not.     *)
NoSrpm ==
  /\ at = "task" /\ pos <= Len(tasks)
  /\ ~(opts.skipBuilt /\ task.hasRpms)
  /\ task.srpm = None /\ opts.skipFetch
  /\ Record(task.package, "fetch_failed", {}) /\ MoveOn
  /\ UNCHANGED <<files, out, torn, tree, rest, tasks, written, pending>>

Take ==
  /\ at = "task" /\ pos <= Len(tasks)
  /\ ~(opts.skipBuilt /\ task.hasRpms)
  /\ ~(task.srpm = None /\ opts.skipFetch)
  /\ at' = IF task.srpm = None THEN "fetch" ELSE "rules"
  /\ UNCHANGED <<files, out, torn, tree, rest, tasks, pos, written, pending, results>>

(* _fetch_srpm: the package itself, or the first thing that looks like it. *)
Fetch ==
  /\ at = "fetch"
  /\ \E p \in {task.package} \cup Lookalike[task.package] :
       /\ srpms' = srpms \cup {p}
       /\ tasks' = [tasks EXCEPT ![pos].srpm = p]
  /\ at' = "rules"
  /\ UNCHANGED <<rules, candidates, out, torn, tree, rest, pos, written, pending, results>>

FetchFails ==
  /\ at = "fetch"
  /\ Record(task.package, "fetch_failed", {}) /\ StopOrMoveOn
  /\ UNCHANGED <<files, out, torn, tree, rest, tasks, written, pending>>

(* No rules: write a candidate (or fail to) and leave it to a person.      *)
Generate ==
  /\ at = "rules" /\ ~task.hasRules /\ opts.generate
  /\ candidates' \in {candidates \cup {task.package}, candidates}
  /\ Record(task.package, "needs_review", {}) /\ StopOrMoveOn
  /\ UNCHANGED <<srpms, rules, out, torn, tree, rest, tasks, written, pending>>

DryRun ==
  /\ at = "rules" /\ (task.hasRules \/ ~opts.generate)
  /\ opts.dryRun
  /\ Record(task.package, "success", {}) /\ MoveOn
  /\ UNCHANGED <<files, out, torn, tree, rest, tasks, written, pending>>

Convert ==
  /\ at = "rules" /\ (task.hasRules \/ ~opts.generate)
  /\ ~opts.dryRun
  /\ at' = "build" /\ written' = {}
  /\ UNCHANGED <<files, out, torn, tree, rest, tasks, pos, pending, results>>

(* Mistake: a failed conversion is not one of the errors that stop.        *)
ConvertFailsMovesOn ==
  /\ at = "rules" /\ (task.hasRules \/ ~opts.generate)
  /\ ~opts.dryRun
  /\ Record(task.package, "convert_failed", {}) /\ MoveOn
  /\ UNCHANGED <<files, out, torn, tree, rest, tasks, written, pending>>

ConvertFails ==
  /\ at = "rules" /\ (task.hasRules \/ ~opts.generate)
  /\ ~opts.dryRun
  /\ Record(task.package, "convert_failed", {}) /\ StopOrMoveOn
  /\ UNCHANGED <<files, out, torn, tree, rest, tasks, written, pending>>

-----------------------------------------------------------------------------
(* rpmbuild --rebuild: one RPM after the other.                            *)
WriteRpm ==
  /\ at = "build"
  /\ \E r \in Made(task.srpm) \ written :
       tree' = tree \cup {r} /\ written' = written \cup {r}
  /\ UNCHANGED <<files, out, torn, rest, tasks, pos, at, pending, results>>

(* Mistake: every RPM in ~/rpmbuild/RPMS is taken for new.                 *)
BuildEndsAll ==
  /\ at = "build" /\ written = Made(task.srpm)
  /\ written' = tree /\ pending' = tree
  /\ whole' = whole \cup written
  /\ at' = "copy"
  /\ UNCHANGED <<files, out, torn, tree, runs, opts, stray, tasks, pos, results>>

(* returncode 0: the RPMs newer than the look before the build.            *)
BuildEnds ==
  /\ at = "build" /\ written = Made(task.srpm)
  /\ pending' = written
  /\ whole' = whole \cup written
  /\ at' = "copy"
  /\ UNCHANGED <<files, out, torn, tree, runs, opts, stray, tasks, pos, written, results>>

BuildFails ==
  /\ at = "build"
  /\ Record(task.srpm, "build_failed", {}) /\ StopOrMoveOn
  /\ written' = {}
  /\ UNCHANGED <<files, out, torn, tree, rest, tasks, pending>>

(* Mistake: after the kill the loop waits for the end of the output, which *)
(* the scripts hold open.                                                  *)
BuildTimeoutWaits ==
  /\ at = "build"
  /\ stray' = stray \cup {task.srpm}
  /\ UNCHANGED <<files, out, torn, tree, runs, opts, whole, tasks, pos, at, written, pending,
                 results>>

(* TimeoutExpired: subprocess.run kills rpmbuild, and rpmbuild alone.      *)
BuildTimeout ==
  /\ at = "build"
  /\ Record(task.srpm, "timeout", {}) /\ StopOrMoveOn
  /\ written' = {}
  /\ stray' \in {stray, stray \cup {task.srpm}}
  /\ UNCHANGED <<files, out, torn, tree, runs, opts, whole, tasks, pending>>

StrayEnds ==
  /\ \E p \in stray : stray' = stray \ {p}
  /\ UNCHANGED <<files, out, torn, tree, runs, opts, tasks, pos, at, written, pending, results,
                 whole>>

(* Mistake: an RPM that is in outputs/RPMS already is not copied again.    *)
CopyMissing ==
  /\ at = "copy"
  /\ \E r \in pending : out' = out \cup {r} /\ pending' = pending \ {r}
  /\ UNCHANGED <<files, torn, tree, rest, tasks, pos, at, written, results>>

(* copy2() writes the file anew, whatever is there.                        *)
CopyRpm ==
  /\ at = "copy"
  /\ \E r \in pending :
       /\ out' = out \cup {r} /\ torn' = torn \ {r}
       /\ pending' = pending \ {r}
  /\ UNCHANGED <<files, tree, rest, tasks, pos, at, written, results>>

(* Mistake: the result is recorded before the copies.                      *)
BuiltBeforeCopies ==
  /\ at = "copy"
  /\ Record(task.srpm, "success", written) /\ MoveOn
  /\ written' = {} /\ pending' = {}
  /\ UNCHANGED <<files, out, torn, tree, rest, tasks>>

Built ==
  /\ at = "copy" /\ pending = {}
  /\ Record(task.srpm, "success", written) /\ MoveOn
  /\ written' = {}
  /\ UNCHANGED <<files, out, torn, tree, rest, tasks, pending>>

(* An exception that nobody catches (copy2 on a full disk, no rpmbuild to  *)
(* run) or Ctrl-C: the run is over, without a report, and the RPM that was *)
(* being copied is in outputs/RPMS in part.                                *)
Interrupt ==
  /\ at \in {"build", "copy"}
  /\ at' = "idle" /\ results' = <<>>
  /\ written' = {} /\ pending' = {}
  /\ \/ UNCHANGED <<out, torn>>
     \/ \E r \in pending : out' = out \cup {r} /\ torn' = torn \cup {r}
  /\ UNCHANGED <<files, tree, rest, tasks, pos>>

(* The steps of the loop itself, and of what it calls and waits for.       *)
Loop ==
  \/ EndRun \/ Skip \/ NoSrpm \/ Take \/ Fetch \/ FetchFails \/ Generate
  \/ DryRun \/ Convert \/ ConvertFails \/ CopyRpm \/ Built

Rpmbuild == WriteRpm \/ BuildEnds \/ BuildFails

BuildNext == StartRun \/ Promote \/ Loop \/ Rpmbuild \/ BuildTimeout \/ StrayEnds \/ Interrupt

(* The loop goes on while it is not waiting for rpmbuild, fetching and     *)
(* converting return, and the timer of --build-timeout goes off.  rpmbuild *)
(* itself may hang.                                                        *)
BuildSpec == BuildInit /\ [][BuildNext]_buildVars

FairBuildSpec == BuildSpec /\ WF_buildVars(Loop) /\ WF_buildVars(BuildTimeout)

-----------------------------------------------------------------------------
(* The report is in step with the list: one result for every task the loop *)
(* has left, of that package or of the SRPM that was fetched for it.       *)
ResultsFollowTasks ==
  /\ at # "idle" => Len(results) = pos - 1
  /\ \A i \in DOMAIN results :
       results[i].package \in {tasks[i].package, tasks[i].srpm}

(* An RPM is published only if the rpmbuild that wrote it ended well: what *)
(* failed, killed and interrupted builds leave in ~/rpmbuild/RPMS is never *)
(* picked up by a later build, of the same package or of another.          *)
PublishedFromSuccess == out \subseteq whole

(* A package that is reported as built has its RPMs in outputs/RPMS, all   *)
(* of them and each one whole, though an earlier run was interrupted in    *)
(* the middle of a copy of one.                                            *)
SuccessIsPublished ==
  \A i \in DOMAIN results :
    (results[i].status = "success" /\ ~opts.dryRun) =>
      /\ results[i].rpms = Made(results[i].package)
      /\ results[i].rpms \subseteq out \ torn

(* --stop-on-error: nothing comes after a failure, but for a package that  *)
(* --skip-fetch left without an SRPM.                                      *)
ErrorsStop ==
  opts.stopOnError =>
    \A i \in DOMAIN results :
      /\ results[i].status \in Failures \cup {"needs_review"}
      /\ ~(results[i].status = "fetch_failed" /\ opts.skipFetch)
      => i = Len(results) /\ at = "idle"

(* --dry-run writes no RPM anywhere, whatever the runs before it left.     *)
DryRunBuildsNothing == [][at # "idle" /\ opts.dryRun => UNCHANGED <<out, torn, tree>>]_buildVars

(* A batch never hangs on a build: it ends, or is interrupted.             *)
BatchEnds == (at = "task") ~> (at = "idle")

-----------------------------------------------------------------------------
(* SKIPPED = "skipped"  # Already built                                    *)
SkippedIsBuilt ==
  \A i \in DOMAIN results :
    results[i].status = "skipped" => Made(results[i].package) \subseteq out
=============================================================================
