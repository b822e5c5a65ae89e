----------------------------- MODULE BuildProofs -----------------------------
(***************************************************************************)
(* Proofs about BatchBuild, for all packages, lists, options and numbers   *)
(* of runs, and about Staging, whatever the number of processes, of        *)
(* commands and of faults.                                                 *)
(***************************************************************************)
EXTENDS BatchBuild, Staging, TLAPS

(***************************************************************************)
(* BatchBuild.  What makes the published RPMs trustworthy is Flow: from    *)
(* the moment rpmbuild ends well, the RPMs it wrote are those of the       *)
(* package, and each is either in outputs/RPMS or still to be copied.      *)
(***************************************************************************)

(* Where the loop is, and what the task has by then.                       *)
Placed ==
  /\ at \notin {"idle", "task"} => pos <= Len(tasks)
  /\ at \in {"rules", "build", "copy"} => tasks[pos].srpm \in Packages
  /\ at \notin {"build", "copy"} => written = {}
  /\ at # "copy" => pending = {}

Flow ==
  /\ at = "copy" => written = Made(tasks[pos].srpm) /\ written \ pending \subseteq out \ torn
  /\ pending \subseteq whole
  /\ out \subseteq whole

NoBuildInDryRun == opts.dryRun => at \notin {"build", "copy"}

Inv == BuildTypeOK /\ Placed /\ Flow /\ NoBuildInDryRun /\ SuccessIsPublished

-----------------------------------------------------------------------------
(* A list and one more result.                                             *)
LEMMA Appended ==
  ASSUME NEW S, NEW s \in Seq(S), NEW e \in S
  PROVE  /\ Append(s, e) \in Seq(S)
         /\ DOMAIN s = 1..Len(s)
         /\ DOMAIN Append(s, e) = 1..(Len(s) + 1)
         /\ \A i \in 1..Len(s) : Append(s, e)[i] = s[i]
         /\ Append(s, e)[Len(s) + 1] = e
OBVIOUS

(* A result that is not a success keeps the report true.                   *)
LEMMA OtherResult ==
  ASSUME BuildTypeOK, SuccessIsPublished, NEW p \in Packages, NEW st \in Statuses,
         NEW rs \in SUBSET Rpms, Record(p, st, rs), out' = out, torn' = torn, opts' = opts,
         st = "success" => (opts.dryRun \/ (rs = Made(p) /\ rs \subseteq out \ torn))
  PROVE  results' \in Seq(Results) /\ SuccessIsPublished'
PROOF
<1> DEFINE e == [package |-> p, status |-> st, rpms |-> rs]
<1>1. e \in Results /\ results \in Seq(Results) BY DEF Results, BuildTypeOK
<1>2. results' = Append(results, e) BY DEF Record
<1>3. /\ results' \in Seq(Results)
      /\ DOMAIN results = 1..Len(results) /\ DOMAIN results' = 1..(Len(results) + 1)
      /\ \A i \in 1..Len(results) : results'[i] = results[i]
      /\ results'[Len(results) + 1] = e
  BY <1>1, <1>2, Appended
<1>4. ASSUME NEW i \in DOMAIN results', results'[i].status = "success", ~opts.dryRun
      PROVE  results'[i].rpms = Made(results'[i].package) /\ results'[i].rpms \subseteq out \ torn
  <2>1. CASE i \in 1..Len(results) BY <1>3, <1>4, <2>1 DEF SuccessIsPublished
  <2>2. CASE i = Len(results) + 1 BY <1>3, <1>4, <2>2
  <2> QED BY <1>1, <1>3, <2>1, <2>2
<1> QED BY <1>3, <1>4 DEF SuccessIsPublished, Made

(* Before the first run nothing is published.                              *)
LEMMA InitInv == BuildInit => Inv
BY BatchAssumption
DEF BuildInit, Inv, BuildTypeOK, Placed, Flow, NoBuildInDryRun, SuccessIsPublished, Places, Tasks, Results

(* A task list has the type of one, and a task for each package.           *)
LEMMA ResolveType ==
  ASSUME NEW list \in Lists
  PROVE  Resolve(list) \in Seq(Tasks) /\ Len(Resolve(list)) = Len(list) /\ Len(list) > 0
PROOF
<1>1. list \in Seq(Packages) /\ list # <<>> BY BatchAssumption
<1>2. DOMAIN list = 1..Len(list) /\ Len(list) \in Nat /\ Len(list) > 0
      /\ \A i \in 1..Len(list) : list[i] \in Packages
  BY <1>1
<1>3. Resolve(list) \in [1..Len(list) -> Tasks]
  BY <1>2 DEF Resolve, Tasks, CheckHasRpms
<1> QED BY <1>2, <1>3

(* Every step of a run, of rpmbuild and between runs keeps the invariant.  *)
LEMMA StepInv == Inv /\ [BuildNext]_buildVars => Inv'
PROOF
<1> SUFFICES ASSUME Inv, [BuildNext]_buildVars PROVE Inv'
  OBVIOUS
<1> USE DEF Inv, BuildTypeOK, Placed, Flow, NoBuildInDryRun, files, rest
<1>0. /\ {"idle", "task", "fetch", "rules", "convert", "build", "copy"} = Places
      /\ {"success", "skipped", "needs_review", "fetch_failed", "convert_failed",
          "build_failed", "timeout"} = Statuses
      /\ Len(tasks) \in Nat /\ pos \in Nat
  BY DEF Places, Statuses
<1>a. pos <= Len(tasks) => tasks[pos] \in Tasks /\ tasks[pos].package \in Packages
  <2> SUFFICES ASSUME pos <= Len(tasks)
               PROVE  tasks[pos] \in Tasks /\ tasks[pos].package \in Packages
    OBVIOUS
  <2>1. tasks \in Seq(Tasks) /\ pos \in 1..Len(tasks) BY <1>0
  <2>2. tasks[pos] \in Tasks BY ONLY <2>1
  <2> QED BY ONLY <2>2 DEF Tasks
<1>1. CASE StartRun
  <2>1. PICK list \in Lists : tasks' = Resolve(list) BY <1>1 DEF StartRun
  <2>2. tasks' \in Seq(Tasks) /\ Len(tasks') \in Nat /\ Len(tasks') > 0
    BY <2>1, ResolveType
  <2>3. results' \in Seq(Results) /\ SuccessIsPublished'
    BY <1>1 DEF StartRun, SuccessIsPublished
  <2> QED BY <1>0, <1>1, <2>2, <2>3, BatchAssumption DEF StartRun
<1>2. CASE Promote
  BY <1>0, <1>2 DEF Promote, SuccessIsPublished
<1>3. CASE EndRun
  BY <1>0, <1>3 DEF EndRun, SuccessIsPublished
<1>4. CASE Skip \/ NoSrpm
  <2>1. results' \in Seq(Results) /\ SuccessIsPublished'
    BY <1>0, <1>a, <1>4, OtherResult DEF Skip, NoSrpm, task
  <2> QED BY <1>0, <1>4, <2>1 DEF Skip, NoSrpm, MoveOn, task
<1>5. CASE Take
  BY <1>0, <1>a, <1>5 DEF Take, SuccessIsPublished, task, Tasks
<1>6. CASE Fetch
  <2>1. PICK p \in {task.package} \cup Lookalike[task.package] :
            srpms' = srpms \cup {p} /\ tasks' = [tasks EXCEPT ![pos].srpm = p]
    BY <1>6 DEF Fetch
  <2>2. p \in Packages BY <1>0, <1>a, <1>6, <2>1, BatchAssumption DEF Fetch, task
  <2>3. tasks' \in Seq(Tasks) /\ Len(tasks') = Len(tasks) /\ tasks'[pos].srpm = p
    BY <1>0, <1>a, <1>6, <2>1, <2>2 DEF Fetch, Tasks
  <2> QED BY <1>0, <1>6, <2>1, <2>2, <2>3 DEF Fetch, SuccessIsPublished
<1>7. CASE FetchFails \/ Generate \/ ConvertFails
  <2>1. results' \in Seq(Results) /\ SuccessIsPublished'
    BY <1>0, <1>a, <1>7, OtherResult DEF FetchFails, Generate, ConvertFails, task
  <2>2. candidates' \in SUBSET Packages
    BY <1>0, <1>a, <1>7 DEF FetchFails, Generate, ConvertFails, task
  <2> QED
    BY <1>0, <1>7, <2>1, <2>2
    DEF FetchFails, Generate, ConvertFails, StopOrMoveOn, MoveOn, Break, task
<1>8. CASE DryRun
  <2>1. results' \in Seq(Results) /\ SuccessIsPublished'
    BY <1>0, <1>a, <1>8, OtherResult DEF DryRun, task
  <2> QED BY <1>0, <1>8, <2>1 DEF DryRun, MoveOn, task
<1>9. CASE Convert
  BY <1>0, <1>9 DEF Convert, SuccessIsPublished, task
<1>10. CASE CopyRpm
  BY <1>0, <1>10 DEF CopyRpm, SuccessIsPublished, Made
<1>11. CASE Built
  <2>1. results' \in Seq(Results) /\ SuccessIsPublished'
    BY <1>0, <1>11, OtherResult DEF Built, task
  <2> QED BY <1>0, <1>11, <2>1 DEF Built, MoveOn, task
<1>12. CASE WriteRpm
  BY <1>0, <1>12 DEF WriteRpm, SuccessIsPublished, Made, task
<1>13. CASE BuildEnds
  BY <1>0, <1>13 DEF BuildEnds, SuccessIsPublished, task
<1>14. CASE BuildFails \/ BuildTimeout
  <2>1. results' \in Seq(Results) /\ SuccessIsPublished'
    BY <1>0, <1>14, OtherResult DEF BuildFails, BuildTimeout, task
  <2> QED
    BY <1>0, <1>14, <2>1 DEF BuildFails, BuildTimeout, StopOrMoveOn, MoveOn, Break, task
<1>15. CASE StrayEnds
  BY <1>0, <1>15 DEF StrayEnds, SuccessIsPublished
<1>16. CASE Interrupt
  BY <1>0, <1>16 DEF Interrupt, SuccessIsPublished
<1>17. CASE UNCHANGED buildVars
  BY <1>17 DEF buildVars, SuccessIsPublished
<1> QED
  BY <1>1, <1>2, <1>3, <1>4, <1>5, <1>6, <1>7, <1>8, <1>9, <1>10, <1>11, <1>12, <1>13,
     <1>14, <1>15, <1>16, <1>17
  DEF BuildNext, Loop, Rpmbuild

(* The invariant is inductive.                                             *)
THEOREM BuildInductive == BuildSpec => []Inv
BY InitInv, StepInv, PTL DEF BuildSpec

(* Every variable keeps its type; the loop never leaves its list.          *)
THEOREM BuildTypeCorrect == BuildSpec => []BuildTypeOK
BY BuildInductive, PTL DEF Inv

(* Whatever failed, killed and interrupted builds leave behind, only what  *)
(* a build that ended well has written is ever published.                  *)
THEOREM Published == BuildSpec => []PublishedFromSuccess
PROOF
<1>1. Inv => PublishedFromSuccess BY DEF Inv, Flow, PublishedFromSuccess
<1> QED BY <1>1, BuildInductive, PTL

(* What is reported as built is in outputs/RPMS.                           *)
THEOREM ReportedIsPublished == BuildSpec => []SuccessIsPublished
BY BuildInductive, PTL DEF Inv

-----------------------------------------------------------------------------
(* What the report says is about the tasks the loop has left.              *)
Reported ==
  /\ Len(results) <= Len(tasks)
  /\ ResultsFollowTasks /\ ErrorsStop

Stops(e) == /\ e.status \in Failures \cup {"needs_review"}
            /\ ~(e.status = "fetch_failed" /\ opts.skipFetch)

(* One more result, after which the loop goes on, or stops if it must.     *)
LEMMA OneMoreResult ==
  ASSUME BuildTypeOK, Reported, at # "idle", pos <= Len(tasks),
         NEW p \in {task.package, task.srpm}, NEW st \in Statuses, NEW rs, Record(p, st, rs),
         tasks' = tasks, opts' = opts,
         \/ StopOrMoveOn
         \/ MoveOn /\ ~Stops([package |-> p, status |-> st, rpms |-> rs])
  PROVE  Reported'
PROOF
<1> DEFINE e == [package |-> p, status |-> st, rpms |-> rs]
           n == Len(results)
<1>1. results \in Seq(Results) /\ n \in Nat /\ n = pos - 1 /\ pos \in Nat /\ Len(tasks) \in Nat
  BY DEF BuildTypeOK, Reported, ResultsFollowTasks
<1>2. /\ DOMAIN results = 1..n /\ DOMAIN results' = 1..(n + 1) /\ Len(results') = n + 1
      /\ \A i \in 1..n : results'[i] = results[i]
      /\ results'[n + 1] = e
  <2>1. results' = Append(results, e) BY DEF Record
  <2> HIDE DEF e
  <2> QED BY <1>1, <2>1
<1> HIDE DEF n
<1>3. e.package = p /\ e.status = st OBVIOUS
<1>4. Len(results') <= Len(tasks) BY <1>1, <1>2
<1>5. \A i \in DOMAIN results' : results'[i].package \in {tasks[i].package, tasks[i].srpm}
  <2>1. results'[n + 1].package \in {tasks[n + 1].package, tasks[n + 1].srpm}
    BY <1>1, <1>2, <1>3 DEF task
  <2>2. \A i \in 1..n : results'[i].package \in {tasks[i].package, tasks[i].srpm}
    BY <1>2 DEF Reported, ResultsFollowTasks
  <2> QED BY <1>1, <1>2, <2>1, <2>2
<1>6. at' # "idle" => Len(results') = pos' - 1
  BY <1>1, <1>2 DEF StopOrMoveOn, MoveOn, Break
<1>7. ASSUME opts.stopOnError, NEW i \in DOMAIN results', Stops(results'[i])
      PROVE  i = Len(results') /\ at' = "idle"
  <2>1. CASE i \in 1..n
    BY <1>2, <1>7, <2>1 DEF Reported, ErrorsStop, Stops
  <2>2. CASE i = n + 1
    <3>1. Stops(e) BY <1>2, <1>7, <2>2
    <3>2. Break BY <1>7, <3>1 DEF StopOrMoveOn
    <3> QED BY <1>2, <2>2, <3>2 DEF Break
  <2> QED BY <1>1, <1>2, <2>1, <2>2
<1>8. ErrorsStop' BY <1>7 DEF ErrorsStop, Stops
<1> QED BY <1>4, <1>5, <1>6, <1>8 DEF Reported, ResultsFollowTasks

(* Before the first run the report is empty.                               *)
LEMMA InitReported == BuildInit => Reported
BY DEF BuildInit, Reported, ResultsFollowTasks, ErrorsStop

(* Every step keeps the report in step with the list.                      *)
LEMMA StepReported == Inv /\ Reported /\ [BuildNext]_buildVars => Reported'
PROOF
<1> SUFFICES ASSUME Inv, Reported, [BuildNext]_buildVars PROVE Reported'
  OBVIOUS
<1>0. /\ BuildTypeOK /\ (at \notin {"idle", "task"} => pos <= Len(tasks))
      /\ pos \in Nat /\ Len(tasks) \in Nat /\ tasks \in Seq(Tasks)
  BY DEF Inv, BuildTypeOK, Placed
<1>a. {"success", "skipped", "needs_review", "fetch_failed", "convert_failed",
       "build_failed", "timeout"} = Statuses
  BY DEF Statuses
<1> USE DEF rest, files
<1>1. CASE StartRun
  <2>1. results' = <<>> /\ pos' = 1 /\ Len(tasks') \in Nat
    BY <1>1, ResolveType DEF StartRun
  <2> QED BY <1>1, <2>1 DEF StartRun, Reported, ResultsFollowTasks, ErrorsStop
<1>2. CASE Promote \/ Take \/ Convert \/ CopyRpm \/ WriteRpm \/ BuildEnds \/ StrayEnds
  <2>1. /\ UNCHANGED <<tasks, results, pos, opts>> /\ (at' = "idle" <=> at = "idle")
    BY <1>2 DEF Promote, Take, Convert, CopyRpm, WriteRpm, BuildEnds, StrayEnds
  <2> QED BY <2>1 DEF Reported, ResultsFollowTasks, ErrorsStop
<1>3. CASE EndRun
  BY <1>3 DEF EndRun, Reported, ResultsFollowTasks, ErrorsStop
<1>4. CASE Fetch
  <2>1. PICK p : tasks' = [tasks EXCEPT ![pos].srpm = p] BY <1>4 DEF Fetch
  <2>2. Len(tasks') = Len(tasks) /\ \A i \in 1..(pos - 1) : tasks'[i] = tasks[i]
    BY <1>0, <2>1
  <2>3. /\ UNCHANGED <<results, pos, opts>> /\ at # "idle" /\ at' # "idle"
    BY <1>4 DEF Fetch
  <2>4. DOMAIN results = 1..(pos - 1)
    BY <1>0, <2>3 DEF Reported, ResultsFollowTasks, BuildTypeOK
  <2> QED BY <2>2, <2>3, <2>4 DEF Reported, ResultsFollowTasks, ErrorsStop
<1>5. CASE Skip \/ NoSrpm \/ DryRun \/ Built
  <2>1. PICK p \in {task.package, task.srpm}, st \in {"skipped", "fetch_failed", "success"},
              rs \in SUBSET Rpms :
          Record(p, st, rs) /\ (st = "fetch_failed" => opts.skipFetch)
    BY <1>0, <1>5 DEF Skip, NoSrpm, DryRun, Built, BuildTypeOK
  <2>2. /\ MoveOn /\ UNCHANGED <<tasks, opts>> /\ at # "idle" /\ pos <= Len(tasks)
    BY <1>0, <1>5 DEF Skip, NoSrpm, DryRun, Built
  <2>3. ~Stops([package |-> p, status |-> st, rpms |-> rs]) BY <2>1 DEF Stops, Failures
  <2> QED BY <1>0, <1>a, <2>1, <2>2, <2>3, OneMoreResult
<1>6. CASE FetchFails \/ Generate \/ ConvertFails \/ BuildFails \/ BuildTimeout
  <2>1. PICK p \in {task.package, task.srpm}, st \in Statuses : Record(p, st, {})
    BY <1>6, <1>a DEF FetchFails, Generate, ConvertFails, BuildFails, BuildTimeout
  <2>2. StopOrMoveOn /\ UNCHANGED <<tasks, opts>> /\ at # "idle" /\ pos <= Len(tasks)
    BY <1>0, <1>6 DEF FetchFails, Generate, ConvertFails, BuildFails, BuildTimeout
  <2> QED BY <1>0, <2>1, <2>2, OneMoreResult
<1>7. CASE Interrupt
  BY <1>0, <1>7 DEF Interrupt, Reported, ResultsFollowTasks, ErrorsStop
<1>8. CASE UNCHANGED buildVars
  BY <1>8 DEF buildVars, Reported, ResultsFollowTasks, ErrorsStop
<1> QED
  BY <1>1, <1>2, <1>3, <1>4, <1>5, <1>6, <1>7, <1>8 DEF BuildNext, Loop, Rpmbuild

(* The report has one result for every task the loop has left, of that     *)
(* package or of the SRPM that was found for it.                           *)
THEOREM ReportFollows == BuildSpec => []ResultsFollowTasks
PROOF
<1>1. Reported => ResultsFollowTasks BY DEF Reported
<1> QED BY <1>1, InitReported, StepReported, BuildInductive, PTL DEF BuildSpec

(* --stop-on-error ends the batch at the first failure that it asks about. *)
THEOREM StopsOnError == BuildSpec => []ErrorsStop
PROOF
<1>1. Reported => ErrorsStop BY DEF Reported
<1> QED BY <1>1, InitReported, StepReported, BuildInductive, PTL DEF BuildSpec

(* --dry-run leaves both RPM trees as they are.                            *)
THEOREM DryRunSafe == BuildSpec => DryRunBuildsNothing
PROOF
<1>1. Inv /\ [BuildNext]_buildVars => [at # "idle" /\ opts.dryRun => UNCHANGED <<out, torn, tree>>]_buildVars
  <2> SUFFICES ASSUME Inv, BuildNext, at # "idle", opts.dryRun PROVE UNCHANGED <<out, torn, tree>>
    BY DEF buildVars
  <2>1. at \notin {"build", "copy"} BY DEF Inv, NoBuildInDryRun
  <2> QED
    BY <2>1
    DEF BuildNext, Loop, Rpmbuild, StartRun, Promote, EndRun, Skip, NoSrpm, Take, Fetch, FetchFails,
        Generate, DryRun, Convert, ConvertFails, CopyRpm, Built, WriteRpm, BuildEnds,
        BuildFails, BuildTimeout, StrayEnds, Interrupt, rest, files
<1> QED BY <1>1, BuildInductive, PTL DEF DryRunBuildsNothing, BuildSpec

(***************************************************************************)
(* Staging.  A resource is accounted for because some process is           *)
(* responsible for it: the invariant says which, and that responsibility   *)
(* ends only when the resource is whole, gone for good, or blamed.         *)
(***************************************************************************)

(* A writer whose tree was removed under it is not responsible for what it *)
(* leaves: it may make the directory anew.                                 *)
CutWriter(p, r)   == Writing(p, r) /\ proc[p].cut
Responsible(p, r) == r \in HalfWritten(p) /\ ~CutWriter(p, r)

Exposed(r) ==
  \/ file[r] = "part"
  \/ file[r] = "none" /\ r \in Trees /\ \E p \in Procs : CutWriter(p, r)

Covered ==
  \A r \in Names : Exposed(r) => r \in blamed \/ \E p \in Procs : Responsible(p, r)

(* cleanup.sh removes everything before it writes, and writes every tree.  *)
InOrderOf(todo) ==
  \A k \in DOMAIN todo :
    /\ todo[k].op \in {"rm", "over"}
    /\ todo[k].op = "rm" =>
         /\ \A j \in 1..k : todo[j].op = "rm"
         /\ \A t \in Trees : \E m \in DOMAIN todo : todo[m].op = "over" /\ todo[m].name = t

(* No other command removes a tree for good.                               *)
TreesKept(todo) == \A k \in DOMAIN todo : todo[k].op = "rm" => todo[k].name \notin Trees

Orderly(s) ==
  /\ s.at \notin {"doing", "removing", "writing"} => s.todo = << >>
  /\ s.cut => s.at = "writing"
  /\ s.at = "removing" => Head(s.todo).op \in {"rm", "resync"}
  /\ IF s.cmd = "cleanup.sh" THEN InOrderOf(s.todo) ELSE TreesKept(s.todo)

AllOrderly  == \A p \in Procs : Orderly(proc[p])
InDirectory == \A p \in Procs : proc[p].todo # << >> => made

IInv == TypeOK /\ InDirectory /\ AllOrderly /\ Covered

-----------------------------------------------------------------------------
(* What is left of a list after its first item.                            *)
LEMMA TailTodo ==
  ASSUME NEW s \in Seq(Ops), s # << >>
  PROVE  /\ Head(s) \in Ops /\ Tail(s) \in Seq(Ops)
         /\ NamesOf(Tail(s)) \subseteq NamesOf(s)
         /\ NamesOf(s) \subseteq NamesOf(Tail(s)) \cup {Head(s).name}
         /\ Head(s).name \in NamesOf(s)
         /\ InOrderOf(s) => InOrderOf(Tail(s))
         /\ TreesKept(s) => TreesKept(Tail(s))
         /\ InOrderOf(s) /\ Head(s).op = "rm" /\ Head(s).name \in Trees => Head(s).name \in NamesOf(Tail(s))
<1>1. /\ Head(s) = s[1] /\ 1 \in DOMAIN s /\ Head(s) \in Ops /\ Tail(s) \in Seq(Ops)
      /\ Len(s) \in Nat /\ Len(s) > 0 /\ Len(Tail(s)) = Len(s) - 1
      /\ DOMAIN s = 1..Len(s) /\ DOMAIN Tail(s) = 1..Len(Tail(s))
  OBVIOUS
<1>2. \A k \in DOMAIN Tail(s) : k + 1 \in DOMAIN s /\ Tail(s)[k] = s[k + 1]
  BY <1>1
<1>3. \A k \in DOMAIN s : k # 1 => k - 1 \in DOMAIN Tail(s) /\ Tail(s)[k - 1] = s[k]
  BY <1>1
<1>4. NamesOf(Tail(s)) \subseteq NamesOf(s)
  BY <1>2 DEF NamesOf
<1>5. NamesOf(s) \subseteq NamesOf(Tail(s)) \cup {Head(s).name}
  <2> SUFFICES ASSUME NEW k \in DOMAIN s PROVE s[k].name \in NamesOf(Tail(s)) \cup {Head(s).name}
    BY DEF NamesOf
  <2>1. CASE k = 1
    BY <2>1, <1>1
  <2>2. CASE k # 1
    BY <2>2, <1>3 DEF NamesOf
  <2> QED BY <2>1, <2>2
<1>6. ASSUME InOrderOf(s), NEW t \in Trees, NEW k \in DOMAIN s, s[k].op = "rm"
      PROVE  \E m \in DOMAIN Tail(s) : Tail(s)[m].op = "over" /\ Tail(s)[m].name = t
  <2>1. s[1].op = "rm"
    BY <1>1, <1>6 DEF InOrderOf
  <2>2. PICK m \in DOMAIN s : s[m].op = "over" /\ s[m].name = t
    BY <1>6 DEF InOrderOf
  <2>3. m # 1
    BY <2>1, <2>2
  <2> QED BY <1>3, <2>2, <2>3
<1>7. ASSUME InOrderOf(s) PROVE InOrderOf(Tail(s))
  <2> SUFFICES ASSUME NEW k \in DOMAIN Tail(s)
               PROVE  /\ Tail(s)[k].op \in {"rm", "over"}
                      /\ Tail(s)[k].op = "rm" =>
                           /\ \A j \in 1..k : Tail(s)[j].op = "rm"
                           /\ \A t \in Trees : \E m \in DOMAIN Tail(s) :
                                Tail(s)[m].op = "over" /\ Tail(s)[m].name = t
    BY DEF InOrderOf
  <2>1. k + 1 \in DOMAIN s /\ Tail(s)[k] = s[k + 1] /\ s[k + 1].op \in {"rm", "over"}
    BY <1>2, <1>7 DEF InOrderOf
  <2>2. ASSUME s[k + 1].op = "rm" PROVE \A j \in 1..k : Tail(s)[j].op = "rm"
    <3>1. \A j \in 1..(k + 1) : s[j].op = "rm"
      BY <2>1, <2>2, <1>7 DEF InOrderOf
    <3> QED BY <3>1, <1>1, <1>2
  <2> QED BY <1>6, <1>7, <2>1, <2>2
<1>8. TreesKept(s) => TreesKept(Tail(s))
  BY <1>2 DEF TreesKept
<1>9. ASSUME InOrderOf(s), Head(s).op = "rm", Head(s).name \in Trees
      PROVE  Head(s).name \in NamesOf(Tail(s))
  <2>1. PICK m \in DOMAIN Tail(s) : Tail(s)[m].name = Head(s).name
    BY <1>1, <1>6, <1>9
  <2> QED BY <2>1 DEF NamesOf
<1> QED BY <1>1, <1>4, <1>5, <1>7, <1>8, <1>9 DEF NamesOf

(* What is left when the first item becomes another look or a write.       *)
LEMMA ResumedTodo ==
  ASSUME NEW s \in Seq(Ops), s # << >>, TreesKept(s), NEW op \in {"resync", "write"}
  PROVE  LET r == <<[op |-> op, name |-> Head(s).name]>> \o Tail(s) IN
         /\ r \in Seq(Ops) /\ r # << >> /\ Head(r) = [op |-> op, name |-> Head(s).name]
         /\ TreesKept(r) /\ NamesOf(r) = NamesOf(s)
<1> DEFINE i == [op |-> op, name |-> Head(s).name]
           r == <<i>> \o Tail(s)
<1>1. /\ Head(s) \in Ops /\ Tail(s) \in Seq(Ops) /\ NamesOf(Tail(s)) \subseteq NamesOf(s)
      /\ NamesOf(s) \subseteq NamesOf(Tail(s)) \cup {Head(s).name}
      /\ Head(s).name \in NamesOf(s) /\ TreesKept(Tail(s))
  BY TailTodo
<1>2. i \in Ops /\ i.op = op /\ op # "rm" /\ i.name = Head(s).name
  BY <1>1 DEF Ops
<1> HIDE DEF i
<1>3. /\ r \in Seq(Ops) /\ r # << >> /\ Head(r) = i /\ 1 \in DOMAIN r /\ r[1] = i
      /\ \A k \in DOMAIN Tail(s) : k + 1 \in DOMAIN r /\ r[k + 1] = Tail(s)[k]
      /\ \A k \in DOMAIN r : k # 1 => k - 1 \in DOMAIN Tail(s) /\ r[k] = Tail(s)[k - 1]
  BY <1>1, <1>2
<1> HIDE DEF r
<1>4. TreesKept(r)
  BY <1>1, <1>2, <1>3 DEF TreesKept
<1>5. NamesOf(r) \subseteq NamesOf(s)
  <2> SUFFICES ASSUME NEW k \in DOMAIN r PROVE r[k].name \in NamesOf(s)
    BY DEF NamesOf
  <2>1. CASE k = 1
    BY <2>1, <1>1, <1>2, <1>3
  <2>2. CASE k # 1
    <3>1. Tail(s)[k - 1].name \in NamesOf(Tail(s)) /\ r[k] = Tail(s)[k - 1]
      BY <2>2, <1>3 DEF NamesOf
    <3> QED BY <3>1, <1>1
  <2> QED BY <2>1, <2>2
<1>6. NamesOf(Tail(s)) \subseteq NamesOf(r)
  <2> SUFFICES ASSUME NEW k \in DOMAIN Tail(s) PROVE Tail(s)[k].name \in NamesOf(r)
    BY DEF NamesOf
  <2>1. k + 1 \in DOMAIN r /\ r[k + 1] = Tail(s)[k]
    BY <1>3
  <2> QED BY <2>1 DEF NamesOf
<1>7. Head(s).name \in NamesOf(r)
  BY <1>2, <1>3 DEF NamesOf
<1>8. NamesOf(r) = NamesOf(s)
  BY <1>1, <1>5, <1>6, <1>7
<1> QED BY <1>3, <1>4, <1>8 DEF r, i

(* A list of All() is one of items with its operation and the names given. *)
LEMMA AllTodo ==
  ASSUME NEW op \in {"ensure", "resync", "write", "over", "rm"}, NEW names \in Seq(Names)
  PROVE  /\ All(op, names) \in Seq(Ops) /\ Len(All(op, names)) = Len(names)
         /\ \A i \in 1..Len(names) : All(op, names)[i] = [op |-> op, name |-> names[i]]
<1>1. DOMAIN names = 1..Len(names) /\ Len(names) \in Nat /\ \A i \in 1..Len(names) : names[i] \in Names
  OBVIOUS
<1>2. \A i \in 1..Len(names) : [op |-> op, name |-> names[i]] \in Ops
  BY <1>1 DEF Ops
<1>3. All(op, names) = [i \in 1..Len(names) |-> [op |-> op, name |-> names[i]]]
  BY <1>1 DEF All
<1>4. All(op, names) \in [1..Len(names) -> Ops]
  BY <1>2, <1>3
<1>5. All(op, names) \in Seq(Ops) /\ Len(All(op, names)) = Len(names)
  BY <1>1, <1>4
<1> QED BY <1>3, <1>5

(* The items of a list made of two.                                        *)
LEMMA Joined ==
  ASSUME NEW S, NEW s \in Seq(S), NEW t \in Seq(S)
  PROVE  /\ s \o t \in Seq(S)
         /\ DOMAIN s \subseteq DOMAIN (s \o t)
         /\ \A i \in DOMAIN s : (s \o t)[i] = s[i]
         /\ \A i \in DOMAIN t : Len(s) + i \in DOMAIN (s \o t) /\ (s \o t)[Len(s) + i] = t[i]
         /\ \A k \in DOMAIN (s \o t) : k \notin DOMAIN s => k - Len(s) \in DOMAIN t /\ (s \o t)[k] = t[k - Len(s)]
         /\ DOMAIN s = 1..Len(s) /\ Len(s) \in Nat
<1>1. /\ Len(s) \in Nat /\ Len(t) \in Nat /\ s \o t \in Seq(S) /\ Len(s \o t) = Len(s) + Len(t)
      /\ DOMAIN s = 1..Len(s) /\ DOMAIN t = 1..Len(t) /\ DOMAIN (s \o t) = 1..(Len(s) + Len(t))
  OBVIOUS
<1>2. \A i \in 1..Len(s) : (s \o t)[i] = s[i]
  OBVIOUS
<1>3. \A k \in (Len(s) + 1)..(Len(s) + Len(t)) : (s \o t)[k] = t[k - Len(s)]
  OBVIOUS
<1> QED BY <1>1, <1>2, <1>3

(* Removals before writes.                                                 *)
LEMMA RemovalsFirst ==
  ASSUME NEW s \in Seq(Ops), NEW t \in Seq(Ops),
         \A i \in DOMAIN s : s[i].op = "rm",
         \A i \in DOMAIN t : t[i].op = "over",
         \A x \in Trees : \E m \in DOMAIN t : t[m].op = "over" /\ t[m].name = x
  PROVE  s \o t \in Seq(Ops) /\ InOrderOf(s \o t)
<1> DEFINE u == s \o t
<1>1. /\ u \in Seq(Ops) /\ Len(s) \in Nat /\ DOMAIN s = 1..Len(s) /\ DOMAIN s \subseteq DOMAIN u
      /\ \A i \in DOMAIN s : u[i] = s[i]
      /\ \A i \in DOMAIN t : Len(s) + i \in DOMAIN u /\ u[Len(s) + i] = t[i]
      /\ \A k \in DOMAIN u : k \notin DOMAIN s => k - Len(s) \in DOMAIN t /\ u[k] = t[k - Len(s)]
  BY Joined
<1> HIDE DEF u
<1>2. ASSUME NEW k \in DOMAIN u, u[k].op = "rm" PROVE k \in DOMAIN s
  BY <1>1, <1>2
<1>3. ASSUME NEW k \in DOMAIN u, u[k].op = "rm" PROVE \A j \in 1..k : u[j].op = "rm"
  <2>1. \A j \in 1..k : j \in DOMAIN s
    BY <1>1, <1>2, <1>3
  <2> QED BY <1>1, <2>1
<1>4. ASSUME NEW x \in Trees PROVE \E m \in DOMAIN u : u[m].op = "over" /\ u[m].name = x
  <2>1. PICK m \in DOMAIN t : t[m].op = "over" /\ t[m].name = x
    OBVIOUS
  <2>2. Len(s) + m \in DOMAIN u /\ u[Len(s) + m] = t[m]
    BY <1>1
  <2> QED BY <2>1, <2>2
<1>5. \A k \in DOMAIN u : u[k].op \in {"rm", "over"}
  BY <1>1
<1>6. InOrderOf(u)
  BY <1>3, <1>4, <1>5 DEF InOrderOf
<1> QED BY <1>1, <1>6 DEF u

(* More writes at the end change nothing.                                  *)
LEMMA LaterWrites ==
  ASSUME NEW s \in Seq(Ops), NEW t \in Seq(Ops), InOrderOf(s),
         \A i \in DOMAIN t : t[i].op = "over"
  PROVE  s \o t \in Seq(Ops) /\ InOrderOf(s \o t)
<1> DEFINE u == s \o t
<1>1. /\ u \in Seq(Ops) /\ Len(s) \in Nat /\ DOMAIN s = 1..Len(s) /\ DOMAIN s \subseteq DOMAIN u
      /\ \A i \in DOMAIN s : u[i] = s[i]
      /\ \A k \in DOMAIN u : k \notin DOMAIN s => k - Len(s) \in DOMAIN t /\ u[k] = t[k - Len(s)]
  BY Joined
<1> HIDE DEF u
<1>2. ASSUME NEW k \in DOMAIN u, u[k].op = "rm"
      PROVE  /\ \A j \in 1..k : u[j].op = "rm"
             /\ \A x \in Trees : \E m \in DOMAIN u : u[m].op = "over" /\ u[m].name = x
  <2>1. k \in DOMAIN s /\ s[k].op = "rm"
    BY <1>1, <1>2
  <2>2. /\ \A j \in 1..k : s[j].op = "rm"
        /\ \A x \in Trees : \E m \in DOMAIN s : s[m].op = "over" /\ s[m].name = x
    BY <2>1 DEF InOrderOf
  <2>3. \A j \in 1..k : j \in DOMAIN s
    BY <1>1, <2>1
  <2>4. \A j \in 1..k : u[j].op = "rm"
    BY <1>1, <2>2, <2>3
  <2>5. ASSUME NEW x \in Trees PROVE \E m \in DOMAIN u : u[m].op = "over" /\ u[m].name = x
    <3>1. PICK m \in DOMAIN s : s[m].op = "over" /\ s[m].name = x
      BY <2>2
    <3> QED BY <1>1, <3>1
  <2> QED BY <2>4, <2>5
<1>3. \A k \in DOMAIN u : u[k].op \in {"rm", "over"}
  <2>1. \A k \in DOMAIN s : s[k].op \in {"rm", "over"}
    BY DEF InOrderOf
  <2> QED BY <1>1, <2>1
<1>4. InOrderOf(u)
  BY <1>2, <1>3 DEF InOrderOf
<1> QED BY <1>1, <1>4 DEF u

(* A list of another operation removes nothing for good.                   *)
LEMMA ListsWithoutRemovals ==
  ASSUME NEW op \in {"ensure", "resync", "over"}, NEW names \in Seq(Names)
  PROVE  All(op, names) \in Seq(Ops) /\ TreesKept(All(op, names))
<1> DEFINE a == All(op, names)
<1>1. /\ a \in Seq(Ops) /\ Len(a) = Len(names)
      /\ \A i \in 1..Len(names) : a[i] = [op |-> op, name |-> names[i]]
  BY AllTodo
<1> HIDE DEF a
<1>2. DOMAIN a = 1..Len(names)
  BY <1>1
<1>3. \A i \in DOMAIN a : a[i].op = op
  BY <1>1, <1>2
<1> QED BY <1>1, <1>3 DEF a, TreesKept

(* The lists of the commands are lists of items.                           *)
LEMMA CommandLists ==
  ASSUME sources \subseteq Libs
  PROVE  /\ EnsureOps \in Seq(Ops) /\ SyncOps \in Seq(Ops) /\ SetupOps \in Seq(Ops)
         /\ CleanOps \in Seq(Ops) /\ CleanupOps \in Seq(Ops)
         /\ InOrderOf(CleanupOps) /\ << >> \in Seq(Ops)
         /\ TreesKept(EnsureOps) /\ TreesKept(SyncOps) /\ TreesKept(SetupOps)
         /\ TreesKept(CleanOps) /\ TreesKept(<< >>) /\ InOrderOf(<< >>)
<1> DEFINE a == <<"soft_float", "atomic", "dicl", "mogrix", "headers">>
           b == <<"dicl", "headers", "mogrix", "soft_float">>
           c == IF "atomic" \in sources THEN <<"atomic">> ELSE << >>
           A == All("rm", a)
           B == All("over", b)
           C == All("over", c)
<1>1. /\ <<"dicl", "mogrix", "headers", "soft_float", "atomic">> \in Seq(Names)
      /\ <<"dicl", "mogrix">> \in Seq(Names) /\ <<"headers">> \in Seq(Names)
      /\ <<"irix_cc", "irix_ld", "dicl">> \in Seq(Names)
      /\ <<"atomic", "headers">> \in Seq(Names)
  BY DEF Names, Required, Libs, Trees, Wrappers
<1>2. a \in Seq(Names) /\ b \in Seq(Names) /\ c \in Seq(Names)
  <2>1. <<"atomic">> \in Seq(Names) /\ << >> \in Seq(Names)
    BY DEF Names, Required, Libs
  <2>2. a \in Seq(Names) /\ b \in Seq(Names)
    BY DEF Names, Required, Libs, Trees, Wrappers
  <2> QED BY <2>1, <2>2
<1>3. Len(a) = 5 /\ Len(b) = 4 /\ b[1] = "dicl" /\ b[3] = "mogrix" /\ Len(c) \in Nat
  <2>1. Len(c) \in Nat
    BY <1>2
  <2> QED BY <2>1
<1> HIDE DEF a, b, c
<1>4. EnsureOps \in Seq(Ops) /\ TreesKept(EnsureOps)
  BY <1>1, ListsWithoutRemovals DEF EnsureOps
<1>5. SyncOps \in Seq(Ops) /\ TreesKept(SyncOps)
  <2> DEFINE x == All("resync", <<"dicl", "mogrix">>)
             y == All("ensure", <<"headers">>)
  <2>1. x \in Seq(Ops) /\ y \in Seq(Ops) /\ TreesKept(x) /\ TreesKept(y)
    BY <1>1, ListsWithoutRemovals
  <2> HIDE DEF x, y
  <2>2. x \o y \in Seq(Ops)
    BY <2>1, Joined
  <2>3. ASSUME NEW k \in DOMAIN (x \o y), (x \o y)[k].op = "rm" PROVE (x \o y)[k].name \notin Trees
    <3>1. CASE k \in DOMAIN x
      BY <2>1, <2>3, <3>1, Joined DEF TreesKept
    <3>2. CASE k \notin DOMAIN x
      <4>1. k - Len(x) \in DOMAIN y /\ (x \o y)[k] = y[k - Len(x)]
        BY <2>1, <3>2, Joined
      <4> QED BY <2>1, <2>3, <4>1 DEF TreesKept
    <3> QED BY <3>1, <3>2
  <2> QED BY <2>2, <2>3 DEF SyncOps, TreesKept, x, y
<1>6. SetupOps \in Seq(Ops) /\ TreesKept(SetupOps) /\ CleanOps \in Seq(Ops) /\ TreesKept(CleanOps)
  <2>1. SetupOps \in Seq(Ops) /\ TreesKept(SetupOps)
    BY <1>1, ListsWithoutRemovals DEF SetupOps
  <2> DEFINE n == <<"atomic", "headers">>
  <2>2. CleanOps \in Seq(Ops) /\ Len(CleanOps) = Len(n)
        /\ \A k \in 1..Len(n) : CleanOps[k] = [op |-> "rm", name |-> n[k]]
    BY <1>1, AllTodo DEF CleanOps
  <2>3. Len(n) = 2 /\ n[1] \notin Trees /\ n[2] \notin Trees
    BY DEF Trees
  <2> HIDE DEF n
  <2>4. \A k \in DOMAIN CleanOps : k \in 1..2 /\ CleanOps[k].name = n[k]
    BY <2>2, <2>3
  <2> QED BY <2>1, <2>2, <2>3, <2>4 DEF TreesKept
<1>7. A \in Seq(Ops) /\ Len(A) = 5 /\ \A i \in 1..5 : A[i].op = "rm"
  <2>1. /\ A \in Seq(Ops) /\ Len(A) = Len(a)
        /\ \A i \in 1..Len(a) : A[i] = [op |-> "rm", name |-> a[i]]
    BY <1>2, AllTodo
  <2> HIDE DEF A
  <2> QED BY <2>1, <1>3
<1>8. /\ B \in Seq(Ops) /\ Len(B) = 4
      /\ \A i \in 1..4 : B[i].op = "over" /\ B[i].name = b[i]
  <2>1. /\ B \in Seq(Ops) /\ Len(B) = Len(b)
        /\ \A i \in 1..Len(b) : B[i] = [op |-> "over", name |-> b[i]]
    BY <1>2, AllTodo
  <2> HIDE DEF B
  <2> QED BY <2>1, <1>3
<1>9. C \in Seq(Ops) /\ \A i \in DOMAIN C : C[i].op = "over"
  <2>1. /\ C \in Seq(Ops) /\ Len(C) = Len(c)
        /\ \A i \in 1..Len(c) : C[i] = [op |-> "over", name |-> c[i]]
    BY <1>2, AllTodo
  <2> HIDE DEF C
  <2>2. DOMAIN C = 1..Len(c)
    BY <2>1
  <2>3. ASSUME NEW i \in DOMAIN C PROVE C[i].op = "over"
    BY <2>1, <2>2
  <2> QED BY <2>1, <2>3
<1>10. CleanupOps = (A \o B) \o C
  BY DEF CleanupOps, a, b, c
<1> HIDE DEF A, B, C
<1>11. A \o B \in Seq(Ops) /\ InOrderOf(A \o B)
  <2>1. \A i \in DOMAIN A : A[i].op = "rm"
    BY <1>7
  <2>2. \A i \in DOMAIN B : B[i].op = "over"
    BY <1>8
  <2>3. \A t \in Trees : \E m \in DOMAIN B : B[m].op = "over" /\ B[m].name = t
    <3>1. 1 \in DOMAIN B /\ 3 \in DOMAIN B /\ B[1].name = "dicl" /\ B[3].name = "mogrix"
      BY <1>3, <1>8
    <3> QED BY <2>2, <3>1 DEF Trees
  <2> QED BY <1>7, <1>8, <2>1, <2>2, <2>3, RemovalsFirst
<1>12. CleanupOps \in Seq(Ops) /\ InOrderOf(CleanupOps)
  BY <1>9, <1>10, <1>11, LaterWrites
<1>13. << >> \in Seq(Ops) /\ TreesKept(<< >>) /\ InOrderOf(<< >>)
  BY DEF TreesKept, InOrderOf
<1> QED BY <1>4, <1>5, <1>6, <1>12, <1>13

-----------------------------------------------------------------------------
(* The state of one process changes.                                       *)
LEMMA OneBecomes ==
  ASSUME TypeOK, NEW p \in Procs, NEW s \in Runs, Becomes(p, s)
  PROVE  /\ proc' \in [Procs -> Runs] /\ proc'[p] = s
         /\ \A q \in Procs \ {p} : proc'[q] = proc[q]
BY DEF TypeOK, Becomes

(* It changes, and r is removed from under those who write it.             *)
LEMMA OneRemoves ==
  ASSUME TypeOK, NEW p \in Procs, NEW s \in Runs, NEW r, Removing(p, r, s)
  PROVE  /\ proc' \in [Procs -> Runs] /\ proc'[p] = s
         /\ \A q \in Procs \ {p} :
              /\ proc'[q].cmd = proc[q].cmd /\ proc'[q].at = proc[q].at
              /\ proc'[q].todo = proc[q].todo
              /\ proc'[q].cut = (proc[q].cut \/ Writing(q, r))
<1>1. proc \in [Procs -> Runs]
  BY DEF TypeOK
<1>2. \A q \in Procs : Writing(q, r) \in BOOLEAN
  BY DEF Writing, At
<1>3. \A q \in Procs : [proc[q] EXCEPT !.cut = @ \/ Writing(q, r)] \in Runs
  <2> SUFFICES ASSUME NEW q \in Procs PROVE [proc[q] EXCEPT !.cut = @ \/ Writing(q, r)] \in Runs
    OBVIOUS
  <2>1. (proc[q].cut \/ Writing(q, r)) \in BOOLEAN
    BY <1>2
  <2> QED BY <1>1, <2>1 DEF Runs
<1>4. proc' \in [Procs -> Runs]
  BY <1>3 DEF Removing
<1>5. \A q \in Procs \ {p} : proc'[q] = [proc[q] EXCEPT !.cut = @ \/ Writing(q, r)]
  BY DEF Removing
<1> QED BY <1>1, <1>4, <1>5 DEF Runs, Removing

(* p has finished what it was about.                                       *)
LEMMA AfterDone ==
  ASSUME TypeOK, AllOrderly, NEW p \in Procs, proc[p].todo # << >>
  PROVE  /\ Done(p) \in Runs /\ Orderly(Done(p))
         /\ Done(p).cmd = proc[p].cmd /\ Done(p).at = "doing" /\ ~Done(p).cut
         /\ Done(p).todo = Tail(proc[p].todo)
         /\ Item(p) \in Ops /\ Item(p).name \in NamesOf(proc[p].todo)
         /\ NamesOf(proc[p].todo) \subseteq NamesOf(Tail(proc[p].todo)) \cup {Item(p).name}
<1>1. proc[p] \in Runs /\ proc[p].todo \in Seq(Ops) /\ Orderly(proc[p])
  BY DEF TypeOK, Runs, AllOrderly
<1> DEFINE d == [proc[p] EXCEPT !.at = "doing", !.todo = Tail(@), !.cut = FALSE]
<1>2. /\ Head(proc[p].todo) \in Ops /\ Tail(proc[p].todo) \in Seq(Ops)
      /\ Head(proc[p].todo).name \in NamesOf(proc[p].todo)
      /\ NamesOf(proc[p].todo) \subseteq NamesOf(Tail(proc[p].todo)) \cup {Head(proc[p].todo).name}
      /\ InOrderOf(proc[p].todo) => InOrderOf(Tail(proc[p].todo))
      /\ TreesKept(proc[p].todo) => TreesKept(Tail(proc[p].todo))
  BY <1>1, TailTodo
<1>3. /\ d \in Runs /\ d.cmd = proc[p].cmd /\ d.at = "doing" /\ d.cut = FALSE
      /\ d.todo = Tail(proc[p].todo)
  BY <1>1, <1>2 DEF Runs
<1> HIDE DEF d
<1>4. Orderly(d)
  BY <1>1, <1>2, <1>3 DEF Orderly
<1> QED BY <1>2, <1>3, <1>4 DEF Done, Item, d

(* p looks again at what was missing, or writes it, removed or not.        *)
LEMMA AfterGoes ==
  ASSUME TypeOK, AllOrderly, NEW p \in Procs, proc[p].todo # << >>, ~proc[p].cut,
         Item(p).op \in {"ensure", "resync"}, NEW op \in {"resync", "write"}
  PROVE  /\ Goes(p, op) \in Runs /\ Orderly(Goes(p, op))
         /\ Goes(p, op).cmd = proc[p].cmd /\ proc[p].cmd # "cleanup.sh"
         /\ Goes(p, op).at = "doing" /\ Goes(p, op).todo # << >>
         /\ Head(Goes(p, op).todo).op = op /\ Head(Goes(p, op).todo).name = Item(p).name
<1>1. proc[p] \in Runs /\ proc[p].todo \in Seq(Ops) /\ Orderly(proc[p])
  BY DEF TypeOK, Runs, AllOrderly
<1>2. proc[p].cmd # "cleanup.sh"
  <2> SUFFICES ASSUME InOrderOf(proc[p].todo) PROVE FALSE
    BY <1>1 DEF Orderly
  <2>1. 1 \in DOMAIN proc[p].todo /\ Head(proc[p].todo) = proc[p].todo[1]
    BY <1>1
  <2> QED BY <2>1 DEF InOrderOf, Item
<1>3. TreesKept(proc[p].todo)
  BY <1>1, <1>2 DEF Orderly
<1> DEFINE t == <<[op |-> op, name |-> Head(proc[p].todo).name]>> \o Tail(proc[p].todo)
           d == [proc[p] EXCEPT !.at = "doing", !.todo = t]
<1>4. /\ t \in Seq(Ops) /\ t # << >> /\ TreesKept(t)
      /\ Head(t) = [op |-> op, name |-> Head(proc[p].todo).name]
  BY <1>1, <1>3, ResumedTodo
<1>5. d = Goes(p, op)
  BY DEF Goes, Item
<1> HIDE DEF t
<1>6. /\ d \in Runs /\ d.cmd = proc[p].cmd /\ d.at = "doing" /\ d.cut = proc[p].cut /\ d.todo = t
  BY <1>1, <1>4 DEF Runs
<1> HIDE DEF d
<1>7. Orderly(d)
  BY <1>2, <1>4, <1>6 DEF Orderly
<1> QED BY <1>2, <1>4, <1>5, <1>6, <1>7 DEF Item

-----------------------------------------------------------------------------
(* What is half written is still on the list.                              *)
LEMMA HalvesAreListed ==
  ASSUME TypeOK, NEW p \in Procs
  PROVE  HalfWritten(p) \subseteq NamesOf(proc[p].todo)
<1>1. proc[p].todo \in Seq(Ops) /\ (proc[p].at \in {"removing", "writing"} => proc[p].todo # << >>)
  BY DEF TypeOK, Runs
<1>2. CASE proc[p].todo = << >>
  BY <1>1, <1>2 DEF HalfWritten, Doing, At
<1>3. CASE proc[p].todo # << >>
  <2>1. Head(proc[p].todo).name \in NamesOf(proc[p].todo)
    BY <1>1, <1>3, TailTodo
  <2> QED BY <2>1 DEF HalfWritten, Item
<1> QED BY <1>2, <1>3

(* What a process answers for depends on these parts of its state.         *)
SameWork(q) ==
  /\ proc'[q].cmd = proc[q].cmd /\ proc'[q].at = proc[q].at
  /\ proc'[q].todo = proc[q].todo /\ proc'[q].cut = proc[q].cut

SameResponsibility(q, r) ==
  (CutWriter(q, r)' <=> CutWriter(q, r)) /\ (Responsible(q, r)' <=> Responsible(q, r))

(* A process that does not move answers for what it answered for.          *)
LEMMA Bystander ==
  ASSUME NEW q, NEW r, SameWork(q)
  PROVE  SameResponsibility(q, r)
BY DEF SameWork, SameResponsibility, CutWriter, Responsible, HalfWritten, Writing, Doing, At, Item

(* And so does one under which another resource is removed.                *)
LEMMA BystanderOfRemoval ==
  ASSUME NEW q, NEW r, NEW x, x # r,
         proc'[q].cmd = proc[q].cmd, proc'[q].at = proc[q].at,
         proc'[q].todo = proc[q].todo, proc'[q].cut = (proc[q].cut \/ Writing(q, x))
  PROVE  SameResponsibility(q, r)
<1>1. HalfWritten(q)' = HalfWritten(q) /\ (Writing(q, r)' <=> Writing(q, r))
  BY DEF HalfWritten, Writing, Doing, At, Item
<1>2. Writing(q, r) => ~Writing(q, x)
  BY DEF Writing
<1> QED BY <1>1, <1>2 DEF SameResponsibility, CutWriter, Responsible

(* A step that touches no file keeps everything covered if what the process *)
(* answered for is blamed or still answered for.                           *)
LEMMA CoveredStays ==
  ASSUME Covered, NEW p \in Procs, file' = file, blamed \subseteq blamed',
         \A q \in Procs \ {p} : SameWork(q),
         \A r \in Names : CutWriter(p, r)' => CutWriter(p, r),
         \A r \in Names : Exposed(r) /\ Responsible(p, r) => r \in blamed' \/ Responsible(p, r)'
  PROVE  Covered'
<1> SUFFICES ASSUME NEW r \in Names, Exposed(r)'
             PROVE  r \in blamed' \/ \E q \in Procs : Responsible(q, r)'
  BY DEF Covered
<1>1. \A q \in Procs \ {p} : SameResponsibility(q, r)
  BY Bystander
<1>2. Exposed(r)
  BY <1>1 DEF Exposed, SameResponsibility
<1>3. r \in blamed \/ \E q \in Procs : Responsible(q, r)
  BY <1>2 DEF Covered
<1> QED BY <1>1, <1>2, <1>3 DEF SameResponsibility

(* A step that touches one resource only must see to that one.             *)
LEMMA CoveredButOne ==
  ASSUME Covered, NEW p \in Procs, NEW x \in Names,
         \A r \in Names \ {x} : file'[r] = file[r],
         blamed \ {x} \subseteq blamed',
         \A q \in Procs \ {p} : \A r \in Names \ {x} : SameResponsibility(q, r),
         \A r \in Names \ {x} : ~CutWriter(p, r)',
         \A r \in Names \ {x} : Responsible(p, r) => Responsible(p, r)',
         Exposed(x)' => x \in blamed' \/ \E q \in Procs : Responsible(q, x)'
  PROVE  Covered'
<1> SUFFICES ASSUME NEW r \in Names \ {x}, Exposed(r)'
             PROVE  r \in blamed' \/ \E q \in Procs : Responsible(q, r)'
  BY DEF Covered
<1>1. Exposed(r)
  BY DEF Exposed, SameResponsibility
<1>2. r \in blamed \/ \E q \in Procs : Responsible(q, r)
  BY <1>1 DEF Covered
<1> QED BY <1>2 DEF SameResponsibility

(* The lists stay in order when one process changes.                       *)
LEMMA OrderStays ==
  ASSUME TypeOK, InDirectory, AllOrderly, NEW p \in Procs,
         Orderly(proc'[p]), proc'[p].todo # << >> => made', made => made',
         \A q \in Procs \ {p} :
           /\ proc'[q].cmd = proc[q].cmd /\ proc'[q].at = proc[q].at
           /\ proc'[q].todo = proc[q].todo
           /\ proc'[q].cut => proc[q].cut \/ proc[q].at = "writing"
  PROVE  InDirectory' /\ AllOrderly'
<1>1. \A q \in Procs : Orderly(proc'[q])
  BY DEF AllOrderly, Orderly
<1>2. \A q \in Procs : proc'[q].todo # << >> => made'
  BY DEF InDirectory
<1> QED BY <1>1, <1>2 DEF InDirectory, AllOrderly

-----------------------------------------------------------------------------
(* A command begins with a list that is in order.                          *)
LEMMA StartKeeps ==
  ASSUME IInv, NEW p \in Procs, NEW c \in Commands, NEW todo \in Seq(Ops), Starts(p, c, todo),
         IF c = "cleanup.sh" THEN InOrderOf(todo) ELSE TreesKept(todo),
         file' = file, sources' = sources, blamed' = blamed, faults' = faults,
         made' \in BOOLEAN, made => made', todo # << >> => made'
  PROVE  IInv'
<1> USE DEF IInv
<1> DEFINE alone == \A q \in Procs \ {p} : At(q, "idle")
           s == [Idle EXCEPT !.cmd = c, !.at = "doing", !.todo = todo, !.alone = alone]
<1>1. /\ s \in Runs /\ s.cmd = c /\ s.at = "doing" /\ s.todo = todo /\ s.cut = FALSE
  <2>1. << >> \in Seq(Ops) /\ alone \in BOOLEAN
    OBVIOUS
  <2> HIDE DEF alone
  <2> QED BY <2>1 DEF Idle, Runs
<1>2. /\ proc' = [q \in Procs |-> IF q = p THEN s ELSE [proc[q] EXCEPT !.alone = At(q, "idle")]]
      /\ proc[p].at = "idle" /\ proc \in [Procs -> Runs]
  BY DEF Starts, At, TypeOK
<1> HIDE DEF s, alone
<1>3. ASSUME NEW q \in Procs \ {p}
      PROVE  proc'[q] \in Runs /\ SameWork(q)
  <2>1. At(q, "idle") \in BOOLEAN /\ proc'[q] = [proc[q] EXCEPT !.alone = At(q, "idle")]
    BY <1>2 DEF At
  <2> HIDE DEF IInv
  <2> QED BY ZenonT(60), <1>2, <2>1 DEF Runs, SameWork
<1>4. proc'[p] = s /\ proc' \in [Procs -> Runs]
  BY <1>1, <1>2, <1>3
<1>5. TypeOK'
  <2>1. commands' \in 0..MaxCommands /\ advised' \in BOOLEAN
    <3>1. commands < MaxCommands /\ commands' = commands + 1 /\ advised' = FALSE
      BY DEF Starts
    <3>2. commands \in 0..MaxCommands /\ MaxCommands \in Nat
      BY StagingAssumption DEF TypeOK
    <3> HIDE DEF IInv
    <3>3. commands' \in 0..MaxCommands
      BY <3>1, <3>2
    <3> QED BY <3>1, <3>3
  <2>2. \A q \in Procs : proc'[q].at \in {"removing", "writing"} => proc'[q].todo # << >>
    BY <1>1, <1>3, <1>4 DEF SameWork, TypeOK
  <2> QED BY <1>4, <2>1, <2>2 DEF TypeOK
<1>6. InDirectory' /\ AllOrderly'
  <2>1. Orderly(proc'[p])
    BY <1>1, <1>4 DEF Orderly
  <2> QED BY <1>1, <1>3, <1>4, <2>1, OrderStays DEF SameWork
<1>7. Covered'
  <2>1. proc[p].todo = << >>
    BY <1>2 DEF AllOrderly, Orderly
  <2>2. HalfWritten(p) = {}
    BY <1>2, <2>1, HalvesAreListed DEF NamesOf
  <2>3. \A r \in Names : ~CutWriter(p, r)'
    BY <1>1, <1>4 DEF CutWriter
  <2> QED BY <1>3, <2>2, <2>3, CoveredStays DEF Responsible
<1> QED BY <1>5, <1>6, <1>7

(* Every command begins that way.                                          *)
LEMMA CommandKeeps ==
  ASSUME IInv, NEW p \in Procs, Command(p)
  PROVE  IInv'
<1>1. made \in BOOLEAN /\ sources \subseteq Libs
  BY DEF IInv, TypeOK
<1>2. /\ EnsureOps \in Seq(Ops) /\ SyncOps \in Seq(Ops) /\ SetupOps \in Seq(Ops)
      /\ CleanOps \in Seq(Ops) /\ CleanupOps \in Seq(Ops)
      /\ InOrderOf(CleanupOps) /\ << >> \in Seq(Ops)
      /\ TreesKept(EnsureOps) /\ TreesKept(SyncOps) /\ TreesKept(SetupOps)
      /\ TreesKept(CleanOps) /\ TreesKept(<< >>)
  BY <1>1, CommandLists
<1>3. CASE Ensure(p)
  <2> DEFINE todo == IF Ready THEN << >> ELSE EnsureOps
  <2>1. PICK c \in Ensures : Starts(p, c, todo)
    BY <1>3 DEF Ensure
  <2>2. c \in Commands /\ c # "cleanup.sh"
    BY DEF Commands, Ensures
  <2>3. todo \in Seq(Ops) /\ TreesKept(todo)
    BY <1>2
  <2>4. made' = (made \/ ~Ready)
    BY <1>3 DEF Ensure
  <2>5. made' \in BOOLEAN /\ (made => made')
    BY <2>4
  <2>6. todo # << >> => ~Ready
    OBVIOUS
  <2>7. todo # << >> => made'
    BY <2>4, <2>6
  <2>8. file' = file /\ sources' = sources /\ blamed' = blamed /\ faults' = faults
    BY <1>3 DEF Ensure
  <2> HIDE DEF todo
  <2> QED BY <2>1, <2>2, <2>3, <2>5, <2>7, <2>8, StartKeeps
<1>4. CASE SyncHeaders(p)
  BY <1>2, <1>4, StartKeeps DEF SyncHeaders, Commands
<1>5. CASE SetupCross(p)
  BY <1>2, <1>5, StartKeeps DEF SetupCross, Commands
<1>6. CASE Clean(p)
  BY <1>1, <1>2, <1>6, StartKeeps DEF Clean, Commands
<1>7. CASE Cleanup(p)
  BY <1>1, <1>2, <1>7, StartKeeps DEF Cleanup, Commands
<1> QED BY <1>3, <1>4, <1>5, <1>6, <1>7 DEF Command

-----------------------------------------------------------------------------
(* A step that touches no file: it is enough that the process answers for  *)
(* what it answered for, or that this is blamed.                           *)
LEMMA QuietKeeps ==
  ASSUME IInv, NEW p \in Procs, NEW s \in Runs, Becomes(p, s), Orderly(s),
         s.todo # << >> => proc[p].todo # << >>, s.at \notin {"removing", "writing"}, ~s.cut,
         file' = file, made' = made, sources' = sources, commands' = commands,
         blamed \subseteq blamed', blamed' \subseteq Names,
         advised' \in BOOLEAN, faults' \in 0..MaxFaults,
         \A r \in Names : Exposed(r) /\ Responsible(p, r) => r \in blamed' \/ Responsible(p, r)'
  PROVE  IInv'
<1> USE DEF IInv
<1>1. /\ proc' \in [Procs -> Runs] /\ proc'[p] = s
      /\ \A q \in Procs \ {p} : proc'[q] = proc[q]
  BY OneBecomes
<1>2. \A q \in Procs \ {p} : SameWork(q)
  BY <1>1 DEF SameWork
<1>3. TypeOK'
  BY <1>1 DEF TypeOK
<1>4. InDirectory' /\ AllOrderly'
  BY <1>1, OrderStays DEF InDirectory
<1>5. Covered'
  <2>1. \A r \in Names : ~CutWriter(p, r)'
    BY <1>1 DEF CutWriter
  <2> QED BY <1>2, <2>1, CoveredStays
<1> QED BY <1>3, <1>4, <1>5

(* The look passes over a resource, or makes a second look or a write of   *)
(* it.                                                                     *)
LEMMA LookKeeps ==
  ASSUME IInv, NEW p \in Procs, Look(p)
  PROVE  IInv'
<1> USE DEF IInv
<1>1. /\ proc[p].at = "doing" /\ proc[p].todo # << >> /\ Item(p).op \in {"ensure", "resync", "rm"}
      /\ file' = file /\ made' = made /\ sources' = sources /\ blamed' = blamed
      /\ advised' = advised /\ commands' = commands /\ faults' = faults
  BY DEF Look, Doing, At
<1>2. /\ blamed \subseteq Names /\ advised \in BOOLEAN /\ faults \in 0..MaxFaults
      /\ proc[p] \in Runs /\ proc[p].todo \in Seq(Ops) /\ Orderly(proc[p])
  BY DEF TypeOK, Runs, AllOrderly
<1>3. ~proc[p].cut
  BY <1>1, <1>2 DEF Orderly
<1>4. CASE /\ IF Item(p).op = "rm" THEN Missing(Item(p).name)
                                  ELSE Item(p).op = "ensure" /\ ~Missing(Item(p).name)
           /\ Becomes(p, Done(p))
  <2>1. /\ Done(p) \in Runs /\ Orderly(Done(p)) /\ Done(p).cmd = proc[p].cmd
        /\ Done(p).at = "doing" /\ ~Done(p).cut /\ Done(p).todo = Tail(proc[p].todo)
        /\ NamesOf(proc[p].todo) \subseteq NamesOf(Tail(proc[p].todo)) \cup {Item(p).name}
    BY <1>1, AfterDone
  <2>2. proc'[p] = Done(p)
    BY <1>4, <2>1, OneBecomes
  <2>3. ASSUME NEW r \in Names, Exposed(r), Responsible(p, r)
        PROVE  Responsible(p, r)'
    <3>1. proc[p].cmd = "cleanup.sh" /\ r \in NamesOf(proc[p].todo)
      BY <1>1, <2>3 DEF Responsible, HalfWritten, Doing, At
    <3>2. r \in NamesOf(Tail(proc[p].todo))
      <4>1. CASE r # Item(p).name
        BY <2>1, <3>1, <4>1
      <4>2. CASE r = Item(p).name
        <5>1. InOrderOf(proc[p].todo) /\ Item(p).op = "rm"
          <6>1. InOrderOf(proc[p].todo)
            BY <1>2, <3>1 DEF Orderly
          <6>2. 1 \in DOMAIN proc[p].todo /\ Item(p) = proc[p].todo[1]
            BY <1>1, <1>2 DEF Item
          <6> QED BY <1>1, <6>1, <6>2 DEF InOrderOf
        <5>2. r \in Trees
          BY <1>4, <2>3, <4>2, <5>1 DEF Exposed, Missing
        <5> QED BY <1>1, <1>2, <4>2, <5>1, <5>2, TailTodo DEF Item
      <4> QED BY <4>1, <4>2
    <3> QED BY <2>1, <2>2, <3>1, <3>2 DEF Responsible, HalfWritten, CutWriter, Writing, At
  <2> QED BY <1>1, <1>2, <1>4, <2>1, <2>3, QuietKeeps
<1>5. ASSUME Item(p).op # "rm", NEW op \in {"resync", "write"}, Becomes(p, Goes(p, op)) PROVE IInv'
  <2>1. /\ Goes(p, op) \in Runs /\ Orderly(Goes(p, op)) /\ proc[p].cmd # "cleanup.sh"
        /\ Goes(p, op).at = "doing"
    BY <1>1, <1>3, <1>5, AfterGoes
  <2>2. ~Goes(p, op).cut
    BY <2>1 DEF Orderly
  <2>3. \A r \in Names : ~Responsible(p, r)
    BY <1>1, <2>1 DEF Responsible, HalfWritten, Doing, At
  <2> QED BY <1>1, <1>2, <1>5, <2>1, <2>2, <2>3, QuietKeeps
<1>6. CASE Item(p).op # "rm" /\ \E op \in {"resync", "write"} : Becomes(p, Goes(p, op))
  BY <1>5, <1>6
<1> QED BY <1>4, <1>6 DEF Look

(* The state of a process that runs nothing.                               *)
LEMMA IdleRun == Idle \in Runs /\ Orderly(Idle) /\ Idle.todo = << >> /\ Idle.at = "idle" /\ ~Idle.cut
<1>1. << >> \in Seq(Ops) /\ TreesKept(<< >>)
  BY DEF TreesKept
<1> QED BY <1>1 DEF Idle, Runs, Orderly

(* After an error everything the process left half written is blamed.      *)
LEMMA BlamedKeeps ==
  ASSUME IInv, NEW p \in Procs, NEW s \in Runs, Becomes(p, s), Orderly(s),
         s.todo # << >> => proc[p].todo # << >>, s.at \notin {"removing", "writing"}, ~s.cut,
         blamed' = blamed \cup HalfWritten(p), faults' \in 0..MaxFaults,
         file' = file, made' = made, sources' = sources, advised' = advised, commands' = commands
  PROVE  IInv'
<1>1. blamed \subseteq Names /\ advised \in BOOLEAN /\ proc[p].todo \in Seq(Ops)
  BY DEF IInv, TypeOK, Runs
<1>2. NamesOf(proc[p].todo) \subseteq Names
  <2>1. ASSUME NEW i \in DOMAIN proc[p].todo PROVE proc[p].todo[i].name \in Names
    <3>1. proc[p].todo[i] \in Ops
      BY <1>1
    <3> QED BY <3>1 DEF Ops
  <2> QED BY <2>1 DEF NamesOf
<1>3. HalfWritten(p) \subseteq Names
  BY <1>2, HalvesAreListed DEF IInv
<1> QED BY <1>1, <1>3, QuietKeeps DEF Responsible

(* An error, a failure of the system or a kill.                            *)
LEMMA ErrorsKeep ==
  ASSUME IInv, NEW p \in Procs, CannotWrite(p) \/ Fails(p) \/ Killed(p)
  PROVE  IInv'
<1> USE DEF IInv
<1>1. faults \in 0..MaxFaults /\ MaxFaults \in Nat
  BY StagingAssumption DEF TypeOK
<1>2. /\ proc[p] \in Runs /\ proc[p].todo \in Seq(Ops) /\ Orderly(proc[p])
      /\ proc[p].at \in {"removing", "writing"} => proc[p].todo # << >>
  BY DEF TypeOK, Runs, AllOrderly
<1>3. ASSUME proc[p].todo # << >>
      PROVE  /\ AfterError(p) \in Runs /\ Orderly(AfterError(p))
             /\ AfterError(p).at \notin {"removing", "writing"} /\ ~AfterError(p).cut
  <2>1. Done(p) \in Runs /\ Orderly(Done(p)) /\ Done(p).at = "doing" /\ ~Done(p).cut
    BY <1>3, AfterDone
  <2> QED BY <2>1, IdleRun DEF AfterError
<1>4. CASE CannotWrite(p)
  <2>1. /\ proc[p].at = "doing" /\ proc[p].todo # << >>
    BY <1>4 DEF CannotWrite, Doing, At
  <2> DEFINE d == [proc[p] EXCEPT !.todo = << >>]
  <2>2. d \in Runs /\ Orderly(d) /\ d.at = "doing" /\ ~d.cut
    <3>1. << >> \in Seq(Ops) /\ TreesKept(<< >>) /\ InOrderOf(<< >>)
      BY DEF TreesKept, InOrderOf
    <3>2. d \in Runs /\ d.cmd = proc[p].cmd /\ d.at = "doing" /\ d.cut = proc[p].cut /\ d.todo = << >>
      BY <1>2, <2>1, <3>1 DEF Runs
    <3> HIDE DEF d
    <3> QED BY <1>2, <2>1, <3>1, <3>2 DEF Orderly
  <2> DEFINE s == IF Item(p).name \in Libs /\ Missing("irix_cc") /\ proc[p].cmd \in Ensures
                  THEN d ELSE AfterError(p)
  <2>3. Becomes(p, s)
    BY <1>4 DEF CannotWrite
  <2>4. s \in Runs /\ Orderly(s) /\ s.at \notin {"removing", "writing"} /\ ~s.cut
    BY <1>3, <2>1, <2>2
  <2>5. /\ blamed' = blamed \cup HalfWritten(p) /\ faults' = faults
        /\ file' = file /\ made' = made /\ sources' = sources
        /\ advised' = advised /\ commands' = commands
    BY <1>4 DEF CannotWrite
  <2> HIDE DEF s
  <2> QED BY <1>1, <2>1, <2>3, <2>4, <2>5, BlamedKeeps
<1>5. ASSUME faults < MaxFaults, faults' = faults + 1
      PROVE  faults' \in 0..MaxFaults
  <2> HIDE DEF IInv
  <2> QED BY <1>1, <1>5
<1>6. CASE Fails(p)
  <2>1. faults' \in 0..MaxFaults
    BY <1>5, <1>6 DEF Fails
  <2>2. proc[p].todo # << >>
    BY <1>2, <1>6 DEF Fails, Doing, At
  <2> DEFINE s == [AfterError(p) EXCEPT !.failed = AfterError(p).at # "idle"]
  <2>3. Becomes(p, s)
    BY <1>6 DEF Fails
  <2>4. /\ s \in Runs /\ s.cmd = AfterError(p).cmd /\ s.at = AfterError(p).at
        /\ s.todo = AfterError(p).todo /\ s.cut = AfterError(p).cut
    BY <1>3, <2>2 DEF Runs
  <2> HIDE DEF s
  <2>5. Orderly(s) /\ s.at \notin {"removing", "writing"} /\ ~s.cut
    BY <1>3, <2>2, <2>4 DEF Orderly
  <2>6. /\ blamed' = blamed \cup HalfWritten(p)
        /\ file' = file /\ made' = made /\ sources' = sources
        /\ advised' = advised /\ commands' = commands
    BY <1>6 DEF Fails
  <2> QED BY <2>1, <2>2, <2>3, <2>4, <2>5, <2>6, BlamedKeeps
<1>7. CASE Killed(p)
  <2>1. faults' \in 0..MaxFaults
    BY <1>5, <1>7 DEF Killed
  <2> QED BY <1>7, <2>1, IdleRun, BlamedKeeps DEF Killed
<1> QED BY <1>4, <1>6, <1>7

(* The ends of a command: nothing is left on its list.                     *)
LEMMA EndsKeep ==
  ASSUME IInv, NEW p \in Procs, Recheck(p) \/ Validate(p) \/ Ends(p)
  PROVE  IInv'
<1> USE DEF IInv
<1>1. /\ proc[p] \in Runs /\ Orderly(proc[p]) /\ proc[p].todo \in Seq(Ops)
      /\ blamed \subseteq Names /\ advised \in BOOLEAN /\ faults \in 0..MaxFaults
  BY DEF TypeOK, AllOrderly, Runs
<1>2. proc[p].todo = << >>
  BY <1>1 DEF Recheck, Validate, Ends, Finished, At, Orderly
<1>3. \A r \in Names : ~Responsible(p, r)
  BY <1>2, HalvesAreListed DEF Responsible, NamesOf
<1>4. /\ file' = file /\ made' = made /\ sources' = sources /\ commands' = commands
      /\ blamed' = blamed /\ faults' = faults /\ advised' \in BOOLEAN
  <2>1. (advised \/ ~Ready) \in BOOLEAN /\ \A ok : (advised \/ ~ok) \in BOOLEAN
    OBVIOUS
  <2>2. CASE Recheck(p)
    BY <2>1, <2>2 DEF Recheck
  <2>3. CASE Validate(p)
    BY <2>1, <2>3 DEF Validate
  <2>4. CASE Ends(p)
    BY <1>1, <2>4 DEF Ends
  <2> QED BY <2>2, <2>3, <2>4
<1>5. ASSUME NEW place \in {"validate", "building", "refused"}, Becomes(p, [proc[p] EXCEPT !.at = place]),
             proc[p].at # "writing"
      PROVE  IInv'
  <2> DEFINE s == [proc[p] EXCEPT !.at = place]
  <2>1. /\ s \in Runs /\ s.cmd = proc[p].cmd /\ s.at = place /\ s.cut = proc[p].cut
        /\ s.todo = proc[p].todo
    BY <1>1 DEF Runs
  <2>2. Becomes(p, s)
    BY <1>5
  <2> HIDE DEF s
  <2>3. Orderly(s) /\ ~s.cut
    BY <1>1, <1>2, <1>5, <2>1 DEF Orderly
  <2> QED BY <1>1, <1>2, <1>3, <1>4, <2>1, <2>2, <2>3, QuietKeeps
<1>6. CASE Recheck(p)
  <2>1. \E place \in {"validate", "building", "refused"} : Becomes(p, [proc[p] EXCEPT !.at = place])
    BY <1>6 DEF Recheck
  <2>2. proc[p].at # "writing"
    BY <1>6 DEF Recheck, Finished, At
  <2> QED BY <1>5, <2>1, <2>2
<1>7. CASE Validate(p)
  <2>1. \E place \in {"validate", "building", "refused"} : Becomes(p, [proc[p] EXCEPT !.at = place])
    BY <1>7 DEF Validate
  <2>2. proc[p].at # "writing"
    BY <1>7 DEF Validate, At
  <2> QED BY <1>5, <2>1, <2>2
<1>8. CASE Ends(p)
  BY <1>1, <1>3, <1>4, <1>8, IdleRun, QuietKeeps DEF Ends
<1> QED BY <1>6, <1>7, <1>8

-----------------------------------------------------------------------------
(* What a removal leaves of a process that goes on with its list: what it  *)
(* answered for before, apart from the resource it removed.                *)
LEMMA RestAnsweredFor ==
  ASSUME IInv, NEW p \in Procs, proc[p].todo # << >>, proc[p].at \in {"doing", "removing", "writing"},
         proc[p].at = "doing" => Item(p).op # "write",
         proc'[p].cmd = proc[p].cmd, proc'[p].todo = Tail(proc[p].todo), proc'[p].at = "doing",
         NEW r \in Names \ {Item(p).name}, Responsible(p, r)
  PROVE  Responsible(p, r)'
<1>1. proc[p].cmd = "cleanup.sh" /\ r \in NamesOf(proc[p].todo)
  BY DEF Responsible, HalfWritten, Doing, At
<1>2. r \in NamesOf(Tail(proc[p].todo))
  BY <1>1, AfterDone DEF IInv
<1> QED BY <1>1, <1>2 DEF Responsible, HalfWritten, CutWriter, Writing, At

(* A tree that cleanup.sh removes is written later.                        *)
LEMMA RemovedTreeListed ==
  ASSUME IInv, NEW p \in Procs, proc[p].todo # << >>, Item(p).op = "rm", Item(p).name \in Trees
  PROVE  proc[p].cmd = "cleanup.sh" /\ Item(p).name \in NamesOf(Tail(proc[p].todo))
<1>1. Orderly(proc[p]) /\ proc[p].todo \in Seq(Ops)
  BY DEF IInv, AllOrderly, TypeOK, Runs
<1>2. 1 \in DOMAIN proc[p].todo /\ Item(p) = proc[p].todo[1]
  BY <1>1 DEF Item
<1>3. proc[p].cmd = "cleanup.sh" /\ InOrderOf(proc[p].todo)
  BY <1>1, <1>2 DEF Orderly, TreesKept
<1> QED BY <1>1, <1>3, TailTodo DEF Item

(* rmtree() and unlink(), their start and their end.                       *)
LEMMA RemovalKeeps ==
  ASSUME IInv, NEW p \in Procs, Unlink(p) \/ Removed(p)
  PROVE  IInv'
<1> USE DEF IInv
<1>0. PICK x : x = Item(p).name
  OBVIOUS
<1>1. /\ proc[p] \in Runs /\ proc[p].todo \in Seq(Ops) /\ Orderly(proc[p])
      /\ proc[p].at \in {"removing", "writing"} => proc[p].todo # << >>
      /\ file \in [Names -> {"none", "part", "whole"}]
  BY DEF TypeOK, Runs, AllOrderly
<1>2. /\ proc[p].at \in {"doing", "removing"} /\ proc[p].todo # << >>
      /\ Item(p).op \in {"rm", "resync"}
  BY <1>1 DEF Unlink, Removed, Doing, At, Orderly, Item
<1>3. /\ x \in Names /\ made /\ ~proc[p].cut
      /\ x \in NamesOf(proc[p].todo)
  <2>1. Item(p) \in Ops /\ Item(p).name \in NamesOf(proc[p].todo)
    BY <1>2, AfterDone
  <2> QED BY <1>0, <1>1, <1>2, <2>1 DEF Ops, InDirectory, Orderly
<1>4. /\ made' = made /\ sources' = sources /\ blamed' = blamed /\ advised' = advised
      /\ commands' = commands /\ faults' = faults
  BY DEF Unlink, Removed
<1>5. ASSUME NEW s \in Runs, NEW v \in {"none", "part"},
             Removing(p, x, s), file' = [file EXCEPT ![x] = v],
             Orderly(s), s.at \in {"removing", "writing"} => s.todo # << >>,
             ~s.cut,
             \A r \in Names \ {x} : Responsible(p, r) => Responsible(p, r)',
             v = "part" \/ x \in Trees => Responsible(p, x)'
      PROVE  IInv'
  <2>1. /\ proc' \in [Procs -> Runs] /\ proc'[p] = s
        /\ \A q \in Procs \ {p} :
              /\ proc'[q].cmd = proc[q].cmd /\ proc'[q].at = proc[q].at
              /\ proc'[q].todo = proc[q].todo
              /\ proc'[q].cut = (proc[q].cut \/ Writing(q, x))
    BY <1>5, OneRemoves
  <2>2. TypeOK'
    BY <1>1, <1>3, <1>4, <1>5, <2>1 DEF TypeOK
  <2>3. InDirectory' /\ AllOrderly'
    BY <1>3, <1>4, <1>5, <2>1, OrderStays DEF Writing, At
  <2>4. Covered'
    <3> HIDE DEF IInv
    <3>5. /\ v = "part" \/ x \in Trees => Responsible(p, x)'
          /\ \A r \in Names \ {x} : Responsible(p, r) => Responsible(p, r)'
      BY <1>5
    <3>1. /\ \A r \in Names \ {x} : file'[r] = file[r]
          /\ file'[x] = v
      BY <1>1, <1>3, <1>5
    <3>2. \A q \in Procs \ {p} : \A r \in Names \ {x} : SameResponsibility(q, r)
      BY <2>1, BystanderOfRemoval
    <3>3. \A r \in Names : ~CutWriter(p, r)'
      BY <1>5, <2>1 DEF CutWriter
    <3>4. Exposed(x)' => Responsible(p, x)'
      BY <3>1, <3>5 DEF Exposed
    <3>6. Covered
      BY DEF IInv
    <3>7. blamed \ {x} \subseteq blamed'
      BY <1>4
    <3> QED BY <1>3, <3>1, <3>2, <3>3, <3>4, <3>5, <3>6, <3>7, CoveredButOne
  <2> QED BY <2>2, <2>3, <2>4
<1>6. /\ Done(p) \in Runs /\ Orderly(Done(p)) /\ Done(p).cmd = proc[p].cmd
      /\ Done(p).at = "doing" /\ ~Done(p).cut /\ Done(p).todo = Tail(proc[p].todo)
  BY <1>2, AfterDone
<1>7. ASSUME Removing(p, x, Done(p))
      PROVE  /\ \A r \in Names \ {x} : Responsible(p, r) => Responsible(p, r)'
             /\ x \in Trees /\ Item(p).op = "rm" => Responsible(p, x)'
  <2>1. proc'[p] = Done(p)
    BY <1>6, <1>7, OneRemoves
  <2>2. ASSUME NEW r \in Names \ {x}, Responsible(p, r) PROVE Responsible(p, r)'
    BY <1>0, <1>2, <1>6, <2>1, <2>2, RestAnsweredFor
  <2>3. ASSUME x \in Trees, Item(p).op = "rm" PROVE Responsible(p, x)'
    <3>1. proc[p].cmd = "cleanup.sh" /\ x \in NamesOf(Tail(proc[p].todo))
      BY <1>0, <1>2, <2>3, RemovedTreeListed
    <3> HIDE DEF IInv
    <3> QED BY <1>6, <2>1, <3>1 DEF Responsible, HalfWritten, CutWriter, Writing, At
  <2> QED BY <2>2, <2>3
<1>8. CASE Unlink(p) /\ x \in Trees
  <2> DEFINE s == [proc[p] EXCEPT !.at = "removing"]
  <2>1. Removing(p, x, s) /\ file' = [file EXCEPT ![x] = "part"] /\ proc[p].at = "doing"
    BY <1>0, <1>8 DEF Unlink, Doing, At
  <2>2. /\ s \in Runs /\ s.cmd = proc[p].cmd /\ s.at = "removing" /\ s.cut = proc[p].cut
        /\ s.todo = proc[p].todo
    BY <1>1 DEF Runs
  <2> HIDE DEF s
  <2>3. Orderly(s)
    BY <1>1, <1>2, <1>3, <2>1, <2>2 DEF Orderly, Item
  <2>4. proc'[p] = s
    BY <2>1, <2>2, OneRemoves
  <2>5. \A r \in Names \ {x} : Responsible(p, r) => Responsible(p, r)'
    BY <1>2, <2>1, <2>2, <2>4 DEF Responsible, HalfWritten, CutWriter, Writing, Doing, At
  <2>6. Responsible(p, x)'
    BY <1>0, <1>3, <2>2, <2>4 DEF Responsible, HalfWritten, CutWriter, Writing, At, Item
  <2> QED BY <1>2, <1>3, <1>5, <2>1, <2>2, <2>3, <2>5, <2>6
<1>9. CASE Unlink(p) /\ x \notin Trees
  <2>1. Removing(p, x, Done(p)) /\ file' = [file EXCEPT ![x] = "none"]
    BY <1>0, <1>9 DEF Unlink
  <2> QED BY <1>5, <1>6, <1>7, <1>9, <2>1
<1>10. CASE Removed(p) /\ Item(p).op = "rm"
  <2>1. Removing(p, x, Done(p)) /\ file' = [file EXCEPT ![x] = "none"]
    BY <1>0, <1>10 DEF Removed
  <2> QED BY <1>5, <1>6, <1>7, <1>10, <2>1
<1>11. CASE Removed(p) /\ Item(p).op # "rm"
  <2>1. Removing(p, x, Goes(p, "write")) /\ file' = [file EXCEPT ![x] = "none"] /\ proc[p].at = "removing"
    BY <1>0, <1>11 DEF Removed, At
  <2>2. /\ Goes(p, "write") \in Runs /\ Orderly(Goes(p, "write")) /\ Goes(p, "write").cmd = proc[p].cmd
        /\ proc[p].cmd # "cleanup.sh" /\ Goes(p, "write").at = "doing" /\ Goes(p, "write").todo # << >>
        /\ Head(Goes(p, "write").todo).op = "write" /\ Head(Goes(p, "write").todo).name = x
    BY <1>0, <1>2, <1>3, <1>11, AfterGoes
  <2>3. proc'[p] = Goes(p, "write") /\ ~Goes(p, "write").cut
    BY <2>1, <2>2, OneRemoves DEF Orderly
  <2>4. \A r \in Names \ {x} : ~Responsible(p, r)
    BY <1>0, <2>1, <2>2 DEF Responsible, HalfWritten, At, Doing, Item
  <2>5. Responsible(p, x)'
    <3> HIDE DEF IInv
    <3>1. /\ proc'[p].cmd # "cleanup.sh" /\ proc'[p].at = "doing" /\ proc'[p].todo # << >>
          /\ Head(proc'[p].todo).op = "write" /\ Head(proc'[p].todo).name = x
      BY <2>2, <2>3
    <3> QED BY <3>1 DEF Responsible, HalfWritten, CutWriter, Writing, Doing, At, Item
  <2> QED BY <1>5, <2>1, <2>2, <2>3, <2>4, <2>5
<1> QED BY <1>8, <1>9, <1>10, <1>11

(* A write begins: the process answers for what it writes.                 *)
LEMMA WriteKeeps ==
  ASSUME IInv, NEW p \in Procs, Write(p)
  PROVE  IInv'
<1>0. PICK x : x = Item(p).name
  OBVIOUS
<1>1. /\ proc[p] \in Runs /\ proc[p].todo \in Seq(Ops) /\ Orderly(proc[p])
      /\ file \in [Names -> {"none", "part", "whole"}]
  BY DEF IInv, TypeOK, Runs, AllOrderly
<1> DEFINE s == [proc[p] EXCEPT !.at = "writing"]
<1>2. /\ proc[p].at = "doing" /\ proc[p].todo # << >> /\ Item(p).op \in {"write", "over"}
      /\ file' = [file EXCEPT ![x] = "part"] /\ Becomes(p, s)
      /\ made' = made /\ sources' = sources /\ blamed' = blamed /\ advised' = advised
      /\ commands' = commands /\ faults' = faults
  BY <1>0 DEF Write, Doing, At
<1>3. x \in Names /\ made /\ ~proc[p].cut /\ x \in NamesOf(proc[p].todo)
  <2>1. Item(p) \in Ops /\ Item(p).name \in NamesOf(proc[p].todo)
    BY <1>2, AfterDone DEF IInv
  <2> QED BY <1>0, <1>1, <1>2, <2>1 DEF Ops, InDirectory, Orderly, IInv
<1>4. /\ s \in Runs /\ s.cmd = proc[p].cmd /\ s.at = "writing" /\ s.cut = proc[p].cut
      /\ s.todo = proc[p].todo
  BY <1>1 DEF Runs
<1> HIDE DEF s
<1>5. /\ proc' \in [Procs -> Runs] /\ proc'[p] = s
      /\ \A q \in Procs \ {p} : proc'[q] = proc[q]
  BY <1>2, <1>4, OneBecomes DEF IInv
<1>6. TypeOK'
  BY <1>1, <1>2, <1>3, <1>4, <1>5 DEF TypeOK, IInv
<1>7. InDirectory' /\ AllOrderly'
  <2>1. Orderly(s)
    BY <1>1, <1>2, <1>3, <1>4 DEF Orderly
  <2> QED BY <1>2, <1>3, <1>5, <2>1, OrderStays DEF IInv
<1>8. Covered'
  <2>1. \A q \in Procs \ {p} : \A r \in Names \ {x} : SameResponsibility(q, r)
    BY <1>5, Bystander DEF SameWork
  <2>2. \A r \in Names : ~CutWriter(p, r)'
    BY <1>3, <1>4, <1>5 DEF CutWriter
  <2>3. ASSUME NEW r \in Names \ {x}, Responsible(p, r) PROVE Responsible(p, r)'
    <3>1. proc[p].cmd = "cleanup.sh" /\ r \in NamesOf(proc[p].todo)
      BY <1>0, <1>2, <2>3 DEF Responsible, HalfWritten, Doing, At
    <3> QED BY <1>4, <1>5, <2>2, <3>1 DEF Responsible, HalfWritten
  <2>4. Responsible(p, x)'
    <3>1. Item(p)' = Item(p)
      BY <1>4, <1>5 DEF Item
    <3>2. HalfWritten(p)' = IF proc[p].cmd = "cleanup.sh" THEN NamesOf(proc[p].todo) ELSE {Item(p).name}
      BY <1>4, <1>5, <3>1 DEF HalfWritten, At
    <3> QED BY <1>0, <1>3, <2>2, <3>2 DEF Responsible
  <2>5. \A r \in Names \ {x} : file'[r] = file[r]
    BY <1>1, <1>2
  <2>6. Covered /\ blamed \ {x} \subseteq blamed'
    BY <1>2 DEF IInv
  <2> QED BY <1>3, <2>1, <2>2, <2>3, <2>4, <2>5, <2>6, CoveredButOne
<1> QED BY <1>6, <1>7, <1>8 DEF IInv

(* A write ends: whole, still written by another, or removed under p.      *)
LEMMA WrittenKeeps ==
  ASSUME IInv, NEW p \in Procs, Written(p)
  PROVE  IInv'
<1>0. PICK x : x = Item(p).name
  OBVIOUS
<1>1. /\ proc[p] \in Runs /\ proc[p].todo \in Seq(Ops) /\ Orderly(proc[p])
      /\ proc[p].at = "writing" /\ proc[p].todo # << >>
      /\ file \in [Names -> {"none", "part", "whole"}] /\ blamed \subseteq Names
  BY DEF IInv, TypeOK, Runs, AllOrderly, Written, At
<1>2. /\ Becomes(p, Done(p)) /\ made' = made /\ sources' = sources /\ advised' = advised
      /\ commands' = commands /\ faults' = faults
  BY DEF Written
<1>3. x \in Names /\ made
  <2>1. Item(p) \in Ops
    BY <1>1, AfterDone DEF IInv
  <2> QED BY <1>0, <1>1, <2>1 DEF Ops, InDirectory, IInv
<1>4. /\ Done(p) \in Runs /\ Orderly(Done(p)) /\ Done(p).cmd = proc[p].cmd
      /\ Done(p).at = "doing" /\ ~Done(p).cut /\ Done(p).todo = Tail(proc[p].todo)
  BY <1>1, AfterDone DEF IInv
<1>5. /\ proc' \in [Procs -> Runs] /\ proc'[p] = Done(p)
      /\ \A q \in Procs \ {p} : proc'[q] = proc[q]
  BY <1>2, <1>4, OneBecomes DEF IInv
<1>6. InDirectory' /\ AllOrderly'
  BY <1>2, <1>3, <1>4, <1>5, OrderStays DEF IInv
<1> DEFINE busy == \E q \in Procs \ {p} : Writing(q, x) /\ ~proc[q].cut
<1>7. IF proc[p].cut
        THEN /\ file' = file \/ (x \in Trees /\ file[x] = "none" /\ file' = [file EXCEPT ![x] = "part"])
             /\ blamed' = blamed
        ELSE /\ file' = [file EXCEPT ![x] = IF busy THEN "part" ELSE "whole"]
             /\ blamed' = IF busy THEN blamed ELSE blamed \ {x}
  BY <1>0 DEF Written, Missing
<1> HIDE DEF busy
<1>8. /\ file' \in [Names -> {"none", "part", "whole"}] /\ blamed' \subseteq Names
      /\ \A r \in Names \ {x} : file'[r] = file[r]
      /\ blamed \ {x} \subseteq blamed'
  <2>1. file' = file \/ \E v \in {"none", "part", "whole"} : file' = [file EXCEPT ![x] = v]
    BY <1>7
  <2>2. blamed' = blamed \/ blamed' = blamed \ {x}
    BY <1>7
  <2> QED BY <1>1, <1>3, <2>1, <2>2
<1>9. TypeOK'
  BY <1>2, <1>3, <1>4, <1>5, <1>8 DEF TypeOK, IInv
<1>10. Covered'
  <2>1. \A q \in Procs \ {p} : \A r \in Names : SameResponsibility(q, r)
    BY <1>5, Bystander DEF SameWork
  <2>2. \A r \in Names : ~CutWriter(p, r)'
    BY <1>4, <1>5 DEF CutWriter
  <2>3. \A r \in Names \ {x} : Responsible(p, r) => Responsible(p, r)'
    BY <1>0, <1>1, <1>4, <1>5, RestAnsweredFor
  <2>4. Exposed(x)' => x \in blamed' \/ \E q \in Procs : Responsible(q, x)'
    <3>1. CASE proc[p].cut
      <4>1. CutWriter(p, x)
        BY <1>0, <1>1, <3>1 DEF CutWriter, Writing, At
      <4>2. Exposed(x)' => Exposed(x)
        <5>1. CASE file' = file
          BY <1>3, <2>1, <2>2, <5>1 DEF Exposed, SameResponsibility
        <5>2. CASE x \in Trees /\ file[x] = "none"
          BY <4>1, <5>2 DEF Exposed
        <5> QED BY <1>7, <3>1, <5>1, <5>2
      <4>3. Exposed(x) => x \in blamed \/ \E q \in Procs : Responsible(q, x)
        BY <1>3 DEF Covered, IInv
      <4>4. ~Responsible(p, x)
        BY <4>1 DEF Responsible
      <4> QED BY <1>3, <1>7, <2>1, <3>1, <4>2, <4>3, <4>4 DEF SameResponsibility
    <3>2. CASE ~proc[p].cut /\ busy
      <4>1. PICK q \in Procs \ {p} : Writing(q, x) /\ ~proc[q].cut
        BY <3>2 DEF busy
      <4>2. proc[q].todo \in Seq(Ops) /\ proc[q].at = "writing" /\ proc[q].todo # << >>
        BY <4>1 DEF Writing, At, IInv, TypeOK, Runs
      <4>3. Item(q).name = x /\ Item(q).name \in NamesOf(proc[q].todo)
        BY <4>1, <4>2, TailTodo DEF Writing, Item
      <4>4. Responsible(q, x)
        BY <4>1, <4>2, <4>3 DEF Responsible, HalfWritten, CutWriter, At
      <4> QED BY <1>3, <2>1, <4>4 DEF SameResponsibility
    <3>3. CASE ~proc[p].cut /\ ~busy
      <4>1. file'[x] = "whole"
        BY <1>1, <1>3, <1>7, <3>3
      <4> QED BY <4>1 DEF Exposed
    <3> QED BY <3>1, <3>2, <3>3
  <2>5. Covered
    BY DEF IInv
  <2> QED BY <1>3, <1>8, <2>1, <2>2, <2>3, <2>4, <2>5, CoveredButOne
<1> QED BY <1>6, <1>9, <1>10 DEF IInv

-----------------------------------------------------------------------------
(* The directory is as a fresh machine, a machine with the soft float      *)
(* library or a set-up one has it, and no command runs.                    *)
LEMMA InitHolds == Init => IInv
<1> SUFFICES ASSUME Init PROVE IInv
  OBVIOUS
<1>1. /\ proc \in [Procs -> Runs] /\ \A p \in Procs : proc[p] = Idle
  BY IdleRun DEF Init
<1>2. PICK there \in {{}, {"soft_float"}, Names} :
        /\ made = (there # {})
        /\ file = [r \in Names |-> IF r \in there THEN "whole" ELSE "none"]
  BY DEF Init
<1>3. /\ file \in [Names -> {"none", "part", "whole"}] /\ made \in BOOLEAN
      /\ (\E r \in Names : file[r] # "none") => made
  <2>1. made \in BOOLEAN
    BY <1>2
  <2> QED BY <1>2, <2>1
<1>4. /\ sources \subseteq Libs /\ blamed \subseteq Names /\ advised \in BOOLEAN
      /\ commands \in 0..MaxCommands /\ faults \in 0..MaxFaults
  <2>1. commands = 0 /\ faults = 0 /\ MaxCommands \in Nat /\ MaxFaults \in Nat
    BY StagingAssumption DEF Init
  <2>2. commands \in 0..MaxCommands /\ faults \in 0..MaxFaults
    BY <2>1
  <2> QED BY <2>2 DEF Init
<1>5. TypeOK
  BY <1>1, <1>3, <1>4, IdleRun DEF TypeOK
<1>6. InDirectory /\ AllOrderly
  BY <1>1, IdleRun DEF InDirectory, AllOrderly
<1>7. Covered
  <2>1. \A p \in Procs : \A r \in Names : ~CutWriter(p, r)
    BY <1>1, IdleRun DEF CutWriter
  <2>2. \A r \in Names : file[r] # "part"
    BY <1>2
  <2> QED BY <2>1, <2>2 DEF Covered, Exposed
<1> QED BY <1>5, <1>6, <1>7 DEF IInv

(* Every step of every command keeps the invariant.                        *)
THEOREM StagingInductive == IInv /\ [Next]_vars => IInv'
<1> SUFFICES ASSUME IInv, [Next]_vars PROVE IInv'
  OBVIOUS
<1>1. ASSUME NEW p \in Procs, Command(p) PROVE IInv'
  BY <1>1, CommandKeeps
<1>2. ASSUME NEW p \in Procs, Step(p) PROVE IInv'
  BY <1>2, LookKeeps, RemovalKeeps, WriteKeeps, WrittenKeeps, ErrorsKeep, EndsKeep DEF Step
<1>3. ASSUME NEW p \in Procs, Fails(p) \/ Killed(p) PROVE IInv'
  BY <1>3, ErrorsKeep
<1>4. ASSUME NEW p \in Procs, Ends(p) PROVE IInv'
  BY <1>4, EndsKeep
<1>5. CASE UNCHANGED vars
  <2>1. TypeOK'
    BY <1>5 DEF vars, TypeOK, IInv
  <2>2. InDirectory' /\ AllOrderly'
    BY <1>5 DEF vars, InDirectory, AllOrderly, IInv
  <2>3. \A p \in Procs : \A r \in Names : SameResponsibility(p, r)
    BY <1>5, Bystander DEF vars, SameWork
  <2>4. Covered'
    BY <1>5, <2>3 DEF vars, Covered, Exposed, SameResponsibility, IInv
  <2> QED BY <2>1, <2>2, <2>4 DEF IInv
<1> QED BY <1>1, <1>2, <1>3, <1>4, <1>5 DEF Next

(* It holds in every state the commands reach.                             *)
LEMMA Invariant == Spec => []IInv
BY InitHolds, StagingInductive, PTL DEF Spec

(* The state of the directory and of the commands has its type, whatever   *)
(* the number of processes, commands and faults.                           *)
THEOREM StagingTypeCorrect == Spec => []TypeOK
BY Invariant, PTL DEF IInv

(* No course of the commands, however many run beside each other, leaves   *)
(* half a resource that nobody writes, will write or has reported.         *)
THEOREM Accounted == Spec => []HalvesAreAccountedFor
<1>1. IInv => HalvesAreAccountedFor
  BY HalvesAreListed DEF IInv, Covered, Exposed, Responsible, HalvesAreAccountedFor
<1> QED BY <1>1, Invariant, PTL
-----------------------------------------------------------------------------
(* A command that is still alone has the directory to itself, and what it  *)
(* has looked at is there.                                                 *)
Solo ==
  \A p \in Procs : proc[p].at # "idle" /\ proc[p].alone =>
    \A q \in Procs \ {p} : proc[q].at = "idle"

Looked ==
  \A p \in Procs : proc[p].at \in {"validate", "building"} /\ proc[p].alone =>
    /\ proc[p].cmd \in {"build", "batch-build"} /\ Ready
    /\ proc[p].at = "building" /\ proc[p].cmd = "build" => \A w \in Wrappers : ~Missing(w)

(* A step of p is one of a command that runs, and only the two looks lead  *)
(* to a build.                                                             *)
LEMMA StepShape ==
  ASSUME IInv, NEW p \in Procs, Step(p) \/ Fails(p) \/ Killed(p) \/ Ends(p)
  PROVE  /\ proc[p].at # "idle"
         /\ \A q \in Procs \ {p} :
              proc'[q].at = proc[q].at /\ proc'[q].alone = proc[q].alone /\ proc'[q].cmd = proc[q].cmd
         /\ proc'[p].at = "idle" \/ (proc'[p].alone = proc[p].alone /\ proc'[p].cmd = proc[p].cmd)
         /\ proc'[p].at \in {"validate", "building"} => Recheck(p) \/ Validate(p)
<1> DEFINE Others ==
             \A q \in Procs \ {p} :
               proc'[q].at = proc[q].at /\ proc'[q].alone = proc[q].alone /\ proc'[q].cmd = proc[q].cmd
           Mine == proc'[p].at = "idle" \/ (proc'[p].alone = proc[p].alone /\ proc'[p].cmd = proc[p].cmd)
           Busy == proc'[p].at \notin {"validate", "building"}
<1>1. proc \in [Procs -> Runs] /\ proc[p] \in Runs
  BY DEF IInv, TypeOK
<1>2. ASSUME NEW s \in Runs, Becomes(p, s), s.at = "idle" \/ (s.alone = proc[p].alone /\ s.cmd = proc[p].cmd)
      PROVE  Others /\ Mine /\ proc'[p].at = s.at
  BY <1>1, <1>2 DEF Becomes
<1>3. ASSUME NEW s \in Runs, NEW r, Removing(p, r, s), s.alone = proc[p].alone, s.cmd = proc[p].cmd
      PROVE  Others /\ Mine /\ proc'[p].at = s.at
  <2>1. proc'[p] = s
    BY <1>1, <1>3 DEF Removing
  <2>2. ASSUME NEW q \in Procs \ {p}
        PROVE  proc'[q].at = proc[q].at /\ proc'[q].alone = proc[q].alone /\ proc'[q].cmd = proc[q].cmd
    <3>1. proc'[q] = [proc[q] EXCEPT !.cut = @ \/ Writing(q, r)] /\ proc[q] \in Runs
      BY <1>1, <1>3 DEF Removing
    <3> QED BY <3>1 DEF Runs
  <2> QED BY <1>3, <2>1, <2>2
<1>4. ASSUME proc[p].todo # << >>
      PROVE  /\ Done(p) \in Runs /\ Done(p).at = "doing"
             /\ Done(p).alone = proc[p].alone /\ Done(p).cmd = proc[p].cmd
  <2>1. Done(p) \in Runs /\ Done(p).at = "doing" /\ Done(p).cmd = proc[p].cmd
    BY <1>4, AfterDone DEF IInv
  <2>2. Done(p).alone = proc[p].alone
    BY <1>1 DEF Done, Runs
  <2> QED BY <2>1, <2>2
<1>5. ASSUME proc[p].todo # << >>, ~proc[p].cut, Item(p).op \in {"ensure", "resync"},
             NEW op \in {"resync", "write"}
      PROVE  /\ Goes(p, op) \in Runs /\ Goes(p, op).at = "doing"
             /\ Goes(p, op).alone = proc[p].alone /\ Goes(p, op).cmd = proc[p].cmd
  <2>1. Goes(p, op) \in Runs /\ Goes(p, op).at = "doing" /\ Goes(p, op).cmd = proc[p].cmd
    BY <1>5, AfterGoes DEF IInv
  <2>2. Goes(p, op).alone = proc[p].alone
    BY <1>1 DEF Goes, Runs
  <2> QED BY <2>1, <2>2
<1>6. /\ Orderly(proc[p])
      /\ proc[p].at \in {"removing", "writing"} => proc[p].todo # << >>
      /\ Idle \in Runs /\ Idle.at = "idle"
  BY IdleRun DEF IInv, AllOrderly, TypeOK
<1>7. ASSUME proc[p].todo # << >>
      PROVE  /\ AfterError(p) \in Runs /\ AfterError(p).at \in {"idle", "doing"}
             /\ \/ AfterError(p).at = "idle"
                \/ AfterError(p).alone = proc[p].alone /\ AfterError(p).cmd = proc[p].cmd
  BY <1>4, <1>6, <1>7 DEF AfterError
<1>8. ASSUME NEW place \in {"writing", "removing", "validate", "building", "refused"}
      PROVE  LET s == [proc[p] EXCEPT !.at = place] IN
             s \in Runs /\ s.at = place /\ s.alone = proc[p].alone /\ s.cmd = proc[p].cmd
  BY <1>1 DEF Runs
<1>9. CASE Look(p)
  <2>1. proc[p].at = "doing" /\ proc[p].todo # << >> /\ ~proc[p].cut
    BY <1>6, <1>9 DEF Look, Doing, At, Orderly
  <2>2. \/ Becomes(p, Done(p))
        \/ Item(p).op \in {"ensure", "resync"} /\ \E op \in {"resync", "write"} : Becomes(p, Goes(p, op))
    BY <1>9 DEF Look
  <2>3. Others /\ Mine /\ Busy
    BY <1>2, <1>4, <1>5, <2>1, <2>2
  <2> QED BY <2>1, <2>3
<1>10. CASE Unlink(p)
  <2>1. proc[p].at = "doing" /\ proc[p].todo # << >>
    BY <1>10 DEF Unlink, Doing, At
  <2>2. \E r : Removing(p, r, [proc[p] EXCEPT !.at = "removing"]) \/ Removing(p, r, Done(p))
    BY <1>10 DEF Unlink
  <2>3. Others /\ Mine /\ Busy
    BY <1>3, <1>4, <1>8, <2>1, <2>2
  <2> QED BY <2>1, <2>3
<1>11. CASE Removed(p)
  <2>1. proc[p].at = "removing" /\ proc[p].todo # << >> /\ ~proc[p].cut
        /\ Item(p).op \in {"rm", "resync"}
    BY <1>6, <1>11 DEF Removed, At, Orderly, Item
  <2>2. \E r :
          \/ Removing(p, r, Done(p))
          \/ Item(p).op \in {"ensure", "resync"} /\ Removing(p, r, Goes(p, "write"))
    BY <1>11, <2>1 DEF Removed
  <2>3. Others /\ Mine /\ Busy
    BY <1>3, <1>4, <1>5, <2>1, <2>2
  <2> QED BY <2>1, <2>3
<1>12. CASE Write(p)
  <2>1. proc[p].at = "doing" /\ Becomes(p, [proc[p] EXCEPT !.at = "writing"])
    BY <1>12 DEF Write, Doing, At
  <2>2. Others /\ Mine /\ Busy
    BY <1>2, <1>8, <2>1
  <2> QED BY <2>1, <2>2
<1>13. CASE Written(p)
  <2>1. proc[p].at = "writing" /\ proc[p].todo # << >> /\ Becomes(p, Done(p))
    BY <1>6, <1>13 DEF Written, At
  <2>2. Others /\ Mine /\ Busy
    BY <1>2, <1>4, <2>1
  <2> QED BY <2>1, <2>2
<1>14. CASE CannotWrite(p)
  <2>1. proc[p].at = "doing" /\ proc[p].todo # << >>
    BY <1>14 DEF CannotWrite, Doing, At
  <2>2. Becomes(p, [proc[p] EXCEPT !.todo = << >>]) \/ Becomes(p, AfterError(p))
    BY <1>14 DEF CannotWrite
  <2>3. LET s == [proc[p] EXCEPT !.todo = << >>] IN
        s \in Runs /\ s.at = "doing" /\ s.alone = proc[p].alone /\ s.cmd = proc[p].cmd
    <3>1. << >> \in Seq(Ops)
      OBVIOUS
    <3> QED BY <1>1, <2>1, <3>1 DEF Runs
  <2>4. Others /\ Mine /\ Busy
    BY <1>2, <1>7, <2>1, <2>2, <2>3
  <2> QED BY <2>1, <2>4
<1>15. CASE Fails(p)
  <2>1. proc[p].at # "idle" /\ proc[p].todo # << >>
    BY <1>6, <1>15 DEF Fails, Doing, At
  <2> DEFINE s == [AfterError(p) EXCEPT !.failed = AfterError(p).at # "idle"]
  <2>2. Becomes(p, s)
    BY <1>15 DEF Fails
  <2>3. /\ s \in Runs /\ s.cmd = AfterError(p).cmd /\ s.at = AfterError(p).at
        /\ s.alone = AfterError(p).alone
    BY <1>7, <2>1 DEF Runs
  <2> HIDE DEF s
  <2>4. Others /\ Mine /\ Busy
    BY <1>2, <1>7, <2>1, <2>2, <2>3
  <2> QED BY <2>1, <2>4
<1>16. CASE Killed(p) \/ Ends(p)
  <2>1. proc[p].at # "idle" /\ Becomes(p, Idle)
    BY <1>16 DEF Killed, Ends, Finished, At
  <2>2. Others /\ Mine /\ Busy
    BY <1>2, <1>6, <2>1
  <2> QED BY <2>1, <2>2
<1>17. CASE Recheck(p) \/ Validate(p)
  <2>1. proc[p].at # "idle"
    BY <1>17 DEF Recheck, Validate, Finished, At
  <2>2. \E place \in {"validate", "building", "refused"} : Becomes(p, [proc[p] EXCEPT !.at = place])
    BY <1>17 DEF Recheck, Validate
  <2>3. Others /\ Mine
    BY <1>2, <1>8, <2>2
  <2> QED BY <1>17, <2>1, <2>3
<1> QED BY <1>9, <1>10, <1>11, <1>12, <1>13, <1>14, <1>15, <1>16, <1>17 DEF Step

(* A command that starts is alone only if no other runs, and ends the      *)
(* solitude of those that run.                                             *)
LEMMA StartShape ==
  ASSUME IInv, NEW p \in Procs, Command(p)
  PROVE  /\ proc'[p].at = "doing" /\ file' = file
         /\ proc'[p].alone => \A q \in Procs \ {p} : proc[q].at = "idle"
         /\ \A q \in Procs \ {p} :
              proc'[q].at = proc[q].at /\ (proc'[q].alone => proc[q].at = "idle")
<1>1. proc \in [Procs -> Runs]
  BY DEF IInv, TypeOK
<1>2. ASSUME NEW c, NEW todo, Starts(p, c, todo)
      PROVE  /\ proc'[p].at = "doing"
             /\ proc'[p].alone => \A q \in Procs \ {p} : proc[q].at = "idle"
             /\ \A q \in Procs \ {p} : proc'[q].at = proc[q].at /\ (proc'[q].alone => proc[q].at = "idle")
  <2> DEFINE alone == \A q \in Procs \ {p} : At(q, "idle")
             s == [Idle EXCEPT !.cmd = c, !.at = "doing", !.todo = todo, !.alone = alone]
  <2>1. proc' = [q \in Procs |-> IF q = p THEN s ELSE [proc[q] EXCEPT !.alone = At(q, "idle")]]
    BY <1>2 DEF Starts
  <2>2. s.at = "doing" /\ s.alone = alone
    BY DEF Idle
  <2>3. alone => \A q \in Procs \ {p} : proc[q].at = "idle"
    BY DEF At
  <2> HIDE DEF s, alone
  <2>4. proc'[p] = s
    BY <2>1
  <2>5. ASSUME NEW q \in Procs \ {p}
        PROVE  proc'[q].at = proc[q].at /\ (proc'[q].alone => proc[q].at = "idle")
    <3>1. proc'[q] = [proc[q] EXCEPT !.alone = At(q, "idle")] /\ proc[q] \in Runs
      BY <1>1, <2>1
    <3>2. proc'[q].at = proc[q].at /\ proc'[q].alone = At(q, "idle")
      BY <3>1 DEF Runs
    <3> QED BY <3>2 DEF At
  <2> QED BY <2>2, <2>3, <2>4, <2>5
<1>3. file' = file /\ \E c, todo : Starts(p, c, todo)
  BY DEF Command, Ensure, SyncHeaders, SetupCross, Clean, Cleanup
<1> QED BY <1>2, <1>3

(* Solitude, and what was seen in it, last as long as a command is alone.  *)
LEMMA SoloInductive == IInv /\ Solo /\ Looked /\ [Next]_vars => Solo' /\ Looked'
<1> SUFFICES ASSUME IInv, Solo, Looked, [Next]_vars PROVE Solo' /\ Looked'
  OBVIOUS
<1>1. ASSUME NEW p \in Procs, Command(p) PROVE Solo' /\ Looked'
  <2>1. /\ proc'[p].at = "doing" /\ file' = file
        /\ proc'[p].alone => \A q \in Procs \ {p} : proc[q].at = "idle"
        /\ \A q \in Procs \ {p} : proc'[q].at = proc[q].at
        /\ \A q \in Procs \ {p} : proc'[q].alone => proc[q].at = "idle"
    BY <1>1, StartShape
  <2>2. Solo'
    BY <2>1 DEF Solo
  <2>3. \A q \in Procs : proc'[q].at \in {"validate", "building"} => ~proc'[q].alone
    BY <2>1
  <2> QED BY <2>2, <2>3 DEF Looked
<1>2. ASSUME NEW p \in Procs, Step(p) \/ Fails(p) \/ Killed(p) \/ Ends(p)
      PROVE  Solo' /\ Looked'
  <2>1. /\ proc[p].at # "idle"
        /\ \A q \in Procs \ {p} :
             proc'[q].at = proc[q].at /\ proc'[q].alone = proc[q].alone /\ proc'[q].cmd = proc[q].cmd
        /\ proc'[p].at = "idle" \/ (proc'[p].alone = proc[p].alone /\ proc'[p].cmd = proc[p].cmd)
        /\ proc'[p].at \in {"validate", "building"} => Recheck(p) \/ Validate(p)
    BY <1>2, StepShape
  <2>2. Solo'
    BY <2>1 DEF Solo
  <2>3. ASSUME NEW q \in Procs \ {p}, proc'[q].at \in {"validate", "building"}
        PROVE  ~proc'[q].alone
    BY <2>1, <2>3 DEF Solo
  <2>4. ASSUME proc'[p].at \in {"validate", "building"}, proc'[p].alone
        PROVE  /\ proc'[p].cmd \in {"build", "batch-build"} /\ Ready'
               /\ proc'[p].at = "building" /\ proc'[p].cmd = "build"
                    => \A w \in Wrappers : ~Missing(w)'
    <3>1. file' = file /\ proc'[p].cmd = proc[p].cmd /\ proc[p].alone
      BY <2>1, <2>4 DEF Recheck, Validate
    <3>2. (Ready' <=> Ready) /\ \A w : Missing(w)' <=> Missing(w)
      BY <3>1 DEF Ready, Missing
    <3>3. proc \in [Procs -> Runs] /\ proc[p] \in Runs
      BY DEF IInv, TypeOK
    <3>4. CASE Recheck(p)
      <4> DEFINE place == IF ~Ready THEN "refused" ELSE IF proc[p].cmd = "build" THEN "validate" ELSE "building"
      <4>1. proc' = [proc EXCEPT ![p] = [proc[p] EXCEPT !.at = place]]
        BY <3>4 DEF Recheck, Becomes
      <4>2. proc'[p].at = place
        BY <3>3, <4>1 DEF Runs
      <4>3. proc[p].cmd \in {"build", "batch-build"}
        BY <3>4 DEF Recheck
      <4> QED BY <2>4, <3>1, <3>2, <4>2, <4>3
    <3>5. CASE Validate(p)
      <4> DEFINE ok == \A w \in Wrappers : ~Missing(w)
                 place == IF ok THEN "building" ELSE "refused"
      <4>1. proc' = [proc EXCEPT ![p] = [proc[p] EXCEPT !.at = place]] /\ proc[p].at = "validate"
        BY <3>5 DEF Validate, Becomes, At
      <4>2. proc'[p].at = place
        BY <3>3, <4>1 DEF Runs
      <4>3. proc[p].cmd \in {"build", "batch-build"} /\ Ready
        BY <3>1, <4>1 DEF Looked
      <4> QED BY <2>4, <3>1, <3>2, <4>2, <4>3
    <3> QED BY <2>1, <2>4, <3>4, <3>5
  <2>5. Looked'
    BY <2>3, <2>4 DEF Looked
  <2> QED BY <2>2, <2>5
<1>3. CASE UNCHANGED vars
  BY <1>3 DEF vars, Solo, Looked, Ready, Missing
<1> QED BY <1>1, <1>2, <1>3 DEF Next

(* A build that no other command ran beside has its base, whatever was     *)
(* killed or failed before it.                                             *)
THEOREM LoneBuilds == Spec => []LoneBuildsHaveTheirBase
<1>1. Init => Solo /\ Looked
  BY DEF Init, Idle, Solo, Looked
<1>2. IInv /\ Solo /\ Looked => LoneBuildsHaveTheirBase
  <2> SUFFICES ASSUME IInv, Solo, Looked, NEW p \in Procs, At(p, "building"), proc[p].alone,
                      NEW r \in Required \cup (IF proc[p].cmd = "build" THEN Wrappers ELSE {})
               PROVE  file[r] = "whole" \/ r \in blamed
    BY DEF LoneBuildsHaveTheirBase
  <2>1. proc[p].at = "building" /\ r \in Names
    BY DEF At, Names
  <2>2. file[r] # "none"
    BY <2>1 DEF Looked, Ready, Missing
  <2>3. file[r] \in {"none", "part", "whole"}
    BY <2>1 DEF IInv, TypeOK
  <2>4. \A q \in Procs : proc[q].at \notin {"doing", "removing", "writing"}
    BY <2>1 DEF Solo
  <2>5. \A q \in Procs : proc[q].todo = << >>
    BY <2>4 DEF IInv, AllOrderly, Orderly
  <2>6. \A q \in Procs : HalfWritten(q) = {}
    <3>1. NamesOf(<< >>) = {}
      BY DEF NamesOf
    <3> QED BY <2>5, <3>1, HalvesAreListed DEF IInv
  <2>7. file[r] = "part" => r \in blamed
    BY <2>1, <2>6 DEF IInv, Covered, Exposed, Responsible
  <2> QED BY <2>2, <2>3, <2>7
<1>3. Spec => [](Solo /\ Looked)
  BY <1>1, SoloInductive, Invariant, PTL DEF Spec
<1> QED BY <1>2, <1>3, Invariant, PTL

-----------------------------------------------------------------------------
(* A build that runs alone and that the system does not fail: what is not  *)
(* on its list any more is there, or there is a reason why it is not.      *)
InTurn(todo) ==
  \A k \in DOMAIN todo :
    /\ todo[k].op \in {"ensure", "resync", "write"} /\ todo[k].name \in Required
    /\ todo[k].op = "resync" => todo[k].name \in Trees
    /\ todo[k].name = "dicl" => k = 1

Excused(r) == ~Missing(r) \/ (\E w \in Wrappers : Missing(w)) \/ r \in Libs \ sources

Unfailed(p) == proc[p].at # "idle" /\ proc[p].alone /\ ~proc[p].failed

Tried(p) ==
  Unfailed(p) =>
    /\ ~proc[p].cut
    /\ proc[p].cmd \in Ensures =>
         InTurn(proc[p].todo) /\ \A r \in Required \ NamesOf(proc[p].todo) : Excused(r)
    /\ proc[p].at = "refused" =>
         proc[p].cmd \in Ensures /\ (~Ready \/ \E w \in Wrappers : Missing(w))

(* Taking the first item off a list, or going on with it, keeps it.        *)
LEMMA TurnKept ==
  ASSUME NEW s \in Seq(Ops), s # << >>, InTurn(s),
         NEW op \in {"resync", "write"}, op = "resync" => Head(s).name \in Trees
  PROVE  LET w == <<[op |-> op, name |-> Head(s).name]>> \o Tail(s) IN
         /\ Head(s).op \in {"ensure", "resync", "write"} /\ Head(s).name \in Required
         /\ Head(s).op = "resync" => Head(s).name \in Trees
         /\ InTurn(Tail(s)) /\ "dicl" \notin NamesOf(Tail(s))
         /\ InTurn(w) /\ NamesOf(w) = NamesOf(s)
<1> DEFINE i == [op |-> op, name |-> Head(s).name]
           w == <<i>> \o Tail(s)
<1>1. /\ Head(s) = s[1] /\ 1 \in DOMAIN s /\ Tail(s) \in Seq(Ops)
      /\ \A k \in DOMAIN Tail(s) : k \in Nat \ {0} /\ k + 1 \in DOMAIN s /\ Tail(s)[k] = s[k + 1]
  OBVIOUS
<1>2. /\ Head(s).op \in {"ensure", "resync", "write"} /\ Head(s).name \in Required
      /\ Head(s).op = "resync" => Head(s).name \in Trees
  BY <1>1 DEF InTurn
<1>3. ASSUME NEW k \in DOMAIN Tail(s)
      PROVE  /\ Tail(s)[k].op \in {"ensure", "resync", "write"} /\ Tail(s)[k].name \in Required
             /\ Tail(s)[k].op = "resync" => Tail(s)[k].name \in Trees
             /\ Tail(s)[k].name # "dicl"
  <2>1. k \in Nat \ {0} /\ k + 1 \in DOMAIN s /\ Tail(s)[k] = s[k + 1]
    BY <1>1
  <2> QED BY <2>1 DEF InTurn
<1>4. InTurn(Tail(s)) /\ "dicl" \notin NamesOf(Tail(s))
  BY <1>3 DEF InTurn, NamesOf
<1>5. TreesKept(s)
  BY DEF InTurn, TreesKept
<1>6. NamesOf(w) = NamesOf(s)
  BY <1>5, ResumedTodo
<1>7. i.op = op /\ i.name = Head(s).name /\ i \in Ops
  BY <1>2 DEF Ops, Names
<1> HIDE DEF i
<1>8. /\ 1 \in DOMAIN w /\ w[1] = i
      /\ \A k \in DOMAIN w : k # 1 => k - 1 \in DOMAIN Tail(s) /\ w[k] = Tail(s)[k - 1]
  BY <1>1, <1>7
<1>9. InTurn(w)
  <2> SUFFICES ASSUME NEW k \in DOMAIN w
               PROVE  /\ w[k].op \in {"ensure", "resync", "write"} /\ w[k].name \in Required
                      /\ w[k].op = "resync" => w[k].name \in Trees
                      /\ w[k].name = "dicl" => k = 1
    BY DEF InTurn
  <2>1. CASE k = 1 BY <2>1, <1>2, <1>7, <1>8
  <2>2. CASE k # 1 BY <2>2, <1>3, <1>8
  <2> QED BY <2>1, <2>2
<1> QED BY <1>2, <1>4, <1>6, <1>9 DEF i

(* A reason lasts when only another resource, and no wrapper, changes.     *)
LEMMA ExcusedStays ==
  ASSUME NEW x \in Required, NEW r \in Required \ {x}, Excused(r), sources' = sources,
         \A n \in Names \ {x} : file'[n] = file[n]
  PROVE  Excused(r)'
<1>1. r \in Names /\ \A w \in Wrappers : w \in Names \ {x}
  BY DEF Names, Required, Wrappers, Libs, Trees
<1> QED BY <1>1 DEF Excused, Missing

(* One item is done with, looked at again or to be written.                *)
LEMMA TriedOn ==
  ASSUME IInv, NEW p \in Procs, Tried(p), Unfailed(p), proc[p].todo # << >>,
         NEW x, x = Item(p).name,
         sources' = sources, \A n \in Names \ {Item(p).name} : file'[n] = file[n],
         proc'[p].cmd = proc[p].cmd, ~proc'[p].cut, proc'[p].at # "refused",
         \/ /\ proc'[p].todo = Tail(proc[p].todo)
            /\ proc[p].cmd \in Ensures => Excused(x)'
         \/ \E op \in {"resync", "write"} :
              /\ op = "resync" => Item(p).name \in Trees
              /\ proc'[p].todo = <<[op |-> op, name |-> Item(p).name]>> \o Tail(proc[p].todo)
         \/ proc'[p].todo = proc[p].todo
  PROVE  Tried(p)'
<1> SUFFICES ASSUME proc[p].cmd \in Ensures
             PROVE  InTurn(proc'[p].todo)
                    /\ \A r \in Required \ NamesOf(proc'[p].todo) : Excused(r)'
  BY DEF Tried
<1>1. proc[p].todo \in Seq(Ops) /\ InTurn(proc[p].todo)
      /\ \A r \in Required \ NamesOf(proc[p].todo) : Excused(r)
  BY DEF IInv, TypeOK, Runs, Tried
<1>2. /\ Item(p).name \in Required /\ Item(p).name \in NamesOf(proc[p].todo)
      /\ InTurn(Tail(proc[p].todo))
      /\ NamesOf(proc[p].todo) \subseteq NamesOf(Tail(proc[p].todo)) \cup {Item(p).name}
  <2>1. "write" \in {"resync", "write"} /\ "write" # "resync"
    OBVIOUS
  <2> QED BY <1>1, <2>1, TurnKept, TailTodo DEF Item
<1>3. \A r \in Required \ NamesOf(proc[p].todo) : Excused(r)'
  BY <1>1, <1>2, ExcusedStays
<1>4. CASE proc'[p].todo = Tail(proc[p].todo) /\ Excused(x)'
  BY <1>2, <1>3, <1>4
<1>5. CASE \E op \in {"resync", "write"} :
             /\ op = "resync" => Item(p).name \in Trees
             /\ proc'[p].todo = <<[op |-> op, name |-> Item(p).name]>> \o Tail(proc[p].todo)
  <2>1. InTurn(proc'[p].todo) /\ NamesOf(proc'[p].todo) = NamesOf(proc[p].todo)
    BY <1>1, <1>5, TurnKept DEF Item
  <2> QED BY <2>1, <1>3
<1>6. CASE proc'[p].todo = proc[p].todo
  BY <1>1, <1>3, <1>6
<1> QED BY <1>4, <1>5, <1>6

(* Nothing is left on the list, because the compiler wrapper is missing.   *)
LEMMA TriedInVain ==
  ASSUME IInv, NEW p \in Procs, Missing("irix_cc")', proc'[p].todo = << >>,
         ~proc'[p].cut, proc'[p].at # "refused"
  PROVE  Tried(p)'
<1>1. InTurn(<< >>) BY DEF InTurn
<1>2. \A r \in Required : Excused(r)' BY DEF Excused, Wrappers
<1> QED BY <1>1, <1>2 DEF Tried

(* The steps of the process itself.                                        *)
LEMMA TriedStep ==
  ASSUME IInv, Looked, NEW p \in Procs, Tried(p), proc[p].at # "idle", proc[p].alone, Unfailed(p)',
         Step(p) \/ Fails(p) \/ Killed(p) \/ Ends(p)
  PROVE  Tried(p)'
<1>0. PICK x : x = Item(p).name
  OBVIOUS
<1>1. /\ proc \in [Procs -> Runs] /\ proc[p] \in Runs /\ proc[p].todo \in Seq(Ops)
      /\ Orderly(proc[p]) /\ TypeOK /\ AllOrderly
      /\ file \in [Names -> {"none", "part", "whole"}]
      /\ proc[p].at \in {"removing", "writing"} => proc[p].todo # << >>
  BY DEF IInv, TypeOK, Runs, AllOrderly
<1>2. ASSUME NEW s \in Runs, Becomes(p, s) PROVE proc'[p] = s
  BY <1>1, <1>2, OneBecomes
<1>3. ASSUME proc[p].todo # << >>
      PROVE  /\ Done(p) \in Runs /\ Done(p).cmd = proc[p].cmd /\ Done(p).at = "doing"
             /\ ~Done(p).cut /\ Done(p).todo = Tail(proc[p].todo)
             /\ Done(p).failed = proc[p].failed
             /\ Item(p) \in Ops /\ Item(p).name \in Names
  <2>1. /\ Done(p) \in Runs /\ Done(p).cmd = proc[p].cmd /\ Done(p).at = "doing"
        /\ ~Done(p).cut /\ Done(p).todo = Tail(proc[p].todo) /\ Item(p) \in Ops
    BY <1>1, <1>3, AfterDone
  <2>2. Done(p).failed = proc[p].failed
    BY <1>1 DEF Done, Runs
  <2> QED BY <2>1, <2>2 DEF Ops
<1>4. ASSUME proc[p].todo # << >>, ~proc[p].cut, Item(p).op \in {"ensure", "resync"},
             NEW op \in {"resync", "write"}
      PROVE  /\ Goes(p, op) \in Runs /\ Goes(p, op).cmd = proc[p].cmd /\ Goes(p, op).at = "doing"
             /\ ~Goes(p, op).cut /\ Goes(p, op).failed = proc[p].failed
             /\ Goes(p, op).todo = <<[op |-> op, name |-> Item(p).name]>> \o Tail(proc[p].todo)
  <2> DEFINE t == <<[op |-> op, name |-> Item(p).name]>> \o Tail(proc[p].todo)
  <2>1. Goes(p, op) \in Runs /\ Goes(p, op).cmd = proc[p].cmd /\ Goes(p, op).at = "doing"
    BY <1>1, <1>4, AfterGoes
  <2>2. Goes(p, op) = [proc[p] EXCEPT !.at = "doing", !.todo = t]
    BY DEF Goes
  <2> HIDE DEF t
  <2>3. Goes(p, op).cut = proc[p].cut /\ Goes(p, op).failed = proc[p].failed /\ Goes(p, op).todo = t
    BY <1>1, <2>2 DEF Runs
  <2> QED BY <1>4, <2>1, <2>3 DEF t
<1>5. ASSUME NEW place \in {"writing", "removing", "validate", "building", "refused"},
             Becomes(p, [proc[p] EXCEPT !.at = place])
      PROVE  /\ proc'[p].at = place /\ proc'[p].cmd = proc[p].cmd /\ proc'[p].todo = proc[p].todo
             /\ proc'[p].cut = proc[p].cut /\ proc'[p].failed = proc[p].failed
  <2>1. [proc[p] EXCEPT !.at = place] \in Runs
    BY <1>1 DEF Runs
  <2>2. proc'[p] = [proc[p] EXCEPT !.at = place]
    BY <1>2, <1>5, <2>1
  <2> QED BY <1>1, <2>2 DEF Runs
<1>6. ASSUME ~proc[p].failed PROVE Unfailed(p) /\ ~proc[p].cut
  BY <1>6 DEF Unfailed, Tried
<1>7. ASSUME NEW s \in Runs, NEW r, Removing(p, r, s) PROVE proc'[p] = s
  BY <1>1, <1>7, OneRemoves
<1>8. ~proc'[p].failed /\ proc'[p].at # "idle"
  BY DEF Unfailed
<1>9. CASE Look(p)
  <2>1. /\ proc[p].at = "doing" /\ proc[p].todo # << >> /\ file' = file /\ sources' = sources
    BY <1>9 DEF Look, Doing, At
  <2>2. ~proc[p].cut
    BY <1>1, <2>1 DEF Orderly
  <2>3. CASE /\ IF Item(p).op = "rm" THEN Missing(Item(p).name)
                                    ELSE Item(p).op = "ensure" /\ ~Missing(Item(p).name)
             /\ Becomes(p, Done(p))
    <3>1. proc'[p] = Done(p) /\ ~proc[p].failed
      BY <1>2, <1>3, <1>8, <2>1, <2>3
    <3>2. proc[p].cmd \in Ensures => Excused(x)'
      <4>1. proc[p].cmd \in Ensures => Item(p).op # "rm"
        BY <1>1, <1>6, <2>1, <3>1, TurnKept DEF Tried, Item
      <4> QED BY <1>0, <2>1, <2>3, <4>1 DEF Excused, Missing
    <3> QED BY <1>3, <1>6, <2>1, <3>1, <3>2, <1>0, TriedOn
  <2>4. ASSUME NEW op \in {"resync", "write"}, op = "resync" => Item(p).name \in Trees,
               Item(p).op # "rm", Becomes(p, Goes(p, op))
        PROVE  Tried(p)'
    <3>1. Item(p).op \in {"ensure", "resync"}
      BY <1>9, <2>4 DEF Look
    <3>2. proc'[p] = Goes(p, op) /\ ~proc[p].failed
      BY <1>2, <1>4, <1>8, <2>1, <2>2, <2>4, <3>1
    <3>3. /\ proc'[p].cmd = proc[p].cmd /\ ~proc'[p].cut /\ proc'[p].at # "refused"
          /\ proc'[p].todo = <<[op |-> op, name |-> Item(p).name]>> \o Tail(proc[p].todo)
      BY <1>4, <2>1, <2>2, <3>1, <3>2
    <3> QED BY <1>6, <2>1, <2>4, <3>2, <3>3, <1>0, TriedOn
  <2>5. CASE Item(p).op # "rm" /\ Becomes(p, Goes(p, IF Item(p).op = "ensure" /\ Item(p).name \in Trees
                                                    THEN "resync" ELSE "write"))
    BY <2>4, <2>5
  <2> QED BY <1>9, <2>3, <2>5 DEF Look
<1>10. CASE Unlink(p) \/ Removed(p)
  <2>1. proc[p].todo # << >> /\ sources' = sources
    BY <1>1, <1>10 DEF Unlink, Removed, Doing, At
  <2>2. Item(p).op \in {"rm", "resync"}
    BY <1>1, <1>10 DEF Unlink, Removed, At, Orderly, Item
  <2>3. \A n \in Names \ {Item(p).name} : file'[n] = file[n]
    BY <1>1, <1>10 DEF Unlink, Removed
  <2>4. ~proc[p].cut
    BY <1>1, <1>10 DEF Unlink, Removed, Doing, At, Orderly
  <2>5. \/ \E r : Removing(p, r, [proc[p] EXCEPT !.at = "removing"])
        \/ /\ Item(p).op = "rm" \/ Item(p).name \notin Trees
           /\ \E r : Removing(p, r, Done(p))
        \/ Item(p).op = "resync" /\ \E r : Removing(p, r, Goes(p, "write"))
    BY <1>10, <2>2 DEF Unlink, Removed
  <2> DEFINE s == [proc[p] EXCEPT !.at = "removing"]
  <2>6. s \in Runs /\ s.failed = proc[p].failed /\ s.cmd = proc[p].cmd /\ s.cut = proc[p].cut
        /\ s.todo = proc[p].todo /\ s.at = "removing"
    BY <1>1 DEF Runs
  <2>7. \/ proc'[p] = s
        \/ proc'[p] = Done(p) /\ (Item(p).op = "rm" \/ Item(p).name \notin Trees)
        \/ Item(p).op = "resync" /\ proc'[p] = Goes(p, "write")
    BY <1>3, <1>4, <1>7, <2>1, <2>4, <2>5, <2>6
  <2> HIDE DEF s
  <2>8. ~proc[p].failed
    BY <1>3, <1>4, <1>8, <2>1, <2>4, <2>6, <2>7
  <2>9. proc[p].cmd \in Ensures => Item(p).op # "rm" /\ Item(p).name \in Trees
    BY <1>1, <1>6, <2>1, <2>2, <2>8, TurnKept DEF Tried, Item
  <2>10. proc'[p].cmd = proc[p].cmd /\ ~proc'[p].cut /\ proc'[p].at # "refused"
    BY <1>3, <1>4, <2>1, <2>4, <2>6, <2>7
  <2>11. CASE proc[p].cmd \in Ensures
    <3>1. \/ proc'[p].todo = proc[p].todo
          \/ proc'[p].todo = <<[op |-> "write", name |-> Item(p).name]>> \o Tail(proc[p].todo)
      BY <1>4, <2>1, <2>4, <2>6, <2>7, <2>9, <2>11
    <3> QED BY <1>6, <2>1, <2>3, <2>8, <2>10, <3>1, <1>0, TriedOn
  <2>12. CASE proc[p].cmd \notin Ensures
    BY <2>10, <2>12 DEF Tried
  <2> QED BY <2>11, <2>12
<1>11. CASE Write(p)
  <2>1. /\ proc[p].todo # << >> /\ sources' = sources /\ proc[p].at = "doing"
        /\ \A n \in Names \ {Item(p).name} : file'[n] = file[n]
        /\ Becomes(p, [proc[p] EXCEPT !.at = "writing"])
    BY <1>1, <1>11 DEF Write, Doing, At
  <2>2. ~proc[p].cut
    BY <1>1, <2>1 DEF Orderly
  <2> QED BY <1>5, <1>6, <1>8, <2>1, <2>2, <1>0, TriedOn
<1>12. CASE Written(p)
  <2>1. /\ proc[p].todo # << >> /\ sources' = sources /\ Becomes(p, Done(p))
        /\ \A n \in Names \ {Item(p).name} : file'[n] = file[n]
    BY <1>1, <1>12 DEF Written, At
  <2>2. proc'[p] = Done(p) /\ ~proc[p].failed
    BY <1>2, <1>3, <1>8, <2>1
  <2>3. file'[x] # "none"
    BY <1>0, <1>1, <1>3, <1>6, <1>12, <2>1, <2>2 DEF Written
  <2>4. Excused(x)'
    BY <2>3 DEF Excused, Missing
  <2> QED BY <1>3, <1>6, <2>1, <2>2, <2>4, <1>0, TriedOn
<1>13. CASE CannotWrite(p)
  <2>1. /\ proc[p].todo # << >> /\ sources' = sources /\ file' = file /\ proc[p].at = "doing"
    BY <1>13 DEF CannotWrite, Doing, At
  <2>2. ~proc[p].cut
    BY <1>1, <2>1 DEF Orderly
  <2>3. CASE /\ Missing("irix_cc") /\ proc[p].cmd \in Ensures
             /\ Becomes(p, [proc[p] EXCEPT !.todo = << >>])
    <3> DEFINE s == [proc[p] EXCEPT !.todo = << >>]
    <3>1. << >> \in Seq(Ops)
      OBVIOUS
    <3>2. s \in Runs /\ s.todo = << >> /\ s.cut = proc[p].cut /\ s.at = proc[p].at
      BY <1>1, <3>1 DEF Runs
    <3>3. proc'[p] = s
      BY <1>2, <2>3, <3>2
    <3> QED BY <2>1, <2>2, <2>3, <3>2, <3>3, TriedInVain DEF Missing
  <2>4. CASE /\ ~(Item(p).name \in Libs /\ Missing("irix_cc") /\ proc[p].cmd \in Ensures)
             /\ Becomes(p, AfterError(p))
    <3>1. CASE proc[p].cmd \in Ensures
      <4>1. proc'[p] = Done(p) /\ ~proc[p].failed
        BY <1>2, <1>3, <1>8, <2>1, <2>4, <3>1 DEF AfterError
      <4>2. /\ InTurn(proc[p].todo) /\ \A r \in Required \ NamesOf(proc[p].todo) : Excused(r)
        BY <1>6, <3>1, <4>1 DEF Tried
      <4>3. /\ NamesOf(proc[p].todo) \subseteq NamesOf(Tail(proc[p].todo)) \cup {Item(p).name}
            /\ "dicl" \notin NamesOf(Tail(proc[p].todo))
        BY <1>1, <2>1, <4>2, TurnKept, TailTodo DEF Item
      <4>4. Excused(Item(p).name)
        <5>1. CASE Exists(p)
          BY <5>1 DEF Exists, Excused
        <5>2. CASE ~CanWrite(Item(p).name)
          <6>1. /\ Item(p).name \in Libs
                /\ Item(p).name \notin sources \/ Missing("dicl")
            BY <2>4, <3>1, <5>2 DEF CanWrite
          <6>2. CASE Item(p).name \notin sources
            BY <6>1, <6>2 DEF Excused
          <6>3. CASE Missing("dicl")
            <7>1. "dicl" \in Required \ NamesOf(proc[p].todo) /\ "dicl" \notin Libs
              BY <6>1, <4>3 DEF Required, Trees, Libs
            <7>2. \E w \in Wrappers : Missing(w)
              BY <4>2, <6>3, <7>1 DEF Excused
            <7> QED BY <7>2 DEF Excused
          <6> QED BY <6>1, <6>2, <6>3
        <5> QED BY <1>13, <5>1, <5>2 DEF CannotWrite
      <4>5. Excused(x)'
        BY <1>0, <2>1, <4>4 DEF Excused, Missing
      <4> QED BY <1>3, <1>6, <2>1, <4>1, <4>5, <1>0, TriedOn
    <3>2. CASE proc[p].cmd \notin Ensures
      <4>1. AfterError(p) \in {Done(p), Idle} /\ Idle \in Runs /\ Idle.at = "idle"
        BY IdleRun DEF AfterError
      <4>2. proc'[p] = Done(p)
        BY <1>2, <1>3, <1>8, <2>1, <2>4, <4>1
      <4> QED BY <1>3, <2>1, <3>2, <4>2 DEF Tried
    <3> QED BY <3>1, <3>2
  <2> QED BY <1>13, <2>3, <2>4 DEF CannotWrite
<1>14. CASE Fails(p)
  <2>1. proc[p].todo # << >>
    BY <1>1, <1>14 DEF Fails, Doing, At
  <2> DEFINE e == AfterError(p)
             s == [e EXCEPT !.failed = e.at # "idle"]
  <2>2. e \in Runs
    BY <1>3, <2>1, IdleRun DEF AfterError
  <2> HIDE DEF e
  <2>3. s \in Runs /\ s.failed = (e.at # "idle") /\ s.at = e.at
    BY <2>2 DEF Runs
  <2>4. proc'[p] = s
    BY <1>2, <1>14, <2>3 DEF Fails, e
  <2> QED BY <1>8, <2>3, <2>4
<1>15. CASE Killed(p) \/ Ends(p)
  <2>1. Becomes(p, Idle) BY <1>15 DEF Killed, Ends
  <2> QED BY <1>2, <1>8, <2>1, IdleRun
<1>16. CASE Recheck(p) \/ Validate(p)
  <2>1. /\ file' = file /\ sources' = sources /\ proc[p].at \in {"doing", "validate"}
    BY <1>16 DEF Recheck, Validate, Finished, At
  <2>2. PICK place \in {"validate", "building", "refused"} :
          /\ Becomes(p, [proc[p] EXCEPT !.at = place])
          /\ place = "refused" => ~Ready \/ \E w \in Wrappers : Missing(w)
    <3>1. CASE Recheck(p)
      BY <3>1 DEF Recheck
    <3>2. CASE Validate(p)
      BY <3>2 DEF Validate
    <3> QED BY <1>16, <3>1, <3>2
  <2>3. /\ proc'[p].at = place /\ proc'[p].cmd = proc[p].cmd /\ proc'[p].todo = proc[p].todo
        /\ proc'[p].cut = proc[p].cut /\ proc'[p].failed = proc[p].failed
    BY <1>5, <2>2
  <2>4. \A r : Missing(r)' <=> Missing(r)
    BY <2>1 DEF Missing
  <2>5. (Ready' <=> Ready) /\ \A r : Excused(r)' <=> Excused(r)
    BY <2>1, <2>4 DEF Ready, Excused
  <2>6. proc[p].cmd \in Ensures
    <3>1. CASE Recheck(p)
      BY <3>1 DEF Recheck, Ensures
    <3>2. CASE Validate(p)
      <4>1. proc[p].at = "validate"
        BY <3>2 DEF Validate, At
      <4> QED BY <4>1 DEF Looked, Ensures
    <3> QED BY <1>16, <3>1, <3>2
  <2> QED BY <1>6, <1>8, <2>2, <2>3, <2>4, <2>5, <2>6 DEF Tried
<1> QED BY <1>9, <1>10, <1>11, <1>12, <1>13, <1>14, <1>15, <1>16 DEF Step

(* ensure_ready() goes through everything a build needs, dicl-compat's     *)
(* headers first.                                                          *)
LEMMA EnsureTodo == InTurn(EnsureOps) /\ Required \subseteq NamesOf(EnsureOps)
<1> DEFINE n == <<"dicl", "mogrix", "headers", "soft_float", "atomic">>
<1>1. n \in Seq(Names)
  BY DEF Names, Required, Libs, Trees, Wrappers
<1>2. /\ Len(n) = 5 /\ n[1] = "dicl" /\ n[2] = "mogrix" /\ n[3] = "headers"
      /\ n[4] = "soft_float" /\ n[5] = "atomic"
  OBVIOUS
<1> HIDE DEF n
<1>3. /\ EnsureOps \in Seq(Ops) /\ Len(EnsureOps) = 5
      /\ \A i \in 1..5 : EnsureOps[i] = [op |-> "ensure", name |-> n[i]]
  BY <1>1, <1>2, AllTodo DEF EnsureOps, n
<1>4. /\ DOMAIN EnsureOps = 1..5
      /\ \A i \in 1..5 : EnsureOps[i].op = "ensure" /\ EnsureOps[i].name = n[i]
  BY <1>3
<1>5. \A i \in 1..5 : n[i] \in Required /\ (n[i] = "dicl" => i = 1)
  BY <1>2 DEF Required, Libs, Trees
<1>6. InTurn(EnsureOps)
  BY <1>4, <1>5 DEF InTurn
<1>7. \A i \in 1..5 : n[i] \in NamesOf(EnsureOps)
  BY <1>4 DEF NamesOf
<1>8. Required = {n[1], n[2], n[3], n[4], n[5]}
  BY <1>2 DEF Required, Libs, Trees
<1> QED BY <1>6, <1>7, <1>8

(* A command that begins has everything it must make on its list.          *)
LEMMA TriedStart ==
  ASSUME IInv, NEW p \in Procs, Command(p)
  PROVE  Tried(p)'
<1>1. ASSUME NEW c, NEW todo, Starts(p, c, todo)
      PROVE  proc'[p].cmd = c /\ proc'[p].at = "doing" /\ proc'[p].todo = todo /\ ~proc'[p].cut
  <2> DEFINE alone == \A q \in Procs \ {p} : At(q, "idle")
             s == [Idle EXCEPT !.cmd = c, !.at = "doing", !.todo = todo, !.alone = alone]
  <2>1. proc' = [q \in Procs |-> IF q = p THEN s ELSE [proc[q] EXCEPT !.alone = At(q, "idle")]]
    BY <1>1 DEF Starts
  <2>2. s.cmd = c /\ s.at = "doing" /\ s.todo = todo /\ s.cut = FALSE
    BY DEF Idle
  <2> HIDE DEF s
  <2>3. proc'[p] = s
    BY <2>1
  <2> QED BY <2>2, <2>3
<1>2. CASE Ensure(p)
  <2>1. file' = file /\ sources' = sources
        /\ \E c : Starts(p, c, IF Ready THEN << >> ELSE EnsureOps)
    BY <1>2 DEF Ensure
  <2>2. /\ proc'[p].at = "doing" /\ ~proc'[p].cut
        /\ proc'[p].todo = IF Ready THEN << >> ELSE EnsureOps
    BY <1>1, <2>1
  <2>3. Ready => \A r \in Required : Excused(r)'
    BY <2>1 DEF Ready, Excused, Missing
  <2>4. InTurn(<< >>)
    BY DEF InTurn
  <2> QED BY <2>2, <2>3, <2>4, EnsureTodo DEF Tried
<1>3. CASE SyncHeaders(p) \/ SetupCross(p) \/ Clean(p) \/ Cleanup(p)
  <2>1. \E c \in Commands \ Ensures : \E todo : Starts(p, c, todo)
    BY <1>3 DEF SyncHeaders, SetupCross, Clean, Cleanup, Commands, Ensures
  <2>2. proc'[p].at = "doing" /\ ~proc'[p].cut /\ proc'[p].cmd \notin Ensures
    BY <1>1, <2>1
  <2> QED BY <2>2 DEF Tried
<1> QED BY <1>2, <1>3 DEF Command

LEMMA TriedInductive ==
  IInv /\ Solo /\ Looked /\ (\A p \in Procs : Tried(p)) /\ [Next]_vars => \A p \in Procs : Tried(p)'
<1> SUFFICES ASSUME IInv, Solo, Looked, \A p \in Procs : Tried(p), [Next]_vars, NEW q \in Procs
             PROVE  Tried(q)'
  OBVIOUS
<1>1. ASSUME NEW p \in Procs, Command(p) PROVE Tried(q)'
  <2>1. CASE q = p
    BY <1>1, <2>1, TriedStart
  <2>2. CASE q # p
    <3>1. proc'[q].at = proc[q].at /\ (proc'[q].alone => proc[q].at = "idle")
      BY <1>1, <2>2, StartShape
    <3> QED BY <3>1 DEF Tried, Unfailed
  <2> QED BY <2>1, <2>2
<1>2. ASSUME NEW p \in Procs, Step(p) \/ Fails(p) \/ Killed(p) \/ Ends(p) PROVE Tried(q)'
  <2>1. /\ proc[p].at # "idle"
        /\ \A o \in Procs \ {p} : proc'[o].at = proc[o].at /\ proc'[o].alone = proc[o].alone
        /\ proc'[p].at = "idle" \/ proc'[p].alone = proc[p].alone
    BY <1>2, StepShape
  <2>2. CASE q = p
    <3>1. CASE Unfailed(p)'
      <4>1. proc[p].alone
        BY <2>1, <3>1 DEF Unfailed
      <4> QED BY <1>2, <2>1, <2>2, <3>1, <4>1, TriedStep
    <3>2. CASE ~Unfailed(p)'
      BY <2>2, <3>2 DEF Tried
    <3> QED BY <3>1, <3>2
  <2>3. CASE q # p
    BY <2>1, <2>3 DEF Solo, Tried, Unfailed
  <2> QED BY <2>2, <2>3
<1>3. CASE UNCHANGED vars
  BY <1>3 DEF vars, Tried, Unfailed, Excused, Ready, Missing
<1> QED BY <1>1, <1>2, <1>3 DEF Next

(* A build that runs alone is refused only when the system failed it, or   *)
(* for want of a wrapper or of a library that has no source: the order in  *)
(* which ensure_ready() makes things works.                                *)
THEOREM RefusalsAreJustified == Spec => []RefusedForAReason
<1> DEFINE AllTried == \A p \in Procs : Tried(p)
<1>1. Init => AllTried
  BY DEF Init, Idle, Tried, Unfailed
<1>2. Init => Solo /\ Looked
  BY DEF Init, Idle, Solo, Looked
<1>3. IInv /\ AllTried => RefusedForAReason
  <2> SUFFICES ASSUME IInv, AllTried, NEW p \in Procs, At(p, "refused"), proc[p].alone,
                      ~proc[p].failed, \A w \in Wrappers : ~Missing(w)
               PROVE  \E l \in Libs \ sources : Missing(l)
    BY DEF RefusedForAReason
  <2>1. /\ proc[p].cmd \in Ensures /\ ~Ready
        /\ \A r \in Required \ NamesOf(proc[p].todo) : Excused(r)
    BY DEF At, Tried, Unfailed
  <2>2. proc[p].todo = << >>
    BY DEF IInv, AllOrderly, Orderly, At
  <2>3. NamesOf(<< >>) = {}
    BY DEF NamesOf
  <2> QED BY <2>1, <2>2, <2>3 DEF Ready, Excused
<1>4. IInv /\ Solo /\ Looked /\ AllTried /\ [Next]_vars => AllTried'
  BY TriedInductive
<1> HIDE DEF AllTried
<1> QED BY <1>1, <1>2, <1>3, <1>4, SoloInductive, Invariant, PTL DEF Spec

=============================================================================
