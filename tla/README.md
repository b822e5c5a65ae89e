# TLA+ models of mogrix

mogrix turns Fedora source packages into packages for IRIX. It is two programs in
one repository. `mogrix/` is a Python tool: it resolves what has to be ported,
fetches SRPMs, rewrites their specs by rules, and drives `rpmbuild` with a cross
toolchain. `compat/` is C: the POSIX functions that IRIX lacks and every ported
program is linked with. This directory holds TLA+ models of the parts of both
whose correctness depends on order: threads, processes, system calls that fail
half way, commands that are killed, connections that are lost, and graph algorithms. TLC checks the models on
small instances, TLAPS proves the central invariants for all of them.

Contents: [inventory](#inventory), [modules](#modules),
[model by model](#model-by-model), [runs](#runs), [what is proved](#what-is-proved),
[disagreements between code and docs](#where-the-code-and-its-documentation-disagree),
[what is not modelled](#what-is-not-modelled), [plan](#plan),
[running it](#running-it).

## Inventory

The components, the state each keeps, what changes it, and what makes it hard. The
full list with the reason for everything left out is in `PROJECT.json`, which also
lists each hazard at its line of the source.

### The compat library (runs inside ported programs, on IRIX)

| Component | State | Operations | What is hard | Correct means |
|---|---|---|---|---|
| Cookie streams: `funopen.c`, `fopencookie.c` | a pipe, the proxy's buffer, the context, who has closed what | the application's reads, writes, fclose, exit; the detached proxy thread; the callbacks | two threads and user callbacks interleave; short counts; SIGPIPE; nobody joins the thread | bytes arrive once and in order; end of stream only after the last; closefn once and last |
| Opening them, `open_memstream.c` | descriptors, FILEs, allocations | funopen, fopencookie, open_memstream, plain open and close | each step may fail, descriptor numbers are reused by other threads at once | a failing call leaves nothing and closes nobody else's descriptor |
| `dprintf.c`, `openpty.c`, `getline.c` (`getdelim`), `utimensat`, `futimens` | descriptors, a buffer the caller owns, a file's times | the functions, step by step | each step may fail, a buffer moves when it grows, times are read and written back in two calls | nothing left behind, a line ends inside its block, times are set as asked |
| at calls: `openat-compat.c` | the process's working directory, saved directories, paths | openat, fstatat, unlinkat, renameat, ... | the detour through the working directory is seen by every thread, each of its calls may fail | right directory, directory given back or the loss reported, nothing leaked |
| `socketpair.c` | a counter per process, paths in /tmp, listeners, backlogs | socketpair(), the end of a process | counter not atomic, path left behind, `accept()` may wait | ends of a pair belong together unless calls meet at a path, only a killed call leaves a path and nobody stumbles over it, a lone call returns |
| `qsort_r.c`, `pselect.c`, string functions | two statics; none | | documented windows | not modelled |

### The porting tool (runs on a Linux workstation)

| Component | State | Operations | What is hard | Correct means |
|---|---|---|---|---|
| `batch_build.py` | SRPMs, rules, candidates, `~/rpmbuild/RPMS`, `outputs/RPMS`, the task list and results | scan, fetch, generate rules, convert, build, copy, timeout, a person accepting candidates | rpmbuild's children outlive the timeout; killed between two copies; five options that interact; stale RPMs | only RPMs of builds that ended well are published, what is reported built is published entirely, errors stop what they should |
| `repometa.py` | downloaded databases, `index.sqlite`, sqlite's lock | ensure_index with or without refresh, by several processes | a file that exists counts as whole; half downloads; two processes build one index | rows come once, a commit holds all of a repository |
| `roadmap.py`, `resolve()` | queue, visited, edges, dropped, sysroot and unresolvable names | one name or one package per step | several names of one package, drops by rule, a depth limit, stop-at-rules | everything needed is found at its depth, every name ends in one place |
| `roadmap.py`, `_topological_sort()` | Tarjan's stacks, the condensed graph, in-degrees, the order | one step of each loop | Tarjan without recursion, cycles in the middle of a sort | components exactly, dependencies first |
| `staging.py`, `cli.py`, `cleanup.sh` | the base libraries, header trees and wrappers in the staging directory | ensure_ready (convert, build, batch-build), sync-headers, setup-cross, stage --clean, cleanup.sh | no locks, existence counts as readiness, trees are copied and removed file by file | no half resource in silence, a lone build has its base |
| `batch.py`, `convert` in `cli.py`, `emitter/srpm.py` | output directories, SPECS, SOURCES and SRPMS of one rpmbuild tree, temporary directories | one conversion, or a batch of a directory, from extraction to the SRPM copied back | all conversions share the tree, each of its files is overwritten and "the newest SRPM" picked, what an earlier conversion left is still there | what a conversion that ran alone returns is of its package, its rules and its files; a batch accounts for every SRPM; temporary directories go |
| `rules/engine.py`, `emitter/spec.py` | a spec's BuildRequires | generic rules, classes, package rules; writing lines | stages that add and drop the same name | the last stage that mentions a name decides |
| `bundle.py`: the scripts it generates | bundle directories, trampolines in the shared bin directory, a registry of owners and its temporary file | install, uninstall, the self-extracting installer, command by command | scripts of several bundles share files, no locks, kills | a registered command runs its owner, only the owner takes it away, a command leads to a bundle that is there |
| `tools/mogrix-test-server.py` | an ssh connection, a running script, commands nobody waits for, results | test_bundle: copy, run, collect, clean up; reconnect, retry, timeouts | a command is retried after it ran, goes on after its timeout, and works in the directory users install into | a verdict is true unless the script was cut short, a test returns |

How they interact. `batch-build` calls convert and build for each package, and both
call `ensure_ready()` on the staging directory first: that is the state they share,
with one another and with the maintenance commands a user runs beside them, and
they share it through files only. Convert in turn shares the rpmbuild tree with every other
conversion. On the IRIX host the test server copies a bundle into the directory where users'
scripts install and remove bundles. `roadmap` reads the index `ensure_index()` made and
says in which order batch-build's list should be written; the person between them
turns candidate rules into rules. Inside a ported program the compat functions share
the process: its descriptors (streams, sockets, at calls), its working directory, its
signals.

## Modules

| Module | Extends / instances | What it is |
|---|---|---|
| `OrderedChannel` | | abstract specification: an ordered channel that loses nothing until it ends, is killed or breaks |
| `CookieStream` | INSTANCEs `OrderedChannel` | a running cookie stream, and its refinement of the channel |
| `CookieOpen` | | the calls that make such a stream, on every way out |
| `CompatCalls`, `MCCompatCalls` | EXTENDS `CookieOpen` | the same threads when they also print to descriptors, open terminals, set times and read lines |
| `CompatProofs` | EXTENDS `CookieStream`, `CompatCalls` | the proofs of both |
| `AtCalls`, `AtCallsProofs` | | the at calls of several threads |
| `SocketPair`, `MCSocketPair`, `SocketPairProofs` | | socketpair() by threads of several processes |
| `BatchBuild`, `MCBatchBuild` | | runs of batch-build and what they leave for the next |
| `Rules` | | the stages of the rules engine as operators, and a reference for them |
| `Conversion`, `MCConversion`, `ConversionProofs` | EXTENDS `Rules` | convert and batch over the output directories and the rpmbuild tree |
| `RepoMeta`, `MCRepoMeta`, `RepoMetaProofs` | | the metadata index |
| `Ordering` | | the members of a set of numbers in their order |
| `Roadmap` | EXTENDS `Ordering` | the breadth-first resolution |
| `BuildOrder` | EXTENDS `Ordering` | Tarjan, Kahn and the greedy order |
| `RoadmapReport`, `MCRoadmapReport`, `RoadmapProofs` | EXTENDS `Roadmap`, INSTANCEs `BuildOrder` | resolution, sort and report composed: what the one finds is what the other sorts |
| `Staging`, `MCStaging` | | the staging directory and its commands |
| `BuildProofs` | EXTENDS `BatchBuild`, `Staging` | the proofs of both |
| `CommandOwners` | | abstract specification: who owns a command, and who may change it |
| `BundleHost` | INSTANCEs `CommandOwners` | the bundle scripts on one host, and their refinement of the ownership |
| `BundleTest`, `MCBundleTest`, `BundleHostProofs` | EXTENDS `BundleHost` | the same host with the test server beside its users; the proofs are about the two together |

A module holds the state and actions; `MC...` modules give the constants their
values and the symmetry; `...Proofs` modules hold the theorems. Operators that a
comment calls a mistake are mutated actions that stand beside the real ones; no
next-state relation contains them, they show that a property can fail.

## Model by model

### CookieStream: `compat/stdio/funopen.c`, `fopencookie.c`

One stream, either reading (callback to application) or writing. `pipe` is the
kernel's pipe, `chunk` what `ctx->buf` still holds of the last read, `pc` the place of
the proxy in its loop. The proxy's steps are the callback (any count up to what was
asked, or an error), the `read` and `write` on the pipe, and at the end
`closefn`, `close(ctx->fd)` and `free(ctx)`. The application reads or writes any
amount, closes, or exits, at any time. `sigpipeFatal` says whether SIGPIPE has its
default action; a write to a pipe without a reader then ends the process.
`OrderedChannel` has a queue and three events: put, get, and an end that may lose
what is in transit only in the cases the stream may (`ImplementsChannel`).

Fairness: `FlushedInTheEnd` (what was written reaches the callback while the process
lives) assumes weak fairness of the proxy thread, which the system's scheduler gives
a runnable thread, and nothing of the application, which may stop for ever.

### CookieOpen: the same files, before the stream runs, and `open_memstream.c`

Threads call the three functions or open and close a plain file, over a small set of
descriptor numbers; which free number a call gets is left open, which includes the
kernel's choice of the lowest. Each system call is a step that may fail, and so is each
allocation: `open_memstream()` gets its struct and its buffer before it calls `funopen()`, which
refuses the seek callback it always passes, and frees both. `call` has what a function holds:
two ends and the FILE that may own one of them; `allocated` counts its blocks of memory, and `owner`
says who opened each number. `NothingLeaked` is about every way out of the three. `foreign` records a close that hit another thread's descriptor,
and `OnlyFunopenClosesForeign` says that only `funopen()` does that: see the disagreements
below.

### CompatCalls: `dprintf.c`, `openpty.c`, `getline.c`, `futimens()` and `utimensat()`

`CookieOpen` with a second thing a thread may do, its `task`, on the same descriptors. `Programs` says
which kinds of calls each thread makes; the run has threads that all work with descriptors,
and one thread that sets times or reads lines beside others, because tasks of the last two
kinds touch nothing the other functions have.

* `dprintf()` duplicates the descriptor, opens a FILE on it, writes and closes it;
  `openpty()` opens a master and a slave. `NothingIsLeaked` is about every way out.
* A file's times are pairs of a second and a fraction. `futimens()` reads them with
  `fstat()` and the clock with `gettimeofday()`, and writes both with `utimes()`; `alone` is
  TRUE until another thread or program changes the file's times in between, `before` and
  `since` are what they and the clock were at the call. `TimesAsAsked` is about calls that
  were alone. `utimensat()` knows neither UTIME_NOW nor UTIME_OMIT, and takes a `tv_nsec` of
  999999999 (`last`) for "now". The property says exactly what the code leaves: the values given;
  a time within the call for "now"; for UTIME_OMIT in `futimens()` the second the file had, its
  fraction lost; in `utimensat()`, for UTIME_NOW and UTIME_OMIT, a time nobody asked for.
* `getdelim()` allocates `GETLINE_INITIAL_SIZE`, doubles, and may move the block or run out
  of memory. `moved`, `short` and `zero` remember a block that moved, memory that ran out, and
  a caller who passed a size of zero. `LinesAreSound`: a returned line ends inside its block,
  the caller has the block, and no other is lost except in the cases the three name.

### AtCalls: `compat/dicl/openat-compat.c`

A call is one of four shapes: `open`, `one` directory, `utime` with its two detours,
and `two` directories (renameat, linkat). Per caller: the arguments, the saved
directory, the full paths built, where the operation took place. Every system call is
a step and may fail, the return to the old directory too. The file says it is not
thread-safe, so `RightDirectory` and `CwdGivenBack` speak of calls nobody overlapped
(`entry` is None once another thread moved the directory); `NothingLeaked` and
`OpenReportsLoss` of all.

### SocketPair: `compat/sys/socketpair.c`

`counter` is loaded and stored in two steps. Paths lead to listeners; a listener queues
whoever connects (the 1 of `listen(listener, 1)` is a hint that systems exceed). A process
may be killed at any step, its descriptors close, its path stays, and a new process may
get the number. `rivals` is a history: the calls that were under way with the same path. Two
threads that load the counter together may be given each other's second end;
`PairsAreConnected` says that it happens to no others: the second end is the call's own or that of
a rival, whoever else makes pairs and whatever dead processes have left. `NothingLeft` says
whose paths may be there, and that a call without rivals finds its own free when it binds it.
`LoneCallsReturn` is about calls without rivals and assumes weak fairness of each thread's going on
(`GoesOn`): every system call of the path returns, with success or failure, except that
`accept()` waits as long as its backlog is empty and does not fail by itself.

### BatchBuild: `mogrix/batch_build.py`

`srpms`, `rules`, `candidates`, `tree` and `out` are the files; `opts`, `tasks`, `pos`,
`at`, `pending` and `results` the run; `written`, `whole` and `stray` what rpmbuild does, and
`torn` the RPMs of `out` that an interrupted `shutil.copy2()` left in part: what `--skip-built`
takes for a build, and what `SuccessIsPublished` does not. An rpmbuild is a process of its own: it writes RPMs one by one, ends
well or not, hangs, or is killed by the timeout while the scripts it started go on below `BUILD`.
The loop's exits follow `run()` line by line: stop on error, skip fetch, a rule that
has to be generated, dry run, skip built. Between runs a candidate may become a rule.
`BatchEnds` assumes weak fairness of the loop and of the build timeout: rpmbuild itself
may hang for ever.

### Rules and Conversion: `mogrix/batch.py`, `cli.py`, `rules/engine.py`, `emitter/`

`Rules` is pure: `Apply` folds the stages of a rule book over a spec's BuildRequires as
`engine.py` orders them, and `Writes` is what `emitter/spec.py` may do with the result. A spec has
its BuildRequires in lines of one name or several. The writer (`mogrix/emitter/spec.py:97`, "Package in a
multi-package BuildRequires line") takes a dropped name out of a line of several only when something stands between
the colon and the name, so the first of them stays unless three blanks are before it or the others went
first; and it finds no place for new lines when no line is left. The classes of a package are applied one
after the other by a recursive function (`ApplyClasses`). `Wanted` is the reference: the last stage
that mentions a name decides.

`Conversion` is a process per command. A conversion extracts an SRPM into a temporary
directory, reads the rules once, writes the spec, gathers the SRPM's files and those of the
rules in the output directory, copies all of it into SOURCES and SPECS, runs `rpmbuild -bs`, and
copies the newest SRPM of the tree back. A batch does so for each SRPM of its list, goes on
after failures and reports. Two processes share SOURCES, SPECS and SRPMS; rules change between
steps; any step may fail and any process may be killed, which leaves `Torn` files.
`alone` marks the conversions that no other process overlapped, and only what they return goes into
`results`. `ResultsAreTrue` says what it is worth: the SRPM is the one that was asked for, with its own files
and mogrix's over them, and has a BuildRequires if and only if the reference of `Rules` wants it,
whatever earlier conversions left in directory and tree. `AsRuled` names the two exceptions, which
are the writer's: the first of several names of a line may stay, and what is added is missing when the
spec has no BuildRequires left. A result is withdrawn when the same is asked for again, and when
an overlapped conversion copies the SRPM it picked, which may be anybody's, over it: the model has
these copies (`Fetch`, `Withdrawn`), and nothing is promised of them. `NothingIsMissing`:
rpmbuild finds every file the spec names. `blamed` counts the temporary directories of killed
processes and failed extractions; a missing SRPM fails before there is a directory. Left out: the copy of the spec beside the SRPM, old SRPMs
that are copied to SOURCES with everything else, where nothing names them, and the
`rpmbuild --rebuild` a user may run in the tree.

### RepoMeta: `mogrix/repometa.py`

Files are missing, torn or whole; the index is missing, or what was committed, and counts
how often the rows of each database are in it, for its tables have no key. Two processes run `ensure_index`: unlink at a
refresh, download per repository (unreachable, without filelists, torn when killed),
create, import inside a transaction, commit. sqlite's write lock is modelled, and an
error while it is held. A refresh starts only while no other process works in the
directory, because sqlite does not define what an open database becomes when its file is
unlinked; this is a bound on what the run says, not on the code. `crowded` is a history:
whether the last call that set out to build the index found another one at it. `RowsOnce`
counts rows: once in the index, and where calls were crowded once for each process at most,
which they may be (two processes that find no index both insert and commit theirs).

### Roadmap, BuildOrder, RoadmapReport: `mogrix/roadmap.py`

`Roadmap` is `resolve()`: `Resolve` takes the head of the queue and goes through its
requirements, each dropped, from the sysroot, unresolvable or provided by a package;
`LeaveOut` is a package past the depth limit, `Skip` one visited before.
What a name resolves to (`_resolve_provider()`) and what a rule drops
(`_compute_effective_drops()`) are inputs of the model: the run has every choice of them within its bounds.
`BuildOrder` is `_topological_sort()`, one step per turn of its loops, with explicit call
stack, low links and in-degrees. The condensed graph is counted edge by edge
(`CountEdge`, lines 588-594): an edge between two components counts once, whichever of the
edges between their packages comes first. `RoadmapReport` runs the one and then the other on the
same variables and numbers the report. The reference definitions that
the properties compare with use nothing of the algorithms: `Near` is a recursive function, the
packages that many steps or fewer from the target, for `ReportIsComplete`; a package `Reaches`
the members of every set that it is in and no edge leaves, and two are `Together` when each
reaches the other, for `ComponentsAreComplete`.

### Staging: `mogrix/staging.py`, `mogrix/cli.py`, `cleanup.sh`

Seven resources: the two libraries, the two header trees, the compat headers (one
resource), and the two wrappers; each absent, in part or whole. A command is a list of
operations, one per resource (`ensure`, `resync`, `write`, `over`, `rm`), which it works
off in its order; a tree is removed and copied in two steps, so that another command, a
kill or an error can come between. `Look` at a missing tree is followed by the second look of
`_ensure_headers()` (`dst.exists()` before `rmtree`), so an `ensure` also removes a tree that another
command has made since its first look. `Write` and `CannotWrite` follow the conditions of
`_ensure_runtime_libs()` and `copytree()`; an error is recorded and passed over by
`staging.py` and ends the other commands. `Recheck` and `Validate` are the two looks
before a build. `blamed` is a history: resources that a killed command, or one that
reported the error, left in part.

### BundleHost: the scripts `mogrix/bundle.py` generates

`dir` is each bundle's directory; `trampoline`, `executable`, `registry` and `tmp` are the
shared bin directory: what a command runs, its permission, how many lines the registry has for it,
and the temporary file the registry is filtered into. A script is a process: install
unpacks, then per command writes the trampoline (head, exec line, chmod) and registers it
(truncate, filter, move, append); uninstall removes the commands the registry says are its own,
then the lines, then says how to remove the directory, which the person may do. The order in
which a script goes through its commands is left open. The head of a trampoline is written in one
step, its three lines have no effect apart.

Rewriting the registry (`mogrix/bundle.py:1356`, `:203`) is three steps of the shell's: the
redirection empties the temporary file all scripts share, grep copies the registry into the file it
was given, and `; mv` follows whatever grep did. `out` is what each shell's open file is called by
now: another script's `mv` may have made it the registry, which its grep then reads and writes.
Two scripts side by side may so lose any line of any bundle (`Mixtures`), and a full disk may
keep any part of what is written away (`WriteFails`). The code prevents neither, and the
properties promise nothing for such cases: `alone` is TRUE until a second script runs
beside or a write fails, and `shaky`, the commands nothing is promised of, are then all of
them. A kill makes shaky only the commands its script was at. What the properties do promise
is of scripts that run one after the other, with a kill at any step. `torn` are the directories a killed or
failed tar left in part, one that failed in silence behind the pipe (`UnpackedInPart`,
`:147`) included. A host starts with any set of bundles installed. Left out: lines that are torn
in the middle and then read as another name, a trampoline whose first lines a full disk
keeps away.

`RegistryIsTrue`: a command that is not shaky runs the bundle the registry names, once, and
can be executed. `ImplementsOwners` is the refinement of `CommandOwners`: such a command changes
hands only by an install of a bundle that provides it, and is lost only to its owner's
uninstall. `CommandsLeadToBundles`: the bundle such a command runs is there, unless it was tested
since it was installed (`taken`) or its extraction failed or is going on.

### BundleTest: `tools/mogrix-test-server.py` on that host

`test` is the one call of `test_bundle` the server is in: mkdir, copy, run, clean up, report.
The connection `up` may be lost at any step; a command that ended with 255 is tried a second
time on a new connection; a command that ran into its timeout goes on as an orphan. The
test script reports each test as it goes; its own watchdogs end hung tests; the server's
timeout may `cut` it. A result line is true of the bundle only while the directory is whole and no test
before was skipped: the watchdog (`mogrix/test.py:226`) ends the subshell and not the program, which goes on writing into
the file the next test's output is read from. The copy is a pipe whose status is ssh's: that
the local tar failed is "Deployed" as well (`DeploysPart`, `part`). `touched` remembers that others changed the directory
under the test. `taken` are bundles whose directory a test has overwritten or removed, until they
are installed again: testing an installed bundle removes it. `ReportIsHonest` says what a verdict is
worth: with no test skipped, the directory not touched and the copy whole, a reported failure is one,
and "passed" is true except of tests that a timeout or a lost connection cut off; the exceptions are the
code's own, and the server does not tell them from a success. `TestsReturn` assumes fairness of the
server's own process and of its timers only; the host, the connection and the scripts may stop for
ever. Left out: the error returns before the connection is used (no such file, no test
script), which change nothing on the host.

## Runs

Every run ends within three minutes on two workers. `CHECK_DEADLOCK FALSE` stands where
a bound on calls, or the end of a program, stops the system.

| Run | Question | Instance | States |
|---|---|---|---|
| `cookie_stream` | does a stream keep order and content, report its end honestly, die of SIGPIPE only where it must, and implement the channel? | 2 different bytes, pipe and buffer of 2, 4 bytes in all | 37 thousand |
| `at_calls` | does a detour leak, work elsewhere, or lose the directory? | 2 threads, 2 directories | 1.5 million |
| `batch_build` | what is published, reported and stopped, and does a batch end? | 2 packages (one with two RPMs), all 32 command lines, 2 runs | 746 thousand |
| `repo_meta` | are rows imported once and wholly? | 2 processes, 2 repositories, 3 calls, symmetry | 276 thousand |
| `roadmap` | is everything found, placed, ordered? | every graph of 4 packages; graphs of 3 with one more name that is an alias, part of the sysroot or unknown, drops, depth 0 or 1, stop-at-rules | 314 thousand |
| `compat_calls` | does a failing call clean up, and only after itself? are times and lines what was asked for? | 2 threads with 2 calls in all, 4 descriptors, lines of 4 characters, blocks of 2, 3 seconds, symmetry | 566 thousand |
| `socketpair` | do pairs belong together, is anything left, do lone calls return? | 3 threads of one process and 1 of another, 3 calls in all | 231 thousand |
| `staging` | is what is half written accounted for, do builds have their base, are refusals justified? | 2 processes, 3 commands, 1 failure or kill, 3 initial directories, with and without library sources, symmetry | 3.3 million |
| `bundle_host` | do commands belong to whom the registry says, lead to bundles, and are verdicts true? | 2 shells and the test server, 2 bundles that share a command, 2 tests of which one fails, 2 scripts or tests, 1 fault, every host | 789 thousand |
| `conversion` | is a returned SRPM right and complete, does a batch account for all, do temporary directories go? | 2 processes, 3 SRPMs of 2 packages, 2 commands, 1 edit of the rules, 1 fault, symmetry | 1.63 million |

Two more runs each refute one sentence of the repository: `batch_skip_prefix` and
`staging_bootstrap`.

Why the bounds are enough. Two actors suffice for every race here, because each is
between one that has read and one that changes what was read; where a third matters (a
process that inherits a number, a second run after an interrupted one, a third command
after two that collided) the bound counts it. Four bytes through buffers of two make
every chunk fill, wrap and come short. Four packages have every pair of components joined
in every way, and three in a cycle with one outside. One fault in `staging` is one beyond
the collisions between commands, which are not counted. Three calls that share a path are
the least for which `socketpair()` returns a wrong pair; two versions of one package are the
least that overwrite each other's spec, two bundles with a common command the least that
take it from each other. Blocks of 2 and lines of 4 make `getdelim()` grow twice. Two RPMs of one package are the
least that can be published in part. Where proofs exist (below) the bounds do not matter.

Each property has a mutant in `PROJECT.json`, a plausible mistake in the code (a missing
guard, a swapped order, a reset that was forgotten) under which TLC finds it violated.

## What is proved

The proofs assume what each module's `ASSUME` says of its constants and nothing else:
any number of threads, processes, directories, packages, bytes and calls.

**CompatProofs, streams.** `IInv` is `TypeOK /\ LoopInv /\ ToldInv /\ NothingLost /\
InOrder`. `InOrder` alone is no invariant of a step: that the bytes that come out are a
prefix follows from where each byte is, `sent = delivered \o chunk \o pipe` (or with the
two exchanged), which holds only at some places of the loop; `LoopInv` ties the place to
what is open, allocated and held, `ToldInv` what the application was told to what is
left. From it: types and buffer limits (`StreamTypeCorrect`), order (`OrderPreserved`), no byte
dropped while the proxy runs (`Conservation`), end of stream only after everything was
read and closefn has run (`EofComplete`), EPIPE only after the callback failed
(`NoSpuriousBrokenPipe`), the two situations in which SIGPIPE kills (`KillSituations`),
closefn once and last (`CallbacksStop`), and the refinement (`Refinement`: the initial
state maps to the channel's, every step to a step or a stutter).

**AtCallsProofs.** `Local(c)` says of each place in a call what it holds and shows;
`Solo(c)` says, while nobody else moved, where the process is. A step of another caller
keeps the first because it touches none of c's fields, and ends the second. From both:
`TypeCorrect`, `LeakFree`, `Located`, `LossReported`, `DirectoryReturned`.

**BuildProofs, batches.** `Inv` is `TypeOK /\ Placed /\ Flow /\ NoBuildInDryRun /\
SuccessIsPublished`; `Flow` follows an RPM from the build that wrote it into the
snapshot's difference and to the output directory. From it: `Published`,
`ReportedIsPublished`, `BuildTypeCorrect`. `Reported` adds that the results are those of the tasks so
far, one each and in their order, that of those before the last none stopped the loop, and what a
task has been through to be at its place; from it `ReportFollows` and `StopsOnError`.

**RepoMetaProofs.** Per repository, `Dealt` says whether the builder has been through it
and `Imported` what then is in its transaction; `Fresh` says that a build inserts the rows of
a database once. They are committed once because nobody joins the builders once an index
exists, and a call that entered alone stays alone until it has committed: builds made and
builders under way together are never more than the processes, and one where it was not crowded. From it `TypeCorrect`, `Committed`, `Once`.

**SocketPairProofs.** Calls that have loaded one counter value know each other (they are
`Rivals`), and the counter is never ahead of the calls that loaded it. Every path is that of the call
that bound it (`Owned`), so whoever connects finds its own listener or a rival's, and whoever waits
at a listener is one of the two (`Connected`). From it `TypeCorrect`, `NothingStays`, `Connects`.

**BundleHostProofs.** A script that is alone may trust what it has read of the registry, and its
file is the temporary file and nobody else's (`Rewritten`, `Emptied`); beside one that is not alone
every command is shaky, since what greps and moves side by side make of the registry is
not known. So the only steps that change a sound
command's trampoline are those of lone scripts, and of those each has read that it may.
From it `TypeCorrect`, `RegistryTrue`, and the refinement of `CommandOwners`
(`Refinement`), with the test server's steps among those that change nothing of it.
`CommandsLead` adds `Led`: a lone install works on a bundle that is there, a lone uninstall
that has swept the registry has left no command that leads to its bundle (so that its
directory may go), and the server changes only directories it has taken. `HonestReports`
adds `Truthful`: while nobody else touches the directory under test and the copy was not cut off in
silence, the directory is what the server's own steps make it, and as long as no test was
skipped every line that has arrived is true of the bundle.

**CompatProofs, calls.** Until a foreign close every thread owns exactly what its call has opened
(`Held`), what it has closed it holds no more (`Closed`), and threads' descriptors are
apart (`Apart`); afterwards only what a call itself holds is claimed. `AsAsked` ties
futimens()'s copies of the times to the file while nobody else touches it; of getdelim() the
invariant is that there is room for the next character and its terminator. From it
`CallsTypeCorrect`, `LeakFree`, `ForeignDescriptors`, `TimesSet`, `LinesSound`.

**BuildProofs, the staging directory.** That what is in part is *accounted for* is not inductive: a writer whose
tree is removed under it makes the directory anew, after it has been reported removed.
`IInv` adds who is responsible. `Covered` says that every resource that is in part, or is
a missing tree with such a writer, is blamed or on the hands of a command that is not one
of these, and a command that removes a tree another has made answers for it until it has
copied its own; `AllOrderly` says that `cleanup.sh` removes before it writes and writes every
tree again, so that its responsibility does not end with the removal, and that no other
command removes a tree for good. From it `StagingTypeCorrect` and `Accounted`. `LoneBuilds` rests
on two more facts, proved on top: a command that is alone finds every other process idle
(`Solo`), and a build that came through its looks alone still finds what it saw
(`Looked`). `RefusalsAreJustified` rests on `Tried`: what is not on a lone build's list any
more, while no operation of it has failed, is there, or is a library that cannot be written
for a reason of its own; this needs that the headers come before the libraries that are
compiled with them.

**ConversionProofs.** `RulesApplied` comes first and knows nothing of processes: what `Apply`
makes of the BuildRequires is what `Wanted` says, for every book of rules, by induction over
the classes. `IInv` then says who is alone (`Alone`), what a batch has been through
(`Accounted`), that there is a temporary directory for each conversion that holds one and for
each fault that left one (`CountsTemporaries`), and what a conversion that nobody overlaps
has done at its place and finds as it left it (`OnTheWay`): its files in the output
directory, then its spec and its files in the tree, then its SRPM as the newest there. The others
need not be looked at: they are idle, and who begins ends the solitude. From it
`ReturnedSrpms` (`ResultsAreTrue`), `FilesForRpmbuild` (`NothingIsMissing`), `BatchReports`
(`BatchAccountsForAll`) and `TemporaryDirectories` (`TemporariesAreAccountedFor`).

**RoadmapProofs, the search.** `RoadmapInv` bounds the queue, so that a turn of the loop is
typed. `Search` is what breadth-first search rests on: the queue holds packages of one depth and
then of the next (`LevelByLevel`); who is found at a depth is that near (`FoundIsNear`); what a
package that has been reported leads to was visited or waits, at most one step further than
the package is (`NearIsFound`). That `Near` is what walks through the graph reach (`NearIs`) is an
induction of its own, and so is that the levels before the head's have been visited
(`VisitedByLevel`). From it `EveryNamePlaced`
(`EveryNameHasItsPlace`) and `CompleteGraph` (`ReportIsComplete`).

**RoadmapProofs, the sort.** `SortInv` has a part for each phase. *Tarjan:* the indices are those
of the turns (`Numbering`); the stack is in their order and holds what was seen and is in no
component (`Stacked`); the calls under way are a path, each of them at an edge of the one before
(`CallsAreAPath`, `CallsReach`); who is on the stack reaches a call at or before it
(`ReachesACall`); a low link is the index of a package on the stack that is reached
(`LowLinkIsReached`), and no edge that was explored leads below it (`LowLinkIsLow`). So when
a call returns whose low link is its own index, what lies above it on the stack reaches it
and is reached from it, and with the components found before it is closed under the edges:
it is a component in full, and `Components` holds of one more. *Kahn:* while the edges are counted, a
pair of components is known when one of the edges gone through joins them, and an in-degree is the
number of the pairs known (`Counting`); afterwards an in-degree
counts the predecessors that are not sorted (`Counted`) and predecessors come first
(`SortedFirst`). None is left over at the end (`AllSorted`): Tarjan finds a component
after all that its edges lead to, so of those not sorted the one found last would have no
predecessor that is not sorted, and be ready. *Expansion:* what is placed are the components up to
the position, in their turn (`Expansion`, `InTurn`). From it `ComponentsComplete`
(`ComponentsAreComplete`) and `OrderToBuildIn` (`DependenciesFirst`), for every graph of any
finite number of packages.

The type invariants are theorems or parts of the inductive invariants above, for every value of the
constants, and no run repeats them, except `ReportIsComplete`, which has it as a conjunct.

**Induction.** The library's induction theorems take an operator as parameter, which no installed prover
can instantiate. The proofs of `Conversion` and of `Roadmap` use sets instead (`SmallestMember`,
`SetInduction`): a set of natural numbers that is not empty has a smallest member, so a set that has 0 and
with every number the next is all of Nat; what is to be shown of n is made the
set of the n of which it holds. A recursive function stands
for a CHOOSE among the functions that solve its equation; the lemmas `ClassesApplied` and
`NearIs` give such a function without recursion, and so have the equation.

**Only model-checked.** The four liveness properties, `FlushedInTheEnd`, `BatchEnds`,
`LoneCallsReturn` and `TestsReturn`: the provers at hand have no rule for fairness and ENABLED. Every
other property of a run that passes, invariant or action property, is a theorem.

## Where the code and its documentation disagree

Shown by a run, with the counterexample TLC prints:

* `batch_skip_prefix`: `_check_has_rpms` (`mogrix/batch_build.py:413`) matches
  `{package}-*.rpm`, so the RPMs of foo-utils make foo count as "Already built" (line 36).
* `staging_bootstrap`: a refused build advises `mogrix setup-cross` (`mogrix/cli.py:967`),
  which refuses to run in the directory that the build just made.

Met while modelling, without a run of their own:

* `funopen()` closes the FILE's descriptor a second time when the thread cannot be started
  (`compat/stdio/funopen.c:187`): after `fclose()`, the number may be another thread's.
  `fopencookie()` marks it as given away.
* `copytree()` interrupted leaves a tree that counts as ready for ever
  (`mogrix/staging.py:240`); the model has it as a `blamed` resource.
* `stage --clean` has a list of base files to preserve (`mogrix/cli.py:1888`) and removes `libatomic.a`,
  `irix-compat.h` and `getopt.h`; the next `ensure_ready()` makes them again.
* A multiarch header staged again renews the x86_64 copy only (`mogrix/cli.py:2008`).
* A call of `ensure_index` that is killed leaves an empty index that later calls return
  (`mogrix/repometa.py:116`; line 105: "Download and build if needed").
* The "Atomic counter for unique socket paths" (`compat/sys/socketpair.c:24`) is a plain
  `int++`. Two threads may take one path, and return pairs whose ends are each other's.
* `dprintf()` does not look at what `fclose()` returns: what could not be written counts as
  printed.
* `getdelim()` keeps the caller's old pointer when a later `realloc` fails after one that
  moved the block (`compat/stdio/getline.c`): the caller's pointer dangles.
* `utimensat()` compares with constants of its own for UTIME_NOW and UTIME_OMIT
  (`compat/dicl/openat-compat.c:867`), `futimens()` with the header's.
* `futimens()` with UTIME_OMIT writes the second the file had and a fraction of zero
  (`compat/dicl/openat-compat.c:1022`, `1033`), although its `utimes()` "only has microsecond
  precision" (line 986): the time that was to be left alone loses its microseconds.
* A test script that runs into the timeout or is cut short has no summary line, and is summed
  up as passed (`tools/mogrix-test-server.py:932`).
* Testing a bundle that a user has installed overwrites and then removes its directory;
  its commands stay.
* Uninstalling the last owner of a shared command removes it, though another bundle that provides
  it is still installed (`mogrix/bundle.py:1366`): the registry knows one owner.
* `convert` looks for the patches of the rules in the package's directory and in
  `patches/shared` (`mogrix/cli.py:346`), `batch` in the package's directory only
  (`mogrix/batch.py`): the same SRPM is converted without its shared patches, in silence.
* BuildRequires that rules add are lost when every line the spec had was dropped
  (`mogrix/emitter/spec.py:184`), and the first of several names of a line is not dropped
  (`:97`).
* Install and uninstall scripts that run side by side, and one on a full disk, may lose registry lines of
  bundles that take no part (`mogrix/bundle.py:1356`).
* A local `tar` that fails is "Deployed": the status of the pipe is ssh's
  (`tools/mogrix-test-server.py:240`).
* An SRPM that cannot be extracted leaves its temporary directory behind.

## What is not modelled

By lines of C, most of the repository is not mogrix: `docs/rld` holds 35 thousand lines of a
decompiled run-time linker and listings of it, which are notes for its authors and are not built, `cross/include`
headers of a compiler's library for the target, `patches` stubs that return constants. Nothing
in them keeps state that several parties change, and no model maps them. Of the C that ported
programs run, the models cover the functions of `compat/` that open, close, wait or share
something; what is left are functions of their arguments (strings, numbers, searching),
`mkdtemp()`, whose only state is the directory it makes, the program's name and environment,
and `qsort_r()` and `pselect()`, whose comments name the windows they leave. The porting
tool is Python, and there the models cover the commands that change files or hosts.

Text: what is left of the spec parser and writer, injectors and catalogs rewrite
characters, which models abstract from. Network input and output of `deps/` and
`upstream.py`: their outcomes are choices in `BatchBuild` and `RepoMeta`. Queries, reports
and linters change nothing. Toolchain wrappers and ELF editors are single processes
without lasting state; making a bundle fills a fresh directory and shares nothing. Vendored
code (dlmalloc, sqlite, rld) and headers. Of the modelled components: which version of a
repository a database describes; an interrupted download that counts as an SRPM
(`mogrix/deps/fedora.py:203`); staged packages beside the base; the output formats of roadmap;
rules other than those about BuildRequires and files; uploads and screenshots of the
test server; the buffer of `open_memstream()`, which no program reaches since
`funopen()` refuses the kind of stream it asks for.

The kernel, sqlite, rpmbuild and the shell are modelled from how the code uses them: each
call succeeds or fails, with the effect its documentation gives it.

## Plan

1. The compat library's concurrency: `CookieStream` and its abstract channel, `AtCalls`,
   `CookieOpen`, `SocketPair`, with proofs of all of them. Done.
2. The batch: `BatchBuild` with proofs. Done.
3. Shared files: `RepoMeta` and `Staging`, with proofs. Done.
4. Graphs: `Roadmap`, `BuildOrder`, composed by `RoadmapReport`, with proofs. Done.
5. Bundles: `BundleHost` and its abstract `CommandOwners` with proofs, and `BundleTest`, the
   test server beside them. Done.
6. `CompatCalls`: times, descriptors and lines, with proofs. Done.
7. `Rules` and `Conversion`: the stages of the rules and the tree conversions share,
   with proofs. Done.
8. Proofs of every safety property the runs check. Done. What the next part adds is to be
   proved with it.
9. Left to model: `Port`, batch-build over `Staging` and `Conversion`, with each convert and build of a
   batch going through `ensure_ready()` and refused when that refuses; downloads that are
   interrupted (`deps/fedora.py:203`); which day's version of a repository a database
   describes (`repometa.py:159`).

## Running it

    tlasany Staging.tla                              # parse
    tlc -workers 2 -config MCStaging.cfg MCStaging   # check
    tlapm BuildProofs.tla                            # prove

`PROJECT.json` names for each run its module, configuration and properties, for each
definition the lines of source it models, and for each property its mutant.
