------------------------------ MODULE RepoMeta ------------------------------
(***************************************************************************)
(* mogrix/repometa.py: ensure_index() fetches the metadata databases of    *)
(* the Fedora repositories into a cache directory and merges them into one *)
(* sqlite index.  Everything in the directory is trusted because it is     *)
(* there, so what matters is what a call that fails, or whose process ends *)
(* half way, leaves for the calls after it and for a call in another       *)
(* process.                                                                *)
(*                                                                         *)
(* Which version of a repository a database describes is left out.         *)
(*                                                                         *)
(* A refresh unlinks the index.  sqlite does not say what happens to a     *)
(* process that has an unlinked database open, so a refresh starts here    *)
(* only while no other process works in the directory.                     *)
(***************************************************************************)
EXTENDS Naturals, Sequences, FiniteSets

CONSTANTS
  Procs,       \* the processes that call ensure_index
  Repos,       \* REPOS, in their order
  Binaries,    \* the repositories of binary packages: they have filelists
  MaxCalls,    \* bound: calls of ensure_index
  Nobody

RepoSet == {Repos[i] : i \in DOMAIN Repos}

ASSUME RepoAssumption ==
  /\ Repos \in Seq(RepoSet) /\ Repos # << >>
  /\ Binaries \subseteq RepoSet
  /\ \A i, j \in DOMAIN Repos : Repos[i] = Repos[j] => i = j
  /\ IsFiniteSet(Procs) /\ MaxCalls \in Nat
  /\ Nobody \notin Procs

VARIABLES
  cached,    \* the files {key}-primary.sqlite and {key}-filelists.sqlite
  index,     \* index.sqlite, as committed
  lock,      \* the process that holds sqlite's write lock on it
  call,      \* the call of ensure_index each process is in
  crowded,   \* history: of the calls that build the index, did the last to enter find
             \* another one building
  calls      \* bound: calls so far

vars == <<cached, index, lock, call, crowded, calls>>

Files == (RepoSet \X {"primary"}) \cup (Binaries \X {"filelists"})

(* A file that is torn lacks its end: sqlite refuses it.                   *)
FileStates == {"missing", "torn", "whole"}

(* What one import puts into the index.  The tables have no key that would *)
(* object to the same rows again, so that the index counts how often they  *)
(* are in it.                                                              *)
Rows == RepoSet \X {"primary", "filelists"}

None == [r \in Rows |-> 0]

NoIndex == [exists |-> FALSE, schema |-> FALSE, builds |-> 0, rows |-> None, warned |-> {}]

PCs == {"idle", "repomd", "primary", "filelists", "fetched", "writing", "connect", "schema",
        "importPrimary", "importFilelists", "commit", "open"}

Idle == [pc |-> "idle", refresh |-> FALSE, pos |-> 1, offers |-> {}, target |-> "primary",
         primaries |-> {}, filelists |-> {}, warned |-> {}, pending |-> None]

TypeOK ==
  /\ cached \in [Files -> FileStates]
  /\ index \in [exists : BOOLEAN, schema : BOOLEAN, builds : Nat,
                rows : [Rows -> Nat], warned : SUBSET RepoSet]
  /\ lock \in Procs \cup {Nobody}
  /\ crowded \in BOOLEAN
  /\ calls \in 0..MaxCalls
  /\ call \in [Procs -> [pc : PCs, refresh : BOOLEAN, pos : 1..(Len(Repos) + 1),
                         offers : SUBSET {"primary", "filelists"},
                         target : {"primary", "filelists"},
                         primaries : SUBSET RepoSet, filelists : SUBSET Binaries,
                         warned : SUBSET RepoSet, pending : [Rows -> Nat]]]

Init ==
  /\ cached = [f \in Files |-> "missing"]
  /\ index = NoIndex
  /\ lock = Nobody
  /\ call = [p \in Procs |-> Idle]
  /\ crowded = FALSE
  /\ calls = 0

-----------------------------------------------------------------------------
At(p, pc)   == call[p].pc = pc
Repo(p)     == Repos[call[p].pos]
Last(p)     == call[p].pos > Len(Repos)
Becomes(p, c) == call' = [call EXCEPT ![p] = c]

(* The loop of _download_all_metadata goes on with the next repository;    *)
(* after the last one the index is built.                                  *)
NextRepo(c) ==
  [c EXCEPT !.pos = c.pos + 1,
            !.pc = IF c.pos = Len(Repos) THEN "connect" ELSE "repomd"]

(* The loops of _build_index: every repository, then every filelists.      *)
NextImport(c, this, next) ==
  IF c.pos = Len(Repos) THEN [c EXCEPT !.pos = 1, !.pc = next]
                        ELSE [c EXCEPT !.pos = c.pos + 1, !.pc = this]

(* The call is in the middle of finding or building the index.             *)
Working(q) == ~At(q, "idle") /\ ~At(q, "open")

Added(n, m) == [r \in Rows |-> n[r] + m[r]]

-----------------------------------------------------------------------------
(* Mistakes the properties must tell from the code; no part of Next.       *)

(* The rows of every repository are committed on their own.                *)
ImportPrimaryCommitting(p) ==
  /\ At(p, "importPrimary") /\ lock \in {p, Nobody}
  /\ LET v == cached[<<Repo(p), "primary">>] IN
       IF Repo(p) \notin call[p].primaries THEN index' = index
       ELSE /\ v # "torn"
            /\ index' = [index EXCEPT !.rows[<<Repo(p), "primary">>] = @ + 1]
  /\ Becomes(p, NextImport(call[p], "importPrimary", "importFilelists"))
  /\ UNCHANGED <<cached, lock, crowded, calls>>

(* A refresh leaves the old index where it is.                             *)
EnsureIndexKeeping(p) ==
  /\ At(p, "idle") /\ calls < MaxCalls
  /\ calls' = calls + 1
  /\ \E refresh \in BOOLEAN :
       LET c == [Idle EXCEPT !.refresh = refresh] IN
       /\ refresh => \A q \in Procs \ {p} : At(q, "idle")
       /\ Becomes(p, [c EXCEPT !.pc = IF index.exists /\ ~refresh THEN "open" ELSE "repomd"])
       /\ crowded' = IF index.exists /\ ~refresh THEN crowded
                     ELSE \E q \in Procs \ {p} : Working(q)
  /\ UNCHANGED <<cached, index, lock>>

-----------------------------------------------------------------------------
(* ensure_index                                                            *)

(* An index that exists is the index, unless a refresh is asked for: then  *)
(* it goes before anything is downloaded.                                  *)
EnsureIndex(p) ==
  /\ At(p, "idle") /\ calls < MaxCalls
  /\ calls' = calls + 1
  /\ \E refresh \in BOOLEAN :
       LET c == [Idle EXCEPT !.refresh = refresh] IN
       /\ refresh => \A q \in Procs \ {p} : At(q, "idle")
       /\ IF index.exists /\ ~refresh
            THEN Becomes(p, [c EXCEPT !.pc = "open"]) /\ UNCHANGED <<index, crowded>>
            ELSE /\ Becomes(p, [c EXCEPT !.pc = "repomd"])
                 /\ index' = IF refresh THEN NoIndex ELSE index
                 /\ crowded' = \E q \in Procs \ {p} : Working(q)
  /\ UNCHANGED <<cached, lock>>

(* _parse_repomd: the databases repomd.xml lists,                         *)
Repomd(p) ==
  /\ At(p, "repomd")
  /\ \E offers \in SUBSET {"primary", "filelists"} :
       Becomes(p, [call[p] EXCEPT !.pc = "primary", !.offers = offers])
  /\ UNCHANGED <<cached, index, lock, crowded, calls>>

(* The repository cannot be reached: a warning, and it is left out.        *)
RepomdFails(p) ==
  /\ At(p, "repomd")
  /\ Becomes(p, NextRepo([call[p] EXCEPT !.warned = @ \cup {Repo(p)}]))
  /\ UNCHANGED <<cached, index, lock, crowded, calls>>

(* A file that exists is not downloaded.                                   *)
UsePrimary(p) ==
  /\ At(p, "primary") /\ "primary" \in call[p].offers
  /\ cached[<<Repo(p), "primary">>] # "missing"
  /\ Becomes(p, [call[p] EXCEPT !.pc = "filelists",
                                !.primaries = @ \cup {Repo(p)}])
  /\ UNCHANGED <<cached, index, lock, crowded, calls>>

(* repomd.xml names no primary database: a warning.                        *)
NoPrimary(p) ==
  /\ At(p, "primary") /\ "primary" \notin call[p].offers
  /\ Becomes(p, [call[p] EXCEPT !.pc = "filelists", !.warned = @ \cup {Repo(p)}])
  /\ UNCHANGED <<cached, index, lock, crowded, calls>>

WantsFilelists(p) == Repo(p) \in Binaries /\ "filelists" \in call[p].offers

UseFilelists(p) ==
  /\ At(p, "filelists")
  /\ WantsFilelists(p) => cached[<<Repo(p), "filelists">>] # "missing"
  /\ Becomes(p, NextRepo([call[p] EXCEPT !.filelists =
                            IF WantsFilelists(p) THEN @ \cup {Repo(p)} ELSE @]))
  /\ UNCHANGED <<cached, index, lock, crowded, calls>>

(* A file that is missing is fetched into memory ...                       *)
Fetch(p) ==
  /\ \E db \in {"primary", "filelists"} :
       /\ At(p, db) /\ db \in call[p].offers
       /\ <<Repo(p), db>> \in Files /\ cached[<<Repo(p), db>>] = "missing"
       /\ Becomes(p, [call[p] EXCEPT !.pc = "fetched", !.target = db])
  /\ UNCHANGED <<cached, index, lock, crowded, calls>>

(* ... and then write_bytes() creates or truncates it                      *)
Truncate(p) ==
  /\ At(p, "fetched")
  /\ cached' = [cached EXCEPT ![<<Repo(p), call[p].target>>] = "torn"]
  /\ Becomes(p, [call[p] EXCEPT !.pc = "writing"])
  /\ UNCHANGED <<index, lock, crowded, calls>>

(* ... and fills it.                                                       *)
WriteFile(p) ==
  /\ At(p, "writing")
  /\ cached' = [cached EXCEPT ![<<Repo(p), call[p].target>>] = "whole"]
  /\ Becomes(p, IF call[p].target = "primary"
                THEN [call[p] EXCEPT !.pc = "filelists",
                                     !.primaries = @ \cup {Repo(p)}]
                ELSE NextRepo([call[p] EXCEPT !.filelists = @ \cup {Repo(p)}]))
  /\ UNCHANGED <<index, lock, crowded, calls>>

-----------------------------------------------------------------------------
(* _build_index                                                            *)

(* sqlite creates the file on opening it.                                  *)
Connect(p) ==
  /\ At(p, "connect")
  /\ index' = [index EXCEPT !.exists = TRUE]
  /\ Becomes(p, [call[p] EXCEPT !.pc = "schema"])
  /\ UNCHANGED <<cached, lock, crowded, calls>>

(* executescript() commits each CREATE TABLE IF NOT EXISTS.                *)
CreateSchema(p) ==
  /\ At(p, "schema")
  /\ index' = [index EXCEPT !.schema = TRUE]
  /\ Becomes(p, [call[p] EXCEPT !.pc = "importPrimary", !.pos = 1])
  /\ UNCHANGED <<cached, lock, crowded, calls>>

(* The first INSERT takes the write lock and keeps it until the commit.    *)
(* sqlite refuses a torn database: see Fails.                              *)
ImportPrimary(p) ==
  /\ At(p, "importPrimary")
  /\ LET row == <<Repo(p), "primary">>
         next == NextImport(call[p], "importPrimary", "importFilelists") IN
       IF Repo(p) \in call[p].primaries
         THEN /\ cached[row] # "torn" /\ lock \in {p, Nobody}
              /\ lock' = p
              /\ Becomes(p, [next EXCEPT !.pending[row] = @ + 1])
         ELSE Becomes(p, next) /\ lock' = lock
  /\ UNCHANGED <<cached, index, crowded, calls>>

(* The package keys are looked up in whatever primary database is there;   *)
(* without one there are no rows.                                          *)
ImportFilelists(p) ==
  /\ At(p, "importFilelists")
  /\ LET k == Repo(p)
         next == NextImport(call[p], "importFilelists", "commit") IN
       IF k \in call[p].filelists /\ cached[<<k, "primary">>] # "missing"
         THEN /\ cached[<<k, "filelists">>] # "torn" /\ cached[<<k, "primary">>] # "torn"
              /\ lock \in {p, Nobody}
              /\ lock' = p
              /\ Becomes(p, [next EXCEPT !.pending[<<k, "filelists">>] = @ + 1])
         ELSE Becomes(p, next) /\ lock' = lock
  /\ UNCHANGED <<cached, index, crowded, calls>>

Commit(p) ==
  /\ At(p, "commit") /\ lock \in {p, Nobody}
  /\ index' = [index EXCEPT !.builds = @ + 1,
                            !.rows = Added(@, call[p].pending),
                            !.warned = @ \cup call[p].warned]
  /\ lock' = Nobody
  /\ Becomes(p, [call[p] EXCEPT !.pc = "open", !.pending = None])
  /\ UNCHANGED <<cached, crowded, calls>>

-----------------------------------------------------------------------------
(* An exception (a download that fails, a torn database, a lock that is    *)
(* not released in time) or the end of the process: the transaction is     *)
(* rolled back, the files stay as they are.                                *)
Fails(p) ==
  /\ call[p].pc \notin {"idle", "open"}
  /\ Becomes(p, Idle)
  /\ lock' = IF lock = p THEN Nobody ELSE lock
  /\ UNCHANGED <<cached, index, crowded, calls>>

(* The caller has made its queries and closes the connection.              *)
Close(p) ==
  /\ At(p, "open")
  /\ Becomes(p, Idle)
  /\ UNCHANGED <<cached, index, lock, crowded, calls>>

Download(p) == \/ Repomd(p) \/ RepomdFails(p) \/ UsePrimary(p) \/ NoPrimary(p)
               \/ UseFilelists(p) \/ Fetch(p) \/ Truncate(p) \/ WriteFile(p)

Build(p) == \/ Connect(p) \/ CreateSchema(p) \/ ImportPrimary(p)
            \/ ImportFilelists(p) \/ Commit(p)

Next == \E p \in Procs : \/ EnsureIndex(p) \/ Download(p) \/ Build(p)
                         \/ Fails(p) \/ Close(p)

Spec == Init /\ [][Next]_vars

-----------------------------------------------------------------------------
(* What is committed is a whole build: no row is there before all of them, *)
(* and a repository is missing only where a warning said so.               *)
CommittedIsWhole ==
  /\ index.builds = 0 => index.rows = None
  /\ index.builds > 0 =>
       \A k \in RepoSet \ index.warned : index.rows[<<k, "primary">>] > 0

(* The rows of a database are in the index once, whatever calls failed,    *)
(* were killed or refreshed it before; unless calls found no index at the  *)
(* same time: these commit one after the other, and each of them puts its  *)
(* rows beside the others', so that they are there once for each process   *)
(* at most.                                                                *)
RowsOnce ==
  \A r \in Rows : index.rows[r] <= IF crowded THEN Cardinality(Procs) ELSE 1
=============================================================================
