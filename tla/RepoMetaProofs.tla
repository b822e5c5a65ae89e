--------------------------- MODULE RepoMetaProofs ---------------------------
(***************************************************************************)
(* Proofs about RepoMeta, for any processes, repositories and calls: what  *)
(* is committed is a whole build, and the rows of a database are in the    *)
(* index once, unless calls found no index at the same time.  A process    *)
(* that builds has found no index, so that all who build at the same time  *)
(* have entered before the first of them connected; a build inserts the    *)
(* rows of a database once, and commits once.                              *)
(***************************************************************************)
EXTENDS RepoMeta, FiniteSetTheorems, TLAPS

Records == [pc : PCs, refresh : BOOLEAN, pos : 1..(Len(Repos) + 1),
            offers : SUBSET {"primary", "filelists"}, target : {"primary", "filelists"},
            primaries : SUBSET RepoSet, filelists : SUBSET Binaries,
            warned : SUBSET RepoSet, pending : [Rows -> Nat]]

Downloading == {"repomd", "primary", "filelists", "fetched", "writing"}
Connected   == {"schema", "importPrimary", "importFilelists", "commit"}

(* The processes that have found no index and have not committed theirs.   *)
Building == {p \in Procs : ~At(p, "idle") /\ ~At(p, "open")}

(* Each of them commits once at most, and nobody joins them from the first *)
(* connection on; a call that has entered alone stays alone.               *)
Counted ==
  /\ index.builds > 0 => index.exists
  /\ \A p \in Procs : call[p].pc \in Connected => index.exists
  /\ index.builds + Cardinality(Building) <= Cardinality(Procs)
  /\ \A r \in Rows : index.rows[r] <= index.builds
  /\ ~crowded => /\ index.builds <= 1
                 /\ index.builds > 0 => Building = {}
                 /\ \A p, q \in Building : p = q

(* A repository the loop has been through has a database or a warning ...  *)
Dealt(c, k) == k \in c.primaries \cup c.warned

(* ... and its rows wait for the commit once they are imported.            *)
Imported(c, k) == k \in c.primaries => c.pending[<<k, "primary">>] > 0

(* The rows of a database wait for the commit once at most: those the      *)
(* loops have yet to come to do not wait.                                  *)
Fresh(c) ==
  /\ \A r \in Rows : c.pending[r] <= 1
  /\ c.pc \notin {"importPrimary", "importFilelists", "commit"} => c.pending = None
  /\ c.pc = "importPrimary" =>
       /\ \A i \in c.pos..Len(Repos) : c.pending[<<Repos[i], "primary">>] = 0
       /\ \A k \in RepoSet : c.pending[<<k, "filelists">>] = 0
  /\ c.pc = "importFilelists" =>
       \A i \in c.pos..Len(Repos) : c.pending[<<Repos[i], "filelists">>] = 0

Listed(c) ==
  /\ c.pc \in Downloading =>
       c.pos <= Len(Repos) /\ \A i \in 1..(c.pos - 1) : Dealt(c, Repos[i])
  /\ c.pc = "filelists" => Dealt(c, Repos[c.pos])
  /\ c.pc \in {"fetched", "writing"} =>
       /\ <<Repos[c.pos], c.target>> \in Files
       /\ c.target = "filelists" => Dealt(c, Repos[c.pos])
  /\ c.pc \in {"connect"} \cup Connected => \A k \in RepoSet : Dealt(c, k)
  /\ c.pc = "importPrimary" =>
       c.pos <= Len(Repos) /\ \A i \in 1..(c.pos - 1) : Imported(c, Repos[i])
  /\ c.pc = "importFilelists" => c.pos <= Len(Repos)
  /\ c.pc \in {"importFilelists", "commit"} => \A k \in RepoSet : Imported(c, k)

(* The files that will be imported are there, torn or not.                 *)
There(c, files) ==
  /\ \A k \in c.primaries : files[<<k, "primary">>] # "missing"
  /\ \A k \in c.filelists : files[<<k, "filelists">>] # "missing"

(* A step that leaves what was committed.                                  *)
Grows(i, j) == j \in {i, [i EXCEPT !.exists = TRUE], [i EXCEPT !.schema = TRUE]}

IInv ==
  /\ TypeOK /\ Counted /\ CommittedIsWhole
  /\ \A p \in Procs : Listed(call[p]) /\ There(call[p], cached) /\ Fresh(call[p])

-----------------------------------------------------------------------------
LEMMA Types ==
  ASSUME IInv
  PROVE  /\ call \in [Procs -> Records]
         /\ \A p \in Procs : /\ call[p] \in Records /\ Listed(call[p])
                            /\ There(call[p], cached) /\ Fresh(call[p])
         /\ Len(Repos) \in Nat /\ Len(Repos) >= 1
         /\ \A i \in 1..Len(Repos) : Repos[i] \in RepoSet
         /\ \A k \in RepoSet : \E i \in 1..Len(Repos) : k = Repos[i]
         /\ \A i, j \in 1..Len(Repos) : Repos[i] = Repos[j] => i = j
         /\ Binaries \subseteq RepoSet /\ IsFiniteSet(Procs)
BY RepoAssumption DEF IInv, TypeOK, Records, RepoSet

(* The processes that build are no more than there are.                    *)
LEMMA FewerBuild ==
  ASSUME IsFiniteSet(Procs), NEW S \in SUBSET Procs
  PROVE  /\ IsFiniteSet(S) /\ Cardinality(S) \in Nat /\ Cardinality(Procs) \in Nat
         /\ Cardinality(S) <= Cardinality(Procs)
         /\ \A T \in SUBSET S : Cardinality(T) \in Nat /\ Cardinality(T) <= Cardinality(S)
         /\ \A p \in S : Cardinality(S \ {p}) = Cardinality(S) - 1
PROOF
<1>1. IsFiniteSet(S) BY FS_Subset
<1>2. \A T \in SUBSET S : IsFiniteSet(T) /\ Cardinality(T) <= Cardinality(S) BY <1>1, FS_Subset
<1>3. \A p \in S : Cardinality(S \ {p}) = Cardinality(S) - 1 BY <1>1, FS_RemoveElement
<1> QED BY <1>1, <1>2, <1>3, FS_Subset, FS_CardinalityType

(* A step of one process that commits no build and takes no file away      *)
(* keeps IInv, if it leads the process to where Listed allows it.          *)
LEMMA Stepping ==
  ASSUME IInv, NEW p \in Procs, NEW c \in Records, Becomes(p, c),
         cached' \in [Files -> FileStates],
         \A f \in Files : cached[f] # "missing" => cached'[f] # "missing",
         UNCHANGED <<calls, crowded>>, lock' \in Procs \cup {Nobody},
         Grows(index, index'),
         Listed(c), There(c, cached'), Fresh(c),
         c.pc \notin {"idle", "open"} => p \in Building,
         c.pc \in Connected => index'.exists
  PROVE  IInv'
PROOF
<1>1. call' \in [Procs -> Records] /\ call'[p] = c /\ \A q \in Procs \ {p} : call'[q] = call[q]
  BY Types DEF Becomes
<1>2. TypeOK'
  <2>1. index' \in [exists : BOOLEAN, schema : BOOLEAN, builds : Nat,
                    rows : [Rows -> Nat], warned : SUBSET RepoSet]
    BY DEF IInv, TypeOK, Grows
  <2> QED BY <1>1, <2>1 DEF IInv, TypeOK, Records
<1>3. Building' \subseteq Building BY <1>1 DEF Building, At
<1>4. Counted'
  <2>1. Cardinality(Building)' \in Nat /\ Cardinality(Building)' <= Cardinality(Building)
        /\ Cardinality(Building) \in Nat /\ Cardinality(Procs) \in Nat
    BY <1>3, FewerBuild, Types DEF Building
  <2>2. /\ index.builds \in Nat /\ index'.builds = index.builds
        /\ index'.rows = index.rows
        /\ index.exists => index'.exists
    BY DEF IInv, TypeOK, Grows
  <2>3. \A q \in Procs : call'[q].pc \in Connected => index'.exists
    BY <1>1, <2>2 DEF IInv, Counted
  <2>4. ~crowded' => /\ index'.builds <= 1
                     /\ index'.builds > 0 => Building' = {}
                     /\ \A q, o \in Building' : q = o
    BY <1>3, <2>2 DEF IInv, Counted
  <2> QED BY <2>1, <2>2, <2>3, <2>4 DEF IInv, Counted
<1>5. \A q \in Procs : Listed(call'[q]) /\ There(call'[q], cached') /\ Fresh(call'[q])
  <2>1. ASSUME NEW q \in Procs \ {p} PROVE There(call'[q], cached')
    <3>1. call'[q] = call[q] /\ call[q] \in Records /\ There(call[q], cached) BY <1>1, Types
    <3> QED BY <3>1, Types DEF There, Files, Records
  <2>2. \A q \in Procs : Listed(call'[q]) /\ Fresh(call'[q]) BY <1>1, Types
  <2> QED BY <1>1, <2>1, <2>2
<1>6. CommittedIsWhole' BY DEF IInv, TypeOK, CommittedIsWhole, Grows
<1> QED BY <1>2, <1>4, <1>5, <1>6 DEF IInv, Listed, Dealt, Imported, Fresh

(* A process that is in the middle of a call builds.                       *)
LEMMA Builds ==
  ASSUME NEW p \in Procs, call[p].pc \notin {"idle", "open"}
  PROVE  p \in Building
BY DEF Building, At

LEMMA IndexThere ==
  ASSUME IInv, NEW p \in Procs, call[p].pc \in Connected
  PROVE  index.exists
BY DEF IInv, Counted

(* On to the next repository, once this one has been dealt with.           *)
LEMMA NextRepoOK ==
  ASSUME IInv, NEW d \in Records, d.pos <= Len(Repos),
         \A i \in 1..d.pos : Dealt(d, Repos[i])
  PROVE  /\ NextRepo(d) \in Records /\ NextRepo(d).pc \in {"connect", "repomd"}
         /\ Listed(NextRepo(d))
         /\ NextRepo(d).primaries = d.primaries /\ NextRepo(d).filelists = d.filelists
         /\ NextRepo(d).pending = d.pending
PROOF
<1> DEFINE pc == IF d.pos = Len(Repos) THEN "connect" ELSE "repomd"
           e == [d EXCEPT !.pos = d.pos + 1, !.pc = pc]
<1>1. d.pos \in Nat /\ d.pos >= 1 /\ pc \in PCs BY DEF Records, PCs
<1>2. d.pos + 1 \in 1..(Len(Repos) + 1) BY <1>1, Types
<1>3. NextRepo(d) = e BY DEF NextRepo
<1> HIDE DEF pc
<1>4. e \in Records /\ e.pos = d.pos + 1 /\ e.pc = pc BY <1>1, <1>2 DEF Records
<1>5. /\ e.primaries = d.primaries /\ e.filelists = d.filelists /\ e.warned = d.warned
      /\ e.pending = d.pending
  BY DEF Records
<1> HIDE DEF e
<1>6. pc = "repomd" => d.pos < Len(Repos) BY <1>1, Types DEF pc
<1>7. pc = "connect" => d.pos = Len(Repos) BY DEF pc
<1>8. pc = "repomd" => e.pos <= Len(Repos) /\ \A i \in 1..(e.pos - 1) : Dealt(e, Repos[i])
  BY <1>1, <1>4, <1>5, <1>6, Types DEF Dealt
<1>9. pc = "connect" => \A k \in RepoSet : Dealt(e, k)
  BY <1>5, <1>7, Types DEF Dealt
<1>10. pc \in {"connect", "repomd"} BY DEF pc
<1>11. Listed(e) BY <1>4, <1>8, <1>9, <1>10 DEF Listed, Downloading, Connected
<1> QED BY <1>3, <1>4, <1>5, <1>10, <1>11

-----------------------------------------------------------------------------
(* ensure_index(): a call that finds no index builds one; a refresh takes  *)
(* the index away while nobody else builds.                                *)
LEMMA EnsureIndexKeeps ==
  ASSUME IInv, NEW p \in Procs, EnsureIndex(p)
  PROVE  IInv'
PROOF
<1> USE DEF Downloading, Connected
<1>1. PICK refresh \in BOOLEAN :
        /\ refresh => \A q \in Procs \ {p} : At(q, "idle")
        /\ IF index.exists /\ ~refresh
             THEN /\ Becomes(p, [Idle EXCEPT !.refresh = refresh, !.pc = "open"])
                  /\ UNCHANGED <<index, crowded>>
             ELSE /\ Becomes(p, [Idle EXCEPT !.refresh = refresh, !.pc = "repomd"])
                  /\ index' = IF refresh THEN NoIndex ELSE index
                  /\ crowded' = \E q \in Procs \ {p} : Working(q)
  BY DEF EnsureIndex
<1>2. /\ At(p, "idle") /\ calls < MaxCalls /\ calls' = calls + 1 /\ UNCHANGED <<cached, lock>>
  BY DEF EnsureIndex
<1>3. PICK pc \in {"open", "repomd"} :
        /\ Becomes(p, [Idle EXCEPT !.refresh = refresh, !.pc = pc])
        /\ pc = "open" => index.exists /\ UNCHANGED <<index, crowded>>
        /\ pc = "repomd" => /\ crowded' = \E q \in Procs \ {p} : Working(q)
                            /\ \/ refresh /\ index' = NoIndex
                               \/ ~index.exists /\ index' = index
  BY <1>1
<1> DEFINE c == [Idle EXCEPT !.refresh = refresh, !.pc = pc]
<1>4. /\ c \in Records /\ c.pc = pc /\ c.pos = 1 /\ c.primaries = {} /\ c.filelists = {}
      /\ c.pending = None
  <2>1. Idle \in Records BY Types DEF Records, Idle, PCs, None
  <2> HIDE DEF Idle
  <2>2. [Idle EXCEPT !.refresh = refresh] \in Records BY <2>1 DEF Records
  <2>3. c \in Records /\ c.pc = pc BY <2>1, <2>2 DEF Records, PCs
  <2> QED BY <2>1, <2>3 DEF Records, Idle
<1>5. Listed(c) /\ There(c, cached') /\ Fresh(c)
  BY <1>4, Types DEF Listed, There, Fresh, None
<1> HIDE DEF c
<1>6. call' \in [Procs -> Records] /\ call'[p] = c /\ \A q \in Procs \ {p} : call'[q] = call[q]
  BY <1>3, <1>4, Types DEF Becomes, c
<1>7. \A q \in Procs : Listed(call'[q]) /\ There(call'[q], cached') /\ Fresh(call'[q])
  <2>1. ASSUME NEW q \in Procs \ {p} PROVE There(call'[q], cached') BY <1>2, <1>6, Types DEF There
  <2> QED BY <1>5, <1>6, <2>1, Types DEF There
<1>8. TypeOK'
  <2>1. index' \in [exists : BOOLEAN, schema : BOOLEAN, builds : Nat,
                    rows : [Rows -> Nat], warned : SUBSET RepoSet]
    <3>1. NoIndex \in [exists : BOOLEAN, schema : BOOLEAN, builds : Nat,
                       rows : [Rows -> Nat], warned : SUBSET RepoSet]
      BY DEF NoIndex, None
    <3> QED BY <1>3, <3>1 DEF IInv, TypeOK
  <2>2. calls' \in 0..MaxCalls BY <1>2, RepoAssumption DEF IInv, TypeOK
  <2>3. crowded' \in BOOLEAN BY <1>3 DEF IInv, TypeOK
  <2> QED BY <1>2, <1>6, <2>1, <2>2, <2>3 DEF IInv, TypeOK, Records
<1>9. CommittedIsWhole'
  <2>1. CASE index' = index BY <2>1 DEF IInv, CommittedIsWhole
  <2>2. CASE index' = NoIndex
    <3>1. index'.builds = 0 /\ index'.rows = None BY <2>2 DEF NoIndex
    <3> QED BY <3>1 DEF CommittedIsWhole
  <2> QED BY <1>3, <2>1, <2>2
<1>10. Counted'
  <2>1. CASE pc = "open"
    <3>1. Building' = Building BY <1>2, <1>4, <1>6, <2>1 DEF Building, At
    <3> QED BY <1>3, <1>4, <1>6, <2>1, <3>1 DEF IInv, Counted
  <2>2. CASE pc = "repomd"
    <3>1. index'.builds = 0 /\ index'.rows = None
      BY <1>3, <2>2 DEF NoIndex, IInv, Counted, TypeOK, CommittedIsWhole
    <3>2. \A q \in Procs : call'[q].pc \in Connected => index'.exists
      <4>1. CASE ~index.exists /\ index' = index
        BY <1>4, <1>6, <2>2, <4>1 DEF IInv, Counted
      <4>2. CASE refresh BY <1>1, <1>4, <1>6, <2>2, <4>2 DEF At
      <4> QED BY <1>3, <2>2, <4>1, <4>2
    <3>3. Cardinality(Building') \in Nat /\ Cardinality(Procs) \in Nat
          /\ Cardinality(Building') <= Cardinality(Procs)
      <4>1. Building' \subseteq Procs BY DEF Building
      <4> QED BY <4>1, FewerBuild, Types
    <3>4. ~crowded' => Building' \subseteq {p}
      BY <1>3, <1>6, <2>2 DEF Building, Working, At
    <3> QED BY <3>1, <3>2, <3>3, <3>4 DEF Counted, None
  <2> QED BY <2>1, <2>2
<1> QED BY <1>7, <1>8, <1>9, <1>10 DEF IInv, Listed, Dealt, Imported, Fresh

(* _download_all_metadata(), up to the download of a file.                 *)
LEMMA DownloadKeeps ==
  ASSUME IInv, NEW p \in Procs, Download(p)
  PROVE  IInv'
PROOF
<1> DEFINE d == call[p]
<1> USE DEF Downloading, Connected
<1>1. d \in Records /\ Listed(d) /\ There(d, cached) BY Types
<1>2. cached \in [Files -> FileStates] /\ lock \in Procs \cup {Nobody} BY DEF IInv, TypeOK
<1>b. ASSUME d.pc \in Downloading, NEW c \in Records, c.pending = d.pending,
             c.pc \in Downloading \cup {"connect"}
      PROVE  Fresh(c)
  <2>1. Fresh(d) BY Types
  <2> QED BY <1>b, <2>1 DEF Fresh, None
<1>a. /\ \A k \in d.primaries : <<k, "primary">> \in Files
      /\ \A k \in d.filelists : <<k, "filelists">> \in Files
  BY <1>1 DEF Records, Files
<1>3. ASSUME NEW c \in Records, Becomes(p, c), UNCHANGED <<cached, index, lock, crowded, calls>>,
             d.pc \in Downloading, Listed(c), There(c, cached),
             c.pc \in Downloading \cup {"connect"}, c.pending = d.pending
      PROVE  IInv'
  <2>1. There(c, cached') BY <1>3 DEF There
  <2>2. p \in Building /\ Grows(index, index') BY <1>3, Builds DEF Grows
  <2>3. Fresh(c) BY <1>3, <1>b
  <2> QED BY <1>2, <1>3, <2>1, <2>2, <2>3, Stepping
<1>4. CASE Repomd(p)
  <2>1. PICK offers \in SUBSET {"primary", "filelists"} :
          Becomes(p, [d EXCEPT !.pc = "primary", !.offers = offers])
    BY <1>4 DEF Repomd
  <2> DEFINE c == [d EXCEPT !.pc = "primary", !.offers = offers]
  <2>2. c \in Records BY <1>1 DEF Records, PCs
  <2>3. d.pc = "repomd" BY <1>4 DEF Repomd, At
  <2>4. /\ c.pc = "primary" /\ c.pos = d.pos /\ c.primaries = d.primaries
        /\ c.warned = d.warned /\ c.filelists = d.filelists /\ c.pending = d.pending
    BY <1>1 DEF Records
  <2> HIDE DEF c, d
  <2>5. Listed(c) BY <1>1, <2>3, <2>4 DEF Listed, Dealt
  <2>6. There(c, cached) BY <1>1, <2>4 DEF There
  <2>7. UNCHANGED <<cached, index, lock, crowded, calls>> BY <1>4 DEF Repomd
  <2> QED BY <1>3, <2>1, <2>2, <2>3, <2>4, <2>5, <2>6, <2>7 DEF c
<1>5. CASE RepomdFails(p)
  <2> DEFINE e == [d EXCEPT !.warned = @ \cup {Repos[d.pos]}]
  <2>1. d.pc = "repomd" /\ d.pos <= Len(Repos) /\ \A i \in 1..(d.pos - 1) : Dealt(d, Repos[i])
    BY <1>1, <1>5 DEF RepomdFails, At, Listed
  <2>2. Repos[d.pos] \in RepoSet BY <1>1, <2>1, Types DEF Records
  <2>3. e \in Records BY <1>1, <2>2 DEF Records
  <2>4. /\ e.pos = d.pos /\ e.primaries = d.primaries /\ e.filelists = d.filelists
        /\ e.warned = d.warned \cup {Repos[d.pos]} /\ e.pending = d.pending
    BY <1>1 DEF Records
  <2>5. Becomes(p, NextRepo(e)) /\ UNCHANGED <<cached, index, lock, crowded, calls>>
    BY <1>5 DEF RepomdFails, Repo
  <2> HIDE DEF e, d
  <2>6. d.pos \in Nat BY <1>1 DEF Records
  <2>7. \A i \in 1..e.pos : Dealt(e, Repos[i]) BY <2>1, <2>4, <2>6 DEF Dealt
  <2>8. There(NextRepo(e), cached) BY <1>1, <2>1, <2>3, <2>4, <2>7, NextRepoOK DEF There
  <2> QED BY <1>3, <2>1, <2>3, <2>4, <2>5, <2>7, <2>8, NextRepoOK
<1>6. CASE UsePrimary(p) \/ NoPrimary(p)
  <2>1. d.pc = "primary" /\ d.pos <= Len(Repos) /\ \A i \in 1..(d.pos - 1) : Dealt(d, Repos[i])
    BY <1>1, <1>6 DEF UsePrimary, NoPrimary, At, Listed
  <2>2. Repos[d.pos] \in RepoSet BY <1>1, <2>1, Types DEF Records
  <2>3. PICK c \in Records :
          /\ Becomes(p, c) /\ c.pc = "filelists" /\ c.pos = d.pos /\ c.filelists = d.filelists
          /\ c.pending = d.pending
          /\ d.primaries \subseteq c.primaries /\ d.warned \subseteq c.warned
          /\ Repos[d.pos] \in c.primaries \cup c.warned
          /\ c.primaries \subseteq d.primaries \cup
               {k \in {Repos[d.pos]} : cached[<<k, "primary">>] # "missing"}
    <3>1. CASE UsePrimary(p)
      <4> DEFINE c == [d EXCEPT !.pc = "filelists", !.primaries = @ \cup {Repos[d.pos]}]
      <4>1. Becomes(p, c) /\ cached[<<Repos[d.pos], "primary">>] # "missing"
        BY <3>1 DEF UsePrimary, Repo
      <4>2. c \in Records BY <1>1, <2>2 DEF Records, PCs
      <4>3. /\ c.pc = "filelists" /\ c.pos = d.pos /\ c.filelists = d.filelists
            /\ c.pending = d.pending /\ c.warned = d.warned
            /\ c.primaries = d.primaries \cup {Repos[d.pos]}
        BY <1>1 DEF Records
      <4> HIDE DEF c
      <4> QED BY <2>2, <4>1, <4>2, <4>3
    <3>2. CASE NoPrimary(p)
      <4> DEFINE c == [d EXCEPT !.pc = "filelists", !.warned = @ \cup {Repos[d.pos]}]
      <4>1. Becomes(p, c) BY <3>2 DEF NoPrimary, Repo
      <4>2. c \in Records BY <1>1, <2>2 DEF Records, PCs
      <4> QED BY <1>1, <4>1, <4>2 DEF Records
    <3> QED BY <1>6, <3>1, <3>2
  <2>4. UNCHANGED <<cached, index, lock, crowded, calls>> BY <1>6 DEF UsePrimary, NoPrimary
  <2> HIDE DEF d
  <2>5. Listed(c) BY <2>1, <2>3 DEF Listed, Dealt
  <2>6. There(c, cached) BY <1>1, <2>3 DEF There
  <2> QED BY <1>3, <2>1, <2>3, <2>4, <2>5, <2>6
<1>7. CASE UseFilelists(p)
  <2> DEFINE w == WantsFilelists(p)
             e == [d EXCEPT !.filelists = IF w THEN @ \cup {Repos[d.pos]} ELSE @]
  <2>1. /\ d.pc = "filelists" /\ d.pos <= Len(Repos) /\ Dealt(d, Repos[d.pos])
        /\ \A i \in 1..(d.pos - 1) : Dealt(d, Repos[i])
    BY <1>1, <1>7 DEF UseFilelists, At, Listed
  <2>2. /\ Becomes(p, NextRepo(e)) /\ UNCHANGED <<cached, index, lock, crowded, calls>>
        /\ w => cached[<<Repos[d.pos], "filelists">>] # "missing"
    BY <1>7 DEF UseFilelists, Repo
  <2>3. w => Repos[d.pos] \in Binaries BY DEF WantsFilelists, Repo
  <2> HIDE DEF w
  <2>4. e \in Records BY <1>1, <2>3 DEF Records
  <2>5. /\ e.pos = d.pos /\ e.primaries = d.primaries /\ e.warned = d.warned
        /\ e.filelists = IF w THEN d.filelists \cup {Repos[d.pos]} ELSE d.filelists
        /\ e.pending = d.pending
    BY <1>1 DEF Records
  <2>6. d.pos \in Nat BY <1>1 DEF Records
  <2> HIDE DEF e, d
  <2>7. \A i \in 1..e.pos : Dealt(e, Repos[i]) BY <2>1, <2>5, <2>6 DEF Dealt
  <2>8. There(NextRepo(e), cached) BY <1>1, <2>1, <2>2, <2>4, <2>5, <2>7, NextRepoOK DEF There
  <2> QED BY <1>3, <2>1, <2>2, <2>4, <2>5, <2>7, <2>8, NextRepoOK
<1>8. CASE Fetch(p)
  <2>1. PICK db \in {"primary", "filelists"} :
          /\ d.pc = db /\ <<Repos[d.pos], db>> \in Files
          /\ Becomes(p, [d EXCEPT !.pc = "fetched", !.target = db])
    BY <1>8 DEF Fetch, At, Repo
  <2> DEFINE c == [d EXCEPT !.pc = "fetched", !.target = db]
  <2>2. c \in Records BY <1>1 DEF Records, PCs
  <2>3. /\ c.pc = "fetched" /\ c.target = db /\ c.pos = d.pos /\ c.primaries = d.primaries
        /\ c.warned = d.warned /\ c.filelists = d.filelists /\ c.pending = d.pending
    BY <1>1 DEF Records
  <2>4. UNCHANGED <<cached, index, lock, crowded, calls>> BY <1>8 DEF Fetch
  <2> HIDE DEF c, d
  <2>5. Listed(c) BY <1>1, <2>1, <2>3 DEF Listed, Dealt
  <2>6. There(c, cached) BY <1>1, <2>3 DEF There
  <2> QED BY <1>3, <2>1, <2>2, <2>3, <2>4, <2>5, <2>6 DEF c
<1>9. CASE Truncate(p)
  <2> DEFINE c == [d EXCEPT !.pc = "writing"]
             file == <<Repos[d.pos], d.target>>
  <2>1. /\ d.pc = "fetched" /\ Becomes(p, c) /\ UNCHANGED <<index, lock, crowded, calls>>
        /\ cached' = [cached EXCEPT ![file] = "torn"]
    BY <1>9 DEF Truncate, At, Repo
  <2>2. c \in Records BY <1>1 DEF Records, PCs
  <2>3. /\ c.pc = "writing" /\ c.target = d.target /\ c.pos = d.pos
        /\ c.primaries = d.primaries /\ c.warned = d.warned /\ c.filelists = d.filelists
        /\ c.pending = d.pending
    BY <1>1 DEF Records
  <2> HIDE DEF c, d, file
  <2>4. cached' \in [Files -> FileStates] BY <1>2, <2>1 DEF FileStates
  <2>5. \A f \in Files : cached[f] # "missing" => cached'[f] # "missing" BY <1>2, <2>1
  <2>6. Listed(c) BY <1>1, <2>1, <2>3 DEF Listed, Dealt
  <2>7. There(c, cached') BY <1>1, <2>3, <2>5, <1>a DEF There
  <2>8. p \in Building /\ Grows(index, index') BY <2>1, Builds DEF d, Grows
  <2>9. Fresh(c) BY <1>b, <2>1, <2>2, <2>3
  <2> QED BY <1>2, <2>1, <2>2, <2>3, <2>4, <2>5, <2>6, <2>7, <2>8, <2>9, Stepping
<1>10. CASE WriteFile(p)
  <2> DEFINE file == <<Repos[d.pos], d.target>>
  <2>1. /\ d.pc = "writing" /\ UNCHANGED <<index, lock, crowded, calls>>
        /\ cached' = [cached EXCEPT ![file] = "whole"]
    BY <1>10 DEF WriteFile, At, Repo
  <2>2. /\ file \in Files /\ d.pos <= Len(Repos) /\ d.pos \in Nat
        /\ \A i \in 1..(d.pos - 1) : Dealt(d, Repos[i])
        /\ d.target = "filelists" => Dealt(d, Repos[d.pos])
        /\ d.target \in {"primary", "filelists"}
    BY <1>1, <2>1 DEF Listed, Records
  <2>3. Repos[d.pos] \in RepoSet /\ (d.target = "filelists" => Repos[d.pos] \in Binaries)
    BY <2>2, Types DEF Files
  <2>4. cached' \in [Files -> FileStates] BY <1>2, <2>1 DEF FileStates
  <2>5. /\ \A f \in Files : cached[f] # "missing" => cached'[f] # "missing"
        /\ cached'[file] = "whole"
    BY <1>2, <2>1, <2>2
  <2>6. p \in Building /\ Grows(index, index') BY <2>1, Builds DEF Grows
  <2>7. CASE d.target = "primary"
    <3> DEFINE c == [d EXCEPT !.pc = "filelists", !.primaries = @ \cup {Repos[d.pos]}]
    <3>1. Becomes(p, c) BY <1>10, <2>7 DEF WriteFile, Repo
    <3>2. c \in Records BY <1>1, <2>3 DEF Records, PCs
    <3>3. /\ c.pc = "filelists" /\ c.pos = d.pos /\ c.warned = d.warned
          /\ c.filelists = d.filelists /\ c.primaries = d.primaries \cup {Repos[d.pos]}
          /\ c.pending = d.pending
      BY <1>1 DEF Records
    <3> HIDE DEF c, d
    <3>4. Listed(c) BY <2>2, <3>3 DEF Listed, Dealt
    <3>5. There(c, cached') BY <1>1, <1>a, <2>5, <2>7, <3>3 DEF There
    <3>6. Fresh(c) BY <1>b, <2>1, <3>2, <3>3
    <3> QED BY <1>2, <2>1, <2>4, <2>5, <2>6, <3>1, <3>2, <3>3, <3>4, <3>5, <3>6, Stepping
  <2>8. CASE d.target = "filelists"
    <3> DEFINE e == [d EXCEPT !.filelists = @ \cup {Repos[d.pos]}]
               c == NextRepo(e)
    <3>1. Becomes(p, c) BY <1>10, <2>8 DEF WriteFile, Repo
    <3>2. e \in Records BY <1>1, <2>3, <2>8 DEF Records
    <3>3. /\ e.pos = d.pos /\ e.primaries = d.primaries /\ e.warned = d.warned
          /\ e.filelists = d.filelists \cup {Repos[d.pos]} /\ e.pending = d.pending
      BY <1>1 DEF Records
    <3>4. \A i \in 1..e.pos : Dealt(e, Repos[i]) BY <2>2, <2>8, <3>3 DEF Dealt
    <3> HIDE DEF e, d
    <3>5. /\ c \in Records /\ c.pc \in {"connect", "repomd"} /\ Listed(c)
          /\ c.primaries = e.primaries /\ c.filelists = e.filelists /\ c.pending = d.pending
      BY <2>2, <3>2, <3>3, <3>4, NextRepoOK
    <3> HIDE DEF c
    <3>6. There(c, cached') BY <1>1, <1>a, <2>5, <2>8, <3>3, <3>5 DEF There
    <3>7. Fresh(c) BY <1>b, <2>1, <3>5
    <3> QED BY <1>2, <2>1, <2>4, <2>5, <2>6, <3>1, <3>5, <3>6, <3>7, Stepping
  <2> QED BY <2>2, <2>7, <2>8
<1> QED BY <1>4, <1>5, <1>6, <1>7, <1>8, <1>9, <1>10 DEF Download

-----------------------------------------------------------------------------
(* On to the next import of _build_index.                                  *)
LEMMA NextImportOK ==
  ASSUME IInv, NEW d \in Records, d.pos <= Len(Repos), NEW this \in PCs, NEW next \in PCs
  PROVE  LET n == NextImport(d, this, next) IN
         /\ n \in Records
         /\ IF d.pos = Len(Repos) THEN n.pos = 1 /\ n.pc = next
                                  ELSE n.pos = d.pos + 1 /\ n.pc = this
         /\ n.primaries = d.primaries /\ n.filelists = d.filelists
         /\ n.warned = d.warned /\ n.pending = d.pending
PROOF
<1>1. d.pos \in Nat /\ d.pos >= 1 BY DEF Records
<1>2. CASE d.pos = Len(Repos)
  <2>1. 1 \in 1..(Len(Repos) + 1) BY Types
  <2>2. [d EXCEPT !.pos = 1, !.pc = next] \in Records BY <2>1 DEF Records
  <2> QED BY <1>2, <2>2 DEF NextImport, Records
<1>3. CASE d.pos # Len(Repos)
  <2>1. d.pos + 1 \in 1..(Len(Repos) + 1) BY <1>1, Types
  <2>2. [d EXCEPT !.pos = d.pos + 1, !.pc = this] \in Records BY <2>1 DEF Records
  <2> QED BY <1>3, <2>2 DEF NextImport, Records
<1> QED BY <1>2, <1>3

(* _build_index(), up to the commit.                                       *)
LEMMA BuildKeeps ==
  ASSUME IInv, NEW p \in Procs,
         Connect(p) \/ CreateSchema(p) \/ ImportPrimary(p) \/ ImportFilelists(p)
  PROVE  IInv'
PROOF
<1> DEFINE d == call[p]
<1> USE DEF Downloading, Connected
<1>1. d \in Records /\ Listed(d) /\ There(d, cached) /\ Fresh(d) BY Types
<1>2. cached \in [Files -> FileStates] /\ lock \in Procs \cup {Nobody} BY DEF IInv, TypeOK
<1>3. ASSUME NEW c \in Records, Becomes(p, c), UNCHANGED <<cached, crowded, calls>>,
             d.pc \in {"connect"} \cup Connected, Listed(c), Grows(index, index'),
             c.primaries = d.primaries, c.filelists = d.filelists,
             lock' \in Procs \cup {Nobody}, c.pc \in Connected, index'.exists, Fresh(c)
      PROVE  IInv'
  <2>1. There(c, cached') BY <1>1, <1>3 DEF There
  <2>2. p \in Building BY <1>3, Builds
  <2> QED BY <1>2, <1>3, <2>1, <2>2, Stepping
<1>4. CASE Connect(p)
  <2> DEFINE c == [d EXCEPT !.pc = "schema"]
  <2>1. c \in Records BY <1>1 DEF Records, PCs
  <2>2. /\ c.pc = "schema" /\ c.primaries = d.primaries /\ c.filelists = d.filelists
        /\ c.warned = d.warned /\ c.pending = d.pending
    BY <1>1 DEF Records
  <2>3. /\ Becomes(p, c) /\ d.pc = "connect" /\ UNCHANGED <<cached, lock, crowded, calls>>
        /\ index' = [index EXCEPT !.exists = TRUE]
    BY <1>4 DEF Connect, At
  <2>4. Grows(index, index') /\ index'.exists BY <2>3 DEF Grows, IInv, TypeOK
  <2> HIDE DEF c, d
  <2>5. Listed(c) BY <1>1, <2>2, <2>3 DEF Listed, Dealt
  <2>6. Fresh(c) BY <1>1, <2>2, <2>3 DEF Fresh
  <2> QED BY <1>2, <1>3, <2>1, <2>2, <2>3, <2>4, <2>5, <2>6
<1>5. CASE CreateSchema(p)
  <2> DEFINE c == [d EXCEPT !.pc = "importPrimary", !.pos = 1]
  <2>1. c \in Records
    <3>1. 1 \in 1..(Len(Repos) + 1) BY Types
    <3> QED BY <1>1, <3>1 DEF Records, PCs
  <2>2. /\ c.pc = "importPrimary" /\ c.pos = 1 /\ c.primaries = d.primaries
        /\ c.filelists = d.filelists /\ c.warned = d.warned /\ c.pending = d.pending
    BY <1>1 DEF Records
  <2>3. /\ Becomes(p, c) /\ d.pc = "schema" /\ UNCHANGED <<cached, lock, crowded, calls>>
        /\ index' = [index EXCEPT !.schema = TRUE]
    BY <1>5 DEF CreateSchema, At
  <2>4. Grows(index, index') /\ index'.exists
    BY <2>3, IndexThere DEF Grows, IInv, TypeOK
  <2> HIDE DEF c, d
  <2>5. Listed(c) BY <1>1, <2>2, <2>3, Types DEF Listed, Dealt
  <2>6. Fresh(c)
    <3>1. c.pending = None BY <1>1, <2>2, <2>3 DEF Fresh
    <3>2. /\ \A k \in RepoSet : <<k, "primary">> \in Rows /\ <<k, "filelists">> \in Rows
          /\ \A i \in 1..Len(Repos) : Repos[i] \in RepoSet
      BY Types DEF Rows
    <3>3. \A r \in Rows : c.pending[r] = 0 BY <3>1 DEF None
    <3>4. \A i \in c.pos..Len(Repos) : c.pending[<<Repos[i], "primary">>] = 0
      BY <2>2, <3>2, <3>3, Types
    <3>5. \A k \in RepoSet : c.pending[<<k, "filelists">>] = 0 BY <3>2, <3>3
    <3>6. \A r \in Rows : c.pending[r] <= 1 BY <3>3
    <3> QED BY <2>2, <3>4, <3>5, <3>6 DEF Fresh
  <2> QED BY <1>2, <1>3, <2>1, <2>2, <2>3, <2>4, <2>5, <2>6
<1>6. CASE ImportPrimary(p)
  <2> DEFINE k == Repos[d.pos]
             next == NextImport(d, "importPrimary", "importFilelists")
             row == <<k, "primary">>
  <2>1. /\ d.pc = "importPrimary" /\ UNCHANGED <<cached, index, crowded, calls>>
        /\ lock' \in Procs \cup {Nobody}
        /\ \/ k \in d.primaries /\ Becomes(p, [next EXCEPT !.pending[row] = @ + 1])
           \/ k \notin d.primaries /\ Becomes(p, next)
    BY <1>2, <1>6 DEF ImportPrimary, At, Repo
  <2>2. /\ d.pos <= Len(Repos) /\ d.pos \in Nat /\ d.pos >= 1 /\ k \in RepoSet
        /\ \A i \in 1..(d.pos - 1) : Imported(d, Repos[i])
        /\ \A r \in RepoSet : Dealt(d, r)
    BY <1>1, <2>1, Types DEF Listed, Records
  <2>3. /\ next \in Records
        /\ IF d.pos = Len(Repos) THEN next.pos = 1 /\ next.pc = "importFilelists"
                                 ELSE next.pos = d.pos + 1 /\ next.pc = "importPrimary"
        /\ next.primaries = d.primaries /\ next.filelists = d.filelists
        /\ next.warned = d.warned /\ next.pending = d.pending
    BY SMTT(30), <1>1, <2>2, NextImportOK DEF PCs
  <2>4. /\ d.pending \in [Rows -> Nat] /\ row \in Rows
        /\ \A i \in 1..Len(Repos) : <<Repos[i], "primary">> \in Rows /\ Repos[i] \in RepoSet
        /\ \A r \in RepoSet : <<r, "filelists">> \in Rows
    BY <1>1, <2>2, Types DEF Records, Rows
  <2>5. PICK c \in Records :
          /\ Becomes(p, c) /\ c.pc = next.pc /\ c.pos = next.pos /\ c.primaries = d.primaries
          /\ c.filelists = d.filelists /\ c.warned = d.warned
          /\ \/ k \notin d.primaries /\ c.pending = d.pending
             \/ c.pending = [d.pending EXCEPT ![row] = @ + 1]
    <3>1. CASE k \in d.primaries
      <4> DEFINE n == [d.pending EXCEPT ![row] = @ + 1]
                 c == [next EXCEPT !.pending = n]
      <4>1. n \in [Rows -> Nat] BY <2>4
      <4>2. [next EXCEPT !.pending[row] = @ + 1] = c BY <2>3 DEF Records
      <4> HIDE DEF n, next
      <4>3. c \in Records BY <2>3, <4>1 DEF Records
      <4>4. /\ c.pc = next.pc /\ c.pos = next.pos /\ c.primaries = next.primaries
            /\ c.filelists = next.filelists /\ c.warned = next.warned /\ c.pending = n
        BY <2>3 DEF Records
      <4> HIDE DEF c
      <4>5. Becomes(p, c) BY <2>1, <3>1, <4>2
      <4> QED BY <2>3, <4>3, <4>4, <4>5 DEF n
    <3>2. CASE k \notin d.primaries BY <2>1, <2>3, <3>2
    <3> QED BY <3>1, <3>2
  <2> HIDE DEF next
  <2>6. Fresh(d) BY <1>1
  <2> HIDE DEF d
  <2>7. \A i \in 1..d.pos : Imported(c, Repos[i])
    <3> SUFFICES ASSUME NEW i \in 1..d.pos, Repos[i] \in d.primaries
                 PROVE  c.pending[<<Repos[i], "primary">>] > 0
      BY <2>5 DEF Imported
    <3>1. <<Repos[i], "primary">> \in Rows BY <2>2, <2>4
    <3>2. CASE i = d.pos BY <2>4, <2>5, <3>2 DEF k
    <3>3. CASE i # d.pos
      <4>1. i \in 1..(d.pos - 1) BY <2>2, <3>3
      <4>2. d.pending[<<Repos[i], "primary">>] > 0 BY <2>2, <4>1 DEF Imported
      <4> QED BY SMTT(30), <2>4, <2>5, <3>1, <4>2
    <3> QED BY <3>2, <3>3
  <2>8. Listed(c)
    <3>1. CASE d.pos = Len(Repos)
      <4>1. \A r \in RepoSet : Imported(c, r) BY <2>7, <3>1, Types
      <4> QED BY <2>2, <2>3, <2>5, <3>1, <4>1, Types DEF Listed, Dealt
    <3>2. CASE d.pos # Len(Repos)
      <4>1. c.pos <= Len(Repos) /\ \A i \in 1..(c.pos - 1) : Imported(c, Repos[i])
        BY <2>2, <2>3, <2>5, <2>7, <3>2, Types
      <4> QED BY <2>2, <2>3, <2>5, <3>2, <4>1 DEF Listed, Dealt
    <3> QED BY <3>1, <3>2
  <2>9. Fresh(c)
    <3>1. /\ d.pending[row] = 0
          /\ \A i \in (d.pos + 1)..Len(Repos) : /\ d.pending[<<Repos[i], "primary">>] = 0
                                               /\ <<Repos[i], "primary">> # row
          /\ \A r \in RepoSet : d.pending[<<r, "filelists">>] = 0 /\ <<r, "filelists">> # row
      BY <2>1, <2>2, <2>6, Types DEF Fresh, k, row
    <3>2. \A r \in Rows : c.pending[r] <= 1 /\ (r # row => c.pending[r] = d.pending[r])
      <4>1. \A r \in Rows : d.pending[r] <= 1 BY <2>6 DEF Fresh
      <4> HIDE DEF row, k
      <4> QED BY <2>4, <2>5, <3>1, <4>1
    <3>3. \A r \in RepoSet : c.pending[<<r, "filelists">>] = 0 BY <2>4, <3>1, <3>2
    <3>4. \A i \in (d.pos + 1)..Len(Repos) : c.pending[<<Repos[i], "primary">>] = 0
      BY <2>2, <2>4, <3>1, <3>2
    <3>5. CASE d.pos = Len(Repos)
      <4>1. c.pc = "importFilelists" /\ c.pos = 1 BY <2>3, <2>5, <3>5
      <4> QED BY <2>4, <3>2, <3>3, <4>1 DEF Fresh
    <3>6. CASE d.pos # Len(Repos)
      <4>1. c.pc = "importPrimary" /\ c.pos = d.pos + 1 BY <2>3, <2>5, <3>6
      <4> QED BY <3>2, <3>3, <3>4, <4>1 DEF Fresh
    <3> QED BY <3>5, <3>6
  <2>10. index'.exists /\ Grows(index, index') BY <2>1, IndexThere DEF Grows, d
  <2>11. c.pc \in Connected BY <2>3, <2>5
  <2> QED BY <1>3, <2>1, <2>3, <2>5, <2>8, <2>9, <2>10, <2>11
<1>7. CASE ImportFilelists(p)
  <2> DEFINE k == Repos[d.pos]
             next == NextImport(d, "importFilelists", "commit")
             row == <<k, "filelists">>
  <2>1. /\ d.pc = "importFilelists" /\ UNCHANGED <<cached, index, crowded, calls>>
        /\ lock' \in Procs \cup {Nobody}
        /\ \/ Becomes(p, [next EXCEPT !.pending[row] = @ + 1])
           \/ Becomes(p, next)
    BY <1>2, <1>7 DEF ImportFilelists, At, Repo
  <2>2. /\ d.pos <= Len(Repos) /\ d.pos \in Nat /\ d.pos >= 1 /\ k \in RepoSet
        /\ \A r \in RepoSet : Dealt(d, r) /\ Imported(d, r)
    BY <1>1, <2>1, Types DEF Listed, Records
  <2>3. /\ next \in Records
        /\ IF d.pos = Len(Repos) THEN next.pos = 1 /\ next.pc = "commit"
                                 ELSE next.pos = d.pos + 1 /\ next.pc = "importFilelists"
        /\ next.primaries = d.primaries /\ next.filelists = d.filelists
        /\ next.warned = d.warned /\ next.pending = d.pending
    BY SMTT(30), <1>1, <2>2, NextImportOK DEF PCs
  <2>4. /\ d.pending \in [Rows -> Nat] /\ row \in Rows
        /\ \A i \in 1..Len(Repos) : <<Repos[i], "filelists">> \in Rows
        /\ \A r \in RepoSet : <<r, "primary">> \in Rows
    BY <1>1, <2>2, Types DEF Records, Rows
  <2>5. PICK c \in Records :
          /\ Becomes(p, c) /\ c.pc = next.pc /\ c.pos = next.pos /\ c.primaries = d.primaries
          /\ c.filelists = d.filelists /\ c.warned = d.warned
          /\ c.pending \in {d.pending, [d.pending EXCEPT ![row] = @ + 1]}
    <3>1. CASE Becomes(p, [next EXCEPT !.pending[row] = @ + 1])
      <4> DEFINE n == [d.pending EXCEPT ![row] = @ + 1]
                 c == [next EXCEPT !.pending = n]
      <4>1. n \in [Rows -> Nat] BY <2>4
      <4>2. [next EXCEPT !.pending[row] = @ + 1] = c BY <2>3 DEF Records
      <4> HIDE DEF n, next
      <4>3. c \in Records BY <2>3, <4>1 DEF Records
      <4>4. /\ c.pc = next.pc /\ c.pos = next.pos /\ c.primaries = next.primaries
            /\ c.filelists = next.filelists /\ c.warned = next.warned /\ c.pending = n
        BY <2>3 DEF Records
      <4> HIDE DEF c
      <4>5. Becomes(p, c) BY <3>1, <4>2
      <4> QED BY <2>3, <4>3, <4>4, <4>5 DEF n
    <3>2. CASE Becomes(p, next) BY <2>3, <3>2
    <3> QED BY <2>1, <3>1, <3>2
  <2> HIDE DEF next
  <2>6. Fresh(d) BY <1>1
  <2> HIDE DEF d
  <2>7. c.pc = "importFilelists" => c.pos <= Len(Repos)
    BY <2>2, <2>3, <2>5, Types
  <2>8. \A r \in RepoSet : Imported(c, r)
    <3> SUFFICES ASSUME NEW r \in RepoSet, r \in d.primaries
                 PROVE  c.pending[<<r, "primary">>] > 0
      BY <2>5 DEF Imported
    <3>1. d.pending[<<r, "primary">>] > 0 /\ <<r, "primary">> \in Rows
      BY <2>2, <2>4 DEF Imported
    <3>2. <<r, "primary">> # row OBVIOUS
    <3> QED BY <2>4, <2>5, <3>1, <3>2
  <2>9. Listed(c) BY <2>2, <2>3, <2>5, <2>7, <2>8 DEF Listed, Dealt
  <2>10. Fresh(c)
    <3>1. /\ d.pending[row] = 0
          /\ \A i \in (d.pos + 1)..Len(Repos) : /\ d.pending[<<Repos[i], "filelists">>] = 0
                                               /\ <<Repos[i], "filelists">> # row
      BY <2>1, <2>2, <2>6, Types DEF Fresh, k, row
    <3>2. \A r \in Rows : c.pending[r] <= 1 /\ (r # row => c.pending[r] = d.pending[r])
      <4>1. \A r \in Rows : d.pending[r] <= 1 BY <2>6 DEF Fresh
      <4> HIDE DEF row, k
      <4> QED BY <2>4, <2>5, <3>1, <4>1
    <3>3. \A i \in (d.pos + 1)..Len(Repos) : c.pending[<<Repos[i], "filelists">>] = 0
      BY <2>2, <2>4, <3>1, <3>2
    <3>4. CASE d.pos = Len(Repos)
      <4>1. c.pc = "commit" BY <2>3, <2>5, <3>4
      <4> QED BY <3>2, <4>1 DEF Fresh
    <3>5. CASE d.pos # Len(Repos)
      <4>1. c.pc = "importFilelists" /\ c.pos = d.pos + 1 BY <2>3, <2>5, <3>5
      <4> QED BY <3>2, <3>3, <4>1 DEF Fresh
    <3> QED BY <3>4, <3>5
  <2>11. index'.exists /\ Grows(index, index') BY <2>1, IndexThere DEF Grows, d
  <2>12. c.pc \in Connected BY <2>3, <2>5
  <2> QED BY <1>3, <2>1, <2>3, <2>5, <2>9, <2>10, <2>11, <2>12
<1> QED BY <1>4, <1>5, <1>6, <1>7

(* The commit: one process less builds, and one build more is committed,   *)
(* with rows of every repository that nobody was warned of.                *)
LEMMA CommitKeeps ==
  ASSUME IInv, NEW p \in Procs, Commit(p)
  PROVE  IInv'
PROOF
<1> DEFINE d == call[p]
           c == [d EXCEPT !.pc = "open", !.pending = None]
<1>1. d \in Records /\ Listed(d) /\ There(d, cached) /\ Fresh(d) BY Types
<1>2. /\ d.pc = "commit" /\ Becomes(p, c) /\ lock' = Nobody /\ UNCHANGED <<cached, crowded, calls>>
      /\ index' = [index EXCEPT !.builds = @ + 1, !.rows = Added(@, d.pending),
                                !.warned = @ \cup d.warned]
  BY DEF Commit, At
<1>3. /\ c \in Records /\ c.pc = "open" /\ c.primaries = d.primaries
      /\ c.filelists = d.filelists /\ c.pending = None
  <2>1. None \in [Rows -> Nat] BY DEF None
  <2> QED BY <1>1, <2>1 DEF Records, PCs
<1>4. index.exists BY <1>2, IndexThere DEF Connected
<1>5. index \in [exists : BOOLEAN, schema : BOOLEAN, builds : Nat,
                 rows : [Rows -> Nat], warned : SUBSET RepoSet]
  BY DEF IInv, TypeOK
<1>6. /\ index'.builds = index.builds + 1 /\ index'.rows = Added(index.rows, d.pending)
      /\ index'.warned = index.warned \cup d.warned /\ index'.exists = index.exists
  BY <1>2, <1>5
<1>7. index' \in [exists : BOOLEAN, schema : BOOLEAN, builds : Nat,
                  rows : [Rows -> Nat], warned : SUBSET RepoSet]
  <2>1. d.pending \in [Rows -> Nat] /\ d.warned \subseteq RepoSet BY <1>1 DEF Records
  <2> DEFINE rows == Added(index.rows, d.pending)
             warned == index.warned \cup d.warned
  <2>2. index' = [index EXCEPT !.builds = index.builds + 1, !.rows = rows, !.warned = warned]
    BY <1>2, <1>5
  <2>3. rows \in [Rows -> Nat] /\ warned \in SUBSET RepoSet /\ index.builds + 1 \in Nat
    BY <1>5, <2>1 DEF Added
  <2> HIDE DEF rows, warned
  <2> QED BY <1>5, <2>2, <2>3
<1>8. \A k \in RepoSet : Dealt(d, k) /\ Imported(d, k)
  BY <1>1, <1>2 DEF Listed, Connected
<1> HIDE DEF c
<1>9. call' \in [Procs -> Records] /\ call'[p] = c /\ \A q \in Procs \ {p} : call'[q] = call[q]
  BY <1>2, <1>3, Types DEF Becomes
<1>10. TypeOK' BY <1>2, <1>7, <1>9 DEF IInv, TypeOK, Records
<1>11. CommittedIsWhole'
  <2>1. ASSUME NEW k \in RepoSet \ index'.warned
        PROVE  index'.rows[<<k, "primary">>] > 0
    <3>1. d.pending[<<k, "primary">>] > 0 BY <1>6, <1>8 DEF Dealt, Imported
    <3>2. /\ <<k, "primary">> \in Rows
          /\ d.pending \in [Rows -> Nat] /\ index.rows \in [Rows -> Nat]
      BY <1>1, <1>5 DEF Records, Rows
    <3> QED BY <1>6, <3>1, <3>2 DEF Added
  <2> QED BY <1>5, <1>6, <2>1 DEF CommittedIsWhole
<1>12. Counted'
  <2>1. p \in Building BY <1>2, Builds
  <2>2. Building' = Building \ {p} BY <1>3, <1>9 DEF Building, At
  <2>3. /\ Cardinality(Building') = Cardinality(Building) - 1
        /\ Cardinality(Building) \in Nat /\ Cardinality(Procs) \in Nat
    <3>1. Building \subseteq Procs BY DEF Building
    <3> QED BY <2>1, <2>2, <3>1, FewerBuild, Types
  <2>4. index'.builds + Cardinality(Building') <= Cardinality(Procs)
    BY <1>5, <1>6, <2>3 DEF IInv, Counted
  <2>5. \A r \in Rows : index'.rows[r] <= index'.builds
    <3> SUFFICES ASSUME NEW r \in Rows PROVE index'.rows[r] <= index'.builds OBVIOUS
    <3>1. /\ index.rows[r] \in Nat /\ d.pending[r] \in Nat /\ d.pending[r] <= 1
          /\ index.rows[r] <= index.builds /\ index.builds \in Nat
      BY <1>1, <1>5 DEF Records, Fresh, IInv, Counted
    <3> QED BY <1>6, <3>1 DEF Added
  <2>6. ~crowded' => /\ index'.builds <= 1
                     /\ index'.builds > 0 => Building' = {}
                     /\ \A q, o \in Building' : q = o
    <3> SUFFICES ASSUME ~crowded PROVE index.builds = 0 /\ Building \subseteq {p}
      BY <1>2, <1>6, <2>2
    <3> QED BY <1>5, <2>1 DEF IInv, Counted
  <2>7. index'.exists BY <1>4, <1>6
  <2>8. \A q \in Procs : call'[q].pc \in Connected => index'.exists BY <2>7
  <2> QED BY <2>4, <2>5, <2>6, <2>7, <2>8 DEF Counted
<1>13. \A q \in Procs : Listed(call'[q]) /\ There(call'[q], cached') /\ Fresh(call'[q])
  <2>1. Listed(c) BY <1>3 DEF Listed, Downloading, Connected
  <2>2. There(c, cached') BY <1>1, <1>2, <1>3 DEF There
  <2>3. \A q \in Procs \ {p} : /\ Listed(call[q]) /\ There(call[q], cached')
                              /\ Fresh(call[q])
    BY <1>2, Types DEF There
  <2>4. Fresh(c) BY <1>3 DEF Fresh, None
  <2> QED BY <1>9, <2>1, <2>2, <2>3, <2>4
<1> QED BY <1>10, <1>11, <1>12, <1>13 DEF IInv, Listed, Dealt, Imported, There, Fresh

(* The end of a call, by an exception, by a signal, or with its queries    *)
(* made.                                                                   *)
LEMMA EndsKeep ==
  ASSUME IInv, NEW p \in Procs, Fails(p) \/ Close(p)
  PROVE  IInv'
PROOF
<1>1. Idle \in Records BY Types DEF Records, Idle, PCs, None
<1>2. Listed(Idle) /\ There(Idle, cached') /\ Fresh(Idle)
  BY DEF Listed, There, Idle, Downloading, Connected, Fresh, None
<1>3. /\ Becomes(p, Idle) /\ UNCHANGED <<cached, index, crowded, calls>>
      /\ lock' \in Procs \cup {Nobody}
  BY DEF Fails, Close, IInv, TypeOK
<1>4. Idle.pc = "idle" BY DEF Idle
<1>5. cached \in [Files -> FileStates] BY DEF IInv, TypeOK
<1>6. UNCHANGED crowded BY DEF Fails, Close
<1> QED BY <1>1, <1>2, <1>3, <1>4, <1>5, <1>6, Stepping DEF Grows, Connected

LEMMA Starts ==
  ASSUME Init
  PROVE  IInv
PROOF
<1>1. /\ Len(Repos) \in Nat /\ Len(Repos) >= 1 /\ IsFiniteSet(Procs) BY RepoAssumption
<1>2. TypeOK
  <2>1. None \in [Rows -> Nat] BY DEF None
  <2>2. NoIndex \in [exists : BOOLEAN, schema : BOOLEAN, builds : Nat,
                     rows : [Rows -> Nat], warned : SUBSET RepoSet]
    BY <2>1 DEF NoIndex
  <2>3. Idle \in Records BY <1>1, <2>1 DEF Records, Idle, PCs
  <2>4. cached \in [Files -> FileStates] BY DEF Init, FileStates
  <2>5. call \in [Procs -> Records] BY <2>3 DEF Init
  <2>6. calls \in 0..MaxCalls BY RepoAssumption DEF Init
  <2> QED BY <2>2, <2>4, <2>5, <2>6 DEF Init, TypeOK, Records
<1>3. Counted
  <2>1. Building = {} BY DEF Init, Building, At, Idle
  <2>2. Cardinality(Building) = 0 /\ Cardinality(Procs) \in Nat
    BY <1>1, <2>1, FS_EmptySet, FS_CardinalityType
  <2> QED BY <2>1, <2>2 DEF Init, Counted, Idle, NoIndex, None, Connected
<1>4. CommittedIsWhole BY DEF Init, CommittedIsWhole, NoIndex
<1>5. \A p \in Procs : Listed(call[p]) /\ There(call[p], cached) /\ Fresh(call[p])
  BY DEF Init, Listed, There, Idle, Downloading, Connected, Fresh, None
<1> QED BY <1>2, <1>3, <1>4, <1>5 DEF IInv

-----------------------------------------------------------------------------
(* The invariant behind the two properties: a process that builds keeps    *)
(* account of the repositories it has been through, and no process begins  *)
(* to build once the index has been connected to.                          *)
THEOREM Inductive == Spec => []IInv
PROOF
<1>1. Init => IInv BY Starts
<1>2. IInv /\ [Next]_vars => IInv'
  <2> SUFFICES ASSUME IInv, [Next]_vars PROVE IInv' OBVIOUS
  <2>1. CASE UNCHANGED vars
    BY <2>1 DEF vars, IInv, TypeOK, Counted, CommittedIsWhole, Building, At, Listed, There,
                Dealt, Imported, Fresh
  <2>2. ASSUME NEW p \in Procs, Build(p) PROVE IInv'
    BY <2>2, BuildKeeps, CommitKeeps DEF Build
  <2> QED BY <2>1, <2>2, EnsureIndexKeeps, DownloadKeeps, EndsKeep DEF Next
<1> QED BY <1>1, <1>2, PTL DEF Spec

(* The types of the cache, the index and the calls.                        *)
THEOREM TypeCorrect == Spec => []TypeOK
PROOF
<1>1. IInv => TypeOK BY DEF IInv
<1> QED BY <1>1, Inductive, PTL

(* An index with rows has those of every repository no call was warned of, *)
(* whatever calls failed, were killed or ran beside.                       *)
THEOREM Committed == Spec => []CommittedIsWhole
PROOF
<1>1. IInv => CommittedIsWhole BY DEF IInv
<1> QED BY <1>1, Inductive, PTL

(* The rows of a database are in the index once, unless calls found no     *)
(* index at the same time; then once for each process at most.             *)
THEOREM Once == Spec => []RowsOnce
PROOF
<1>1. ASSUME IInv PROVE RowsOnce
  <2>1. Building \subseteq Procs BY DEF Building
  <2>2. Cardinality(Building) \in Nat /\ Cardinality(Procs) \in Nat
    BY <1>1, <2>1, FewerBuild, Types
  <2> SUFFICES ASSUME NEW r \in Rows
               PROVE  index.rows[r] <= IF crowded THEN Cardinality(Procs) ELSE 1
    BY DEF RowsOnce
  <2>3. index.rows[r] \in Nat /\ index.rows[r] <= index.builds /\ index.builds \in Nat
    BY <1>1 DEF IInv, Counted, TypeOK
  <2>4. /\ index.builds + Cardinality(Building) <= Cardinality(Procs)
        /\ ~crowded => index.builds <= 1
    BY <1>1 DEF IInv, Counted
  <2> QED BY <2>2, <2>3, <2>4
<1> QED BY <1>1, Inductive, PTL
=============================================================================
