---------------------------- MODULE MCRepoMeta ----------------------------
(* One repository of sources and one of binaries; the processes are alike. *)
EXTENDS RepoMeta, TLC

MCRepos == <<"releases-source", "updates-x86_64">>
MCBinaries == {"updates-x86_64"}
AnyProcess == Permutations(Procs)
=============================================================================
