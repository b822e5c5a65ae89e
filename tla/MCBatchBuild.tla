--------------------------- MODULE MCBatchBuild ---------------------------
(* Two packages, foo with RPMs foo and foo-devel, and foo-utils with one.  *)
EXTENDS BatchBuild

MCPackages == {"foo", "foo-utils"}
MCRpms     == {"foo-1.rpm", "foo-devel-1.rpm", "foo-utils-1.rpm"}

MCOwner == [r \in MCRpms |-> IF r = "foo-utils-1.rpm" THEN "foo-utils" ELSE "foo"]

(* "{package}-*.rpm", as the file system matches it.                       *)
MCGlob == [p \in MCPackages |-> IF p = "foo" THEN MCRpms ELSE {"foo-utils-1.rpm"}]

MCLookalike == [p \in MCPackages |-> MCPackages \ {p}]
MCNoLookalike == [p \in MCPackages |-> {}]

MCLists == {<<"foo", "foo-utils">>, <<"foo-utils", "foo">>}

MCOptions == [dryRun : BOOLEAN, generate : BOOLEAN, stopOnError : BOOLEAN,
              skipFetch : BOOLEAN, skipBuilt : BOOLEAN]

(* One RPM to a package.                                                   *)
MCRpmsSingle == {"foo-1.rpm", "foo-utils-1.rpm"}
MCOwnerSingle == [r \in MCRpmsSingle |-> IF r = "foo-1.rpm" THEN "foo" ELSE "foo-utils"]
MCGlobSingle ==
  [p \in MCPackages |-> IF p = "foo" THEN MCRpmsSingle ELSE {"foo-utils-1.rpm"}]

MCPlain == {[dryRun |-> FALSE, generate |-> TRUE, stopOnError |-> FALSE,
             skipFetch |-> FALSE, skipBuilt |-> TRUE]}
=============================================================================
