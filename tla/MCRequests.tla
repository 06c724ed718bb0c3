----------------------------- MODULE MCRequests -----------------------------
(* Instances for TLC of what requests and commands write: vars, the         *)
(* checkout that freepod deploy keeps, the objects that freepod cp and mv   *)
(* copy, the runs of the product upgrader that are requested and canceled,  *)
(* what is packed of a project, and the images that releases name. They     *)
(* share no state here; `focus' is the one whose steps a behaviour takes.   *)
EXTENDS DeploymentVars, ClientDeploy, BucketTransfer, ProductUpgrader, ProjectArchive,
        ImageRetention, TLC

CONSTANTS B1, B2, B3, B4

VARIABLE focus

requestsVars == <<focus, varsVars, clientVars, transferVars, upgraderVars, archiveVars,
                  retentionVars>>

\* The schema declares one key, as sensitive.
MCDeclared == LET k == CHOOSE k \in VarKeys : TRUE IN [j \in {k} |-> TRUE]

\* Names under s/ and t/: two objects, one of them large, a key that is both a
\* name and a folder's, a folder marker, a marker with data, and keys no path can
\* be made of.
MCNames == << <<"s", "..", "z">>, <<"s", ".", "x">>, <<"s", "d">>, <<"s", "d", "">>, <<"s", "e", "">>,
              <<"s", "x">>, <<"s", "y">>, <<"t", "..", "z">>, <<"t", ".", "x">>, <<"t", "d">>,
              <<"t", "d", "">>, <<"t", "e", "">>, <<"t", "x">>, <<"t", "y">> >>
MCBig == {<<"s", "y">>}
MCFull == {<<"s", "e", "">>}
MCFiles == {<<"s", "x">>, <<"s", "y">>}
MCParts == {1, 2}

Holding(store, disk) ==
  [store |-> [n \in Range(MCNames) |-> IF n \in store THEN <<"store", n>> ELSE <<>>],
   disk |-> [n \in Range(MCNames) |-> IF n \in disk THEN <<"disk", n>> ELSE <<>>]]

Command(source, target, move, from, to, single, had) ==
  [source |-> source, target |-> target, move |-> move, from |-> from, to |-> to,
   single |-> single, had |-> had]

\* cp and mv: a directory up, a bucket's folder down, a folder to a folder,
\* and one object to another.
MCCommands == UNION {
  {Command("disk", "store", m, <<"s">>, <<"t">>, FALSE, Holding({<<"t", "x">>}, MCFiles)),
   Command("store", "disk", m, <<"s">>, <<"t">>, FALSE,
           Holding({n \in Range(MCNames) : n[1] = "s"}, {<<"t", "x">>})),
   Command("store", "disk", m, <<"s">>, <<"t">>, FALSE, Holding(MCFiles, {<<"t", "x">>})),
   Command("store", "store", m, <<"s">>, <<"t">>, FALSE, Holding({<<"s", "d", "">>} \union MCFiles, {})),
   Command("store", "store", m, <<"s", "x">>, <<"t", "x">>, TRUE, Holding(MCFiles, {}))} : m \in BOOLEAN}

\* A product that is due in both runs.
MCCatalogs == << <<"a">>, <<"a">> >>

\* A project with a directory d, one left out by default (m) and a file that is
\* (swp), history (git), a link that leads out of it and one that does not.
Pattern(negated, anchored, body, dirOnly) ==
  [negated |-> negated, anchored |-> anchored, body |-> body, dirOnly |-> dirOnly]
Out(body) == Pattern(FALSE, Len(body) > 1, body, FALSE)
Back(body) == Pattern(TRUE, Len(body) > 1, body, FALSE)
MCFilesOf == [p \in {<<"a">>, <<"d", "a">>, <<"d", "s", "a">>, <<"d", "s", "b">>, <<"d", "l">>, <<"m", "a">>,
                     <<"d", "s", "swp">>, <<"m", "s", "a">>, <<"m", "b">>, <<"git", "a">>, <<"project">>} |->
              CASE p = <<"d", "l">> -> "escaping" [] p = <<"m", "b">> -> "link" [] OTHER -> "file"]
MCProjectFile == <<"project">>
MCNestedAt == <<"d">>
MCPatterns == {Pattern(FALSE, FALSE, <<"d">>, TRUE), Out(<<"a">>), Out(<<"d", "*">>), Out(<<"s">>), Out(<<"*">>),
               Out(<<"m", "*">>), Back(<<"d", "a">>), Back(<<"a">>), Back(<<"m", "a">>), Back(<<"d", "s", "a">>)}
MCRootIgnores == {<<>>} \union {<<x>> : x \in MCPatterns} \union {<<x, y>> : x, y \in MCPatterns}
MCNestedIgnores == {<<>>, <<Back(<<"a">>)>>, <<Out(<<"s">>)>>, <<Out(<<"s", "*">>), Back(<<"s", "a">>)>>}
MCFreepodIgnores == {<<>>, <<Back(<<"m", "a">>)>>, <<Pattern(TRUE, TRUE, <<"m", "s">>, TRUE)>>, <<Back(<<"m", "s", "a">>)>>,
                     <<Back(<<"a">>)>>, <<Pattern(TRUE, FALSE, <<"git">>, TRUE), Back(<<"git", "a">>)>>,
                     <<Back(<<"swp">>)>>, <<Out(<<"project">>)>>}

\* Three images and a build that makes the first of them once more; the first
\* two have been deployed, long ago, and the third has just been built.
MCImageOf == [b \in ImageBuilds |-> CASE b = B2 -> "i2" [] b = B3 -> "i3" [] OTHER -> "i1"]
RetentionStart ==
  /\ build = [b \in ImageBuilds |-> CASE b = B3 -> "fresh" [] b = B4 -> "none" [] OTHER -> "old"]
  /\ tags = ImageBuilds \ {B4}
  /\ ledger = [d \in OwnedApps |-> <<"i1", "i2">>] /\ applied = [d \in OwnedApps |-> 2]
  /\ ready = OwnedApps /\ goneApps = {} /\ checked = [d \in OwnedApps |-> NoImage]
  /\ prune = NoPrune /\ left = {} /\ prunes = 0

\* Requests are interchangeable, and so are the names of hosts.
Symmetry == Permutations(VarWriters) \union Permutations(Hosts)

ArchiveStart ==
  IF focus = "archive" THEN ArchiveInit
  ELSE /\ gitignore = [d \in Dirs \union {Root} |-> <<>>] /\ freepodignore = <<>>
       /\ honor = TRUE /\ locked = {} /\ toWalk = {Root} /\ found = {} /\ skipped = {}

RequestsInit ==
  /\ focus \in {"vars", "client", "transfer", "upgrader", "archive", "images"}
  /\ VarsInit /\ ClientInit /\ TransferInit /\ UpgraderInit
  /\ ArchiveStart /\ RetentionStart
  /\ focus # "client" => projectFile.host = "none"
  /\ focus # "transfer" => transfer = CHOOSE c \in Commands : TRUE

RequestsNext ==
  /\ UNCHANGED focus
  /\ \/ /\ focus = "vars" /\ VarsNext
        /\ UNCHANGED <<clientVars, transferVars, upgraderVars, archiveVars, retentionVars>>
     \/ /\ focus = "client" /\ ClientNext
        /\ UNCHANGED <<varsVars, transferVars, upgraderVars, archiveVars, retentionVars>>
     \/ /\ focus = "transfer" /\ TransferNext
        /\ UNCHANGED <<varsVars, clientVars, upgraderVars, archiveVars, retentionVars>>
     \/ /\ focus = "upgrader" /\ UpgraderNext
        /\ UNCHANGED <<varsVars, clientVars, transferVars, archiveVars, retentionVars>>
     \/ /\ focus = "archive" /\ ArchiveNext
        /\ UNCHANGED <<varsVars, clientVars, transferVars, upgraderVars, retentionVars>>
     \/ /\ focus = "images" /\ RetentionNext
        /\ UNCHANGED <<varsVars, clientVars, transferVars, upgraderVars, archiveVars>>

RequestsSpec == RequestsInit /\ [][RequestsNext]_requestsVars
=============================================================================
