--------------------------- MODULE ProjectArchive ---------------------------
(* What freepod deploy uploads (cli/src/freepod/archive.py): the walk over  *)
(* a project that leaves out what its ignore files exclude.                 *)
(*                                                                          *)
(* Four levels decide, the last match winning: hard excludes, built-in      *)
(* defaults, the .gitignore of every directory on the way, .freepodignore.  *)
(* A pattern is a record; a path is the sequence of its names. One pattern  *)
(* of an ignore file is matched as git does; the verdict of a whole file on *)
(* a path is the pathspec library's, which lets a pattern that names a      *)
(* directory match what is below it. The tree does not change meanwhile.    *)
EXTENDS Naturals, Sequences, SequencesExt

CONSTANTS
  Files,         \* Files[p]: what the file at p is: "file", "link", "escaping" or "special"
  ProjectFile,   \* .freepod.json, which is always uploaded
  HardNames,     \* names of directories that are never uploaded
  DefaultNames,  \* names of directories left out by default
  DefaultFiles,  \* names left out by default, of files or directories
  RootIgnores,   \* the contents .gitignore of the root may have
  NestedAt,      \* a directory that may have a .gitignore of its own
  NestedIgnores, \* its contents
  FreepodIgnores \* the contents of .freepodignore

Paths == DOMAIN Files
Above(p) == {SubSeq(p, 1, n) : n \in 1 .. Len(p) - 1}
Dirs == UNION {Above(p) : p \in Paths}
Root == <<>>

ASSUME ArchiveAssumption ==
  /\ \A p \in Paths : p # Root /\ Files[p] \in {"file", "link", "escaping", "special"}
  /\ Paths \intersect Dirs = {} /\ NestedAt \in Dirs
  /\ ProjectFile \in Paths /\ Files[ProjectFile] = "file" /\ Len(ProjectFile) = 1

VARIABLES
  gitignore,     \* gitignore[d]: the patterns of the .gitignore in d
  freepodignore, \* those of .freepodignore
  honor,         \* honor_gitignore
  locked,        \* directories that cannot be read
  toWalk,        \* directories to walk
  found,         \* members
  skipped        \* what was left out and reported

archiveVars == <<gitignore, freepodignore, honor, locked, toWalk, found, skipped>>

ArchiveInit ==
  /\ \E r \in RootIgnores, n \in NestedIgnores :
       gitignore = [d \in Dirs \union {Root} |-> IF d = Root THEN r ELSE IF d = NestedAt THEN n ELSE <<>>]
  /\ freepodignore \in FreepodIgnores /\ honor \in BOOLEAN
  /\ locked \in {{}, {NestedAt}}
  /\ toWalk = {Root} /\ found = {} /\ skipped = {}

-----------------------------------------------------------------------------
(* Patterns. `*' stands for one name; a body with one name and no leading   *)
(* slash is unanchored.                                                     *)
Fits(name, glob) == glob = "*" \/ name = glob

\* A pattern of the ignore file in base names q itself.
NamedBy(pat, base, q) ==
  /\ IsPrefix(base, q) /\ q # base
  /\ pat.dirOnly => q \in Dirs
  /\ IF pat.anchored
     THEN /\ Len(q) = Len(base) + Len(pat.body)
          /\ \A i \in DOMAIN pat.body : Fits(q[Len(base) + i], pat.body[i])
     ELSE Fits(Last(q), pat.body[1])

\* pathspec ranks a .gitignore pattern that re-includes a directory by rules of
\* its own, which are left out: no such pattern occurs.
ASSUME NoDirectoryReincluded ==
  /\ \A layer \in RootIgnores : \A i \in DOMAIN layer : layer[i].negated =>
       \A q \in Dirs : ~NamedBy(layer[i], Root, q)
  /\ \A layer \in NestedIgnores : \A i \in DOMAIN layer : layer[i].negated =>
       \A q \in Dirs : ~NamedBy(layer[i], NestedAt, q)

\* pathspec: the pattern matches p, or a directory above it.
Hits(pat, base, p) == {q \in Above(p) \union {p} : NamedBy(pat, base, q)}

\* pathspec's verdict of one ignore file: the last match wins.
LayerVerdict(layer, base, p) ==
  FoldLeft(LAMBDA says, pat : IF Hits(pat, base, p) = {} THEN says ELSE IF pat.negated THEN "in" ELSE "out",
           "none", layer)

\* The project's layers that apply below d, in order: the .gitignore files on
\* the way, then .freepodignore.
Layers(d) ==
  [i \in 1 .. Len(d) + 1 |-> LET at == SubSeq(d, 1, i - 1) IN
     [base |-> at, patterns |-> IF honor THEN gitignore[at] ELSE <<>>]]
  \o << [base |-> Root, patterns |-> freepodignore] >>

\* What the project's layers say of p, starting from what was said before.
Verdict(d, p, before) ==
  FoldLeft(LAMBDA said, layer :
             LET says == LayerVerdict(layer.patterns, layer.base, p) IN IF says = "none" THEN said ELSE says,
           before, Layers(d))

\* Below a directory named so, or that directory.
Within(names, p) == \E q \in (Above(p) \union {p}) \intersect Dirs : Last(q) \in names

\* Left out by a built-in default.
ByDefault(p) == Within(DefaultNames, p) \/ \E q \in Above(p) \union {p} : Last(q) \in DefaultFiles

\* Some negation, as it is written, is the name of a path below q.
NegatesUnder(d, q) ==
  \E i \in DOMAIN Layers(d) : \E j \in DOMAIN Layers(d)[i].patterns :
    LET layer == Layers(d)[i]
        pat == layer.patterns[j]
        written == layer.base \o pat.body IN
    /\ pat.negated /\ IsPrefix(q, written)
    /\ written # q \/ pat.dirOnly

\* A file is left out.
Excluded(d, p) ==
  /\ p # ProjectFile
  /\ \/ Within(HardNames, p)
     \/ Verdict(d, p, IF ByDefault(p) THEN "out" ELSE "in") = "out"

\* Mutant of Prunes: the directory is walked and its files are filtered.
Prunes_Filters(d, q) ==
  \/ Within(HardNames, q)
  \/ ByDefault(q) /\ ~NegatesUnder(d, q)

\* A directory is not descended into.
Prunes(d, q) ==
  \/ Within(HardNames, q)
  \/ Verdict(d, q, "in") = "out"
  \/ ByDefault(q) /\ ~NegatesUnder(d, q)

\* _walk of one directory.
Walk(d) ==
  LET entries == {p \in Paths \union Dirs : Len(p) = Len(d) + 1 /\ IsPrefix(d, p)}
      kept == {p \in entries \ Dirs : ~Excluded(d, p)} IN
  /\ d \in toWalk
  /\ IF d \in locked
     THEN /\ toWalk' = toWalk \ {d} /\ skipped' = skipped \union {d}
          /\ UNCHANGED found
     ELSE /\ toWalk' = (toWalk \ {d}) \union {q \in entries \intersect Dirs : ~Prunes(d, q)}
          /\ found' = found \union {p \in kept : Files[p] \in {"file", "link"}}
          /\ skipped' = skipped \union {p \in kept : Files[p] \in {"escaping", "special"}}
  /\ UNCHANGED <<gitignore, freepodignore, honor, locked>>

ArchiveNext == \E d \in toWalk : Walk(d)

-----------------------------------------------------------------------------
(* What git would say, and what the specification promises.                 *)

\* git: the last pattern that names p, in any .gitignore on the way to it.
GitSays(p) ==
  LET at(i) == SubSeq(p, 1, i - 1)
      last(said, i) == FoldLeft(LAMBDA s, pat : IF NamedBy(pat, at(i), p) THEN (IF pat.negated THEN "in" ELSE "out") ELSE s,
                                said, gitignore[at(i)])
  IN FoldLeft(last, "in", [i \in 1 .. Len(p) |-> i])

\* Nothing below an ignored directory is tracked.
GitTracks(p) == \A q \in Above(p) \union {p} : GitSays(q) = "in"

\* Members, and what would have been one but for its kind: those are reported.
Considered == found \union skipped
Parent(p) == Front(p)
InReach(p) == Above(p) \intersect locked = {}

ArchiveTypeOK ==
  /\ toWalk \subseteq Dirs \union {Root} /\ found \subseteq Paths /\ skipped \subseteq Paths \union Dirs
  /\ found \intersect skipped = {}

\* A project without .freepodignore is packed as git would track it, as far as
\* no built-in default is in the way: leaving out directories as they are met
\* and matching file by file come to the same.
GitParity ==
  toWalk = {} /\ honor /\ freepodignore = <<>> =>
  \A p \in Paths \ {ProjectFile} :
    InReach(p) /\ ~Within(HardNames, p) /\ ~ByDefault(p) => (p \in Considered <=> GitTracks(p))

\* What a default leaves out comes back only by name: a negation of the project
\* names the file, or a directory it is in.
OnlyByName ==
  \A p \in found : ByDefault(p) /\ p # ProjectFile =>
    \E i \in DOMAIN Layers(Parent(p)) :
      LET layer == Layers(Parent(p))[i] IN
      \E j \in DOMAIN layer.patterns : layer.patterns[j].negated /\ Hits(layer.patterns[j], layer.base, p) # {}

\* .freepodignore has the final say: a file that its last pattern re-includes
\* by its full path is packed, also from below a default, unless the project
\* excludes a directory it is in.
FinalSay ==
  toWalk = {} /\ freepodignore # <<>> /\ Last(freepodignore).negated =>
  \A p \in Paths :
    /\ Last(freepodignore).body = p /\ ~Last(freepodignore).dirOnly
    /\ InReach(p) /\ ~Within(HardNames, p)
    /\ \A q \in Above(p) : Verdict(Parent(q), q, "in") = "in"
    => p \in Considered

\* History is never uploaded, the project file always is, whatever the ignore
\* files say.
AlwaysAndNever ==
  /\ \A p \in Considered : ~Within(HardNames, p)
  /\ toWalk = {} => ProjectFile \in found

\* What is packed: what this module promises of any ignore files.
PacksAreRight == ArchiveTypeOK /\ GitParity /\ OnlyByName /\ FinalSay /\ AlwaysAndNever
=============================================================================
