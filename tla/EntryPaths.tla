----------------------------- MODULE EntryPaths -----------------------------
(***************************************************************************)
(* From the names on a command line to files under an output directory,     *)
(* zupt_format.c (POSIX): zupt_collect_files lists the files to archive,    *)
(* zupt_validate_archive_destinations accepts or refuses the list, and      *)
(* zupt_safe_fopen_output walks to the place of each entry, one directory   *)
(* at a time, while another process may exchange a directory for a link.    *)
(*                                                                         *)
(* The file system is a function from inodes to nodes, because what keeps   *)
(* the walk together is that a descriptor pins an inode, whatever happens   *)
(* to its name.                                                             *)
(***************************************************************************)
EXTENDS PathNames, Functions

CONSTANTS
  Inputs,        \* command lines: sequences of arguments, see Argument
  MaxFiles,      \* ZUPT_MAX_FILES
  FileSystems,   \* file systems before the extraction
  Destinations,  \* output directories, sequences of components from the root
  LinkTarget,    \* what an exchanged directory becomes a link to
  Exchanges      \* bound on the exchanges by another process

VARIABLES
  pc,        \* "collect", "validate", "entry", "walk" or "done"
  arguments, \* the command line
  taken,     \* how many of them are collected
  list,      \* fl: the names in the archive, or
  failed,    \* zupt_internal_filelist_failed
  dest,      \* the output directory the user named
  before,    \* the file system when extraction began
  fs,        \* the file system
  entry,     \* the entry being extracted
  physical,  \* the output directory as resolved for it
  at,        \* the directory the descriptor pins
  todo,      \* the components still to walk, the last one being the file's
  errors,    \* entries that could not be created
  exchanged  \* directories another process has exchanged

vars == << pc, arguments, taken, list, failed, dest, before, fs, entry, physical, at, todo, errors, exchanged >>

-----------------------------------------------------------------------------
(* Collection *)

\* An argument is named and is a file, a directory with what is below it, or
\* something else; below a directory there are names with their kinds.  A
\* directory that cannot be read is "other".
Argument(name, kind, below) == [name |-> name, kind |-> kind, below |-> below]

IsDotSlash(s) == Len(s) >= 2 /\ s[1] = Dot /\ s[2] \in Separators

StripDotSlashes(s) ==
  LET strip[k \in 0 .. Len(s)] ==
        LET rest == SubSeq(s, k + 1, Len(s))
        IN IF IsDotSlash(rest) THEN strip[k + 2] ELSE rest
  IN strip[0]

StripSeparators(s) ==
  LET first == SelectInSeq(s, LAMBDA c : c \notin Separators)
  IN IF first = 0 THEN << >> ELSE SubSeq(s, first, Len(s))

\* arc: the name in the archive of the file path, when it may have one.
ArchiveName(path) ==
  LET stripped == StripSeparators(StripDotSlashes(path))
  IN IF stripped = << >> THEN StripSeparators(path) ELSE stripped

MayBeArchived(path) ==
  LET arc == ArchiveName(path)
  IN (\A i \in DOMAIN arc : arc[i] # Backslash) /\ PathIsSafe(arc)

Child(base, rel) == base \o << Slash >> \o rel

PathsOf(argument) ==
  IF argument.kind = "dir" THEN {Child(argument.name, b.rel) : b \in argument.below}
  ELSE {argument.name}

\* Seeded fault: what is not a regular file below a directory is passed over.
OthersPassedOver(argument) == argument.kind # "other"

AllRegular(argument) ==
  IF argument.kind = "dir" THEN \A b \in argument.below : b.kind = "file"
  ELSE argument.kind = "file"

\* What the program can be called with: only a directory has anything below it.
IsCommand(command) ==
  /\ command \in Seq(Range(command))
  /\ \A k \in DOMAIN command :
       /\ command[k].name \in Names
       /\ command[k].kind \in {"file", "dir", "other"}
       /\ IsFiniteSet(command[k].below)
       /\ \A b \in command[k].below : b.rel \in Names
       /\ command[k].kind # "dir" => command[k].below = {}

\* One call for the next argument: everything below it in any order, and the
\* list fails as a whole when one of the files cannot be listed.
Collect ==
  /\ pc = "collect"
  /\ IF taken = Len(arguments) \/ failed
     THEN pc' = "validate" /\ UNCHANGED << taken, list, failed >>
     ELSE LET argument == arguments[taken + 1]
              paths == PathsOf(argument)
          IN /\ taken' = taken + 1
             /\ \E order \in SetToSeqs(paths) :
                  list' = list \o [i \in DOMAIN order |-> Normalize(ArchiveName(order[i]), FALSE)]
             /\ \E outOfMemory \in BOOLEAN :
                  failed' = \/ ~ AllRegular(argument)
                            \/ \E p \in paths : ~ MayBeArchived(p)
                            \/ Len(list) + Cardinality(paths) > MaxFiles
                            \/ outOfMemory
             /\ UNCHANGED pc
  /\ UNCHANGED << arguments, dest, before, fs, entry, physical, at, todo, errors, exchanged >>

\* The archive is written and read back with the same check.
Validate ==
  /\ pc = "validate"
  /\ IF ~ failed /\ ValidDestinations(list)
     THEN pc' = "entry" /\ entry' = 1
     ELSE pc' = "done" /\ UNCHANGED entry
  /\ UNCHANGED << arguments, taken, list, failed, dest, before, fs, physical, at, todo, errors, exchanged >>

-----------------------------------------------------------------------------
(* The file system *)

Root == 1
Directory(ent) == [kind |-> "dir", ent |-> ent]
Link(to) == [kind |-> "link", to |-> to]
File(content) == [kind |-> "file", content |-> content]
EmptyDirectory == Directory(<< >>)

Has(files, d, name) == name \in DOMAIN files[d].ent
WithName(ent, name, inode) ==
  [x \in DOMAIN ent \cup {name} |-> IF x = name THEN inode ELSE ent[x]]
Enter(files, d, name, node) ==
  Append([files EXCEPT ![d].ent = WithName(@, name, Len(files) + 1)], node)

\* Inodes are numbers, the root is a directory, and entries lead to inodes.  A
\* file holds the number of an entry, or some other number.
IsFileSystem(files) ==
  /\ files \in Seq(Range(files))
  /\ Root \in DOMAIN files /\ files[Root].kind = "dir"
  /\ \A d \in DOMAIN files :
       \/ /\ files[d].kind = "dir" /\ files[d] = Directory(files[d].ent)
          /\ files[d].ent \in [DOMAIN files[d].ent -> DOMAIN files]
       \/ /\ files[d].kind = "link" /\ files[d] = Link(files[d].to)
          /\ files[d].to \in Seq(Names)
       \/ /\ files[d].kind = "file" /\ files[d] = File(files[d].content)
          /\ files[d].content \in Int

ASSUME EntryPathsConstants ==
  /\ \A command \in Inputs : IsCommand(command)
  /\ \A files \in FileSystems : IsFileSystem(files)
  /\ Destinations \subseteq Seq(Names)
  /\ LinkTarget \in Seq(Names)

\* Where a path leads from the root, without links; 0 when nowhere.
Lookup(files, path) ==
  LET reached[k \in 0 .. Len(path)] ==
        IF k = 0 THEN Root
        ELSE LET d == reached[k - 1]
             IN IF d # 0 /\ files[d].kind = "dir" /\ Has(files, d, path[k])
                THEN files[d].ent[path[k]] ELSE 0
  IN reached[Len(path)]

\* One more component of a path whose beginning is resolved.
Resolve(files, result, name) ==
  LET d == Lookup(files, result.path)
  IN IF result.error # "none" THEN result
     ELSE IF files[d].kind # "dir" THEN [result EXCEPT !.error = "ENOTDIR"]
     ELSE IF name = << Dot >> THEN result
     ELSE IF name = << Dot, Dot >>
          THEN [result EXCEPT !.path = IF @ = << >> THEN @ ELSE Front(@)]
     ELSE IF ~ Has(files, d, name) THEN [result EXCEPT !.error = "ENOENT"]
     ELSE IF files[files[d].ent[name]].kind = "link"
          THEN LET to == files[files[d].ent[name]].to
               IN IF Lookup(files, to) = 0 THEN [result EXCEPT !.error = "ENOENT"]
                  ELSE [result EXCEPT !.path = to]
     ELSE [result EXCEPT !.path = Append(@, name)]

\* realpath: a path without links, or the reason there is none.  The links of
\* the instances lead to paths without links.
RealPath(files, path) ==
  LET real[k \in 0 .. Len(path)] ==
        IF k = 0 THEN [path |-> << >>, error |-> "none"]
        ELSE Resolve(files, real[k - 1], path[k])
  IN real[Len(path)]

\* Seeded fault: the part of the path that does not exist yet is lost.
ExistingPartOnly(files, path) ==
  LET real(k) == RealPath(files, SubSeq(path, 1, k))
      found == CHOOSE k \in 0 .. Len(path) :
                 /\ real(k).error # "ENOENT"
                 /\ \A j \in k + 1 .. Len(path) : real(j).error = "ENOENT"
  IN [ok |-> real(found).error = "none", path |-> real(found).path]

\* zupt_canonical_output_root: the part of the path that exists, made real,
\* and the rest as it stands, which may not go up.
CanonicalRoot(files, path) ==
  LET real(k) == RealPath(files, SubSeq(path, 1, k))
      found == CHOOSE k \in 0 .. Len(path) :
                 /\ real(k).error # "ENOENT"
                 /\ \A j \in k + 1 .. Len(path) : real(j).error = "ENOENT"
      suffix == SubSeq(path, found + 1, Len(path))
  IN IF real(found).error # "none" \/ Contains(suffix, << Dot, Dot >>)
     THEN [ok |-> FALSE, path |-> << >>]
     ELSE [ok |-> TRUE,
           path |-> real(found).path \o Kept(suffix, {i \in DOMAIN suffix : suffix[i] # << Dot >>})]

\* The components of an entry's name that are walked.
Parts(name) ==
  LET all == Components(name)
  IN Kept(all, {i \in DOMAIN all : all[i] \notin {<< >>, << Dot >>}})

\* Resolve the output directory once for each entry and start at the root.
StartEntry ==
  /\ pc = "entry"
  /\ entry <= Len(list)
  /\ LET canonical == CanonicalRoot(fs, dest)
     IN IF canonical.ok
        THEN /\ pc' = "walk" /\ physical' = canonical.path
             /\ at' = Root /\ todo' = canonical.path \o Parts(list[entry])
             /\ UNCHANGED << entry, errors >>
        ELSE errors' = errors \cup {entry} /\ entry' = entry + 1 /\ UNCHANGED << pc, physical, at, todo >>
  /\ UNCHANGED << arguments, taken, list, failed, dest, before, fs, exchanged >>

GiveUp ==
  /\ errors' = errors \cup {entry} /\ entry' = entry + 1 /\ pc' = "entry"
  /\ todo' = << >> /\ at' = Root

\* Seeded fault: openat without O_NOFOLLOW.
FollowsLinks(files, d, name) ==
  LET child == files[d].ent[name]
      step(i, part) == files[i].ent[part]
  IN CASE files[child].kind = "dir"  -> child
       [] files[child].kind = "link" -> FoldLeft(step, Root, files[child].to)
       [] OTHER -> 0

\* mkdirat, then openat with O_DIRECTORY and O_NOFOLLOW.
OpenDirectory(files, d, name) ==
  LET child == files[d].ent[name]
  IN IF files[child].kind = "dir" THEN child ELSE 0

Descend ==
  /\ pc = "walk"
  /\ Len(todo) > 1
  /\ LET name == Head(todo)
         made == IF Has(fs, at, name) THEN fs ELSE Enter(fs, at, name, EmptyDirectory)
         next == OpenDirectory(made, at, name)
     IN /\ fs' = made
        /\ IF next # 0
           THEN at' = next /\ todo' = Tail(todo) /\ UNCHANGED << pc, entry, errors >>
           ELSE GiveUp
  /\ UNCHANGED << arguments, taken, list, failed, dest, before, physical, exchanged >>

\* Seeded fault: the temporary file replaces what has the name.
AlwaysFree(files, d, name) == TRUE

\* The temporary file gets the entry's name unless the name is taken.
NameIsFree(files, d, name) == ~ Has(files, d, name)

Create ==
  /\ pc = "walk"
  /\ Len(todo) = 1
  /\ IF NameIsFree(fs, at, Head(todo))
     THEN /\ fs' = Enter(fs, at, Head(todo), File(entry))
          /\ entry' = entry + 1 /\ pc' = "entry" /\ todo' = << >> /\ at' = Root
          /\ UNCHANGED errors
     ELSE GiveUp /\ UNCHANGED fs
  /\ UNCHANGED << arguments, taken, list, failed, dest, before, physical, exchanged >>

\* Any of the calls may fail for a reason of its own.
CallFails ==
  /\ pc = "walk"
  /\ GiveUp
  /\ UNCHANGED << arguments, taken, list, failed, dest, before, fs, physical, exchanged >>

Finish ==
  /\ pc = "entry" /\ entry > Len(list)
  /\ pc' = "done"
  /\ UNCHANGED << arguments, taken, list, failed, dest, before, fs, entry, physical, at, todo, errors, exchanged >>

\* Another process renames a directory away and leaves a link in its place.
Exchange ==
  /\ pc \in {"entry", "walk"}
  /\ Cardinality(exchanged) < Exchanges
  /\ \E d \in DOMAIN fs :
       /\ fs[d].kind = "dir"
       /\ \E name \in DOMAIN fs[d].ent :
            LET child == fs[d].ent[name]
            IN /\ fs[child].kind = "dir"
               /\ fs' = Append([fs EXCEPT ![d].ent[name] = Len(fs) + 1], Link(LinkTarget))
               /\ exchanged' = exchanged \cup {child}
  /\ UNCHANGED << pc, arguments, taken, list, failed, dest, before, entry, physical, at, todo, errors >>

Done == pc = "done" /\ UNCHANGED vars

Init ==
  /\ pc = "collect"
  /\ arguments \in Inputs /\ taken = 0
  /\ list = << >> /\ failed = FALSE
  /\ dest \in Destinations
  /\ before \in FileSystems
  /\ fs = before
  /\ entry = 0 /\ physical = << >> /\ at = Root /\ todo = << >> /\ errors = {} /\ exchanged = {}

Next == Collect \/ Validate \/ StartEntry \/ Descend \/ Create \/ CallFails \/ Finish \/ Exchange \/ Done

Spec == Init /\ [][Next]_vars
-----------------------------------------------------------------------------
(* Properties *)

EntryPathsTypeOK ==
  /\ pc \in {"collect", "validate", "entry", "walk", "done"}
  /\ arguments \in Inputs
  /\ taken \in 0 .. Len(arguments)
  /\ list \in Seq(Names)
  /\ failed \in BOOLEAN
  /\ dest \in Destinations
  /\ before \in FileSystems
  /\ IsFileSystem(fs)
  /\ entry \in 0 .. Len(list) + 1
  /\ pc \in {"entry", "walk"} => entry > 0
  /\ pc = "walk" => entry <= Len(list)
  /\ physical \in Seq(Names)
  /\ todo \in Seq(Names)
  /\ at \in DOMAIN fs /\ fs[at].kind = "dir"
  /\ errors \subseteq DOMAIN list
  /\ exchanged \subseteq DOMAIN fs

\* The files that the first arguments stand for.
FilesOf(count) == UNION {{<< k, p >> : p \in PathsOf(arguments[k])} : k \in 1 .. count}

\* A list that has not failed names every file below every argument once: what
\* could not be read is never left out in silence.
NothingIsLeftOut ==
  pc # "collect" /\ ~ failed =>
    /\ taken = Len(arguments)
    /\ Len(list) = Cardinality(FilesOf(Len(arguments)))
    /\ Range(list) = {Normalize(ArchiveName(f[2]), FALSE) : f \in FilesOf(Len(arguments))}
    /\ \A k \in DOMAIN arguments :
         /\ arguments[k].kind # "other"
         /\ \A b \in arguments[k].below : b.kind = "file"

\* And every reader of the archive accepts the names, which stand as they are.
ListedNamesAreAccepted ==
  pc # "collect" /\ ~ failed =>
    \A name \in Range(list) : PathIsSafe(name) /\ Normalize(name, FALSE) = name

CollectionIsComplete == NothingIsLeftOut /\ ListedNamesAreAccepted

\* What it rests on: the same of what is collected so far.
CollectedSoFar ==
  ~ failed =>
    /\ pc # "collect" => taken = Len(arguments)
    /\ Len(list) = Cardinality(FilesOf(taken))
    /\ Range(list) = {Normalize(ArchiveName(f[2]), FALSE) : f \in FilesOf(taken)}
    /\ \A k \in 1 .. taken :
         /\ arguments[k].kind # "other"
         /\ \A b \in arguments[k].below : b.kind = "file"

\* The shortest UTF-8 encoding of a code point.
Encoding(p) ==
  LET tail(n) == 128 + ((p \div n) % 64)
  IN IF p < 128 THEN << p >>
     ELSE IF p < 2048 THEN << 192 + (p \div 64), tail(1) >>
     ELSE IF p < 65536 THEN << 224 + (p \div 4096), tail(64), tail(1) >>
     ELSE << 240 + (p \div 262144), tail(4096), tail(64), tail(1) >>

\* The code points of Unicode, without the surrogates.
IsScalarValue(p) == p \in Nat /\ p <= 1114111 /\ (p < 55296 \/ p > 57343)

\* The scalar at a place of a name is one that a terminal shows as it is, in its
\* shortest encoding.
IsShown(name, i) ==
  LET scalar == Scalar(name, i)
  IN /\ scalar.length > 0
     /\ IsScalarValue(scalar.point) /\ ~ IsDisplayControl(scalar.point)
     /\ SubSeq(name, i, i + scalar.length - 1) = Encoding(scalar.point)

\* Nothing but such scalars, one after the other.
IsText(name) ==
  LET textFrom[i \in 1 .. Len(name) + 1] ==
        IF i = Len(name) + 1 THEN TRUE
        ELSE IF IsShown(name, i) THEN textFrom[i + Scalar(name, i).length]
        ELSE FALSE
  IN textFrom[1]

\* Every name in an accepted list is text: no reader of the archive is shown bytes
\* that are no text, or text that moves the cursor or turns its direction.
NamesAreText ==
  pc \in {"entry", "walk"} => \A name \in Range(list) : IsText(name)

\* What is walked for an entry, from the root.
Way == physical \o Parts(list[entry])

\* The output directory is resolved when the walk to an entry begins; whatever
\* another process exchanges for a link from then on, the walk stays on its way:
\* the directory it pins is where the components walked so far led, without a
\* link, before the extraction began, or one made since.
WalkStaysBelowItsRoot ==
  pc = "walk" /\ at \in DOMAIN before =>
    at = Lookup(before, SubSeq(Way, 1, Len(Way) - Len(todo)))

\* What it rests on: inodes keep their kind, and a directory that was there before
\* is found only where it was found then; the way is what was walked and what is
\* still to walk.
InodesKeepTheirPlace ==
  /\ DOMAIN before \subseteq DOMAIN fs
  /\ \A d \in DOMAIN before : fs[d].kind = before[d].kind
  /\ \A d \in DOMAIN fs :
       fs[d].kind = "dir" =>
         \A name \in DOMAIN fs[d].ent :
           LET child == fs[d].ent[name]
           IN child \in DOMAIN before /\ fs[child].kind = "dir" =>
                /\ d \in DOMAIN before
                /\ name \in DOMAIN before[d].ent /\ before[d].ent[name] = child

TodoEndsTheWay ==
  pc = "walk" =>
    Len(todo) <= Len(Way) /\ todo = SubSeq(Way, Len(Way) - Len(todo) + 1, Len(Way))

WalkInvariant == InodesKeepTheirPlace /\ TodoEndsTheWay /\ WalkStaysBelowItsRoot

\* Extraction never changes what a name stands for: files, links and
\* directories that are there stay there.
AddsToDirectories ==
  \A d \in DOMAIN fs :
    fs'[d] # fs[d] =>
      \/ Exchange
      \/ /\ fs[d].kind = "dir"
         /\ \A name \in DOMAIN fs[d].ent :
              name \in DOMAIN fs'[d].ent /\ fs'[d].ent[name] = fs[d].ent[name]

OnlyAdds == [][AddsToDirectories]_vars

\* When the call ends without an error and nobody interfered, every entry is
\* under its name below the directory the user named.
EveryEntryIsInItsPlace ==
  pc = "done" /\ entry > 0 /\ errors = {} /\ exchanged = {} =>
    \A i \in DOMAIN list :
      LET real == RealPath(fs, dest)
          place == real.path \o Components(list[i])
      IN /\ real.error = "none"
         /\ Lookup(fs, place) # 0
         /\ fs[Lookup(fs, place)] = File(i)

\* zupt_format.c:2087-2089: "Every archive entry must map to one portable
\* extraction destination. Separators are canonicalized and ASCII case is
\* folded for collision detection".
AcceptedNamesDoNotCollide ==
  pc \in {"entry", "walk"} =>
    \A i, j \in DOMAIN list :
      i # j => ~ Collides(Normalize(list[i], TRUE), Normalize(list[j], TRUE))
=============================================================================
