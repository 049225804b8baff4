---------------------------- MODULE AtomicOutput ----------------------------
(***************************************************************************)
(* zupt_safe_fopen_archive, zupt_safe_fopen_output and zupt_finish_output   *)
(* of zupt_format.c (POSIX): several processes write a private temporary    *)
(* file each and publish it under the same name, while calls fail,          *)
(* processes are killed and the machine crashes between any two calls.      *)
(*                                                                         *)
(* The file system is the weakest one the calls allow: before an fsync of   *)
(* the directory any subset of its changes may be on the disk, and before   *)
(* an fsync of a file any part of its data.                                 *)
(***************************************************************************)
EXTENDS Naturals, FiniteSets, Sequences

CONSTANTS
  Writers,      \* one call of the library each
  Replacing,    \* those that write an archive; the others extract a file
  Final,        \* the name they all publish under
  Old,          \* a file that has the name already
  NoFile,       \* a name that is not taken
  Chunks,       \* the writes that make up a file
  Starts,       \* how the destination begins: "file", "empty" or "missing"
  IoFails,      \* may calls fail?
  MaxCrashes    \* bound on the crashes of the machine

ASSUME OutputConstants ==
  /\ Replacing \subseteq Writers
  /\ Final \notin Writers /\ Old \notin Writers /\ NoFile \notin Writers
  /\ Old # NoFile
  /\ Chunks # {}
  /\ Starts \subseteq {"file", "empty", "missing"}
  /\ IoFails \in BOOLEAN
  /\ MaxCrashes \in Nat

\* A directory gives the file behind the final name and behind the temporary
\* name of each writer, which is called like the writer.
Names == Writers \cup {Final}
Files == Writers \cup {Old}
Directories == [Names -> Files \cup {NoFile}]

VARIABLES
  pc,           \* where each writer is
  tried,        \* the writes it has issued
  accepted,     \* those whose data are in the file, or in a buffer before it
  synced,       \* those whose data are on the disk
  streamErr,    \* ferror(stream)
  publish,      \* the argument publish of zupt_finish_output
  failed,       \* its local failed
  changed,      \* its local namespace_changed
  dir,          \* the directory as every process sees it
  onDisk,       \* the directories a crash may leave
  parent,       \* the directory itself: there from the start ("durable"), or
                \* "missing", "made" and, when a crash has spared it, "kept"
  dirSynced,    \* the writer's last fsync of the directory succeeded
  published,    \* the writers that took the name, in order
  crashes

fileVars == << tried, accepted, synced, streamErr >>
callVars == << publish, failed, changed, dirSynced >>
dirVars  == << dir, onDisk, parent, published >>
vars == << pc, fileVars, callVars, dirVars, crashes >>

EmptyDirectory == [n \in Names |-> NoFile]

Init ==
  /\ pc = [w \in Writers |-> "start"]
  /\ tried = [w \in Writers |-> {}]
  /\ accepted = [w \in Writers |-> {}]
  /\ synced = [w \in Writers |-> {}]
  /\ streamErr = [w \in Writers |-> FALSE]
  /\ publish = [w \in Writers |-> FALSE]
  /\ failed = [w \in Writers |-> FALSE]
  /\ changed = [w \in Writers |-> FALSE]
  /\ dirSynced = [w \in Writers |-> FALSE]
  /\ \E start \in Starts :
       /\ dir = [EmptyDirectory EXCEPT ![Final] = IF start = "file" THEN Old ELSE NoFile]
       /\ parent = IF start = "missing" THEN "missing" ELSE "durable"
  /\ onDisk = {dir}
  /\ published = << >>
  /\ crashes = 0

Goes(w, from, to) == pc[w] = from /\ pc' = [pc EXCEPT ![w] = to]

MayFail == IF IoFails THEN BOOLEAN ELSE {FALSE}

\* The names in the domain of change get new files, at once; until the next
\* fsync a crash may or may not undo it.
With(d, change) == [n \in Names |-> IF n \in DOMAIN change THEN change[n] ELSE d[n]]

Changes(change) ==
  /\ dir' = With(dir, change)
  /\ onDisk' = onDisk \cup {With(d, change) : d \in onDisk}

Fails(w, when) == failed' = [failed EXCEPT ![w] = @ \/ when]

-----------------------------------------------------------------------------
OpenFails(w) ==
  /\ Goes(w, "start", "done")
  /\ Fails(w, TRUE)
  /\ UNCHANGED << fileVars, publish, changed, dirSynced, dir, onDisk, published, crashes >>

\* The directory of an archive has to exist.
zupt_safe_fopen_archive(w) ==
  \/ /\ w \in Replacing
     /\ parent # "missing"
     /\ Goes(w, "start", "write")
     /\ Changes([n \in {w} |-> w])
     /\ UNCHANGED << fileVars, callVars, parent, published, crashes >>
  \/ /\ w \in Replacing
     /\ parent = "missing" \/ IoFails
     /\ OpenFails(w)
     /\ UNCHANGED parent

\* An extraction makes the directories that are missing, and leaves them when
\* it fails behind them.
zupt_safe_fopen_output(w) ==
  \/ /\ w \notin Replacing
     /\ Goes(w, "start", "write")
     /\ Changes([n \in {w} |-> w])
     /\ parent' = IF parent = "missing" THEN "made" ELSE parent
     /\ UNCHANGED << fileVars, callVars, published, crashes >>
  \/ /\ w \notin Replacing
     /\ IoFails
     /\ OpenFails(w)
     /\ parent' \in {parent} \cup (IF parent = "missing" THEN {"made"} ELSE {})

\* The next write of the caller.  The stream remembers a failure, whether the
\* caller looks at the result or not.
WriteData(w) ==
  /\ pc[w] = "write"
  /\ \E chunk \in Chunks \ tried[w], fails \in MayFail :
       /\ tried' = [tried EXCEPT ![w] = @ \cup {chunk}]
       /\ accepted' = IF fails THEN accepted ELSE [accepted EXCEPT ![w] = @ \cup {chunk}]
       /\ streamErr' = [streamErr EXCEPT ![w] = @ \/ fails]
  /\ UNCHANGED << pc, synced, callVars, dirVars, crashes >>

-----------------------------------------------------------------------------
(* zupt_finish_output.  The caller asks to publish when it got to the end,  *)
(* with or without a failure it did not look at, and gives up at any time.  *)

\* ferror, fflush.  A failed flush loses any of the buffered data.
FlushStream(w) ==
  /\ Goes(w, "write", "fsync")
  /\ \E wanted \in BOOLEAN, fails \in MayFail :
       /\ wanted => tried[w] = Chunks
       /\ publish' = [publish EXCEPT ![w] = wanted]
       /\ Fails(w, streamErr[w] \/ fails)
       /\ IF fails
            THEN \E kept \in SUBSET accepted[w] : accepted' = [accepted EXCEPT ![w] = kept]
            ELSE UNCHANGED accepted
  /\ UNCHANGED << tried, synced, streamErr, changed, dirSynced, dirVars, crashes >>

SyncFile(w) ==
  /\ Goes(w, "fsync", "fclose")
  /\ IF publish[w] /\ ~failed[w]
       THEN \E fails \in MayFail :
              /\ synced' = IF fails THEN synced ELSE [synced EXCEPT ![w] = accepted[w]]
              /\ Fails(w, fails)
       ELSE UNCHANGED << synced, failed >>
  /\ UNCHANGED << tried, accepted, streamErr, publish, changed, dirSynced, dirVars, crashes >>

\* fclose, and "if (failed) publish = 0".
CloseStream(w) ==
  /\ pc[w] = "fclose"
  /\ \E fails \in MayFail :
       /\ Fails(w, fails)
       /\ publish' = [publish EXCEPT ![w] = @ /\ ~failed'[w]]
  /\ pc' = [pc EXCEPT ![w] = IF publish'[w] THEN "publish" ELSE "unlink"]
  /\ UNCHANGED << fileVars, changed, dirSynced, dirVars, crashes >>

\* Seeded fault: an extraction takes the name whoever has it.
RenamesAlways(w) ==
  /\ Goes(w, "publish", "unlink")
  /\ Changes([n \in {w, Final} |-> IF n = Final THEN w ELSE NoFile])
  /\ changed' = [changed EXCEPT ![w] = TRUE]
  /\ published' = Append(published, w)
  /\ UNCHANGED << fileVars, publish, failed, dirSynced, parent, crashes >>

\* Seeded fault: the result of linkat is ignored.
IgnoresLinkResult(w) ==
  /\ Goes(w, "publish", "unlink")
  /\ IF w \notin Replacing /\ dir[Final] # NoFile
       THEN UNCHANGED << changed, dirVars >>
       ELSE /\ IF w \in Replacing
                 THEN Changes([n \in {w, Final} |-> IF n = Final THEN w ELSE NoFile])
                 ELSE Changes([n \in {Final} |-> w])
            /\ changed' = [changed EXCEPT ![w] = TRUE]
            /\ published' = Append(published, w)
            /\ UNCHANGED parent
  /\ UNCHANGED << fileVars, publish, failed, dirSynced, crashes >>

\* renameat takes the name whoever has it, linkat only when it is free.
PublishName(w) ==
  /\ Goes(w, "publish", "unlink")
  /\ \E fails \in MayFail :
       IF fails \/ (w \notin Replacing /\ dir[Final] # NoFile)
         THEN /\ Fails(w, TRUE)
              /\ UNCHANGED << changed, dirVars >>
         ELSE /\ IF w \in Replacing
                   THEN Changes([n \in {w, Final} |-> IF n = Final THEN w ELSE NoFile])
                   ELSE Changes([n \in {Final} |-> w])
              /\ changed' = [changed EXCEPT ![w] = TRUE]
              /\ published' = Append(published, w)
              /\ UNCHANGED << failed, parent >>
  /\ UNCHANGED << fileVars, publish, dirSynced, crashes >>

\* Seeded fault: the temporary name is removed only after a failure.
RemovesAfterFailure(w) ==
  /\ Goes(w, "unlink", "dirsync")
  /\ IF dir[w] = NoFile \/ publish[w]
       THEN UNCHANGED << changed, failed, dir, onDisk >>
       ELSE \E fails \in MayFail :
              IF fails
                THEN Fails(w, TRUE) /\ UNCHANGED << changed, dir, onDisk >>
                ELSE /\ Changes([n \in {w} |-> NoFile])
                     /\ changed' = [changed EXCEPT ![w] = TRUE]
                     /\ UNCHANGED failed
  /\ UNCHANGED << fileVars, publish, dirSynced, parent, published, crashes >>

\* unlinkat: after a rename there is nothing left to remove (ENOENT).
RemoveTemp(w) ==
  /\ Goes(w, "unlink", "dirsync")
  /\ IF dir[w] = NoFile
       THEN UNCHANGED << changed, failed, dir, onDisk >>
       ELSE \E fails \in MayFail :
              IF fails
                THEN Fails(w, TRUE) /\ UNCHANGED << changed, dir, onDisk >>
                ELSE /\ Changes([n \in {w} |-> NoFile])
                     /\ changed' = [changed EXCEPT ![w] = TRUE]
                     /\ UNCHANGED failed
  /\ UNCHANGED << fileVars, publish, dirSynced, parent, published, crashes >>

\* Seeded fault: another directory than the pinned one is synced.
SyncsElsewhere(w) ==
  /\ Goes(w, "dirsync", "done")
  /\ dirSynced' = [dirSynced EXCEPT ![w] = changed[w]]
  /\ UNCHANGED << fileVars, publish, failed, changed, dirVars, crashes >>

\* The fsync of the directory is an attempt, its result is ignored.
SyncDirectory(w) ==
  /\ Goes(w, "dirsync", "done")
  /\ \E works \in (IF changed[w] THEN {~fails : fails \in MayFail} ELSE {FALSE}) :
       /\ onDisk' = IF works THEN {dir} ELSE onDisk
       /\ dirSynced' = [dirSynced EXCEPT ![w] = works]
  /\ UNCHANGED << fileVars, publish, failed, changed, dir, parent, published, crashes >>

-----------------------------------------------------------------------------
\* The process of a writer is killed; its temporary file stays.
Kill(w) ==
  /\ pc[w] \notin {"done", "killed"}
  /\ pc' = [pc EXCEPT ![w] = "killed"]
  /\ UNCHANGED << fileVars, callVars, dirVars, crashes >>

\* The machine crashes and comes back with what its disk holds.  A directory
\* just made may be gone, its own entry was never synced.
Crash ==
  /\ crashes < MaxCrashes
  /\ crashes' = crashes + 1
  /\ pc' = [w \in Writers |-> IF pc[w] \in {"start", "done"} THEN pc[w] ELSE "killed"]
  /\ \/ /\ dir' \in onDisk
        /\ parent' = IF parent = "made" THEN "kept" ELSE parent
     \/ /\ parent = "made"
        /\ dir' = EmptyDirectory
        /\ parent' = "missing"
  /\ onDisk' = {dir'}
  /\ accepted' \in [Writers -> SUBSET Chunks]
  /\ \A w \in Writers : synced[w] \subseteq accepted'[w] /\ accepted'[w] \subseteq accepted[w]
  /\ synced' = accepted'
  /\ UNCHANGED << tried, streamErr, callVars, published >>

Write(w) ==
  \/ zupt_safe_fopen_archive(w) \/ zupt_safe_fopen_output(w) \/ WriteData(w)
  \/ FlushStream(w) \/ SyncFile(w) \/ CloseStream(w)
  \/ PublishName(w) \/ RemoveTemp(w) \/ SyncDirectory(w)

AllEnded ==
  /\ \A w \in Writers : pc[w] \in {"done", "killed"}
  /\ UNCHANGED vars

Next == (\E w \in Writers : Write(w) \/ Kill(w)) \/ Crash \/ AllEnded

Spec == Init /\ [][Next]_vars

-----------------------------------------------------------------------------
\* Types of the variables (zupt_output_file_t and the locals of
\* zupt_finish_output) and of the file system around them.
TypeOK ==
  /\ pc \in [Writers -> {"start", "write", "fsync", "fclose", "publish",
                         "unlink", "dirsync", "done", "killed"}]
  /\ tried \in [Writers -> SUBSET Chunks]
  /\ accepted \in [Writers -> SUBSET Chunks]
  /\ synced \in [Writers -> SUBSET Chunks]
  /\ streamErr \in [Writers -> BOOLEAN]
  /\ publish \in [Writers -> BOOLEAN]
  /\ failed \in [Writers -> BOOLEAN]
  /\ changed \in [Writers -> BOOLEAN]
  /\ dirSynced \in [Writers -> BOOLEAN]
  /\ dir \in Directories
  /\ onDisk \in SUBSET Directories
  /\ dir \in onDisk
  /\ parent \in {"missing", "made", "kept", "durable"}
  /\ published \in Seq(Writers)
  /\ crashes \in 0 .. MaxCrashes

\* Whoever reads the name reads a whole file, now and after any crash: no
\* unnoticed write error, no early rename and no data still in memory.
ShownIsComplete ==
  /\ dir[Final] \in Writers => accepted[dir[Final]] = Chunks
  /\ \A d \in onDisk : d[Final] \in Writers => synced[d[Final]] = Chunks

\* Why: what ShownIsComplete rests on, step by step through zupt_finish_output.
\* Without a stream error the data tried are accepted, without a failure those
\* flushed are all of them, then they are synced, and only then the name is taken.
DataInvariant ==
  /\ \A w \in Writers :
       /\ synced[w] \subseteq accepted[w]
       /\ pc[w] \in {"start", "write"} => synced[w] = {}
       /\ pc[w] \in {"start", "write"} /\ ~streamErr[w] => accepted[w] = tried[w]
       /\ pc[w] = "start" => accepted[w] = {} /\ tried[w] = {} /\ ~streamErr[w]
       /\ pc[w] = "fsync" /\ publish[w] /\ ~failed[w] => accepted[w] = Chunks
       /\ pc[w] = "fclose" /\ publish[w] /\ ~failed[w] => synced[w] = Chunks
       /\ pc[w] = "publish" => synced[w] = Chunks
  /\ \A d \in onDisk : d[Final] \in Writers => synced[d[Final]] = Chunks

\* A directory that is missing shows nothing and nobody works in it.
DirectoryInvariant ==
  parent = "missing" =>
    /\ \A d \in onDisk : d[Final] = NoFile
    /\ \A w \in Writers : pc[w] \in {"start", "done", "killed"}

\* The inductive invariant.
IndInv == TypeOK /\ DataInvariant /\ DirectoryInvariant

\* A writer took the name, now or earlier.
Took(w) == \E k \in 1 .. Len(published) : published[k] = w

\* "Returns zero only when the requested outcome completed successfully", and
\* an archive writer that reports failure has not taken the name ("no partial
\* archive was published").
ReturnTellsTheOutcome ==
  \A w \in Writers : pc[w] = "done" =>
    /\ ~failed[w] /\ publish[w] => Took(w)
    /\ failed[w] /\ w \in Replacing => ~Took(w)

\* A success with a synced directory leaves no temporary file, not even after
\* a crash.
TemporaryIsGone ==
  \A w \in Writers :
    pc[w] = "done" /\ dirSynced[w] /\ ~failed[w] => \A d \in onDisk : d[w] = NoFile

\* A publication whose directory was synced is not undone by a crash: the name
\* shows that file or one published later.  In a directory that the extraction
\* made itself this is not so.
SyncedPublicationSurvives ==
  parent = "durable" =>
    \A k \in 1 .. Len(published) :
      dirSynced[published[k]] =>
        \A d \in onDisk : \E j \in k .. Len(published) : d[Final] = published[j]

\* What these three rest on: a writer takes the name once, behind its last failure
\* but one; a failure to remove the temporary name can only follow a link, for a
\* rename has removed it; and until the directory is synced the name shows this
\* writer's file or a later one.
OutcomeInvariant ==
  /\ \A w \in Writers :
       /\ pc[w] \in {"start", "write", "fsync", "fclose", "publish"} => ~Took(w)
       /\ pc[w] = "publish" => publish[w] /\ ~failed[w]
       /\ pc[w] \in {"unlink", "dirsync", "done"} =>
            /\ ~failed[w] /\ publish[w] => Took(w)
            /\ failed[w] /\ w \in Replacing => ~Took(w)
       /\ pc[w] = "unlink" /\ Took(w) /\ w \in Replacing => dir[w] = NoFile
       /\ pc[w] = "dirsync" /\ ~failed[w] => dir[w] = NoFile
       /\ dirSynced[w] => pc[w] = "done"
  /\ TemporaryIsGone
  /\ \A k \in 1 .. Len(published) :
       pc[published[k]] \in {"unlink", "dirsync"} =>
         \E j \in k .. Len(published) : dir[Final] = published[j]
  /\ SyncedPublicationSurvives

\* The name changes as AtomicFile says.
Shows(d) == d[Final]
Abstract == INSTANCE AtomicFile WITH
  First    <- {Old, NoFile},
  shown    <- dir[Final],
  durable  <- {Shows(d) : d \in onDisk} \cup (IF parent = "made" THEN {NoFile} ELSE {}),
  complete <- {w \in Writers : synced[w] = Chunks}
PublishesAtomically == Abstract!Spec
=============================================================================
