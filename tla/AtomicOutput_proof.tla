------------------------- MODULE AtomicOutput_proof -------------------------
(***************************************************************************)
(* What AtomicOutput promises for any number of writers and of crashes:     *)
(* the name shows whole files only, now and after a crash, and it changes   *)
(* as AtomicFile says.                                                      *)
(***************************************************************************)
EXTENDS AtomicOutput, TLAPS

\* The final name is nobody's temporary name.
LEMMA NamesDiffer ==
  /\ Final \in Names /\ Writers \subseteq Names
  /\ \A w \in Writers : w # Final /\ w # NoFile /\ w # Old
  BY OutputConstants DEF Names

LEMMA MayFailType == MayFail \subseteq BOOLEAN
  BY OutputConstants DEF MayFail

\* Changing a directory gives a directory, and only the changed names change.
LEMMA WithFacts ==
  ASSUME NEW d \in Directories, NEW N \in SUBSET Names,
         NEW change \in [N -> Files \cup {NoFile}]
  PROVE  /\ With(d, change) \in Directories
         /\ \A n \in N : With(d, change)[n] = change[n]
         /\ \A n \in Names \ N : With(d, change)[n] = d[n]
  BY DEF With, Directories

\* Changes keeps the types, and every directory a crash may leave is one it
\* might have left before, changed or not.
LEMMA ChangesFacts ==
  ASSUME TypeOK, NEW N \in SUBSET Names,
         NEW change \in [N -> Files \cup {NoFile}], Changes(change)
  PROVE  /\ dir' \in Directories /\ onDisk' \in SUBSET Directories
         /\ dir' \in onDisk' /\ dir' = With(dir, change)
         /\ onDisk \subseteq onDisk'
         /\ \A d \in onDisk' \ onDisk : \E e \in onDisk : d = With(e, change)
<1>1. dir \in Directories /\ onDisk \in SUBSET Directories /\ dir \in onDisk
  BY DEF TypeOK
<1>2. \A d \in Directories : With(d, change) \in Directories
  BY WithFacts
<1>3. QED
  BY <1>1, <1>2 DEF Changes

\* The temporary name changes: nobody who looks at the final name sees it.
LEMMA TempChangesFacts ==
  ASSUME TypeOK, NEW w \in Writers, NEW f \in Files \cup {NoFile},
         Changes([n \in {w} |-> f])
  PROVE  /\ dir' \in Directories /\ onDisk' \in SUBSET Directories
         /\ dir' \in onDisk'
         /\ dir'[Final] = dir[Final]
         /\ \A d \in onDisk' : \E e \in onDisk : d[Final] = e[Final]
         /\ onDisk \subseteq onDisk'
<1> DEFINE change == [n \in {w} |-> f]
<1>1. {w} \in SUBSET Names /\ change \in [{w} -> Files \cup {NoFile}]
  BY NamesDiffer
<1>2. \A d \in Directories : With(d, change)[Final] = d[Final]
  BY <1>1, WithFacts, NamesDiffer
<1>3. dir \in Directories /\ onDisk \in SUBSET Directories
  BY DEF TypeOK
<1> HIDE DEF change
<1>4. /\ dir' \in Directories /\ onDisk' \in SUBSET Directories
      /\ dir' \in onDisk' /\ dir' = With(dir, change)
      /\ onDisk \subseteq onDisk'
      /\ \A d \in onDisk' \ onDisk : \E e \in onDisk : d = With(e, change)
  BY <1>1, ChangesFacts DEF change
<1>5. QED
  BY <1>2, <1>3, <1>4

\* Taking the name, by rename or by link.
Takes(w) ==
  \/ Changes([n \in {w, Final} |-> IF n = Final THEN w ELSE NoFile])
  \/ Changes([n \in {Final} |-> w])

LEMMA TakesFacts ==
  ASSUME TypeOK, NEW w \in Writers, Takes(w)
  PROVE  /\ dir' \in Directories /\ onDisk' \in SUBSET Directories
         /\ dir' \in onDisk'
         /\ dir'[Final] = w
         /\ \A d \in onDisk' : d[Final] = w \/ d \in onDisk
         /\ onDisk \subseteq onDisk'
<1>0. dir \in Directories /\ onDisk \in SUBSET Directories
  BY DEF TypeOK
<1>1. \A N \in SUBSET Names : \A change \in [N -> Files \cup {NoFile}] :
        Final \in N /\ change[Final] = w /\ Changes(change) =>
          /\ dir' \in Directories /\ onDisk' \in SUBSET Directories
          /\ dir' \in onDisk'
          /\ dir'[Final] = w
          /\ \A d \in onDisk' : d[Final] = w \/ d \in onDisk
          /\ onDisk \subseteq onDisk'
  <2> TAKE N \in SUBSET Names
  <2> TAKE change \in [N -> Files \cup {NoFile}]
  <2> HAVE Final \in N /\ change[Final] = w /\ Changes(change)
  <2>1. \A d \in Directories : With(d, change)[Final] = w
    BY WithFacts
  <2>2. /\ dir' \in Directories /\ onDisk' \in SUBSET Directories
        /\ dir' \in onDisk' /\ dir' = With(dir, change)
        /\ onDisk \subseteq onDisk'
        /\ \A d \in onDisk' \ onDisk : \E e \in onDisk : d = With(e, change)
    BY ChangesFacts
  <2>3. QED
    BY <1>0, <2>1, <2>2
<1>2. CASE Changes([n \in {w, Final} |-> IF n = Final THEN w ELSE NoFile])
  <2> DEFINE change == [n \in {w, Final} |-> IF n = Final THEN w ELSE NoFile]
  <2>1. /\ {w, Final} \in SUBSET Names /\ Final \in {w, Final}
        /\ change \in [{w, Final} -> Files \cup {NoFile}] /\ change[Final] = w
    BY NamesDiffer DEF Files
  <2>2. Changes(change)
    BY <1>2
  <2> HIDE DEF change
  <2>3. QED
    BY <1>1, <2>1, <2>2
<1>3. CASE Changes([n \in {Final} |-> w])
  <2> DEFINE change == [n \in {Final} |-> w]
  <2>1. /\ {Final} \in SUBSET Names /\ Final \in {Final}
        /\ change \in [{Final} -> Files \cup {NoFile}] /\ change[Final] = w
    BY NamesDiffer DEF Files
  <2>2. Changes(change)
    BY <1>3
  <2> HIDE DEF change
  <2>3. QED
    BY <1>1, <2>1, <2>2
<1>4. QED
  BY <1>2, <1>3 DEF Takes

\* PublishName takes the name, or fails and leaves the directory alone.
LEMMA PublishNameCases ==
  ASSUME NEW w \in Writers, PublishName(w)
  PROVE  \/ Fails(w, TRUE) /\ UNCHANGED << changed, dirVars >>
         \/ /\ Takes(w)
            /\ w \in Replacing \/ dir[Final] = NoFile
            /\ changed' = [changed EXCEPT ![w] = TRUE]
            /\ published' = Append(published, w)
            /\ UNCHANGED << failed, parent >>
  BY DEF PublishName, Takes

LEMMA RemoveTempCases ==
  ASSUME NEW w \in Writers, RemoveTemp(w)
  PROVE  \/ UNCHANGED << changed, failed, dir, onDisk >>
         \/ Fails(w, TRUE) /\ UNCHANGED << changed, dir, onDisk >>
         \/ /\ Changes([n \in {w} |-> NoFile])
            /\ changed' = [changed EXCEPT ![w] = TRUE]
            /\ UNCHANGED failed
  BY DEF RemoveTemp

-----------------------------------------------------------------------------
(* TypeOK *)

LEMMA TypesInitially == Init => TypeOK
<1> SUFFICES ASSUME Init PROVE TypeOK
  OBVIOUS
<1>1. dir \in Directories /\ parent \in {"missing", "made", "kept", "durable"}
  BY NamesDiffer DEF Init, EmptyDirectory, Directories, Files
<1>2. QED
  BY <1>1, OutputConstants DEF Init, TypeOK

LEMMA FailsType ==
  ASSUME TypeOK, NEW w \in Writers, NEW b \in BOOLEAN, Fails(w, b)
  PROVE  failed' \in [Writers -> BOOLEAN]
  BY DEF TypeOK, Fails

LEMMA StepTypes ==
  ASSUME TypeOK, [Next]_vars
  PROVE  TypeOK'
<1> USE DEF TypeOK
<1>1. ASSUME NEW w \in Writers, OpenFails(w),
             parent' \in {"missing", "made", "kept", "durable"}
      PROVE  TypeOK'
  BY <1>1, FailsType DEF OpenFails, Goes, fileVars, dirVars
<1>2. ASSUME NEW w \in Writers, zupt_safe_fopen_archive(w)
      PROVE  TypeOK'
  <2>1. CASE OpenFails(w)
    <3>1. CASE UNCHANGED parent
      BY <1>1, <2>1, <3>1
    <3>2. CASE ~UNCHANGED parent
      BY <1>2, <2>1, <3>2 DEF zupt_safe_fopen_archive
    <3>3. QED
      BY <3>1, <3>2
  <2>2. CASE ~OpenFails(w)
    <3>1. Changes([n \in {w} |-> w])
      BY <1>2, <2>2 DEF zupt_safe_fopen_archive
    <3>2. dir' \in Directories /\ onDisk' \in SUBSET Directories /\ dir' \in onDisk'
      BY <3>1, TempChangesFacts DEF Files
    <3>3. QED
      BY <1>2, <2>2, <3>2 DEF zupt_safe_fopen_archive, Goes, fileVars, callVars
  <2>3. QED
    BY <2>1, <2>2
<1>3. ASSUME NEW w \in Writers, zupt_safe_fopen_output(w)
      PROVE  TypeOK'
  <2>1. CASE OpenFails(w)
    <3>1. parent' \in {parent, "made"}
      BY <1>3 DEF zupt_safe_fopen_output
    <3>2. QED
      BY <1>1, <2>1, <3>1
  <2>2. CASE ~OpenFails(w)
    <3>1. Changes([n \in {w} |-> w])
      BY <1>3, <2>2 DEF zupt_safe_fopen_output
    <3>2. dir' \in Directories /\ onDisk' \in SUBSET Directories /\ dir' \in onDisk'
      BY <3>1, TempChangesFacts DEF Files
    <3>3. QED
      BY <1>3, <2>2, <3>2 DEF zupt_safe_fopen_output, Goes, fileVars, callVars
  <2>3. QED
    BY <2>1, <2>2
<1>4. ASSUME NEW w \in Writers, WriteData(w)
      PROVE  TypeOK'
  BY <1>4, MayFailType DEF WriteData, callVars, dirVars
<1>5. ASSUME NEW w \in Writers, FlushStream(w)
      PROVE  TypeOK'
  <2>1. PICK wanted \in BOOLEAN, fails \in MayFail :
          /\ publish' = [publish EXCEPT ![w] = wanted]
          /\ Fails(w, streamErr[w] \/ fails)
          /\ IF fails
               THEN \E kept \in SUBSET accepted[w] : accepted' = [accepted EXCEPT ![w] = kept]
               ELSE UNCHANGED accepted
    BY <1>5 DEF FlushStream
  <2>2. publish' \in [Writers -> BOOLEAN] /\ accepted' \in [Writers -> SUBSET Chunks]
    BY <2>1
  <2>3. failed' \in [Writers -> BOOLEAN]
    BY <2>1, MayFailType DEF Fails
  <2>4. QED
    BY <1>5, <2>2, <2>3 DEF FlushStream, Goes, dirVars
<1>6. ASSUME NEW w \in Writers, SyncFile(w)
      PROVE  TypeOK'
  <2>1. failed' \in [Writers -> BOOLEAN] /\ synced' \in [Writers -> SUBSET Chunks]
    BY <1>6, MayFailType DEF SyncFile, Fails
  <2>2. QED
    BY <1>6, <2>1 DEF SyncFile, Goes, dirVars
<1>7. ASSUME NEW w \in Writers, CloseStream(w)
      PROVE  TypeOK'
  <2>1. failed' \in [Writers -> BOOLEAN]
    BY <1>7, MayFailType DEF CloseStream, Fails
  <2>2. publish' \in [Writers -> BOOLEAN]
    BY <1>7, <2>1 DEF CloseStream
  <2>3. QED
    BY <1>7, <2>1, <2>2 DEF CloseStream, fileVars, dirVars
<1>8. ASSUME NEW w \in Writers, PublishName(w)
      PROVE  TypeOK'
  <2>1. CASE Fails(w, TRUE) /\ UNCHANGED << changed, dirVars >>
    BY <1>8, <2>1, FailsType DEF PublishName, Goes, fileVars, dirVars
  <2>2. CASE /\ Takes(w)
             /\ changed' = [changed EXCEPT ![w] = TRUE]
             /\ published' = Append(published, w)
             /\ UNCHANGED << failed, parent >>
    <3>1. dir' \in Directories /\ onDisk' \in SUBSET Directories /\ dir' \in onDisk'
      BY <2>2, TakesFacts
    <3>2. QED
      BY <1>8, <2>2, <3>1 DEF PublishName, Goes, fileVars
  <2>3. QED
    BY <1>8, <2>1, <2>2, PublishNameCases
<1>9. ASSUME NEW w \in Writers, RemoveTemp(w)
      PROVE  TypeOK'
  <2>1. dir' \in Directories /\ onDisk' \in SUBSET Directories /\ dir' \in onDisk'
    <3>1. CASE Changes([n \in {w} |-> NoFile])
      BY <3>1, TempChangesFacts
    <3>2. CASE UNCHANGED << dir, onDisk >>
      BY <3>2
    <3>3. QED
      BY <1>9, <3>1, <3>2, RemoveTempCases
  <2>2. changed' \in [Writers -> BOOLEAN] /\ failed' \in [Writers -> BOOLEAN]
    BY <1>9, RemoveTempCases DEF Fails
  <2>3. QED
    BY <1>9, <2>1, <2>2 DEF RemoveTemp, Goes, fileVars
<1>10. ASSUME NEW w \in Writers, SyncDirectory(w)
       PROVE  TypeOK'
  BY <1>10, MayFailType DEF SyncDirectory, Goes, fileVars
<1>11. ASSUME NEW w \in Writers, Kill(w)
       PROVE  TypeOK'
  BY <1>11 DEF Kill, fileVars, callVars, dirVars
<1>12. CASE Crash
  <2>1. EmptyDirectory \in Directories
    BY DEF EmptyDirectory, Directories
  <2>2. dir' \in Directories /\ parent' \in {"missing", "made", "kept", "durable"}
    BY <1>12, <2>1 DEF Crash
  <2>3. accepted' \in [Writers -> SUBSET Chunks] /\ synced' \in [Writers -> SUBSET Chunks]
    BY <1>12 DEF Crash
  <2>4. crashes' \in 0 .. MaxCrashes
    BY <1>12, OutputConstants DEF Crash
  <2>5. pc' \in [Writers -> {"start", "write", "fsync", "fclose", "publish",
                             "unlink", "dirsync", "done", "killed"}]
    BY <1>12 DEF Crash
  <2>6. onDisk' \in SUBSET Directories /\ dir' \in onDisk'
    BY <1>12, <2>2 DEF Crash
  <2>7. QED
    BY <1>12, <2>2, <2>3, <2>4, <2>5, <2>6 DEF Crash, callVars
<1>13. CASE UNCHANGED vars
  BY <1>13 DEF vars, fileVars, callVars, dirVars
<1>14. QED
  BY <1>2, <1>3, <1>4, <1>5, <1>6, <1>7, <1>8, <1>9, <1>10, <1>11, <1>12, <1>13
     DEF Next, Write, AllEnded

-----------------------------------------------------------------------------
(* DataInvariant *)

\* The part of DataInvariant that concerns the file of one writer.
FileInvariant(w) ==
  /\ synced[w] \subseteq accepted[w]
  /\ pc[w] \in {"start", "write"} => synced[w] = {}
  /\ pc[w] \in {"start", "write"} /\ ~streamErr[w] => accepted[w] = tried[w]
  /\ pc[w] = "start" => accepted[w] = {} /\ tried[w] = {} /\ ~streamErr[w]
  /\ pc[w] = "fsync" /\ publish[w] /\ ~failed[w] => accepted[w] = Chunks
  /\ pc[w] = "fclose" /\ publish[w] /\ ~failed[w] => synced[w] = Chunks
  /\ pc[w] = "publish" => synced[w] = Chunks

\* And the part that concerns what a crash may leave.
OnDiskComplete == \A d \in onDisk : d[Final] \in Writers => synced[d[Final]] = Chunks

LEMMA DataInvariantParts ==
  DataInvariant <=> (\A w \in Writers : FileInvariant(w)) /\ OnDiskComplete
  BY DEF DataInvariant, FileInvariant, OnDiskComplete

LEMMA ShownInitially == Init => dir[Final] \in {Old, NoFile} /\ onDisk = {dir}
  BY NamesDiffer DEF Init, EmptyDirectory

LEMMA DataInitially == Init => DataInvariant
<1> SUFFICES ASSUME Init PROVE DataInvariant
  OBVIOUS
<1>1. \A w \in Writers : FileInvariant(w)
  BY DEF Init, FileInvariant
<1>2. OnDiskComplete
  BY ShownInitially, NamesDiffer DEF OnDiskComplete
<1>3. QED
  BY <1>1, <1>2, DataInvariantParts

\* A step of one writer leaves the others' files alone.
LEMMA OthersFiles ==
  ASSUME TypeOK, NEW w \in Writers, NEW v \in Writers, v # w, Write(w) \/ Kill(w)
  PROVE  /\ pc'[v] = pc[v] /\ tried'[v] = tried[v] /\ accepted'[v] = accepted[v]
         /\ synced'[v] = synced[v] /\ streamErr'[v] = streamErr[v]
         /\ publish'[v] = publish[v] /\ failed'[v] = failed[v]
<1> USE DEF TypeOK, Goes, Fails, fileVars, callVars, dirVars
<1>1. CASE zupt_safe_fopen_archive(w) \/ zupt_safe_fopen_output(w)
  BY <1>1 DEF zupt_safe_fopen_archive, zupt_safe_fopen_output, OpenFails
<1>2. CASE WriteData(w) \/ FlushStream(w)
  BY <1>2 DEF WriteData, FlushStream
<1>3. CASE SyncFile(w) \/ CloseStream(w)
  BY <1>3 DEF SyncFile, CloseStream
<1>4. CASE PublishName(w) \/ RemoveTemp(w)
  BY <1>4 DEF PublishName, RemoveTemp
<1>5. CASE SyncDirectory(w) \/ Kill(w)
  BY <1>5 DEF SyncDirectory, Kill
<1>6. QED
  BY <1>1, <1>2, <1>3, <1>4, <1>5 DEF Write

\* A step of a writer keeps what is known of its own file.
LEMMA OwnFile ==
  ASSUME TypeOK, NEW w \in Writers, FileInvariant(w), Write(w) \/ Kill(w)
  PROVE  FileInvariant(w)' /\ (synced[w] = Chunks => synced'[w] = Chunks)
<1> USE DEF TypeOK, Goes, FileInvariant
<1>1. CASE zupt_safe_fopen_archive(w) \/ zupt_safe_fopen_output(w)
  BY <1>1 DEF zupt_safe_fopen_archive, zupt_safe_fopen_output, OpenFails, fileVars, callVars
<1>2. CASE WriteData(w)
  <2>1. PICK chunk \in Chunks \ tried[w], fails \in MayFail :
          /\ tried' = [tried EXCEPT ![w] = @ \cup {chunk}]
          /\ accepted' = IF fails THEN accepted ELSE [accepted EXCEPT ![w] = @ \cup {chunk}]
          /\ streamErr' = [streamErr EXCEPT ![w] = @ \/ fails]
    BY <1>2 DEF WriteData
  <2>2. pc[w] = "write" /\ UNCHANGED << pc, synced >>
    BY <1>2 DEF WriteData
  <2>3. CASE fails
    <3>1. streamErr'[w]
      BY <2>1, <2>3
    <3>2. QED
      BY <2>1, <2>2, <2>3, <3>1
  <2>4. CASE ~fails
    <3>1. streamErr'[w] = (streamErr[w] \/ fails)
      BY <2>1
    <3>2. QED
      BY <2>1, <2>2, <2>4, <3>1
  <2>5. QED
    BY <2>3, <2>4
<1>3. CASE FlushStream(w)
  <2>1. PICK wanted \in BOOLEAN, fails \in MayFail :
          /\ wanted => tried[w] = Chunks
          /\ publish' = [publish EXCEPT ![w] = wanted]
          /\ Fails(w, streamErr[w] \/ fails)
          /\ IF fails
               THEN \E kept \in SUBSET accepted[w] : accepted' = [accepted EXCEPT ![w] = kept]
               ELSE UNCHANGED accepted
    BY <1>3 DEF FlushStream
  <2>2. /\ pc[w] = "write" /\ pc'[w] = "fsync"
        /\ UNCHANGED << tried, synced, streamErr >>
    BY <1>3 DEF FlushStream
  <2>3. synced'[w] = {} /\ synced[w] = {}
    BY <2>2
  <2>4. publish'[w] = wanted /\ failed'[w] = (failed[w] \/ streamErr[w] \/ fails)
    BY <2>1, MayFailType DEF Fails
  <2>5. publish'[w] /\ ~failed'[w] => accepted'[w] = Chunks
    <3>1. HAVE publish'[w] /\ ~failed'[w]
    <3>2. wanted /\ ~streamErr[w] /\ ~fails
      BY <2>4, <3>1
    <3>3. QED
      BY <2>1, <2>2, <3>2
  <2>6. QED
    BY <2>2, <2>3, <2>5
<1>4. CASE SyncFile(w)
  <2>1. /\ pc[w] = "fsync" /\ pc'[w] = "fclose"
        /\ UNCHANGED << accepted, publish >>
    BY <1>4 DEF SyncFile
  <2>2. CASE publish[w] /\ ~failed[w]
    <3>1. accepted[w] = Chunks
      BY <2>1, <2>2
    <3>2. PICK fails \in MayFail :
            /\ synced' = IF fails THEN synced ELSE [synced EXCEPT ![w] = accepted[w]]
            /\ Fails(w, fails)
      BY <1>4, <2>2 DEF SyncFile
    <3>3. failed'[w] = (failed[w] \/ fails)
      BY <3>2, MayFailType DEF Fails
    <3>4. synced'[w] = IF fails THEN synced[w] ELSE Chunks
      BY <3>1, <3>2
    <3>5. QED
      BY <2>1, <3>1, <3>3, <3>4
  <2>3. CASE ~(publish[w] /\ ~failed[w])
    BY <1>4, <2>1, <2>3 DEF SyncFile
  <2>4. QED
    BY <2>2, <2>3
<1>5. CASE CloseStream(w)
  <2>1. pc[w] = "fclose" /\ UNCHANGED << accepted, synced >>
    BY <1>5 DEF CloseStream, fileVars
  <2>2. PICK fails \in MayFail :
          /\ Fails(w, fails)
          /\ publish' = [publish EXCEPT ![w] = @ /\ ~failed'[w]]
    BY <1>5 DEF CloseStream
  <2>3. failed'[w] = (failed[w] \/ fails)
    BY <2>2, MayFailType DEF Fails
  <2>4. publish'[w] = (publish[w] /\ ~failed'[w])
    BY <2>2
  <2>5. pc'[w] = IF publish'[w] THEN "publish" ELSE "unlink"
    BY <1>5 DEF CloseStream
  <2>6. pc'[w] = "publish" => synced[w] = Chunks
    BY <2>1, <2>3, <2>4, <2>5
  <2>7. QED
    BY <2>1, <2>5, <2>6
<1>6. CASE PublishName(w) \/ RemoveTemp(w)
  <2>1. pc'[w] \in {"unlink", "dirsync"} /\ UNCHANGED << accepted, synced >>
    BY <1>6 DEF PublishName, RemoveTemp, fileVars
  <2>2. QED
    BY <2>1
<1>7. CASE SyncDirectory(w) \/ Kill(w)
  <2>1. pc'[w] \in {"done", "killed"} /\ UNCHANGED << accepted, synced >>
    BY <1>7 DEF SyncDirectory, Kill, fileVars
  <2>2. QED
    BY <2>1
<1>8. QED
  BY <1>1, <1>2, <1>3, <1>4, <1>5, <1>6, <1>7 DEF Write

\* The directories a crash may leave: as far as the final name goes they are
\* those of before, or the writer that takes the name is complete.
LEMMA ShownAfterStep ==
  ASSUME TypeOK, NEW w \in Writers, FileInvariant(w), Write(w) \/ Kill(w)
  PROVE  \A d \in onDisk' :
           \/ \E e \in onDisk : d[Final] = e[Final]
           \/ d[Final] = w /\ synced[w] = Chunks /\ pc[w] = "publish"
<1>1. CASE zupt_safe_fopen_archive(w) \/ zupt_safe_fopen_output(w)
  <2>1. CASE Changes([n \in {w} |-> w])
    BY <2>1, TempChangesFacts DEF Files
  <2>2. CASE UNCHANGED onDisk
    BY <2>2
  <2>3. QED
    BY <1>1, <2>1, <2>2
       DEF zupt_safe_fopen_archive, zupt_safe_fopen_output, OpenFails, dirVars
<1>2. CASE PublishName(w)
  <2>1. pc[w] = "publish" /\ synced[w] = Chunks
    BY <1>2 DEF PublishName, Goes, FileInvariant
  <2>2. QED
    BY <1>2, <2>1, PublishNameCases, TakesFacts DEF dirVars
<1>3. CASE RemoveTemp(w)
  <2>1. CASE Changes([n \in {w} |-> NoFile])
    BY <2>1, TempChangesFacts
  <2>2. CASE UNCHANGED onDisk
    BY <2>2
  <2>3. QED
    BY <1>3, <2>1, <2>2, RemoveTempCases
<1>4. CASE SyncDirectory(w)
  BY <1>4 DEF SyncDirectory, TypeOK
<1>5. CASE WriteData(w) \/ FlushStream(w) \/ SyncFile(w) \/ CloseStream(w) \/ Kill(w)
  BY <1>5 DEF WriteData, FlushStream, SyncFile, CloseStream, Kill, dirVars
<1>6. QED
  BY <1>1, <1>2, <1>3, <1>4, <1>5 DEF Write

LEMMA CrashKeepsData ==
  ASSUME TypeOK, DataInvariant, Crash
  PROVE  /\ DataInvariant'
         /\ \A w \in Writers : synced[w] = Chunks => synced'[w] = Chunks
<1>1. \A w \in Writers : /\ synced'[w] = accepted'[w]
                         /\ synced[w] \subseteq synced'[w]
                         /\ synced'[w] \subseteq accepted[w]
                         /\ synced'[w] \subseteq Chunks
  BY DEF Crash
<1>2. \A w \in Writers : synced[w] = Chunks => synced'[w] = Chunks
  BY <1>1
<1>3. ASSUME NEW w \in Writers
      PROVE  FileInvariant(w)'
  <2>1. FileInvariant(w)
    BY DataInvariantParts
  <2>2. pc'[w] \in {"start", "done", "killed"} /\ (pc'[w] = "start" => pc[w] = "start")
    BY DEF Crash, TypeOK
  <2>3. tried' = tried /\ streamErr' = streamErr
    BY DEF Crash
  <2>4. QED
    BY <1>1, <2>1, <2>2, <2>3 DEF FileInvariant
<1>4. OnDiskComplete'
  <2>1. onDisk' = {dir'} /\ (dir' \in onDisk \/ dir' = EmptyDirectory)
    BY DEF Crash
  <2>2. EmptyDirectory[Final] \notin Writers
    BY NamesDiffer DEF EmptyDirectory
  <2>3. QED
    BY <1>2, <2>1, <2>2 DEF OnDiskComplete, DataInvariant
<1>5. QED
  BY <1>2, <1>3, <1>4, DataInvariantParts DEF DataInvariant, FileInvariant, OnDiskComplete

\* A complete file on the disk stays one.
LEMMA StepData ==
  ASSUME TypeOK, DataInvariant, [Next]_vars
  PROVE  /\ DataInvariant'
         /\ \A w \in Writers : synced[w] = Chunks => synced'[w] = Chunks
<1>1. (\A w \in Writers : FileInvariant(w)) /\ OnDiskComplete
  BY DataInvariantParts
<1>2. ASSUME NEW w \in Writers, Write(w) \/ Kill(w)
      PROVE  /\ DataInvariant'
             /\ \A v \in Writers : synced[v] = Chunks => synced'[v] = Chunks
  <2>1. \A v \in Writers : synced[v] = Chunks => synced'[v] = Chunks
    BY <1>1, <1>2, OwnFile, OthersFiles
  <2>2. ASSUME NEW v \in Writers
        PROVE  FileInvariant(v)'
    <3>1. CASE v = w
      BY <1>1, <1>2, <3>1, OwnFile
    <3>2. CASE v # w
      BY <1>1, <1>2, <3>2, OthersFiles DEF FileInvariant
    <3>3. QED
      BY <3>1, <3>2
  <2>3. OnDiskComplete'
    BY <1>1, <1>2, <2>1, ShownAfterStep DEF OnDiskComplete
  <2>4. QED
    BY <2>1, <2>2, <2>3 DEF DataInvariant, FileInvariant, OnDiskComplete
<1>3. CASE UNCHANGED vars
  BY <1>3 DEF vars, fileVars, callVars, dirVars, DataInvariant
<1>4. QED
  BY <1>2, <1>3, CrashKeepsData DEF Next, AllEnded

-----------------------------------------------------------------------------
(* DirectoryInvariant *)

LEMMA DirectoryInitially == Init => DirectoryInvariant
<1> SUFFICES ASSUME Init, parent = "missing" PROVE dir[Final] = NoFile
  BY DEF Init, DirectoryInvariant
<1>1. PICK start \in Starts :
        /\ dir = [EmptyDirectory EXCEPT ![Final] = IF start = "file" THEN Old ELSE NoFile]
        /\ parent = IF start = "missing" THEN "missing" ELSE "durable"
  BY DEF Init
<1>2. start = "missing"
  BY <1>1
<1>3. QED
  BY <1>1, <1>2, NamesDiffer DEF EmptyDirectory

LEMMA StepDirectory ==
  ASSUME TypeOK, DirectoryInvariant, [Next]_vars
  PROVE  DirectoryInvariant'
<1>1. ASSUME NEW w \in Writers, zupt_safe_fopen_archive(w) \/ zupt_safe_fopen_output(w)
      PROVE  DirectoryInvariant'
  <2>1. CASE OpenFails(w)
    <3>1. parent' = "missing" => parent = "missing"
      BY <1>1 DEF zupt_safe_fopen_archive, zupt_safe_fopen_output
    <3>2. onDisk' = onDisk /\ \A v \in Writers : pc'[v] \in {pc[v], "done"}
      BY <2>1 DEF OpenFails, Goes, TypeOK
    <3>3. QED
      BY <3>1, <3>2 DEF DirectoryInvariant
  <2>2. CASE ~OpenFails(w)
    <3>1. parent' # "missing"
      BY <1>1, <2>2 DEF zupt_safe_fopen_archive, zupt_safe_fopen_output
    <3>2. QED
      BY <3>1 DEF DirectoryInvariant
  <2>3. QED
    BY <2>1, <2>2
<1>2. ASSUME NEW w \in Writers,
             WriteData(w) \/ FlushStream(w) \/ SyncFile(w) \/ CloseStream(w)
               \/ PublishName(w) \/ RemoveTemp(w) \/ SyncDirectory(w)
      PROVE  DirectoryInvariant'
  <2>1. pc[w] \notin {"start", "done", "killed"} /\ parent' = parent
    BY <1>2 DEF WriteData, FlushStream, SyncFile, CloseStream, PublishName,
                RemoveTemp, SyncDirectory, Goes, dirVars
  <2>2. QED
    BY <2>1 DEF DirectoryInvariant
<1>3. ASSUME NEW w \in Writers, Kill(w)
      PROVE  DirectoryInvariant'
  BY <1>3 DEF Kill, dirVars, DirectoryInvariant, TypeOK
<1>4. CASE Crash
  <2>1. EmptyDirectory[Final] = NoFile
    BY NamesDiffer DEF EmptyDirectory
  <2>2. \A w \in Writers : pc'[w] \in {"start", "done", "killed"}
    BY <1>4 DEF Crash
  <2>3. onDisk' = {dir'}
    BY <1>4 DEF Crash
  <2>4. parent' = "missing" => dir'[Final] = NoFile
    BY <1>4, <2>1 DEF Crash, DirectoryInvariant
  <2>5. QED
    BY <2>2, <2>3, <2>4 DEF DirectoryInvariant
<1>5. CASE UNCHANGED vars
  BY <1>5 DEF vars, dirVars, DirectoryInvariant
<1>6. QED
  BY <1>1, <1>2, <1>3, <1>4, <1>5 DEF Next, Write, AllEnded

-----------------------------------------------------------------------------
(* Theorems *)

\* IndInv holds for any number of writers, crashes and failures: what
\* zupt_finish_output has done to a file at each of its points, and that a
\* directory that does not exist shows nothing.
THEOREM OutputInvariance == Spec => []IndInv
<1>1. Init => IndInv
  BY TypesInitially, DataInitially, DirectoryInitially DEF IndInv
<1>2. IndInv /\ [Next]_vars => IndInv'
  BY StepTypes, StepData, StepDirectory DEF IndInv
<1>3. QED
  BY <1>1, <1>2, PTL DEF Spec

\* The variables of zupt_finish_output and of the file system keep their types.
THEOREM OutputTypeCorrect == Spec => []TypeOK
<1>1. IndInv => TypeOK
  BY DEF IndInv
<1>2. QED
  BY <1>1, OutputInvariance, PTL

\* No file that zupt_finish_output publishes is ever incomplete under its name,
\* neither for a reader now nor after a crash.
THEOREM WholeFilesOnly == Spec => []ShownIsComplete
<1>1. IndInv => ShownIsComplete
  <2> SUFFICES ASSUME IndInv PROVE ShownIsComplete
    OBVIOUS
  <2>1. \A d \in onDisk : d[Final] \in Writers => synced[d[Final]] = Chunks
    BY DEF IndInv, DataInvariant
  <2>2. \A w \in Writers : synced[w] \subseteq accepted[w] /\ accepted[w] \subseteq Chunks
    BY DEF IndInv, DataInvariant, TypeOK
  <2>3. dir \in onDisk
    BY DEF IndInv, TypeOK
  <2>4. QED
    BY <2>1, <2>2, <2>3 DEF ShownIsComplete
<1>2. QED
  BY <1>1, OutputInvariance, PTL

-----------------------------------------------------------------------------
(* The refinement *)

\* What a crash may leave under the name, as the refinement mapping says it.
MayShow == {Shows(d) : d \in onDisk} \cup (IF parent = "made" THEN {NoFile} ELSE {})
Finished == {w \in Writers : synced[w] = Chunks}

\* Nothing that AtomicFile looks at changes, except that a file may be finished
\* or the doubt about the directory gets less.
LEMMA QuietSteps ==
  ASSUME dir'[Final] = dir[Final], Finished' = Finished,
         MayShow' \subseteq MayShow, dir'[Final] \in MayShow'
  PROVE  [Abstract!Next]_(Abstract!vars)
  BY DEF Abstract!Next, Abstract!Settle, Abstract!vars, MayShow, Finished

LEMMA TempStepsAreQuiet ==
  ASSUME TypeOK, NEW w \in Writers, NEW f \in Files \cup {NoFile},
         Changes([n \in {w} |-> f])
  PROVE  {Shows(d) : d \in onDisk'} = {Shows(d) : d \in onDisk}
<1>1. \A d \in onDisk' : \E e \in onDisk : d[Final] = e[Final]
  BY TempChangesFacts
<1>2. onDisk \subseteq onDisk'
  BY TempChangesFacts
<1>3. QED
  BY <1>1, <1>2 DEF Shows

LEMMA OpenRefines ==
  ASSUME IndInv, NEW w \in Writers,
         zupt_safe_fopen_archive(w) \/ zupt_safe_fopen_output(w)
  PROVE  [Abstract!Next]_(Abstract!vars)
<1>1. TypeOK /\ DirectoryInvariant /\ dir \in onDisk
  BY DEF IndInv, TypeOK
<1>2. Finished' = Finished
  BY DEF zupt_safe_fopen_archive, zupt_safe_fopen_output, OpenFails, fileVars, Finished
<1>3. /\ {Shows(d) : d \in onDisk'} = {Shows(d) : d \in onDisk}
      /\ dir'[Final] = dir[Final] /\ dir' \in onDisk'
  <2>1. CASE OpenFails(w)
    BY <1>1, <2>1 DEF OpenFails
  <2>2. CASE ~OpenFails(w)
    <3>1. Changes([n \in {w} |-> w])
      BY <2>2 DEF zupt_safe_fopen_archive, zupt_safe_fopen_output
    <3>2. QED
      BY <1>1, <3>1, TempStepsAreQuiet, TempChangesFacts DEF Files
  <2>3. QED
    BY <2>1, <2>2
<1>4. MayShow' = MayShow
  <2>1. CASE parent' = parent
    BY <1>3, <2>1 DEF MayShow
  <2>2. CASE parent' # parent
    <3>1. parent = "missing" /\ parent' = "made"
      BY <2>2 DEF zupt_safe_fopen_archive, zupt_safe_fopen_output
    <3>2. NoFile \in {Shows(d) : d \in onDisk}
      BY <1>1, <3>1 DEF DirectoryInvariant, Shows
    <3>3. QED
      BY <1>3, <3>1, <3>2 DEF MayShow
  <2>3. QED
    BY <2>1, <2>2
<1>5. dir'[Final] \in MayShow'
  BY <1>3 DEF MayShow, Shows
<1>6. QED
  BY <1>2, <1>3, <1>4, <1>5, QuietSteps

LEMMA PublishRefines ==
  ASSUME IndInv, NEW w \in Writers, PublishName(w)
  PROVE  [Abstract!Next]_(Abstract!vars)
<1>1. TypeOK /\ dir \in onDisk
  BY DEF IndInv, TypeOK
<1>2. pc[w] = "publish" /\ synced' = synced
  BY DEF PublishName, Goes, fileVars
<1>3. synced[w] = Chunks
  BY <1>2 DEF IndInv, DataInvariant
<1>4. CASE UNCHANGED dirVars
  BY <1>1, <1>2, <1>4, QuietSteps DEF MayShow, Finished, Shows, dirVars
<1>5. CASE /\ Takes(w)
           /\ w \in Replacing \/ dir[Final] = NoFile
           /\ parent' = parent
  <2>1. dir'[Final] = w
    BY <1>1, <1>5, TakesFacts
  <2>2. MayShow' = MayShow \cup {w}
    <3>1. /\ \A d \in onDisk' : d[Final] = w \/ d \in onDisk
          /\ onDisk \subseteq onDisk' /\ dir' \in onDisk'
      BY <1>1, <1>5, TakesFacts
    <3>2. {Shows(d) : d \in onDisk'} = {Shows(d) : d \in onDisk} \cup {w}
      BY <2>1, <3>1 DEF Shows
    <3>3. QED
      BY <1>5, <3>2 DEF MayShow
  <2>3. w \in Finished /\ Finished' = Finished
    BY <1>2, <1>3 DEF Finished
  <2>4. Abstract!Publish(w)
    BY <1>5, <2>1, <2>2, <2>3 DEF Abstract!Publish, MayShow, Finished
  <2>5. QED
    BY <2>4 DEF Abstract!Next
<1>6. QED
  BY <1>4, <1>5, PublishNameCases

LEMMA SyncFileRefines ==
  ASSUME IndInv, NEW w \in Writers, SyncFile(w)
  PROVE  [Abstract!Next]_(Abstract!vars)
<1>1. TypeOK /\ DataInvariant
  BY DEF IndInv
<1>2. dir' = dir /\ onDisk' = onDisk /\ parent' = parent
  BY DEF SyncFile, dirVars
<1>3. \A v \in Writers : v # w => synced'[v] = synced[v]
  BY <1>1, OthersFiles DEF Write
<1>4. synced[w] = Chunks => synced'[w] = Chunks
  BY <1>1, DataInvariantParts, OwnFile DEF Write
<1>5. MayShow' = MayShow
  BY <1>2 DEF MayShow
<1>6. Finished' = Finished \/ Finished' = Finished \cup {w}
  BY <1>3, <1>4 DEF Finished
<1>7. CASE Finished' = Finished
  BY <1>2, <1>5, <1>7 DEF Abstract!vars, MayShow, Finished
<1>8. CASE Finished' = Finished \cup {w}
  <2>1. Abstract!Complete(w)
    BY <1>2, <1>5, <1>8 DEF Abstract!Complete, MayShow, Finished
  <2>2. QED
    BY <2>1 DEF Abstract!Next
<1>9. QED
  BY <1>6, <1>7, <1>8

LEMMA CrashRefines ==
  ASSUME IndInv, Crash
  PROVE  [Abstract!Next]_(Abstract!vars)
<1>1. TypeOK /\ DataInvariant /\ DirectoryInvariant
  BY DEF IndInv
<1>2. EmptyDirectory[Final] = NoFile
  BY NamesDiffer DEF EmptyDirectory
<1>3. dir'[Final] \in MayShow
  BY <1>2 DEF Crash, MayShow, Shows
<1>4. MayShow' = {dir'[Final]}
  <2>1. onDisk' = {dir'} /\ parent' # "made"
    BY DEF Crash
  <2>2. QED
    BY <2>1 DEF MayShow, Shows
<1>5. Finished \subseteq Finished' /\ Finished' \in SUBSET Writers
  BY <1>1, CrashKeepsData DEF Finished
<1>6. Abstract!Crash
  BY <1>3, <1>4, <1>5 DEF Abstract!Crash, MayShow, Finished
<1>7. QED
  BY <1>6 DEF Abstract!Next

LEMMA OutputRefinementStep ==
  ASSUME IndInv, [Next]_vars
  PROVE  [Abstract!Next]_(Abstract!vars)
<1>1. TypeOK /\ dir \in onDisk
  BY DEF IndInv, TypeOK
<1>2. ASSUME NEW w \in Writers, RemoveTemp(w)
      PROVE  [Abstract!Next]_(Abstract!vars)
  <2>1. synced' = synced /\ parent' = parent
    BY <1>2 DEF RemoveTemp, fileVars
  <2>2. /\ dir'[Final] = dir[Final] /\ dir' \in onDisk'
        /\ {Shows(d) : d \in onDisk'} = {Shows(d) : d \in onDisk}
    <3>1. CASE Changes([n \in {w} |-> NoFile])
      BY <1>1, <3>1, TempChangesFacts, TempStepsAreQuiet
    <3>2. CASE UNCHANGED << dir, onDisk >>
      BY <1>1, <3>2
    <3>3. QED
      BY <1>2, <3>1, <3>2, RemoveTempCases
  <2>3. MayShow' = MayShow /\ dir'[Final] \in MayShow' /\ Finished' = Finished
    BY <2>1, <2>2 DEF MayShow, Shows, Finished
  <2>4. QED
    BY <2>2, <2>3, QuietSteps
<1>3. ASSUME NEW w \in Writers, SyncDirectory(w)
      PROVE  [Abstract!Next]_(Abstract!vars)
  <2>1. /\ dir' = dir /\ synced' = synced /\ parent' = parent
        /\ onDisk' = {dir} \/ onDisk' = onDisk
    BY <1>3 DEF SyncDirectory, fileVars
  <2>2. onDisk' \subseteq onDisk /\ dir' \in onDisk'
    BY <1>1, <2>1
  <2>3. /\ MayShow' \subseteq MayShow /\ dir'[Final] \in MayShow'
        /\ Finished' = Finished
    BY <2>1, <2>2 DEF MayShow, Shows, Finished
  <2>4. QED
    BY <2>1, <2>3, QuietSteps
<1>4. ASSUME NEW w \in Writers,
             WriteData(w) \/ FlushStream(w) \/ CloseStream(w) \/ Kill(w)
      PROVE  [Abstract!Next]_(Abstract!vars)
  <2>1. UNCHANGED << dir, onDisk, parent, synced >>
    BY <1>4 DEF WriteData, FlushStream, CloseStream, Kill, fileVars, dirVars
  <2>2. QED
    BY <2>1 DEF Abstract!vars
<1>5. CASE UNCHANGED vars
  BY <1>5 DEF vars, fileVars, dirVars, Abstract!vars
<1>6. QED
  BY <1>2, <1>3, <1>4, <1>5, OpenRefines, PublishRefines, SyncFileRefines, CrashRefines
     DEF Next, Write, AllEnded

\* Publishing through a temporary file does what AtomicFile promises: the name
\* changes in one step, to a complete file, and a crash can only take it back
\* to what it showed since the last successful fsync of the directory.
THEOREM OutputRefinement == Spec => PublishesAtomically
<1>1. Init => Abstract!Init
  <2> SUFFICES ASSUME Init PROVE Abstract!Init
    OBVIOUS
  <2>1. dir[Final] \in {Old, NoFile} /\ onDisk = {dir} /\ parent # "made"
    BY ShownInitially DEF Init
  <2>2. {w \in Writers : synced[w] = Chunks} = {}
    BY OutputConstants DEF Init
  <2>3. QED
    BY <2>1, <2>2 DEF Abstract!Init, Shows
<1>2. IndInv /\ [Next]_vars => [Abstract!Next]_(Abstract!vars)
  BY OutputRefinementStep
<1>3. QED
  BY <1>1, <1>2, OutputInvariance, PTL DEF Spec, PublishesAtomically, Abstract!Spec


-----------------------------------------------------------------------------
(* OutcomeInvariant *)

\* The part of OutcomeInvariant that concerns the call of one writer.
OwnOutcome(w) ==
  /\ pc[w] \in {"start", "write", "fsync", "fclose", "publish"} => ~Took(w)
  /\ pc[w] = "publish" => publish[w] /\ ~failed[w]
  /\ pc[w] \in {"unlink", "dirsync", "done"} =>
       /\ ~failed[w] /\ publish[w] => Took(w)
       /\ failed[w] /\ w \in Replacing => ~Took(w)
  /\ pc[w] = "unlink" /\ Took(w) /\ w \in Replacing => dir[w] = NoFile
  /\ pc[w] = "dirsync" /\ ~failed[w] => dir[w] = NoFile
  /\ dirSynced[w] => pc[w] = "done"
  /\ pc[w] = "done" /\ dirSynced[w] /\ ~failed[w] => \A d \in onDisk : d[w] = NoFile

\* Until it has tried to sync the directory, a writer that took the name sees
\* its own file there or a later one.
NameKeptSinceTaken ==
  \A k \in 1 .. Len(published) :
    pc[published[k]] \in {"unlink", "dirsync"} =>
      \E j \in k .. Len(published) : dir[Final] = published[j]

LEMMA OutcomeParts ==
  OutcomeInvariant <=>
    (\A w \in Writers : OwnOutcome(w)) /\ NameKeptSinceTaken /\ SyncedPublicationSurvives
  BY DEF OutcomeInvariant, OwnOutcome, TemporaryIsGone, NameKeptSinceTaken

LEMMA OutcomeInitially == Init => OutcomeInvariant
<1> SUFFICES ASSUME Init PROVE OutcomeInvariant
  OBVIOUS
<1>1. Len(published) = 0
  BY DEF Init
<1>2. \A w \in Writers : ~Took(w)
  BY <1>1 DEF Took
<1>3. \A w \in Writers : OwnOutcome(w)
  BY <1>2 DEF Init, OwnOutcome
<1>4. NameKeptSinceTaken /\ SyncedPublicationSurvives
  BY <1>1 DEF NameKeptSinceTaken, SyncedPublicationSurvives
<1>5. QED
  BY <1>3, <1>4, OutcomeParts

\* A writer changes what is behind its own temporary name and the final one only.
LEMMA OtherNamesKept ==
  ASSUME TypeOK, NEW w \in Writers, NEW v \in Writers, v # w,
         Changes([n \in {w} |-> w]) \/ Changes([n \in {w} |-> NoFile]) \/ Takes(w)
  PROVE  dir'[v] = dir[v] /\ \A d \in onDisk' : \E e \in onDisk : d[v] = e[v]
<1>0. dir \in Directories /\ onDisk \in SUBSET Directories /\ v \in Names
  BY NamesDiffer DEF TypeOK
<1>1. ASSUME NEW N \in SUBSET {w, Final},
             NEW change \in [N -> Files \cup {NoFile}], Changes(change)
      PROVE  dir'[v] = dir[v] /\ \A d \in onDisk' : \E e \in onDisk : d[v] = e[v]
  <2>1. N \in SUBSET Names /\ v \in Names \ N
    BY <1>0, NamesDiffer
  <2>2. \A d \in Directories : With(d, change)[v] = d[v]
    BY <2>1, WithFacts
  <2>3. /\ dir' = With(dir, change)
        /\ \A d \in onDisk' \ onDisk : \E e \in onDisk : d = With(e, change)
    BY <1>1, <2>1, ChangesFacts
  <2>4. QED
    BY <1>0, <2>2, <2>3
<1>2. CASE Changes([n \in {w} |-> w])
  <2> DEFINE change == [n \in {w} |-> w]
  <2>1. change \in [{w} -> Files \cup {NoFile}] /\ {w} \in SUBSET {w, Final}
    BY DEF Files
  <2>2. Changes(change)
    BY <1>2
  <2> HIDE DEF change
  <2>3. QED
    BY <1>1, <2>1, <2>2
<1>3. CASE Changes([n \in {w} |-> NoFile])
  <2> DEFINE change == [n \in {w} |-> NoFile]
  <2>1. change \in [{w} -> Files \cup {NoFile}] /\ {w} \in SUBSET {w, Final}
    OBVIOUS
  <2>2. Changes(change)
    BY <1>3
  <2> HIDE DEF change
  <2>3. QED
    BY <1>1, <2>1, <2>2
<1>4. CASE Changes([n \in {w, Final} |-> IF n = Final THEN w ELSE NoFile])
  <2> DEFINE change == [n \in {w, Final} |-> IF n = Final THEN w ELSE NoFile]
  <2>1. change \in [{w, Final} -> Files \cup {NoFile}] /\ {w, Final} \in SUBSET {w, Final}
    BY DEF Files
  <2>2. Changes(change)
    BY <1>4
  <2> HIDE DEF change
  <2>3. QED
    BY <1>1, <2>1, <2>2
<1>5. CASE Changes([n \in {Final} |-> w])
  <2> DEFINE change == [n \in {Final} |-> w]
  <2>1. change \in [{Final} -> Files \cup {NoFile}] /\ {Final} \in SUBSET {w, Final}
    BY DEF Files
  <2>2. Changes(change)
    BY <1>5
  <2> HIDE DEF change
  <2>3. QED
    BY <1>1, <2>1, <2>2
<1>6. QED
  BY <1>2, <1>3, <1>4, <1>5 DEF Takes

\* What a rename leaves of the temporary name, and an unlink of its name.
LEMMA OwnNameGone ==
  ASSUME TypeOK, NEW w \in Writers,
         \/ Changes([n \in {w} |-> NoFile])
         \/ Changes([n \in {w, Final} |-> IF n = Final THEN w ELSE NoFile])
  PROVE  dir'[w] = NoFile
<1>0. dir \in Directories
  BY DEF TypeOK
<1>1. CASE Changes([n \in {w} |-> NoFile])
  <2> DEFINE change == [n \in {w} |-> NoFile]
  <2>1. change \in [{w} -> Files \cup {NoFile}] /\ {w} \in SUBSET Names /\ change[w] = NoFile
    BY NamesDiffer
  <2>2. Changes(change)
    BY <1>1
  <2> HIDE DEF change
  <2>3. QED
    BY <1>0, <2>1, <2>2, WithFacts, ChangesFacts
<1>2. CASE Changes([n \in {w, Final} |-> IF n = Final THEN w ELSE NoFile])
  <2> DEFINE change == [n \in {w, Final} |-> IF n = Final THEN w ELSE NoFile]
  <2>1. /\ change \in [{w, Final} -> Files \cup {NoFile}]
        /\ {w, Final} \in SUBSET Names /\ change[w] = NoFile
    BY NamesDiffer DEF Files
  <2>2. Changes(change)
    BY <1>2
  <2> HIDE DEF change
  <2>3. QED
    BY <1>0, <2>1, <2>2, WithFacts, ChangesFacts
<1>3. QED
  BY <1>1, <1>2

\* Taking the name adds one publication behind the others.
LEMMA TookAfterTaking ==
  ASSUME TypeOK, NEW w \in Writers, published' = Append(published, w)
  PROVE  /\ Len(published') = Len(published) + 1
         /\ \A k \in 1 .. Len(published) : published'[k] = published[k]
         /\ published'[Len(published')] = w
         /\ \A v \in Writers : Took(v)' <=> Took(v) \/ v = w
<1>1. /\ Len(published) \in Nat /\ Len(published') = Len(published) + 1
      /\ \A k \in 1 .. Len(published) : published'[k] = published[k]
      /\ published'[Len(published')] = w
  BY DEF TypeOK
<1>2. QED
  BY <1>1 DEF Took

LEMMA TookIsKept ==
  ASSUME published' = published
  PROVE  \A v \in Writers : Took(v)' <=> Took(v)
  BY DEF Took


\* What a step of one writer leaves of the calls of the others.
LEMMA OthersOutcome ==
  ASSUME TypeOK, NEW w \in Writers, NEW v \in Writers, v # w,
         OwnOutcome(v), Write(w) \/ Kill(w)
  PROVE  OwnOutcome(v)'
<1>0. dir \in onDisk
  BY DEF TypeOK
<1>1. pc'[v] = pc[v] /\ publish'[v] = publish[v] /\ failed'[v] = failed[v]
  BY OthersFiles
<1>2. dirSynced'[v] = dirSynced[v]
  BY DEF Write, zupt_safe_fopen_archive, zupt_safe_fopen_output, OpenFails, WriteData,
         FlushStream, SyncFile, CloseStream, PublishName, RemoveTemp, SyncDirectory,
         Kill, callVars, TypeOK
<1>3. Took(v)' <=> Took(v)
  <2>1. CASE published' = published
    BY <2>1, TookIsKept
  <2>2. CASE published' = Append(published, w)
    BY <2>2, TookAfterTaking
  <2>3. QED
    BY <2>1, <2>2 DEF Write, zupt_safe_fopen_archive, zupt_safe_fopen_output, OpenFails,
         WriteData, FlushStream, SyncFile, CloseStream, PublishName, RemoveTemp,
         SyncDirectory, Kill, dirVars
<1>4. dir'[v] = dir[v] /\ \A d \in onDisk' : \E e \in onDisk : d[v] = e[v]
  <2>1. CASE zupt_safe_fopen_archive(w) \/ zupt_safe_fopen_output(w)
    <3>1. Changes([n \in {w} |-> w]) \/ UNCHANGED << dir, onDisk >>
      BY <2>1 DEF zupt_safe_fopen_archive, zupt_safe_fopen_output, OpenFails
    <3>2. QED
      BY <3>1, OtherNamesKept
  <2>2. CASE PublishName(w)
    BY <2>2, PublishNameCases, OtherNamesKept DEF dirVars
  <2>3. CASE RemoveTemp(w)
    BY <2>3, RemoveTempCases, OtherNamesKept
  <2>4. CASE SyncDirectory(w)
    <3>1. dir' = dir /\ (onDisk' = {dir} \/ onDisk' = onDisk)
      BY <2>4 DEF SyncDirectory
    <3>2. QED
      BY <1>0, <3>1
  <2>5. CASE WriteData(w) \/ FlushStream(w) \/ SyncFile(w) \/ CloseStream(w) \/ Kill(w)
    BY <2>5 DEF WriteData, FlushStream, SyncFile, CloseStream, Kill, dirVars
  <2>6. QED
    BY <2>1, <2>2, <2>3, <2>4, <2>5 DEF Write
<1>5. QED
  BY <1>1, <1>2, <1>3, <1>4 DEF OwnOutcome

\* A step of a writer keeps what is known of its own call.
LEMMA OwnOutcomeStep ==
  ASSUME TypeOK, NEW w \in Writers, OwnOutcome(w), Write(w) \/ Kill(w)
  PROVE  OwnOutcome(w)'
<1> USE DEF TypeOK, Goes, OwnOutcome
<1>1. CASE zupt_safe_fopen_archive(w) \/ zupt_safe_fopen_output(w)
  <2>1. pc[w] = "start" /\ UNCHANGED << dirSynced, published >>
    BY <1>1 DEF zupt_safe_fopen_archive, zupt_safe_fopen_output, OpenFails, callVars
  <2>2. pc'[w] = "write" \/ (pc'[w] = "done" /\ failed'[w])
    BY <1>1 DEF zupt_safe_fopen_archive, zupt_safe_fopen_output, OpenFails, Fails
  <2>3. ~Took(w)'
    BY <2>1, TookIsKept
  <2>4. QED
    BY <2>1, <2>2, <2>3
<1>2. CASE WriteData(w) \/ FlushStream(w) \/ SyncFile(w)
  <2>1. /\ pc[w] \in {"write", "fsync"} /\ pc'[w] \in {"write", "fsync", "fclose"}
        /\ UNCHANGED << dirSynced, published >>
    BY <1>2 DEF WriteData, FlushStream, SyncFile, callVars, dirVars
  <2>2. ~Took(w)'
    BY <2>1, TookIsKept
  <2>3. QED
    BY <2>1, <2>2
<1>3. CASE CloseStream(w)
  <2>1. /\ pc[w] = "fclose" /\ UNCHANGED << dirSynced, published >>
        /\ publish'[w] = (publish[w] /\ ~failed'[w])
        /\ pc'[w] = IF publish'[w] THEN "publish" ELSE "unlink"
    BY <1>3 DEF CloseStream, dirVars
  <2>2. ~Took(w)'
    BY <2>1, TookIsKept
  <2>3. failed'[w] \in BOOLEAN
    BY <1>3, MayFailType DEF CloseStream, Fails
  <2>4. QED
    BY <2>1, <2>2, <2>3
<1>4. CASE PublishName(w)
  <2>1. /\ pc[w] = "publish" /\ pc'[w] = "unlink" /\ ~Took(w) /\ publish[w] /\ ~failed[w]
        /\ UNCHANGED << publish, dirSynced >> /\ ~dirSynced[w]
    BY <1>4 DEF PublishName
  <2>2. CASE Fails(w, TRUE) /\ UNCHANGED << changed, dirVars >>
    <3>1. failed'[w] /\ ~Took(w)'
      BY <2>1, <2>2, TookIsKept DEF Fails, dirVars
    <3>2. QED
      BY <2>1, <3>1
  <2>3. CASE published' = Append(published, w)
    <3>1. Took(w)'
      BY <2>3, TookAfterTaking
    <3>2. published' # published
      BY <2>3, TookAfterTaking
    <3>3. /\ failed' = failed
          /\ w \in Replacing =>
               Changes([n \in {w, Final} |-> IF n = Final THEN w ELSE NoFile])
      BY <1>4, <3>2 DEF PublishName, dirVars
    <3>4. w \in Replacing => dir'[w] = NoFile
      BY <3>3, OwnNameGone
    <3>5. QED
      BY <2>1, <3>1, <3>3, <3>4
  <2>4. QED
    BY <1>4, <2>2, <2>3, PublishNameCases
<1>5. CASE RemoveTemp(w)
  <2>1. /\ pc[w] = "unlink" /\ pc'[w] = "dirsync" /\ ~dirSynced[w]
        /\ UNCHANGED << publish, dirSynced, published >>
    BY <1>5 DEF RemoveTemp
  <2>2. Took(w)' <=> Took(w)
    BY <2>1, TookIsKept
  <2>3. \/ failed' = failed /\ dir'[w] = NoFile
        \/ failed'[w] /\ dir[w] # NoFile
    <3>1. CASE dir[w] = NoFile
      BY <1>5, <3>1 DEF RemoveTemp
    <3>2. CASE dir[w] # NoFile
      <4>1. CASE Changes([n \in {w} |-> NoFile]) /\ failed' = failed
        BY <4>1, OwnNameGone
      <4>2. CASE Fails(w, TRUE)
        BY <3>2, <4>2 DEF Fails
      <4>3. QED
        BY <1>5, <3>2, <4>1, <4>2 DEF RemoveTemp
    <3>3. QED
      BY <3>1, <3>2
  <2>4. QED
    BY <2>1, <2>2, <2>3
<1>6. CASE SyncDirectory(w)
  <2>1. /\ pc[w] = "dirsync" /\ pc'[w] = "done"
        /\ UNCHANGED << publish, failed, dir, published >>
    BY <1>6 DEF SyncDirectory
  <2>2. dirSynced'[w] => onDisk' = {dir}
    BY <1>6, MayFailType DEF SyncDirectory
  <2>3. Took(w)' <=> Took(w)
    BY <2>1, TookIsKept
  <2>4. QED
    BY <2>1, <2>2, <2>3
<1>7. CASE Kill(w)
  <2>1. pc[w] # "done" /\ pc'[w] = "killed" /\ dirSynced' = dirSynced
    BY <1>7 DEF Kill, callVars
  <2>2. QED
    BY <2>1
<1>8. QED
  BY <1>1, <1>2, <1>3, <1>4, <1>5, <1>6, <1>7 DEF Write


\* The name shows this publication or a later one, as published and dir say it.
LEMMA NameKeptStep ==
  ASSUME TypeOK, OutcomeInvariant, NEW w \in Writers, Write(w) \/ Kill(w)
  PROVE  NameKeptSinceTaken'
<1> USE DEF TypeOK, Goes
<1>0. NameKeptSinceTaken /\ OwnOutcome(w) /\ Len(published) \in Nat
  BY OutcomeParts
<1>1. \A v \in Writers : v # w => pc'[v] = pc[v]
  BY OthersFiles
<1>2. ASSUME published' = published, dir'[Final] = dir[Final],
             pc[w] \in {"unlink", "dirsync"} \/ ~Took(w) \/ pc'[w] \notin {"unlink", "dirsync"}
      PROVE  NameKeptSinceTaken'
  <2> SUFFICES ASSUME NEW k \in 1 .. Len(published),
                      pc'[published[k]] \in {"unlink", "dirsync"}
               PROVE  \E j \in k .. Len(published) : dir[Final] = published[j]
    BY <1>2 DEF NameKeptSinceTaken
  <2>1. published[k] \in Writers /\ (published[k] = w => Took(w))
    BY DEF Took
  <2>2. pc[published[k]] \in {"unlink", "dirsync"}
    BY <1>1, <1>2, <2>1
  <2>3. QED
    BY <1>0, <2>2 DEF NameKeptSinceTaken
<1>3. CASE zupt_safe_fopen_archive(w) \/ zupt_safe_fopen_output(w)
  <2>1. published' = published /\ pc'[w] \notin {"unlink", "dirsync"}
    BY <1>3 DEF zupt_safe_fopen_archive, zupt_safe_fopen_output, OpenFails
  <2>2. Changes([n \in {w} |-> w]) \/ dir' = dir
    BY <1>3 DEF zupt_safe_fopen_archive, zupt_safe_fopen_output, OpenFails
  <2>3. dir'[Final] = dir[Final]
    BY <2>2, TempChangesFacts DEF Files
  <2>4. QED
    BY <1>2, <2>1, <2>3
<1>4. CASE WriteData(w) \/ FlushStream(w) \/ SyncFile(w) \/ CloseStream(w)
  <2>1. ~Took(w) /\ published' = published /\ dir' = dir
    BY <1>0, <1>4 DEF WriteData, FlushStream, SyncFile, CloseStream, dirVars, OwnOutcome
  <2>2. QED
    BY <1>2, <2>1
<1>5. CASE PublishName(w)
  <2>1. ~Took(w)
    BY <1>0, <1>5 DEF PublishName, OwnOutcome
  <2>2. CASE UNCHANGED dirVars
    BY <1>2, <2>1, <2>2 DEF dirVars
  <2>3. CASE Takes(w) /\ published' = Append(published, w)
    <3>1. dir'[Final] = w /\ Len(published') = Len(published) + 1
          /\ published'[Len(published')] = w
      BY <2>3, TakesFacts, TookAfterTaking
    <3>2. QED
      BY <1>0, <3>1 DEF NameKeptSinceTaken
  <2>4. QED
    BY <1>5, <2>2, <2>3, PublishNameCases
<1>6. CASE RemoveTemp(w)
  <2>1. pc[w] = "unlink" /\ published' = published
    BY <1>6 DEF RemoveTemp
  <2>2. dir'[Final] = dir[Final]
    BY <1>6, RemoveTempCases, TempChangesFacts
  <2>3. QED
    BY <1>2, <2>1, <2>2
<1>7. CASE SyncDirectory(w) \/ Kill(w)
  <2>1. published' = published /\ dir' = dir /\ pc'[w] \notin {"unlink", "dirsync"}
    BY <1>7 DEF SyncDirectory, Kill, dirVars
  <2>2. QED
    BY <1>2, <2>1
<1>8. QED
  BY <1>3, <1>4, <1>5, <1>6, <1>7 DEF Write

\* Only an fsync of the directory makes SyncedPublicationSurvives say more, and
\* by then the name shows what it says.
LEMMA SurvivesStep ==
  ASSUME TypeOK, OutcomeInvariant, NEW w \in Writers, Write(w) \/ Kill(w)
  PROVE  SyncedPublicationSurvives'
<1> USE DEF TypeOK, Goes
<1>0. /\ NameKeptSinceTaken /\ SyncedPublicationSurvives /\ OwnOutcome(w)
      /\ Len(published) \in Nat /\ dir \in onDisk
  BY OutcomeParts
<1>1. parent' = "durable" => parent = "durable"
  BY DEF Write, zupt_safe_fopen_archive, zupt_safe_fopen_output, OpenFails, WriteData,
         FlushStream, SyncFile, CloseStream, PublishName, RemoveTemp, SyncDirectory,
         Kill, dirVars
<1>2. ASSUME published' = published, dirSynced' = dirSynced,
             \A d \in onDisk' : \E e \in onDisk : d[Final] = e[Final]
      PROVE  SyncedPublicationSurvives'
  <2> SUFFICES ASSUME parent' = "durable", NEW k \in 1 .. Len(published'),
                      dirSynced'[published'[k]], NEW d \in onDisk'
               PROVE  \E j \in k .. Len(published') : d[Final] = published'[j]
    BY DEF SyncedPublicationSurvives
  <2>1. PICK e \in onDisk : d[Final] = e[Final]
    BY <1>2
  <2>2. parent = "durable" /\ k \in 1 .. Len(published) /\ dirSynced[published[k]]
    BY <1>1, <1>2
  <2>3. PICK j \in k .. Len(published) : e[Final] = published[j]
    BY <1>0, <2>2 DEF SyncedPublicationSurvives
  <2>4. QED
    BY <1>2, <2>1, <2>3
<1>3. CASE zupt_safe_fopen_archive(w) \/ zupt_safe_fopen_output(w)
  <2>1. published' = published /\ dirSynced' = dirSynced
    BY <1>3 DEF zupt_safe_fopen_archive, zupt_safe_fopen_output, OpenFails, callVars
  <2>2. Changes([n \in {w} |-> w]) \/ onDisk' = onDisk
    BY <1>3 DEF zupt_safe_fopen_archive, zupt_safe_fopen_output, OpenFails
  <2>3. \A d \in onDisk' : \E e \in onDisk : d[Final] = e[Final]
    BY <2>2, TempChangesFacts DEF Files
  <2>4. QED
    BY <1>2, <2>1, <2>3
<1>4. CASE WriteData(w) \/ FlushStream(w) \/ SyncFile(w) \/ CloseStream(w) \/ Kill(w)
  <2>1. published' = published /\ dirSynced' = dirSynced /\ onDisk' = onDisk
    BY <1>4 DEF WriteData, FlushStream, SyncFile, CloseStream, Kill, dirVars, callVars
  <2>2. QED
    BY <1>2, <2>1
<1>5. CASE PublishName(w)
  <2>1. ~dirSynced[w] /\ dirSynced' = dirSynced
    BY <1>0, <1>5 DEF PublishName, OwnOutcome
  <2>2. CASE UNCHANGED dirVars
    BY <1>2, <2>1, <2>2 DEF dirVars
  <2>3. CASE Takes(w) /\ published' = Append(published, w)
    <3>1. /\ Len(published') = Len(published) + 1
          /\ \A k \in 1 .. Len(published) : published'[k] = published[k]
          /\ published'[Len(published')] = w
      BY <2>3, TookAfterTaking
    <3>2. \A d \in onDisk' : d[Final] = w \/ d \in onDisk
      BY <2>3, TakesFacts
    <3> SUFFICES ASSUME parent' = "durable", NEW k \in 1 .. Len(published'),
                        dirSynced'[published'[k]], NEW d \in onDisk'
                 PROVE  \E j \in k .. Len(published') : d[Final] = published'[j]
      BY DEF SyncedPublicationSurvives
    <3>3. k \in 1 .. Len(published) /\ dirSynced[published[k]]
      BY <1>0, <2>1, <3>1
    <3>4. CASE d[Final] = w
      BY <1>0, <3>1, <3>4
    <3>5. CASE d \in onDisk
      <4>1. PICK j \in k .. Len(published) : d[Final] = published[j]
        BY <1>0, <1>1, <3>3, <3>5 DEF SyncedPublicationSurvives
      <4>2. QED
        BY <1>0, <3>1, <4>1
    <3>6. QED
      BY <3>2, <3>4, <3>5
  <2>4. QED
    BY <1>5, <2>2, <2>3, PublishNameCases
<1>6. CASE RemoveTemp(w)
  <2>1. published' = published /\ dirSynced' = dirSynced
    BY <1>6 DEF RemoveTemp
  <2>2. \A d \in onDisk' : \E e \in onDisk : d[Final] = e[Final]
    <3>1. CASE onDisk' = onDisk
      BY <3>1
    <3>2. CASE Changes([n \in {w} |-> NoFile])
      BY <3>2, TempChangesFacts
    <3>3. QED
      BY <1>6, <3>1, <3>2, RemoveTempCases
  <2>3. QED
    BY <1>2, <2>1, <2>2
<1>7. CASE SyncDirectory(w)
  <2>1. /\ pc[w] = "dirsync" /\ ~dirSynced[w]
        /\ published' = published /\ dir' = dir
    BY <1>0, <1>7 DEF SyncDirectory, OwnOutcome
  <2>2. PICK works \in BOOLEAN : /\ onDisk' = IF works THEN {dir} ELSE onDisk
                                 /\ dirSynced' = [dirSynced EXCEPT ![w] = works]
    BY <1>7, MayFailType DEF SyncDirectory
  <2>3. CASE works
    <3> SUFFICES ASSUME parent' = "durable", NEW k \in 1 .. Len(published),
                        dirSynced'[published[k]]
                 PROVE  \E j \in k .. Len(published) : dir[Final] = published[j]
      BY <2>1, <2>2, <2>3 DEF SyncedPublicationSurvives
    <3>1. CASE published[k] = w
      BY <1>0, <2>1, <3>1 DEF NameKeptSinceTaken
    <3>2. CASE published[k] # w
      <4>1. published[k] \in Writers
        OBVIOUS
      <4>2. dirSynced[published[k]]
        BY <2>2, <3>2, <4>1
      <4>3. QED
        BY <1>0, <1>1, <4>2 DEF SyncedPublicationSurvives
    <3>3. QED
      BY <3>1, <3>2
  <2>4. CASE ~works
    <3>1. dirSynced' = dirSynced
      BY <2>1, <2>2, <2>4
    <3>2. QED
      BY <1>2, <2>1, <2>2, <2>4, <3>1
  <2>5. QED
    BY <2>3, <2>4
<1>8. QED
  BY <1>3, <1>4, <1>5, <1>6, <1>7 DEF Write

LEMMA CrashKeepsOutcome ==
  ASSUME TypeOK, OutcomeInvariant, Crash
  PROVE  OutcomeInvariant'
<1>1. /\ (\A w \in Writers : OwnOutcome(w)) /\ SyncedPublicationSurvives
      /\ Len(published) \in Nat
  BY OutcomeParts DEF TypeOK
<1>2. /\ UNCHANGED << publish, failed, changed, dirSynced, published >>
      /\ onDisk' = {dir'} /\ (dir' \in onDisk \/ dir' = EmptyDirectory)
      /\ (parent' = "durable" => parent = "durable" /\ dir' \in onDisk)
  BY DEF Crash, callVars
<1>3. \A w \in Writers : /\ pc'[w] \in {"start", "done", "killed"}
                         /\ pc'[w] \in {"start", "done"} => pc[w] = pc'[w]
                         /\ pc[w] = "done" => pc'[w] = "done"
  BY DEF Crash, TypeOK
<1>4. \A w \in Writers : EmptyDirectory[w] = NoFile
  BY NamesDiffer DEF EmptyDirectory
<1>5. ASSUME NEW w \in Writers
      PROVE  OwnOutcome(w)'
  <2>1. Took(w)' <=> Took(w)
    BY <1>2, TookIsKept
  <2>2. (\A d \in onDisk : d[w] = NoFile) => \A d \in onDisk' : d[w] = NoFile
    BY <1>2, <1>4
  <2>3. QED
    BY <1>1, <1>2, <1>3, <2>1, <2>2 DEF OwnOutcome
<1>6. NameKeptSinceTaken'
  <2>1. \A k \in 1 .. Len(published) : published[k] \in Writers
    BY DEF TypeOK
  <2>2. QED
    BY <1>2, <1>3, <2>1 DEF NameKeptSinceTaken
<1>7. SyncedPublicationSurvives'
  BY <1>1, <1>2 DEF SyncedPublicationSurvives
<1>8. QED
  BY <1>5, <1>6, <1>7, OutcomeParts
     DEF OutcomeInvariant, OwnOutcome, TemporaryIsGone, NameKeptSinceTaken

LEMMA StepOutcome ==
  ASSUME TypeOK, OutcomeInvariant, [Next]_vars
  PROVE  OutcomeInvariant'
<1>1. ASSUME NEW w \in Writers, Write(w) \/ Kill(w)
      PROVE  OutcomeInvariant'
  <2>1. ASSUME NEW v \in Writers
        PROVE  OwnOutcome(v)'
    BY <1>1, OutcomeParts, OwnOutcomeStep, OthersOutcome
  <2>2. NameKeptSinceTaken' /\ SyncedPublicationSurvives'
    BY <1>1, NameKeptStep, SurvivesStep
  <2>3. QED
    BY <2>1, <2>2
       DEF OutcomeInvariant, OwnOutcome, TemporaryIsGone, NameKeptSinceTaken
<1>2. CASE UNCHANGED vars
  BY <1>2 DEF vars, fileVars, callVars, dirVars, OutcomeInvariant, TemporaryIsGone,
              SyncedPublicationSurvives, Took
<1>3. QED
  BY <1>1, <1>2, CrashKeepsOutcome DEF Next, AllEnded

\* OutcomeInvariant holds for any number of writers, crashes and failures: what
\* zupt_finish_output has done to the names at each of its points.
THEOREM OutcomeInvariance == Spec => []OutcomeInvariant
<1>1. TypeOK /\ OutcomeInvariant /\ [Next]_vars => OutcomeInvariant'
  BY StepOutcome
<1>2. QED
  BY <1>1, OutcomeInitially, OutputTypeCorrect, PTL DEF Spec

\* What zupt_finish_output returns is true: a success means that its file took
\* the name, a failed archive has never been under it.
THEOREM ReturnIsTrue == Spec => []ReturnTellsTheOutcome
<1>1. OutcomeInvariant => ReturnTellsTheOutcome
  BY DEF OutcomeInvariant, ReturnTellsTheOutcome
<1>2. QED
  BY <1>1, OutcomeInvariance, PTL

\* A success with a synced directory leaves no temporary file behind.
THEOREM NoTemporaryLeft == Spec => []TemporaryIsGone
<1>1. OutcomeInvariant => TemporaryIsGone
  BY DEF OutcomeInvariant
<1>2. QED
  BY <1>1, OutcomeInvariance, PTL

\* No crash undoes a publication whose directory was synced.
THEOREM PublicationSurvives == Spec => []SyncedPublicationSurvives
<1>1. OutcomeInvariant => SyncedPublicationSurvives
  BY DEF OutcomeInvariant
<1>2. QED
  BY <1>1, OutcomeInvariance, PTL
=============================================================================
