----------------------------- MODULE DiskBackup -----------------------------
(***************************************************************************)
(* zupt_disk_backup of zupt_disk.c: a file or device is opened once and      *)
(* read block by block, while another process may write to it, into an      *)
(* archive that takes its name only at the end.                             *)
(***************************************************************************)
EXTENDS ArchiveReader, PathNames

CONSTANTS
  Sources,        \* [name, relation, content]: relation to the output is
                  \* "other", "same", or "unknown" when it cannot be looked at
  Changed,        \* what another process leaves in the source
  DiskOptions,    \* see ArchiveFormat
  MaxBlocks,      \* UINT32_MAX
  MaxChanges,     \* bound on the changes of the source
  Faults          \* may calls fail and the process be killed?

VARIABLES
  bpc,        \* "open", "read", "finish", "done", "gone"
  source, o,
  size,       \* source_size
  image,      \* what has been read
  body,       \* the frames in the private file
  known,      \* the dedup table: data -> [offset, seq]
  lost,       \* write_err, or ferror of the stream
  changes,
  archive,    \* what the name of the archive shows
  backedUp    \* the result

readVars == << size, image, body, known, lost >>
backupVars == << bpc, source, o, readVars, changes, archive, backedUp >>

NoArchive == [frames |-> << >>]
NoSource == [content |-> << >>]
NoOptions == [layout |-> "none"]
MayFail == IF Faults THEN BOOLEAN ELSE {FALSE}

-----------------------------------------------------------------------------
(* The name in the index *)

\* disk-image.raw
DefaultLabel == << 100, 105, 115, 107, 45, 105, 109, 97, 103, 101, 46, 114, 97, 119 >>

\* disk_archive_label: the last part of the path, when it may be a file name.
Label(name) ==
  LET leaf == Last(Components(name))
      safe == /\ leaf # << >> /\ Len(leaf) < MaxPath
              /\ ComponentIsSafe(leaf)
              /\ \A i \in DOMAIN leaf : leaf[i] >= 32 /\ leaf[i] \notin {127, Colon}
  IN IF safe THEN leaf ELSE DefaultLabel

-----------------------------------------------------------------------------
BackupInit ==
  /\ bpc = "open"
  /\ source \in Sources
  /\ o \in DiskOptions
  /\ size = 0 /\ image = << >> /\ body = << >> /\ known = << >>
  /\ lost = FALSE
  /\ changes = 0
  /\ backedUp = "none"

BackupEnds(error) ==
  /\ bpc' = "done"
  /\ backedUp' = error
  /\ UNCHANGED << source, o, readVars, changes >>

BackupError(fails) ==
  Check(source.relation # "same", "INVALID")
  ?? Check(source.relation # "unknown" /\ source.content # << >>, "IO")
  ?? Check(Len(BlocksOf(source.content)) <= MaxBlocks, "OVERFLOW")
  ?? Check(~ fails, "IO")
  ?? WriteError(o)

\* Up to the encryption header.
BackupOpen ==
  /\ bpc = "open"
  /\ \E fails \in MayFail :
       IF BackupError(fails) # "OK" THEN BackupEnds(BackupError(fails))
       ELSE /\ bpc' = "read"
            /\ size' = Len(source.content)
            /\ body' = Opening(o)
            /\ UNCHANGED << source, o, image, known, lost, changes, backedUp >>
  /\ UNCHANGED archive

\* Seeded fault: a reference names its own sequence number as the target's.
RefersToItself(data) ==
  RefFrame([data |-> data, seq |-> Len(body) - Base(o)], known[data].offset,
           [known[data] EXCEPT !.seq = Len(body) - Base(o)], o)

ReferTo(data) ==
  RefFrame([data |-> data, seq |-> Len(body) - Base(o)], known[data].offset, known[data], o)

\* A reference that cannot be written ends the loop, data that cannot be
\* written does not.  A full table takes no more blocks.
WriteReference(data, fails) ==
  /\ body' = IF fails THEN body ELSE Append(body, ReferTo(data))
  /\ bpc' = IF fails THEN "finish" ELSE "read"
  /\ UNCHANGED known
WriteBlock(data, fails) ==
  LET frame == DataFrame([data |-> data, seq |-> Len(body) - Base(o)], o)
      place == [offset |-> Len(body) + 1, seq |-> Len(body) - Base(o)]
      added == [d \in DOMAIN known \cup {data} |-> IF d = data THEN place ELSE known[d]]
  IN /\ body' = Append(body, [frame EXCEPT !.intact = ~ fails])
     /\ bpc' = "read"
     /\ known' \in {known} \cup (IF o.dedup THEN {added} ELSE {})

ReadBlock ==
  /\ bpc = "read" /\ Len(image) < size
  /\ LET wanted == IF size - Len(image) < BlockSize THEN size - Len(image) ELSE BlockSize
         data == SubSeq(source.content, Len(image) + 1,
                        IF Len(image) + wanted < Len(source.content) THEN Len(image) + wanted
                        ELSE Len(source.content))
     IN \/ /\ Len(data) < wanted \/ Faults
           /\ lost' = TRUE /\ bpc' = "finish"
           /\ UNCHANGED << image, body, known >>
        \/ /\ Len(data) = wanted
           /\ \E fails \in MayFail :
                /\ lost' = (lost \/ fails)
                /\ IF data \in DOMAIN known THEN WriteReference(data, fails)
                   ELSE WriteBlock(data, fails)
           /\ image' = image \o data
  /\ UNCHANGED << source, o, size, changes, archive, backedUp >>

\* No memory for the payload of a sealed block.
EncryptFails ==
  /\ bpc = "read" /\ Encrypts(o) /\ Faults
  /\ BackupEnds("NOMEM")
  /\ UNCHANGED archive

\* The size of the source is measured once more.
Complete == ~ lost /\ Len(source.content) = size /\ Len(image) = size

\* Index, footer and trailer; the archive takes its name when all is well.
Finish ==
  /\ bpc = "finish" \/ (bpc = "read" /\ Len(image) = size)
  /\ \E fails \in MayFail :
       IF Complete /\ ~ fails
       THEN /\ archive' = Closed(body, << [path |-> Label(source.name), content |-> image] >>, o)
            /\ BackupEnds("OK")
       ELSE archive' = archive /\ BackupEnds("IO")

\* Another process writes to the source, which may grow or shrink.
SourceChanges ==
  /\ bpc \in {"read", "finish"} /\ changes < MaxChanges
  /\ \E content \in Changed : source' = [source EXCEPT !.content = content]
  /\ changes' = changes + 1
  /\ UNCHANGED << bpc, o, readVars, archive, backedUp >>

\* The process ends, and its variables with it.
BackupGone ==
  /\ bpc = "done" /\ bpc' = "gone"
  /\ source' = NoSource /\ o' = NoOptions
  /\ size' = 0 /\ image' = << >> /\ body' = << >> /\ known' = << >>
  /\ lost' = FALSE /\ changes' = 0 /\ backedUp' = "none"
  /\ UNCHANGED archive

BackupNext ==
  BackupOpen \/ ReadBlock \/ EncryptFails \/ Finish \/ SourceChanges \/ BackupGone
=============================================================================
