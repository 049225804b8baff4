---------------------------- MODULE DiskRestore -----------------------------
(***************************************************************************)
(* zupt_disk_restore of zupt_disk.c (POSIX): the archive is copied to a      *)
(* private file, the copy is tested to the end, and only then a file or a   *)
(* device is written, block by block.  The archive may be overwritten by    *)
(* another process meanwhile, calls fail, the process may be killed.        *)
(***************************************************************************)
EXTENDS DiskBackup

CONSTANTS
  Targets,       \* [kind, content]: see TargetRefused
  Readers,       \* see ArchiveReader
  Overwrites     \* what another process writes over the archive

VARIABLES
  rpc,          \* "idle", "copy", "verify", "target", "write", "done", "killed"
  reader,
  opened,       \* the archive at its opening, whose length is copied
  snapshot,     \* the private copy, a prefix of it at first
  target,
  before,       \* the target as it was
  chunks,       \* the blocks written: block_seq, total_written, restored_hash,
                \* and what the temporary file beside a regular target holds
  errors,
  overwritten,  \* has another process written over the archive?
  restored      \* the result

restoreVars == << rpc, reader, opened, snapshot, target, before, chunks,
                 errors, overwritten, restored >>
vars == << backupVars, restoreVars >>

NoReader == << >>
NoTarget == [kind |-> "none", content |-> << >>]

RestoreInit ==
  /\ rpc = "idle"
  /\ reader = NoReader
  /\ opened = NoArchive /\ snapshot = NoArchive
  /\ target = NoTarget /\ before = NoTarget
  /\ chunks = << >> /\ errors = FALSE
  /\ overwritten = FALSE
  /\ restored = "none"

RestoreEnds(error) ==
  /\ rpc' = "done"
  /\ restored' = error
  /\ UNCHANGED << reader, opened, snapshot, target, before, chunks, errors >>

Goes(from, to) == rpc = from /\ rpc' = to

-----------------------------------------------------------------------------
OpenArchive ==
  /\ rpc = "idle" /\ bpc = "gone"
  /\ reader' \in Readers
  /\ target' \in Targets /\ before' = target'
  /\ \/ /\ archive # NoArchive
        /\ rpc' = "copy"
        /\ opened' = archive
        /\ snapshot' = [archive EXCEPT !.frames = << >>]
        /\ UNCHANGED restored
     \/ /\ archive = NoArchive \/ Faults
        /\ rpc' = "done" /\ restored' = "IO"
        /\ UNCHANGED << opened, snapshot >>
  /\ UNCHANGED << chunks, errors, overwritten, backupVars >>

\* copy_private_restore_snapshot, a piece at a time: header, frames, and what
\* follows the last one.  The archive may have become shorter.
CopyPiece ==
  /\ rpc = "copy"
  /\ LET next == Len(snapshot.frames) + 1
     IN CASE next <= Len(opened.frames) /\ next <= Len(archive.frames) ->
               /\ snapshot' = [snapshot EXCEPT !.frames = Append(@, archive.frames[next])]
               /\ UNCHANGED << rpc, reader, opened, target, before, chunks, errors, restored >>
          [] next > Len(opened.frames) /\ next <= Len(archive.frames) + 1 ->
               /\ snapshot' = IF Len(archive.frames) = Len(opened.frames)
                              THEN [archive EXCEPT !.header = snapshot.header, !.frames = snapshot.frames]
                              ELSE [snapshot EXCEPT !.footer.magic = FALSE, !.trailer = NoTrailer]
               /\ rpc' = "verify"
               /\ UNCHANGED << reader, opened, target, before, chunks, errors, restored >>
          [] OTHER -> RestoreEnds("IO")
  /\ UNCHANGED << overwritten, backupVars >>

CopyFails ==
  /\ rpc = "copy" /\ Faults
  /\ RestoreEnds("IO")
  /\ UNCHANGED << overwritten, backupVars >>

\* The names in the index are looked at when it is parsed.
PathsError(a) ==
  Check(\A i \in DOMAIN Entries(a) : ~ HasUnsafeText(Entries(a)[i].path), "CORRUPT")
  ?? Check(OldDisk(a) \/ ValidDestinations([i \in DOMAIN Entries(a) |-> Entries(a)[i].path]), "INVALID")

DiskEntry == Entries(snapshot)[1]
SnapshotKey == KeyOf(snapshot, reader)

DiskError ==
  OpenError(snapshot, reader)
  ?? PathsError(snapshot)
  ?? Check(Len(Entries(snapshot)) = 1 /\ Flag(snapshot, "DISK_IMAGE"), "CORRUPT")
  ?? Check(DiskEntry.count = snapshot.footer.total /\ DiskEntry.offset < snapshot.footer.index,
           "CORRUPT")

\* zupt_test_archive_stream on the copy.
Preflight == TestArchive(snapshot, reader)

Verify ==
  /\ rpc = "verify"
  /\ LET error == DiskError ?? Preflight
     IN IF error # "OK" THEN RestoreEnds(error)
        ELSE /\ rpc' = "target"
             /\ UNCHANGED << reader, opened, snapshot, target, before, chunks, errors, restored >>
  /\ UNCHANGED << overwritten, backupVars >>

-----------------------------------------------------------------------------
(* The target is opened once, without following a link or emptying it, and   *)
(* looked at through the descriptor.                                        *)

IsDevice == target.kind = "device"

Fits == DiskEntry.size <= Len(target.content)

\* Seeded fault: the archive is not told from the target.
ButOtherLinks(kind) ==
  CASE kind = "link" \/ kind = "other" \/ kind = "linked twice" -> "INVALID"
    [] kind = "denied" \/ kind = "unknown device" -> "IO"
    [] kind = "device" -> Check(Fits, "IO")
    [] OTHER -> "OK"

TargetRefused(kind) ==
  CASE kind = "link" \/ kind = "other" -> "INVALID"
    [] kind = "archive" \/ kind = "linked twice" -> "INVALID"
    [] kind = "denied" \/ kind = "unknown device" -> "IO"
    [] kind = "device" -> Check(Fits, "IO")
    [] OTHER -> "OK"        \* "file" and "missing"

OpenTarget ==
  /\ rpc = "target"
  /\ \E fails \in MayFail :
       LET error == TargetRefused(target.kind)
                    ?? Check(~ fails, "IO")
                    ?? AadMapError(snapshot, Entries(snapshot))
       IN IF error # "OK" THEN RestoreEnds(error)
          ELSE /\ rpc' = "write"
               /\ UNCHANGED << reader, opened, snapshot, target, before, chunks, errors, restored >>
  /\ UNCHANGED << overwritten, backupVars >>

\* data over what a device holds from a place on.
Over(content, at, data) ==
  [i \in DOMAIN content |-> IF i \in at + 1 .. at + Len(data) THEN data[i - at] ELSE content[i]]

Flat == FlattenSeq(chunks)

\* A write that fails may have changed part of a device.
WriteTarget(data, fails) ==
  IF IsDevice
  THEN \E n \in (IF fails THEN 0 .. Len(data) - 1 ELSE {Len(data)}) :
         target' = [target EXCEPT !.content = Over(@, Len(Flat), SubSeq(data, 1, n))]
  ELSE UNCHANGED target

\* Seeded fault: the blocks are read from the archive itself.
FromTheArchive(b) == Block(archive, DiskEntry, 1, b, SnapshotKey)

NextBlock(b) == Block(snapshot, DiskEntry, 1, b, SnapshotKey)

\* The blocks are read and checked again; any failure ends the loop.
WriteNext ==
  /\ rpc = "write" /\ ~ errors /\ Len(chunks) < snapshot.footer.total
  /\ LET block == NextBlock(Len(chunks))
         sound == block.error = "OK" /\ Len(Flat) + Len(block.data) <= DiskEntry.size
     IN \/ /\ ~ sound \/ Faults
           /\ errors' = TRUE
           /\ UNCHANGED << target, chunks >>
        \/ /\ sound
           /\ \E fails \in MayFail :
                /\ WriteTarget(block.data, fails)
                /\ errors' = fails
                /\ chunks' = IF fails THEN chunks ELSE Append(chunks, block.data)
  /\ UNCHANGED << rpc, reader, opened, snapshot, before, overwritten, restored, backupVars >>

\* Blocks, size and hash once more; a file takes its name only without an
\* error, and over the archive it would take the archive's place.
Close ==
  /\ rpc = "write" /\ (errors \/ Len(chunks) = snapshot.footer.total)
  /\ \E fails \in MayFail :
       LET failed == \/ errors \/ fails
                     \/ Len(Flat) # DiskEntry.size
                     \/ ~ HashHolds(snapshot, DiskEntry, chunks)
       IN /\ restored' = IF failed THEN "CORRUPT" ELSE "OK"
          /\ target' = IF failed \/ IsDevice THEN target
                       ELSE [kind |-> "file", content |-> Flat]
          /\ archive' = IF target.kind = "archive" /\ ~ failed THEN NoArchive ELSE archive
  /\ rpc' = "done"
  /\ UNCHANGED << reader, opened, snapshot, before, chunks, errors, overwritten,
                  bpc, source, o, readVars, changes, backedUp >>

-----------------------------------------------------------------------------
\* The process is killed; a device keeps what was written to it (O_SYNC).
Kill ==
  /\ Faults /\ Goes("write", "killed")
  /\ UNCHANGED << reader, opened, snapshot, target, before, chunks, errors, overwritten, restored,
                  backupVars >>

\* Another process writes over the archive, in place.
Overwrite ==
  /\ rpc \in {"copy", "verify", "target", "write"} /\ ~ overwritten
  /\ overwritten' = TRUE
  /\ archive' \in Overwrites \ {archive}
  /\ UNCHANGED << rpc, reader, opened, snapshot, target, before, chunks, errors, restored,
                  bpc, source, o, readVars, changes, backedUp >>

RestoreNext ==
  \/ OpenArchive \/ CopyPiece \/ CopyFails \/ Verify \/ OpenTarget \/ WriteNext \/ Close
  \/ Kill \/ Overwrite
=============================================================================
