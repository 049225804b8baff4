----------------------------- MODULE DiskImage ------------------------------
(***************************************************************************)
(* A disk is backed up and the archive restored: DiskBackup, then            *)
(* DiskRestore from whatever the name of the archive shows, the new archive *)
(* or the earlier one.  The properties follow an image all the way.         *)
(***************************************************************************)
EXTENDS DiskRestore

CONSTANT Earlier   \* what the archive's name shows at first

Init ==
  /\ BackupInit
  /\ archive \in Earlier
  /\ RestoreInit

Next ==
  \/ BackupNext /\ UNCHANGED restoreVars
  \/ RestoreNext
  \/ rpc \in {"done", "killed"} /\ UNCHANGED vars

Spec == Init /\ [][Next]_vars

-----------------------------------------------------------------------------
Owner(kind, value) ==
  [secret |-> Secret(FormOf(kind), value), legacy |-> FALSE, quota |-> 0]

\* A backup that returns OK has left an archive that its owner can open, test
\* and restore, with exactly what was read from the source, all of the size
\* measured at the beginning; and that is the source when nobody wrote to it.
BackedUpIsRestorable ==
  backedUp = "OK" =>
    LET owner == Owner(o.kind, o.value)
        all == ExtractArchive(archive, owner)
    IN /\ OpenError(archive, owner) ?? PathsError(archive) = "OK"
       /\ TestArchive(archive, owner) = "OK"
       /\ all.error = "OK"
       /\ {f.content : f \in all.files} = {image}
       /\ Len(image) = size
       /\ changes = 0 => image = source.content

\* The content of an archive with the reader's secret.
ContentWith(a) == {f.content : f \in ExtractArchive(a, reader).files}

\* What the first n units of an image make of a device.
Restoring(content, n) == Over(before.content, 0, SubSeq(content, 1, n))

\* A target is changed only after a copy of the archive passed the test with
\* the reader's secret; a device then shows a prefix of the archived image
\* over what it held, and holds room for all of it, while a file shows its
\* old content or the whole image: torn copies, failures and kills included.
TargetShowsTheImage ==
  target # before =>
    /\ TestArchive(snapshot, reader) = "OK"
    /\ \E content \in ContentWith(snapshot) :
         IF before.kind = "device"
         THEN /\ Len(content) <= Len(before.content)
              /\ \E n \in 0 .. Len(content) : target.content = Restoring(content, n)
         ELSE target = [kind |-> "file", content |-> content]

\* The image comes from one archive: what the name showed when restore opened
\* it, or what another process wrote over it.
ImageIsOfOneArchive ==
  target # before /\ ~ OldDisk(snapshot) =>
    ContentWith(snapshot) \in {ContentWith(a) : a \in {opened} \cup Overwrites}

\* OK means that the target shows the whole image, and a file is untouched
\* after an error; an archive is never lost.
RestoreSaysWhatItDid ==
  /\ restored = "OK" =>
       \E content \in ContentWith(snapshot) :
         target.content = IF IsDevice THEN Restoring(content, Len(content)) ELSE content
  /\ rpc = "done" /\ restored # "OK" /\ ~ IsDevice => target = before
  /\ opened # NoArchive => archive # NoArchive

-----------------------------------------------------------------------------
(* The inductive invariant behind the properties of a restore. *)

\* What a reader may rely on in a file that some writer left, or several.
IsFrame(frame) == frame.size \in Nat /\ IsSequence(frame.pay.data)
IsFooter(f) ==
  /\ f = [magic |-> f.magic, version |-> f.version, index |-> f.index, total |-> f.total]
  /\ f.total \in Nat
IsArchive(a) ==
  /\ a = [header |-> a.header, frames |-> a.frames, footer |-> a.footer, trailer |-> a.trailer]
  /\ IsFooter(a.footer)
  /\ IsSequence(a.frames) /\ \A i \in DOMAIN a.frames : IsFrame(a.frames[i])
  /\ ~ {"SOLID", "DISK_IMAGE"} \subseteq a.header.flags
IsArchiveOrNone(a) == a = NoArchive \/ IsArchive(a)

IsSource(s) ==
  s = [name |-> s.name, relation |-> s.relation, content |-> s.content] /\ IsSequence(s.content)
IsTarget(t) == t = [kind |-> t.kind, content |-> t.content] /\ IsSequence(t.content)

\* No writer makes a solid archive of a disk, no quota is set for a restore, and
\* nothing written over an archive removes it.
ASSUME DiskAssumption ==
  /\ \A how \in DiskOptions : how.layout = "disk" /\ how.codec \in Codecs
  /\ \A s \in Sources : IsSource(s)
  /\ \A content \in Changed : IsSequence(content)
  /\ \A a \in Earlier : IsArchiveOrNone(a)
  /\ \A a \in Overwrites : IsArchive(a)
  /\ \A r \in Readers : r.quota = 0
  /\ \A t \in Targets : IsTarget(t)

TypeOK ==
  /\ bpc \in {"open", "read", "finish", "done", "gone"}
  /\ bpc = "gone" \/ (IsSource(source) /\ o \in DiskOptions)
  /\ size \in Nat /\ IsSequence(image)
  /\ IsSequence(body) /\ \A i \in DOMAIN body : IsFrame(body[i])
  /\ bpc \in {"read", "finish"} => Len(body) >= Base(o)
  /\ rpc \in {"idle", "copy", "verify", "target", "write", "done", "killed"}
  /\ rpc # "idle" => bpc = "gone" /\ reader \in Readers
  /\ IsArchiveOrNone(archive) /\ IsArchiveOrNone(opened) /\ IsArchiveOrNone(snapshot)
  /\ IsTarget(target) /\ IsTarget(before)
  /\ Len(chunks) \in Nat
  /\ errors \in BOOLEAN

\* The copy opens, is that of a disk, and passed the test.
Passed == DiskError = "OK" /\ Preflight = "OK"

\* The blocks of a disk, and the image they make.
Chunks(a, r) ==
  [b \in 1 .. a.footer.total |-> Block(a, Entries(a)[1], 1, b - 1, KeyOf(a, r)).data]
Whole(a, r) == FlattenSeq(Chunks(a, r))

\* What is done, and what was found, before a step is reached.
ControlInvariant ==
  /\ rpc = "idle" => opened = NoArchive
  /\ rpc \in {"copy", "verify", "target", "write"} => opened # NoArchive /\ snapshot # NoArchive
  /\ rpc \in {"idle", "copy", "verify", "target", "write"} => restored = "none"
  /\ rpc \in {"idle", "copy", "verify", "target"} => target = before /\ chunks = << >> /\ ~ errors
  /\ rpc \in {"target", "write"} => Passed
  /\ rpc = "write" => TargetRefused(target.kind) = "OK"
  /\ opened # NoArchive => archive # NoArchive

\* The blocks written are the first ones of the image, and a device shows as much
\* of it, or a little more when a write has failed.
WriteInvariant ==
  rpc = "write" =>
    /\ Len(chunks) <= snapshot.footer.total
    /\ chunks = SubSeq(Chunks(snapshot, reader), 1, Len(chunks))
    /\ IF IsDevice
       THEN /\ before.kind = "device"
            /\ DiskEntry.size <= Len(before.content)
            /\ \E n \in Len(Flat) .. DiskEntry.size :
                 /\ target.content = Restoring(Whole(snapshot, reader), n)
                 /\ ~ errors => n = Len(Flat)
       ELSE target = before

RestoreInvariant ==
  /\ TypeOK
  /\ ControlInvariant
  /\ WriteInvariant
  /\ TargetShowsTheImage
  /\ RestoreSaysWhatItDid
-----------------------------------------------------------------------------
(* The inductive invariant behind what a backup leaves. *)

\* The name a backup gives to a disk is one its readers accept: disk_archive_label
\* lets names pass that are no text.
NameIsAccepted(name) == ~ HasUnsafeText(name) /\ ValidDestinations(<< name >>)
LabelsAreAccepted == \A s \in Sources : NameIsAccepted(Label(s.name))

\* The blocks read so far, numbered through.
Piece(content, k) == [data |-> BlocksOf(content)[k], seq |-> k - 1]

\* The frames of an image: data, or a reference back to the data of an equal block.
HoldsData(frames, content, how, k) ==
  frames[Base(how) + k] = DataFrame(Piece(content, k), how)
HoldsReference(frames, content, how, k) ==
  References(how) /\ \E j \in 1 .. k - 1 :
    /\ BlocksOf(content)[j] = BlocksOf(content)[k]
    /\ HoldsData(frames, content, how, j)
    /\ frames[Base(how) + k] = RefFrame(Piece(content, k), Base(how) + j, Piece(content, j), how)
HoldsImage(frames, content, how) ==
  /\ Encrypts(how) => frames[1] = EncFrame(how)
  /\ Len(frames) = Base(how) + Len(BlocksOf(content))
  /\ \A k \in 1 .. Len(BlocksOf(content)) :
       HoldsData(frames, content, how, k) \/ HoldsReference(frames, content, how, k)
  /\ FlattenSeq(BlocksOf(content)) = content

\* The table points to data of the blocks it knows.
TableInvariant ==
  \A data \in DOMAIN known :
    /\ o.dedup
    /\ \E j \in 1 .. Len(BlocksOf(image)) :
         /\ known[data] = [offset |-> Base(o) + j, seq |-> j - 1]
         /\ BlocksOf(image)[j] = data /\ HoldsData(body, image, o, j)

\* While nothing is lost the frames hold what was read, whole blocks until the end
\* of the source, and that is the source when nobody wrote to it.
BackupInvariant ==
  /\ changes \in Nat
  /\ bpc # "gone" => \E s \in Sources : source.name = s.name
  /\ bpc \in {"open", "read", "finish"} => backedUp = "none"
  /\ bpc = "open" => known = << >> /\ image = << >> /\ body = << >> /\ changes = 0
  /\ bpc \in {"read", "finish"} =>
       /\ o.kind \in NativeKinds \cup {"none"}
       /\ Len(image) <= size
       /\ changes = 0 => Len(source.content) = size
       /\ ~ lost =>
            /\ HoldsImage(body, image, o) /\ TableInvariant
            /\ Len(image) = Len(BlocksOf(image)) * BlockSize \/ Len(image) = size
            /\ changes = 0 => image = SubSeq(source.content, 1, Len(image))
  /\ bpc = "gone" => backedUp = "none"

DiskInvariant == RestoreInvariant /\ BackupInvariant /\ BackedUpIsRestorable

-----------------------------------------------------------------------------
(* The inductive invariant behind the one archive that an image comes from. *)

\* An archive as this program writes it: the index is the last frame, the trailer
\* binds header and footer, and the frames of a disk are those of its image.
ImageIn(a) == FlattenSeq(Entries(a)[1].hash)
FramesIn(a) == SubSeq(a.frames, 1, Len(a.frames) - 1)
HoldsDisk(a, how) ==
  /\ how.kind \in NativeKinds \cup {"none"}
  /\ IsSequence(ImageIn(a)) /\ HoldsImage(FramesIn(a), ImageIn(a), how)
  /\ a = Closed(FramesIn(a), << [path |-> Entries(a)[1].path, content |-> ImageIn(a)] >>, how)
IsWritten(a) ==
  /\ a.header = [magic |-> a.header.magic, version |-> a.header.version, flags |-> a.header.flags,
                 encOffset |-> a.header.encOffset, commentOffset |-> a.header.commentOffset]
  /\ a.footer.index = Len(a.frames) /\ Len(a.frames) > 0
  /\ a.trailer = TrailerOf(a.header, a.footer, a.trailer.key)
  /\ Flag(a, "DISK_CONTENT_HASH") => \E how \in DiskOptions : HoldsDisk(a, how)

\* What lies where the archive will be, and what others write there, are archives.
ArchivesAreWritten == \A a \in (Earlier \cup Overwrites) \ {NoArchive} : IsWritten(a)

\* Frame i of the private copy is one of b (only frames of one type are compared).
FrameOf(b, i) ==
  /\ i \in DOMAIN b.frames /\ snapshot.frames[i].type = b.frames[i].type
  /\ snapshot.frames[i] = b.frames[i]
Mixed(b) == \A i \in DOMAIN snapshot.frames : FrameOf(opened, i) \/ FrameOf(b, i)

\* The private copy holds frames of the archive that was opened and of the one written
\* over it, as many as both have, and ends as the one or the other does.
SnapshotInvariant ==
  /\ archive # NoArchive => IsWritten(archive)
  /\ opened # NoArchive => IsWritten(opened) /\ snapshot.header = opened.header
  /\ rpc \in {"copy", "verify", "target", "write"} =>
       archive = opened \/ (overwritten /\ archive \in Overwrites)
  /\ rpc = "copy" => Mixed(archive)
  /\ rpc \in {"verify", "target", "write"} /\ snapshot.footer.magic =>
       \E b \in {opened} \cup Overwrites :
         /\ Mixed(b) /\ snapshot.footer = b.footer /\ snapshot.trailer = b.trailer
         /\ Len(snapshot.frames) = Len(b.frames) /\ Len(opened.frames) = Len(b.frames)
=============================================================================
