---------------------------- MODULE ArchiveCalls ----------------------------
(***************************************************************************)
(* One archive is written, suffers at most one damage in storage, and is    *)
(* tested, extracted, listed and inspected by a caller with some secret.    *)
(* What each call says is compared with what was archived.                  *)
(***************************************************************************)
EXTENDS ArchiveReader

CONSTANTS
  FileLists,     \* sequences of [path, content] to archive
  WriteOptions,  \* see ArchiveFormat
  ReadOptions    \* see ArchiveReader

\* A comment is a text that ends in its buffer of MaxComment.
ASSUME CallsAssumption ==
  /\ \A list \in FileLists :
       /\ IsSequence(list)
       /\ \A i \in DOMAIN list :
            /\ list[i] = [path |-> list[i].path, content |-> list[i].content]
            /\ IsSequence(list[i].content)
  /\ \A how \in WriteOptions :
       /\ how.layout \in {"flat", "solid", "disk", "old disk"} /\ how.codec \in Codecs
       /\ IsSequence(how.comment) /\ Len(how.comment) < MaxComment
  /\ \A r \in ReadOptions :
       r.secret = Secret(r.secret.form, r.secret.value) /\ r.quota \in Nat

VARIABLES
  pc,        \* the next call
  files,     \* what is archived
  options,   \* how
  error,     \* what the writer returned
  stored,    \* the file
  damaged,   \* the places of frames damaged, << >> for another damage
  caller,    \* the caller's options
  tested, extracted, listed, info  \* what the calls returned

callsVars == << pc, files, options, error, stored, damaged, caller,
                tested, extracted, listed, info >>
Unwritten == << >>

-----------------------------------------------------------------------------
(* Damage *)

Garbled(data) == [i \in DOMAIN data |-> Garbage]

\* The payload of a reference in the clear is an offset, and another one is
\* as good as garbage gets.
PayloadDamages(a, frame) ==
  IF frame.type = "DEDUP_REF" /\ ~frame.sealed
  THEN {[frame EXCEPT !.pay.data = << offset >>] : offset \in 0 .. EndOfFile(a)}
  ELSE {[frame EXCEPT !.pay.data = Garbled(@), !.pay.seal = NoSeal]}

FrameDamages(a, frame) ==
  PayloadDamages(a, frame)
  \cup {[frame EXCEPT !.intact = FALSE], [frame EXCEPT !.sealed = ~@],
        [frame EXCEPT !.sum = Garbled(@)]}
  \cup {[frame EXCEPT !.type = type] :
          type \in {"DATA", "INDEX", "DEDUP_REF", "COMMENT", "ENC_HEADER"}}
  \cup {[frame EXCEPT !.codec = codec] : codec \in {"STORE", "LZH", "unknown"}}
  \cup {[frame EXCEPT !.size = size] : size \in {0, frame.size - 1, frame.size + 1}}

HeaderDamages(a) ==
  {[a.header EXCEPT !.magic = FALSE], [a.header EXCEPT !.version = FALSE]}
  \cup {[a.header EXCEPT !.flags = SymDiff(@, {flag})] :
          flag \in {"ENCRYPTED", "SOLID", "DEDUP", "DISK_IMAGE", "DISK_CONTENT_HASH",
                    "AUTH_DEDUP_REFS", "AAD_PREFACE", "AAD_SEQ"}}
  \cup {[a.header EXCEPT !.encOffset = offset] : offset \in 0 .. EndOfFile(a) + 1}
  \cup {[a.header EXCEPT !.commentOffset = offset] : offset \in 0 .. EndOfFile(a) + 1}

FooterDamages(a) ==
  {[a.footer EXCEPT !.magic = FALSE], [a.footer EXCEPT !.version = FALSE],
   [a.footer EXCEPT !.total = @ + 1]}
  \cup {[a.footer EXCEPT !.index = offset] : offset \in 0 .. EndOfFile(a) + 1}

TrailerDamages(a) == {NoTrailer, [a.trailer EXCEPT !.over = << Garbage >>]}

Exchanged(a, i, j) ==
  [a EXCEPT !.frames = [@ EXCEPT ![i] = a.frames[j], ![j] = a.frames[i]]]

\* A file cut short ends somewhere in a frame: no footer is found.
Truncated(a) == [a EXCEPT !.footer.magic = FALSE, !.trailer = NoTrailer]

OtherDamages(a) ==
  {[a EXCEPT !.header = header] : header \in HeaderDamages(a)}
  \cup {[a EXCEPT !.footer = footer] : footer \in FooterDamages(a)}
  \cup {[a EXCEPT !.trailer = trailer] : trailer \in TrailerDamages(a)}
  \cup {Truncated(a)}

-----------------------------------------------------------------------------
(* The calls *)

NoList == [error |-> "none", paths |-> << >>, sizes |-> << >>, comment |-> << >>]

CallsInit ==
  /\ pc = "write"
  /\ files \in FileLists
  /\ options \in WriteOptions
  /\ (OnDisk(options) => Len(files) = 1 /\ files[1].content # << >>)
  /\ error = "none"
  /\ stored = Unwritten
  /\ damaged = << >>
  /\ caller \in ReadOptions
  /\ tested = "none"
  /\ extracted = [error |-> "none", files |-> {}]
  /\ listed = NoList
  /\ info = [error |-> "none"]

\* Nothing is published when no key can be set up.
Write ==
  /\ pc = "write"
  /\ error' = WriteError(options)
  /\ IF error' = "OK" THEN stored' = Written(files, options) /\ pc' = "store"
     ELSE stored' = stored /\ pc' = "done"
  /\ UNCHANGED << files, options, damaged, caller, tested, extracted, listed, info >>

DamageFrame ==
  \E i \in DOMAIN stored.frames : \E frame \in FrameDamages(stored, stored.frames[i]) :
    /\ stored' = [stored EXCEPT !.frames[i] = frame]
    /\ damaged' = << i >>
Exchange ==
  \E i, j \in DOMAIN stored.frames :
    /\ i < j
    /\ stored' = Exchanged(stored, i, j)
    /\ damaged' = << i, j >>
Repeat ==
  \E i, j \in DOMAIN stored.frames :
    /\ i # j /\ stored.frames[i] # stored.frames[j]
    /\ stored' = [stored EXCEPT !.frames[i] = stored.frames[j]]
    /\ damaged' = << i >>
DamageOther == stored' \in OtherDamages(stored) /\ damaged' = << >>
Keep == UNCHANGED << stored, damaged >>

Store ==
  /\ pc = "store"
  /\ DamageFrame \/ Exchange \/ Repeat \/ DamageOther \/ Keep
  /\ pc' = "test"
  /\ UNCHANGED << files, options, error, caller, tested, extracted, listed, info >>

Test ==
  /\ pc = "test"
  /\ tested' = TestArchive(stored, caller)
  /\ pc' = "extract"
  /\ UNCHANGED << files, options, error, stored, damaged, caller, extracted, listed, info >>

Extract ==
  /\ pc = "extract"
  /\ extracted' = ExtractArchive(stored, caller)
  /\ pc' = "list"
  /\ UNCHANGED << files, options, error, stored, damaged, caller, tested, listed, info >>

List ==
  /\ pc = "list"
  /\ listed' = ListArchive(stored, caller)
  /\ info' = ArchiveInfo(stored)
  /\ pc' = "done"
  /\ UNCHANGED << files, options, error, stored, damaged, caller, tested, extracted >>

CallsNext == Write \/ Store \/ Test \/ Extract \/ List \/ (pc = "done" /\ UNCHANGED callsVars)

CallsSpec == CallsInit /\ [][CallsNext]_callsVars

-----------------------------------------------------------------------------
(* Properties *)

Called == pc = "done" /\ stored # Unwritten
Current == ~Old(options)
RightSecret == Encrypts(options) => caller.secret = Secret(FormOf(options.kind), options.value)
Archived == {files[i] : i \in DOMAIN files}
SizeOf(list) == Total([i \in DOMAIN list |-> Len(list[i].content)])
TooLargeForReaders == options.layout = "solid" /\ SizeOf(files) > SolidLimit

\* What was written opens completely with the secret it was written for, in
\* every layout and the old one: test and extraction pass, the comment is
\* there, and a quota refuses before the first file.  Without that secret
\* nothing passes and nothing is extracted.  A solid archive beyond what the
\* readers hold in memory, which the writer does not refuse, is not opened.
RightSecretOpens ==
  Called /\ stored = Written(files, options) =>
    IF ~RightSecret THEN tested # "OK" /\ extracted.error # "OK" /\ extracted.files = {}
    ELSE IF TooLargeForReaders THEN tested = "OVERFLOW" /\ extracted.files = {}
    ELSE /\ tested = "OK"
         /\ listed.error = "OK"
         /\ HasComment(options) => listed.comment = options.comment
         /\ IF caller.quota # 0 /\ SizeOf(files) > caller.quota
            THEN extracted = [error |-> "OVERFLOW", files |-> {}]
            ELSE extracted = [error |-> "OK", files |-> Archived]

\* Whatever happened to the archive and whatever secret is used, a file that
\* extraction leaves behind is one that was archived, with its content, and
\* an archive that passes the test or a complete extraction holds them all.
\* Disk archives of old releases hold no hash and are left out.
OnlyArchivedIsExtracted ==
  Called /\ Current =>
    /\ extracted.files \subseteq Archived
    /\ extracted.error = "OK" => extracted.files = Archived
    /\ tested = "OK" => RightSecret

\* Without a quota, test says OK exactly when extraction does.
TestAgreesWithExtract ==
  Called /\ caller.quota = 0 => (tested = "OK" <=> extracted.error = "OK")

\* What list shows is what was archived, comment included, and the figures of
\* info, which verifies nothing, are right when list accepts the archive.
ListingIsArchived ==
  Called /\ listed.error = "OK" =>
    /\ listed.paths = [i \in DOMAIN files |-> files[i].path]
    /\ listed.sizes = [i \in DOMAIN files |-> Len(files[i].content)]
    /\ listed.comment = (IF HasComment(options) THEN options.comment ELSE << >>)
    /\ info.flags = Flags(options)
    /\ info.blocks = Written(files, options).footer.total
    /\ info.comment = HasComment(options)

\* In a flat archive a damaged block costs the files that hold it, as a block
\* of their own or by reference, and no other.
OwnPlaces(i) == Places(EntryOf(files, i, Base(options), options))
Referred(i) == {Written(files, options).frames[p].pay.data[1] :
                  p \in {q \in OwnPlaces(i) : Written(files, options).frames[q].type = "DEDUP_REF"}}
DamageIsLocal ==
  Called /\ options.layout = "flat" /\ RightSecret /\ caller.quota = 0 /\ damaged # << >>
    /\ Range(damaged) \subseteq UNION {OwnPlaces(i) : i \in DOMAIN files} =>
    \A i \in DOMAIN files :
      Range(damaged) \cap (OwnPlaces(i) \cup Referred(i)) = {} => files[i] \in extracted.files

-----------------------------------------------------------------------------
(* The inductive invariant behind the properties. *)

\* The file as storage may give it back.
OneDamage(a, w) ==
  \/ \E i \in DOMAIN w.frames : \E frame \in FrameDamages(w, w.frames[i]) :
       a = [w EXCEPT !.frames[i] = frame]
  \/ \E i, j \in DOMAIN w.frames :
       a = Exchanged(w, i, j) \/ a = [w EXCEPT !.frames[i] = w.frames[j]]
  \/ a \in OtherDamages(w)
\* The file is as written but for some of its frames.
SameBut(places, a, w) ==
  /\ a = [w EXCEPT !.frames = a.frames]
  /\ DOMAIN a.frames = DOMAIN w.frames
  /\ \A p \in DOMAIN w.frames \ places : a.frames[p] = w.frames[p]
InStorage(a) == a = Written(files, options) \/ OneDamage(a, Written(files, options))

CallsInvariant ==
  /\ files \in FileLists /\ options \in WriteOptions /\ caller \in ReadOptions
  /\ pc \in {"write", "store", "test", "extract", "list", "done"}
  /\ OnDisk(options) => Len(files) = 1
  /\ pc = "write" => stored = Unwritten
  /\ pc \in {"write", "store"} => damaged = << >>
  /\ pc \notin {"write", "done"} \/ Called => WriteError(options) = "OK"
  /\ pc = "store" => stored = Written(files, options)
  /\ pc \in {"test", "extract", "list"} \/ Called => InStorage(stored)
  /\ damaged # << >> => SameBut(Range(damaged), stored, Written(files, options))
  /\ pc \in {"extract", "list"} \/ Called => tested = TestArchive(stored, caller)
  /\ pc = "list" \/ Called => extracted = ExtractArchive(stored, caller)
  /\ Called => listed = ListArchive(stored, caller) /\ info = ArchiveInfo(stored)
=============================================================================
