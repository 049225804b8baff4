------------------------------ MODULE SdkCalls ------------------------------
(***************************************************************************)
(* The public calls of zuptsdk.c that read and write archives.  Each stages *)
(* its data in private temporary files, copies the caller's secrets into    *)
(* options of its own, runs the engine and takes the result back.  What the *)
(* engine promises is in ParCompress, ParExtract and AtomicOutput; here it  *)
(* is an outcome.  One thread calls, one call after the other.              *)
(***************************************************************************)
EXTENDS Naturals, FiniteSets

CONSTANTS
  Names,        \* what an entry may be called
  Hidden,       \* those that begin with a dot
  Nested,       \* those that begin with a directory
  Contents,     \* what a file may hold
  Passwords,    \* passwords that fit into the options
  Keys,         \* key pairs whose paths fit into the options
  MaxCalls,     \* bound: number of calls
  FailureSets   \* what may fail in a behaviour, see failing

None == "none"
TooLong == "too long"   \* a password or path that the options cannot take
Cut == "cut"            \* a file that lost its end
NoBytes == "no bytes"   \* what is read from a directory on some file systems

ASSUME SdkCallsConstants ==
  /\ Hidden \subseteq Names
  /\ Nested \subseteq Names
  /\ {None, TooLong, Cut, NoBytes} \cap (Contents \cup Passwords \cup Keys) = {}
  /\ Passwords \cap Keys = {}
  /\ MaxCalls \in Nat
  /\ FailureSets \subseteq SUBSET {"io", "close"}

VARIABLES
  failing,    \* "io": calls whose result is used; "close": fclose, unnoticed
  calls,      \* how many calls were made
  call,       \* the last call: its name and its arguments
  at,         \* where it is, "idle" when it has returned
  password,   \* is there a password in zopts?
  temps,      \* its temporary files and directory that exist
  lost,       \* has it lost data without noticing?
  arc,        \* the archive in its temporary file
  dir,        \* the files in the directory it extracts to
  rc,         \* what it returned
  data,       \* the buffer it gave back, or what the write callback was given
  archives    \* the archives the caller holds

vars == << failing, calls, call, at, password, temps, lost, arc, dir, rc, data, archives >>

NoFiles == [n \in {} |-> Cut]

\* The ghost fields given and lost say what the caller meant to store, and that
\* the call which made the archive lost data without noticing.
NoArchive == [files |-> NoFiles, lock |-> None, whole |-> FALSE, given |-> NoFiles, lost |-> FALSE]

NoCall == [op |-> None, files |-> NoFiles, archive |-> NoArchive, password |-> None, key |-> None]

FilesOver(S, C) == UNION {[T -> C] : T \in SUBSET S}

Archives == [files : FilesOver(Names, Contents \cup {Cut}), lock : {None} \cup Passwords \cup Keys,
             whole : BOOLEAN, given : FilesOver(Names, Contents), lost : BOOLEAN]

CompressOps == {"compress_files", "compress_buffer", "compress_stream"}
ExtractOps == {"extract_to_dir", "extract_buffer", "decompress_stream"}
ReadOps == ExtractOps \cup {"verify"}
DiskOps == {"disk_backup", "disk_restore"}
ToBuffer == call.op \in {"extract_buffer", "decompress_stream"}

FirstStep == [compress_files |-> "password", compress_buffer |-> "stage", compress_stream |-> "drain",
              extract_to_dir |-> "stage", extract_buffer |-> "mkdir", decompress_stream |-> "drain",
              verify |-> "stage", disk_backup |-> "password", disk_restore |-> "password"]

Steps == {"idle", "drain", "slurp", "mkdir", "stage", "password", "key", "engine", "readback", "output"}

Init ==
  /\ failing \in FailureSets
  /\ calls = 0
  /\ call = NoCall
  /\ at = "idle"
  /\ password = FALSE
  /\ temps = {}
  /\ lost = FALSE
  /\ arc = NoArchive
  /\ dir = NoFiles
  /\ rc = "OK"
  /\ data = None
  /\ archives = {}

IoFails == "io" \in failing
CloseLoses == IF "close" \in failing THEN BOOLEAN ELSE {FALSE}

\* zsdk_map_zupt_error, for the errors the engine's outcomes have
zsdk_map_zupt_error ==
  [OK |-> "OK", IO |-> "IO", CORRUPT |-> "BAD_ARCHIVE", BAD_MAGIC |-> "BAD_ARCHIVE",
   BAD_CHECKSUM |-> "BAD_CHECKSUM", NOMEM |-> "NO_MEMORY", INVALID |-> "INVALID_ARG",
   AUTH_FAIL |-> "BAD_PASSWORD"]

Codes == {zsdk_map_zupt_error[e] : e \in DOMAIN zsdk_map_zupt_error}

-----------------------------------------------------------------------------
(* How a call ends *)

\* rmdir removes the directory of extract_buffer only when it is empty.
Rmdir(files) == IF files = NoFiles THEN {"x"} ELSE {}

\* The staged files are unlinked, and extract_buffer tries to remove the
\* directory it made.
ReturnsError(code, files) ==
  /\ at' = "idle"
  /\ rc' = code
  /\ temps' = temps \ ({"in", "arc"} \cup Rmdir(files))
  /\ data' = None

ReturnsOk ==
  /\ at' = "idle"
  /\ rc' = "OK"

-----------------------------------------------------------------------------
(* The steps *)

\* A call of the caller.  Its files are named by compress_files' base names,
\* or by the one logical name; an archive is one that the library made.
Begin ==
  /\ at = "idle"
  /\ calls < MaxCalls
  /\ calls' = calls + 1
  /\ \E op \in DOMAIN FirstStep,
        pw \in Passwords \cup {None, TooLong}, k \in Keys \cup {None, TooLong} :
       /\ at' = FirstStep[op]
       /\ \/ /\ op \in CompressOps
             /\ \E files \in FilesOver(IF op = "compress_files" THEN Names \ Nested ELSE Names, Contents) :
                  /\ IF op = "compress_files" THEN files # NoFiles
                                              ELSE Cardinality(DOMAIN files) = 1
                  /\ call' = [NoCall EXCEPT !.op = op, !.files = files, !.password = pw, !.key = k]
          \/ /\ op \in ReadOps
             /\ \E a \in archives :
                  call' = [NoCall EXCEPT !.op = op, !.archive = a, !.password = pw, !.key = k]
          \/ /\ op \in DiskOps
             /\ call' = [NoCall EXCEPT !.op = op, !.password = pw, !.key = k]
  /\ temps' = {}
  /\ lost' = FALSE
  /\ arc' = NoArchive
  /\ dir' = NoFiles
  /\ data' = None
  /\ UNCHANGED << failing, password, rc, archives >>

\* zsdk_drain_to_file: the stream callbacks' input goes to a temporary file.
\* That the buffered end of it reaches the file is not checked.
Drain ==
  /\ at = "drain"
  /\ \/ /\ IoFails
        /\ ReturnsError("IO", dir)
        /\ UNCHANGED lost
     \/ /\ lost' \in CloseLoses
        /\ IF call.op = "compress_stream"
             THEN temps' = temps \cup {"in"} /\ at' = "password"
             ELSE temps' = temps \cup {"arc"} /\ at' = "slurp"
        /\ UNCHANGED << rc, data >>
  /\ UNCHANGED << failing, calls, call, password, arc, dir, archives >>

\* decompress_stream reads its temporary file back; an empty one is an error.
SlurpInput ==
  /\ at = "slurp" /\ call.op = "decompress_stream"
  /\ \/ /\ IoFails
        /\ \E code \in {"IO", "NO_MEMORY"} : ReturnsError(code, dir)
     \/ /\ lost
        /\ ReturnsError("IO", dir)
     \/ /\ at' = "mkdir"
        /\ temps' = temps \ {"arc"}
        /\ UNCHANGED << rc, data >>
  /\ UNCHANGED << failing, calls, call, password, lost, arc, dir, archives >>

MakeDirectory ==
  /\ at = "mkdir"
  /\ \/ /\ IoFails
        /\ ReturnsError("IO", dir)
     \/ /\ temps' = temps \cup {"x"}
        /\ at' = "stage"
        /\ UNCHANGED << rc, data >>
  /\ UNCHANGED << failing, calls, call, password, lost, arc, dir, archives >>

\* The buffer of compress_buffer, or the archive, goes to a temporary file.
\* fwrite is checked, fclose is not.
Stage ==
  /\ at = "stage"
  /\ \/ /\ IoFails
        /\ ReturnsError("IO", dir)
        /\ UNCHANGED lost
     \/ /\ \E cut \in CloseLoses : lost' = (lost \/ cut)
        /\ temps' = temps \cup {IF call.op \in CompressOps THEN "in" ELSE "arc"}
        /\ at' = "password"
        /\ UNCHANGED << rc, data >>
  /\ UNCHANGED << failing, calls, call, password, arc, dir, archives >>

zsdk_apply_password ==
  /\ at = "password"
  /\ IF call.password = TooLong
       THEN ReturnsError("INVALID_ARG", dir) /\ UNCHANGED password
       ELSE /\ at' = "key"
            /\ password' = (call.password # None)
            /\ UNCHANGED << temps, rc, data >>
  /\ UNCHANGED << failing, calls, call, lost, arc, dir, archives >>

\* Seeded fault: the password stays when the key is refused.
KeepsPasswordOnError ==
  /\ at = "key"
  /\ IF call.key = TooLong
       THEN ReturnsError("INVALID_ARG", dir) /\ UNCHANGED password
       ELSE at' = "engine" /\ UNCHANGED << password, temps, rc, data >>
  /\ UNCHANGED << failing, calls, call, lost, arc, dir, archives >>

\* zsdk_apply_pubkey and zsdk_apply_privkey.  compress_files allocates its path
\* arrays afterwards.
zsdk_apply_key ==
  /\ at = "key"
  /\ \/ /\ call.key = TooLong
        /\ ReturnsError("INVALID_ARG", dir)
        /\ password' = FALSE
     \/ /\ IoFails /\ call.op = "compress_files" /\ call.key # TooLong
        /\ ReturnsError("NO_MEMORY", dir)
        /\ password' = FALSE
     \/ /\ call.key # TooLong
        /\ at' = "engine"
        /\ UNCHANGED << password, temps, rc, data >>
  /\ UNCHANGED << failing, calls, call, lost, arc, dir, archives >>

-----------------------------------------------------------------------------
(* The engine, and what follows it *)

\* A recipient's key goes before a password.
Lock == IF call.key # None THEN call.key ELSE call.password

\* The engine publishes a whole archive or fails (AtomicOutput).  The password
\* is wiped and the staged input unlinked either way.
EngineCompresses ==
  /\ at = "engine" /\ call.op \in CompressOps
  /\ password' = FALSE
  /\ \/ /\ IoFails
        /\ \E e \in {"IO", "NOMEM", "AUTH_FAIL"} : ReturnsError(zsdk_map_zupt_error[e], dir)
        /\ UNCHANGED arc
     \/ /\ arc' = [files |-> [n \in DOMAIN call.files |-> IF lost THEN Cut ELSE call.files[n]],
                   lock |-> Lock, whole |-> TRUE, given |-> call.files, lost |-> lost]
        /\ temps' = (temps \ {"in"}) \cup {"arc"}
        /\ at' = IF call.op = "compress_stream" THEN "output" ELSE "slurp"
        /\ UNCHANGED << rc, data >>
  /\ UNCHANGED << failing, calls, call, lost, dir, archives >>

\* compress_files and compress_buffer read the archive into memory.
SlurpArchive ==
  /\ at = "slurp" /\ call.op \in CompressOps
  /\ \/ /\ IoFails
        /\ \E code \in {"IO", "NO_MEMORY"} : ReturnsError(code, dir)
        /\ UNCHANGED archives
     \/ /\ ReturnsOk
        /\ temps' = temps \ {"arc"}
        /\ archives' = archives \cup {arc}
        /\ UNCHANGED data
  /\ UNCHANGED << failing, calls, call, password, lost, arc, dir >>

\* zsdk_pump_from_file takes a failed fread for the end of the file.
PumpArchive ==
  /\ at = "output" /\ call.op = "compress_stream"
  /\ \/ /\ IoFails
        /\ ReturnsError("IO", dir)
        /\ UNCHANGED archives
     \/ /\ ReturnsOk
        /\ temps' = temps \ {"arc"}
        /\ \E cut \in IF IoFails THEN BOOLEAN ELSE {FALSE} :
             archives' = archives \cup
               {[arc EXCEPT !.whole = @ /\ ~cut, !.lost = @ \/ cut]}
        /\ UNCHANGED data
  /\ UNCHANGED << failing, calls, call, password, lost, arc, dir >>

Opens == call.archive.lock \in {None, call.password, call.key}

\* What the engine may return, and the entries that are in the directory then.
\* An entry that fails does not stop the others, and the call reports CORRUPT
\* whatever it failed of; a published file may be among the failed ones.  A
\* nested entry may have left no more than its directory.
Outcomes ==
  LET fails(errors) == errors \X {NoFiles}
      parts == {[n \in S |-> call.archive.files[n]] : S \in SUBSET DOMAIN call.archive.files}
  IN (IF IoFails THEN fails({"IO", "NOMEM", "CORRUPT", "BAD_CHECKSUM"}) ELSE {})
     \cup
     (IF call.op \in DiskOps THEN fails({"OK", "AUTH_FAIL", "CORRUPT", "INVALID"})
      ELSE IF lost \/ ~call.archive.whole THEN fails({"IO", "CORRUPT", "BAD_MAGIC", "AUTH_FAIL"})
      ELSE IF ~Opens THEN fails({"AUTH_FAIL"})
      ELSE IF call.op = "verify" THEN fails({"OK"})
      ELSE {<< "OK", call.archive.files >>} \cup IF IoFails THEN {"CORRUPT"} \X parts ELSE {})

\* Seeded fault: what the engine returned is not looked at.
DropsEngineError ==
  /\ at = "engine" /\ call.op \in ReadOps \cup DiskOps
  /\ password' = FALSE
  /\ \E o \in Outcomes : dir' = o[2]
  /\ temps' = temps \ {"arc"}
  /\ IF ToBuffer THEN at' = "readback" /\ UNCHANGED rc ELSE ReturnsOk
  /\ UNCHANGED << failing, calls, call, lost, arc, data, archives >>

\* Extraction, verification, and the disk calls, which stage nothing.
EngineReads ==
  /\ at = "engine" /\ call.op \in ReadOps \cup DiskOps
  /\ password' = FALSE
  /\ \E o \in Outcomes :
       /\ dir' = o[2]
       /\ \/ /\ o[1] # "OK"
             /\ ReturnsError(zsdk_map_zupt_error[o[1]], o[2])
          \/ /\ o[1] = "OK"
             /\ temps' = temps \ {"arc"}
             /\ IF ToBuffer THEN at' = "readback" /\ UNCHANGED rc ELSE ReturnsOk
             /\ UNCHANGED data
  /\ UNCHANGED << failing, calls, call, lost, arc, archives >>

\* extract_buffer looks for a name that does not begin with a dot.
NothingExtracted ==
  /\ at = "readback"
  /\ IoFails \/ DOMAIN dir \subseteq Hidden
  /\ ReturnsError("BAD_ARCHIVE", dir)
  /\ UNCHANGED << failing, calls, call, password, lost, arc, dir, archives >>

\* It reads what it found and unlinks it.  A directory can be opened, its size
\* is none or too large for memory, and unlink does not remove it.
ReadBack ==
  /\ at = "readback"
  /\ \E n \in DOMAIN dir \ Hidden :
       /\ dir' = [m \in DOMAIN dir \ ({n} \ Nested) |-> dir[m]]
       /\ \/ /\ IoFails \/ n \in Nested
             /\ \E code \in {"IO", "NO_MEMORY"} : ReturnsError(code, dir')
          \/ /\ data' = IF n \in Nested THEN NoBytes ELSE dir[n]
             /\ temps' = temps \ Rmdir(dir')
             /\ IF call.op = "decompress_stream" THEN at' = "output" /\ UNCHANGED rc ELSE ReturnsOk
  /\ UNCHANGED << failing, calls, call, password, lost, arc, archives >>

\* The write callback of decompress_stream takes all of it, or too little.
Output ==
  /\ at = "output" /\ call.op = "decompress_stream"
  /\ \/ IoFails /\ ReturnsError("IO", dir)
     \/ ReturnsOk /\ UNCHANGED << temps, data >>
  /\ UNCHANGED << failing, calls, call, password, lost, arc, dir, archives >>

\* The caller makes no more calls.
Done ==
  /\ at = "idle" /\ calls = MaxCalls
  /\ UNCHANGED vars

Next ==
  \/ Begin \/ Drain \/ SlurpInput \/ MakeDirectory \/ Stage
  \/ zsdk_apply_password \/ zsdk_apply_key
  \/ EngineCompresses \/ SlurpArchive \/ PumpArchive
  \/ EngineReads \/ NothingExtracted \/ ReadBack \/ Output
  \/ Done

Spec == Init /\ [][Next]_vars

-----------------------------------------------------------------------------
(* Properties *)

SinglePlainFile ==
  \E n \in Names \ (Hidden \cup Nested) : DOMAIN call.archive.files = {n}

\* The types of the state, and that the options take no secret that is too long.
TypeOK ==
  /\ failing \in FailureSets
  /\ calls \in 0 .. MaxCalls
  /\ call \in [op : DOMAIN FirstStep \cup {None}, files : FilesOver(Names, Contents),
               archive : archives \cup {NoArchive},
               password : Passwords \cup {None, TooLong}, key : Keys \cup {None, TooLong}]
  /\ at \in Steps
  /\ at \in {"key", "engine"} => call.password # TooLong
  /\ at = "engine" => call.key # TooLong
  /\ temps \subseteq {"in", "arc", "x"}
  /\ password \in BOOLEAN /\ lost \in BOOLEAN
  /\ arc \in Archives
  /\ dir \in FilesOver(Names, Contents \cup {Cut})
  /\ rc \in Codes
  /\ data \in Contents \cup {None, Cut, NoBytes}
  /\ archives \subseteq Archives

\* Whichever way a call returns, no password is left in its options and no
\* staged data in TMPDIR; the directory of extract_buffer goes too when the one
\* plain file in it was read, and when nothing was extracted.
CallsCleanUp ==
  at = "idle" =>
    /\ ~password
    /\ temps \subseteq {"x"}
    /\ temps = {} \/ (ToBuffer /\ dir # NoFiles /\ (rc # "OK" \/ ~SinglePlainFile))

\* What a call takes out of an archive is what another call was given to put
\* in, byte for byte, if no data was lost unnoticed when the archive was made;
\* and unless something fails it is taken out, with the right secret.
ExtractGivesBack ==
  (at = "idle" /\ call.op \in ReadOps /\ ~call.archive.lost) =>
    /\ (rc = "OK" /\ call.op = "extract_to_dir") => dir = call.archive.given
    /\ (rc = "OK" /\ ToBuffer /\ SinglePlainFile) =>
         \A n \in DOMAIN call.archive.given : data = call.archive.given[n]
    /\ (failing = {} /\ Opens /\ TooLong \notin {call.password, call.key}
          /\ (ToBuffer => SinglePlainFile)) => rc = "OK"

\* What CallsCleanUp rests on: the step a call is at says which temporary files
\* of it can exist.
TempsInvariant ==
  /\ password => at \in {"key", "engine"}
  /\ at = "drain" => call.op \in {"compress_stream", "decompress_stream"}
  /\ at = "stage" => call.op \in ReadOps \cup {"compress_buffer"}
  /\ at \in {"mkdir", "readback"} => ToBuffer
  /\ "in" \in temps => call.op \in CompressOps /\ at \in {"password", "key", "engine"}
  /\ "arc" \in temps =>
       \/ call.op \in CompressOps /\ at \in {"slurp", "output"}
       \/ call.op \in ReadOps /\ at \in {"password", "key", "engine"}
       \/ call.op = "decompress_stream" /\ at = "slurp"
  /\ "x" \in temps =>
       /\ ToBuffer
       /\ at \in {"stage", "password", "key", "engine", "readback", "output", "idle"}
       /\ at \in {"output", "idle"} =>
            dir # NoFiles /\ (~SinglePlainFile \/ (at = "idle" /\ rc # "OK"))

\* And what ExtractGivesBack rests on, from the data of one call to those of a
\* later one.
Faithful(a) == ~a.lost => a.whole /\ a.files = a.given

DataInvariant ==
  /\ failing = {} => ~lost
  /\ \A a \in archives : Faithful(a)
  /\ call.op \in CompressOps /\ at \in {"slurp", "output"} => Faithful(arc)
  /\ call.op \in ReadOps => call.archive \in archives
  /\ at = "readback" => dir = call.archive.files
  /\ at = "output" /\ call.op = "decompress_stream" /\ SinglePlainFile =>
       \A n \in DOMAIN call.archive.files : data = call.archive.files[n]
  /\ ExtractGivesBack

\* extract_buffer extracts "a single-file archive (one created with
\* zuptsdk_compress_buffer) back into a memory buffer" (zuptsdk.h), whatever the
\* logical name was, if nothing fails.
BufferComesBack ==
  (at = "idle" /\ call.op = "extract_buffer" /\ Opens /\ failing = {}
     /\ TooLong \notin {call.password, call.key}
     /\ Cardinality(DOMAIN call.archive.given) = 1) =>
    /\ rc = "OK"
    /\ \A n \in DOMAIN call.archive.given : data = call.archive.given[n]

\* A whole archive is not called damaged because its copy was cut short: "a short
\* write (e.g. ENOSPC) would truncate the archive and be misreported downstream as
\* tampering/corruption instead of I/O" (the comment in zuptsdk_verify).
WriteErrorIsNotBlamedOnArchive ==
  (at = "idle" /\ call.op = "verify" /\ call.archive.whole /\ Opens) =>
    rc \notin {"BAD_ARCHIVE", "BAD_CHECKSUM", "BAD_PASSWORD"}
=============================================================================
