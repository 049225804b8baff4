--------------------------- MODULE SdkCalls_proof ---------------------------
(***************************************************************************)
(* Whatever a caller asks of zuptsdk.c and whatever fails in between, every *)
(* call cleans up behind itself, and what is taken out of an archive is     *)
(* what was put in: for any number of calls, names, contents and secrets.   *)
(***************************************************************************)
EXTENDS SdkCalls, TLAPS

LEMMA FilesOverFacts ==
  ASSUME NEW S, NEW C, NEW f
  PROVE  f \in FilesOver(S, C) <=> f \in [DOMAIN f -> C] /\ DOMAIN f \in SUBSET S
<1>1. ASSUME f \in FilesOver(S, C)
      PROVE  f \in [DOMAIN f -> C] /\ DOMAIN f \in SUBSET S
  <2>1. PICK T \in SUBSET S : f \in [T -> C]
    BY <1>1 DEF FilesOver
  <2>2. DOMAIN f = T
    BY <2>1
  <2>3. QED
    BY <2>1, <2>2
<1>2. ASSUME f \in [DOMAIN f -> C], DOMAIN f \in SUBSET S
      PROVE  f \in FilesOver(S, C)
  BY <1>2 DEF FilesOver
<1>3. QED
  BY <1>1, <1>2

LEMMA NoFilesFacts ==
  /\ DOMAIN NoFiles = {}
  /\ \A S, C : NoFiles \in FilesOver(S, C)
  /\ \A T, C : \A f \in [T -> C] : T = {} => f = NoFiles
<1>1. DOMAIN NoFiles = {}
  BY DEF NoFiles
<1>2. \A S, C : NoFiles \in [{} -> C] /\ {} \in SUBSET S
  BY DEF NoFiles
<1>3. \A S, C : NoFiles \in FilesOver(S, C)
  BY <1>1, <1>2, FilesOverFacts
<1>4. \A T, C : \A f \in [T -> C] : T = {} => f = NoFiles
  BY DEF NoFiles
<1>5. QED
  BY <1>1, <1>3, <1>4

\* The constants that mean something are no contents and no secrets.
LEMMA MarksDiffer ==
  /\ TooLong \notin Passwords \cup Keys \cup {None}
  /\ None \notin Passwords \cup Keys
  BY SdkCallsConstants DEF None, TooLong, Cut, NoBytes

LEMMA CodesFacts ==
  /\ Codes = {"OK", "IO", "BAD_ARCHIVE", "BAD_CHECKSUM", "NO_MEMORY", "INVALID_ARG", "BAD_PASSWORD"}
  /\ \A e \in DOMAIN zsdk_map_zupt_error :
       /\ zsdk_map_zupt_error[e] \in Codes
       /\ e # "OK" => zsdk_map_zupt_error[e] # "OK"
  BY DEF Codes, zsdk_map_zupt_error

LEMMA NoArchiveType == NoArchive \in Archives
  BY NoFilesFacts DEF NoArchive, Archives

\* What the caller holds only grows, and so does what a call may be about.
CallsOver(A) ==
  [op : DOMAIN FirstStep \cup {None}, files : FilesOver(Names, Contents),
   archive : A \cup {NoArchive},
   password : Passwords \cup {None, TooLong}, key : Keys \cup {None, TooLong}]

LEMMA CallsOverMore ==
  ASSUME NEW A, NEW B, A \subseteq B, NEW c \in CallsOver(A)
  PROVE  c \in CallsOver(B)
  BY DEF CallsOver

\* What the engine may return to a call that reads.
LEMMA OutcomeFacts ==
  ASSUME TypeOK, NEW o \in Outcomes
  PROVE  /\ o[1] \in DOMAIN zsdk_map_zupt_error
         /\ o[2] \in FilesOver(Names, Contents \cup {Cut})
         /\ o[1] = "OK" /\ call.op \in ReadOps => ~lost /\ call.archive.whole /\ Opens
         /\ o[1] = "OK" /\ call.op \in ExtractOps => o[2] = call.archive.files
         /\ ~IoFails /\ call.op \in ReadOps /\ ~lost /\ call.archive.whole /\ Opens => o[1] = "OK"
<1> DEFINE parts == {[n \in S |-> call.archive.files[n]] : S \in SUBSET DOMAIN call.archive.files}
<1>1. call.archive \in Archives
  BY NoArchiveType DEF TypeOK
<1>2. call.archive.files \in FilesOver(Names, Contents \cup {Cut})
  BY <1>1 DEF Archives
<1>3. \A f \in parts : f \in FilesOver(Names, Contents \cup {Cut})
  <2> SUFFICES ASSUME NEW S \in SUBSET DOMAIN call.archive.files
               PROVE  [n \in S |-> call.archive.files[n]] \in FilesOver(Names, Contents \cup {Cut})
    OBVIOUS
  <2>1. /\ call.archive.files \in [DOMAIN call.archive.files -> Contents \cup {Cut}]
        /\ DOMAIN call.archive.files \in SUBSET Names
    BY <1>2, FilesOverFacts
  <2>2. [n \in S |-> call.archive.files[n]] \in [S -> Contents \cup {Cut}] /\ S \in SUBSET Names
    BY <2>1
  <2> DEFINE f == [n \in S |-> call.archive.files[n]]
  <2>3. DOMAIN f = S
    OBVIOUS
  <2> HIDE DEF f
  <2>4. f \in FilesOver(Names, Contents \cup {Cut})
    BY <2>2, <2>3, FilesOverFacts DEF f
  <2>5. QED
    BY <2>4 DEF f
<1> DEFINE fails(errors) == errors \X {NoFiles}
<1>4. Outcomes =
        (IF IoFails THEN fails({"IO", "NOMEM", "CORRUPT", "BAD_CHECKSUM"}) ELSE {})
        \cup
        (IF call.op \in DiskOps THEN fails({"OK", "AUTH_FAIL", "CORRUPT", "INVALID"})
         ELSE IF lost \/ ~call.archive.whole THEN fails({"IO", "CORRUPT", "BAD_MAGIC", "AUTH_FAIL"})
         ELSE IF ~Opens THEN fails({"AUTH_FAIL"})
         ELSE IF call.op = "verify" THEN fails({"OK"})
         ELSE {<< "OK", call.archive.files >>} \cup IF IoFails THEN {"CORRUPT"} \X parts ELSE {})
  BY DEF Outcomes
<1>5. \/ IoFails /\ o \in fails({"IO", "NOMEM", "CORRUPT", "BAD_CHECKSUM"})
      \/ call.op \in DiskOps /\ o \in fails({"OK", "AUTH_FAIL", "CORRUPT", "INVALID"})
      \/ (lost \/ ~call.archive.whole) /\ o \in fails({"IO", "CORRUPT", "BAD_MAGIC", "AUTH_FAIL"})
      \/ ~Opens /\ o \in fails({"AUTH_FAIL"})
      \/ call.op = "verify" /\ ~lost /\ call.archive.whole /\ Opens /\ o \in fails({"OK"})
      \/ o = << "OK", call.archive.files >> /\ ~lost /\ call.archive.whole /\ Opens
      \/ IoFails /\ o \in {"CORRUPT"} \X parts
  <2> HIDE DEF parts, fails
  <2>1. QED
    BY <1>4
<1>6. o[1] \in DOMAIN zsdk_map_zupt_error
  <2> HIDE DEF parts
  <2>1. QED
    BY <1>5 DEF zsdk_map_zupt_error
<1>7. o[2] = NoFiles \/ o[2] = call.archive.files \/ o[2] \in parts
  <2> HIDE DEF parts
  <2>1. QED
    BY <1>5
<1>8. o[2] \in FilesOver(Names, Contents \cup {Cut})
  <2> HIDE DEF parts
  <2>1. QED
    BY <1>2, <1>3, <1>7, NoFilesFacts
<1>9. /\ o[1] = "OK" /\ call.op \in ReadOps => ~lost /\ call.archive.whole /\ Opens
      /\ o[1] = "OK" /\ call.op \in ExtractOps => o[2] = call.archive.files
      /\ ~IoFails /\ call.op \in ReadOps /\ ~lost /\ call.archive.whole /\ Opens => o[1] = "OK"
  <2> HIDE DEF parts
  <2>1. QED
    BY <1>5 DEF ReadOps, ExtractOps, DiskOps
<1>10. QED
  BY <1>6, <1>8, <1>9


-----------------------------------------------------------------------------
(* TypeOK *)

LEMMA TypesInitially == Init => TypeOK
<1> SUFFICES ASSUME Init PROVE TypeOK
  OBVIOUS
<1>1. NoCall \in CallsOver(archives)
  BY NoFilesFacts DEF NoCall, CallsOver
<1>2. arc \in Archives /\ dir \in FilesOver(Names, Contents \cup {Cut})
  BY NoFilesFacts, NoArchiveType DEF Init
<1>3. rc \in Codes
  BY CodesFacts DEF Init
<1>4. call \in CallsOver(archives) /\ at = "idle" /\ at \in Steps
  BY <1>1 DEF Init, Steps
<1>5. MaxCalls \in Nat
  BY SdkCallsConstants
<1>6. failing \in FailureSets /\ calls \in 0 .. MaxCalls /\ temps \subseteq {"in", "arc", "x"}
  BY <1>5 DEF Init
<1>7. password \in BOOLEAN /\ lost \in BOOLEAN /\ archives \subseteq Archives
  BY DEF Init
<1>8. data \in Contents \cup {None, Cut, NoBytes}
  BY DEF Init
<1>9. QED
  BY <1>2, <1>3, <1>4, <1>6, <1>7, <1>8 DEF TypeOK, CallsOver

\* The parts of TypeOK that a step of a call can disturb.
LEMMA TypesAfterStep ==
  ASSUME TypeOK, UNCHANGED << failing, calls, call >>, at' \in Steps,
         at' \in {"key", "engine"} => call.password # TooLong,
         at' = "engine" => call.key # TooLong,
         temps' \subseteq {"in", "arc", "x"},
         password' \in BOOLEAN, lost' \in BOOLEAN,
         arc' \in Archives, dir' \in FilesOver(Names, Contents \cup {Cut}),
         rc' \in Codes, data' \in Contents \cup {None, Cut, NoBytes},
         archives \subseteq archives', archives' \subseteq Archives
  PROVE  TypeOK'
<1>1. call \in CallsOver(archives)
  BY DEF TypeOK, CallsOver
<1>2. call' \in CallsOver(archives')
  BY <1>1, CallsOverMore
<1>3. call' \in CallsOver(archives)'
  BY <1>2 DEF CallsOver
<1>4. QED
  BY <1>3 DEF TypeOK, CallsOver

\* An error sets the code, and leaves no staged file.
LEMMA ReturnsErrorTypes ==
  ASSUME TypeOK, NEW code \in Codes, NEW files, ReturnsError(code, files)
  PROVE  /\ at' = "idle" /\ at' \in Steps /\ rc' \in Codes
         /\ temps' \subseteq {"in", "arc", "x"}
         /\ data' \in Contents \cup {None, Cut, NoBytes}
  BY DEF ReturnsError, TypeOK, Steps

LEMMA FirstStepFacts ==
  ASSUME NEW op \in DOMAIN FirstStep
  PROVE  /\ FirstStep[op] \in {"drain", "mkdir", "stage", "password"}
         /\ FirstStep[op] = "drain" => op \in {"compress_stream", "decompress_stream"}
         /\ FirstStep[op] = "mkdir" => op = "extract_buffer"
         /\ FirstStep[op] = "stage" => op \in {"compress_buffer", "extract_to_dir", "verify"}
  BY DEF FirstStep

\* A call to write has files, one to read has an archive that the caller holds.
LEMMA BeginFacts ==
  ASSUME Begin
  PROVE  /\ call'.op \in DOMAIN FirstStep /\ at' = FirstStep[call'.op]
         /\ call'.op \in ReadOps => call'.archive \in archives
         /\ call' \in CallsOver(archives)
<1>1. PICK op \in DOMAIN FirstStep,
           pw \in Passwords \cup {None, TooLong}, k \in Keys \cup {None, TooLong} :
        /\ at' = FirstStep[op]
        /\ \/ /\ op \in CompressOps
              /\ \E files \in FilesOver(IF op = "compress_files" THEN Names \ Nested ELSE Names, Contents) :
                   /\ IF op = "compress_files" THEN files # NoFiles
                                               ELSE Cardinality(DOMAIN files) = 1
                   /\ call' = [NoCall EXCEPT !.op = op, !.files = files, !.password = pw, !.key = k]
           \/ /\ op \in ReadOps
              /\ \E a \in archives :
                   call' = [NoCall EXCEPT !.op = op, !.archive = a, !.password = pw, !.key = k]
           \/ /\ op \in DiskOps
              /\ call' = [NoCall EXCEPT !.op = op, !.password = pw, !.key = k]
  BY DEF Begin
<1>2. NoFiles \in FilesOver(Names, Contents)
  BY NoFilesFacts
<1>3. ASSUME op \in CompressOps,
             NEW files \in FilesOver(IF op = "compress_files" THEN Names \ Nested ELSE Names, Contents),
             call' = [NoCall EXCEPT !.op = op, !.files = files, !.password = pw, !.key = k]
      PROVE  call' \in CallsOver(archives) /\ call'.op = op /\ op \notin ReadOps
  <2>1. files \in [DOMAIN files -> Contents] /\ DOMAIN files \in SUBSET Names
    BY FilesOverFacts
  <2>2. files \in FilesOver(Names, Contents)
    BY <2>1, FilesOverFacts
  <2>3. QED
    BY <1>3, <2>2 DEF CallsOver, NoCall, CompressOps, ReadOps, ExtractOps
<1>4. ASSUME NEW a \in archives,
             call' = [NoCall EXCEPT !.op = op, !.archive = a, !.password = pw, !.key = k]
      PROVE  call' \in CallsOver(archives) /\ call'.op = op /\ call'.archive = a
  BY <1>2, <1>4 DEF CallsOver, NoCall
<1>5. ASSUME op \in DiskOps,
             call' = [NoCall EXCEPT !.op = op, !.password = pw, !.key = k]
      PROVE  call' \in CallsOver(archives) /\ call'.op = op /\ op \notin ReadOps
  BY <1>2, <1>5 DEF CallsOver, NoCall, DiskOps, ReadOps, ExtractOps
<1>6. QED
  BY <1>1, <1>3, <1>4, <1>5

LEMMA BeginTypes ==
  ASSUME TypeOK, Begin
  PROVE  TypeOK'
<1>1. call' \in CallsOver(archives)
  BY BeginFacts
<1>2. at' \in Steps /\ at' \notin {"key", "engine"}
  BY BeginFacts, FirstStepFacts DEF Steps
<1>3. arc' \in Archives /\ dir' \in FilesOver(Names, Contents \cup {Cut})
  BY NoFilesFacts, NoArchiveType DEF Begin
<1>4. calls' \in 0 .. MaxCalls
  <2>1. MaxCalls \in Nat
    BY SdkCallsConstants
  <2>2. calls \in 0 .. MaxCalls /\ calls < MaxCalls /\ calls' = calls + 1
    BY DEF Begin, TypeOK
  <2>3. QED
    BY <2>1, <2>2
<1>5. QED
  BY <1>1, <1>2, <1>3, <1>4 DEF Begin, TypeOK, CallsOver

LEMMA StepTypes ==
  ASSUME TypeOK, [Next]_vars
  PROVE  TypeOK'
<1>0. /\ at \in Steps /\ temps \subseteq {"in", "arc", "x"}
      /\ password \in BOOLEAN /\ lost \in BOOLEAN /\ arc \in Archives
      /\ dir \in FilesOver(Names, Contents \cup {Cut}) /\ rc \in Codes
      /\ data \in Contents \cup {None, Cut, NoBytes} /\ archives \subseteq Archives
      /\ at \in {"key", "engine"} => call.password # TooLong
      /\ at = "engine" => call.key # TooLong
  BY DEF TypeOK
<1>1. CloseLoses \subseteq BOOLEAN
  BY DEF CloseLoses
<1>2. {"IO", "BAD_ARCHIVE", "NO_MEMORY", "INVALID_ARG"} \subseteq Codes /\ "OK" \in Codes
  BY CodesFacts
<1>3. CASE Drain
  <2>1. CASE ReturnsError("IO", dir) /\ UNCHANGED lost
    BY <1>0, <1>2, <1>3, <2>1, ReturnsErrorTypes, TypesAfterStep DEF Drain
  <2>2. CASE /\ lost' \in CloseLoses
             /\ IF call.op = "compress_stream"
                  THEN temps' = temps \cup {"in"} /\ at' = "password"
                  ELSE temps' = temps \cup {"arc"} /\ at' = "slurp"
             /\ UNCHANGED << rc, data >>
    <3>1. lost' \in BOOLEAN /\ temps' \subseteq {"in", "arc", "x"} /\ at' \in Steps
          /\ at' \notin {"key", "engine"}
      BY <1>0, <1>1, <2>2 DEF Steps
    <3>2. QED
      BY <1>0, <1>3, <2>2, <3>1, TypesAfterStep DEF Drain
  <2>3. QED
    BY <1>3, <2>1, <2>2 DEF Drain
<1>4. CASE SlurpInput
  <2>1. CASE \E code \in {"IO", "NO_MEMORY"} : ReturnsError(code, dir)
    <3>1. PICK code \in Codes : ReturnsError(code, dir)
      BY <1>2, <2>1
    <3>2. QED
      BY <1>0, <1>4, <3>1, ReturnsErrorTypes, TypesAfterStep DEF SlurpInput
  <2>2. CASE at' = "mkdir" /\ temps' = temps \ {"arc"} /\ UNCHANGED << rc, data >>
    <3>1. at' \in Steps /\ temps' \subseteq {"in", "arc", "x"}
      BY <1>0, <2>2 DEF Steps
    <3>2. QED
      BY <1>0, <1>4, <2>2, <3>1, TypesAfterStep DEF SlurpInput
  <2>3. QED
    BY <1>4, <2>1, <2>2 DEF SlurpInput
<1>5. CASE MakeDirectory
  <2>1. CASE ReturnsError("IO", dir)
    BY <1>0, <1>2, <1>5, <2>1, ReturnsErrorTypes, TypesAfterStep DEF MakeDirectory
  <2>2. CASE at' = "stage" /\ temps' = temps \cup {"x"} /\ UNCHANGED << rc, data >>
    <3>1. at' \in Steps /\ temps' \subseteq {"in", "arc", "x"}
      BY <1>0, <2>2 DEF Steps
    <3>2. QED
      BY <1>0, <1>5, <2>2, <3>1, TypesAfterStep DEF MakeDirectory
  <2>3. QED
    BY <1>5, <2>1, <2>2 DEF MakeDirectory
<1>6. CASE Stage
  <2>1. CASE ReturnsError("IO", dir) /\ UNCHANGED lost
    BY <1>0, <1>2, <1>6, <2>1, ReturnsErrorTypes, TypesAfterStep DEF Stage
  <2>2. CASE /\ \E cut \in CloseLoses : lost' = (lost \/ cut)
             /\ temps' = temps \cup {IF call.op \in CompressOps THEN "in" ELSE "arc"}
             /\ at' = "password"
             /\ UNCHANGED << rc, data >>
    <3>1. at' \in Steps /\ temps' \subseteq {"in", "arc", "x"} /\ lost' \in BOOLEAN
      BY <1>0, <1>1, <2>2 DEF Steps
    <3>2. QED
      BY <1>0, <1>6, <2>2, <3>1, TypesAfterStep DEF Stage
  <2>3. QED
    BY <1>6, <2>1, <2>2 DEF Stage
<1>7. CASE zsdk_apply_password
  <2>1. CASE call.password = TooLong
    BY <1>0, <1>2, <1>7, <2>1, ReturnsErrorTypes, TypesAfterStep DEF zsdk_apply_password
  <2>2. CASE call.password # TooLong
    <3>1. at' \in Steps /\ at' = "key" /\ password' \in BOOLEAN
      BY <1>7, <2>2 DEF zsdk_apply_password, Steps
    <3>2. QED
      BY <1>0, <1>7, <2>2, <3>1, TypesAfterStep DEF zsdk_apply_password
  <2>3. QED
    BY <2>1, <2>2
<1>8. CASE zsdk_apply_key
  <2>1. CASE password' = FALSE /\ \E code \in {"INVALID_ARG", "NO_MEMORY"} : ReturnsError(code, dir)
    <3>1. PICK code \in Codes : ReturnsError(code, dir)
      BY <1>2, <2>1
    <3>2. QED
      BY <1>0, <1>8, <2>1, <3>1, ReturnsErrorTypes, TypesAfterStep DEF zsdk_apply_key
  <2>2. CASE call.key # TooLong /\ at' = "engine" /\ UNCHANGED << password, temps, rc, data >>
    <3>1. at' \in Steps /\ call.password # TooLong
      BY <1>0, <1>8, <2>2 DEF zsdk_apply_key, Steps
    <3>2. QED
      BY <1>0, <1>8, <2>2, <3>1, TypesAfterStep DEF zsdk_apply_key
  <2>3. QED
    BY <1>8, <2>1, <2>2 DEF zsdk_apply_key
<1>9. CASE EngineCompresses
  <2>1. CASE UNCHANGED arc /\ \E e \in {"IO", "NOMEM", "AUTH_FAIL"} : ReturnsError(zsdk_map_zupt_error[e], dir)
    <3>1. PICK code \in Codes : ReturnsError(code, dir)
      BY <2>1, CodesFacts DEF zsdk_map_zupt_error
    <3>2. QED
      BY <1>0, <1>9, <2>1, <3>1, ReturnsErrorTypes, TypesAfterStep DEF EngineCompresses
  <2>2. CASE /\ arc' = [files |-> [n \in DOMAIN call.files |-> IF lost THEN Cut ELSE call.files[n]],
                        lock |-> Lock, whole |-> TRUE, given |-> call.files, lost |-> lost]
             /\ temps' = (temps \ {"in"}) \cup {"arc"}
             /\ at' = IF call.op = "compress_stream" THEN "output" ELSE "slurp"
             /\ UNCHANGED << rc, data >>
    <3>1. Lock \in {None} \cup Passwords \cup Keys
      BY <1>0, <1>9 DEF TypeOK, Lock, EngineCompresses
    <3>2. call.files \in FilesOver(Names, Contents)
      BY DEF TypeOK
    <3>3. [n \in DOMAIN call.files |-> IF lost THEN Cut ELSE call.files[n]]
            \in FilesOver(Names, Contents \cup {Cut})
      <4> DEFINE f == [n \in DOMAIN call.files |-> IF lost THEN Cut ELSE call.files[n]]
      <4>1. call.files \in [DOMAIN call.files -> Contents] /\ DOMAIN call.files \in SUBSET Names
        BY <3>2, FilesOverFacts
      <4>2. f \in [DOMAIN f -> Contents \cup {Cut}] /\ DOMAIN f \in SUBSET Names
        BY <4>1
      <4> HIDE DEF f
      <4>3. f \in FilesOver(Names, Contents \cup {Cut})
        BY <4>2, FilesOverFacts
      <4>4. QED
        BY <4>3 DEF f
    <3>4. arc' \in Archives
      BY <1>0, <2>2, <3>1, <3>2, <3>3 DEF Archives
    <3>5. at' \in Steps /\ at' \notin {"key", "engine"} /\ temps' \subseteq {"in", "arc", "x"}
      BY <1>0, <2>2 DEF Steps
    <3>6. QED
      BY <1>0, <1>9, <2>2, <3>4, <3>5, TypesAfterStep DEF EngineCompresses
  <2>3. QED
    BY <1>9, <2>1, <2>2 DEF EngineCompresses
<1>10. CASE SlurpArchive
  <2>1. CASE UNCHANGED archives /\ \E code \in {"IO", "NO_MEMORY"} : ReturnsError(code, dir)
    <3>1. PICK code \in Codes : ReturnsError(code, dir)
      BY <1>2, <2>1
    <3>2. QED
      BY <1>0, <1>10, <2>1, <3>1, ReturnsErrorTypes, TypesAfterStep DEF SlurpArchive
  <2>2. CASE /\ ReturnsOk /\ temps' = temps \ {"arc"}
             /\ archives' = archives \cup {arc} /\ UNCHANGED data
    <3>1. at' \in Steps /\ at' = "idle" /\ rc' \in Codes /\ temps' \subseteq {"in", "arc", "x"}
      BY <1>0, <1>2, <2>2 DEF ReturnsOk, Steps
    <3>2. archives \subseteq archives' /\ archives' \subseteq Archives
      BY <1>0, <2>2
    <3>3. QED
      BY <1>0, <1>10, <2>2, <3>1, <3>2, TypesAfterStep DEF SlurpArchive
  <2>3. QED
    BY <1>10, <2>1, <2>2 DEF SlurpArchive
<1>11. CASE PumpArchive
  <2>1. CASE UNCHANGED archives /\ ReturnsError("IO", dir)
    BY <1>0, <1>2, <1>11, <2>1, ReturnsErrorTypes, TypesAfterStep DEF PumpArchive
  <2>2. CASE /\ ReturnsOk /\ temps' = temps \ {"arc"} /\ UNCHANGED data
             /\ \E cut \in BOOLEAN : archives' = archives \cup
                  {[arc EXCEPT !.whole = @ /\ ~cut, !.lost = @ \/ cut]}
    <3>1. at' \in Steps /\ at' = "idle" /\ rc' \in Codes /\ temps' \subseteq {"in", "arc", "x"}
      BY <1>0, <1>2, <2>2 DEF ReturnsOk, Steps
    <3>2. \A b \in BOOLEAN, c \in BOOLEAN : [arc EXCEPT !.whole = b, !.lost = c] \in Archives
      BY <1>0 DEF Archives
    <3>3. archives \subseteq archives' /\ archives' \subseteq Archives
      BY <1>0, <2>2, <3>2 DEF Archives
    <3>4. QED
      BY <1>0, <1>11, <2>2, <3>1, <3>3, TypesAfterStep DEF PumpArchive
  <2>3. QED
    BY <1>11, <2>1, <2>2 DEF PumpArchive
<1>12. CASE EngineReads
  <2>1. PICK o \in Outcomes :
          /\ dir' = o[2]
          /\ \/ o[1] # "OK" /\ ReturnsError(zsdk_map_zupt_error[o[1]], o[2])
             \/ /\ temps' = temps \ {"arc"} /\ UNCHANGED data
                /\ IF ToBuffer THEN at' = "readback" /\ UNCHANGED rc ELSE ReturnsOk
    BY <1>12 DEF EngineReads
  <2>2. dir' \in FilesOver(Names, Contents \cup {Cut}) /\ zsdk_map_zupt_error[o[1]] \in Codes
    BY <2>1, OutcomeFacts, CodesFacts
  <2>3. CASE ReturnsError(zsdk_map_zupt_error[o[1]], o[2])
    BY <1>0, <1>12, <2>2, <2>3, ReturnsErrorTypes, TypesAfterStep DEF EngineReads
  <2>4. CASE /\ temps' = temps \ {"arc"} /\ UNCHANGED data
             /\ IF ToBuffer THEN at' = "readback" /\ UNCHANGED rc ELSE ReturnsOk
    <3>1. at' \in Steps /\ at' \notin {"key", "engine"} /\ rc' \in Codes
          /\ temps' \subseteq {"in", "arc", "x"}
      BY <1>0, <1>2, <2>4 DEF ReturnsOk, Steps
    <3>2. QED
      BY <1>0, <1>12, <2>2, <2>4, <3>1, TypesAfterStep DEF EngineReads
  <2>5. QED
    BY <2>1, <2>3, <2>4
<1>13. CASE NothingExtracted
  BY <1>0, <1>2, <1>13, ReturnsErrorTypes, TypesAfterStep DEF NothingExtracted
<1>14. CASE ReadBack
  <2>1. PICK n \in DOMAIN dir \ Hidden :
          /\ dir' = [m \in DOMAIN dir \ ({n} \ Nested) |-> dir[m]]
          /\ \/ /\ IoFails \/ n \in Nested
                /\ \E code \in {"IO", "NO_MEMORY"} : ReturnsError(code, dir')
             \/ /\ data' = IF n \in Nested THEN NoBytes ELSE dir[n]
                /\ temps' = temps \ Rmdir(dir')
                /\ IF call.op = "decompress_stream" THEN at' = "output" /\ UNCHANGED rc ELSE ReturnsOk
    BY <1>14 DEF ReadBack
  <2>2. dir \in [DOMAIN dir -> Contents \cup {Cut}] /\ DOMAIN dir \in SUBSET Names
    BY <1>0, FilesOverFacts
  <2>3. dir' \in FilesOver(Names, Contents \cup {Cut})
    <3>1. dir' \in [DOMAIN dir' -> Contents \cup {Cut}] /\ DOMAIN dir' \in SUBSET Names
      BY <2>1, <2>2
    <3>2. QED
      BY <3>1, FilesOverFacts
  <2>4. CASE \E code \in {"IO", "NO_MEMORY"} : ReturnsError(code, dir')
    <3>1. PICK code \in Codes : ReturnsError(code, dir')
      BY <1>2, <2>4
    <3>2. QED
      BY <1>0, <1>14, <2>3, <3>1, ReturnsErrorTypes, TypesAfterStep DEF ReadBack
  <2>5. CASE /\ data' = IF n \in Nested THEN NoBytes ELSE dir[n]
             /\ temps' = temps \ Rmdir(dir')
             /\ IF call.op = "decompress_stream" THEN at' = "output" /\ UNCHANGED rc ELSE ReturnsOk
    <3>1. /\ at' \in Steps /\ at' \notin {"key", "engine"} /\ rc' \in Codes
          /\ temps' \subseteq {"in", "arc", "x"}
          /\ data' \in Contents \cup {None, Cut, NoBytes}
      BY <1>0, <1>2, <2>2, <2>5 DEF ReturnsOk, Steps
    <3>2. QED
      BY <1>0, <1>14, <2>3, <2>5, <3>1, TypesAfterStep DEF ReadBack
  <2>6. QED
    BY <2>1, <2>4, <2>5
<1>15. CASE Output
  <2>1. CASE ReturnsError("IO", dir)
    BY <1>0, <1>2, <1>15, <2>1, ReturnsErrorTypes, TypesAfterStep DEF Output
  <2>2. CASE ReturnsOk /\ UNCHANGED << temps, data >>
    <3>1. at' \in Steps /\ at' = "idle" /\ rc' \in Codes
      BY <1>2, <2>2 DEF ReturnsOk, Steps
    <3>2. QED
      BY <1>0, <1>15, <2>2, <3>1, TypesAfterStep DEF Output
  <2>3. QED
    BY <1>15, <2>1, <2>2 DEF Output
<1>16. CASE UNCHANGED vars
  <2>1. archives \subseteq archives'
    BY <1>16 DEF vars
  <2>2. QED
    BY <1>0, <1>16, <2>1, TypesAfterStep DEF vars
<1>17. QED
  BY <1>3, <1>4, <1>5, <1>6, <1>7, <1>8, <1>9, <1>10, <1>11, <1>12, <1>13, <1>14, <1>15,
     <1>16, BeginTypes DEF Next, Done


-----------------------------------------------------------------------------
(* TempsInvariant and DataInvariant *)

\* The kinds of calls exclude each other.
LEMMA OpsFacts ==
  /\ \A op \in CompressOps : op \notin ReadOps \cup DiskOps
                             /\ op \notin {"extract_buffer", "decompress_stream"}
  /\ \A op \in DiskOps : op \notin ReadOps
  /\ \A op \in ReadOps : op \notin CompressOps \cup DiskOps
  /\ {"extract_buffer", "decompress_stream"} \subseteq ExtractOps
  /\ ExtractOps \subseteq ReadOps
  /\ "extract_to_dir" \in ExtractOps /\ "verify" \in ReadOps
  /\ "compress_buffer" \in CompressOps /\ "compress_stream" \in CompressOps
  BY DEF CompressOps, ReadOps, ExtractOps, DiskOps

\* What the engine is asked to do, or a buffer to be read back, does not change
\* what a call is about.
LEMMA SameCall ==
  ASSUME call' = call
  PROVE  /\ ToBuffer' <=> ToBuffer
         /\ SinglePlainFile' <=> SinglePlainFile
         /\ Opens' <=> Opens
  BY DEF ToBuffer, SinglePlainFile, Opens

\* An error leaves no staged file, and a directory only with something in it.
LEMMA ErrorCleansUp ==
  ASSUME TempsInvariant, call' = call, password' = FALSE,
         NEW code, code # "OK", NEW files, files = dir', ReturnsError(code, files)
  PROVE  TempsInvariant'
<1>1. /\ at' = "idle" /\ rc' # "OK" /\ temps' = temps \ ({"in", "arc"} \cup Rmdir(dir'))
  BY DEF ReturnsError
<1>2. "in" \notin temps' /\ "arc" \notin temps'
  BY <1>1
<1>3. "x" \in temps' => "x" \in temps /\ dir' # NoFiles
  BY <1>1 DEF Rmdir
<1>4. "x" \in temps => ToBuffer'
  BY SameCall DEF TempsInvariant
<1>5. QED
  BY <1>1, <1>2, <1>3, <1>4 DEF TempsInvariant

\* What is left of the files when the one plain file has been taken out.
LEMMA OnePlainFile ==
  ASSUME TypeOK, dir = call.archive.files, SinglePlainFile, NEW n \in DOMAIN dir,
         dir' = [m \in DOMAIN dir \ ({n} \ Nested) |-> dir[m]]
  PROVE  n \notin Nested /\ DOMAIN dir = {n} /\ dir' = NoFiles
<1>1. PICK k \in Names \ (Hidden \cup Nested) : DOMAIN dir = {k}
  BY DEF SinglePlainFile
<1>2. k = n /\ DOMAIN dir \ ({n} \ Nested) = {}
  BY <1>1
<1>3. dir' \in [{} -> Contents]
  BY <1>2
<1>4. dir' = NoFiles
  BY <1>3, NoFilesFacts
<1>5. QED
  BY <1>1, <1>2, <1>4

LEMMA StepTemps ==
  ASSUME TypeOK, TempsInvariant, DataInvariant, [Next]_vars
  PROVE  TempsInvariant'
<1>0. temps \subseteq {"in", "arc", "x"} /\ password \in BOOLEAN
  BY DEF TypeOK
<1>1. CASE Begin
  <2>1. ~password /\ password' = password /\ temps' = {}
    BY <1>1 DEF Begin, TempsInvariant
  <2>2. /\ at' = "drain" => call'.op \in {"compress_stream", "decompress_stream"}
        /\ at' = "stage" => call'.op \in ReadOps \cup {"compress_buffer"}
        /\ at' = "mkdir" => call'.op = "extract_buffer"
        /\ at' # "readback"
    BY <1>1, BeginFacts, FirstStepFacts DEF ReadOps, ExtractOps
  <2>3. QED
    BY <2>1, <2>2 DEF TempsInvariant, ToBuffer
<1>2. CASE Drain
  <2>1. /\ call' = call /\ dir' = dir /\ password' = FALSE /\ at = "drain"
        /\ temps = {}
    BY <1>0, <1>2 DEF Drain, TempsInvariant
  <2>2. CASE ReturnsError("IO", dir)
    BY <2>1, <2>2, ErrorCleansUp
  <2>3. CASE IF call.op = "compress_stream"
               THEN temps' = temps \cup {"in"} /\ at' = "password"
               ELSE temps' = temps \cup {"arc"} /\ at' = "slurp"
    <3>1. call.op \in {"compress_stream", "decompress_stream"}
      BY <2>1 DEF TempsInvariant
    <3>2. QED
      BY <2>1, <2>3, <3>1, OpsFacts DEF TempsInvariant
  <2>4. QED
    BY <1>2, <2>2, <2>3 DEF Drain
<1>3. CASE SlurpInput
  <2>1. /\ call' = call /\ dir' = dir /\ password' = FALSE /\ at = "slurp"
        /\ call.op = "decompress_stream"
        /\ "in" \notin temps /\ "x" \notin temps
    BY <1>0, <1>3 DEF SlurpInput, TempsInvariant
  <2>2. CASE \E code \in {"IO", "NO_MEMORY"} : ReturnsError(code, dir)
    BY <2>1, <2>2, ErrorCleansUp
  <2>3. CASE at' = "mkdir" /\ temps' = temps \ {"arc"}
    BY <1>0, <2>1, <2>3 DEF TempsInvariant, ToBuffer
  <2>4. QED
    BY <1>3, <2>2, <2>3 DEF SlurpInput
<1>4. CASE MakeDirectory
  <2>1. /\ call' = call /\ dir' = dir /\ password' = FALSE /\ at = "mkdir"
        /\ ToBuffer /\ temps = {}
    BY <1>0, <1>4 DEF MakeDirectory, TempsInvariant
  <2>2. CASE ReturnsError("IO", dir)
    BY <2>1, <2>2, ErrorCleansUp
  <2>3. CASE temps' = temps \cup {"x"} /\ at' = "stage"
    BY <2>1, <2>3, OpsFacts DEF TempsInvariant, ToBuffer
  <2>4. QED
    BY <1>4, <2>2, <2>3 DEF MakeDirectory
<1>5. CASE Stage
  <2>1. /\ call' = call /\ dir' = dir /\ password' = FALSE /\ at = "stage"
        /\ call.op \in ReadOps \cup {"compress_buffer"}
        /\ temps \subseteq {"x"}
    BY <1>0, <1>5 DEF Stage, TempsInvariant
  <2>2. CASE ReturnsError("IO", dir)
    BY <2>1, <2>2, ErrorCleansUp
  <2>3. CASE /\ temps' = temps \cup {IF call.op \in CompressOps THEN "in" ELSE "arc"}
             /\ at' = "password"
    <3>1. "x" \in temps => ToBuffer'
      BY <2>1, SameCall DEF TempsInvariant
    <3>2. QED
      BY <2>1, <2>3, <3>1, OpsFacts DEF TempsInvariant
  <2>4. QED
    BY <1>5, <2>2, <2>3 DEF Stage
<1>6. CASE zsdk_apply_password
  <2>1. call' = call /\ dir' = dir /\ at = "password" /\ password = FALSE
    BY <1>0, <1>6 DEF zsdk_apply_password, TempsInvariant
  <2>2. CASE ReturnsError("INVALID_ARG", dir) /\ password' = password
    BY <2>1, <2>2, ErrorCleansUp
  <2>3. CASE at' = "key" /\ temps' = temps
    BY <2>1, <2>3, SameCall DEF TempsInvariant
  <2>4. QED
    BY <1>6, <2>2, <2>3 DEF zsdk_apply_password
<1>7. CASE zsdk_apply_key
  <2>1. call' = call /\ dir' = dir /\ at = "key"
    BY <1>7 DEF zsdk_apply_key
  <2>2. CASE password' = FALSE /\ \E code \in {"INVALID_ARG", "NO_MEMORY"} : ReturnsError(code, dir)
    BY <2>1, <2>2, ErrorCleansUp
  <2>3. CASE at' = "engine" /\ temps' = temps
    BY <2>1, <2>3, SameCall DEF TempsInvariant
  <2>4. QED
    BY <1>7, <2>2, <2>3 DEF zsdk_apply_key
<1>8. CASE EngineCompresses
  <2>1. /\ call' = call /\ dir' = dir /\ at = "engine" /\ call.op \in CompressOps
        /\ password' = FALSE
        /\ "x" \notin temps
    BY <1>8, OpsFacts DEF EngineCompresses, TempsInvariant, ToBuffer
  <2>2. CASE \E e \in {"IO", "NOMEM", "AUTH_FAIL"} : ReturnsError(zsdk_map_zupt_error[e], dir)
    <3>1. PICK code : code # "OK" /\ ReturnsError(code, dir)
      BY <2>2 DEF zsdk_map_zupt_error
    <3>2. QED
      BY <2>1, <3>1, ErrorCleansUp
  <2>3. CASE /\ temps' = (temps \ {"in"}) \cup {"arc"}
             /\ at' = IF call.op = "compress_stream" THEN "output" ELSE "slurp"
    BY <1>0, <2>1, <2>3 DEF TempsInvariant
  <2>4. QED
    BY <1>8, <2>2, <2>3 DEF EngineCompresses
<1>9. CASE SlurpArchive \/ PumpArchive
  <2>1. /\ call' = call /\ dir' = dir /\ password' = FALSE /\ at \in {"slurp", "output"}
        /\ call.op \in CompressOps
    BY <1>0, <1>9, OpsFacts DEF SlurpArchive, PumpArchive, TempsInvariant
  <2>2. temps \subseteq {"arc"}
    BY <1>0, <2>1, OpsFacts DEF TempsInvariant, ToBuffer
  <2>3. CASE \E code \in {"IO", "NO_MEMORY"} : ReturnsError(code, dir)
    BY <2>1, <2>2, <2>3, ErrorCleansUp
  <2>4. CASE at' = "idle" /\ temps' = temps \ {"arc"}
    BY <2>1, <2>2, <2>4 DEF TempsInvariant
  <2>5. QED
    BY <1>9, <2>3, <2>4 DEF SlurpArchive, PumpArchive, ReturnsOk
<1>10. CASE EngineReads
  <2>1. /\ call' = call /\ at = "engine" /\ call.op \in ReadOps \cup DiskOps
        /\ password' = FALSE /\ "in" \notin temps
    BY <1>10, OpsFacts DEF EngineReads, TempsInvariant
  <2>2. PICK o \in Outcomes :
          /\ dir' = o[2]
          /\ \/ o[1] # "OK" /\ ReturnsError(zsdk_map_zupt_error[o[1]], o[2])
             \/ /\ temps' = temps \ {"arc"}
                /\ IF ToBuffer THEN at' = "readback" /\ UNCHANGED rc ELSE ReturnsOk
    BY <1>10 DEF EngineReads
  <2>3. CASE o[1] # "OK" /\ ReturnsError(zsdk_map_zupt_error[o[1]], o[2])
    <3>1. PICK code : code # "OK" /\ ReturnsError(code, dir')
      BY <2>2, <2>3, OutcomeFacts, CodesFacts
    <3>2. QED
      BY <2>1, <3>1, ErrorCleansUp
  <2>4. CASE ToBuffer /\ temps' = temps \ {"arc"} /\ at' = "readback"
    BY <1>0, <2>1, <2>4, SameCall DEF TempsInvariant
  <2>5. CASE ~ToBuffer /\ temps' = temps \ {"arc"} /\ at' = "idle"
    <3>1. temps' = {}
      BY <1>0, <2>1, <2>5 DEF TempsInvariant
    <3>2. QED
      BY <2>1, <2>5, <3>1 DEF TempsInvariant
  <2>6. QED
    BY <2>2, <2>3, <2>4, <2>5 DEF ReturnsOk
<1>11. CASE NothingExtracted
  <2>1. /\ call' = call /\ dir' = dir /\ at = "readback" /\ password' = FALSE
        /\ ReturnsError("BAD_ARCHIVE", dir)
    BY <1>11 DEF NothingExtracted, TempsInvariant
  <2>2. QED
    BY <2>1, ErrorCleansUp
<1>12. CASE ReadBack
  <2>1. /\ call' = call /\ at = "readback" /\ password' = FALSE
        /\ temps \subseteq {"x"} /\ ToBuffer
    BY <1>0, <1>12 DEF ReadBack, TempsInvariant
  <2>2. PICK n \in DOMAIN dir \ Hidden :
          /\ dir' = [m \in DOMAIN dir \ ({n} \ Nested) |-> dir[m]]
          /\ \/ /\ IoFails \/ n \in Nested
                /\ \E code \in {"IO", "NO_MEMORY"} : ReturnsError(code, dir')
             \/ /\ data' = IF n \in Nested THEN NoBytes ELSE dir[n]
                /\ temps' = temps \ Rmdir(dir')
                /\ IF call.op = "decompress_stream" THEN at' = "output" /\ UNCHANGED rc ELSE ReturnsOk
    BY <1>12 DEF ReadBack
  <2>3. CASE \E code \in {"IO", "NO_MEMORY"} : ReturnsError(code, dir')
    BY <2>1, <2>3, ErrorCleansUp
  <2>4. CASE temps' = temps \ Rmdir(dir') /\ at' \in {"output", "idle"}
    <3>1. SinglePlainFile => dir' = NoFiles
      BY <2>1, <2>2, OnePlainFile DEF DataInvariant
    <3>2. temps' \subseteq {"x"} /\ ("x" \in temps' => dir' # NoFiles)
      BY <2>1, <2>4 DEF Rmdir
    <3>3. "x" \in temps' => dir' # NoFiles /\ ~SinglePlainFile'
      BY <2>1, <3>1, <3>2, SameCall
    <3>4. ToBuffer'
      BY <2>1, SameCall
    <3>5. QED
      BY <2>1, <2>4, <3>2, <3>3, <3>4 DEF TempsInvariant
  <2>5. QED
    BY <2>2, <2>3, <2>4 DEF ReturnsOk
<1>13. CASE Output
  <2>1. /\ call' = call /\ dir' = dir /\ password' = FALSE /\ at = "output"
        /\ call.op = "decompress_stream"
        /\ temps \subseteq {"x"}
    BY <1>0, <1>13, OpsFacts DEF Output, TempsInvariant
  <2>2. CASE ReturnsError("IO", dir)
    BY <2>1, <2>2, ErrorCleansUp
  <2>3. CASE at' = "idle" /\ temps' = temps
    BY <2>1, <2>3, SameCall DEF TempsInvariant
  <2>4. QED
    BY <1>13, <2>2, <2>3 DEF Output, ReturnsOk
<1>14. CASE UNCHANGED vars
  BY <1>14, SameCall DEF vars, TempsInvariant
<1>15. QED
  BY <1>1, <1>2, <1>3, <1>4, <1>5, <1>6, <1>7, <1>8, <1>9, <1>10, <1>11, <1>12, <1>13, <1>14
     DEF Next, Done


\* A call that asks for what can be had, of an archive that lost nothing.
Promised ==
  /\ call.op \in ReadOps /\ ~call.archive.lost
  /\ failing = {} /\ Opens /\ TooLong \notin {call.password, call.key}
  /\ ToBuffer => SinglePlainFile

\* An error is excused when something may fail or the call asks for too much.
LEMMA ErrorIsExcused ==
  ASSUME DataInvariant, UNCHANGED << failing, call, lost, archives >>,
         NEW code, code # "OK", NEW files, ReturnsError(code, files), ~Promised
  PROVE  DataInvariant'
<1>1. at' = "idle" /\ rc' = code
  BY DEF ReturnsError
<1>2. ExtractGivesBack'
  BY <1>1, SameCall DEF ExtractGivesBack, Promised
<1>3. QED
  BY <1>1, <1>2 DEF DataInvariant, Faithful

\* Steps behind which the call is neither at its end nor at its result.
LEMMA DataBefore ==
  ASSUME DataInvariant, UNCHANGED << failing, call, archives >>, failing = {} => ~lost',
         at' \notin {"idle", "readback", "output"},
         call.op \in CompressOps => at' # "slurp"
  PROVE  DataInvariant'
<1>1. ExtractGivesBack'
  BY DEF ExtractGivesBack
<1>2. QED
  BY <1>1 DEF DataInvariant, Faithful

\* A call that writes has nothing to give back.
LEMMA WriterGivesNothing ==
  ASSUME TypeOK, DataInvariant, UNCHANGED << failing, call, lost >>, call.op \in CompressOps,
         at' \in {"idle", "slurp", "output"},
         at' # "idle" => Faithful(arc)',
         \A a \in archives' : Faithful(a)
  PROVE  DataInvariant'
<1>1. call.op \notin ReadOps /\ call.op # "decompress_stream"
  BY OpsFacts
<1>2. ExtractGivesBack'
  BY <1>1 DEF ExtractGivesBack
<1>3. failing' = {} => ~lost'
  BY DEF DataInvariant
<1>4. \A a \in archives' : Faithful(a)
  OBVIOUS
<1>5. QED
  BY <1>1, <1>2, <1>3, <1>4 DEF DataInvariant, Faithful

LEMMA StepData ==
  ASSUME TypeOK, TempsInvariant, DataInvariant, [Next]_vars
  PROVE  DataInvariant'
<1>0. /\ failing = {} => ~IoFails /\ CloseLoses = {FALSE} /\ ~lost
      /\ Promised => ~IoFails /\ ~lost /\ call.archive.whole
      /\ call.op \in ReadOps /\ ~call.archive.lost =>
           /\ call.archive.files = call.archive.given /\ call.archive.whole
  BY DEF DataInvariant, IoFails, CloseLoses, Promised, Faithful
<1>1. CASE Begin
  <2>1. /\ at' \in {"drain", "mkdir", "stage", "password"} /\ lost' = FALSE
        /\ UNCHANGED << failing, archives >>
        /\ call'.op \in ReadOps => call'.archive \in archives
    BY <1>1, BeginFacts, FirstStepFacts DEF Begin
  <2>2. ExtractGivesBack'
    BY <2>1 DEF ExtractGivesBack
  <2>3. QED
    BY <2>1, <2>2 DEF DataInvariant, Faithful
<1>2. CASE Drain
  <2>1. UNCHANGED << failing, call, archives >> /\ at = "drain"
    BY <1>2 DEF Drain
  <2>2. CASE IoFails /\ ReturnsError("IO", dir) /\ UNCHANGED lost
    BY <1>0, <2>1, <2>2, ErrorIsExcused
  <2>3. CASE /\ lost' \in CloseLoses
             /\ IF call.op = "compress_stream" THEN at' = "password" ELSE at' = "slurp"
    <3>1. call.op \in CompressOps => call.op = "compress_stream"
      BY <2>1, OpsFacts DEF TempsInvariant
    <3>2. failing = {} => ~lost'
      BY <1>0, <2>3
    <3>3. QED
      BY <2>1, <2>3, <3>1, <3>2, DataBefore
  <2>4. QED
    BY <1>2, <2>2, <2>3 DEF Drain
<1>3. CASE SlurpInput
  <2>1. UNCHANGED << failing, call, lost, archives >>
    BY <1>3 DEF SlurpInput
  <2>2. CASE (IoFails \/ lost) /\ \E code \in {"IO", "NO_MEMORY"} : ReturnsError(code, dir)
    BY <1>0, <2>1, <2>2, ErrorIsExcused
  <2>3. CASE at' = "mkdir"
    BY <1>0, <2>1, <2>3, DataBefore
  <2>4. QED
    BY <1>3, <2>2, <2>3 DEF SlurpInput
<1>4. CASE MakeDirectory
  <2>1. UNCHANGED << failing, call, lost, archives >>
    BY <1>4 DEF MakeDirectory
  <2>2. CASE IoFails /\ ReturnsError("IO", dir)
    BY <1>0, <2>1, <2>2, ErrorIsExcused
  <2>3. CASE at' = "stage"
    BY <1>0, <2>1, <2>3, DataBefore
  <2>4. QED
    BY <1>4, <2>2, <2>3 DEF MakeDirectory
<1>5. CASE Stage
  <2>1. UNCHANGED << failing, call, archives >>
    BY <1>5 DEF Stage
  <2>2. CASE IoFails /\ ReturnsError("IO", dir) /\ UNCHANGED lost
    BY <1>0, <2>1, <2>2, ErrorIsExcused
  <2>3. CASE at' = "password" /\ \E cut \in CloseLoses : lost' = (lost \/ cut)
    BY <1>0, <2>1, <2>3, DataBefore
  <2>4. QED
    BY <1>5, <2>2, <2>3 DEF Stage
<1>6. CASE zsdk_apply_password
  <2>1. UNCHANGED << failing, call, lost, archives >>
    BY <1>6 DEF zsdk_apply_password
  <2>2. CASE call.password = TooLong /\ ReturnsError("INVALID_ARG", dir)
    BY <2>1, <2>2, ErrorIsExcused DEF Promised
  <2>3. CASE at' = "key"
    BY <1>0, <2>1, <2>3, DataBefore
  <2>4. QED
    BY <1>6, <2>2, <2>3 DEF zsdk_apply_password
<1>7. CASE zsdk_apply_key
  <2>1. UNCHANGED << failing, call, lost, archives >>
    BY <1>7 DEF zsdk_apply_key
  <2>2. CASE call.key = TooLong /\ ReturnsError("INVALID_ARG", dir)
    BY <2>1, <2>2, ErrorIsExcused DEF Promised
  <2>3. CASE IoFails /\ ReturnsError("NO_MEMORY", dir)
    BY <1>0, <2>1, <2>3, ErrorIsExcused
  <2>4. CASE at' = "engine"
    BY <1>0, <2>1, <2>4, DataBefore
  <2>5. QED
    BY <1>7, <2>2, <2>3, <2>4 DEF zsdk_apply_key
<1>8. CASE EngineCompresses
  <2>1. /\ UNCHANGED << failing, call, lost, archives >> /\ call.op \in CompressOps
        /\ \A a \in archives' : Faithful(a)
    BY <1>8 DEF EngineCompresses, DataInvariant
  <2>2. CASE \E e \in {"IO", "NOMEM", "AUTH_FAIL"} : ReturnsError(zsdk_map_zupt_error[e], dir)
    <3>1. at' = "idle"
      BY <2>2 DEF ReturnsError
    <3>2. QED
      BY <2>1, <3>1, WriterGivesNothing
  <2>3. CASE /\ arc' = [files |-> [n \in DOMAIN call.files |-> IF lost THEN Cut ELSE call.files[n]],
                        lock |-> Lock, whole |-> TRUE, given |-> call.files, lost |-> lost]
             /\ at' \in {"output", "slurp"}
    <3>1. call.files \in FilesOver(Names, Contents)
      BY DEF TypeOK
    <3>2. call.files \in [DOMAIN call.files -> Contents]
      BY <3>1, FilesOverFacts
    <3>3. ~arc'.lost => arc'.whole /\ arc'.files = arc'.given
      BY <2>3, <3>2
    <3>4. QED
      BY <2>1, <2>3, <3>3, WriterGivesNothing DEF Faithful
  <2>4. QED
    BY <1>8, <2>2, <2>3 DEF EngineCompresses
<1>9. CASE SlurpArchive \/ PumpArchive
  <2>1. /\ UNCHANGED << failing, call, lost >> /\ call.op \in CompressOps
        /\ at \in {"slurp", "output"}
        /\ \A a \in archives \cup {arc} : Faithful(a)
    BY <1>9, OpsFacts DEF SlurpArchive, PumpArchive, DataInvariant
  <2>2. at' = "idle"
    BY <1>9 DEF SlurpArchive, PumpArchive, ReturnsError, ReturnsOk
  <2>3. \A cut \in BOOLEAN : Faithful([arc EXCEPT !.whole = @ /\ ~cut, !.lost = @ \/ cut])
    BY <2>1 DEF Faithful, TypeOK, Archives
  <2>4. \A a \in archives' : a \in archives \cup {arc} \/
          \E cut \in BOOLEAN : a = [arc EXCEPT !.whole = @ /\ ~cut, !.lost = @ \/ cut]
    <3>1. CASE SlurpArchive
      BY <3>1 DEF SlurpArchive
    <3>2. CASE PumpArchive
      <4>1. (IF IoFails THEN BOOLEAN ELSE {FALSE}) \subseteq BOOLEAN
        OBVIOUS
      <4>2. QED
        BY <3>2, <4>1 DEF PumpArchive
    <3>3. QED
      BY <1>9, <3>1, <3>2
  <2>5. \A a \in archives' : Faithful(a)
    BY <2>1, <2>3, <2>4
  <2>6. QED
    BY <2>1, <2>2, <2>5, WriterGivesNothing
<1>10. CASE EngineReads
  <2>1. /\ UNCHANGED << failing, call, lost, archives >> /\ call.op \in ReadOps \cup DiskOps
    BY <1>10 DEF EngineReads
  <2>2. PICK o \in Outcomes :
          /\ dir' = o[2]
          /\ \/ o[1] # "OK" /\ ReturnsError(zsdk_map_zupt_error[o[1]], o[2])
             \/ /\ o[1] = "OK"
                /\ IF ToBuffer THEN at' = "readback" /\ UNCHANGED rc ELSE ReturnsOk
    BY <1>10 DEF EngineReads
  <2>3. CASE o[1] # "OK" /\ ReturnsError(zsdk_map_zupt_error[o[1]], o[2])
    <3>1. PICK code, files : code # "OK" /\ ReturnsError(code, files)
      BY <2>3, OutcomeFacts, CodesFacts
    <3>2. ~Promised
      BY <1>0, <2>3, OutcomeFacts DEF Promised
    <3>3. QED
      BY <2>1, <3>1, <3>2, ErrorIsExcused
  <2>4. CASE o[1] = "OK" /\ ToBuffer /\ at' = "readback"
    <3>1. call.op \in ExtractOps
      BY <2>4, OpsFacts DEF ToBuffer
    <3>2. dir' = call.archive.files
      BY <2>2, <2>4, <3>1, OutcomeFacts
    <3>3. ExtractGivesBack'
      BY <2>4 DEF ExtractGivesBack
    <3>4. QED
      BY <2>1, <2>4, <3>2, <3>3 DEF DataInvariant, Faithful
  <2>5. CASE o[1] = "OK" /\ ~ToBuffer /\ at' = "idle" /\ rc' = "OK"
    <3>1. call.op = "extract_to_dir" => dir' = call.archive.files
      BY <2>2, <2>5, OutcomeFacts, OpsFacts
    <3>2. ExtractGivesBack'
      BY <1>0, <2>1, <2>5, <3>1, SameCall DEF ExtractGivesBack
    <3>3. QED
      BY <2>1, <2>5, <3>2 DEF DataInvariant, Faithful
  <2>6. QED
    BY <2>2, <2>3, <2>4, <2>5 DEF ReturnsOk
<1>11. CASE NothingExtracted
  <2>1. /\ UNCHANGED << failing, call, lost, archives >> /\ at = "readback"
        /\ IoFails \/ DOMAIN dir \subseteq Hidden
        /\ ReturnsError("BAD_ARCHIVE", dir)
    BY <1>11 DEF NothingExtracted
  <2>2. dir = call.archive.files /\ ToBuffer
    BY <2>1 DEF DataInvariant, TempsInvariant
  <2>3. SinglePlainFile => ~(DOMAIN dir \subseteq Hidden)
    BY <2>2 DEF SinglePlainFile
  <2>4. ~Promised
    BY <1>0, <2>1, <2>2, <2>3 DEF Promised
  <2>5. QED
    BY <2>1, <2>4, ErrorIsExcused
<1>12. CASE ReadBack
  <2>1. UNCHANGED << failing, call, lost, archives >> /\ at = "readback"
    BY <1>12 DEF ReadBack
  <2>2. PICK n \in DOMAIN dir \ Hidden :
          /\ dir' = [m \in DOMAIN dir \ ({n} \ Nested) |-> dir[m]]
          /\ \/ /\ IoFails \/ n \in Nested
                /\ \E code \in {"IO", "NO_MEMORY"} : ReturnsError(code, dir')
             \/ /\ data' = IF n \in Nested THEN NoBytes ELSE dir[n]
                /\ temps' = temps \ Rmdir(dir')
                /\ IF call.op = "decompress_stream" THEN at' = "output" /\ UNCHANGED rc ELSE ReturnsOk
    BY <1>12 DEF ReadBack
  <2>3. dir = call.archive.files /\ ToBuffer
    BY <2>1 DEF DataInvariant, TempsInvariant
  <2>4. SinglePlainFile => n \notin Nested /\ DOMAIN dir = {n}
    BY <2>2, <2>3, OnePlainFile
  <2>5. CASE (IoFails \/ n \in Nested) /\ \E code \in {"IO", "NO_MEMORY"} : ReturnsError(code, dir')
    <3>1. ~Promised
      BY <1>0, <2>3, <2>4, <2>5 DEF Promised
    <3>2. PICK code, files : code # "OK" /\ ReturnsError(code, files)
      BY <2>5
    <3>3. QED
      BY <2>1, <3>1, <3>2, ErrorIsExcused
  <2>6. CASE /\ data' = IF n \in Nested THEN NoBytes ELSE dir[n]
             /\ IF call.op = "decompress_stream" THEN at' = "output" /\ UNCHANGED rc ELSE ReturnsOk
    <3>1. SinglePlainFile => \A m \in DOMAIN call.archive.files : data' = call.archive.files[m]
      BY <2>3, <2>4, <2>6
    <3>2. CASE call.op = "decompress_stream"
      <4>1. at' = "output"
        BY <2>6, <3>2
      <4>2. ExtractGivesBack'
        BY <4>1 DEF ExtractGivesBack
      <4>3. call'.op \notin CompressOps
        BY <2>1, <3>2, OpsFacts
      <4>4. QED
        BY <2>1, <3>1, <4>1, <4>2, <4>3, SameCall DEF DataInvariant, Faithful
    <3>3. CASE call.op # "decompress_stream"
      <4>1. at' = "idle" /\ rc' = "OK" /\ call.op # "extract_to_dir"
        BY <2>3, <2>6, <3>3 DEF ReturnsOk, ToBuffer
      <4>2. ExtractGivesBack'
        BY <1>0, <2>1, <3>1, <4>1, SameCall DEF ExtractGivesBack
      <4>3. QED
        BY <2>1, <4>1, <4>2 DEF DataInvariant, Faithful
    <3>4. QED
      BY <3>2, <3>3
  <2>7. QED
    BY <2>2, <2>5, <2>6
<1>13. CASE Output
  <2>1. /\ UNCHANGED << failing, call, lost, archives >> /\ at = "output"
        /\ call.op = "decompress_stream"
    BY <1>13 DEF Output
  <2>2. CASE IoFails /\ ReturnsError("IO", dir)
    BY <1>0, <2>1, <2>2, ErrorIsExcused
  <2>3. CASE at' = "idle" /\ rc' = "OK" /\ data' = data
    <3>1. SinglePlainFile => \A n \in DOMAIN call.archive.files : data = call.archive.files[n]
      BY <2>1 DEF DataInvariant
    <3>2. ExtractGivesBack'
      BY <1>0, <2>1, <2>3, <3>1, SameCall DEF ExtractGivesBack
    <3>3. QED
      BY <2>1, <2>3, <3>2 DEF DataInvariant, Faithful
  <2>4. QED
    BY <1>13, <2>2, <2>3 DEF Output, ReturnsOk
<1>14. CASE UNCHANGED vars
  <2>1. ExtractGivesBack'
    BY <1>14, SameCall DEF vars, ExtractGivesBack, DataInvariant
  <2>2. QED
    BY <1>14, <2>1, SameCall DEF vars, DataInvariant, Faithful
<1>15. QED
  BY <1>1, <1>2, <1>3, <1>4, <1>5, <1>6, <1>7, <1>8, <1>9, <1>10, <1>11, <1>12, <1>13, <1>14
     DEF Next, Done

-----------------------------------------------------------------------------
(* Theorems *)

SdkInvariant == TypeOK /\ TempsInvariant /\ DataInvariant

\* The public calls keep the types, what each step of a call may have staged, and
\* what the data of one call have to do with those of a later one.
THEOREM SdkInvariance == Spec => []SdkInvariant
<1>1. Init => SdkInvariant
  <2> SUFFICES ASSUME Init PROVE SdkInvariant
    OBVIOUS
  <2>1. call.op = None /\ None \notin ReadOps
    BY DEF Init, NoCall, None, ReadOps, ExtractOps
  <2>2. TempsInvariant
    BY DEF Init, TempsInvariant
  <2>3. ExtractGivesBack
    BY <2>1 DEF ExtractGivesBack
  <2>4. DataInvariant
    BY <2>1, <2>3 DEF Init, DataInvariant
  <2>5. QED
    BY <2>2, <2>4, TypesInitially DEF SdkInvariant
<1>2. SdkInvariant /\ [Next]_vars => SdkInvariant'
  BY StepTypes, StepTemps, StepData DEF SdkInvariant
<1>3. QED
  BY <1>1, <1>2, PTL DEF Spec

\* The variables of a call keep their types.
THEOREM SdkTypeCorrect == Spec => []TypeOK
<1>1. SdkInvariant => TypeOK
  BY DEF SdkInvariant
<1>2. QED
  BY <1>1, SdkInvariance, PTL

\* No call leaves a password or staged data behind, however it ends.
THEOREM EveryCallCleansUp == Spec => []CallsCleanUp
<1>1. SdkInvariant => CallsCleanUp
  <2> SUFFICES ASSUME SdkInvariant, at = "idle" PROVE CallsCleanUp
    BY DEF CallsCleanUp
  <2>1. temps \subseteq {"in", "arc", "x"} /\ TempsInvariant
    BY DEF SdkInvariant, TypeOK
  <2>2. ~password /\ temps \subseteq {"x"}
    BY <2>1 DEF TempsInvariant
  <2>3. "x" \in temps => ToBuffer /\ dir # NoFiles /\ (rc # "OK" \/ ~SinglePlainFile)
    BY <2>1 DEF TempsInvariant
  <2>4. QED
    BY <2>2, <2>3 DEF CallsCleanUp
<1>2. QED
  BY <1>1, SdkInvariance, PTL

\* What an extraction gives back is what an earlier call was given to store.
THEOREM StoredComesBack == Spec => []ExtractGivesBack
<1>1. SdkInvariant => ExtractGivesBack
  BY DEF SdkInvariant, DataInvariant
<1>2. QED
  BY <1>1, SdkInvariance, PTL
=============================================================================
