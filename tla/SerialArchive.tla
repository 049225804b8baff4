--------------------------- MODULE SerialArchive ----------------------------
(***************************************************************************)
(* What zupt_compress_files promises whatever the number of threads: the   *)
(* archive gets the frames of file 0, then those of file 1, and so on,     *)
(* each file's blocks in order and with no gap; its index entry counts     *)
(* them.  After the first error the bytes no longer matter, because the    *)
(* archive is then never published.                                        *)
(***************************************************************************)
EXTENDS Integers, Sequences

CONSTANTS
  NumFiles,      \* number of input files
  Blocks,        \* Blocks[f]: number of blocks of file f
  Frame(_, _)    \* Frame(f, b): what block b of file f looks like in the archive

VARIABLES
  cur,           \* file being written, NumFiles after the last one
  arc,           \* the DATA frames of the archive so far
  index,         \* index[f]: position of the file's first frame, their number
  failed,
  outcome        \* "open", "published", "discarded"

vars == << cur, arc, index, failed, outcome >>

FileNumbers == 0 .. NumFiles - 1

Init ==
  /\ cur = 0
  /\ arc = << >>
  /\ index = [f \in FileNumbers |-> [first |-> 0, count |-> 0]]
  /\ ~failed
  /\ outcome = "open"

Open ==
  /\ cur \in FileNumbers
  /\ ~failed
  /\ index[cur].count = 0
  /\ index' = [index EXCEPT ![cur] = [first |-> Len(arc), count |-> 0]]
  /\ UNCHANGED << cur, arc, failed, outcome >>

Write ==
  /\ cur \in FileNumbers
  /\ ~failed
  /\ index[cur].count < Blocks[cur]
  /\ arc' = Append(arc, Frame(cur, index[cur].count))
  /\ index' = [index EXCEPT ![cur].count = @ + 1]
  /\ UNCHANGED << cur, failed, outcome >>

Close ==
  /\ cur \in FileNumbers
  /\ ~failed
  /\ index[cur].count = Blocks[cur]
  /\ cur' = cur + 1
  /\ UNCHANGED << arc, index, failed, outcome >>

Fail ==
  /\ outcome = "open"
  /\ failed'
  /\ UNCHANGED << cur, outcome >>

Publish ==
  /\ outcome = "open"
  /\ cur = NumFiles
  /\ ~failed
  /\ outcome' = "published"
  /\ UNCHANGED << cur, arc, index, failed >>

Discard ==
  /\ outcome = "open"
  /\ outcome' = "discarded"
  /\ UNCHANGED << cur, arc, index, failed >>

Next == Open \/ Write \/ Close \/ Fail \/ Publish \/ Discard

Spec == Init /\ [][Next]_vars
=============================================================================
