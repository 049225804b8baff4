---------------------------- MODULE OrderedFiles ----------------------------
(***************************************************************************)
(* What zupt_extract_archive promises, whatever the number of threads: the *)
(* blocks of an entry are written in order, starting with the first, up to *)
(* the first one that cannot be decoded, and the file gets its name only   *)
(* when all of them were written.  An entry that has ended stays as it is. *)
(***************************************************************************)
EXTENDS Integers, Sequences

CONSTANTS
  Entries,       \* the index entries
  Sound(_)       \* whether a stored frame decodes to the block it was made from

VARIABLES
  frames,        \* the stored frames of each entry, which do not change
  content,       \* block numbers written to the temporary file of each entry
  damaged,       \* an error was seen in the entry
  result         \* each entry: "pending", "published" or "failed"

vars == << frames, content, damaged, result >>

Init ==
  /\ content = [e \in Entries |-> << >>]
  /\ damaged = [e \in Entries |-> FALSE]
  /\ result = [e \in Entries |-> "pending"]

Write(e) ==
  /\ result[e] = "pending"
  /\ ~damaged[e]
  /\ Len(content[e]) < Len(frames[e])
  /\ Sound(frames[e][Len(content[e]) + 1])
  /\ content' = [content EXCEPT ![e] = Append(@, Len(@))]
  /\ UNCHANGED << frames, damaged, result >>

\* From the first error on, the content no longer matters.
Damage(e) ==
  /\ result[e] = "pending"
  /\ damaged' = [damaged EXCEPT ![e] = TRUE]
  /\ \A other \in Entries \ {e} : content'[other] = content[other]
  /\ UNCHANGED << frames, result >>

Publish(e) ==
  /\ result[e] = "pending"
  /\ ~damaged[e]
  /\ Len(content[e]) = Len(frames[e])
  /\ result' = [result EXCEPT ![e] = "published"]
  /\ UNCHANGED << frames, content, damaged >>

Fail(e) ==
  /\ result[e] = "pending"
  /\ result' = [result EXCEPT ![e] = "failed"]
  /\ damaged' = [damaged EXCEPT ![e] = TRUE]
  /\ UNCHANGED << frames, content >>

Next == \E e \in Entries : Write(e) \/ Damage(e) \/ Publish(e) \/ Fail(e)

Spec == Init /\ [][Next]_vars
=============================================================================
