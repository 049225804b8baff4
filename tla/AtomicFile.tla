----------------------------- MODULE AtomicFile -----------------------------
(***************************************************************************)
(* What publishing through a private temporary file promises about a name: *)
(* it shows no file, the file that was there, or the whole file of one      *)
(* writer, and it changes in one step.  A crash may take the name back to   *)
(* something it showed since the directory was last synced.                 *)
(***************************************************************************)
CONSTANTS
  Writers,     \* those who want to publish under the name
  Replacing,   \* the writers that may replace a file (archives)
  NoFile,      \* the name is not taken
  First        \* what the name may show at first: files or NoFile

VARIABLES
  shown,       \* what the name shows
  durable,     \* what it may show after a crash
  complete     \* the writers whose file is complete

vars == << shown, durable, complete >>

Init == shown \in First /\ durable = {shown} /\ complete = {}

\* A writer has written its file to the end and to the disk.
Complete(w) == complete' = complete \cup {w} /\ UNCHANGED << shown, durable >>

\* The name changes, to a complete file, and only a replacing writer takes a
\* name that is in use.
Publish(w) ==
  /\ w \in complete
  /\ w \in Replacing \/ shown = NoFile
  /\ shown' = w
  /\ durable' = durable \cup {w}
  /\ UNCHANGED complete

\* The directory reaches the disk, or less of it than before is in doubt.
Settle ==
  /\ durable' \in SUBSET durable
  /\ shown \in durable'
  /\ UNCHANGED << shown, complete >>

\* What the name showed since the directory was last synced, and data that were
\* not synced may have reached the disk all the same.
Crash ==
  /\ shown' \in durable
  /\ durable' = {shown'}
  /\ complete' \in SUBSET Writers
  /\ complete \subseteq complete'

Next ==
  \/ \E w \in Writers : Complete(w) \/ Publish(w)
  \/ Settle \/ Crash

Spec == Init /\ [][Next]_vars
=============================================================================
