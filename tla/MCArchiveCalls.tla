--------------------------- MODULE MCArchiveCalls ---------------------------
(***************************************************************************)
(* Instances of ArchiveCalls: blocks of two units, files of several blocks,  *)
(* with a shorter last one, empty ones and equal blocks, within a file and   *)
(* across; the layouts with the secrets they can be written for.            *)
(***************************************************************************)
EXTENDS ArchiveCalls

CONSTANTS u, v, w, x

File(path, content) == [path |-> path, content |-> content]

MCFileLists ==
  { << File("a", << u, v, w >>), File("b", << >>), File("c", << u, v >>) >>,
    << File("d", << u, v, Zero, Zero, u, v, w, u >>) >> }

MCIncompressible == {<< w, u >>, << w >>}

How(layout, dedup, kind, value, comment, threads) ==
  [layout |-> layout, dedup |-> dedup, kind |-> kind, value |-> value,
   codec |-> "LZHP", comment |-> comment, threads |-> threads]

MCWriteOptions ==
  { How("flat", FALSE, "none", "none", << >>, TRUE),
    How("flat", TRUE, "none", "none", << x >>, FALSE),
    How("flat", FALSE, "PBKDF2", "s", << x, x >>, TRUE),
    How("flat", TRUE, "PBKDF2", "s", << >>, FALSE),
    How("flat", TRUE, "PQ_HYBRID", "s", << >>, FALSE),
    How("flat", FALSE, "SDK_V2", "s", << >>, FALSE),
    How("solid", TRUE, "none", "none", << x >>, FALSE),
    How("solid", FALSE, "PQ_ONLY", "s", << >>, FALSE),
    How("disk", TRUE, "none", "none", << x >>, FALSE),
    How("disk", TRUE, "PBKDF2", "s", << >>, FALSE),
    How("disk", FALSE, "PQ_HYBRID", "s", << >>, FALSE),
    How("old disk", FALSE, "none", "none", << >>, FALSE),
    How("old disk", TRUE, "PBKDF2", "s", << >>, FALSE) }

Caller(form, value, legacy, quota) ==
  [secret |-> Secret(form, value), legacy |-> legacy, quota |-> quota]

MCReadOptions ==
  { Caller("password", "s", FALSE, 0), Caller("password", "s", TRUE, 0),
    Caller("password", "t", TRUE, 0), Caller("zkey", "s", FALSE, 0),
    Caller("zkey", "t", FALSE, 0), Caller("zpqk", "s", FALSE, 0),
    Caller("password", "s", FALSE, 5) }
=============================================================================
