---------------------------- MODULE MCDiskImage -----------------------------
(***************************************************************************)
(* Instances of DiskImage: images of up to three blocks of two units with   *)
(* equal, zero and short blocks, backed up in every way, and restored to    *)
(* every kind of target, larger and smaller than the image.                 *)
(***************************************************************************)
EXTENDS DiskImage

CONSTANTS u, v, old

Name == << 100, 101, 118, Slash, 100 >>          \* dev/d
NulName == << 100, 101, 118, Slash, 110, 117, 108, 46, 100 >>   \* dev/nul.d
RightToLeft == << 100, 226, 128, 174 >>          \* d and U+202E
MCReservedNames == {<< 78, 85, 76 >>}            \* NUL

Image1 == << u, v, u, v, u >>
Image2 == << Zero, Zero, u, v >>
Image3 == << v, u, v, u, u >>

Source(name, relation, content) == [name |-> name, relation |-> relation, content |-> content]
MCSources == { Source(Name, "other", Image1), Source(NulName, "other", Image2),
               Source(Name, "same", Image1), Source(Name, "unknown", Image1),
               Source(Name, "other", << >>), Source(Name, "other", Image1 \o Image2) }
MCUnsafeSources == { Source(<< 100, 101, 118, Slash >> \o RightToLeft, "other", Image1) }
MCChanged == { Image3, << u, v, u >>, Image1 \o << u >> }

How(layout, dedup, kind, value) ==
  [layout |-> layout, dedup |-> dedup, kind |-> kind, value |-> value,
   codec |-> "VV", comment |-> << >>, threads |-> FALSE]
MCDiskOptions == { How("disk", TRUE, "none", "none"), How("disk", FALSE, "none", "none"),
                   How("disk", TRUE, "PBKDF2", "s"),
                   How("disk", FALSE, "PQ_ONLY", "s"), How("disk", FALSE, "SDK_V2", "s") }

MCIncompressible == {<< v, u >>}

Earlier1(layout, dedup, kind, content) ==
  Written(<< [path |-> << 100 >>, content |-> content] >>, How(layout, dedup, kind, "s"))
MCEarlier == { NoArchive, Earlier1("disk", TRUE, "PBKDF2", Image3),
               Earlier1("old disk", TRUE, "PBKDF2", Image1), Earlier1("flat", TRUE, "none", Image2) }
MCOverwrites == { Earlier1("disk", TRUE, "PBKDF2", Image1), Earlier1("disk", FALSE, "none", Image3),
                  Earlier1("disk", FALSE, "none", Image2) }

Reader(form, value) == [secret |-> Secret(form, value), legacy |-> FALSE, quota |-> 0]
MCReaders == { Reader("password", "s"), Reader("zpqk", "s"), Reader("password", "t") }

Target(kind, content) == [kind |-> kind, content |-> content]
MCTargets ==
  { Target("file", << old >>), Target("missing", << >>),
    Target("device", << old, old, old, old, old, old >>),
    Target("device", << old, old, old, old >>) }
  \cup { Target(kind, << old >>) :
           kind \in {"archive", "linked twice", "link", "other", "denied", "unknown device"} }
-----------------------------------------------------------------------------
\* The hypotheses of the theorems in Archives_proof hold in this instance.
ASSUME MCHypotheses ==
  ArchivesAreWritten /\ \A s \in MCSources : NameIsAccepted(Label(s.name))
=============================================================================
