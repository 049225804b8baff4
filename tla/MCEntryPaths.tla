---------------------------- MODULE MCEntryPaths ----------------------------
(***************************************************************************)
(* Instances of EntryPaths: a few command lines, each with a reason to be   *)
(* listed, refused or extracted, and the output directories that exist,     *)
(* do not exist yet, or are reached through a link.                         *)
(***************************************************************************)
EXTENDS EntryPaths

a == 97
b == 98
A == 65
Dash == 45

MCReservedNames == {<< 78, 85, 76 >>}         \* NUL

Reg(rel) == [rel |-> rel, kind |-> "file"]
Plain(name) == Argument(name, "file", {})
Tree(name, below) == Argument(name, "dir", below)

\* Names that are text and names that are not.
Accented == << 195, 169 >>                    \* U+00E9
Euro == << 226, 130, 172 >>                   \* U+20AC
Clef == << 240, 157, 132, 158 >>              \* U+1D11E
Overlong == << 192, 175 >>                    \* a slash in two bytes
Surrogate == << 237, 160, 128 >>              \* U+D800
BeyondUnicode == << 244, 144, 128, 128 >>
RightToLeft == << 226, 128, 174 >>            \* U+202E
Truncated == << a, 226, 130 >>

MCInputs ==
  { << Plain(<< a >>), Plain(<< b >>) >>,
    << Tree(<< Dot, Slash, a >>, {Reg(<< b >>), Reg(<< a >>)}) >>,
    << Tree(<< Slash, a, Slash >>, {Reg(<< b, Slash, a >>), Reg(<< b, Slash, b >>)}) >>,
    << Tree(<< a >>, {Reg(<< b >>), [rel |-> << a >>, kind |-> "other"]}) >>,
    << Plain(<< a >>), Argument(<< b >>, "other", {}) >>,
    << Plain(<< a >>), Plain(<< A >>) >>,
    << Plain(<< a >>), Plain(<< Dot, Slash, a >>) >>,
    << Plain(<< a >>), Tree(<< Slash, a >>, {Reg(<< b >>)}) >>,
    << Tree(<< a >>, {Reg(<< b >>), Reg(<< a >>)}), Plain(<< b >>), Plain(<< A >>) >>,
    << Tree(<< Dot, Dot >>, {Reg(<< a >>)}) >>,
    << Plain(<< 110, 117, 108, Dot, a >>) >>,
    << Plain(<< a, Dot >>) >>, << Plain(<< a, Colon, b >>) >>, << Plain(<< a, Backslash, b >>) >> }
  \cup {<< Plain(name) >> : name \in {Accented, Euro, Clef, Overlong, Surrogate,
                                      BeyondUnicode, RightToLeft, Truncated, << 10, a >>}}

\* "/" holds the directory b, a link l to it, and elsewhere the directory z
\* with a file; in the second one the output directory b holds a link to z and
\* the file a.
l == 108
z == 122
MCLinkTarget == << << z >> >>
MCFileSystems ==
  { << Directory((<< b >> :> 2) @@ (<< l >> :> 3) @@ (<< z >> :> 4)),
       EmptyDirectory, Link(<< << b >> >>), Directory(<< a >> :> 5), File(-1) >>,
    << Directory((<< b >> :> 2) @@ (<< l >> :> 3) @@ (<< z >> :> 4)),
       Directory((<< b >> :> 6) @@ (<< a >> :> 7)), Link(<< << b >> >>),
       Directory(<< a >> :> 5), File(-1), Link(MCLinkTarget), File(-2) >> }

MCDestinations ==
  { << << b >> >>, << << l >> >>, << << l >>, << a, a >>, << Dot >>, << a >> >>, << << l >>, << Dot, Dot >>, << b >> >> }

\* "-" comes before "/" in the order of bytes.  The file is relative to the
\* working directory, the directory of the same name is in "/".
HiddenInputs ==
  { << Plain(<< a >>), Plain(<< a, Dash, b >>), Tree(<< Slash, a >>, {Reg(<< b >>)}) >> }
=============================================================================
