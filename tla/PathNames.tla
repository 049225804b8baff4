------------------------------ MODULE PathNames ------------------------------
(***************************************************************************)
(* The names of archive entries, zupt_format.c: what makes a name safe to   *)
(* extract, how a name is normalised, and which lists of names are refused  *)
(* because two entries would need the same place.                           *)
(*                                                                         *)
(* A name is a sequence of bytes.  The order of the bytes matters here: the *)
(* collision check sorts the names by it.                                   *)
(***************************************************************************)
EXTENDS Integers, Sequences, FiniteSets, SequencesExt

CONSTANTS
  MaxPath,        \* ZUPT_MAX_PATH
  ReservedNames   \* the DOS device names, in capitals: CON, NUL, COM1, ...

ASSUME PathConstants ==
  /\ MaxPath \in Nat \ {0}
  /\ \A name \in ReservedNames : name # << >> /\ \A i \in DOMAIN name : name[i] \in 48 .. 90

Space == 32
Dot == 46
Slash == 47
Colon == 58
Backslash == 92

Separators == {Slash, Backslash}
Capitals == 65 .. 90

Fold(c) == IF c \in Capitals THEN c + 32 ELSE c
Unfold(c) == IF c - 32 \in Capitals THEN c - 32 ELSE c

Continues(b) == b \in 128 .. 191

Byte == 0 .. 255
Names == Seq(Byte)

\* What s has at the places, in order: SelectSeq for a set of places.
Kept(s, places) ==
  LET kept[k \in 0 .. Len(s)] ==
        IF k = 0 THEN << >>
        ELSE IF k \in places THEN Append(kept[k - 1], s[k]) ELSE kept[k - 1]
  IN kept[Len(s)]

-----------------------------------------------------------------------------
\* The scalar that starts at s[i], in the shortest form only: its length and
\* its code point; length 0 when there is none.
NoScalar == [length |-> 0, point |-> 0]

\* Seeded fault: two-byte forms of ASCII are taken for scalars.
ScalarOverlong(s, i) ==
  LET a == s[i]
      b == IF i < Len(s) THEN s[i + 1] ELSE 0
  IN CASE a < 128 -> [length |-> 1, point |-> a]
       [] a \in 192 .. 223 /\ Continues(b) -> [length |-> 2, point |-> (a - 192) * 64 + b - 128]
       [] OTHER -> NoScalar

Scalar(s, i) ==
  LET a == s[i]
      at(k) == IF i + k <= Len(s) THEN s[i + k] ELSE 0
      b == at(1)
      c == at(2)
      d == at(3)
      two == a \in 194 .. 223 /\ Continues(b)
      three == /\ Continues(c)
               /\ \/ a = 224 /\ b \in 160 .. 191
                  \/ a \in 225 .. 236 \cup {238, 239} /\ Continues(b)
                  \/ a = 237 /\ b \in 128 .. 159
      four == /\ Continues(c) /\ Continues(d)
              /\ \/ a = 240 /\ b \in 144 .. 191
                 \/ a \in 241 .. 243 /\ Continues(b)
                 \/ a = 244 /\ b \in 128 .. 143
  IN IF a < 128 THEN [length |-> 1, point |-> a]
     ELSE IF two THEN [length |-> 2, point |-> (a - 192) * 64 + b - 128]
     ELSE IF three THEN [length |-> 3, point |-> ((a - 224) * 64 + b - 128) * 64 + c - 128]
     ELSE IF four THEN [length |-> 4,
                        point |-> (((a - 240) * 64 + b - 128) * 64 + c - 128) * 64 + d - 128]
     ELSE NoScalar

IsDisplayControl(point) ==
  \/ point < 32
  \/ point \in 127 .. 159 \cup 8203 .. 8207 \cup 8232 .. 8238 \cup 8288 .. 8303
  \/ point \in {1564, 65279} \cup 65529 .. 65531

\* The scan steps from scalar to scalar: next[i] is where it stands after s[i].
HasUnsafeText(s) ==
  LET bad[i \in 1 .. Len(s) + 1] ==
        IF i > Len(s) THEN FALSE
        ELSE LET scalar == Scalar(s, i)
             IN IF scalar.length = 0 \/ IsDisplayControl(scalar.point) THEN TRUE
                ELSE bad[i + scalar.length]
  IN bad[1]

-----------------------------------------------------------------------------
\* The parts of a name between separators; two in a row leave an empty part.
Components(s) ==
  LET ends == {i \in DOMAIN s : s[i] \in Separators} \cup {Len(s) + 1}
      after(from) == CHOOSE e \in ends : e > from /\ \A f \in ends : f > from => e <= f
      from == Kept([i \in 1 .. Len(s) + 1 |-> i - 1], {1} \cup {i \in 2 .. Len(s) + 1 : i - 1 \in ends})
  IN [k \in DOMAIN from |-> SubSeq(s, from[k] + 1, after(from[k]) - 1)]

IsReservedDosName(component) ==
  LET base == SelectInSeq(component, LAMBDA c : c = Dot)
      stem == IF base = 0 THEN component ELSE SubSeq(component, 1, base - 1)
  IN [i \in DOMAIN stem |-> Unfold(stem[i])] \in ReservedNames

ComponentIsSafe(component) ==
  /\ component \notin {<< Dot >>, << Dot, Dot >>}
  /\ Last(component) \notin {Dot, Space}
  /\ ~ IsReservedDosName(component)

PathIsSafe(s) ==
  /\ s # << >>
  /\ Len(s) < MaxPath
  /\ ~ HasUnsafeText(s)
  /\ s[1] \notin Separators
  /\ \A i \in DOMAIN s : s[i] # Colon
  /\ Last(s) \notin Separators
  /\ \A component \in Range(Components(s)) :
       component = << >> \/ ComponentIsSafe(component)

\* Separators become one slash each run; capitals are folded when asked.
Normalize(s, foldAscii) ==
  LET first(i) == s[i] \in Separators /\ i > 1 => s[i - 1] \notin Separators
      kept == Kept([i \in DOMAIN s |-> i], {i \in DOMAIN s : first(i)})
      normal(c) == IF c \in Separators THEN Slash ELSE IF foldAscii THEN Fold(c) ELSE c
  IN [k \in DOMAIN kept |-> normal(s[kept[k]])]

-----------------------------------------------------------------------------
\* strcmp: the first byte that differs decides, the end of a string is least.
ComesBefore(s, t) ==
  LET same == CHOOSE n \in 0 .. Len(s) :
                /\ n <= Len(t) /\ SubSeq(s, 1, n) = SubSeq(t, 1, n)
                /\ n < Len(s) /\ n < Len(t) => s[n + 1] # t[n + 1]
  IN \/ same = Len(s) /\ same < Len(t)
     \/ same < Len(s) /\ same < Len(t) /\ s[same + 1] < t[same + 1]

\* s names a file and t something below it, or they are the same name.
Collides(s, t) ==
  \/ s = t
  \/ Len(s) < Len(t) /\ SubSeq(t, 1, Len(s)) = s /\ t[Len(s) + 1] = Slash

\* zupt_validate_archive_destinations compares the neighbours of the sorted
\* keys only.
ValidDestinations(names) ==
  LET keys == SortSeq([i \in DOMAIN names |-> Normalize(names[i], TRUE)], ComesBefore)
  IN /\ \A i \in DOMAIN names : PathIsSafe(names[i])
     /\ \A i \in 2 .. Len(keys) : ~ Collides(keys[i - 1], keys[i])
=============================================================================
