--------------------------- MODULE EntryPaths_proof ---------------------------
(***************************************************************************)
(* Proofs about EntryPaths: the types, the walk that stays on its way,     *)
(* extraction that only adds, names that are text, lists that are complete *)
(* and whose names every reader accepts, and entries that end under their  *)
(* names below the output directory.  The operators that scan a name or a  *)
(* path are recursive functions; their proofs are inductions over the      *)
(* position, by the lemmas of the first section.                           *)
(***************************************************************************)
EXTENDS EntryPaths, FiniteSetTheorems, SequenceTheorems, TLAPS

-----------------------------------------------------------------------------
(* Induction and recursive functions *)

\* A set that holds 0 and with each number the next holds all numbers: the least
\* interval that ends outside would be a minimal one.
LEMMA Induction ==
  ASSUME NEW T, 0 \in T, \A k \in Nat : k \in T => k + 1 \in T
  PROVE  Nat \subseteq T
<1> DEFINE R == StrictSubsetOrdering(Nat)
           Missed == {0 .. k : k \in Nat \ T}
<1>1. IsWellFoundedOn(R, FiniteSubsetsOf(Nat))
  BY FS_StrictSubsetOrderingWellFounded
<1>2. Missed \subseteq FiniteSubsetsOf(Nat)
  <2>1. \A k \in Nat : IsFiniteSet(0 .. k) /\ 0 .. k \in SUBSET Nat
    BY FS_Interval
  <2> QED
    BY <2>1 DEF FiniteSubsetsOf
<1>3. SUFFICES ASSUME Missed # {} PROVE FALSE
  OBVIOUS
<1>4. \A k \in Nat : k > 0 => << 0 .. k - 1, 0 .. k >> \in R
  <2> TAKE k \in Nat
  <2> HAVE k > 0
  <2>1. 0 .. k - 1 \subseteq 0 .. k /\ 0 .. k \subseteq Nat /\ 0 .. k - 1 \subseteq Nat
    OBVIOUS
  <2>2. k \in 0 .. k /\ k \notin 0 .. k - 1
    OBVIOUS
  <2>3. 0 .. k - 1 # 0 .. k
    BY <2>2
  <2> QED
    BY <2>1, <2>3 DEF StrictSubsetOrdering
<1> HIDE DEF R
<1>5. PICK low \in Missed : \A y \in Missed : ~ (<< y, low >> \in R)
  <2> HIDE DEF Missed
  <2> QED
    BY <1>1, <1>2, <1>3, WFMin
<1>6. PICK x \in Nat \ T : low = 0 .. x
  OBVIOUS
<1>7. x > 0 /\ x - 1 \in Nat /\ x = (x - 1) + 1
  OBVIOUS
<1>8. x - 1 \notin T
  BY <1>7
<1>9. 0 .. x - 1 \in Missed
  BY <1>7, <1>8
<1>10. << 0 .. x - 1, low >> \in R
  BY <1>4, <1>6, <1>7
<1> QED
  BY <1>5, <1>9, <1>10

\* The same up to a bound.
LEMMA BoundedInduction ==
  ASSUME NEW n \in Nat, NEW T, 0 \in T, \A k \in 0 .. n - 1 : k \in T => k + 1 \in T
  PROVE  \A k \in 0 .. n : k \in T
<1> DEFINE S == {k \in Nat : k <= n => k \in T}
<1>1. 0 \in S
  OBVIOUS
<1>2. \A k \in Nat : k \in S => k + 1 \in S
  OBVIOUS
<1>3. Nat \subseteq S
  <2> HIDE DEF S
  <2> QED
    BY <1>1, <1>2, Induction
<1> QED
  BY <1>3

\* f holds x0 at 0, and each later value is made from the one before.
Iterates(f, n, X, x0, H) ==
  f \in [0 .. n -> X] /\ f[0] = x0 /\ \A k \in 1 .. n : f[k] = H[k][f[k - 1]]

\* Such a function exists.
LEMMA IterationExists ==
  ASSUME NEW n \in Nat, NEW X, NEW x0 \in X, NEW H \in [1 .. n -> [X -> X]]
  PROVE  \E f : Iterates(f, n, X, x0, H)
<1> DEFINE Good(m, f) == f[0] = x0 /\ \A k \in 1 .. m : f[k] = H[k][f[k - 1]]
           T == {m \in Nat : \E f \in [0 .. m -> X] : Good(m, f)}
<1>1. 0 \in T
  <2>1. [k \in 0 .. 0 |-> x0] \in [0 .. 0 -> X] /\ Good(0, [k \in 0 .. 0 |-> x0])
    OBVIOUS
  <2> QED
    BY <2>1
<1>2. ASSUME NEW m \in 0 .. n - 1, m \in T
      PROVE  m + 1 \in T
  <2>1. PICK f \in [0 .. m -> X] : Good(m, f)
    BY <1>2
  <2> DEFINE g == [k \in 0 .. m + 1 |-> IF k = m + 1 THEN H[m + 1][f[m]] ELSE f[k]]
  <2>2. H[m + 1] \in [X -> X] /\ f[m] \in X
    OBVIOUS
  <2>3. g \in [0 .. m + 1 -> X]
    BY <2>2
  <2>4. g[0] = x0
    BY <2>1
  <2>5. ASSUME NEW k \in 1 .. m + 1 PROVE g[k] = H[k][g[k - 1]]
    <3>1. CASE k = m + 1
      BY <3>1
    <3>2. CASE k # m + 1
      BY <3>2, <2>1
    <3> QED
      BY <3>1, <3>2
  <2> HIDE DEF g
  <2>6. Good(m + 1, g)
    BY <2>4, <2>5
  <2> HIDE DEF Good
  <2> QED
    BY <2>3, <2>6
<1>3. \A k \in 0 .. n : k \in T
  <2> HIDE DEF T
  <2> QED
    BY <1>1, <1>2, BoundedInduction
<1> QED
  BY <1>3 DEF Iterates

\* f has a given value at some numbers, and elsewhere its own at a greater one.
Scans(f, n, X, stops, val, next) ==
  /\ f \in [0 .. n -> X]
  /\ \A k \in 0 .. n : f[k] = IF k \in stops THEN val[k] ELSE f[next[k]]

\* Such a function exists.
LEMMA ScanExists ==
  ASSUME NEW n \in Nat, NEW X, NEW stops \in SUBSET (0 .. n), NEW val \in [stops -> X],
         NEW next \in [(0 .. n) \ stops -> 0 .. n], \A k \in (0 .. n) \ stops : next[k] > k
  PROVE  \E f : Scans(f, n, X, stops, val, next)
<1> DEFINE Good(m, f) == \A k \in n - m .. n : f[k] = IF k \in stops THEN val[k] ELSE f[next[k]]
           T == {m \in Nat : \E f \in [n - m .. n -> X] : Good(m, f)}
<1>1. 0 \in T
  <2>1. n \in stops
    OBVIOUS
  <2>2. val[n] \in X
    BY <2>1
  <2>3. [k \in n - 0 .. n |-> val[n]] \in [n - 0 .. n -> X]
    BY <2>2
  <2>4. Good(0, [k \in n - 0 .. n |-> val[n]])
    BY <2>1
  <2> QED
    BY <2>3, <2>4
<1>2. ASSUME NEW m \in 0 .. n - 1, m \in T
      PROVE  m + 1 \in T
  <2>1. PICK f \in [n - m .. n -> X] : Good(m, f)
    BY <1>2
  <2> DEFINE low == n - (m + 1)
             g == [k \in low .. n |->
                     IF k = low THEN IF low \in stops THEN val[low] ELSE f[next[low]] ELSE f[k]]
  <2>2. low \in 0 .. n /\ (low \notin stops => next[low] \in n - m .. n)
    OBVIOUS
  <2>3. (IF low \in stops THEN val[low] ELSE f[next[low]]) \in X
    BY <2>2
  <2>4. g \in [low .. n -> X]
    BY <2>3
  <2>5. ASSUME NEW k \in low .. n PROVE g[k] = IF k \in stops THEN val[k] ELSE g[next[k]]
    <3>1. CASE k = low
      BY <3>1, <2>2
    <3>2. CASE k # low
      <4>1. k \in n - m .. n /\ k \in 0 .. n
        BY <3>2
      <4>2. f[k] = IF k \in stops THEN val[k] ELSE f[next[k]]
        BY <4>1, <2>1
      <4>3. k \notin stops => next[k] \in n - m .. n /\ next[k] # low
        BY <4>1
      <4> QED
        BY <3>2, <4>1, <4>2, <4>3
    <3> QED
      BY <3>1, <3>2
  <2> HIDE DEF g
  <2> QED
    BY <2>4, <2>5
<1>3. \A k \in 0 .. n : k \in T
  <2> HIDE DEF T
  <2> QED
    BY <1>1, <1>2, BoundedInduction
<1>4. n \in T
  <2> HIDE DEF T
  <2> QED
    BY <1>3
<1>5. PICK f \in [n - n .. n -> X] : Good(n, f)
  BY <1>4
<1>6. Scans(f, n, X, stops, val, next)
  BY <1>5 DEF Scans
<1> QED
  BY <1>6

\* A set of numbers that is not empty has a least one.
LEMMA LeastExists ==
  ASSUME NEW S \in SUBSET Nat, S # {}
  PROVE  \E low \in S : \A x \in S : low <= x
<1> DEFINE T == {k \in Nat : \A x \in S : k <= x}
<1>1. SUFFICES ASSUME \A low \in S : \E x \in S : x < low
               PROVE  FALSE
  OBVIOUS
<1>2. 0 \in T
  OBVIOUS
<1>3. \A k \in Nat : k \in T => k + 1 \in T
  BY <1>1
<1>4. Nat \subseteq T
  <2> HIDE DEF T
  <2> QED
    BY <1>2, <1>3, Induction
<1>5. PICK x \in S : TRUE
  OBVIOUS
<1>6. x + 1 \in T
  BY <1>4
<1> QED
  BY <1>6

-----------------------------------------------------------------------------
(* Names *)

\* What is kept of the beginnings of a sequence.
Keeps(kept, s, places) ==
  /\ Kept(s, places) = kept[Len(s)]
  /\ kept[0] = << >>
  /\ \A k \in 1 .. Len(s) :
       kept[k] = IF k \in places THEN Append(kept[k - 1], s[k]) ELSE kept[k - 1]

LEMMA KeptSteps ==
  ASSUME NEW S, NEW s \in Seq(S), NEW places
  PROVE  \E kept : Keeps(kept, s, places) /\ \A k \in 0 .. Len(s) : kept[k] \in Seq(S)
<1> DEFINE n == Len(s)
           body(f) == [k \in 0 .. n |->
                         IF k = 0 THEN << >>
                         ELSE IF k \in places THEN Append(f[k - 1], s[k]) ELSE f[k - 1]]
           kept == CHOOSE f : f = body(f)
           H == [k \in 1 .. n |-> [q \in Seq(S) |-> IF k \in places THEN Append(q, s[k]) ELSE q]]
<1>1. H \in [1 .. n -> [Seq(S) -> Seq(S)]]
  OBVIOUS
<1>0. n \in Nat /\ << >> \in Seq(S)
  OBVIOUS
<1>2. PICK f : Iterates(f, n, Seq(S), << >>, H)
  <2> HIDE DEF H, n
  <2> QED
    BY <1>0, <1>1, IterationExists
<1>3. ASSUME NEW k \in 1 .. n
      PROVE  f[k] = IF k \in places THEN Append(f[k - 1], s[k]) ELSE f[k - 1]
  <2>1. f[k - 1] \in Seq(S)
    BY <1>2 DEF Iterates
  <2>2. f[k] = H[k][f[k - 1]]
    BY <1>2 DEF Iterates
  <2> QED
    BY <2>1, <2>2
<1>4. f = body(f)
  <2> HIDE DEF H
  <2>1. \A k \in 0 .. n : k # 0 => k \in 1 .. n
    BY <1>0
  <2>2. \A k \in 0 .. n : f[k] = body(f)[k]
    BY <1>2, <1>3, <2>1 DEF Iterates
  <2> HIDE DEF n
  <2> QED
    BY <1>2, <2>2 DEF Iterates
<1>5. kept = body(kept)
  <2> HIDE DEF body
  <2> QED
    BY <1>4
<1>7. Kept(s, places) = kept[n]
  BY DEF Kept
<1> HIDE DEF kept
<1>8. \A k \in 0 .. n :
        kept[k] = IF k = 0 THEN << >>
                  ELSE IF k \in places THEN Append(kept[k - 1], s[k]) ELSE kept[k - 1]
  BY <1>5
<1> HIDE DEF n
<1>9. kept[0] = << >>
  BY <1>0, <1>8
<1>10. \A k \in 1 .. n :
         kept[k] = IF k \in places THEN Append(kept[k - 1], s[k]) ELSE kept[k - 1]
  BY <1>0, <1>8
<1> DEFINE T == {j \in Nat : kept[j] \in Seq(S)}
<1>11. 0 \in T
  BY <1>0, <1>9
<1>12. \A k \in 0 .. n - 1 : k \in T => k + 1 \in T
  <2> TAKE k \in 0 .. n - 1
  <2> HAVE k \in T
  <2>1. k + 1 \in 1 .. n /\ k + 1 - 1 = k
    BY <1>0
  <2>2. kept[k + 1] = IF k + 1 \in places THEN Append(kept[k], s[k + 1]) ELSE kept[k]
    BY <1>10, <2>1
  <2>3. kept[k] \in Seq(S) /\ s[k + 1] \in S
    BY <2>1 DEF n
  <2>4. kept[k + 1] \in Seq(S)
    BY <2>2, <2>3
  <2> QED
    BY <2>1, <2>4
<1>13. \A k \in 0 .. n : k \in T
  <2> HIDE DEF T
  <2> QED
    BY <1>0, <1>11, <1>12, BoundedInduction
<1>14. Keeps(kept, s, places)
  BY <1>7, <1>9, <1>10 DEF Keeps, n
<1> QED
  BY <1>13, <1>14 DEF n

\* What is kept of a sequence is a sequence of the same things.
LEMMA KeptType ==
  ASSUME NEW S, NEW s \in Seq(S), NEW places
  PROVE  Kept(s, places) \in Seq(S)
<1>1. PICK kept : Keeps(kept, s, places) /\ \A k \in 0 .. Len(s) : kept[k] \in Seq(S)
  BY KeptSteps
<1>2. Len(s) \in 0 .. Len(s)
  OBVIOUS
<1> QED
  BY <1>1, <1>2 DEF Keeps

\* When all places are kept, the sequence is.
LEMMA KeptAll ==
  ASSUME NEW S, NEW s \in Seq(S), NEW places, DOMAIN s \subseteq places
  PROVE  Kept(s, places) = s
<1>1. PICK kept : Keeps(kept, s, places) /\ \A k \in 0 .. Len(s) : kept[k] \in Seq(S)
  BY KeptSteps
<1> DEFINE n == Len(s)
           T == {k \in Nat : Len(kept[k]) = k /\ \A j \in 1 .. k : kept[k][j] = s[j]}
<1>2. n \in Nat /\ DOMAIN s = 1 .. n
  OBVIOUS
<1>3. 0 \in T
  BY <1>1 DEF Keeps
<1>4. \A k \in 0 .. n - 1 : k \in T => k + 1 \in T
  <2> TAKE k \in 0 .. n - 1
  <2> HAVE k \in T
  <2>1. k + 1 \in 1 .. n /\ k + 1 - 1 = k /\ k \in 0 .. n
    BY <1>2
  <2>2. kept[k + 1] = Append(kept[k], s[k + 1])
    <3>1. k + 1 \in places
      BY <1>2, <2>1
    <3>2. kept[k + 1] = IF k + 1 \in places THEN Append(kept[k], s[k + 1]) ELSE kept[k]
      BY <1>1, <2>1 DEF Keeps
    <3> QED
      BY <3>1, <3>2
  <2>3. kept[k] \in Seq(S) /\ s[k + 1] \in S
    BY <1>1, <2>1
  <2>4. Len(kept[k]) = k /\ \A j \in 1 .. k : kept[k][j] = s[j]
    OBVIOUS
  <2>5. Len(kept[k + 1]) = k + 1 /\ \A j \in 1 .. k + 1 : kept[k + 1][j] = s[j]
    BY <2>1, <2>2, <2>3, <2>4
  <2> QED
    BY <2>1, <2>5
<1>5. n \in T
  <2> HIDE DEF T, n
  <2>1. \A k \in 0 .. n : k \in T
    BY <1>2, <1>3, <1>4, BoundedInduction
  <2> QED
    BY <1>2, <2>1
<1>6. kept[n] \in Seq(S) /\ Kept(s, places) = kept[n]
  BY <1>1, <1>2 DEF Keeps
<1> QED
  BY <1>5, <1>6, SeqEqual

\* Exactly what is at the places is kept.
LEMMA KeptRange ==
  ASSUME NEW S, NEW s \in Seq(S), NEW places
  PROVE  Range(Kept(s, places)) = {s[k] : k \in places \cap DOMAIN s}
<1>1. PICK kept : Keeps(kept, s, places) /\ \A k \in 0 .. Len(s) : kept[k] \in Seq(S)
  BY KeptSteps
<1> DEFINE n == Len(s)
           T == {k \in Nat : Range(kept[k]) = {s[j] : j \in {i \in 1 .. k : i \in places}}}
<1>2. n \in Nat /\ DOMAIN s = 1 .. n
  OBVIOUS
<1>3. 0 \in T
  <2>1. kept[0] = << >>
    BY <1>1 DEF Keeps
  <2>2. Range(kept[0]) = {}
    BY <2>1 DEF Range
  <2> QED
    BY <2>2
<1>4. \A k \in 0 .. n - 1 : k \in T => k + 1 \in T
  <2> TAKE k \in 0 .. n - 1
  <2> HAVE k \in T
  <2>1. k + 1 \in 1 .. n /\ k + 1 - 1 = k /\ k \in 0 .. n
    BY <1>2
  <2>2. kept[k + 1] = IF k + 1 \in places THEN Append(kept[k], s[k + 1]) ELSE kept[k]
    BY <1>1, <2>1 DEF Keeps
  <2>3. kept[k] \in Seq(S) /\ s[k + 1] \in S
    BY <1>1, <2>1
  <2>4. Range(Append(kept[k], s[k + 1])) = Range(kept[k]) \cup {s[k + 1]}
    <3> DEFINE q == kept[k]
               x == s[k + 1]
    <3>1. q \in Seq(S) /\ x \in S
      BY <2>3
    <3> HIDE DEF q, x
    <3>2. /\ DOMAIN q = 1 .. Len(q) /\ Len(q) \in Nat /\ DOMAIN Append(q, x) = 1 .. Len(q) + 1
          /\ Append(q, x)[Len(q) + 1] = x /\ \A j \in 1 .. Len(q) : Append(q, x)[j] = q[j]
      BY <3>1
    <3>3. Range(Append(q, x)) = Range(q) \cup {x}
      BY <3>2 DEF Range
    <3> QED
      BY <3>3 DEF q, x
  <2>5. Range(kept[k]) = {s[j] : j \in {i \in 1 .. k : i \in places}}
    OBVIOUS
  <2>6. {i \in 1 .. k + 1 : i \in places}
        = {i \in 1 .. k : i \in places} \cup (IF k + 1 \in places THEN {k + 1} ELSE {})
    BY <2>1
  <2>7. Range(kept[k + 1]) = {s[j] : j \in {i \in 1 .. k + 1 : i \in places}}
    BY <2>2, <2>4, <2>5, <2>6
  <2> QED
    BY <2>1, <2>7
<1>5. n \in T
  <2> HIDE DEF T, n
  <2>1. \A k \in 0 .. n : k \in T
    BY <1>2, <1>3, <1>4, BoundedInduction
  <2> QED
    BY <1>2, <2>1
<1>6. Kept(s, places) = kept[n]
  BY <1>1 DEF Keeps
<1>7. {i \in 1 .. n : i \in places} = places \cap DOMAIN s
  BY <1>2
<1> QED
  BY <1>5, <1>6, <1>7

\* Keeping places is keeping what is at them.
LEMMA KeptOfIndices ==
  ASSUME NEW S, NEW s \in Seq(S), NEW places
  PROVE  LET kept == Kept([i \in DOMAIN s |-> i], places)
         IN [k \in DOMAIN kept |-> s[kept[k]]] = Kept(s, places)
<1> DEFINE n == Len(s)
           indices == [i \in DOMAIN s |-> i]
           At(q) == [j \in DOMAIN q |-> s[q[j]]]
<1>0. n \in Nat /\ DOMAIN s = 1 .. n
  OBVIOUS
<1>1. indices \in Seq(1 .. n) /\ Len(indices) = n /\ \A k \in 1 .. n : indices[k] = k
  BY <1>0
<1> HIDE DEF indices
<1>2. PICK of : Keeps(of, indices, places) /\ \A k \in 0 .. Len(indices) : of[k] \in Seq(1 .. n)
  BY <1>1, KeptSteps
<1>3. PICK kept : Keeps(kept, s, places) /\ \A k \in 0 .. n : kept[k] \in Seq(S)
  BY KeptSteps
<1> DEFINE T == {k \in Nat : At(of[k]) = kept[k]}
<1>4. 0 \in T
  <2>1. of[0] = << >> /\ kept[0] = << >>
    BY <1>2, <1>3 DEF Keeps
  <2> QED
    BY <2>1
<1>5. \A k \in 0 .. n - 1 : k \in T => k + 1 \in T
  <2> TAKE k \in 0 .. n - 1
  <2> HAVE k \in T
  <2>1. k + 1 \in 1 .. n /\ k + 1 - 1 = k /\ k \in 0 .. n
    BY <1>0
  <2>2. kept[k + 1] = IF k + 1 \in places THEN Append(kept[k], s[k + 1]) ELSE kept[k]
    BY <1>3, <2>1 DEF Keeps
  <2>3. of[k + 1] = IF k + 1 \in places THEN Append(of[k], k + 1) ELSE of[k]
    <3>1. k + 1 \in 1 .. Len(indices) /\ indices[k + 1] = k + 1
      BY <1>1, <2>1
    <3>2. of[k + 1] = IF k + 1 \in places THEN Append(of[k], indices[k + 1]) ELSE of[k]
      BY <1>2, <2>1, <3>1 DEF Keeps
    <3> QED
      BY <3>1, <3>2
  <2>4. of[k] \in Seq(1 .. n) /\ kept[k] \in Seq(S)
    BY <1>1, <1>2, <1>3, <2>1
  <2>5. At(of[k]) = kept[k]
    OBVIOUS
  <2>6. At(Append(of[k], k + 1)) = Append(At(of[k]), s[k + 1])
    <3> DEFINE q == of[k]
    <3>1. q \in Seq(1 .. n)
      BY <2>4
    <3> HIDE DEF q, n
    <3>2. /\ DOMAIN q = 1 .. Len(q) /\ Len(q) \in Nat /\ DOMAIN Append(q, k + 1) = 1 .. Len(q) + 1
          /\ Append(q, k + 1)[Len(q) + 1] = k + 1
          /\ \A j \in 1 .. Len(q) : Append(q, k + 1)[j] = q[j] /\ q[j] \in 1 .. n
      <4> DEFINE I == 1 .. n
      <4>1. q \in Seq(I) /\ k + 1 \in I
        BY <2>1, <3>1
      <4> HIDE DEF I
      <4>2. /\ DOMAIN q = 1 .. Len(q) /\ Len(q) \in Nat /\ DOMAIN Append(q, k + 1) = 1 .. Len(q) + 1
            /\ Append(q, k + 1)[Len(q) + 1] = k + 1
            /\ \A j \in 1 .. Len(q) : Append(q, k + 1)[j] = q[j] /\ q[j] \in I
        BY <4>1
      <4> QED
        BY <4>2 DEF I
    <3>3. At(q) \in Seq(S) /\ Len(At(q)) = Len(q) /\ s[k + 1] \in S
      BY <1>0, <2>1, <3>2
    <3>4. At(Append(q, k + 1)) \in Seq(S) /\ Len(At(Append(q, k + 1))) = Len(q) + 1
      BY <1>0, <2>1, <3>2
    <3>5. \A j \in 1 .. Len(q) + 1 : At(Append(q, k + 1))[j] = IF j = Len(q) + 1 THEN s[k + 1] ELSE s[q[j]]
      BY <3>2
    <3>6. \A j \in 1 .. Len(q) : At(q)[j] = s[q[j]]
      BY <3>2
    <3> HIDE DEF At
    <3>7. Append(At(q), s[k + 1]) \in Seq(S) /\ Len(Append(At(q), s[k + 1])) = Len(q) + 1
          /\ \A j \in 1 .. Len(q) + 1 :
               Append(At(q), s[k + 1])[j] = IF j = Len(q) + 1 THEN s[k + 1] ELSE s[q[j]]
      BY <3>2, <3>3, <3>6
    <3>8. At(Append(q, k + 1)) = Append(At(q), s[k + 1])
      <4> DEFINE one == At(Append(q, k + 1))
                 other == Append(At(q), s[k + 1])
      <4>1. one \in Seq(S) /\ other \in Seq(S) /\ Len(one) = Len(other)
        BY <3>4, <3>7
      <4>2. \A j \in 1 .. Len(one) : one[j] = other[j]
        BY <3>4, <3>5, <3>7
      <4> HIDE DEF one, other
      <4>3. one = other
        BY <4>1, <4>2, SeqEqual
      <4> QED
        BY <4>3 DEF one, other
    <3> QED
      BY <3>8 DEF q
  <2> HIDE DEF At
  <2>7. At(of[k + 1]) = kept[k + 1]
    <3>1. CASE k + 1 \in places
      <4>1. of[k + 1] = Append(of[k], k + 1) /\ kept[k + 1] = Append(kept[k], s[k + 1])
        BY <2>2, <2>3, <3>1
      <4> QED
        BY <2>5, <2>6, <4>1
    <3>2. CASE k + 1 \notin places
      <4>1. of[k + 1] = of[k] /\ kept[k + 1] = kept[k]
        BY <2>2, <2>3, <3>2
      <4> QED
        BY <2>5, <4>1
    <3> QED
      BY <3>1, <3>2
  <2> QED
    BY <2>1, <2>7
<1>6. n \in T
  <2> HIDE DEF T, n
  <2>1. \A k \in 0 .. n : k \in T
    BY <1>0, <1>4, <1>5, BoundedInduction
  <2> QED
    BY <1>0, <2>1
<1>7. Kept(s, places) = kept[n] /\ Kept(indices, places) = of[n]
  BY <1>1, <1>2, <1>3 DEF Keeps
<1>8. At(Kept(indices, places)) = Kept(s, places)
  BY <1>6, <1>7
<1> QED
  BY <1>8 DEF indices

\* A sequence without the element at one place.
LEMMA RemoveAtType ==
  ASSUME NEW S, NEW s \in Seq(S), NEW i \in 1 .. Len(s)
  PROVE  /\ RemoveAt(s, i) \in Seq(S)
         /\ Len(RemoveAt(s, i)) = Len(s) - 1
         /\ \A k \in 1 .. Len(s) - 1 : RemoveAt(s, i)[k] = IF k < i THEN s[k] ELSE s[k + 1]
<1> DEFINE head == SubSeq(s, 1, i - 1)
           tail == SubSeq(s, i + 1, Len(s))
           n == Len(s)
<1>0. n \in Nat /\ i \in 1 .. n /\ \A k \in 1 .. n : s[k] \in S
  OBVIOUS
<1>1. head \in Seq(S) /\ Len(head) = i - 1 /\ \A k \in 1 .. i - 1 : head[k] = s[k]
  <2>1. \A k \in 1 .. i - 1 : s[k] \in S
    BY <1>0
  <2>2. /\ head \in Seq(S) /\ Len(head) = (IF 1 <= i - 1 THEN i - 1 - 1 + 1 ELSE 0)
        /\ \A k \in 1 .. i - 1 - 1 + 1 : head[k] = s[1 + k - 1]
    <3> HIDE DEF head
    <3> QED
      BY <1>0, <2>1, SubSeqProperties DEF head
  <2> HIDE DEF head
  <2> QED
    BY <1>0, <2>2
<1>2. tail \in Seq(S) /\ Len(tail) = n - i /\ \A k \in 1 .. n - i : tail[k] = s[i + k]
  <2>1. \A k \in i + 1 .. n : s[k] \in S
    BY <1>0
  <2>2. /\ tail \in Seq(S) /\ Len(tail) = (IF i + 1 <= n THEN n - (i + 1) + 1 ELSE 0)
        /\ \A k \in 1 .. n - (i + 1) + 1 : tail[k] = s[i + 1 + k - 1]
    <3> HIDE DEF tail
    <3> QED
      BY <1>0, <2>1, SubSeqProperties DEF tail
  <2> HIDE DEF tail
  <2> QED
    BY <1>0, <2>2
<1> HIDE DEF head, tail
<1>3. /\ head \o tail \in Seq(S) /\ Len(head \o tail) = n - 1
      /\ \A k \in 1 .. n - 1 : (head \o tail)[k] = IF k <= i - 1 THEN head[k] ELSE tail[k - (i - 1)]
  BY <1>0, <1>1, <1>2, ConcatProperties
<1>4. \A k \in 1 .. n - 1 : (head \o tail)[k] = IF k < i THEN s[k] ELSE s[k + 1]
  <2> TAKE k \in 1 .. n - 1
  <2>1. CASE k < i
    BY <1>0, <1>1, <1>3, <2>1
  <2>2. CASE ~ (k < i)
    <3>1. k - (i - 1) \in 1 .. n - i /\ i + (k - (i - 1)) = k + 1
      BY <1>0, <2>2
    <3> QED
      BY <1>0, <1>2, <1>3, <2>2, <3>1
  <2> QED
    BY <2>1, <2>2
<1>5. RemoveAt(s, i) = head \o tail
  BY DEF RemoveAt, head, tail
<1> QED
  BY <1>3, <1>4, <1>5 DEF n

\* An element that is not kept makes no difference.
LEMMA KeptWithoutOne ==
  ASSUME NEW S, NEW s \in Seq(S), NEW i \in 1 .. Len(s), NEW places, i \notin places,
         NEW others, \A k \in 1 .. Len(s) - 1 : k \in others <=> (IF k < i THEN k ELSE k + 1) \in places
  PROVE  Kept(RemoveAt(s, i), others) = Kept(s, places)
<1> DEFINE n == Len(s)
           t == RemoveAt(s, i)
<1>0. n \in Nat /\ i \in 1 .. n
  OBVIOUS
<1>1. /\ t \in Seq(S) /\ Len(t) = n - 1
      /\ \A k \in 1 .. n - 1 : t[k] = IF k < i THEN s[k] ELSE s[k + 1]
  BY RemoveAtType
<1> HIDE DEF t
<1>2. PICK kept : Keeps(kept, s, places)
  BY KeptSteps
<1>3. PICK of : Keeps(of, t, others)
  BY <1>1, KeptSteps
<1> DEFINE T == {k \in Nat : of[k] = kept[IF k < i THEN k ELSE k + 1]}
<1>4. kept[i] = kept[i - 1]
  BY <1>2 DEF Keeps
<1>5. 0 \in T
  BY <1>0, <1>2, <1>3 DEF Keeps
<1>6. \A k \in 0 .. n - 1 - 1 : k \in T => k + 1 \in T
  <2> TAKE k \in 0 .. n - 1 - 1
  <2> HAVE k \in T
  <2> DEFINE place == IF k + 1 < i THEN k + 1 ELSE k + 2
  <2>1. k + 1 \in 1 .. n - 1 /\ k + 1 - 1 = k /\ place \in 1 .. n
    BY <1>0
  <2>2. of[k + 1] = IF k + 1 \in others THEN Append(of[k], t[k + 1]) ELSE of[k]
    BY <1>1, <1>3, <2>1 DEF Keeps
  <2>3. k + 1 \in others <=> place \in places
    BY <2>1
  <2>4. t[k + 1] = s[place]
    BY <1>1, <2>1
  <2>5. kept[place] = IF place \in places THEN Append(kept[place - 1], s[place]) ELSE kept[place - 1]
    <3> HIDE DEF place
    <3> QED
      BY <1>2, <2>1 DEF Keeps
  <2>6. kept[place - 1] = of[k]
    <3>1. of[k] = kept[IF k < i THEN k ELSE k + 1]
      OBVIOUS
    <3>2. CASE k + 1 < i
      BY <1>0, <2>1, <3>1, <3>2
    <3>3. CASE k + 1 = i
      <4>1. place - 1 = i /\ k < i /\ k = i - 1
        BY <1>0, <3>3
      <4> HIDE DEF place
      <4> QED
        BY <1>4, <3>1, <4>1
    <3>4. CASE k + 1 > i
      BY <1>0, <2>1, <3>1, <3>4
    <3> QED
      BY <1>0, <3>2, <3>3, <3>4
  <2>7. of[k + 1] = kept[place]
    <3> HIDE DEF place
    <3> QED
      BY <2>2, <2>3, <2>4, <2>5, <2>6
  <2>8. (IF k + 1 < i THEN k + 1 ELSE (k + 1) + 1) = place
    OBVIOUS
  <2> HIDE DEF place
  <2> QED
    BY <2>7, <2>8
<1>7. n - 1 \in T
  <2> HIDE DEF T, n
  <2>1. n - 1 \in Nat
    BY <1>0
  <2>2. \A k \in 0 .. n - 1 : k \in T
    BY <1>5, <1>6, <2>1, BoundedInduction
  <2> QED
    BY <2>1, <2>2
<1>8. of[n - 1] = kept[n]
  <2>1. of[n - 1] = kept[IF n - 1 < i THEN n - 1 ELSE n - 1 + 1]
    BY <1>7
  <2>2. CASE i = n
    BY <1>0, <1>4, <2>1, <2>2
  <2>3. CASE i # n
    BY <1>0, <2>1, <2>3
  <2> QED
    BY <2>2, <2>3
<1>9. Kept(s, places) = kept[n] /\ Kept(t, others) = of[n - 1]
  BY <1>1, <1>2, <1>3 DEF Keeps
<1> QED
  BY <1>8, <1>9 DEF t

\* Short pieces of a sequence, element by element.
LEMMA OneOf ==
  ASSUME NEW S, NEW s \in Seq(S), NEW i \in 1 .. Len(s)
  PROVE  SubSeq(s, i, i) = << s[i] >>
<1> DEFINE part == SubSeq(s, i, i)
           tuple == << s[i] >>
<1>1. part \in Seq(S) /\ Len(part) = 1 /\ \A k \in 1 .. 1 : part[k] = s[i + k - 1]
  BY SubSeqProperties
<1>2. tuple \in Seq(S) /\ Len(tuple) = 1
  BY ElementOfSeq
<1>3. \A k \in 1 .. 1 : tuple[k] = s[i + k - 1]
  BY i + 1 - 1 = i
<1> HIDE DEF part, tuple
<1>4. part = tuple
  BY <1>1, <1>2, <1>3, SeqEqual
<1> QED
  BY <1>4 DEF part, tuple

LEMMA TwoOf ==
  ASSUME NEW S, NEW s \in Seq(S), NEW i \in 1 .. Len(s) - 1
  PROVE  SubSeq(s, i, i + 1) = << s[i], s[i + 1] >>
<1> DEFINE part == SubSeq(s, i, i + 1)
           tuple == << s[i], s[i + 1] >>
<1>1. part \in Seq(S) /\ Len(part) = 2 /\ \A k \in 1 .. 2 : part[k] = s[i + k - 1]
  <2>1. i \in Int /\ i + 1 \in Int /\ i + 1 - i + 1 = 2 /\ \A k \in i .. i + 1 : s[k] \in S
    OBVIOUS
  <2> QED
    BY <2>1, SubSeqProperties
<1>2. tuple \in Seq(S) /\ Len(tuple) = 2
  BY ElementOfSeq
<1>3. \A k \in 1 .. 2 : tuple[k] = s[i + k - 1]
  BY i + 1 - 1 = i, i + 2 - 1 = i + 1
<1> HIDE DEF part, tuple
<1>4. part = tuple
  BY <1>1, <1>2, <1>3, SeqEqual
<1> QED
  BY <1>4 DEF part, tuple

LEMMA ThreeOf ==
  ASSUME NEW S, NEW s \in Seq(S), NEW i \in 1 .. Len(s) - 2
  PROVE  SubSeq(s, i, i + 2) = << s[i], s[i + 1], s[i + 2] >>
<1> DEFINE part == SubSeq(s, i, i + 2)
           tuple == << s[i], s[i + 1], s[i + 2] >>
<1>1. part \in Seq(S) /\ Len(part) = 3 /\ \A k \in 1 .. 3 : part[k] = s[i + k - 1]
  BY SubSeqProperties
<1>2. tuple \in Seq(S) /\ Len(tuple) = 3
  BY ElementOfSeq
<1>3. \A k \in 1 .. 3 : tuple[k] = s[i + k - 1]
  BY i + 1 - 1 = i, i + 2 - 1 = i + 1, i + 3 - 1 = i + 2
<1> HIDE DEF part, tuple
<1>4. part = tuple
  BY <1>1, <1>2, <1>3, SeqEqual
<1> QED
  BY <1>4 DEF part, tuple

LEMMA FourOf ==
  ASSUME NEW S, NEW s \in Seq(S), NEW i \in 1 .. Len(s) - 3
  PROVE  SubSeq(s, i, i + 3) = << s[i], s[i + 1], s[i + 2], s[i + 3] >>
<1> DEFINE part == SubSeq(s, i, i + 3)
           tuple == << s[i], s[i + 1], s[i + 2], s[i + 3] >>
<1>1. part \in Seq(S) /\ Len(part) = 4 /\ \A k \in 1 .. 4 : part[k] = s[i + k - 1]
  BY SubSeqProperties
<1>2. tuple \in Seq(S) /\ Len(tuple) = 4
  BY ElementOfSeq
<1>3. \A k \in 1 .. 4 : tuple[k] = s[i + k - 1]
  BY i + 1 - 1 = i, i + 2 - 1 = i + 1, i + 3 - 1 = i + 2, i + 4 - 1 = i + 3
<1> HIDE DEF part, tuple
<1>4. part = tuple
  BY <1>1, <1>2, <1>3, SeqEqual
<1> QED
  BY <1>4 DEF part, tuple

\* A byte below 128 is a code point of its own.
LEMMA OneByte ==
  ASSUME NEW a \in 0 .. 127
  PROVE  IsScalarValue(a) /\ Encoding(a) = << a >>
BY SMT DEF IsScalarValue, Encoding

\* The quotient and the remainder of a number in the base of a continuation byte,
\* and of its powers.
LEMMA Base64 ==
  ASSUME NEW u \in Nat, NEW r \in 0 .. 63, NEW x, x = u * 64 + r
  PROVE  x \in Nat /\ x \div 64 = u /\ x % 64 = r
<1>1. x \in Nat
  BY SMT
<1>2. x \div 64 = u
  BY SMT
<1>3. x % 64 = r
  BY SMT
<1> QED
  BY <1>1, <1>2, <1>3, SMT

LEMMA Base4096 ==
  ASSUME NEW u \in Nat, NEW r \in Nat, r < 4096, NEW x \in Nat, x = u * 4096 + r
  PROVE  x \div 4096 = u
BY SMT

LEMMA Base262144 ==
  ASSUME NEW u \in Nat, NEW r \in Nat, r < 262144, NEW x \in Nat, x = u * 262144 + r
  PROVE  x \div 262144 = u
BY SMT

LEMMA DividedByOne ==
  ASSUME NEW x \in Nat
  PROVE  x \div 1 = x
BY SMT

TwoBytePoint(a, b) == (a - 192) * 64 + b - 128

\* Two bytes spell a code point of eleven bits and are its shortest form.
LEMMA TwoBytes ==
  ASSUME NEW a \in 194 .. 223, NEW b \in 128 .. 191
  PROVE  IsScalarValue(TwoBytePoint(a, b)) /\ Encoding(TwoBytePoint(a, b)) = << a, b >>
<1> DEFINE p == TwoBytePoint(a, b)
           u == a - 192
           v == b - 128
<1>1. u \in Nat /\ v \in 0 .. 63 /\ u >= 2 /\ u <= 31 /\ p = u * 64 + v
  BY SMT DEF TwoBytePoint
<1>2. 192 + u = a /\ 128 + v = b
  BY SMT
<1> HIDE DEF p, u, v
<1>3. p \in Nat /\ p \div 64 = u /\ p % 64 = v
  BY <1>1, Base64, SMT
<1>4. p >= 128 /\ p < 2048
  BY <1>1, SMT
<1>5. IsScalarValue(p)
  BY <1>3, <1>4, SMT DEF IsScalarValue
<1>6. p \div 1 = p
  BY <1>3, DividedByOne, SMT
<1>7. Encoding(p) = << 192 + u, 128 + v >>
  BY <1>3, <1>4, <1>6, SMT DEF Encoding
<1> QED
  BY <1>2, <1>5, <1>7, SMT DEF p

AreThreeBytes(a, b, c) ==
  /\ a \in 224 .. 239 /\ b \in 128 .. 191 /\ c \in 128 .. 191
  /\ a = 224 => b >= 160
  /\ a = 237 => b <= 159
ThreeBytePoint(a, b, c) == ((a - 224) * 64 + b - 128) * 64 + c - 128

\* Three bytes spell one of sixteen bits that is not a surrogate.
LEMMA ThreeBytes ==
  ASSUME NEW a, NEW b, NEW c, AreThreeBytes(a, b, c)
  PROVE  /\ IsScalarValue(ThreeBytePoint(a, b, c))
         /\ Encoding(ThreeBytePoint(a, b, c)) = << a, b, c >>
<1>0. /\ a \in 224 .. 239 /\ b \in 128 .. 191 /\ c \in 128 .. 191
      /\ a = 224 => b >= 160
      /\ a = 237 => b <= 159
  BY DEF AreThreeBytes
<1> DEFINE p == ThreeBytePoint(a, b, c)
           u == a - 224
           v == b - 128
           w == c - 128
           high == u * 64 + v
<1>1. /\ u \in Nat /\ u <= 15 /\ v \in 0 .. 63 /\ w \in 0 .. 63
      /\ u = 0 => v >= 32
      /\ u = 13 => v <= 31
  BY <1>0, SMT
<1>2. 224 + u = a /\ 128 + v = b /\ 128 + w = c /\ p = high * 64 + w
  BY <1>0, SMT DEF ThreeBytePoint
<1> HIDE DEF p, u, v, w
<1>3. high \in Nat /\ high \div 64 = u /\ high % 64 = v
  BY <1>1, Base64, SMT
<1>4. high >= 32 /\ high < 1024 /\ (high < 864 \/ high > 895)
  BY <1>1, SMT
<1>5. p = u * 4096 + (v * 64 + w) /\ v * 64 + w \in Nat /\ v * 64 + w < 4096
  BY <1>1, <1>2, SMT
<1> HIDE DEF high
<1>6. p \in Nat /\ p \div 64 = high /\ p % 64 = w
  <2>1. high \in Nat /\ w \in 0 .. 63 /\ p = high * 64 + w
    BY <1>1, <1>2, <1>3, Zenon
  <2> QED
    BY <2>1, Base64, SMT
<1>7. p \div 4096 = u
  <2> DEFINE r == v * 64 + w
  <2>1. r \in Nat /\ r < 4096 /\ p = u * 4096 + r
    BY <1>5, SMT
  <2> HIDE DEF r
  <2> QED
    BY <1>1, <1>6, <2>1, Base4096, SMT
<1>8. p >= 2048 /\ p < 65536 /\ (p < 55296 \/ p > 57343)
  BY <1>1, <1>2, <1>3, <1>4, SMT
<1>9. IsScalarValue(p)
  BY <1>6, <1>8, SMT DEF IsScalarValue
<1>10. p \div 1 = p
  BY <1>6, DividedByOne, SMT
<1>11. Encoding(p) = << 224 + u, 128 + v, 128 + w >>
  BY <1>3, <1>6, <1>7, <1>8, <1>10, SMT DEF Encoding
<1> QED
  BY <1>2, <1>9, <1>11, SMT DEF p

AreFourBytes(a, b, c, d) ==
  /\ a \in 240 .. 244 /\ b \in 128 .. 191 /\ c \in 128 .. 191 /\ d \in 128 .. 191
  /\ a = 240 => b >= 144
  /\ a = 244 => b <= 143
FourBytePoint(a, b, c, d) == (((a - 240) * 64 + b - 128) * 64 + c - 128) * 64 + d - 128

\* Four bytes spell one beyond sixteen bits, up to the last of Unicode.
LEMMA FourBytes ==
  ASSUME NEW a, NEW b, NEW c, NEW d, AreFourBytes(a, b, c, d)
  PROVE  /\ IsScalarValue(FourBytePoint(a, b, c, d))
         /\ Encoding(FourBytePoint(a, b, c, d)) = << a, b, c, d >>
<1>0. /\ a \in 240 .. 244 /\ b \in 128 .. 191 /\ c \in 128 .. 191 /\ d \in 128 .. 191
      /\ a = 240 => b >= 144
      /\ a = 244 => b <= 143
  BY DEF AreFourBytes
<1> DEFINE p == FourBytePoint(a, b, c, d)
           t == a - 240
           u == b - 128
           v == c - 128
           w == d - 128
           high == t * 64 + u
           middle == high * 64 + v
<1>1. /\ t \in Nat /\ t <= 4 /\ u \in 0 .. 63 /\ v \in 0 .. 63 /\ w \in 0 .. 63
      /\ t = 0 => u >= 16
      /\ t = 4 => u <= 15
  BY <1>0, SMT
<1>2. 240 + t = a /\ 128 + u = b /\ 128 + v = c /\ 128 + w = d
  BY <1>0, SMT
<1>3. p = middle * 64 + w
  BY DEF FourBytePoint
<1> HIDE DEF p, t, u, v, w
<1>4. high \in Nat /\ high % 64 = u
  BY <1>1, Base64, SMT
<1>5. high >= 16 /\ high <= 271
  BY <1>1, SMT
<1>6. high * 4096 = t * 262144 + u * 4096
  BY <1>1, SMT
<1> HIDE DEF high
<1>7. middle \in Nat /\ middle % 64 = v
  BY <1>1, <1>4, Base64, SMT
<1>8. middle >= 1024 /\ middle <= 17407
  BY <1>1, <1>4, <1>5, SMT
<1>9. middle * 64 = high * 4096 + v * 64
  BY <1>1, <1>4, SMT
<1> HIDE DEF middle
<1>10. p \in Nat /\ p \div 64 = middle /\ p % 64 = w
  <2>1. middle \in Nat /\ w \in 0 .. 63 /\ p = middle * 64 + w
    BY <1>1, <1>3, <1>7, Zenon
  <2> QED
    BY <2>1, Base64, SMT
<1>11. p \div 4096 = high
  <2> DEFINE r == v * 64 + w
  <2>1. r \in Nat /\ r < 4096 /\ p = high * 4096 + r
    BY <1>1, <1>3, <1>4, <1>7, <1>9, SMT
  <2> HIDE DEF r
  <2> QED
    BY <1>4, <1>10, <2>1, Base4096, SMT
<1>12. p \div 262144 = t
  <2> DEFINE r == u * 4096 + v * 64 + w
  <2>1. r \in Nat /\ r < 262144
    BY <1>1, SMT
  <2>2. p = t * 262144 + r
    BY <1>1, <1>3, <1>4, <1>6, <1>7, <1>9, SMT
  <2> HIDE DEF r
  <2> QED
    BY <1>1, <1>10, <2>1, <2>2, Base262144, SMT
<1>13. p >= 65536 /\ p <= 1114111
  BY <1>1, <1>3, <1>7, <1>8, SMT
<1>14. IsScalarValue(p)
  BY <1>10, <1>13, SMT DEF IsScalarValue
<1>15. p \div 1 = p
  BY <1>10, DividedByOne, SMT
<1>16. Encoding(p) = << 240 + t, 128 + u, 128 + v, 128 + w >>
  BY <1>4, <1>7, <1>10, <1>11, <1>12, <1>13, <1>15, SMT DEF Encoding
<1> QED
  BY <1>2, <1>14, <1>16, SMT DEF p

\* The scalar found at a place of a name lies inside the name, is a scalar value of
\* Unicode, and stands there in its shortest form.
LEMMA ScalarFacts ==
  ASSUME NEW s \in Names, NEW i \in 1 .. Len(s)
  PROVE  LET found == Scalar(s, i)
         IN /\ found.length \in 0 .. 4
            /\ i + found.length <= Len(s) + 1
            /\ found.length > 0 =>
                 /\ IsScalarValue(found.point)
                 /\ SubSeq(s, i, i + found.length - 1) = Encoding(found.point)
<1> DEFINE a == s[i]
           b == IF i + 1 <= Len(s) THEN s[i + 1] ELSE 0
           c == IF i + 2 <= Len(s) THEN s[i + 2] ELSE 0
           d == IF i + 3 <= Len(s) THEN s[i + 3] ELSE 0
           two == a \in 194 .. 223 /\ Continues(b)
           three == /\ Continues(c)
                    /\ \/ a = 224 /\ b \in 160 .. 191
                       \/ a \in 225 .. 236 \cup {238, 239} /\ Continues(b)
                       \/ a = 237 /\ b \in 128 .. 159
           four == /\ Continues(c) /\ Continues(d)
                   /\ \/ a = 240 /\ b \in 144 .. 191
                      \/ a \in 241 .. 243 /\ Continues(b)
                      \/ a = 244 /\ b \in 128 .. 143
<1>1. s \in Seq(Byte) /\ Len(s) \in Nat /\ \A k \in 1 .. Len(s) : s[k] \in Byte
  BY DEF Names
<1>2. a \in Byte /\ b \in Byte /\ c \in Byte /\ d \in Byte
  BY <1>1 DEF Byte
<1>3. Scalar(s, i) =
        IF a < 128 THEN [length |-> 1, point |-> a]
        ELSE IF two THEN [length |-> 2, point |-> (a - 192) * 64 + b - 128]
        ELSE IF three THEN [length |-> 3, point |-> ((a - 224) * 64 + b - 128) * 64 + c - 128]
        ELSE IF four
        THEN [length |-> 4,
              point |-> (((a - 240) * 64 + b - 128) * 64 + c - 128) * 64 + d - 128]
        ELSE NoScalar
  BY SMT DEF Scalar
<1>4. /\ b > 0 => i + 1 <= Len(s) /\ s[i + 1] = b
      /\ c > 0 => i + 2 <= Len(s) /\ s[i + 2] = c
      /\ d > 0 => i + 3 <= Len(s) /\ s[i + 3] = d
      /\ s[i] = a
  BY <1>1
<1> HIDE DEF a, b, c, d
<1>5. CASE a < 128
  <2>1. Scalar(s, i).length = 1 /\ Scalar(s, i).point = a
    BY <1>3, <1>5
  <2>2. IsScalarValue(a) /\ Encoding(a) = << a >>
    <3>1. a \in 0 .. 127
      BY <1>2, <1>5 DEF Byte
    <3> QED
      BY <3>1, OneByte
  <2>3. SubSeq(s, i, i + 1 - 1) = << a >>
    BY <1>1, <1>4, OneOf
  <2> QED
    BY <1>1, <2>1, <2>2, <2>3
<1>6. CASE ~ (a < 128) /\ two
  <2> DEFINE p == (a - 192) * 64 + b - 128
  <2>1. Scalar(s, i).length = 2 /\ Scalar(s, i).point = p
    BY <1>3, <1>6, SMT
  <2>2. IsScalarValue(p) /\ Encoding(p) = << a, b >>
    <3>1. /\ a \in 194 .. 223
          /\ b \in 128 .. 191
      BY <1>2, <1>6 DEF Continues, Byte
    <3>2. p = TwoBytePoint(a, b)
      BY DEF TwoBytePoint
    <3> HIDE DEF p
    <3>3. IsScalarValue(TwoBytePoint(a, b)) /\ Encoding(TwoBytePoint(a, b)) = << a, b >>
      BY <3>1, TwoBytes, Zenon
    <3> QED
      BY <3>2, <3>3, Zenon
  <2>3. i + 1 <= Len(s) /\ s[i + 1] = b
    <3>1. b \in 128 .. 191
      BY <1>2, <1>6 DEF Continues, Byte
    <3> QED
      BY <3>1, <1>4
  <2>4. SubSeq(s, i, i + 2 - 1) = << a, b >>
    BY <1>1, <1>4, <2>3, TwoOf
  <2> HIDE DEF p
  <2> QED
    BY <1>1, <2>1, <2>2, <2>3, <2>4
<1>7. CASE ~ (a < 128) /\ ~ two /\ three
  <2> DEFINE p == ((a - 224) * 64 + b - 128) * 64 + c - 128
  <2>1. Scalar(s, i).length = 3 /\ Scalar(s, i).point = p
    BY <1>3, <1>7, SMT
  <2>2. IsScalarValue(p) /\ Encoding(p) = << a, b, c >>
    <3>1. AreThreeBytes(a, b, c)
      BY <1>2, <1>7 DEF Continues, Byte, AreThreeBytes
    <3>2. p = ThreeBytePoint(a, b, c)
      BY DEF ThreeBytePoint
    <3> HIDE DEF p
    <3>3. /\ IsScalarValue(ThreeBytePoint(a, b, c))
          /\ Encoding(ThreeBytePoint(a, b, c)) = << a, b, c >>
      BY <3>1, ThreeBytes, Zenon
    <3> QED
      BY <3>2, <3>3, Zenon
  <2>3. i + 2 <= Len(s) /\ s[i + 1] = b /\ s[i + 2] = c
    <3>1. b \in 128 .. 191 /\ c \in 128 .. 191
      BY <1>2, <1>7 DEF Continues, Byte
    <3> QED
      BY <3>1, <1>4
  <2>4. SubSeq(s, i, i + 3 - 1) = << a, b, c >>
    BY <1>1, <1>4, <2>3, ThreeOf
  <2> HIDE DEF p
  <2> QED
    BY <1>1, <2>1, <2>2, <2>3, <2>4
<1>8. CASE ~ (a < 128) /\ ~ two /\ ~ three /\ four
  <2> DEFINE p == (((a - 240) * 64 + b - 128) * 64 + c - 128) * 64 + d - 128
  <2>1. Scalar(s, i).length = 4 /\ Scalar(s, i).point = p
    BY <1>3, <1>8, SMT
  <2>2. IsScalarValue(p) /\ Encoding(p) = << a, b, c, d >>
    <3>1. AreFourBytes(a, b, c, d)
      BY <1>2, <1>8 DEF Continues, Byte, AreFourBytes
    <3>2. p = FourBytePoint(a, b, c, d)
      BY DEF FourBytePoint
    <3> HIDE DEF p
    <3>3. /\ IsScalarValue(FourBytePoint(a, b, c, d))
          /\ Encoding(FourBytePoint(a, b, c, d)) = << a, b, c, d >>
      BY <3>1, FourBytes, Zenon
    <3> QED
      BY <3>2, <3>3, Zenon
  <2>3. i + 3 <= Len(s) /\ s[i + 1] = b /\ s[i + 2] = c /\ s[i + 3] = d
    <3>1. b \in 128 .. 191 /\ c \in 128 .. 191 /\ d \in 128 .. 191
      BY <1>2, <1>8 DEF Continues, Byte
    <3> QED
      BY <3>1, <1>4
  <2>4. SubSeq(s, i, i + 4 - 1) = << a, b, c, d >>
    BY <1>1, <1>4, <2>3, FourOf
  <2> HIDE DEF p
  <2> QED
    BY <1>1, <2>1, <2>2, <2>3, <2>4
<1>9. CASE ~ (a < 128) /\ ~ two /\ ~ three /\ ~ four
  <2>1. Scalar(s, i) = NoScalar
    BY <1>3, <1>9, SMT
  <2> QED
    BY <1>1, <2>1 DEF NoScalar
<1> QED
  BY <1>5, <1>6, <1>7, <1>8, <1>9
-----------------------------------------------------------------------------
(* Text *)

\* A scan of the places 1 .. n.
ScansFromOne(f, n, X, stops, val, next) ==
  /\ f \in [1 .. n -> X]
  /\ \A k \in 1 .. n : f[k] = IF k \in stops THEN val[k] ELSE f[next[k]]

LEMMA ScanFromOneExists ==
  ASSUME NEW n \in Nat, NEW X, NEW stops \in SUBSET (1 .. n), n \in stops, NEW val \in [stops -> X],
         NEW next \in [(1 .. n) \ stops -> 1 .. n], \A k \in (1 .. n) \ stops : next[k] > k
  PROVE  \E f : ScansFromOne(f, n, X, stops, val, next)
<1> DEFINE stops0 == stops \cup {0}
           val0 == [k \in stops0 |-> IF k = 0 THEN val[n] ELSE val[k]]
<1>1. stops0 \in SUBSET (0 .. n) /\ val0 \in [stops0 -> X]
  <2>1. stops0 \in SUBSET (0 .. n)
    OBVIOUS
  <2>2. val[n] \in X
    OBVIOUS
  <2> QED
    BY <2>1, <2>2
<1>2. next \in [(0 .. n) \ stops0 -> 0 .. n] /\ \A k \in (0 .. n) \ stops0 : next[k] > k
  <2>1. (0 .. n) \ stops0 = (1 .. n) \ stops
    OBVIOUS
  <2> QED
    BY <2>1
<1>3. PICK f : Scans(f, n, X, stops0, val0, next)
  <2> HIDE DEF stops0, val0
  <2> QED
    BY <1>1, <1>2, ScanExists
<1> DEFINE g == [k \in 1 .. n |-> f[k]]
<1>4. g \in [1 .. n -> X]
  BY <1>3 DEF Scans
<1>5. ASSUME NEW k \in 1 .. n PROVE g[k] = IF k \in stops THEN val[k] ELSE g[next[k]]
  <2>1. f[k] = IF k \in stops0 THEN val0[k] ELSE f[next[k]]
    <3> HIDE DEF stops0, val0
    <3> QED
      BY <1>3 DEF Scans
  <2>2. k # 0 /\ (k \in stops0 <=> k \in stops)
    OBVIOUS
  <2>3. CASE k \in stops
    BY <2>1, <2>2, <2>3
  <2>4. CASE k \notin stops
    <3>1. next[k] \in 1 .. n
      BY <2>4
    <3> HIDE DEF stops0, val0
    <3>2. f[k] = f[next[k]]
      BY <2>1, <2>2, <2>4
    <3> QED
      BY <2>4, <3>1, <3>2
  <2> QED
    BY <2>3, <2>4
<1>6. ScansFromOne(g, n, X, stops, val, next)
  <2> HIDE DEF g
  <2> QED
    BY <1>4, <1>5 DEF ScansFromOne
<1> QED
  BY <1>6

\* The scan for unsafe text, place by place.
UnsafeFrom(bad, s) ==
  /\ HasUnsafeText(s) = bad[1]
  /\ bad[Len(s) + 1] = FALSE
  /\ \A i \in 1 .. Len(s) :
       bad[i] = IF Scalar(s, i).length = 0 \/ IsDisplayControl(Scalar(s, i).point)
                THEN TRUE ELSE bad[i + Scalar(s, i).length]

LEMMA UnsafeTextScan ==
  ASSUME NEW s \in Names
  PROVE  \E bad : UnsafeFrom(bad, s)
<1> DEFINE n == Len(s) + 1
           length(i) == Scalar(s, i).length
           stopsAt(i) == length(i) = 0 \/ IsDisplayControl(Scalar(s, i).point)
           stops == {i \in 1 .. n : i = n \/ stopsAt(i)}
           val == [i \in stops |-> IF i = n THEN FALSE ELSE TRUE]
           next == [i \in (1 .. n) \ stops |-> i + length(i)]
           body(f) == [i \in 1 .. n |->
                         IF i > Len(s) THEN FALSE
                         ELSE IF stopsAt(i) THEN TRUE
                         ELSE f[i + Scalar(s, i).length]]
           bad == CHOOSE f : f = body(f)
<1>0. Len(s) \in Nat /\ n \in Nat
  BY DEF Names
<1>1. \A i \in 1 .. Len(s) : length(i) \in 0 .. 4 /\ i + length(i) <= n
  <2> HIDE DEF n
  <2> QED
    BY ScalarFacts DEF n
<1>2. stops \in SUBSET (1 .. n) /\ n \in stops /\ val \in [stops -> BOOLEAN]
  BY <1>0
<1>3. next \in [(1 .. n) \ stops -> 1 .. n] /\ \A k \in (1 .. n) \ stops : next[k] > k
  BY <1>0, <1>1
<1>4. PICK f : ScansFromOne(f, n, BOOLEAN, stops, val, next)
  <2> HIDE DEF n, stops, val, next
  <2> QED
    BY <1>0, <1>2, <1>3, ScanFromOneExists
<1>5. ASSUME NEW i \in 1 .. n
      PROVE  f[i] = body(f)[i]
  <2>1. f[i] = IF i \in stops THEN val[i] ELSE f[next[i]]
    BY <1>4 DEF ScansFromOne
  <2>2. CASE i = n
    <3>1. i \in stops /\ val[i] = FALSE
      BY <2>2, <1>2
    <3>2. body(f)[i] = FALSE
      BY <2>2, <1>0
    <3> HIDE DEF stops, val, next, body
    <3> QED
      BY <2>1, <3>1, <3>2
  <2>3. CASE i # n /\ stopsAt(i)
    <3>1. i \in stops /\ val[i] = TRUE
      BY <2>3
    <3>2. body(f)[i] = TRUE
      BY <2>3, <1>0
    <3> HIDE DEF stops, val, next, body
    <3> QED
      BY <2>1, <3>1, <3>2
  <2>4. CASE i # n /\ ~ stopsAt(i)
    <3>1. i \notin stops /\ next[i] = i + length(i)
      BY <2>4
    <3>2. body(f)[i] = f[i + length(i)]
      <4>1. f[i + length(i)] \in BOOLEAN
        <5>1. i + length(i) \in 1 .. n
          BY <2>4, <1>0, <1>1
        <5> HIDE DEF n, length
        <5> QED
          BY <5>1, <1>4 DEF ScansFromOne
      <4>2. ~ (i > Len(s)) /\ ~ stopsAt(i)
        BY <2>4, <1>0
      <4> QED
        BY <4>1, <4>2
    <3> HIDE DEF stops, val, next, body
    <3> QED
      BY <2>1, <3>1, <3>2
  <2> QED
    BY <2>2, <2>3, <2>4
<1>6. f = body(f)
  <2>1. f \in [1 .. n -> BOOLEAN] /\ DOMAIN body(f) = 1 .. n
    BY <1>4 DEF ScansFromOne
  <2> QED
    BY <1>5, <2>1
<1>7. bad = body(bad)
  <2> HIDE DEF body
  <2> QED
    BY <1>6
<1>8. HasUnsafeText(s) = bad[1]
  BY DEF HasUnsafeText
<1> HIDE DEF bad
<1>9. \A i \in 1 .. n : bad[i] = body(bad)[i]
  BY <1>7
<1>10. bad[n] = FALSE
  <2>1. n \in 1 .. n /\ n > Len(s)
    BY <1>0
  <2> QED
    BY <1>9, <2>1
<1>11. ASSUME NEW i \in 1 .. Len(s)
       PROVE  bad[i] = IF Scalar(s, i).length = 0 \/ IsDisplayControl(Scalar(s, i).point)
                       THEN TRUE ELSE bad[i + Scalar(s, i).length]
  <2>1. i \in 1 .. n /\ ~ (i > Len(s))
    BY <1>0
  <2> QED
    BY <1>9, <2>1
<1>12. UnsafeFrom(bad, s)
  BY <1>8, <1>10, <1>11 DEF UnsafeFrom
<1> QED
  BY <1>12
\* The scan that reads a name as text, place by place.
TextFrom(text, s) ==
  /\ IsText(s) = text[1]
  /\ text[Len(s) + 1] = TRUE
  /\ \A i \in 1 .. Len(s) :
       text[i] = IF IsShown(s, i) THEN text[i + Scalar(s, i).length] ELSE FALSE

LEMMA TextScan ==
  ASSUME NEW s \in Names
  PROVE  \E text : TextFrom(text, s)
<1> DEFINE n == Len(s) + 1
           length(i) == Scalar(s, i).length
           shown(i) == IsShown(s, i)
           stops == {i \in 1 .. n : i = n \/ ~ shown(i)}
           val == [i \in stops |-> IF i = n THEN TRUE ELSE FALSE]
           next == [i \in (1 .. n) \ stops |-> i + length(i)]
           body(f) == [i \in 1 .. n |->
                         IF i = Len(s) + 1 THEN TRUE
                         ELSE IF shown(i) THEN f[i + Scalar(s, i).length]
                         ELSE FALSE]
           text == CHOOSE f : f = body(f)
<1>0. Len(s) \in Nat /\ n \in Nat
  BY DEF Names
<1>1. \A i \in 1 .. Len(s) : length(i) \in 0 .. 4 /\ i + length(i) <= n
  <2> HIDE DEF n
  <2> QED
    BY ScalarFacts DEF n
<1>2. stops \in SUBSET (1 .. n) /\ n \in stops /\ val \in [stops -> BOOLEAN]
  BY <1>0
<1>3. next \in [(1 .. n) \ stops -> 1 .. n] /\ \A k \in (1 .. n) \ stops : next[k] > k
  <2>1. \A k \in (1 .. n) \ stops : k \in 1 .. Len(s) /\ length(k) > 0
    BY <1>0 DEF IsShown
  <2> HIDE DEF stops, length
  <2>2. \A k \in (1 .. n) \ stops : length(k) \in Nat /\ k + length(k) <= n
    BY <1>1, <2>1
  <2> QED
    BY <1>0, <2>1, <2>2
<1>4. PICK f : ScansFromOne(f, n, BOOLEAN, stops, val, next)
  <2> HIDE DEF n, stops, val, next
  <2> QED
    BY <1>0, <1>2, <1>3, ScanFromOneExists
<1>5. ASSUME NEW i \in 1 .. n
      PROVE  f[i] = body(f)[i]
  <2>1. f[i] = IF i \in stops THEN val[i] ELSE f[next[i]]
    BY <1>4 DEF ScansFromOne
  <2>2. CASE i = n
    <3>1. i \in stops /\ val[i] = TRUE
      BY <2>2, <1>2
    <3>2. body(f)[i] = TRUE
      BY <2>2, <1>0
    <3> HIDE DEF stops, val, next, body
    <3> QED
      BY <2>1, <3>1, <3>2
  <2>3. CASE i # n /\ ~ shown(i)
    <3>1. i \in stops /\ val[i] = FALSE
      BY <2>3
    <3>2. body(f)[i] = FALSE
      BY <2>3, <1>0
    <3> HIDE DEF stops, val, next, body
    <3> QED
      BY <2>1, <3>1, <3>2
  <2>4. CASE i # n /\ shown(i)
    <3>1. i \notin stops /\ next[i] = i + length(i)
      BY <2>4
    <3>2. body(f)[i] = f[i + length(i)]
      <4>1. f[i + length(i)] \in BOOLEAN
        <5>1. i + length(i) \in 1 .. n
          BY <2>4, <1>0, <1>1
        <5> HIDE DEF n, length
        <5> QED
          BY <5>1, <1>4 DEF ScansFromOne
      <4>2. i # Len(s) + 1 /\ shown(i)
        BY <2>4, <1>0
      <4> QED
        BY <4>1, <4>2
    <3> HIDE DEF stops, val, next, body
    <3> QED
      BY <2>1, <3>1, <3>2
  <2> QED
    BY <2>2, <2>3, <2>4
<1>6. f = body(f)
  <2>1. f \in [1 .. n -> BOOLEAN] /\ DOMAIN body(f) = 1 .. n
    BY <1>4 DEF ScansFromOne
  <2> QED
    BY <1>5, <2>1
<1>7. text = body(text)
  <2> HIDE DEF body
  <2> QED
    BY <1>6
<1>8. IsText(s) = text[1]
  BY DEF IsText
<1> HIDE DEF text
<1>9. \A i \in 1 .. n : text[i] = body(text)[i]
  BY <1>7
<1>10. text[n] = TRUE
  <2>1. n \in 1 .. n /\ n = Len(s) + 1
    BY <1>0
  <2> QED
    BY <1>9, <2>1
<1>11. ASSUME NEW i \in 1 .. Len(s)
       PROVE  text[i] = IF IsShown(s, i) THEN text[i + Scalar(s, i).length] ELSE FALSE
  <2>1. i \in 1 .. n /\ i # Len(s) + 1
    BY <1>0
  <2> QED
    BY <1>9, <2>1
<1>12. TextFrom(text, s)
  BY <1>8, <1>10, <1>11 DEF TextFrom
<1> QED
  BY <1>12
\* What the scan for unsafe text lets pass is text.
LEMMA SafeIsText ==
  ASSUME NEW s \in Names, ~ HasUnsafeText(s)
  PROVE  IsText(s)
<1>1. PICK bad : UnsafeFrom(bad, s)
  BY UnsafeTextScan
<1>2. PICK text : TextFrom(text, s)
  BY TextScan
<1> DEFINE n == Len(s) + 1
           T == {k \in Nat : \A i \in n - k .. n : i >= 1 => bad[i] \/ text[i]}
<1>0. Len(s) \in Nat
  BY DEF Names
<1>3. 0 \in T
  BY <1>0, <1>2 DEF TextFrom
<1>4. \A k \in 0 .. n - 1 : k \in T => k + 1 \in T
  <2> TAKE k \in 0 .. n - 1
  <2> HAVE k \in T
  <2> DEFINE low == n - (k + 1)
             length == Scalar(s, low).length
  <2>1. SUFFICES ASSUME low >= 1 PROVE bad[low] \/ text[low]
    BY <1>0
  <2>2. low \in 1 .. Len(s)
    BY <1>0, <2>1
  <2>3. /\ length \in 0 .. 4 /\ low + length <= n
        /\ length > 0 => IsScalarValue(Scalar(s, low).point)
        /\ length > 0 => SubSeq(s, low, low + length - 1) = Encoding(Scalar(s, low).point)
    <3> HIDE DEF low
    <3> QED
      BY <2>2, ScalarFacts
  <2>4. CASE length = 0 \/ IsDisplayControl(Scalar(s, low).point)
    <3> HIDE DEF low
    <3> QED
      BY <1>1, <2>2, <2>4 DEF UnsafeFrom
  <2>5. CASE ~ (length = 0 \/ IsDisplayControl(Scalar(s, low).point))
    <3>1. low + length \in n - k .. n /\ low + length >= 1
      <4> HIDE DEF length
      <4> QED
        BY <1>0, <2>1, <2>3, <2>5
    <3>2. bad[low + length] \/ text[low + length]
      BY <3>1
    <3> HIDE DEF low
    <3>3. bad[low] = bad[low + length]
      BY <1>1, <2>2, <2>5 DEF UnsafeFrom
    <3>4. IsShown(s, low)
      BY <2>3, <2>5 DEF IsShown
    <3>5. text[low] = text[low + length]
      BY <1>2, <2>2, <3>4 DEF TextFrom
    <3> QED
      BY <3>2, <3>3, <3>5
  <2> QED
    BY <2>4, <2>5
<1>5. n - 1 \in T
  <2>1. \A k \in 0 .. n : k \in T
    <3> HIDE DEF T
    <3> QED
      BY <1>0, <1>3, <1>4, BoundedInduction
  <2> HIDE DEF T
  <2> QED
    BY <1>0, <2>1
<1>6. bad[1] \/ text[1]
  BY <1>0, <1>5
<1>7. ~ bad[1]
  BY <1>1 DEF UnsafeFrom
<1> QED
  BY <1>2, <1>6, <1>7 DEF TextFrom
-----------------------------------------------------------------------------
(* The names in the archive *)

\* The values of a scan are among the values it can stop with.
LEMMA ScanType ==
  ASSUME NEW n \in Nat, NEW X, NEW stops, NEW f,
         \A k \in 0 .. n : k \in stops => f[k] \in X,
         \A k \in 0 .. n : k \notin stops => \E j \in k + 1 .. n : f[k] = f[j]
  PROVE  \A k \in 0 .. n : f[k] \in X
<1> DEFINE T == {m \in Nat : \A k \in n - m .. n : k >= 0 => f[k] \in X}
<1>1. 0 \in T
  <2>1. n \in stops
    OBVIOUS
  <2> QED
    BY <2>1
<1>2. \A m \in 0 .. n - 1 : m \in T => m + 1 \in T
  OBVIOUS
<1>3. \A m \in 0 .. n : m \in T
  <2> HIDE DEF T
  <2> QED
    BY <1>1, <1>2, BoundedInduction
<1>4. n \in T
  <2> HIDE DEF T
  <2> QED
    BY <1>3
<1> QED
  BY <1>4

LEMMA StripDotSlashesType ==
  ASSUME NEW s \in Names
  PROVE  StripDotSlashes(s) \in Names
<1> DEFINE n == Len(s)
           rest(k) == SubSeq(s, k + 1, Len(s))
           stops == {k \in 0 .. n : ~ IsDotSlash(rest(k))}
           val == [k \in stops |-> rest(k)]
           next == [k \in (0 .. n) \ stops |-> k + 2]
           body(f) == [k \in 0 .. n |-> IF IsDotSlash(rest(k)) THEN f[k + 2] ELSE rest(k)]
           strip == CHOOSE f : f = body(f)
<1>0. n \in Nat
  BY DEF Names
<1>1. \A k \in 0 .. n : rest(k) \in Names /\ Len(rest(k)) = n - k
  <2> TAKE k \in 0 .. n
  <2>1. k + 1 \in 1 .. Len(s) + 1 /\ Len(s) \in k .. Len(s) /\ s \in Seq(Byte)
    BY <1>0 DEF Names
  <2>2. \A j \in k + 1 .. Len(s) : s[j] \in Byte
    BY <2>1
  <2>3. rest(k) \in Seq(Byte) /\ Len(rest(k)) = IF k + 1 <= Len(s) THEN Len(s) - (k + 1) + 1 ELSE 0
    BY <2>1, <2>2, SubSeqProperties
  <2> HIDE DEF rest
  <2> QED
    BY <1>0, <2>3 DEF Names
<1>2. \A k \in (0 .. n) \ stops : k + 2 <= n
  BY <1>0, <1>1 DEF IsDotSlash
<1>3. n \in stops
  BY <1>0, <1>1 DEF IsDotSlash
<1>4. stops \in SUBSET (0 .. n) /\ val \in [stops -> Names]
  <2> HIDE DEF rest
  <2> QED
    BY <1>1
<1>5. next \in [(0 .. n) \ stops -> 0 .. n] /\ \A k \in (0 .. n) \ stops : next[k] > k
  <2> HIDE DEF stops
  <2> QED
    BY <1>0, <1>2
<1>6. PICK f : Scans(f, n, Names, stops, val, next)
  <2> HIDE DEF n, stops, val, next
  <2> QED
    BY <1>0, <1>4, <1>5, ScanExists
<1>7. f = body(f)
  <2> HIDE DEF rest, n
  <2>1. \A k \in 0 .. n : f[k] = body(f)[k]
    BY <1>6 DEF Scans
  <2> QED
    BY <1>6, <2>1 DEF Scans
<1>8. strip = body(strip)
  <2> HIDE DEF body
  <2> QED
    BY <1>7
<1>9. StripDotSlashes(s) = strip[0]
  BY DEF StripDotSlashes
<1> HIDE DEF strip
<1>10. \A k \in 0 .. n : strip[k] = IF k \in stops THEN rest(k) ELSE strip[k + 2]
  <2> HIDE DEF rest, n
  <2> QED
    BY <1>8
<1>11. \A k \in 0 .. n : strip[k] \in Names
  <2> HIDE DEF rest, stops, n
  <2>1. \A k \in 0 .. n : k \in stops => strip[k] \in Names
    BY <1>1, <1>10
  <2>2. \A k \in 0 .. n : k \notin stops => \E j \in k + 1 .. n : strip[k] = strip[j]
    BY <1>0, <1>2, <1>10
  <2> QED
    BY <1>0, <2>1, <2>2, ScanType
<1> QED
  BY <1>0, <1>9, <1>11
\* A piece of a sequence.
LEMMA PieceType ==
  ASSUME NEW S, NEW s \in Seq(S), NEW i \in Nat \ {0}, NEW j \in Int, j <= Len(s)
  PROVE  SubSeq(s, i, j) \in Seq(S)
<1>1. \A k \in i .. j : s[k] \in S
  OBVIOUS
<1> QED
  BY <1>1, SubSeqProperties

LEMMA StripSeparatorsType ==
  ASSUME NEW s \in Names
  PROVE  StripSeparators(s) \in Names
<1> DEFINE I == {i \in 1 .. Len(s) : s[i] \notin Separators}
           first == SelectInSeq(s, LAMBDA c : c \notin Separators)
<1>1. first = IF I # {} THEN Min(I) ELSE 0
  BY DEF SelectInSeq
<1>2. I # {} => Min(I) \in I
  <2>1. I \in SUBSET Nat
    OBVIOUS
  <2> HIDE DEF I
  <2>2. I # {} => \E low \in I : \A x \in I : low <= x
    BY <2>1, LeastExists
  <2> QED
    BY <2>2 DEF Min
<1>3. Len(s) \in Nat /\ s \in Seq(Byte)
  BY DEF Names
<1>4. StripSeparators(s) = IF first = 0 THEN << >> ELSE SubSeq(s, first, Len(s))
  BY DEF StripSeparators
<1>5. first # 0 => first \in Nat \ {0} /\ first <= Len(s)
  <2> HIDE DEF first
  <2>1. I # {} => Min(I) \in 1 .. Len(s)
    BY <1>2
  <2> HIDE DEF I
  <2> QED
    BY <1>1, <1>3, <2>1
<1> HIDE DEF first
<1>6. first # 0 => SubSeq(s, first, Len(s)) \in Seq(Byte)
  BY <1>3, <1>5, PieceType
<1> QED
  BY <1>4, <1>6 DEF Names

LEMMA ArchiveNameType ==
  ASSUME NEW path \in Names
  PROVE  ArchiveName(path) \in Names
BY StripDotSlashesType, StripSeparatorsType DEF ArchiveName

LEMMA NormalizeType ==
  ASSUME NEW s \in Names, NEW foldAscii \in BOOLEAN
  PROVE  Normalize(s, foldAscii) \in Names
<1> DEFINE places == [i \in DOMAIN s |-> i]
           first(i) == s[i] \in Separators /\ i > 1 => s[i - 1] \notin Separators
           kept == Kept(places, {i \in DOMAIN s : first(i)})
           normal(c) == IF c \in Separators THEN Slash ELSE IF foldAscii THEN Fold(c) ELSE c
<1>1. s \in Seq(Byte) /\ Len(s) \in Nat /\ DOMAIN s = 1 .. Len(s)
  BY DEF Names
<1>2. kept \in Seq(DOMAIN s)
  <2>1. places \in Seq(DOMAIN s)
    BY <1>1
  <2> HIDE DEF places, first
  <2> QED
    BY <2>1, KeptType
<1>3. \A c \in Byte : normal(c) \in Byte
  BY DEF Byte, Slash, Fold, Capitals
<1>4. Normalize(s, foldAscii) = [k \in DOMAIN kept |-> normal(s[kept[k]])]
  BY DEF Normalize
<1> HIDE DEF kept, normal
<1>5. DOMAIN kept = 1 .. Len(kept) /\ Len(kept) \in Nat
  BY <1>2
<1>6. \A k \in DOMAIN kept : normal(s[kept[k]]) \in Byte
  <2>1. \A k \in DOMAIN kept : kept[k] \in DOMAIN s
    BY <1>2
  <2>2. \A i \in DOMAIN s : s[i] \in Byte
    BY <1>1
  <2> QED
    BY <1>3, <2>1, <2>2
<1>7. [k \in DOMAIN kept |-> normal(s[kept[k]])] \in Seq(Byte)
  BY <1>5, <1>6
<1> QED
  BY <1>4, <1>7 DEF Names

LEMMA ComponentsType ==
  ASSUME NEW s \in Names
  PROVE  Components(s) \in Seq(Names)
<1> DEFINE ends == {i \in DOMAIN s : s[i] \in Separators} \cup {Len(s) + 1}
           after(low) == CHOOSE e \in ends : e > low /\ \A f \in ends : f > low => e <= f
           starts == [i \in 1 .. Len(s) + 1 |-> i - 1]
           places == {1} \cup {i \in 2 .. Len(s) + 1 : i - 1 \in ends}
           from == Kept(starts, places)
<1>1. s \in Seq(Byte) /\ Len(s) \in Nat /\ DOMAIN s = 1 .. Len(s)
  BY DEF Names
<1>2. from \in Seq(0 .. Len(s))
  <2>1. starts \in Seq(0 .. Len(s))
    BY <1>1
  <2> HIDE DEF starts, places
  <2> QED
    BY <2>1, KeptType
<1>3. \A low \in 0 .. Len(s) : after(low) \in ends /\ after(low) > low
  <2> TAKE low \in 0 .. Len(s)
  <2> DEFINE S == {e \in ends : e > low}
  <2>0. ends \in SUBSET Nat /\ Len(s) + 1 \in ends
    BY <1>1
  <2>1. S \in SUBSET Nat /\ S # {}
    <3> HIDE DEF ends
    <3>1. Len(s) + 1 \in S
      BY <1>1, <2>0
    <3> QED
      BY <2>0, <3>1
  <2>2. \E e \in S : \A f \in S : e <= f
    <3> HIDE DEF S
    <3> QED
      BY <2>1, LeastExists
  <2> HIDE DEF ends
  <2> QED
    BY <2>2
<1>4. Components(s) = [k \in DOMAIN from |-> SubSeq(s, from[k] + 1, after(from[k]) - 1)]
  BY DEF Components
<1> HIDE DEF from, after
<1>5. DOMAIN from = 1 .. Len(from) /\ Len(from) \in Nat
  BY <1>2
<1>6. \A k \in DOMAIN from : SubSeq(s, from[k] + 1, after(from[k]) - 1) \in Names
  <2> TAKE k \in DOMAIN from
  <2>1. from[k] \in 0 .. Len(s)
    BY <1>2
  <2>2. after(from[k]) \in 1 .. Len(s) + 1
    BY <1>1, <1>3, <2>1
  <2>3. from[k] + 1 \in Nat \ {0} /\ after(from[k]) - 1 \in Int /\ after(from[k]) - 1 <= Len(s)
    BY <1>1, <2>1, <2>2
  <2> QED
    BY <1>1, <2>3, PieceType DEF Names
<1>7. [k \in DOMAIN from |-> SubSeq(s, from[k] + 1, after(from[k]) - 1)] \in Seq(Names)
  BY <1>5, <1>6
<1> QED
  BY <1>4, <1>7

LEMMA PartsType ==
  ASSUME NEW s \in Names
  PROVE  Parts(s) \in Seq(Names)
<1>1. Components(s) \in Seq(Names)
  BY ComponentsType
<1>2. \A places : Kept(Components(s), places) \in Seq(Names)
  BY <1>1, KeptType
<1> QED
  BY <1>2 DEF Parts

-----------------------------------------------------------------------------
(* Names with one separator less *)

\* The scalar made of the bytes a, b, c and d, or of the first of them.
ScalarOf(a, b, c, d) ==
  LET two == a \in 194 .. 223 /\ Continues(b)
      three == /\ Continues(c)
               /\ \/ a = 224 /\ b \in 160 .. 191
                  \/ a \in 225 .. 236 \cup {238, 239} /\ Continues(b)
                  \/ a = 237 /\ b \in 128 .. 159
      four == /\ Continues(c) /\ Continues(d)
              /\ \/ a = 240 /\ b \in 144 .. 191
                 \/ a \in 241 .. 243 /\ Continues(b)
                 \/ a = 244 /\ b \in 128 .. 143
  IN IF a < 128 THEN [length |-> 1, point |-> a]
     ELSE IF two THEN [length |-> 2, point |-> (a - 192) * 64 + b - 128]
     ELSE IF three THEN [length |-> 3, point |-> ((a - 224) * 64 + b - 128) * 64 + c - 128]
     ELSE IF four THEN [length |-> 4,
                        point |-> (((a - 240) * 64 + b - 128) * 64 + c - 128) * 64 + d - 128]
     ELSE NoScalar
ByteAt(s, i) == IF i <= Len(s) THEN s[i] ELSE 0

LEMMA ScalarIs ==
  ASSUME NEW s, NEW i
  PROVE  Scalar(s, i) = ScalarOf(s[i], ByteAt(s, i + 1), ByteAt(s, i + 2), ByteAt(s, i + 3))
BY SMT DEF Scalar, ScalarOf, ByteAt

\* A slash is a scalar of its own and ends the one before it.
LEMMA SlashEndsScalar ==
  ASSUME NEW a \in Byte
  PROVE  /\ \A b, c, d : ScalarOf(Slash, b, c, d) = [length |-> 1, point |-> Slash]
         /\ \A c, d, e, f : ScalarOf(a, Slash, c, d) = ScalarOf(a, Slash, e, f)
         /\ \A b \in Byte : \A d, f : ScalarOf(a, b, Slash, d) = ScalarOf(a, b, Slash, f)
         /\ \A c, d : ScalarOf(a, Slash, c, d).length <= 1
         /\ \A b \in Byte : \A d : ScalarOf(a, b, Slash, d).length <= 2
         /\ \A b, c \in Byte : ScalarOf(a, b, c, Slash).length <= 3
         /\ \A b, c, d \in Byte : ScalarOf(a, b, c, d).length <= 4
<1>1. \A b, c, d : ScalarOf(Slash, b, c, d) = [length |-> 1, point |-> Slash]
  BY DEF ScalarOf, Slash
<1>2. ~ Continues(Slash) /\ Slash \notin 144 .. 191 /\ Slash \notin 128 .. 143
      /\ Slash \notin 160 .. 191 /\ Slash \notin 128 .. 159
  BY DEF Continues, Slash
<1>3. \A c, d : ScalarOf(a, Slash, c, d) = IF a < 128 THEN [length |-> 1, point |-> a] ELSE NoScalar
  BY <1>2 DEF ScalarOf
<1>4. \A b \in Byte : \A d :
        ScalarOf(a, b, Slash, d)
        = IF a < 128 THEN [length |-> 1, point |-> a]
          ELSE IF a \in 194 .. 223 /\ Continues(b)
          THEN [length |-> 2, point |-> (a - 192) * 64 + b - 128]
          ELSE NoScalar
  BY <1>2 DEF ScalarOf
<1>5. \A b, c \in Byte : ScalarOf(a, b, c, Slash).length <= 3
  BY <1>2 DEF ScalarOf, NoScalar
<1>6. \A b, c, d \in Byte : ScalarOf(a, b, c, d).length <= 4
  BY DEF ScalarOf, NoScalar
<1>7. \A c, d, e, f : ScalarOf(a, Slash, c, d) = ScalarOf(a, Slash, e, f)
  BY <1>3
<1>8. \A b \in Byte : \A d, f : ScalarOf(a, b, Slash, d) = ScalarOf(a, b, Slash, f)
  BY <1>4
<1>9. \A c, d : ScalarOf(a, Slash, c, d).length <= 1
  BY <1>3 DEF NoScalar
<1>10. \A b \in Byte : \A d : ScalarOf(a, b, Slash, d).length <= 2
  BY <1>4 DEF NoScalar
<1> QED
  BY <1>1, <1>5, <1>6, <1>7, <1>8, <1>9, <1>10

\* So the scalars before a slash do not depend on what follows it.
LEMMA ScalarBeforeSlash ==
  ASSUME NEW s \in Names, NEW t \in Names, NEW m \in 1 .. Len(s), m <= Len(t),
         \A k \in 1 .. m : t[k] = s[k], s[m] = Slash, NEW i \in 1 .. m
  PROVE  Scalar(t, i) = Scalar(s, i) /\ i + Scalar(s, i).length <= m + 1
<1>0. /\ Len(s) \in Nat /\ Len(t) \in Nat /\ m \in 1 .. Len(t) /\ i \in 1 .. Len(s)
      /\ \A k \in 1 .. Len(s) : s[k] \in Byte
      /\ \A k \in 1 .. Len(t) : t[k] \in Byte
  BY DEF Names
<1>1. \A k \in Int : k > 0 => ByteAt(s, k) \in Byte /\ ByteAt(t, k) \in Byte
  BY <1>0 DEF ByteAt, Byte
<1>2. \A k \in 1 .. m : ByteAt(s, k) = s[k] /\ ByteAt(t, k) = s[k]
  BY <1>0 DEF ByteAt
<1>3. /\ Scalar(s, i) = ScalarOf(s[i], ByteAt(s, i + 1), ByteAt(s, i + 2), ByteAt(s, i + 3))
      /\ Scalar(t, i) = ScalarOf(s[i], ByteAt(t, i + 1), ByteAt(t, i + 2), ByteAt(t, i + 3))
  BY ScalarIs
<1>4. s[i] \in Byte /\ i \in Int
  BY <1>0
<1>5. CASE i = m
  <2>1. Scalar(s, i) = [length |-> 1, point |-> Slash] /\ Scalar(t, i) = [length |-> 1, point |-> Slash]
    BY <1>3, <1>4, <1>5, SlashEndsScalar
  <2> QED
    BY <1>4, <1>5, <2>1
<1>6. CASE i + 1 = m
  <2>1. ByteAt(s, i + 1) = Slash /\ ByteAt(t, i + 1) = Slash
    BY <1>2, <1>6
  <2>2. Scalar(t, i) = Scalar(s, i)
    BY <1>3, <1>4, <2>1, SlashEndsScalar
  <2>3. Scalar(s, i).length <= 1
    BY <1>3, <1>4, <2>1, SlashEndsScalar
  <2>4. Scalar(s, i).length \in 0 .. 4
    BY <1>0, ScalarFacts
  <2> QED
    BY <1>4, <1>6, <2>2, <2>3, <2>4
<1>7. CASE i + 2 = m
  <2>1. ByteAt(s, i + 2) = Slash /\ ByteAt(t, i + 2) = Slash /\ ByteAt(t, i + 1) = ByteAt(s, i + 1)
    BY <1>2, <1>4, <1>7
  <2>2. ByteAt(s, i + 1) \in Byte
    BY <1>1, <1>4
  <2>3. Scalar(t, i) = Scalar(s, i)
    BY <1>3, <1>4, <2>1, <2>2, SlashEndsScalar
  <2>4. Scalar(s, i).length <= 2
    BY <1>3, <1>4, <2>1, <2>2, SlashEndsScalar
  <2>5. Scalar(s, i).length \in 0 .. 4
    BY <1>0, ScalarFacts
  <2> QED
    BY <1>4, <1>7, <2>3, <2>4, <2>5
<1>8. CASE i + 2 < m
  <2>1. i + 1 \in 1 .. m /\ i + 2 \in 1 .. m /\ i + 3 \in 1 .. m
    BY <1>4, <1>8
  <2>2. ByteAt(t, i + 1) = ByteAt(s, i + 1) /\ ByteAt(t, i + 2) = ByteAt(s, i + 2)
        /\ ByteAt(t, i + 3) = ByteAt(s, i + 3)
    BY <1>2, <2>1
  <2>3. Scalar(t, i) = Scalar(s, i)
    BY <1>3, <2>2
  <2>4. Scalar(s, i).length \in 0 .. 4
    BY <1>0, ScalarFacts
  <2>5. CASE i + 3 = m
    <3>1. ByteAt(s, i + 3) = Slash /\ ByteAt(s, i + 1) \in Byte /\ ByteAt(s, i + 2) \in Byte
      BY <1>1, <1>2, <1>4, <2>5
    <3>2. Scalar(s, i).length <= 3
      BY <1>3, <1>4, <3>1, SlashEndsScalar
    <3> QED
      BY <1>4, <2>3, <2>4, <2>5, <3>2
  <2>6. CASE i + 3 < m
    BY <1>4, <2>3, <2>4, <2>6
  <2> QED
    BY <1>4, <1>8, <2>5, <2>6
<1> QED
  BY <1>4, <1>5, <1>6, <1>7, <1>8

\* A name without backslashes, and without two slashes in a row.
IsPlain(s) == \A i \in DOMAIN s : s[i] # Backslash
IsDoubled(s, i) == i \in 2 .. Len(s) /\ s[i - 1] = Slash /\ s[i] = Slash
IsTidy(s) == IsPlain(s) /\ \A i \in 2 .. Len(s) : ~ IsDoubled(s, i)
\* The places that Normalize keeps.
Firsts(s) == {i \in DOMAIN s : s[i] \in Separators /\ i > 1 => s[i - 1] \notin Separators}

LEMMA PlainFacts ==
  ASSUME NEW s \in Names
  PROVE  /\ s \in Seq(Byte) /\ Len(s) \in Nat /\ DOMAIN s = 1 .. Len(s)
         /\ \A i \in 1 .. Len(s) : s[i] \in Byte
         /\ IsPlain(s) => \A i \in 1 .. Len(s) : s[i] \in Separators <=> s[i] = Slash
BY DEF Names, IsPlain, Separators

LEMMA NormalizeKeeps ==
  ASSUME NEW s \in Names, IsPlain(s)
  PROVE  Normalize(s, FALSE) = Kept(s, Firsts(s))
<1> DEFINE first(i) == s[i] \in Separators /\ i > 1 => s[i - 1] \notin Separators
           kept == Kept([i \in DOMAIN s |-> i], {i \in DOMAIN s : first(i)})
           normal(c) == IF c \in Separators THEN Slash ELSE IF FALSE THEN Fold(c) ELSE c
<1>1. Normalize(s, FALSE) = [k \in DOMAIN kept |-> normal(s[kept[k]])]
  BY DEF Normalize
<1>2. [k \in DOMAIN kept |-> s[kept[k]]] = Kept(s, Firsts(s))
  <2>1. s \in Seq(Byte)
    BY DEF Names
  <2>2. {i \in DOMAIN s : first(i)} = Firsts(s)
    BY DEF Firsts
  <2> QED
    BY <2>1, <2>2, KeptOfIndices
<1>3. \A k \in DOMAIN kept : kept[k] \in DOMAIN s
  <2>1. [i \in DOMAIN s |-> i] \in Seq(DOMAIN s)
    BY PlainFacts
  <2>2. kept \in Seq(DOMAIN s)
    <3> DEFINE indices == [i \in DOMAIN s |-> i]
               D == DOMAIN s
    <3> HIDE DEF indices, D, first
    <3> QED
      BY <2>1, KeptType DEF indices, D
  <2> HIDE DEF kept
  <2> QED
    BY <2>2
<1>4. \A i \in DOMAIN s : normal(s[i]) = s[i]
  BY PlainFacts
<1> HIDE DEF kept, normal
<1> QED
  BY <1>1, <1>2, <1>3, <1>4

LEMMA TidyStays ==
  ASSUME NEW s \in Names, IsTidy(s)
  PROVE  Normalize(s, FALSE) = s
<1>1. /\ s \in Seq(Byte) /\ Len(s) \in Nat /\ DOMAIN s = 1 .. Len(s)
      /\ \A i \in 1 .. Len(s) : s[i] \in Separators <=> s[i] = Slash
  BY PlainFacts DEF IsTidy
<1>2. \A i \in 1 .. Len(s) : s[i] = Slash /\ i > 1 => s[i - 1] # Slash
  BY <1>1 DEF IsTidy, IsDoubled
<1>3. \A i \in 1 .. Len(s) : i > 1 => i - 1 \in 1 .. Len(s)
  BY <1>1
<1>4. DOMAIN s \subseteq Firsts(s)
  BY <1>1, <1>2, <1>3 DEF Firsts
<1>5. Kept(s, Firsts(s)) = s
  BY <1>1, <1>4, KeptAll
<1> QED
  BY <1>5, NormalizeKeeps DEF IsTidy

\* A name without the second of two slashes.
LEMMA OneSlashLess ==
  ASSUME NEW s \in Names, NEW i, IsDoubled(s, i)
  PROVE  /\ RemoveAt(s, i) \in Names
         /\ Len(RemoveAt(s, i)) = Len(s) - 1
         /\ i \in 2 .. Len(s)
         /\ \A k \in 1 .. Len(s) - 1 : k < i => RemoveAt(s, i)[k] = s[k]
         /\ \A k \in 1 .. Len(s) - 1 : k >= i - 1 => RemoveAt(s, i)[k] = s[k + 1]
         /\ s[i - 1] = Slash /\ s[i] = Slash
<1>1. s \in Seq(Byte) /\ Len(s) \in Nat /\ i \in 2 .. Len(s) /\ s[i - 1] = Slash /\ s[i] = Slash
  BY DEF Names, IsDoubled
<1> DEFINE t == RemoveAt(s, i)
<1>2. i \in 1 .. Len(s)
  BY <1>1
<1>3. /\ t \in Seq(Byte) /\ Len(t) = Len(s) - 1
      /\ \A k \in 1 .. Len(s) - 1 : t[k] = IF k < i THEN s[k] ELSE s[k + 1]
  BY <1>1, <1>2, RemoveAtType
<1> HIDE DEF t
<1>4. \A k \in 1 .. Len(s) - 1 : k < i => t[k] = s[k]
  BY <1>3
<1>5. \A k \in 1 .. Len(s) - 1 : k >= i - 1 => t[k] = s[k + 1]
  <2> TAKE k \in 1 .. Len(s) - 1
  <2> HAVE k >= i - 1
  <2>1. CASE k = i - 1
    <3>1. t[k] = s[k] /\ k + 1 = i
      BY <1>1, <1>4, <2>1
    <3> QED
      BY <1>1, <2>1, <3>1
  <2>2. CASE k # i - 1
    <3>1. ~ (k < i)
      BY <1>1, <2>2
    <3> QED
      BY <1>3, <3>1
  <2> QED
    BY <2>1, <2>2
<1> QED
  BY <1>1, <1>3, <1>4, <1>5 DEF t, Names

LEMMA NormalizeSkips ==
  ASSUME NEW s \in Names, IsPlain(s), NEW i, IsDoubled(s, i)
  PROVE  /\ IsPlain(RemoveAt(s, i))
         /\ Normalize(RemoveAt(s, i), FALSE) = Normalize(s, FALSE)
<1> DEFINE t == RemoveAt(s, i)
<1>1. /\ t \in Names /\ Len(t) = Len(s) - 1 /\ i \in 2 .. Len(s)
      /\ \A k \in 1 .. Len(s) - 1 : k < i => t[k] = s[k]
      /\ \A k \in 1 .. Len(s) - 1 : k >= i - 1 => t[k] = s[k + 1]
      /\ s[i - 1] = Slash /\ s[i] = Slash
  BY OneSlashLess
<1> HIDE DEF t
<1>2. Len(s) \in Nat /\ DOMAIN s = 1 .. Len(s) /\ DOMAIN t = 1 .. Len(s) - 1 /\ s \in Seq(Byte)
  BY <1>1 DEF Names
<1>3. IsPlain(t)
  <2> SUFFICES ASSUME NEW k \in 1 .. Len(s) - 1 PROVE t[k] # Backslash
    BY <1>2 DEF IsPlain
  <2>1. k \in 1 .. Len(s) /\ k + 1 \in 1 .. Len(s)
    BY <1>2
  <2>2. t[k] = s[k] \/ t[k] = s[k + 1]
    BY <1>1, <1>2
  <2> QED
    BY <1>2, <2>1, <2>2 DEF IsPlain
<1>4. \A k \in 1 .. Len(s) : s[k] \in Separators <=> s[k] = Slash
  BY PlainFacts
<1>5. \A k \in 1 .. Len(s) - 1 : t[k] \in Separators <=> t[k] = Slash
  BY <1>1, <1>3, PlainFacts
<1>6. i \notin Firsts(s)
  <2>1. i - 1 \in 1 .. Len(s) /\ i \in 1 .. Len(s) /\ i > 1
    BY <1>1, <1>2
  <2> QED
    BY <1>1, <1>4, <2>1 DEF Firsts
<1>7. \A k \in 1 .. Len(s) : k \in Firsts(s) <=> (s[k] = Slash /\ k > 1 => s[k - 1] # Slash)
  <2>1. \A k \in 1 .. Len(s) : k > 1 => k - 1 \in 1 .. Len(s)
    BY <1>2
  <2> QED
    BY <1>2, <1>4, <2>1 DEF Firsts
<1>8. \A k \in 1 .. Len(s) - 1 : k \in Firsts(t) <=> (t[k] = Slash /\ k > 1 => t[k - 1] # Slash)
  <2>1. \A k \in 1 .. Len(s) - 1 : k > 1 => k - 1 \in 1 .. Len(s) - 1
    BY <1>2
  <2> QED
    BY <1>2, <1>5, <2>1 DEF Firsts
<1>9. \A k \in 1 .. Len(s) - 1 : k \in Firsts(t) <=> (IF k < i THEN k ELSE k + 1) \in Firsts(s)
  <2> TAKE k \in 1 .. Len(s) - 1
  <2>1. CASE k < i
    <3>1. k \in 1 .. Len(s) /\ t[k] = s[k] /\ (k > 1 => t[k - 1] = s[k - 1])
      BY <1>1, <1>2, <2>1
    <3> QED
      BY <1>7, <1>8, <2>1, <3>1
  <2>2. CASE ~ (k < i)
    <3>1. /\ k + 1 \in 1 .. Len(s) /\ k > 1 /\ k + 1 > 1 /\ (k + 1) - 1 = k /\ k - 1 \in 1 .. Len(s) - 1
          /\ k >= i - 1 /\ k - 1 >= i - 1 /\ (k - 1) + 1 = k
      BY <1>1, <1>2, <2>2
    <3>2. t[k] = s[k + 1] /\ t[k - 1] = s[k]
      BY <1>1, <3>1
    <3> QED
      BY <1>7, <1>8, <2>2, <3>1, <3>2
  <2> QED
    BY <2>1, <2>2
<1>10. Kept(t, Firsts(t)) = Kept(s, Firsts(s))
  <2>1. i \in 1 .. Len(s)
    BY <1>1, <1>2
  <2> DEFINE F == Firsts(s)
             G == Firsts(t)
  <2> HIDE DEF F, G
  <2>2. Kept(RemoveAt(s, i), G) = Kept(s, F)
    BY <1>2, <1>6, <1>9, <2>1, KeptWithoutOne DEF F, G
  <2> QED
    BY <2>2 DEF F, G, t
<1> QED
  BY <1>1, <1>3, <1>10, NormalizeKeeps DEF t

\* Text stays text without that slash.
LEMMA OneSlashLessIsText ==
  ASSUME NEW s \in Names, NEW i, IsDoubled(s, i), ~ HasUnsafeText(s)
  PROVE  ~ HasUnsafeText(RemoveAt(s, i))
<1> DEFINE t == RemoveAt(s, i)
           n == Len(s)
<1>1. /\ t \in Names /\ Len(t) = n - 1 /\ i \in 2 .. n
      /\ \A k \in 1 .. n - 1 : k < i => t[k] = s[k]
      /\ \A k \in 1 .. n - 1 : k >= i - 1 => t[k] = s[k + 1]
      /\ s[i - 1] = Slash /\ s[i] = Slash
  BY OneSlashLess
<1>2. n \in Nat
  BY DEF Names
<1>3. PICK bad : UnsafeFrom(bad, s)
  BY UnsafeTextScan
<1> HIDE DEF t
<1>4. PICK of : UnsafeFrom(of, t)
  BY <1>1, UnsafeTextScan
<1> HIDE DEF n
<1>5. bad[i] = bad[i + 1]
  <2>1. Scalar(s, i) = [length |-> 1, point |-> Slash]
    <3>1. Slash \in Byte
      BY DEF Slash, Byte
    <3> QED
      BY <1>1, <3>1, ScalarIs, SlashEndsScalar
  <2>2. ~ IsDisplayControl(Slash)
    BY DEF IsDisplayControl, Slash
  <2>3. i \in 1 .. Len(s)
    BY <1>1, <1>2 DEF n
  <2>4. bad[i] = IF Scalar(s, i).length = 0 \/ IsDisplayControl(Scalar(s, i).point)
                 THEN TRUE ELSE bad[i + Scalar(s, i).length]
    BY <1>3, <2>3 DEF UnsafeFrom
  <2> QED
    BY <2>1, <2>2, <2>4
\* Before the slash the scans agree, behind it they do one place apart.
<1> DEFINE Agree(k) == (k <= i => of[k] = bad[k]) /\ (k >= i => of[k] = bad[k + 1])
           T == {j \in Nat : \A k \in n - j .. n : k >= 1 => Agree(k)}
<1>6. 0 \in T
  <2>1. of[n] = FALSE /\ bad[n + 1] = FALSE
    <3>1. Len(t) + 1 = n
      BY <1>1, <1>2
    <3> QED
      BY <1>3, <1>4, <3>1 DEF UnsafeFrom, n
  <2>2. Agree(n)
    <3>1. n >= i /\ (n <= i => n = i)
      BY <1>1, <1>2
    <3>2. n = i => bad[n] = bad[n + 1]
      BY <1>5
    <3> QED
      BY <2>1, <3>1, <3>2
  <2> HIDE DEF Agree
  <2> QED
    BY <1>2, <2>2
<1>7. \A j \in 0 .. n - 1 : j \in T => j + 1 \in T
  <2> TAKE j \in 0 .. n - 1
  <2> HAVE j \in T
  <2> DEFINE low == n - (j + 1)
  <2>1. ASSUME low >= 1 PROVE Agree(low)
    <3>1. low \in 1 .. n - 1 /\ low \in Int
      BY <1>2, <2>1
    <3>2. \A k \in n - j .. n : k >= 1 => Agree(k)
      OBVIOUS
    <3>3. low + 1 = n - j
      BY <1>2
    <3> HIDE DEF low, Agree
    <3>4. of[low] = IF Scalar(t, low).length = 0 \/ IsDisplayControl(Scalar(t, low).point)
                    THEN TRUE ELSE of[low + Scalar(t, low).length]
      BY <1>1, <1>4, <3>1 DEF UnsafeFrom
    <3>5. Scalar(t, low).length \in 0 .. 4 /\ low + Scalar(t, low).length <= n
      <4>1. /\ Scalar(t, low).length \in 0 .. 4
            /\ low + Scalar(t, low).length <= Len(t) + 1
        <5>1. low \in 1 .. Len(t)
          BY <1>1, <3>1
        <5> QED
          BY <1>1, <5>1, ScalarFacts
      <4> QED
        BY <1>1, <1>2, <4>1
    <3>6. Scalar(t, low).length > 0 => Agree(low + Scalar(t, low).length)
      <4> SUFFICES ASSUME Scalar(t, low).length > 0
                   PROVE  Agree(low + Scalar(t, low).length)
        OBVIOUS
      <4> DEFINE l == Scalar(t, low).length
      <4>1. l \in 1 .. 4 /\ low + l <= n
        BY <3>5
      <4> HIDE DEF l
      <4>2. low + l \in n - j .. n /\ low + l >= 1
        BY <1>2, <3>1, <3>3, <4>1
      <4> QED
        BY <3>2, <4>2 DEF l
    <3>7. CASE low < i
      <4>1. Scalar(t, low) = Scalar(s, low) /\ low + Scalar(s, low).length <= (i - 1) + 1
        <5>1. i - 1 \in 1 .. Len(s) /\ i - 1 <= Len(t) /\ low \in 1 .. i - 1
          BY <1>1, <1>2, <3>1, <3>7 DEF n
        <5>2. \A k \in 1 .. i - 1 : t[k] = s[k]
          BY <1>1, <1>2
        <5> QED
          BY <1>1, <5>1, <5>2, ScalarBeforeSlash
      <4>2. bad[low] = IF Scalar(s, low).length = 0 \/ IsDisplayControl(Scalar(s, low).point)
                       THEN TRUE ELSE bad[low + Scalar(s, low).length]
        <5>1. low \in 1 .. Len(s)
          BY <1>2, <3>1 DEF n
        <5> QED
          BY <1>3, <5>1 DEF UnsafeFrom
      <4>3. Scalar(t, low).length > 0 =>
              of[low + Scalar(t, low).length] = bad[low + Scalar(t, low).length]
        BY <1>1, <3>6, <4>1 DEF Agree
      <4>4. Scalar(t, low).length # 0 => Scalar(t, low).length > 0
        BY <3>5
      <4>5. of[low] = bad[low]
        BY <3>4, <4>1, <4>2, <4>3, <4>4
      <4> QED
        BY <1>1, <3>1, <3>7, <4>5 DEF Agree
    <3>8. CASE ~ (low < i)
      <4>1. Scalar(t, low) = Scalar(s, low + 1)
        <5>1. t[low] = s[low + 1]
          BY <1>1, <3>1, <3>8
        <5>2. \A k \in 1 .. 3 : ByteAt(t, low + k) = ByteAt(s, (low + 1) + k)
          <6> TAKE k \in 1 .. 3
          <6>1. CASE low + k <= n - 1
            <7>1. low + k \in 1 .. n - 1 /\ low + k >= i - 1 /\ (low + 1) + k = (low + k) + 1
                  /\ (low + 1) + k <= n
              BY <1>1, <1>2, <3>1, <3>8, <6>1
            <7>2. t[low + k] = s[(low + 1) + k]
              BY <1>1, <7>1
            <7> QED
              BY <1>1, <6>1, <7>1, <7>2 DEF ByteAt, n
          <6>2. CASE ~ (low + k <= n - 1)
            <7>1. ~ ((low + 1) + k <= n)
              BY <1>2, <3>1, <6>2
            <7> QED
              BY <1>1, <6>2, <7>1 DEF ByteAt, n
          <6> QED
            BY <6>1, <6>2
        <5>3. /\ ByteAt(t, low + 1) = ByteAt(s, (low + 1) + 1)
              /\ ByteAt(t, low + 2) = ByteAt(s, (low + 1) + 2)
              /\ ByteAt(t, low + 3) = ByteAt(s, (low + 1) + 3)
          BY <5>2
        <5> QED
          BY <5>1, <5>3, ScalarIs
      <4>2. bad[low + 1] = IF Scalar(s, low + 1).length = 0 \/ IsDisplayControl(Scalar(s, low + 1).point)
                           THEN TRUE ELSE bad[(low + 1) + Scalar(s, low + 1).length]
        <5>1. low + 1 \in 1 .. Len(s)
          BY <1>2, <3>1 DEF n
        <5> QED
          BY <1>3, <5>1 DEF UnsafeFrom
      <4>3. Scalar(t, low).length > 0 =>
              of[low + Scalar(t, low).length] = bad[(low + 1) + Scalar(t, low).length]
        <5> SUFFICES ASSUME Scalar(t, low).length > 0
                     PROVE  of[low + Scalar(t, low).length] = bad[(low + 1) + Scalar(t, low).length]
          OBVIOUS
        <5> DEFINE l == Scalar(t, low).length
        <5>1. l \in 1 .. 4 /\ Agree(low + l)
          BY <3>5, <3>6
        <5> HIDE DEF l
        <5>2. low + l >= i /\ (low + l) + 1 = (low + 1) + l
          BY <1>1, <3>1, <3>8, <5>1
        <5>3. of[low + l] = bad[(low + 1) + l]
          BY <5>1, <5>2 DEF Agree
        <5> QED
          BY <5>3 DEF l
      <4>4. Scalar(t, low).length # 0 => Scalar(t, low).length > 0
        BY <3>5
      <4>5. of[low] = bad[low + 1]
        BY <3>4, <4>1, <4>2, <4>3, <4>4
      <4>6. low = i => bad[low] = bad[low + 1]
        BY <1>5
      <4> QED
        BY <1>1, <3>1, <3>8, <4>5, <4>6 DEF Agree
    <3> QED
      BY <3>7, <3>8
  <2> HIDE DEF Agree
  <2>2. \A k \in n - (j + 1) .. n : k = low \/ k \in n - j .. n
    BY <1>2
  <2> QED
    BY <1>2, <2>1, <2>2
<1>8. n - 1 \in T
  <2> HIDE DEF T
  <2>1. \A k \in 0 .. n : k \in T
    BY <1>2, <1>6, <1>7, BoundedInduction
  <2> QED
    BY <1>1, <1>2, <2>1
<1>9. of[1] = bad[1]
  <2>1. Agree(1)
    <3> HIDE DEF Agree
    <3>1. 1 \in n - (n - 1) .. n
      BY <1>1, <1>2
    <3> QED
      BY <1>8, <3>1
  <2> QED
    BY <1>1, <2>1
<1> QED
  BY <1>3, <1>4, <1>9 DEF UnsafeFrom, t

-----------------------------------------------------------------------------
(* Components *)

\* A component stands between two separators or ends of the name.
IsBetween(s, a, b) ==
  /\ a \in 0 .. Len(s) /\ b \in a + 1 .. Len(s) + 1
  /\ a = 0 \/ s[a] \in Separators
  /\ b = Len(s) + 1 \/ s[b] \in Separators
  /\ \A k \in a + 1 .. b - 1 : s[k] \notin Separators

LEMMA ComponentsAre ==
  ASSUME NEW s \in Names
  PROVE  /\ \A c \in Range(Components(s)) :
              \E a, b : IsBetween(s, a, b) /\ c = SubSeq(s, a + 1, b - 1)
         /\ \A a, b : IsBetween(s, a, b) => SubSeq(s, a + 1, b - 1) \in Range(Components(s))
<1> DEFINE ends == {i \in DOMAIN s : s[i] \in Separators} \cup {Len(s) + 1}
           IsAfter(e, low) == e \in ends /\ e > low /\ \A f \in ends : f > low => e <= f
           after(low) == CHOOSE e \in ends : e > low /\ \A f \in ends : f > low => e <= f
           starts == [i \in 1 .. Len(s) + 1 |-> i - 1]
           places == {1} \cup {i \in 2 .. Len(s) + 1 : i - 1 \in ends}
           from == Kept(starts, places)
           n == Len(s)
<1>1. s \in Seq(Byte) /\ n \in Nat /\ DOMAIN s = 1 .. n
  BY DEF Names
<1>2. starts \in Seq(0 .. n) /\ DOMAIN starts = 1 .. n + 1 /\ \A i \in 1 .. n + 1 : starts[i] = i - 1
  BY <1>1
<1>3. ends \in SUBSET (1 .. n + 1) /\ n + 1 \in ends
      /\ \A e \in 1 .. n + 1 : e \in ends <=> e = n + 1 \/ s[e] \in Separators
  BY <1>1
<1>4. Range(from) = {starts[k] : k \in places \cap DOMAIN starts} /\ from \in Seq(0 .. n)
  <2> HIDE DEF starts, places
  <2> QED
    BY <1>2, KeptRange, KeptType
<1>5. \A a \in 0 .. n : a \in Range(from) <=> a = 0 \/ s[a] \in Separators
  <2> TAKE a \in 0 .. n
  <2>1. a + 1 \in 1 .. n + 1 /\ (a + 1) - 1 = a
    BY <1>1
  <2>2. a + 1 \in places <=> a = 0 \/ s[a] \in Separators
    <3>1. CASE a = 0
      BY <3>1
    <3>2. CASE a # 0
      <4>1. a + 1 \in 2 .. n + 1 /\ a + 1 # 1 /\ a \in 1 .. n + 1 /\ a # n + 1
        BY <1>1, <3>2
      <4>2. a + 1 \in places <=> a \in ends
        <5> HIDE DEF ends
        <5> QED
          BY <2>1, <4>1
      <4> HIDE DEF places, ends
      <4> QED
        BY <1>3, <3>2, <4>1, <4>2
    <3> QED
      BY <3>1, <3>2
  <2> HIDE DEF places, starts, from
  <2>3. a \in Range(from) => a + 1 \in places
    <3> SUFFICES ASSUME a \in Range(from) PROVE a + 1 \in places
      OBVIOUS
    <3>1. PICK k \in places \cap DOMAIN starts : a = starts[k]
      BY <1>4
    <3>2. k \in 1 .. n + 1 /\ a = k - 1
      BY <1>2, <3>1
    <3>3. k = a + 1
      BY <3>2
    <3> QED
      BY <3>1, <3>3
  <2>4. a + 1 \in places => a \in Range(from)
    BY <1>2, <1>4, <2>1
  <2> QED
    BY <2>2, <2>3, <2>4
<1>6. \A a \in 0 .. n : IsAfter(after(a), a)
  <2> TAKE a \in 0 .. n
  <2> DEFINE S == {e \in ends : e > a}
  <2>1. S \in SUBSET Nat /\ S # {}
    <3> HIDE DEF ends
    <3>1. n + 1 \in S
      BY <1>1, <1>3
    <3>2. \A e \in ends : e \in Nat
      BY <1>1, <1>3
    <3>3. S \in SUBSET Nat
      BY <3>2
    <3> HIDE DEF S
    <3> QED
      BY <3>1, <3>3
  <2>2. \E e \in S : \A f \in S : e <= f
    <3> HIDE DEF S
    <3> QED
      BY <2>1, LeastExists
  <2> HIDE DEF ends
  <2> QED
    BY <2>2
<1>7. ASSUME NEW a \in 0 .. n, a = 0 \/ s[a] \in Separators, NEW b
      PROVE  IsAfter(b, a) <=> IsBetween(s, a, b)
  <2>1. ASSUME IsAfter(b, a) PROVE IsBetween(s, a, b)
    <3> HIDE DEF ends
    <3>1. b \in 1 .. n + 1 /\ b > a /\ (b = n + 1 \/ s[b] \in Separators)
      BY <1>3, <2>1
    <3>2. \A k \in a + 1 .. b - 1 : s[k] \notin Separators
      <4> TAKE k \in a + 1 .. b - 1
      <4>1. k \in 1 .. n + 1 /\ k > a /\ ~ (b <= k)
        BY <1>1, <3>1
      <4>2. k \notin ends
        BY <2>1, <4>1
      <4> QED
        BY <1>3, <4>1, <4>2
    <3>3. b \in a + 1 .. n + 1
      BY <1>1, <3>1
    <3> QED
      BY <1>7, <3>1, <3>2, <3>3 DEF IsBetween, n
  <2>2. ASSUME IsBetween(s, a, b) PROVE IsAfter(b, a)
    <3>1. b \in a + 1 .. n + 1 /\ (b = n + 1 \/ s[b] \in Separators)
          /\ \A k \in a + 1 .. b - 1 : s[k] \notin Separators
      BY <2>2 DEF IsBetween, n
    <3>2. b \in 1 .. n + 1 /\ b > a
      BY <1>1, <3>1
    <3> HIDE DEF ends
    <3>3. b \in ends
      BY <1>3, <3>1, <3>2
    <3>4. \A f \in ends : f > a => b <= f
      <4> SUFFICES ASSUME NEW f \in ends, f > a, ~ (b <= f) PROVE FALSE
        OBVIOUS
      <4>1. f \in 1 .. n + 1 /\ f \in a + 1 .. b - 1 /\ f # n + 1
        BY <1>1, <1>3, <3>2
      <4> QED
        BY <1>3, <3>1, <4>1
    <3> QED
      BY <3>2, <3>3, <3>4
  <2> HIDE DEF IsAfter
  <2> QED
    BY <2>1, <2>2
<1>8. Components(s) = [k \in DOMAIN from |-> SubSeq(s, from[k] + 1, after(from[k]) - 1)]
  BY DEF Components
<1> HIDE DEF from, after
<1>9. Range(Components(s)) = {SubSeq(s, a + 1, after(a) - 1) : a \in Range(from)}
  BY <1>8 DEF Range
<1>10. Range(from) \subseteq 0 .. n
  BY <1>4 DEF Range
<1>11. ASSUME NEW c \in Range(Components(s))
       PROVE  \E a, b : IsBetween(s, a, b) /\ c = SubSeq(s, a + 1, b - 1)
  <2>1. PICK a \in Range(from) : c = SubSeq(s, a + 1, after(a) - 1)
    BY <1>9
  <2>2. a \in 0 .. n /\ (a = 0 \/ s[a] \in Separators)
    BY <1>5, <1>10
  <2> HIDE DEF IsAfter
  <2>3. IsBetween(s, a, after(a))
    BY <1>6, <1>7, <2>2
  <2> QED
    BY <2>1, <2>3
<1>12. ASSUME NEW a, NEW b, IsBetween(s, a, b)
       PROVE  SubSeq(s, a + 1, b - 1) \in Range(Components(s))
  <2>1. a \in 0 .. n /\ (a = 0 \/ s[a] \in Separators)
    BY <1>12 DEF IsBetween, n
  <2>2. IsAfter(b, a) /\ IsAfter(after(a), a)
    <3> HIDE DEF IsAfter
    <3> QED
      BY <1>6, <1>7, <1>12, <2>1
  <2>3. b = after(a)
    <3> HIDE DEF ends
    <3>1. b \in ends /\ after(a) \in ends /\ b > a /\ after(a) > a
      BY <2>2
    <3>2. b <= after(a) /\ after(a) <= b
      BY <2>2, <3>1
    <3>3. b \in Int /\ after(a) \in Int
      <4>1. \A e \in ends : e \in Int
        BY <1>1, <1>3
      <4> QED
        BY <3>1, <4>1
    <3> QED
      BY <3>2, <3>3
  <2>4. a \in Range(from)
    BY <1>5, <2>1
  <2> QED
    BY <1>9, <2>3, <2>4
<1> QED
  BY <1>11, <1>12

\* Equal pieces of two sequences, d places apart.
LEMMA SamePiece ==
  ASSUME NEW S, NEW s \in Seq(S), NEW t \in Seq(S), NEW d \in Int, NEW i \in Int, NEW j \in Int,
         \A k \in i .. j : k \in 1 .. Len(t) /\ k + d \in 1 .. Len(s) /\ t[k] = s[k + d]
  PROVE  SubSeq(s, i + d, j + d) = SubSeq(t, i, j)
<1> DEFINE p == SubSeq(s, i + d, j + d)
           q == SubSeq(t, i, j)
           l == IF i <= j THEN j - i + 1 ELSE 0
<1>1. \A k \in i + d .. j + d : s[k] \in S
  <2> TAKE k \in i + d .. j + d
  <2>1. k - d \in i .. j /\ (k - d) + d = k
    OBVIOUS
  <2>2. k \in 1 .. Len(s)
    BY <2>1
  <2> QED
    BY <2>2, ElementOfSeq
<1>2. \A k \in i .. j : t[k] \in S
  BY ElementOfSeq
<1>3. /\ p \in Seq(S) /\ Len(p) = (IF i + d <= j + d THEN (j + d) - (i + d) + 1 ELSE 0)
      /\ \A k \in 1 .. (j + d) - (i + d) + 1 : p[k] = s[(i + d) + k - 1]
  <2> DEFINE x == i + d
             y == j + d
  <2>1. x \in Int /\ y \in Int /\ \A k \in x .. y : s[k] \in S
    BY <1>1
  <2>2. p = SubSeq(s, x, y)
    OBVIOUS
  <2> HIDE DEF x, y, p
  <2>3. /\ p \in Seq(S) /\ Len(p) = (IF x <= y THEN y - x + 1 ELSE 0)
        /\ \A k \in 1 .. y - x + 1 : p[k] = s[x + k - 1]
    BY <2>1, <2>2, SubSeqProperties
  <2> QED
    BY <2>3 DEF x, y
<1>4. /\ q \in Seq(S) /\ Len(q) = l
      /\ \A k \in 1 .. j - i + 1 : q[k] = t[i + k - 1]
  BY <1>2, SubSeqProperties
<1> HIDE DEF p, q
<1>5. Len(p) = l /\ l \in Nat
  BY <1>3
<1>6. \A k \in 1 .. l : p[k] = q[k]
  <2> TAKE k \in 1 .. l
  <2>1. /\ k \in 1 .. j - i + 1 /\ k \in 1 .. (j + d) - (i + d) + 1
        /\ i + k - 1 \in i .. j /\ (i + k - 1) + d = (i + d) + k - 1
    OBVIOUS
  <2>2. p[k] = s[(i + d) + k - 1] /\ q[k] = t[i + k - 1]
    BY <1>3, <1>4, <2>1
  <2>3. t[i + k - 1] = s[(i + k - 1) + d]
    BY <2>1
  <2> QED
    BY <2>1, <2>2, <2>3
<1>7. p = q
  <2> HIDE DEF l
  <2> QED
    BY <1>3, <1>4, <1>5, <1>6, SeqEqual
<1> QED
  BY <1>7 DEF p, q

\* The components of a name stay what they are without the second of two slashes.
LEMMA OneSlashLessComponents ==
  ASSUME NEW s \in Names, NEW i, IsDoubled(s, i)
  PROVE  Range(Components(RemoveAt(s, i))) \subseteq Range(Components(s))
<1> DEFINE t == RemoveAt(s, i)
           n == Len(s)
<1>1. /\ t \in Names /\ Len(t) = n - 1 /\ i \in 2 .. n
      /\ \A k \in 1 .. n - 1 : k < i => t[k] = s[k]
      /\ \A k \in 1 .. n - 1 : k >= i - 1 => t[k] = s[k + 1]
      /\ s[i - 1] = Slash /\ s[i] = Slash
  BY OneSlashLess
<1> HIDE DEF t
<1>2. n \in Nat /\ s \in Seq(Byte) /\ t \in Seq(Byte)
  BY <1>1 DEF Names
<1>3. Slash \in Separators
  BY DEF Separators
<1>4. SUFFICES ASSUME NEW c \in Range(Components(t)) PROVE c \in Range(Components(s))
  BY DEF t
<1>5. PICK a, b : IsBetween(t, a, b) /\ c = SubSeq(t, a + 1, b - 1)
  BY <1>1, <1>4, ComponentsAre
<1>6. /\ a \in 0 .. n - 1 /\ b \in a + 1 .. n
      /\ a = 0 \/ t[a] \in Separators
      /\ b = n \/ t[b] \in Separators
      /\ \A k \in a + 1 .. b - 1 : t[k] \notin Separators
  <2>1. Len(t) = n - 1 /\ (n - 1) + 1 = n
    BY <1>1, <1>2
  <2> QED
    BY <1>5, <2>1 DEF IsBetween
<1>7. CASE a < i - 1
  <2>1. b <= i - 1
    <3> SUFFICES ASSUME ~ (b <= i - 1) PROVE FALSE
      OBVIOUS
    <3>1. i - 1 \in a + 1 .. b - 1
      BY <1>1, <1>6, <1>7
    <3>2. t[i - 1] = Slash
      BY <1>1, <1>2
    <3> QED
      BY <1>3, <1>6, <3>1, <3>2
  <2>2. /\ a \in 0 .. n /\ b \in a + 1 .. n + 1 /\ b # n /\ b \in 1 .. n - 1
        /\ \A k \in a + 1 .. b - 1 : k \in 1 .. n - 1 /\ k < i
        /\ a # 0 => a \in 1 .. n - 1 /\ a < i
    BY <1>1, <1>2, <1>6, <1>7, <2>1
  <2>3. t[b] = s[b] /\ (a # 0 => t[a] = s[a]) /\ \A k \in a + 1 .. b - 1 : t[k] = s[k]
    BY <1>1, <2>1, <2>2
  <2>4. IsBetween(s, a, b)
    BY <1>6, <2>2, <2>3 DEF IsBetween, n
  <2>5. SubSeq(s, a + 1, b - 1) = c
    <3> DEFINE low == a + 1
               high == b - 1
    <3>1. low \in Int /\ high \in Int /\ 0 \in Int
      BY <2>2
    <3>2. \A k \in low .. high : k \in 1 .. Len(t) /\ k + 0 \in 1 .. Len(s) /\ t[k] = s[k + 0]
      BY <1>1, <1>2, <2>2, <2>3
    <3> HIDE DEF low, high
    <3>3. SubSeq(s, low + 0, high + 0) = SubSeq(t, low, high)
      BY <1>2, <3>1, <3>2, SamePiece
    <3>4. low + 0 = low /\ high + 0 = high
      BY <3>1
    <3> QED
      BY <1>5, <3>3, <3>4 DEF low, high
  <2> QED
    BY <2>4, <2>5, ComponentsAre
<1>8. CASE ~ (a < i - 1)
  <2>1. /\ a + 1 \in 0 .. n /\ b + 1 \in (a + 1) + 1 .. n + 1 /\ a # 0
        /\ a \in 1 .. n - 1 /\ a >= i - 1
        /\ \A k \in a + 1 .. b - 1 : k \in 1 .. n - 1 /\ k >= i - 1
        /\ b # n => b \in 1 .. n - 1 /\ b >= i - 1
    <3>1. a \in Int /\ b \in Int /\ i \in Int /\ n \in Int
      BY <1>1, <1>2, <1>6
    <3>2. 0 <= a /\ a <= n - 1 /\ a + 1 <= b /\ b <= n /\ 2 <= i /\ i <= n /\ i - 1 <= a
      BY <1>1, <1>2, <1>6, <1>8
    <3>3. a + 1 \in 0 .. n /\ b + 1 \in (a + 1) + 1 .. n + 1 /\ a # 0
          /\ a \in 1 .. n - 1 /\ a >= i - 1
      BY <3>1, <3>2
    <3>4. \A k \in a + 1 .. b - 1 : k \in 1 .. n - 1 /\ k >= i - 1
      BY <3>1, <3>2
    <3>5. b # n => b \in 1 .. n - 1 /\ b >= i - 1
      BY <3>1, <3>2
    <3> QED
      BY <3>3, <3>4, <3>5
  <2>2. t[a] = s[a + 1] /\ (b # n => t[b] = s[b + 1]) /\ \A k \in a + 1 .. b - 1 : t[k] = s[k + 1]
    BY <1>1, <2>1
  <2>3. \A k \in (a + 1) + 1 .. (b + 1) - 1 : s[k] \notin Separators
    <3> TAKE k \in (a + 1) + 1 .. (b + 1) - 1
    <3>1. k - 1 \in a + 1 .. b - 1 /\ (k - 1) + 1 = k
      BY <1>6
    <3>2. t[k - 1] = s[k]
      BY <2>2, <3>1
    <3> QED
      BY <1>6, <3>1, <3>2
  <2>4. b + 1 = n + 1 \/ s[b + 1] \in Separators
    BY <1>6, <2>2
  <2>5. IsBetween(s, a + 1, b + 1)
    BY <1>6, <2>1, <2>2, <2>3, <2>4 DEF IsBetween, n
  <2>6. SubSeq(s, (a + 1) + 1, (b + 1) - 1) = c
    <3> DEFINE low == a + 1
               high == b - 1
    <3>1. low \in Int /\ high \in Int
      BY <1>6
    <3>2. \A k \in low .. high : k \in 1 .. Len(t) /\ k + 1 \in 1 .. Len(s) /\ t[k] = s[k + 1]
      BY <1>1, <1>2, <2>1, <2>2
    <3>3. (a + 1) + 1 = low + 1 /\ (b + 1) - 1 = high + 1
      BY <1>6
    <3> HIDE DEF low, high
    <3>4. SubSeq(s, low + 1, high + 1) = SubSeq(t, low, high)
      BY <1>2, <3>1, <3>2, SamePiece
    <3> QED
      BY <1>5, <3>3, <3>4 DEF low, high
  <2> QED
    BY <2>5, <2>6, ComponentsAre
<1> QED
  BY <1>7, <1>8

\* So a safe name stays safe.
LEMMA OneSlashLessIsSafe ==
  ASSUME NEW s \in Names, NEW i, IsDoubled(s, i), PathIsSafe(s)
  PROVE  PathIsSafe(RemoveAt(s, i))
<1> DEFINE t == RemoveAt(s, i)
           n == Len(s)
<1>1. /\ t \in Names /\ Len(t) = n - 1 /\ i \in 2 .. n
      /\ \A k \in 1 .. n - 1 : k < i => t[k] = s[k]
      /\ \A k \in 1 .. n - 1 : k >= i - 1 => t[k] = s[k + 1]
      /\ s[i - 1] = Slash /\ s[i] = Slash
  BY OneSlashLess
<1>2. n \in Nat /\ DOMAIN s = 1 .. n /\ MaxPath \in Nat
  BY PathConstants DEF Names
<1>3. /\ s # << >> /\ n < MaxPath /\ ~ HasUnsafeText(s) /\ s[1] \notin Separators
      /\ \A k \in DOMAIN s : s[k] # Colon
      /\ Last(s) \notin Separators
      /\ \A component \in Range(Components(s)) : component = << >> \/ ComponentIsSafe(component)
  BY DEF PathIsSafe
<1>4. ~ HasUnsafeText(t)
  BY <1>3, OneSlashLessIsText
<1>5. Range(Components(t)) \subseteq Range(Components(s))
  BY OneSlashLessComponents
<1> HIDE DEF t
<1>6. s[n] \notin Separators /\ Slash \in Separators
  BY <1>3 DEF Last, Separators
<1>7. i # n /\ DOMAIN t = 1 .. n - 1
  BY <1>1, <1>6 DEF Names
<1>8. t # << >> /\ Len(t) < MaxPath
  BY <1>1, <1>2, <1>3
<1>9. t[1] = s[1]
  BY <1>1, <1>2
<1>10. Last(t) = s[n]
  <2>1. n - 1 \in 1 .. n - 1 /\ n - 1 >= i - 1 /\ (n - 1) + 1 = n
    BY <1>1, <1>2
  <2>2. t[n - 1] = s[n]
    BY <1>1, <2>1
  <2> QED
    BY <1>1, <2>2 DEF Last
<1>11. \A k \in DOMAIN t : t[k] # Colon
  <2> SUFFICES ASSUME NEW k \in 1 .. n - 1 PROVE t[k] # Colon
    BY <1>7
  <2>1. k \in DOMAIN s /\ k + 1 \in DOMAIN s /\ (t[k] = s[k] \/ t[k] = s[k + 1])
    BY <1>1, <1>2
  <2> QED
    BY <1>3, <2>1
<1>12. PathIsSafe(t)
  BY <1>3, <1>4, <1>5, <1>6, <1>8, <1>9, <1>10, <1>11 DEF PathIsSafe
<1> QED
  BY <1>12 DEF t

\* What becomes of a safe name without backslashes is safe and stands as it is.
LEMMA NormalizedIsSafe ==
  ASSUME NEW s \in Names, IsPlain(s), PathIsSafe(s)
  PROVE  PathIsSafe(Normalize(s, FALSE)) /\ IsTidy(Normalize(s, FALSE))
<1> DEFINE Good(name) == PathIsSafe(Normalize(name, FALSE)) /\ IsTidy(Normalize(name, FALSE))
           T == {n \in Nat : \A name \in Names :
                   Len(name) = n /\ IsPlain(name) /\ PathIsSafe(name) => Good(name)}
<1>1. ASSUME NEW name \in Names, IsPlain(name), PathIsSafe(name), IsTidy(name)
      PROVE  Good(name)
  BY <1>1, TidyStays
<1>2. 0 \in T
  <2>1. \A name \in Names : Len(name) = 0 => name = << >>
    BY DEF Names
  <2> QED
    BY <2>1 DEF PathIsSafe
<1>3. ASSUME NEW n \in Nat, n \in T
      PROVE  n + 1 \in T
  <2> HIDE DEF Good
  <2> SUFFICES ASSUME NEW name \in Names, Len(name) = n + 1, IsPlain(name), PathIsSafe(name)
               PROVE  Good(name)
    BY <1>3
  <2>1. CASE IsTidy(name)
    BY <1>1, <2>1
  <2>2. CASE ~ IsTidy(name)
    <3>1. PICK i \in 2 .. Len(name) : IsDoubled(name, i)
      BY <2>2 DEF IsTidy
    <3> DEFINE less == RemoveAt(name, i)
    <3>2. less \in Names /\ Len(less) = n
      <4>1. less \in Names /\ Len(less) = Len(name) - 1
        BY <3>1, OneSlashLess
      <4> HIDE DEF less
      <4> QED
        BY <4>1
    <3>3. IsPlain(less) /\ Normalize(less, FALSE) = Normalize(name, FALSE)
      BY <3>1, NormalizeSkips
    <3>4. PathIsSafe(less)
      BY <3>1, OneSlashLessIsSafe
    <3> HIDE DEF less
    <3>5. \A other \in Names : Len(other) = n /\ IsPlain(other) /\ PathIsSafe(other) => Good(other)
      BY <1>3
    <3>6. Good(less)
      BY <3>2, <3>3, <3>4, <3>5
    <3> QED
      BY <3>3, <3>6 DEF Good
  <2> QED
    BY <2>1, <2>2
<1>4. Nat \subseteq T
  <2> HIDE DEF T
  <2> QED
    BY <1>2, <1>3, Induction
<1>5. Len(s) \in T
  <2> HIDE DEF T
  <2>1. Len(s) \in Nat
    BY DEF Names
  <2> QED
    BY <1>4, <2>1
<1>6. Good(s)
  <2> HIDE DEF Good
  <2> QED
    BY <1>5
<1> QED
  BY <1>6
-----------------------------------------------------------------------------
(* Paths in the file system *)

\* One component further.
Step(files, d, name) ==
  IF d # 0 /\ files[d].kind = "dir" /\ Has(files, d, name) THEN files[d].ent[name] ELSE 0

\* Where the beginnings of a path lead.
Reaches(reached, files, path) ==
  /\ Lookup(files, path) = reached[Len(path)]
  /\ reached[0] = Root
  /\ \A k \in 1 .. Len(path) : reached[k] = Step(files, reached[k - 1], path[k])

LEMMA StepType ==
  ASSUME NEW files, IsFileSystem(files), NEW d \in DOMAIN files \cup {0}, NEW name
  PROVE  Step(files, d, name) \in DOMAIN files \cup {0}
<1>1. CASE d # 0 /\ files[d].kind = "dir" /\ Has(files, d, name)
  <2>1. files[d].ent \in [DOMAIN files[d].ent -> DOMAIN files]
    BY <1>1 DEF IsFileSystem, Link, File
  <2> QED
    BY <1>1, <2>1 DEF Step, Has
<1> QED
  BY <1>1 DEF Step

LEMMA LookupSteps ==
  ASSUME NEW files, IsFileSystem(files), NEW S, NEW path \in Seq(S)
  PROVE  \E reached : Reaches(reached, files, path)
<1> DEFINE n == Len(path)
           X == DOMAIN files \cup {0}
           H == [k \in 1 .. n |-> [d \in X |-> Step(files, d, path[k])]]
           body(f) == [k \in 0 .. n |-> IF k = 0 THEN Root ELSE Step(files, f[k - 1], path[k])]
           reached == CHOOSE f : f = body(f)
<1>0. n \in Nat
  OBVIOUS
<1>1. H \in [1 .. n -> [X -> X]] /\ Root \in X
  <2>1. \A k \in 1 .. n : \A d \in X : Step(files, d, path[k]) \in X
    BY StepType
  <2>2. Root \in X
    BY DEF IsFileSystem
  <2> HIDE DEF n, X
  <2> QED
    BY <2>1, <2>2
<1>2. PICK f : Iterates(f, n, X, Root, H)
  <2> HIDE DEF H, n, X
  <2> QED
    BY <1>0, <1>1, IterationExists
<1>3. f = body(f)
  <2>1. ASSUME NEW k \in 1 .. n
        PROVE  f[k] = Step(files, f[k - 1], path[k])
    <3>1. f[k - 1] \in X
      BY <1>0, <1>2 DEF Iterates
    <3>2. f[k] = H[k][f[k - 1]]
      BY <1>2 DEF Iterates
    <3> HIDE DEF X, n
    <3> QED
      BY <3>1, <3>2
  <2>2. \A k \in 0 .. n : k # 0 => k \in 1 .. n
    BY <1>0
  <2> HIDE DEF n
  <2>3. \A k \in 0 .. n : f[k] = body(f)[k]
    BY <1>2, <2>1, <2>2 DEF Iterates
  <2> QED
    BY <1>2, <2>3 DEF Iterates
<1>4. reached = body(reached)
  <2> HIDE DEF body
  <2> QED
    BY <1>3
<1>5. Lookup(files, path) = reached[n]
  BY DEF Lookup, Step
<1> HIDE DEF reached
<1>6. Reaches(reached, files, path)
  BY <1>0, <1>4, <1>5 DEF Reaches
<1> QED
  BY <1>6

LEMMA LookupType ==
  ASSUME NEW files, IsFileSystem(files), NEW S, NEW path \in Seq(S)
  PROVE  Lookup(files, path) \in DOMAIN files \cup {0}
<1>1. PICK reached : Reaches(reached, files, path)
  BY LookupSteps
<1> DEFINE T == {k \in Nat : reached[k] \in DOMAIN files \cup {0}}
<1>2. 0 \in T
  BY <1>1 DEF Reaches, IsFileSystem
<1>3. \A k \in 0 .. Len(path) - 1 : k \in T => k + 1 \in T
  <2> TAKE k \in 0 .. Len(path) - 1
  <2> HAVE k \in T
  <2>1. reached[k + 1] = Step(files, reached[k], path[k + 1])
    BY <1>1 DEF Reaches
  <2>2. reached[k] \in DOMAIN files \cup {0}
    OBVIOUS
  <2>3. reached[k + 1] \in DOMAIN files \cup {0}
    BY <2>1, <2>2, StepType
  <2> QED
    BY <2>3
<1>4. \A k \in 0 .. Len(path) : k \in T
  <2> HIDE DEF T
  <2> QED
    BY <1>2, <1>3, BoundedInduction
<1> QED
  BY <1>1, <1>4 DEF Reaches

LEMMA LookupRoot ==
  ASSUME NEW files, IsFileSystem(files)
  PROVE  Lookup(files, << >>) = Root
<1>1. PICK reached : Reaches(reached, files, << >>)
  <2>1. << >> \in Seq(Nat)
    OBVIOUS
  <2> QED
    BY <2>1, LookupSteps
<1> QED
  BY <1>1 DEF Reaches

\* A path leads where its beginning leads, and one step further.
LEMMA LookupAppend ==
  ASSUME NEW files, IsFileSystem(files), NEW S, NEW path \in Seq(S), NEW name \in S
  PROVE  Lookup(files, Append(path, name)) = Step(files, Lookup(files, path), name)
<1> DEFINE long == Append(path, name)
           n == Len(path)
<1>1. long \in Seq(S) /\ Len(long) = n + 1 /\ n \in Nat
      /\ long[n + 1] = name /\ \A k \in 1 .. n : long[k] = path[k]
  OBVIOUS
<1> HIDE DEF long
<1>2. PICK short : Reaches(short, files, path)
  BY LookupSteps
<1>3. PICK reached : Reaches(reached, files, long)
  BY <1>1, LookupSteps
<1> DEFINE T == {k \in Nat : reached[k] = short[k]}
<1>4. 0 \in T
  BY <1>2, <1>3 DEF Reaches
<1>5. \A k \in 0 .. n - 1 : k \in T => k + 1 \in T
  <2> TAKE k \in 0 .. n - 1
  <2> HAVE k \in T
  <2>1. k + 1 \in 1 .. n /\ k + 1 \in 1 .. Len(long) /\ k + 1 - 1 = k
    BY <1>1
  <2>2. short[k + 1] = Step(files, short[k], path[k + 1])
    BY <1>2, <2>1 DEF Reaches
  <2>3. reached[k + 1] = Step(files, reached[k], long[k + 1])
    BY <1>3, <2>1 DEF Reaches
  <2> QED
    BY <1>1, <2>1, <2>2, <2>3
<1>6. reached[n] = short[n]
  <2>1. \A k \in 0 .. n : k \in T
    <3> HIDE DEF T, n
    <3> QED
      BY <1>1, <1>4, <1>5, BoundedInduction
  <2> QED
    BY <1>1, <2>1
<1>7. reached[n + 1] = Step(files, reached[n], name)
  <2>1. n + 1 \in 1 .. Len(long) /\ n + 1 - 1 = n
    BY <1>1
  <2> QED
    BY <1>1, <1>3, <2>1 DEF Reaches
<1>8. Lookup(files, long) = reached[n + 1] /\ Lookup(files, path) = short[n]
  BY <1>1, <1>2, <1>3 DEF Reaches
<1> QED
  BY <1>6, <1>7, <1>8 DEF long
\* A sequence that is not empty is its front and its last element.
LEMMA FrontAndLast ==
  ASSUME NEW S, NEW s \in Seq(S), s # << >>
  PROVE  /\ Front(s) \in Seq(S) /\ Last(s) \in S
         /\ s = Append(Front(s), Last(s))
<1> DEFINE n == Len(s)
           front == SubSeq(s, 1, n - 1)
           whole == Append(front, s[n])
<1>1. n \in Nat \ {0} /\ s[n] \in S
  OBVIOUS
<1>2. front \in Seq(S) /\ Len(front) = n - 1 /\ \A i \in 1 .. n - 1 : front[i] = s[i]
  <2>1. \A i \in 1 .. n - 1 : s[i] \in S
    OBVIOUS
  <2>2. /\ front \in Seq(S)
        /\ Len(front) = IF 1 <= n - 1 THEN n - 1 - 1 + 1 ELSE 0
        /\ \A i \in 1 .. n - 1 - 1 + 1 : front[i] = s[1 + i - 1]
    BY <1>1, <2>1, SubSeqProperties
  <2> HIDE DEF front, n
  <2>3. Len(front) = n - 1
    BY <1>1, <2>2
  <2>4. \A i \in 1 .. n - 1 : i \in 1 .. n - 1 - 1 + 1 /\ 1 + i - 1 = i
    BY <1>1
  <2> QED
    BY <2>2, <2>3, <2>4
<1> HIDE DEF front
<1>3. whole \in Seq(S) /\ Len(whole) = n
      /\ whole[n] = s[n] /\ \A i \in 1 .. n - 1 : whole[i] = front[i]
  BY <1>1, <1>2
<1> HIDE DEF whole
<1>4. \A i \in 1 .. Len(s) : whole[i] = s[i]
  BY <1>1, <1>2, <1>3
<1>5. s = whole
  BY <1>3, <1>4, SeqEqual
<1> QED
  BY <1>1, <1>2, <1>5 DEF whole, front, Front, Last

\* Paths made real lead to something.
RealPaths(files) ==
  {r \in [path : Seq(Names), error : {"none", "ENOTDIR", "ENOENT"}] : Lookup(files, r.path) \in DOMAIN files}

LEMMA ResolveType ==
  ASSUME NEW files, IsFileSystem(files), NEW r \in RealPaths(files), NEW name \in Names
  PROVE  Resolve(files, r, name) \in RealPaths(files)
<1> DEFINE d == Lookup(files, r.path)
<1>1. /\ r \in [path : Seq(Names), error : {"none", "ENOTDIR", "ENOENT"}]
      /\ r.path \in Seq(Names) /\ d \in DOMAIN files /\ d # 0
  BY DEF RealPaths, IsFileSystem
<1>2. ASSUME NEW error \in {"none", "ENOTDIR", "ENOENT"}
      PROVE  [r EXCEPT !.error = error] \in RealPaths(files)
  <2>1. [r EXCEPT !.error = error] \in [path : Seq(Names), error : {"none", "ENOTDIR", "ENOENT"}]
    BY <1>1
  <2>2. [r EXCEPT !.error = error].path = r.path
    BY <1>1
  <2> QED
    BY <1>1, <2>1, <2>2 DEF RealPaths
<1>3. ASSUME NEW path \in Seq(Names), Lookup(files, path) \in DOMAIN files
      PROVE  [r EXCEPT !.path = path] \in RealPaths(files)
  <2>1. [r EXCEPT !.path = path] \in [path : Seq(Names), error : {"none", "ENOTDIR", "ENOENT"}]
    BY <1>1
  <2>2. [r EXCEPT !.path = path].path = path
    BY <1>1
  <2> QED
    BY <1>3, <2>1, <2>2 DEF RealPaths
<1> DEFINE up == IF r.path = << >> THEN r.path ELSE Front(r.path)
           child == files[d].ent[name]
           to == files[child].to
<1>4. up \in Seq(Names) /\ Lookup(files, up) \in DOMAIN files
  <2>1. CASE r.path = << >>
    BY <1>1, <2>1
  <2>2. CASE r.path # << >>
    <3>1. /\ Front(r.path) \in Seq(Names) /\ Last(r.path) \in Names
          /\ r.path = Append(Front(r.path), Last(r.path))
      BY <1>1, <2>2, FrontAndLast
    <3>2. d = Step(files, Lookup(files, Front(r.path)), Last(r.path))
      BY <3>1, LookupAppend
    <3>3. Lookup(files, Front(r.path)) # 0
      <4> HIDE DEF d
      <4> QED
        BY <1>1, <3>2 DEF Step
    <3>4. Lookup(files, Front(r.path)) \in DOMAIN files
      BY <3>1, <3>3, LookupType
    <3> QED
      BY <2>2, <3>1, <3>4
  <2> QED
    BY <2>1, <2>2
<1>5. CASE files[d].kind = "dir" /\ Has(files, d, name)
  <2>1. child \in DOMAIN files
    BY <1>1, <1>5 DEF IsFileSystem, Link, File, Has
  <2>2. files[child].kind = "link" => to \in Seq(Names)
    BY <2>1 DEF IsFileSystem, Directory, File
  <2>3. files[child].kind = "link" /\ Lookup(files, to) # 0 => [r EXCEPT !.path = to] \in RealPaths(files)
    <3>1. files[child].kind = "link" => Lookup(files, to) \in DOMAIN files \cup {0}
      BY <2>2, LookupType
    <3> HIDE DEF to
    <3> QED
      BY <1>3, <2>2, <3>1
  <2>4. [r EXCEPT !.path = Append(r.path, name)] \in RealPaths(files)
    <3>1. Append(r.path, name) \in Seq(Names)
      BY <1>1
    <3>2. Lookup(files, Append(r.path, name)) = Step(files, d, name)
      BY <1>1, LookupAppend
    <3>3. Step(files, d, name) = child
      <4> HIDE DEF d
      <4> QED
        BY <1>1, <1>5 DEF Step
    <3> HIDE DEF child
    <3> QED
      BY <1>3, <2>1, <3>1, <3>2, <3>3
  <2>5. [r EXCEPT !.path = up] \in RealPaths(files)
    <3> HIDE DEF up
    <3> QED
      BY <1>3, <1>4
  <2>6. Resolve(files, r, name) \in
          {r, [r EXCEPT !.error = "ENOTDIR"], [r EXCEPT !.path = up], [r EXCEPT !.error = "ENOENT"],
           [r EXCEPT !.path = Append(r.path, name)]}
          \cup (IF files[child].kind = "link" /\ Lookup(files, to) # 0
                THEN {[r EXCEPT !.path = to]} ELSE {})
    BY <1>5 DEF Resolve
  <2> HIDE DEF to, up, child
  <2> QED
    BY <1>2, <2>3, <2>4, <2>5, <2>6
<1>6. CASE ~ (files[d].kind = "dir" /\ Has(files, d, name))
  <2>1. Resolve(files, r, name) \in
          {r, [r EXCEPT !.error = "ENOTDIR"], [r EXCEPT !.path = up], [r EXCEPT !.error = "ENOENT"]}
    BY <1>6 DEF Resolve
  <2>2. [r EXCEPT !.path = up] \in RealPaths(files)
    <3> HIDE DEF up
    <3> QED
      BY <1>3, <1>4
  <2> HIDE DEF up
  <2> QED
    BY <1>2, <2>1, <2>2
<1> QED
  BY <1>5, <1>6

\* What the beginnings of a path are, made real.
Reals(real, files, path) ==
  /\ RealPath(files, path) = real[Len(path)]
  /\ real[0] = [path |-> << >>, error |-> "none"]
  /\ \A k \in 1 .. Len(path) : real[k] = Resolve(files, real[k - 1], path[k])
  /\ \A k \in 0 .. Len(path) : real[k] \in RealPaths(files)

LEMMA RealPathSteps ==
  ASSUME NEW files, IsFileSystem(files), NEW path \in Seq(Names)
  PROVE  \E real : Reals(real, files, path)
<1> DEFINE n == Len(path)
           X == RealPaths(files)
           start == [path |-> << >>, error |-> "none"]
           H == [k \in 1 .. n |-> [r \in X |-> Resolve(files, r, path[k])]]
           body(f) == [k \in 0 .. n |-> IF k = 0 THEN start ELSE Resolve(files, f[k - 1], path[k])]
           real == CHOOSE f : f = body(f)
<1>0. n \in Nat
  OBVIOUS
<1>1. H \in [1 .. n -> [X -> X]]
  <2>1. \A k \in 1 .. n : \A r \in X : Resolve(files, r, path[k]) \in X
    BY ResolveType
  <2> HIDE DEF n, X
  <2> QED
    BY <2>1
<1>2. start \in X
  <2>1. start \in [path : Seq(Names), error : {"none", "ENOTDIR", "ENOENT"}]
    OBVIOUS
  <2>2. Lookup(files, start.path) \in DOMAIN files
    BY LookupRoot DEF IsFileSystem
  <2> QED
    BY <2>1, <2>2 DEF RealPaths
<1> HIDE DEF start
<1>3. PICK f : Iterates(f, n, X, start, H)
  <2> HIDE DEF H, n, X
  <2> QED
    BY <1>0, <1>1, <1>2, IterationExists
<1>4. f = body(f)
  <2>1. ASSUME NEW k \in 1 .. n
        PROVE  f[k] = Resolve(files, f[k - 1], path[k])
    <3>1. f[k - 1] \in X
      BY <1>0, <1>3 DEF Iterates
    <3>2. f[k] = H[k][f[k - 1]]
      BY <1>3 DEF Iterates
    <3> HIDE DEF X, n
    <3> QED
      BY <3>1, <3>2
  <2>2. \A k \in 0 .. n : k # 0 => k \in 1 .. n
    BY <1>0
  <2> HIDE DEF n
  <2>3. \A k \in 0 .. n : f[k] = body(f)[k]
    BY <1>3, <2>1, <2>2 DEF Iterates
  <2> QED
    BY <1>3, <2>3 DEF Iterates
<1>5. real = body(real)
  <2> HIDE DEF body
  <2> QED
    BY <1>4
<1>6. RealPath(files, path) = real[n]
  BY DEF RealPath, start
<1> HIDE DEF real
<1>7. real[0] = start /\ \A k \in 1 .. n : real[k] = Resolve(files, real[k - 1], path[k])
  BY <1>0, <1>5
<1> DEFINE T == {k \in Nat : real[k] \in X}
<1>8. 0 \in T
  <2> HIDE DEF X
  <2> QED
    BY <1>2, <1>7
<1>9. \A k \in 0 .. n - 1 : k \in T => k + 1 \in T
  <2> TAKE k \in 0 .. n - 1
  <2> HAVE k \in T
  <2>1. real[k + 1] = Resolve(files, real[k], path[k + 1])
    BY <1>7
  <2>2. path[k + 1] \in Names /\ real[k] \in X
    OBVIOUS
  <2>3. real[k + 1] \in X
    BY <2>1, <2>2, ResolveType
  <2> HIDE DEF X
  <2> QED
    BY <2>3
<1>10. \A k \in 0 .. n : k \in T
  <2> HIDE DEF T, n
  <2> QED
    BY <1>0, <1>8, <1>9, BoundedInduction
<1>11. \A k \in 0 .. n : real[k] \in X
  BY <1>10
<1>12. Reals(real, files, path)
  BY <1>6, <1>7, <1>11 DEF Reals, start
<1> QED
  BY <1>12

LEMMA RealPathType ==
  ASSUME NEW files, IsFileSystem(files), NEW path \in Seq(Names)
  PROVE  /\ RealPath(files, path) \in RealPaths(files)
         /\ path = << >> => RealPath(files, path).error = "none"
<1>1. PICK real : Reals(real, files, path)
  BY RealPathSteps
<1>2. Len(path) \in 0 .. Len(path)
  OBVIOUS
<1> QED
  BY <1>1, <1>2 DEF Reals

\* There is a longest beginning of a path that exists.
LEMMA RootFound ==
  ASSUME NEW files, IsFileSystem(files), NEW path \in Seq(Names)
  PROVE  LET real(k) == RealPath(files, SubSeq(path, 1, k))
             found == CHOOSE k \in 0 .. Len(path) :
                        /\ real(k).error # "ENOENT"
                        /\ \A j \in k + 1 .. Len(path) : real(j).error = "ENOENT"
         IN found \in 0 .. Len(path)
<1> DEFINE n == Len(path)
           real(k) == RealPath(files, SubSeq(path, 1, k))
<1>0. n \in Nat
  OBVIOUS
<1> DEFINE errors0 == [k \in 0 .. n |-> real(k).error]
           S == {n - k : k \in {j \in 0 .. n : errors0[j] # "ENOENT"}}
<1>1. errors0[0] = "none"
  <2>1. SubSeq(path, 1, 0) = << >> /\ << >> \in Seq(Names)
    OBVIOUS
  <2>2. RealPath(files, << >>).error = "none"
    BY <2>1, RealPathType
  <2>3. errors0[0] = RealPath(files, SubSeq(path, 1, 0)).error
    BY <1>0
  <2> HIDE DEF errors0
  <2> QED
    BY <2>1, <2>2, <2>3
<1>2. \A k \in 0 .. n : errors0[k] = real(k).error
  OBVIOUS
<1> HIDE DEF errors0
<1>3. S \in SUBSET Nat /\ S # {}
  BY <1>1
<1>4. PICK low \in S : \A x \in S : low <= x
  <2> HIDE DEF S
  <2> QED
    BY <1>3, LeastExists
<1>5. PICK k \in 0 .. n : low = n - k /\ errors0[k] # "ENOENT"
  BY <1>4
<1>6. \A j \in k + 1 .. n : errors0[j] = "ENOENT"
  <2> TAKE j \in k + 1 .. n
  <2>1. SUFFICES ASSUME errors0[j] # "ENOENT" PROVE FALSE
    OBVIOUS
  <2>2. n - j \in S
    BY <2>1
  <2> HIDE DEF S
  <2> QED
    BY <1>4, <1>5, <2>2
<1>7. /\ real(k).error # "ENOENT"
      /\ \A j \in k + 1 .. n : real(j).error = "ENOENT"
  BY <1>2, <1>5, <1>6
<1> QED
  BY <1>5, <1>7

LEMMA CanonicalRootType ==
  ASSUME NEW files, IsFileSystem(files), NEW path \in Seq(Names)
  PROVE  CanonicalRoot(files, path).path \in Seq(Names)
<1> DEFINE n == Len(path)
           real(k) == RealPath(files, SubSeq(path, 1, k))
           found == CHOOSE k \in 0 .. Len(path) :
                      /\ real(k).error # "ENOENT"
                      /\ \A j \in k + 1 .. Len(path) : real(j).error = "ENOENT"
           suffix == SubSeq(path, found + 1, Len(path))
<1>0. n \in Nat
  OBVIOUS
<1>1. \A k \in 0 .. n : SubSeq(path, 1, k) \in Seq(Names)
  BY PieceType
<1>2. found \in 0 .. n
  BY RootFound
<1> HIDE DEF found
<1>3. real(found).path \in Seq(Names)
  <2>1. real(found) \in RealPaths(files)
    BY <1>1, <1>2, RealPathType
  <2> QED
    BY <2>1 DEF RealPaths
<1>4. suffix \in Seq(Names)
  BY <1>2, PieceType
<1> HIDE DEF suffix
<1>5. \A places : Kept(suffix, places) \in Seq(Names)
  BY <1>4, KeptType
<1> DEFINE whole == real(found).path \o Kept(suffix, {i \in DOMAIN suffix : suffix[i] # << Dot >>})
<1>6. CanonicalRoot(files, path).path = << >> \/ CanonicalRoot(files, path).path = whole
  <2>1. CASE real(found).error # "none" \/ Contains(suffix, << Dot, Dot >>)
    BY <2>1 DEF CanonicalRoot, found, suffix
  <2>2. CASE ~ (real(found).error # "none" \/ Contains(suffix, << Dot, Dot >>))
    BY <2>2 DEF CanonicalRoot, found, suffix
  <2> QED
    BY <2>1, <2>2
<1>7. whole \in Seq(Names)
  <2> HIDE DEF real
  <2> QED
    BY <1>3, <1>5
<1>8. << >> \in Seq(Names)
  OBVIOUS
<1> HIDE DEF whole
<1> QED
  BY <1>6, <1>7, <1>8, Zenon
-----------------------------------------------------------------------------
(* Steps of the file system *)

\* new is files with one more inode, and other entries in the directory d.
Grown(files, new, d, ent, node) ==
  /\ DOMAIN new = 1 .. Len(files) + 1
  /\ new \in Seq(Range(new))
  /\ new[Len(files) + 1] = node
  /\ \A i \in DOMAIN files : new[i] = IF i = d THEN Directory(ent) ELSE files[i]

Nodes == {EmptyDirectory} \cup {File(c) : c \in Int} \cup {Link(to) : to \in Seq(Names)}

LEMMA GrownIsFileSystem ==
  ASSUME NEW files, IsFileSystem(files), NEW d \in DOMAIN files, files[d].kind = "dir",
         NEW ent, ent \in [DOMAIN ent -> 1 .. Len(files) + 1],
         NEW node \in Nodes, NEW new, Grown(files, new, d, ent, node)
  PROVE  IsFileSystem(new)
<1> DEFINE n == Len(files)
<1>1. n \in Nat /\ DOMAIN files = 1 .. n /\ DOMAIN new = 1 .. n + 1 /\ Root \in 1 .. n
  BY DEF IsFileSystem, Grown
<1>2. new \in Seq(Range(new)) /\ Root \in DOMAIN new
  BY <1>1 DEF Grown
<1>3. new[Root].kind = "dir"
  BY <1>1 DEF Grown, IsFileSystem, Directory
<1>4. ASSUME NEW i \in DOMAIN new
      PROVE  \/ /\ new[i].kind = "dir" /\ new[i] = Directory(new[i].ent)
                /\ new[i].ent \in [DOMAIN new[i].ent -> DOMAIN new]
             \/ /\ new[i].kind = "link" /\ new[i] = Link(new[i].to)
                /\ new[i].to \in Seq(Names)
             \/ /\ new[i].kind = "file" /\ new[i] = File(new[i].content)
                /\ new[i].content \in Int
  <2>1. CASE i = n + 1
    <3>1. new[i] = node
      BY <2>1 DEF Grown
    <3>2. CASE node = EmptyDirectory
      BY <3>1, <3>2 DEF EmptyDirectory, Directory
    <3>3. CASE node \in {File(c) : c \in Int}
      BY <3>1, <3>3 DEF File
    <3>4. CASE node \in {Link(to) : to \in Seq(Names)}
      BY <3>1, <3>4 DEF Link
    <3> QED
      BY <3>2, <3>3, <3>4 DEF Nodes
  <2>2. CASE i = d
    <3>1. new[i] = Directory(ent)
      BY <1>1, <2>2 DEF Grown
    <3> QED
      BY <1>1, <3>1 DEF Directory
  <2>3. CASE i # n + 1 /\ i # d
    <3>1. i \in DOMAIN files /\ new[i] = files[i]
      BY <1>1, <2>3 DEF Grown
    <3>2. \/ /\ files[i].kind = "dir" /\ files[i] = Directory(files[i].ent)
             /\ files[i].ent \in [DOMAIN files[i].ent -> DOMAIN files]
          \/ /\ files[i].kind = "link" /\ files[i] = Link(files[i].to)
             /\ files[i].to \in Seq(Names)
          \/ /\ files[i].kind = "file" /\ files[i] = File(files[i].content)
             /\ files[i].content \in Int
      BY <3>1 DEF IsFileSystem
    <3>3. files[i].ent \in [DOMAIN files[i].ent -> DOMAIN files]
            => files[i].ent \in [DOMAIN files[i].ent -> DOMAIN new]
      BY <1>1
    <3> QED
      BY <3>1, <3>2, <3>3
  <2> QED
    BY <2>1, <2>2, <2>3
<1> QED
  BY <1>2, <1>3, <1>4 DEF IsFileSystem

\* A new entry.
LEMMA Entering ==
  ASSUME NEW files, IsFileSystem(files), NEW d \in DOMAIN files, files[d].kind = "dir",
         NEW name, ~ Has(files, d, name), NEW node \in Nodes
  PROVE  LET ent == WithName(files[d].ent, name, Len(files) + 1)
             new == Enter(files, d, name, node)
         IN /\ ent \in [DOMAIN files[d].ent \cup {name} -> 1 .. Len(files) + 1]
            /\ ent[name] = Len(files) + 1
            /\ \A x \in DOMAIN files[d].ent : x # name /\ ent[x] = files[d].ent[x]
            /\ Grown(files, new, d, ent, node)
            /\ IsFileSystem(new)
<1> DEFINE n == Len(files)
           old == files[d].ent
           ent == WithName(old, name, n + 1)
           changed == [files EXCEPT ![d].ent = ent]
           new == Enter(files, d, name, node)
<1>1. n \in Nat /\ DOMAIN files = 1 .. n
  BY DEF IsFileSystem
<1>2. files[d] = Directory(old) /\ old \in [DOMAIN old -> 1 .. n]
  BY <1>1 DEF IsFileSystem, Link, File
<1>3. /\ DOMAIN ent = DOMAIN old \cup {name}
      /\ ent[name] = n + 1
      /\ \A x \in DOMAIN old : x # name /\ ent[x] = old[x]
  BY DEF Has, WithName
<1>4. ent \in [DOMAIN old \cup {name} -> 1 .. n + 1]
  <2>0. ent = [x \in DOMAIN old \cup {name} |-> IF x = name THEN n + 1 ELSE old[x]]
    BY DEF WithName
  <2> HIDE DEF ent, old, n
  <2>1. \A x \in DOMAIN old : old[x] \in 1 .. n + 1
    BY <1>1, <1>2
  <2>2. \A x \in DOMAIN old \cup {name} : (IF x = name THEN n + 1 ELSE old[x]) \in 1 .. n + 1
    BY <1>1, <2>1
  <2> QED
    BY <2>0, <2>2
<1>5. new = Append(changed, node)
  BY DEF Enter
<1>6. Grown(files, new, d, ent, node)
  <2>1. changed = [i \in 1 .. n |-> IF i = d THEN Directory(ent) ELSE files[i]]
    <3>1. [files[d] EXCEPT !.ent = ent] = Directory(ent)
      <4> HIDE DEF ent, old
      <4> QED
        BY <1>2 DEF Directory
    <3>2. changed = [files EXCEPT ![d] = [files[d] EXCEPT !.ent = ent]]
      OBVIOUS
    <3>3. files = [i \in 1 .. n |-> files[i]]
      BY <1>1 DEF IsFileSystem
    <3> HIDE DEF ent, changed
    <3> QED
      BY <1>1, <3>1, <3>2, <3>3
  <2> HIDE DEF ent, changed, new, n
  <2>2. DOMAIN new = 1 .. n + 1 /\ new[n + 1] = node /\ \A i \in 1 .. n : new[i] = changed[i]
    BY <1>1, <1>5, <2>1
  <2>3. new \in Seq(Range(new))
    BY <1>1, <1>5, <2>1 DEF Range
  <2>4. \A i \in 1 .. n : new[i] = IF i = d THEN Directory(ent) ELSE files[i]
    BY <2>1, <2>2
  <2> QED
    BY <1>1, <2>2, <2>3, <2>4 DEF Grown, n
<1> HIDE DEF ent, new
<1>7. IsFileSystem(new)
  <2>1. ent \in [DOMAIN ent -> 1 .. Len(files) + 1]
    BY <1>3, <1>4
  <2> QED
    BY <1>6, <2>1, GrownIsFileSystem
<1> QED
  BY <1>3, <1>4, <1>6, <1>7 DEF ent, new
\* A directory's entry leads to a link from now on.
LEMMA Exchanging ==
  ASSUME NEW files, IsFileSystem(files), NEW d \in DOMAIN files, files[d].kind = "dir",
         NEW name \in DOMAIN files[d].ent
  PROVE  LET ent == [files[d].ent EXCEPT ![name] = Len(files) + 1]
             new == Append([files EXCEPT ![d].ent[name] = Len(files) + 1], Link(LinkTarget))
         IN /\ ent \in [DOMAIN files[d].ent -> 1 .. Len(files) + 1]
            /\ ent[name] = Len(files) + 1
            /\ \A x \in DOMAIN files[d].ent : x # name => ent[x] = files[d].ent[x]
            /\ Grown(files, new, d, ent, Link(LinkTarget))
            /\ IsFileSystem(new)
<1> DEFINE n == Len(files)
           old == files[d].ent
           ent == [old EXCEPT ![name] = n + 1]
           changed == [files EXCEPT ![d].ent[name] = n + 1]
           node == Link(LinkTarget)
           new == Append(changed, node)
<1>1. n \in Nat /\ DOMAIN files = 1 .. n
  BY DEF IsFileSystem
<1>2. files[d] = Directory(old) /\ old \in [DOMAIN old -> 1 .. n]
  BY <1>1 DEF IsFileSystem, Link, File
<1>3. /\ DOMAIN ent = DOMAIN old
      /\ ent[name] = n + 1
      /\ \A x \in DOMAIN old : x # name => ent[x] = old[x]
  BY <1>2
<1>4. ent \in [DOMAIN old -> 1 .. n + 1]
  <2>1. \A x \in DOMAIN old : old[x] \in 1 .. n + 1
    BY <1>1, <1>2
  <2>2. old \in [DOMAIN old -> 1 .. n + 1]
    BY <1>2, <2>1
  <2>3. n + 1 \in 1 .. n + 1
    BY <1>1
  <2> HIDE DEF n, old
  <2> QED
    BY <2>2, <2>3
<1>5. Grown(files, new, d, ent, node)
  <2>1. changed = [i \in 1 .. n |-> IF i = d THEN Directory(ent) ELSE files[i]]
    <3>1. [files[d] EXCEPT !.ent[name] = n + 1] = Directory(ent)
      <4> HIDE DEF n
      <4> QED
        BY <1>2 DEF Directory
    <3>2. changed = [files EXCEPT ![d] = [files[d] EXCEPT !.ent[name] = n + 1]]
      OBVIOUS
    <3>3. files = [i \in 1 .. n |-> files[i]]
      BY <1>1 DEF IsFileSystem
    <3> HIDE DEF ent, changed
    <3> QED
      BY <1>1, <3>1, <3>2, <3>3
  <2> HIDE DEF ent, changed, node, n
  <2>2. DOMAIN new = 1 .. n + 1 /\ new[n + 1] = node /\ \A i \in 1 .. n : new[i] = changed[i]
    BY <1>1, <2>1
  <2>3. new \in Seq(Range(new))
    BY <1>1, <2>1 DEF Range
  <2>4. \A i \in 1 .. n : new[i] = IF i = d THEN Directory(ent) ELSE files[i]
    BY <2>1, <2>2
  <2> QED
    BY <1>1, <2>2, <2>3, <2>4 DEF Grown, n
<1>6. node \in Nodes
  BY EntryPathsConstants DEF Nodes
<1> HIDE DEF ent, new, node
<1>7. IsFileSystem(new)
  <2>1. ent \in [DOMAIN ent -> 1 .. Len(files) + 1]
    BY <1>3, <1>4
  <2> QED
    BY <1>5, <1>6, <2>1, GrownIsFileSystem
<1> QED
  BY <1>3, <1>4, <1>5, <1>7 DEF ent, new, node
-----------------------------------------------------------------------------
(* The types *)

\* The files an argument stands for are finitely many names.
LEMMA PathsType ==
  ASSUME NEW command, IsCommand(command), NEW k \in DOMAIN command
  PROVE  PathsOf(command[k]) \subseteq Names /\ IsFiniteSet(PathsOf(command[k]))
<1> DEFINE argument == command[k]
           paths == PathsOf(argument)
<1>1. /\ argument.name \in Names
      /\ argument.kind \in {"file", "dir", "other"}
      /\ IsFiniteSet(argument.below)
      /\ \A b \in argument.below : b.rel \in Names
  BY DEF IsCommand
<1> HIDE DEF argument
<1>2. paths \subseteq Names
  <2>1. \A b \in argument.below : Child(argument.name, b.rel) \in Names
    <3> TAKE b \in argument.below
    <3>1. argument.name \in Seq(Byte) /\ b.rel \in Seq(Byte) /\ << Slash >> \in Seq(Byte)
      BY <1>1 DEF Names, Slash, Byte
    <3> QED
      BY <3>1 DEF Child, Names
  <2> QED
    BY <1>1, <2>1 DEF PathsOf
<1>3. IsFiniteSet(paths)
  <2>1. CASE argument.kind = "dir"
    <3>1. paths = {Child(argument.name, b.rel) : b \in argument.below}
      BY <2>1 DEF PathsOf
    <3> DEFINE child == [b \in argument.below |-> Child(argument.name, b.rel)]
    <3>2. child \in Surjection(argument.below, paths)
      <4> HIDE DEF paths
      <4>1. child \in [argument.below -> paths]
        BY <3>1
      <4>2. \A p \in paths : \E b \in argument.below : child[b] = p
        BY <3>1
      <4> QED
        BY <4>1, <4>2 DEF Surjection
    <3> HIDE DEF child
    <3> QED
      BY <1>1, <3>2, FS_Surjection
  <2>2. CASE argument.kind # "dir"
    <3>1. paths = {argument.name}
      BY <2>2 DEF PathsOf
    <3> QED
      BY <3>1, FS_Singleton
  <2> QED
    BY <2>1, <2>2
<1> QED
  BY <1>2, <1>3 DEF argument

\* The names collected from an argument.
LEMMA CollectedType ==
  ASSUME NEW command, IsCommand(command), NEW k \in DOMAIN command,
         NEW order \in SetToSeqs(PathsOf(command[k]))
  PROVE  [i \in DOMAIN order |-> Normalize(ArchiveName(order[i]), FALSE)] \in Seq(Names)
<1> DEFINE paths == PathsOf(command[k])
<1>2. paths \subseteq Names /\ IsFiniteSet(paths)
  BY PathsType
<1>4. Cardinality(paths) \in Nat
  BY <1>2, FS_CardinalityType
<1>5. order \in [1 .. Cardinality(paths) -> paths]
  BY DEF SetToSeqs
<1> HIDE DEF paths
<1>6. \A i \in 1 .. Cardinality(paths) : Normalize(ArchiveName(order[i]), FALSE) \in Names
  BY <1>2, <1>5, ArchiveNameType, NormalizeType
<1>7. DOMAIN order = 1 .. Cardinality(paths)
  BY <1>5
<1> DEFINE name(i) == Normalize(ArchiveName(order[i]), FALSE)
<1>8. [i \in 1 .. Cardinality(paths) |-> name(i)] \in Seq(Names)
  <2>1. \A i \in 1 .. Cardinality(paths) : name(i) \in Names
    BY <1>6
  <2> HIDE DEF name
  <2> QED
    BY <1>4, <2>1
<1> QED
  BY <1>7, <1>8

LEMMA InitialTypes ==
  Init => EntryPathsTypeOK
<1> SUFFICES ASSUME Init PROVE EntryPathsTypeOK
  OBVIOUS
<1>1. IsCommand(arguments) /\ IsFileSystem(fs)
  BY EntryPathsConstants DEF Init
<1>2. Len(arguments) \in Nat
  BY <1>1 DEF IsCommand
<1>3. fs[at].kind = "dir" /\ at \in DOMAIN fs
  BY <1>1 DEF IsFileSystem, Init
<1>4. list \in Seq(Names) /\ Len(list) = 0 /\ physical \in Seq(Names) /\ todo \in Seq(Names)
  <2>1. << >> \in Seq(Names) /\ Len(<< >>) = 0
    OBVIOUS
  <2> QED
    BY <2>1 DEF Init
<1>5. taken \in 0 .. Len(arguments) /\ entry \in 0 .. Len(list) + 1
  BY <1>2, <1>4 DEF Init
<1>6. pc = "collect" /\ failed \in BOOLEAN /\ errors = {} /\ exchanged = {}
  BY DEF Init
<1>7. arguments \in Inputs /\ dest \in Destinations /\ before \in FileSystems
  BY DEF Init
<1> QED
  BY <1>1, <1>3, <1>4, <1>5, <1>6, <1>7 DEF EntryPathsTypeOK

LEMMA CollectTypes ==
  EntryPathsTypeOK /\ Collect => EntryPathsTypeOK'
<1> SUFFICES ASSUME EntryPathsTypeOK, Collect PROVE EntryPathsTypeOK'
  OBVIOUS
<1>1. IsCommand(arguments) /\ Len(arguments) \in Nat
  BY EntryPathsConstants DEF EntryPathsTypeOK, IsCommand
<1>2. CASE taken = Len(arguments) \/ failed
  BY <1>2 DEF EntryPathsTypeOK, Collect
<1>3. CASE ~ (taken = Len(arguments) \/ failed)
  <2>1. taken + 1 \in DOMAIN arguments /\ taken' = taken + 1
    BY <1>1, <1>3 DEF EntryPathsTypeOK, Collect, IsCommand
  <2>2. PICK order \in SetToSeqs(PathsOf(arguments[taken + 1])) :
          list' = list \o [i \in DOMAIN order |-> Normalize(ArchiveName(order[i]), FALSE)]
    BY <1>3 DEF Collect
  <2>3. list' \in Seq(Names) /\ Len(list') >= Len(list)
    <3> DEFINE new == [i \in DOMAIN order |-> Normalize(ArchiveName(order[i]), FALSE)]
    <3>1. new \in Seq(Names)
      BY <1>1, <2>1, CollectedType
    <3> HIDE DEF new
    <3> QED
      BY <2>2, <3>1 DEF EntryPathsTypeOK, new
  <2>4. /\ entry \in 0 .. Len(list') + 1
        /\ errors \subseteq DOMAIN list'
    BY <2>3 DEF EntryPathsTypeOK
  <2>5. failed' \in BOOLEAN
    BY <1>3 DEF Collect
  <2>6. taken' \in 0 .. Len(arguments)
    BY <1>1, <2>1 DEF EntryPathsTypeOK, IsCommand
  <2>7. pc' = "collect" /\ UNCHANGED << arguments, dest, before, fs, entry, physical, at, todo, errors, exchanged >>
    BY <1>3 DEF Collect
  <2> QED
    BY <2>3, <2>4, <2>5, <2>6, <2>7 DEF EntryPathsTypeOK
<1> QED
  BY <1>2, <1>3

LEMMA StartEntryTypes ==
  EntryPathsTypeOK /\ StartEntry => EntryPathsTypeOK'
<1> SUFFICES ASSUME EntryPathsTypeOK, StartEntry PROVE EntryPathsTypeOK'
  OBVIOUS
<1> DEFINE canonical == CanonicalRoot(fs, dest)
<1>1. canonical.path \in Seq(Names)
  BY EntryPathsConstants, CanonicalRootType DEF EntryPathsTypeOK
<1>2. entry \in DOMAIN list /\ list[entry] \in Names /\ entry \in Nat
  BY DEF EntryPathsTypeOK, StartEntry
<1>3. Parts(list[entry]) \in Seq(Names)
  BY <1>2, PartsType
<1>4. Root \in DOMAIN fs /\ fs[Root].kind = "dir"
  BY DEF EntryPathsTypeOK, IsFileSystem
<1> HIDE DEF canonical
<1>5. CASE canonical.ok
  <2>1. /\ pc' = "walk" /\ physical' = canonical.path
        /\ at' = Root /\ todo' = canonical.path \o Parts(list[entry])
        /\ UNCHANGED << entry, errors, list, arguments, taken, failed, dest, before, fs, exchanged >>
    BY <1>5 DEF StartEntry, canonical
  <2>2. todo' \in Seq(Names)
    BY <1>1, <1>3, <2>1
  <2> QED
    BY <1>1, <1>2, <1>4, <2>1, <2>2 DEF EntryPathsTypeOK, StartEntry
<1>6. CASE ~ canonical.ok
  <2>1. /\ errors' = errors \cup {entry} /\ entry' = entry + 1
        /\ UNCHANGED << pc, physical, at, todo, list, arguments, taken, failed, dest, before, fs, exchanged >>
    BY <1>6 DEF StartEntry, canonical
  <2>2. pc = "entry" /\ entry <= Len(list)
    BY DEF StartEntry
  <2> QED
    BY <1>2, <2>1, <2>2 DEF EntryPathsTypeOK
<1> QED
  BY <1>5, <1>6

\* What GiveUp leaves behind.
LEMMA GiveUpTypes ==
  ASSUME EntryPathsTypeOK, pc = "walk", GiveUp, IsFileSystem(fs'),
         DOMAIN fs \subseteq DOMAIN fs',
         UNCHANGED << arguments, taken, list, failed, dest, before, physical, exchanged >>
  PROVE  EntryPathsTypeOK'
<1>1. entry \in DOMAIN list /\ entry \in Nat /\ entry > 0 /\ Len(list) \in Nat
  BY DEF EntryPathsTypeOK
<1>2. /\ errors' = errors \cup {entry} /\ entry' = entry + 1 /\ pc' = "entry"
      /\ todo' = << >> /\ at' = Root
  BY DEF GiveUp
<1>3. at' \in DOMAIN fs' /\ fs'[at'].kind = "dir"
  BY <1>2 DEF IsFileSystem
<1>4. entry' \in 0 .. Len(list') + 1 /\ entry' > 0 /\ errors' \subseteq DOMAIN list'
  BY <1>1, <1>2 DEF EntryPathsTypeOK
<1>5. todo' \in Seq(Names)
  BY <1>2
<1> QED
  BY <1>2, <1>3, <1>4, <1>5 DEF EntryPathsTypeOK

\* The directory after mkdirat is there, whether it was made or not.
LEMMA Making ==
  ASSUME EntryPathsTypeOK, NEW name
  PROVE  LET made == IF Has(fs, at, name) THEN fs ELSE Enter(fs, at, name, EmptyDirectory)
         IN /\ IsFileSystem(made)
            /\ DOMAIN fs \subseteq DOMAIN made
            /\ name \in DOMAIN made[at].ent
            /\ made[at].kind = "dir" /\ made[at].ent \in [DOMAIN made[at].ent -> DOMAIN made]
<1> DEFINE made == IF Has(fs, at, name) THEN fs ELSE Enter(fs, at, name, EmptyDirectory)
<1>1. IsFileSystem(fs) /\ at \in DOMAIN fs /\ fs[at].kind = "dir"
  BY DEF EntryPathsTypeOK
<1>2. CASE Has(fs, at, name)
  BY <1>1, <1>2 DEF Has, IsFileSystem, Link, File
<1>3. CASE ~ Has(fs, at, name)
  <2> DEFINE new == Enter(fs, at, name, EmptyDirectory)
             ent == WithName(fs[at].ent, name, Len(fs) + 1)
  <2>1. EmptyDirectory \in Nodes
    BY DEF Nodes
  <2>2. /\ Grown(fs, new, at, ent, EmptyDirectory) /\ IsFileSystem(new)
        /\ ent \in [DOMAIN fs[at].ent \cup {name} -> 1 .. Len(fs) + 1]
    BY <1>1, <1>3, <2>1, Entering
  <2> HIDE DEF new, ent
  <2>3. DOMAIN fs = 1 .. Len(fs) /\ Len(fs) \in Nat
    BY <1>1 DEF IsFileSystem
  <2>4. DOMAIN new = 1 .. Len(fs) + 1 /\ new[at] = Directory(ent)
    BY <1>1, <2>2 DEF Grown
  <2>5. new[at].kind = "dir" /\ new[at].ent = ent
    BY <2>4 DEF Directory
  <2> QED
    BY <1>3, <2>2, <2>3, <2>4, <2>5 DEF new
<1> QED
  BY <1>2, <1>3
LEMMA DescendTypes ==
  EntryPathsTypeOK /\ Descend => EntryPathsTypeOK'
<1> SUFFICES ASSUME EntryPathsTypeOK, Descend PROVE EntryPathsTypeOK'
  OBVIOUS
<1> DEFINE name == Head(todo)
           made == IF Has(fs, at, name) THEN fs ELSE Enter(fs, at, name, EmptyDirectory)
           next == OpenDirectory(made, at, name)
<1>1. /\ IsFileSystem(made) /\ DOMAIN fs \subseteq DOMAIN made
      /\ name \in DOMAIN made[at].ent
      /\ made[at].ent \in [DOMAIN made[at].ent -> DOMAIN made]
  BY Making
<1>2. /\ pc = "walk" /\ Len(todo) > 1 /\ fs' = made
      /\ UNCHANGED << arguments, taken, list, failed, dest, before, physical, exchanged >>
  BY DEF Descend
<1>3. CASE next # 0
  <2>1. at' = next /\ todo' = Tail(todo) /\ UNCHANGED << pc, entry, errors >>
    BY <1>3 DEF Descend
  <2> HIDE DEF made, name
  <2>2. next \in DOMAIN made /\ made[next].kind = "dir"
    BY <1>1, <1>3 DEF OpenDirectory
  <2>3. todo' \in Seq(Names)
    BY <1>2, <2>1 DEF EntryPathsTypeOK
  <2>4. exchanged' \subseteq DOMAIN fs'
    BY <1>1, <1>2 DEF EntryPathsTypeOK
  <2> HIDE DEF next
  <2> QED
    BY <1>1, <1>2, <2>1, <2>2, <2>3, <2>4 DEF EntryPathsTypeOK
<1>4. CASE next = 0
  <2>1. GiveUp
    BY <1>4 DEF Descend
  <2> HIDE DEF made, name, next
  <2> QED
    BY <1>1, <1>2, <2>1, GiveUpTypes
<1> QED
  BY <1>3, <1>4

LEMMA CreateTypes ==
  EntryPathsTypeOK /\ Create => EntryPathsTypeOK'
<1> SUFFICES ASSUME EntryPathsTypeOK, Create PROVE EntryPathsTypeOK'
  OBVIOUS
<1>1. IsFileSystem(fs) /\ at \in DOMAIN fs /\ fs[at].kind = "dir" /\ entry \in Int
      /\ entry \in DOMAIN list /\ Len(list) \in Nat /\ pc = "walk"
  BY DEF EntryPathsTypeOK, Create
<1>2. CASE NameIsFree(fs, at, Head(todo))
  <2> DEFINE new == Enter(fs, at, Head(todo), File(entry))
             ent == WithName(fs[at].ent, Head(todo), Len(fs) + 1)
  <2>1. File(entry) \in Nodes
    BY <1>1 DEF Nodes
  <2>2. IsFileSystem(new) /\ Grown(fs, new, at, ent, File(entry))
    BY <1>1, <1>2, <2>1, Entering DEF NameIsFree
  <2>3. DOMAIN fs \subseteq DOMAIN new
    BY <1>1, <2>2 DEF Grown, IsFileSystem
  <2>4. /\ fs' = new /\ entry' = entry + 1 /\ pc' = "entry" /\ todo' = << >> /\ at' = Root
        /\ UNCHANGED << errors, arguments, taken, list, failed, dest, before, physical, exchanged >>
    BY <1>2 DEF Create
  <2> HIDE DEF new
  <2>5. at' \in DOMAIN fs' /\ fs'[at'].kind = "dir"
    BY <2>2, <2>4 DEF IsFileSystem
  <2>6. todo' \in Seq(Names) /\ entry' \in 0 .. Len(list') + 1 /\ entry' > 0
    BY <1>1, <2>4 DEF EntryPathsTypeOK
  <2>7. exchanged' \subseteq DOMAIN fs'
    BY <2>3, <2>4 DEF EntryPathsTypeOK
  <2> QED
    BY <2>2, <2>4, <2>5, <2>6, <2>7 DEF EntryPathsTypeOK
<1>3. CASE ~ NameIsFree(fs, at, Head(todo))
  <2>1. GiveUp /\ fs' = fs
        /\ UNCHANGED << arguments, taken, list, failed, dest, before, physical, exchanged >>
    BY <1>3 DEF Create
  <2> QED
    BY <1>1, <2>1, GiveUpTypes
<1> QED
  BY <1>2, <1>3

\* What another process exchanges.
ExchangeAt(d, name) ==
  /\ d \in DOMAIN fs /\ fs[d].kind = "dir" /\ name \in DOMAIN fs[d].ent
  /\ fs[fs[d].ent[name]].kind = "dir"
  /\ fs' = Append([fs EXCEPT ![d].ent[name] = Len(fs) + 1], Link(LinkTarget))
  /\ exchanged' = exchanged \cup {fs[d].ent[name]}

LEMMA ExchangeTypes ==
  EntryPathsTypeOK /\ Exchange => EntryPathsTypeOK'
<1> SUFFICES ASSUME EntryPathsTypeOK, Exchange PROVE EntryPathsTypeOK'
  OBVIOUS
<1>1. IsFileSystem(fs)
  BY DEF EntryPathsTypeOK
<1>2. PICK d, name : ExchangeAt(d, name)
  BY DEF Exchange, ExchangeAt
<1>3. d \in DOMAIN fs /\ fs[d].kind = "dir" /\ name \in DOMAIN fs[d].ent
  BY <1>2 DEF ExchangeAt
<1> DEFINE ent == [fs[d].ent EXCEPT ![name] = Len(fs) + 1]
           new == Append([fs EXCEPT ![d].ent[name] = Len(fs) + 1], Link(LinkTarget))
<1>4. IsFileSystem(new) /\ Grown(fs, new, d, ent, Link(LinkTarget))
  BY <1>1, <1>3, Exchanging
<1>5. fs' = new
  BY <1>2 DEF ExchangeAt
<1>6. fs[d].ent[name] \in DOMAIN fs
  BY <1>1, <1>3 DEF IsFileSystem, Link, File
<1> HIDE DEF new, ent
<1>7. /\ DOMAIN fs = 1 .. Len(fs) /\ DOMAIN fs' = 1 .. Len(fs) + 1 /\ Len(fs) \in Nat
      /\ \A i \in DOMAIN fs : fs'[i] = IF i = d THEN Directory(ent) ELSE fs[i]
  BY <1>1, <1>4, <1>5 DEF IsFileSystem, Grown
<1>8. at \in DOMAIN fs' /\ fs'[at].kind = "dir"
  BY <1>7 DEF EntryPathsTypeOK, Directory
<1>9. exchanged' \subseteq DOMAIN fs'
  BY <1>2, <1>6, <1>7 DEF ExchangeAt, EntryPathsTypeOK
<1>10. UNCHANGED << pc, arguments, taken, list, failed, dest, before, entry, physical, at, todo, errors >>
  BY DEF Exchange
<1> QED
  BY <1>4, <1>5, <1>8, <1>9, <1>10 DEF EntryPathsTypeOK

LEMMA TypeInvariance ==
  EntryPathsTypeOK /\ [Next]_vars => EntryPathsTypeOK'
<1> SUFFICES ASSUME EntryPathsTypeOK, [Next]_vars PROVE EntryPathsTypeOK'
  OBVIOUS
<1>1. CASE Validate
  <2>1. entry' \in 0 .. Len(list') + 1 /\ (pc' \in {"entry", "walk"} => entry' > 0) /\ pc' # "walk"
    <3>1. Len(list) \in Nat
      BY DEF EntryPathsTypeOK
    <3> QED
      BY <1>1, <3>1 DEF Validate, EntryPathsTypeOK
  <2>2. pc' \in {"entry", "done"}
        /\ UNCHANGED << arguments, taken, list, failed, dest, before, fs, physical, at, todo, errors, exchanged >>
    BY <1>1 DEF Validate
  <2> QED
    BY <2>1, <2>2 DEF EntryPathsTypeOK
<1>2. CASE CallFails
  BY <1>2, GiveUpTypes DEF CallFails, EntryPathsTypeOK
<1>3. CASE Finish
  BY <1>3 DEF Finish, EntryPathsTypeOK
<1>4. CASE UNCHANGED vars
  BY <1>4 DEF vars, EntryPathsTypeOK
<1> QED
  BY <1>1, <1>2, <1>3, <1>4, CollectTypes, StartEntryTypes, DescendTypes, CreateTypes, ExchangeTypes
     DEF Next, Done
\* The names on a command line stay names, and the file system a tree of inodes.
THEOREM EntryPathsTypeCorrect == Spec => []EntryPathsTypeOK
<1>1. Init => EntryPathsTypeOK
  BY InitialTypes
<1>2. EntryPathsTypeOK /\ [Next]_vars => EntryPathsTypeOK'
  BY TypeInvariance
<1> QED
  BY <1>1, <1>2, PTL DEF Spec

-----------------------------------------------------------------------------
(* Names that are text *)

\* What is extracted has passed the check of every name.
SafeNames == pc \in {"entry", "walk"} => \A i \in DOMAIN list : PathIsSafe(list[i])

LEMMA SafeNamesInvariance ==
  SafeNames /\ [Next]_vars => SafeNames'
<1> SUFFICES ASSUME SafeNames, [Next]_vars PROVE SafeNames'
  OBVIOUS
<1>1. CASE Collect
  BY <1>1 DEF Collect, SafeNames
<1>2. CASE Validate
  BY <1>2 DEF Validate, SafeNames, ValidDestinations
<1>3. CASE StartEntry
  <2>1. pc = "entry" /\ list' = list
    BY <1>3 DEF StartEntry
  <2> QED
    BY <2>1 DEF SafeNames
<1>4. CASE Descend \/ Create \/ CallFails
  <2>1. pc = "walk" /\ list' = list
    BY <1>4 DEF Descend, Create, CallFails
  <2> QED
    BY <2>1 DEF SafeNames
<1>5. CASE Finish \/ Exchange \/ UNCHANGED vars
  BY <1>5 DEF Finish, Exchange, vars, SafeNames
<1> QED
  BY <1>1, <1>2, <1>3, <1>4, <1>5 DEF Next, Done

\* Whatever the command line and the file system hold, extraction goes on with names
\* that are text only, for every name there can be.
THEOREM ExtractedNamesAreText == Spec => []NamesAreText
<1>1. Init => SafeNames
  BY DEF Init, SafeNames
<1>2. SafeNames /\ [Next]_vars => SafeNames'
  BY SafeNamesInvariance
<1>3. EntryPathsTypeOK /\ SafeNames => NamesAreText
  <2> SUFFICES ASSUME EntryPathsTypeOK, SafeNames, pc \in {"entry", "walk"}, NEW name \in Range(list)
               PROVE  IsText(name)
    BY DEF NamesAreText
  <2>1. PICK i \in DOMAIN list : name = list[i]
    BY DEF Range
  <2>2. name \in Names
    BY <2>1 DEF EntryPathsTypeOK
  <2>3. ~ HasUnsafeText(name)
    BY <2>1 DEF SafeNames, PathIsSafe
  <2> QED
    BY <2>2, <2>3, SafeIsText
<1> QED
  BY <1>1, <1>2, <1>3, EntryPathsTypeCorrect, PTL DEF Spec

-----------------------------------------------------------------------------
(* The walk *)

LEMMA InitialWalk ==
  Init => WalkInvariant
<1> SUFFICES ASSUME Init PROVE WalkInvariant
  OBVIOUS
<1>1. IsFileSystem(fs)
  BY EntryPathsConstants DEF Init
<1> QED
  BY <1>1 DEF Init, WalkInvariant, InodesKeepTheirPlace, TodoEndsTheWay, WalkStaysBelowItsRoot

\* One more inode, and a directory with other entries, leaves the rest in place.
LEMMA GrownKeepsPlaces ==
  ASSUME EntryPathsTypeOK, InodesKeepTheirPlace, before' = before,
         NEW d \in DOMAIN fs, fs[d].kind = "dir", NEW ent, NEW node \in Nodes,
         Grown(fs, fs', d, ent, node),
         \A x \in DOMAIN ent : ent[x] = Len(fs) + 1 \/ (x \in DOMAIN fs[d].ent /\ ent[x] = fs[d].ent[x])
  PROVE  InodesKeepTheirPlace'
<1> DEFINE n == Len(fs)
<1>1. /\ DOMAIN fs = 1 .. n /\ DOMAIN fs' = 1 .. n + 1 /\ n \in Nat
      /\ fs'[n + 1] = node
      /\ \A i \in DOMAIN fs : fs'[i] = IF i = d THEN Directory(ent) ELSE fs[i]
  BY DEF EntryPathsTypeOK, IsFileSystem, Grown
<1>2. \A i \in DOMAIN fs : fs'[i].kind = fs[i].kind
  BY <1>1 DEF Directory
<1>3. DOMAIN before \subseteq 1 .. n
  BY <1>1 DEF InodesKeepTheirPlace
<1>4. ASSUME NEW i \in DOMAIN fs', fs'[i].kind = "dir", NEW name \in DOMAIN fs'[i].ent,
             NEW child, child = fs'[i].ent[name], child \in DOMAIN before, fs'[child].kind = "dir"
      PROVE  i \in DOMAIN before /\ name \in DOMAIN before[i].ent /\ before[i].ent[name] = child
  <2>1. child \in 1 .. n /\ child # n + 1
    BY <1>1, <1>3, <1>4
  <2>2. i # n + 1
    <3>1. SUFFICES ASSUME i = n + 1 PROVE FALSE
      OBVIOUS
    <3>2. node = EmptyDirectory
      BY <1>1, <1>4, <3>1 DEF Nodes, File, Link
    <3>3. fs'[i].ent = << >>
      BY <1>1, <3>1, <3>2 DEF EmptyDirectory, Directory
    <3> QED
      BY <1>4, <3>3
  <2>3. i \in DOMAIN fs /\ fs[i].kind = "dir"
    BY <1>1, <1>2, <1>4, <2>2
  <2>4. name \in DOMAIN fs[i].ent /\ child = fs[i].ent[name]
    <3>1. CASE i = d
      <4>1. fs'[i].ent = ent
        BY <1>1, <2>3, <3>1 DEF Directory
      <4> QED
        BY <1>4, <2>1, <3>1, <4>1
    <3>2. CASE i # d
      BY <1>1, <1>4, <2>3, <3>2
    <3> QED
      BY <3>1, <3>2
  <2>5. fs[child].kind = "dir"
    BY <1>1, <1>2, <1>4, <2>1
  <2> QED
    BY <1>4, <2>3, <2>4, <2>5 DEF InodesKeepTheirPlace
<1>5. (DOMAIN before \subseteq DOMAIN fs)' /\ (\A i \in DOMAIN before : fs[i].kind = before[i].kind)'
  BY <1>1, <1>2 DEF InodesKeepTheirPlace
<1> QED
  BY <1>4, <1>5 DEF InodesKeepTheirPlace

LEMMA PlacesInvariance ==
  EntryPathsTypeOK /\ InodesKeepTheirPlace /\ [Next]_vars => InodesKeepTheirPlace'
<1> SUFFICES ASSUME EntryPathsTypeOK, InodesKeepTheirPlace, [Next]_vars PROVE InodesKeepTheirPlace'
  OBVIOUS
<1>1. CASE Collect \/ Validate \/ StartEntry \/ CallFails \/ Finish \/ UNCHANGED vars
  <2>1. UNCHANGED << before, fs >>
    BY <1>1 DEF Collect, Validate, StartEntry, CallFails, Finish, vars
  <2> QED
    BY <2>1 DEF InodesKeepTheirPlace
<1>2. IsFileSystem(fs) /\ at \in DOMAIN fs /\ fs[at].kind = "dir" /\ entry \in Int
  BY DEF EntryPathsTypeOK
<1>3. ASSUME NEW name, ~ Has(fs, at, name), NEW node \in Nodes,
             fs' = Enter(fs, at, name, node), before' = before
      PROVE  InodesKeepTheirPlace'
  <2> DEFINE ent == WithName(fs[at].ent, name, Len(fs) + 1)
             new == Enter(fs, at, name, node)
  <2>0. /\ ent \in [DOMAIN fs[at].ent \cup {name} -> 1 .. Len(fs) + 1]
        /\ ent[name] = Len(fs) + 1
        /\ \A x \in DOMAIN fs[at].ent : x # name /\ ent[x] = fs[at].ent[x]
        /\ Grown(fs, new, at, ent, node)
        /\ IsFileSystem(new)
    <3>1. ~ Has(fs, at, name)
      BY <1>3
    <3> QED
      BY <1>2, <3>1, Entering
  <2>1. Grown(fs, fs', at, ent, node)
    BY <1>3, <2>0
  <2> HIDE DEF ent
  <2>2. \A x \in DOMAIN ent :
          ent[x] = Len(fs) + 1 \/ (x \in DOMAIN fs[at].ent /\ ent[x] = fs[at].ent[x])
    BY <2>0
  <2> QED
    BY <1>2, <1>3, <2>1, <2>2, GrownKeepsPlaces
<1>4. CASE Descend
  <2>1. CASE Has(fs, at, Head(todo))
    <3>1. UNCHANGED << before, fs >>
      BY <1>4, <2>1 DEF Descend
    <3> QED
      BY <3>1 DEF InodesKeepTheirPlace
  <2>2. CASE ~ Has(fs, at, Head(todo))
    <3>1. fs' = Enter(fs, at, Head(todo), EmptyDirectory) /\ before' = before
      BY <1>4, <2>2 DEF Descend
    <3>2. EmptyDirectory \in Nodes
      BY DEF Nodes
    <3> QED
      BY <1>3, <2>2, <3>1, <3>2
  <2> QED
    BY <2>1, <2>2
<1>5. CASE Create
  <2>1. CASE NameIsFree(fs, at, Head(todo))
    <3>1. fs' = Enter(fs, at, Head(todo), File(entry)) /\ before' = before
      BY <1>5, <2>1 DEF Create
    <3>2. File(entry) \in Nodes
      BY <1>2 DEF Nodes
    <3> QED
      BY <1>3, <2>1, <3>1, <3>2 DEF NameIsFree
  <2>2. CASE ~ NameIsFree(fs, at, Head(todo))
    <3>1. UNCHANGED << before, fs >>
      BY <1>5, <2>2 DEF Create
    <3> QED
      BY <3>1 DEF InodesKeepTheirPlace
  <2> QED
    BY <2>1, <2>2
<1>6. CASE Exchange
  <2>1. PICK d, name : ExchangeAt(d, name)
    BY <1>6 DEF Exchange, ExchangeAt
  <2>2. d \in DOMAIN fs /\ fs[d].kind = "dir" /\ name \in DOMAIN fs[d].ent
    BY <2>1 DEF ExchangeAt
  <2> DEFINE ent == [fs[d].ent EXCEPT ![name] = Len(fs) + 1]
             node == Link(LinkTarget)
  <2>3. /\ ent \in [DOMAIN fs[d].ent -> 1 .. Len(fs) + 1]
        /\ ent[name] = Len(fs) + 1
        /\ \A x \in DOMAIN fs[d].ent : x # name => ent[x] = fs[d].ent[x]
        /\ Grown(fs, fs', d, ent, node)
    BY <1>2, <2>1, <2>2, Exchanging DEF ExchangeAt
  <2>4. node \in Nodes /\ before' = before
    BY <1>6, EntryPathsConstants DEF Nodes, Exchange
  <2> HIDE DEF ent, node
  <2>5. \A x \in DOMAIN ent :
          ent[x] = Len(fs) + 1 \/ (x \in DOMAIN fs[d].ent /\ ent[x] = fs[d].ent[x])
    BY <2>3
  <2> QED
    BY <2>2, <2>3, <2>4, <2>5, GrownKeepsPlaces
<1> QED
  BY <1>1, <1>4, <1>5, <1>6 DEF Next, Done

\* A step down the way: the part walked is longer by the component that was next.
LEMMA WayShortens ==
  ASSUME NEW S, NEW way \in Seq(S), NEW rest \in Seq(S), Len(rest) > 0,
         Len(rest) <= Len(way), rest = SubSeq(way, Len(way) - Len(rest) + 1, Len(way))
  PROVE  /\ Head(rest) \in S /\ Tail(rest) \in Seq(S) /\ Len(Tail(rest)) = Len(rest) - 1
         /\ SubSeq(way, 1, Len(way) - Len(rest)) \in Seq(S)
         /\ SubSeq(way, 1, Len(way) - Len(Tail(rest)))
              = Append(SubSeq(way, 1, Len(way) - Len(rest)), Head(rest))
         /\ Tail(rest) = SubSeq(way, Len(way) - Len(Tail(rest)) + 1, Len(way))
<1> DEFINE n == Len(way)
           m == Len(way) - Len(rest)
           walked == SubSeq(way, 1, m)
           further == SubSeq(way, 1, m + 1)
           longer == Append(walked, Head(rest))
           last == SubSeq(way, m + 2, n)
<1>1. n \in Nat /\ m \in Nat /\ m < n /\ Len(rest) \in Nat /\ Len(rest) = n - m
  OBVIOUS
<1>2. \A i \in 1 .. n : way[i] \in S
  OBVIOUS
<1>3. \A i \in 1 .. Len(rest) : rest[i] = way[m + i]
  <2>1. \A i \in 1 .. n - (m + 1) + 1 : rest[i] = way[m + 1 + i - 1]
    <3>1. m + 1 \in Int /\ \A i \in m + 1 .. n : way[i] \in S
      BY <1>1, <1>2
    <3>2. rest = SubSeq(way, m + 1, n)
      OBVIOUS
    <3> HIDE DEF m, n
    <3> QED
      BY <1>1, <3>1, <3>2, SubSeqProperties
  <2> HIDE DEF m, n
  <2>2. \A i \in 1 .. Len(rest) : i \in 1 .. n - (m + 1) + 1 /\ m + 1 + i - 1 = m + i
    BY <1>1
  <2> QED
    BY <2>1, <2>2
<1>4. Head(rest) = way[m + 1] /\ Head(rest) \in S
  <2>1. Head(rest) = rest[1] /\ 1 \in 1 .. Len(rest)
    BY <1>1
  <2> QED
    BY <1>1, <1>2, <1>3, <2>1
<1>5. Tail(rest) \in Seq(S) /\ Len(Tail(rest)) = n - m - 1
      /\ \A i \in 1 .. n - m - 1 : Tail(rest)[i] = rest[i + 1]
  <2>1. rest # << >>
    BY <1>1
  <2> QED
    BY <1>1, <2>1
<1>6. walked \in Seq(S) /\ Len(walked) = m /\ \A i \in 1 .. m : walked[i] = way[i]
  <2>1. \A i \in 1 .. m : way[i] \in S
    BY <1>1, <1>2
  <2> HIDE DEF m, n
  <2>2. /\ walked \in Seq(S) /\ Len(walked) = (IF 1 <= m THEN m - 1 + 1 ELSE 0)
        /\ \A i \in 1 .. m - 1 + 1 : walked[i] = way[1 + i - 1]
    BY <1>1, <2>1, SubSeqProperties
  <2>3. \A i \in 1 .. m : i \in 1 .. m - 1 + 1 /\ 1 + i - 1 = i
    BY <1>1
  <2> HIDE DEF walked
  <2> QED
    BY <1>1, <2>2, <2>3
<1>7. further \in Seq(S) /\ Len(further) = m + 1 /\ \A i \in 1 .. m + 1 : further[i] = way[i]
  <2>1. \A i \in 1 .. m + 1 : way[i] \in S
    BY <1>1, <1>2
  <2> HIDE DEF m, n
  <2>2. /\ further \in Seq(S) /\ Len(further) = (IF 1 <= m + 1 THEN m + 1 - 1 + 1 ELSE 0)
        /\ \A i \in 1 .. m + 1 - 1 + 1 : further[i] = way[1 + i - 1]
    BY <1>1, <2>1, SubSeqProperties
  <2>3. \A i \in 1 .. m + 1 : i \in 1 .. m + 1 - 1 + 1 /\ 1 + i - 1 = i
    BY <1>1
  <2> HIDE DEF further
  <2> QED
    BY <1>1, <2>2, <2>3
<1>8. last \in Seq(S) /\ Len(last) = n - m - 1 /\ \A i \in 1 .. n - m - 1 : last[i] = way[m + i + 1]
  <2>1. \A i \in m + 2 .. n : way[i] \in S
    BY <1>1, <1>2
  <2> HIDE DEF m, n
  <2>2. /\ last \in Seq(S) /\ Len(last) = (IF m + 2 <= n THEN n - (m + 2) + 1 ELSE 0)
        /\ \A i \in 1 .. n - (m + 2) + 1 : last[i] = way[m + 2 + i - 1]
    BY <1>1, <2>1, SubSeqProperties
  <2>3. \A i \in 1 .. n - m - 1 : i \in 1 .. n - (m + 2) + 1 /\ m + 2 + i - 1 = m + i + 1
    BY <1>1
  <2> HIDE DEF last
  <2> QED
    BY <1>1, <2>2, <2>3
<1> HIDE DEF m, n, walked, further, last
<1>9. longer = further
  <2>1. longer \in Seq(S) /\ Len(longer) = m + 1
        /\ longer[m + 1] = Head(rest) /\ \A i \in 1 .. m : longer[i] = walked[i]
    BY <1>1, <1>4, <1>6
  <2> HIDE DEF longer
  <2>2. \A i \in 1 .. m + 1 : longer[i] = further[i]
    <3> TAKE i \in 1 .. m + 1
    <3>1. CASE i = m + 1
      BY <1>1, <1>4, <1>7, <2>1, <3>1
    <3>2. CASE i # m + 1
      <4>1. i \in 1 .. m
        BY <1>1, <3>2
      <4> QED
        BY <1>1, <1>6, <1>7, <2>1, <4>1
    <3> QED
      BY <3>1, <3>2
  <2> QED
    BY <1>1, <1>7, <2>1, <2>2, SeqEqual
<1>10. Tail(rest) = last
  <2>1. \A i \in 1 .. n - m - 1 : Tail(rest)[i] = last[i]
    <3> TAKE i \in 1 .. n - m - 1
    <3>1. i + 1 \in 1 .. Len(rest) /\ m + (i + 1) = m + i + 1
      BY <1>1
    <3> QED
      BY <1>3, <1>5, <1>8, <3>1
  <2> QED
    BY <1>5, <1>8, <2>1, SeqEqual
<1>11. n - Len(Tail(rest)) = m + 1 /\ n - Len(Tail(rest)) + 1 = m + 2 /\ Len(Tail(rest)) = Len(rest) - 1
  BY <1>1, <1>5
<1> QED
  BY <1>4, <1>5, <1>6, <1>9, <1>10, <1>11 DEF n, m, walked, further, last

\* The same of a way of names, as two facts to name it by.
IsRestOfWay(rest, way) ==
  /\ way \in Seq(Names) /\ rest \in Seq(Names)
  /\ Len(rest) > 0 /\ Len(rest) <= Len(way)
  /\ rest = SubSeq(way, Len(way) - Len(rest) + 1, Len(way))

GoesOneFurther(rest, way) ==
  /\ Head(rest) \in Names /\ Tail(rest) \in Seq(Names) /\ Len(Tail(rest)) = Len(rest) - 1
  /\ SubSeq(way, 1, Len(way) - Len(rest)) \in Seq(Names)
  /\ SubSeq(way, 1, Len(way) - Len(Tail(rest)))
       = Append(SubSeq(way, 1, Len(way) - Len(rest)), Head(rest))
  /\ Tail(rest) = SubSeq(way, Len(way) - Len(Tail(rest)) + 1, Len(way))

LEMMA OneFurther ==
  ASSUME NEW way, NEW rest, IsRestOfWay(rest, way)
  PROVE  GoesOneFurther(rest, way)
<1>1. /\ way \in Seq(Names) /\ rest \in Seq(Names)
      /\ Len(rest) > 0 /\ Len(rest) <= Len(way)
      /\ rest = SubSeq(way, Len(way) - Len(rest) + 1, Len(way))
  BY Zenon DEF IsRestOfWay
<1> QED
  BY <1>1, WayShortens, Zenon DEF GoesOneFurther

\* What was found from a directory that is on its way is on the way too.
LEMMA NextIsOnTheWay ==
  ASSUME EntryPathsTypeOK, WalkInvariant, InodesKeepTheirPlace', Descend, at' # 0,
         at' = OpenDirectory(fs', at, Head(todo)), todo' = Tail(todo),
         UNCHANGED << pc, entry >>
  PROVE  TodoEndsTheWay' /\ WalkStaysBelowItsRoot'
<1> DEFINE way == Way
           name == Head(todo)
           walked == SubSeq(way, 1, Len(way) - Len(todo))
           further == SubSeq(way, 1, Len(way) - Len(Tail(todo)))
<1>1. pc = "walk" /\ Len(todo) > 0 /\ todo \in Seq(Names)
      /\ physical \in Seq(Names) /\ list[entry] \in Names
  BY DEF Descend, EntryPathsTypeOK
<1>2. way \in Seq(Names) /\ way' = way
  <2>1. Parts(list[entry]) \in Seq(Names)
    BY <1>1, PartsType
  <2>2. way \in Seq(Names)
    BY <1>1, <2>1 DEF Way
  <2>3. way' = way
    BY DEF Way, Descend
  <2> QED
    BY <2>2, <2>3
<1>3. Len(todo) <= Len(way) /\ todo = SubSeq(way, Len(way) - Len(todo) + 1, Len(way))
  BY <1>1 DEF WalkInvariant, TodoEndsTheWay
<1>4. at \in DOMAIN before => at = Lookup(before, walked)
  BY <1>1 DEF WalkInvariant, WalkStaysBelowItsRoot
<1> HIDE DEF way
<1>5. /\ name \in Names /\ walked \in Seq(Names)
      /\ Len(Tail(todo)) = Len(todo) - 1
      /\ further = Append(walked, name)
      /\ Tail(todo) = SubSeq(way, Len(way) - Len(Tail(todo)) + 1, Len(way))
  <2>1. IsRestOfWay(todo, way)
    BY <1>1, <1>2, <1>3 DEF IsRestOfWay
  <2> QED
    BY <2>1, OneFurther, Zenon DEF GoesOneFurther
<1>6. (Way = way /\ Len(todo) <= Len(way))'
  BY <1>1, <1>2, <1>3, <1>5 DEF way
<1>7. TodoEndsTheWay'
  <2>1. Way' = way /\ Len(todo') <= Len(way)
    BY <1>2, <1>6
  <2> QED
    BY <1>5, <2>1 DEF TodoEndsTheWay
<1>8. ASSUME at' \in DOMAIN before'
      PROVE  at' = Lookup(before, further)
  <2>1. fs'[at].kind = "dir" /\ name \in DOMAIN fs'[at].ent /\ at \in DOMAIN fs'
    <3> DEFINE made == IF Has(fs, at, name) THEN fs ELSE Enter(fs, at, name, EmptyDirectory)
    <3>1. /\ DOMAIN fs \subseteq DOMAIN made
          /\ name \in DOMAIN made[at].ent /\ made[at].kind = "dir"
      BY Making
    <3>2. fs' = made
      BY DEF Descend
    <3>3. at \in DOMAIN fs
      BY DEF EntryPathsTypeOK
    <3> HIDE DEF made
    <3> QED
      BY <3>1, <3>2, <3>3
  <2>2. at' = fs'[at].ent[name] /\ fs'[at'].kind = "dir"
    BY DEF OpenDirectory
  <2>3. before' = before
    BY DEF Descend
  <2>4. at \in DOMAIN before /\ name \in DOMAIN before[at].ent /\ before[at].ent[name] = at'
    BY <1>8, <2>1, <2>2, <2>3 DEF InodesKeepTheirPlace
  <2>5. before[at].kind = "dir" /\ at # 0
    <3>1. fs[at].kind = "dir"
      BY DEF EntryPathsTypeOK
    <3>2. fs[at].kind = before[at].kind
      BY <2>4 DEF WalkInvariant, InodesKeepTheirPlace
    <3>3. at # 0
      BY DEF EntryPathsTypeOK, IsFileSystem
    <3> QED
      BY <3>1, <3>2, <3>3
  <2>6. Step(before, at, name) = at'
    BY <2>4, <2>5 DEF Step, Has
  <2>7. IsFileSystem(before)
    BY EntryPathsConstants DEF EntryPathsTypeOK
  <2>8. Lookup(before, Append(walked, name)) = Step(before, Lookup(before, walked), name)
    <3> HIDE DEF walked, name
    <3> QED
      BY <1>5, <2>7, LookupAppend
  <2> HIDE DEF walked, further
  <2> QED
    BY <1>4, <1>5, <2>4, <2>6, <2>8
<1>9. WalkStaysBelowItsRoot'
  <2>1. Way' = way /\ todo' = Tail(todo) /\ before' = before
    BY <1>2, <1>6 DEF Descend
  <2> QED
    BY <1>8, <2>1 DEF WalkStaysBelowItsRoot
<1> QED
  BY <1>7, <1>9

LEMMA WalkInvariance ==
  EntryPathsTypeOK /\ WalkInvariant /\ [Next]_vars => WalkInvariant'
<1> SUFFICES ASSUME EntryPathsTypeOK, WalkInvariant, [Next]_vars PROVE WalkInvariant'
  OBVIOUS
<1>1. InodesKeepTheirPlace'
  BY PlacesInvariance DEF WalkInvariant
<1>2. CASE pc' # "walk"
  BY <1>1, <1>2 DEF WalkInvariant, TodoEndsTheWay, WalkStaysBelowItsRoot
<1>3. CASE StartEntry /\ pc' = "walk"
  <2>1. /\ at' = Root /\ todo' = CanonicalRoot(fs, dest).path \o Parts(list[entry])
        /\ physical' = CanonicalRoot(fs, dest).path
        /\ UNCHANGED << entry, list, before >>
    BY <1>3 DEF StartEntry
  <2>2. Way' = todo'
    BY <2>1 DEF Way
  <2>3. todo' \in Seq(Names)
    BY <1>3, StartEntryTypes DEF EntryPathsTypeOK
  <2>4. todo' = SubSeq(todo', 1, Len(todo')) /\ SubSeq(todo', 1, 0) = << >> /\ Len(todo') \in Nat
    <3> DEFINE whole == todo'
    <3>1. whole \in Seq(Names) /\ Len(whole) \in Nat
      BY <2>3
    <3> HIDE DEF whole
    <3>2. whole = SubSeq(whole, 1, Len(whole)) /\ SubSeq(whole, 1, 0) = << >>
      BY <3>1
    <3> QED
      BY <3>1, <3>2 DEF whole
  <2>5. Lookup(before, << >>) = Root
    BY EntryPathsConstants, LookupRoot DEF EntryPathsTypeOK
  <2>6. TodoEndsTheWay'
    <3>1. Len(Way') - Len(todo') + 1 = 1 /\ Len(todo') <= Len(Way')
      BY <2>2, <2>4
    <3> QED
      BY <2>2, <2>4, <3>1 DEF TodoEndsTheWay
  <2>7. WalkStaysBelowItsRoot'
    <3>1. Len(Way') - Len(todo') = 0
      BY <2>2, <2>4
    <3> QED
      BY <2>1, <2>2, <2>4, <2>5, <3>1 DEF WalkStaysBelowItsRoot
  <2> QED
    BY <1>1, <2>6, <2>7 DEF WalkInvariant
<1>4. CASE Descend /\ pc' = "walk"
  <2> DEFINE made == IF Has(fs, at, Head(todo)) THEN fs ELSE Enter(fs, at, Head(todo), EmptyDirectory)
             next == OpenDirectory(made, at, Head(todo))
  <2>1. fs' = made /\ next # 0 /\ at' = next /\ todo' = Tail(todo) /\ UNCHANGED << pc, entry >>
    BY <1>4 DEF Descend, GiveUp
  <2> HIDE DEF made
  <2>2. at' = OpenDirectory(fs', at, Head(todo))
    BY <2>1
  <2> QED
    BY <1>1, <1>4, <2>1, <2>2, NextIsOnTheWay DEF WalkInvariant
<1>5. CASE Exchange
  <2>1. UNCHANGED << pc, list, entry, physical, at, todo, before >>
    BY <1>5 DEF Exchange
  <2> QED
    BY <1>1, <2>1 DEF WalkInvariant, TodoEndsTheWay, WalkStaysBelowItsRoot, Way
<1>6. CASE UNCHANGED vars
  BY <1>1, <1>6 DEF WalkInvariant, TodoEndsTheWay, WalkStaysBelowItsRoot, Way, vars
<1>7. CASE Collect \/ Validate \/ Create \/ CallFails \/ Finish
  <2>1. pc' # "walk"
    BY <1>7 DEF Collect, Validate, Create, CallFails, GiveUp, Finish, EntryPathsTypeOK
  <2> QED
    BY <1>2, <2>1
<1> QED
  BY <1>2, <1>3, <1>4, <1>5, <1>6, <1>7 DEF Next, Done

\* Whatever becomes a link while the walk is under way, every directory it pins is one
\* that the way led to before the extraction began, or one made since.
THEOREM TheWalkStaysBelowItsRoot == Spec => []WalkStaysBelowItsRoot
<1>1. Init => WalkInvariant
  BY InitialWalk
<1>2. EntryPathsTypeOK /\ WalkInvariant /\ [Next]_vars => WalkInvariant'
  BY WalkInvariance
<1>3. WalkInvariant => WalkStaysBelowItsRoot
  BY DEF WalkInvariant
<1> QED
  BY <1>1, <1>2, <1>3, EntryPathsTypeCorrect, PTL DEF Spec
-----------------------------------------------------------------------------
(* Extraction only adds *)

\* A new entry leaves every inode as it was, but for the entry.
LEMMA EnteringAdds ==
  ASSUME EntryPathsTypeOK, NEW name, ~ Has(fs, at, name), NEW node \in Nodes,
         fs' = Enter(fs, at, name, node), NEW d \in DOMAIN fs, fs'[d] # fs[d]
  PROVE  /\ fs[d].kind = "dir"
         /\ \A x \in DOMAIN fs[d].ent : x \in DOMAIN fs'[d].ent /\ fs'[d].ent[x] = fs[d].ent[x]
<1> DEFINE ent == WithName(fs[at].ent, name, Len(fs) + 1)
           new == Enter(fs, at, name, node)
<1>1. IsFileSystem(fs) /\ at \in DOMAIN fs /\ fs[at].kind = "dir"
  BY DEF EntryPathsTypeOK
<1>2. /\ ent \in [DOMAIN fs[at].ent \cup {name} -> 1 .. Len(fs) + 1]
      /\ ent[name] = Len(fs) + 1
      /\ \A x \in DOMAIN fs[at].ent : x # name /\ ent[x] = fs[at].ent[x]
      /\ Grown(fs, new, at, ent, node)
      /\ IsFileSystem(new)
  BY <1>1, Entering
<1> HIDE DEF ent, new
<1>3. fs'[d] = IF d = at THEN Directory(ent) ELSE fs[d]
  BY <1>2 DEF Grown, new
<1>4. d = at /\ fs'[d].ent = ent
  BY <1>3 DEF Directory
<1> QED
  BY <1>1, <1>2, <1>4

\* An entry that is there stays there, whatever is extracted: files are not
\* overwritten, directories not emptied, links not removed.
THEOREM ExtractionOnlyAdds == Spec => OnlyAdds
<1>1. EntryPathsTypeOK /\ Next => AddsToDirectories
  <2> SUFFICES ASSUME EntryPathsTypeOK, Next, NEW d \in DOMAIN fs, fs'[d] # fs[d], ~ Exchange
               PROVE  /\ fs[d].kind = "dir"
                      /\ \A name \in DOMAIN fs[d].ent :
                           name \in DOMAIN fs'[d].ent /\ fs'[d].ent[name] = fs[d].ent[name]
    BY DEF AddsToDirectories
  <2>1. Descend \/ Create
    <3>1. ASSUME Collect \/ Validate \/ StartEntry \/ CallFails \/ Finish \/ Done PROVE fs' = fs
      BY <3>1 DEF Collect, Validate, StartEntry, CallFails, Finish, Done, vars
    <3> QED
      BY <3>1 DEF Next
  <2>2. CASE Descend
    <3>1. /\ ~ Has(fs, at, Head(todo)) /\ fs' = Enter(fs, at, Head(todo), EmptyDirectory)
          /\ EmptyDirectory \in Nodes
      BY <2>2 DEF Descend, Nodes
    <3> QED
      BY <3>1, EnteringAdds
  <2>3. CASE Create
    <3>1. entry \in Int
      BY DEF EntryPathsTypeOK
    <3>2. /\ ~ Has(fs, at, Head(todo)) /\ fs' = Enter(fs, at, Head(todo), File(entry))
          /\ File(entry) \in Nodes
      BY <2>3, <3>1 DEF Create, NameIsFree, Nodes
    <3> QED
      BY <3>2, EnteringAdds
  <2> QED
    BY <2>1, <2>2, <2>3
<1>2. EntryPathsTypeOK /\ [Next]_vars => [AddsToDirectories]_vars
  BY <1>1
<1> QED
  BY <1>2, EntryPathsTypeCorrect, PTL DEF Spec, OnlyAdds
-----------------------------------------------------------------------------
(* The listing *)

\* An order of a finite set lists each of its elements, once.
LEMMA OrderLists ==
  ASSUME NEW S, IsFiniteSet(S), NEW order \in SetToSeqs(S)
  PROVE  /\ order \in [1 .. Cardinality(S) -> S]
         /\ \A p \in S : \E i \in 1 .. Cardinality(S) : order[i] = p
<1> DEFINE n == Cardinality(S)
<1>1. n \in Nat
  BY FS_CardinalityType
<1>2. order \in [1 .. n -> S] /\ \A i, j \in 1 .. n : i # j => order[i] # order[j]
  BY DEF SetToSeqs
<1>3. order \in Injection(1 .. n, S)
  BY <1>2 DEF Injection, IsInjective
<1>4. IsFiniteSet(1 .. n) /\ Cardinality(1 .. n) = n
  <2>1. Cardinality(1 .. n) = IF 1 > n THEN 0 ELSE n - 1 + 1
    <3> HIDE DEF n
    <3> QED
      BY <1>1, FS_Interval
  <2>2. IsFiniteSet(1 .. n)
    <3> HIDE DEF n
    <3> QED
      BY <1>1, FS_Interval
  <2> HIDE DEF n
  <2> QED
    BY <1>1, <2>1, <2>2
<1>5. order \in Surjection(1 .. n, S)
  BY <1>3, <1>4, FS_Injection
<1> QED
  BY <1>2, <1>5 DEF Surjection

\* One argument more adds its files, and no file is counted twice.
LEMMA OneMoreArgument ==
  ASSUME IsCommand(arguments), NEW k \in Nat, k + 1 \in DOMAIN arguments, IsFiniteSet(FilesOf(k))
  PROVE  LET new == {<< k + 1, p >> : p \in PathsOf(arguments[k + 1])}
         IN /\ FilesOf(k + 1) = FilesOf(k) \cup new
            /\ IsFiniteSet(FilesOf(k + 1))
            /\ Cardinality(FilesOf(k + 1)) = Cardinality(FilesOf(k)) + Cardinality(PathsOf(arguments[k + 1]))
<1> DEFINE paths == PathsOf(arguments[k + 1])
           new == {<< k + 1, p >> : p \in paths}
           pair == [p \in paths |-> << k + 1, p >>]
<1>1. IsFiniteSet(paths)
  BY PathsType
<1> HIDE DEF paths
<1>2. IsFiniteSet(new) /\ Cardinality(new) = Cardinality(paths)
  <2>1. pair \in Bijection(paths, new)
    <3>1. pair \in [paths -> new]
      OBVIOUS
    <3>2. \A p, q \in paths : pair[p] = pair[q] => p = q
      OBVIOUS
    <3>3. \A e \in new : \E p \in paths : pair[p] = e
      OBVIOUS
    <3> HIDE DEF pair, new
    <3> QED
      BY <3>1, <3>2, <3>3 DEF Bijection, Injection, Surjection, IsInjective
  <2> HIDE DEF pair, new
  <2> QED
    BY <1>1, <2>1, FS_Bijection DEF ExistsBijection
<1>3. FilesOf(k + 1) = FilesOf(k) \cup new
  <2>1. 1 .. k + 1 = 1 .. k \cup {k + 1}
    OBVIOUS
  <2> QED
    BY <2>1 DEF FilesOf, paths
<1>4. FilesOf(k) \cap new = {}
  <2>1. \A f \in FilesOf(k) : \E j \in 1 .. k : \E p \in PathsOf(arguments[j]) : f = << j, p >>
    BY DEF FilesOf
  <2>2. \A j \in 1 .. k : j # k + 1
    OBVIOUS
  <2> QED
    BY <2>1, <2>2
<1>5. Cardinality(FilesOf(k) \cap new) = 0
  BY <1>4, FS_EmptySet
<1>6. Cardinality(FilesOf(k)) \in Nat /\ Cardinality(new) \in Nat
  BY <1>2, FS_CardinalityType
<1> HIDE DEF new
<1>7. /\ IsFiniteSet(FilesOf(k) \cup new)
      /\ Cardinality(FilesOf(k) \cup new) = Cardinality(FilesOf(k)) + Cardinality(new)
  <2>1. Cardinality(FilesOf(k) \cup new)
          = Cardinality(FilesOf(k)) + Cardinality(new) - Cardinality(FilesOf(k) \cap new)
    BY <1>2, FS_Union
  <2>2. IsFiniteSet(FilesOf(k) \cup new)
    BY <1>2, FS_Union
  <2> QED
    BY <1>5, <1>6, <2>1, <2>2
<1> QED
  BY <1>2, <1>3, <1>7 DEF new, paths

\* The files listed so far are finitely many.
ListedFinitely == IsFiniteSet(FilesOf(taken))

LEMMA CollectCollects ==
  ASSUME EntryPathsTypeOK, CollectedSoFar, ListedFinitely, Collect, ~ (taken = Len(arguments) \/ failed)
  PROVE  CollectedSoFar' /\ ListedFinitely'
<1> DEFINE argument == arguments[taken + 1]
           paths == PathsOf(argument)
           named(p) == Normalize(ArchiveName(p), FALSE)
<1>1. IsCommand(arguments) /\ Len(arguments) \in Nat /\ DOMAIN arguments = 1 .. Len(arguments)
  BY EntryPathsConstants DEF EntryPathsTypeOK, IsCommand
<1>2. taken + 1 \in DOMAIN arguments /\ taken' = taken + 1 /\ arguments' = arguments /\ taken \in Nat
      /\ pc' = "collect"
  <2>1. taken \in 0 .. Len(arguments) /\ taken # Len(arguments)
    BY DEF EntryPathsTypeOK
  <2>2. taken' = taken + 1 /\ arguments' = arguments /\ pc' = pc /\ pc = "collect"
    BY DEF Collect
  <2>3. taken \in Nat /\ taken + 1 \in 1 .. Len(arguments)
    <3> DEFINE n == Len(arguments)
    <3>1. n \in Nat /\ taken \in 0 .. n /\ taken # n
      BY <1>1, <2>1
    <3> HIDE DEF n
    <3>2. taken \in Nat /\ taken + 1 \in 1 .. n
      BY <3>1
    <3> QED
      BY <3>2 DEF n
  <2> QED
    BY <1>1, <2>2, <2>3
<1>3. PICK order \in SetToSeqs(paths) :
        list' = list \o [i \in DOMAIN order |-> Normalize(ArchiveName(order[i]), FALSE)]
  BY DEF Collect
<1>4. IsFiniteSet(paths)
  BY <1>1, <1>2, PathsType
<1>5. ~ failed' => AllRegular(argument)
  BY DEF Collect
<1>6. /\ FilesOf(taken + 1) = FilesOf(taken) \cup {<< taken + 1, p >> : p \in paths}
      /\ IsFiniteSet(FilesOf(taken + 1))
      /\ Cardinality(FilesOf(taken + 1)) = Cardinality(FilesOf(taken)) + Cardinality(paths)
  BY <1>1, <1>2, OneMoreArgument DEF ListedFinitely
<1>7. FilesOf(taken)' = FilesOf(taken + 1)
  BY <1>2 DEF FilesOf
<1> HIDE DEF paths
<1>8. /\ order \in [1 .. Cardinality(paths) -> paths]
      /\ \A p \in paths : \E i \in 1 .. Cardinality(paths) : order[i] = p
  BY <1>3, <1>4, OrderLists
<1> DEFINE new == [i \in DOMAIN order |-> Normalize(ArchiveName(order[i]), FALSE)]
<1>9. /\ new \in Seq(Names) /\ Len(new) = Cardinality(paths)
      /\ DOMAIN new = 1 .. Cardinality(paths)
      /\ \A i \in 1 .. Cardinality(paths) : new[i] = named(order[i])
  <2>1. new \in Seq(Names)
    BY <1>1, <1>2, <1>3, CollectedType DEF paths
  <2>2. Cardinality(paths) \in Nat
    BY <1>4, FS_CardinalityType
  <2>3. DOMAIN new = 1 .. Cardinality(paths)
    BY <1>8
  <2> QED
    BY <2>1, <2>2, <2>3
<1> HIDE DEF new
<1>10. list' = list \o new /\ list \in Seq(Names)
  BY <1>3 DEF new, EntryPathsTypeOK
<1> HIDE DEF named
<1>11. Len(list') = Len(list) + Cardinality(paths)
  <2>1. Len(list \o new) = Len(list) + Len(new)
    BY <1>9, <1>10, ConcatProperties
  <2> QED
    BY <1>9, <1>10, <2>1
<1>12. Range(list') = Range(list) \cup {named(p) : p \in paths}
  <2>1. Range(list') = Range(list) \cup Range(new)
    <3>1. DOMAIN list' = 1 .. Len(list) + Len(new) /\ DOMAIN list = 1 .. Len(list)
          /\ DOMAIN new = 1 .. Len(new) /\ Len(list) \in Nat /\ Len(new) \in Nat
      BY <1>9, <1>10
    <3>2. /\ \A i \in DOMAIN list : i \in DOMAIN list' /\ list'[i] = list[i]
          /\ \A i \in DOMAIN new : Len(list) + i \in DOMAIN list' /\ list'[Len(list) + i] = new[i]
      BY <1>9, <1>10, <3>1
    <3>3. \A i \in DOMAIN list' : i \in DOMAIN list \/ i - Len(list) \in DOMAIN new
      BY <3>1
    <3>4. \A i \in DOMAIN list' : i = Len(list) + (i - Len(list))
      BY <3>1
    <3> QED
      BY <3>2, <3>3, <3>4 DEF Range
  <2>2. Range(new) = {named(p) : p \in paths}
    BY <1>8, <1>9 DEF Range
  <2> QED
    BY <2>1, <2>2
<1>13. ASSUME ~ failed', ~ failed PROVE CollectedSoFar'
  <2>1. Len(list') = Cardinality(FilesOf(taken + 1))
    BY <1>6, <1>11, <1>13 DEF CollectedSoFar
  <2>2. Range(list') = {named(f[2]) : f \in FilesOf(taken + 1)}
    <3>1. Range(list) = {named(f[2]) : f \in FilesOf(taken)}
      BY <1>13 DEF CollectedSoFar, named
    <3>2. {named(p) : p \in paths} = {named(f[2]) : f \in {<< taken + 1, p >> : p \in paths}}
      <4> DEFINE pairs == {<< taken + 1, p >> : p \in paths}
      <4>1. \A f \in pairs : f[2] \in paths
        OBVIOUS
      <4>2. \A p \in paths : \E f \in pairs : f[2] = p
        <5> TAKE p \in paths
        <5>1. << taken + 1, p >> \in pairs /\ << taken + 1, p >>[2] = p
          OBVIOUS
        <5> QED
          BY <5>1
      <4> HIDE DEF pairs
      <4>5. \A x : x \in {named(p) : p \in paths} <=> x \in {named(f[2]) : f \in pairs}
        BY <4>1, <4>2 DEF named
      <4> QED
        BY <4>5 DEF pairs
    <3> QED
      BY <1>6, <1>12, <3>1, <3>2
  <2>3. \A j \in 1 .. taken + 1 :
          /\ arguments[j].kind # "other"
          /\ \A b \in arguments[j].below : b.kind = "file"
    <3> TAKE j \in 1 .. taken + 1
    <3>1. CASE j = taken + 1
      <4>1. argument.kind \in {"file", "dir", "other"} /\ (argument.kind # "dir" => argument.below = {})
        BY <1>1, <1>2 DEF IsCommand
      <4> HIDE DEF argument
      <4>2. argument.kind # "other" /\ \A b \in argument.below : b.kind = "file"
        BY <1>5, <1>13, <4>1 DEF AllRegular
      <4> QED
        BY <3>1, <4>2 DEF argument
    <3>2. CASE j # taken + 1
      <4>1. j \in 1 .. taken
        BY <1>2, <3>2
      <4> QED
        BY <1>13, <4>1 DEF CollectedSoFar
    <3> QED
      BY <3>1, <3>2
  <2> QED
    BY <1>2, <1>7, <2>1, <2>2, <2>3 DEF CollectedSoFar, named
<1>14. ListedFinitely'
  BY <1>6, <1>7 DEF ListedFinitely
<1> QED
  BY <1>13, <1>14 DEF CollectedSoFar
LEMMA InitiallyCollected ==
  Init => CollectedSoFar /\ ListedFinitely
<1> SUFFICES ASSUME Init PROVE CollectedSoFar /\ ListedFinitely
  OBVIOUS
<1>1. pc = "collect" /\ taken = 0 /\ list = << >>
  BY DEF Init
<1>2. FilesOf(taken) = {}
  BY <1>1 DEF FilesOf
<1>3. IsFiniteSet({}) /\ Cardinality({}) = 0
  BY FS_EmptySet
<1>4. Len(list) = 0 /\ Range(list) = {}
  BY <1>1 DEF Range
<1>5. {Normalize(ArchiveName(f[2]), FALSE) : f \in FilesOf(taken)} = {}
  BY <1>2
<1>6. \A k \in 1 .. taken : FALSE
  BY <1>1
<1> QED
  BY <1>1, <1>2, <1>3, <1>4, <1>5, <1>6 DEF CollectedSoFar, ListedFinitely

LEMMA CollectedInvariance ==
  EntryPathsTypeOK /\ CollectedSoFar /\ ListedFinitely /\ [Next]_vars => CollectedSoFar' /\ ListedFinitely'
<1> SUFFICES ASSUME EntryPathsTypeOK, CollectedSoFar, ListedFinitely, [Next]_vars
             PROVE  CollectedSoFar' /\ ListedFinitely'
  OBVIOUS
<1>1. ASSUME UNCHANGED << arguments, taken, list, failed >>, pc' # "collect" => pc # "collect" \/ failed \/ taken = Len(arguments)
      PROVE  CollectedSoFar' /\ ListedFinitely'
  <2>1. FilesOf(taken)' = FilesOf(taken)
    BY <1>1 DEF FilesOf
  <2> QED
    BY <1>1, <2>1 DEF CollectedSoFar, ListedFinitely
<1>2. CASE Collect /\ ~ (taken = Len(arguments) \/ failed)
  BY <1>2, CollectCollects
<1>3. CASE Collect /\ (taken = Len(arguments) \/ failed)
  BY <1>1, <1>3 DEF Collect
<1>4. CASE Validate \/ StartEntry \/ Descend \/ Create \/ CallFails \/ Finish \/ Exchange
  <2>1. pc # "collect" /\ UNCHANGED << arguments, taken, list, failed >>
    BY <1>4 DEF Validate, StartEntry, Descend, Create, CallFails, Finish, Exchange
  <2> QED
    BY <1>1, <2>1
<1>5. CASE UNCHANGED vars
  BY <1>1, <1>5 DEF vars
<1> QED
  BY <1>2, <1>3, <1>4, <1>5 DEF Next, Done

\* A list that has not failed holds every file below every argument once, under its
\* name: a file that could not be read is never left out in silence.
THEOREM EveryFileIsListed == Spec => []NothingIsLeftOut
<1>1. Init => CollectedSoFar /\ ListedFinitely
  BY InitiallyCollected
<1>2. EntryPathsTypeOK /\ CollectedSoFar /\ ListedFinitely /\ [Next]_vars => CollectedSoFar' /\ ListedFinitely'
  BY CollectedInvariance
<1>3. EntryPathsTypeOK /\ CollectedSoFar => NothingIsLeftOut
  <2> SUFFICES ASSUME EntryPathsTypeOK, CollectedSoFar, pc # "collect", ~ failed
               PROVE  /\ taken = Len(arguments)
                      /\ Len(list) = Cardinality(FilesOf(Len(arguments)))
                      /\ Range(list) = {Normalize(ArchiveName(f[2]), FALSE) : f \in FilesOf(Len(arguments))}
                      /\ \A k \in DOMAIN arguments :
                           /\ arguments[k].kind # "other"
                           /\ \A b \in arguments[k].below : b.kind = "file"
    BY DEF NothingIsLeftOut
  <2>1. DOMAIN arguments = 1 .. Len(arguments)
    BY EntryPathsConstants DEF EntryPathsTypeOK, IsCommand
  <2>2. taken = Len(arguments)
    BY DEF CollectedSoFar
  <2> QED
    BY <2>1, <2>2 DEF CollectedSoFar
<1> QED
  BY <1>1, <1>2, <1>3, EntryPathsTypeCorrect, PTL DEF Spec
-----------------------------------------------------------------------------
(* The names listed *)

\* What the list rests on: a list that has not failed names no file that may not be
\* archived.
AllMayBeArchived == ~ failed => \A f \in FilesOf(taken) : MayBeArchived(f[2])

LEMMA ArchivedInvariance ==
  EntryPathsTypeOK /\ AllMayBeArchived /\ [Next]_vars => AllMayBeArchived'
<1> SUFFICES ASSUME EntryPathsTypeOK, AllMayBeArchived, [Next]_vars
             PROVE  AllMayBeArchived'
  OBVIOUS
<1>1. ASSUME UNCHANGED << arguments, taken, failed >> PROVE AllMayBeArchived'
  <2>1. FilesOf(taken)' = FilesOf(taken)
    BY <1>1 DEF FilesOf
  <2> QED
    BY <1>1, <2>1 DEF AllMayBeArchived
<1>2. CASE Collect /\ ~ (taken = Len(arguments) \/ failed)
  <2> DEFINE paths == PathsOf(arguments[taken + 1])
  <2>1. /\ taken' = taken + 1 /\ arguments' = arguments /\ ~ failed
        /\ ~ failed' => \A p \in paths : MayBeArchived(p)
    BY <1>2 DEF Collect
  <2>2. taken \in Nat
    BY DEF EntryPathsTypeOK
  <2> SUFFICES ASSUME ~ failed', NEW f \in FilesOf(taken)' PROVE MayBeArchived(f[2])
    BY DEF AllMayBeArchived
  <2>3. PICK k \in 1 .. taken + 1 : f \in {<< k, p >> : p \in PathsOf(arguments[k])}
    BY <2>1 DEF FilesOf
  <2>4. CASE k = taken + 1
    <3>1. f[2] \in paths
      BY <2>3, <2>4
    <3> QED
      BY <2>1, <3>1
  <2>5. CASE k # taken + 1
    <3>1. k \in 1 .. taken
      BY <2>2, <2>5
    <3>2. f \in FilesOf(taken)
      BY <2>3, <3>1 DEF FilesOf
    <3> QED
      BY <2>1, <3>2 DEF AllMayBeArchived
  <2> QED
    BY <2>4, <2>5
<1>3. CASE Collect /\ (taken = Len(arguments) \/ failed)
  BY <1>1, <1>3 DEF Collect
<1>4. CASE Validate \/ StartEntry \/ Descend \/ Create \/ CallFails \/ Finish \/ Exchange
  <2>1. UNCHANGED << arguments, taken, failed >>
    BY <1>4 DEF Validate, StartEntry, Descend, Create, CallFails, Finish, Exchange
  <2> QED
    BY <1>1, <2>1
<1>5. CASE UNCHANGED vars
  BY <1>1, <1>5 DEF vars
<1> QED
  BY <1>2, <1>3, <1>4, <1>5 DEF Next, Done

LEMMA InitiallyArchived ==
  Init => AllMayBeArchived
<1> SUFFICES ASSUME Init PROVE AllMayBeArchived
  OBVIOUS
<1>1. FilesOf(taken) = {}
  BY DEF Init, FilesOf
<1> QED
  BY <1>1 DEF AllMayBeArchived

\* A file that may be archived gets a name that every reader accepts.
LEMMA ArchivedNameIsSafe ==
  ASSUME NEW path \in Names, MayBeArchived(path)
  PROVE  /\ PathIsSafe(Normalize(ArchiveName(path), FALSE))
         /\ IsTidy(Normalize(ArchiveName(path), FALSE))
<1>1. ArchiveName(path) \in Names
  BY ArchiveNameType
<1>2. IsPlain(ArchiveName(path)) /\ PathIsSafe(ArchiveName(path))
  BY DEF MayBeArchived, IsPlain
<1> QED
  BY <1>1, <1>2, NormalizedIsSafe

\* The names of a list that has not failed.
NamesAreTidy == ~ failed => \A name \in Range(list) : PathIsSafe(name) /\ IsTidy(name)

LEMMA ListedAreTidy ==
  EntryPathsTypeOK /\ CollectedSoFar /\ AllMayBeArchived => NamesAreTidy
<1> SUFFICES ASSUME EntryPathsTypeOK, CollectedSoFar, AllMayBeArchived, ~ failed,
                    NEW name \in Range(list)
             PROVE  PathIsSafe(name) /\ IsTidy(name)
  BY DEF NamesAreTidy
<1>1. PICK f \in FilesOf(taken) : name = Normalize(ArchiveName(f[2]), FALSE)
  BY DEF CollectedSoFar
<1>2. MayBeArchived(f[2])
  BY DEF AllMayBeArchived
<1>3. f[2] \in Names
  <2>1. PICK k \in 1 .. taken : f \in {<< k, p >> : p \in PathsOf(arguments[k])}
    BY DEF FilesOf
  <2>2. IsCommand(arguments) /\ k \in DOMAIN arguments
    <3>1. IsCommand(arguments)
      BY EntryPathsConstants DEF EntryPathsTypeOK
    <3>2. Len(arguments) \in Nat /\ DOMAIN arguments = 1 .. Len(arguments)
      BY <3>1 DEF IsCommand
    <3>3. taken \in 0 .. Len(arguments)
      BY DEF EntryPathsTypeOK
    <3> DEFINE n == Len(arguments)
    <3> HIDE DEF n
    <3>4. k \in 1 .. n
      <4>1. n \in Nat /\ taken \in 0 .. n
        BY <3>2, <3>3 DEF n
      <4> QED
        BY <4>1
    <3> QED
      BY <3>1, <3>2, <3>4 DEF n
  <2>3. PathsOf(arguments[k]) \subseteq Names
    BY <2>2, PathsType
  <2> QED
    BY <2>1, <2>3
<1> QED
  BY <1>1, <1>2, <1>3, ArchivedNameIsSafe

\* A list that has not failed is complete, and every reader of the archive accepts
\* its names, which stand as they are.
THEOREM CollectionIsWhole == Spec => []CollectionIsComplete
<1>1. Init => CollectedSoFar /\ ListedFinitely /\ AllMayBeArchived
  BY InitiallyCollected, InitiallyArchived
<1>2. EntryPathsTypeOK /\ CollectedSoFar /\ ListedFinitely /\ AllMayBeArchived /\ [Next]_vars
      => CollectedSoFar' /\ ListedFinitely' /\ AllMayBeArchived'
  BY CollectedInvariance, ArchivedInvariance
<1>3. EntryPathsTypeOK /\ CollectedSoFar /\ AllMayBeArchived => ListedNamesAreAccepted
  <2> SUFFICES ASSUME EntryPathsTypeOK, CollectedSoFar, AllMayBeArchived, ~ failed,
                      NEW name \in Range(list)
               PROVE  PathIsSafe(name) /\ Normalize(name, FALSE) = name
    BY DEF ListedNamesAreAccepted
  <2>1. PathIsSafe(name) /\ IsTidy(name)
    BY ListedAreTidy DEF NamesAreTidy
  <2>2. name \in Names
    <3>1. list \in Seq(Names)
      BY DEF EntryPathsTypeOK
    <3> QED
      BY <3>1 DEF Range
  <2> QED
    BY <2>1, <2>2, TidyStays
<1>4. NothingIsLeftOut /\ ListedNamesAreAccepted => CollectionIsComplete
  BY DEF CollectionIsComplete
<1> QED
  BY <1>1, <1>2, <1>3, <1>4, EntryPathsTypeCorrect, EveryFileIsListed, PTL DEF Spec
-----------------------------------------------------------------------------
(* The components walked *)

\* An accepted name that is tidy has components, and each of them is walked.
LEMMA PartsAre ==
  ASSUME NEW s \in Names, PathIsSafe(s), IsTidy(s)
  PROVE  Parts(s) = Components(s) /\ Components(s) \in Seq(Names) /\ Components(s) # << >>
<1> DEFINE all == Components(s)
           n == Len(s)
<1>1. s \in Seq(Byte) /\ n \in Nat /\ DOMAIN s = 1 .. n /\ n > 0
  BY DEF Names, PathIsSafe
<1>2. all \in Seq(Names)
  BY ComponentsType
<1>3. s[1] \notin Separators /\ s[n] \notin Separators
  BY <1>1 DEF PathIsSafe, Last
<1>4. ASSUME NEW a, NEW b, IsBetween(s, a, b) PROVE b # a + 1
  <2>1. SUFFICES ASSUME b = a + 1 PROVE FALSE
    OBVIOUS
  <2>2. a \in 0 .. n /\ (a = 0 \/ s[a] \in Separators) /\ (a + 1 = n + 1 \/ s[a + 1] \in Separators)
    BY <1>4, <2>1 DEF IsBetween
  <2> HIDE DEF n
  <2>3. CASE a = 0
    <3>1. a + 1 # n + 1 /\ a + 1 = 1
      BY <1>1, <2>2, <2>3
    <3> QED
      BY <1>3, <2>2, <3>1
  <2>5. CASE a = n
    <3>1. a # 0
      BY <1>1, <2>5
    <3> QED
      BY <1>3, <2>2, <2>5, <3>1
  <2>4. CASE a # 0 /\ a # n
    <3>0. a \in 1 .. n /\ a + 1 \in 2 .. n /\ a + 1 # n + 1
      BY <1>1, <2>2, <2>4
    <3>1. s[a] \in Separators /\ s[a + 1] \in Separators /\ a \in 1 .. n /\ a + 1 \in 2 .. n
      BY <2>2, <2>4, <3>0
    <3>2. s[a] = Slash /\ s[a + 1] = Slash
      BY <1>1, <3>1 DEF IsTidy, IsPlain, Separators, n
    <3>3. a + 1 - 1 = a
      BY <3>1
    <3>4. IsDoubled(s, a + 1)
      BY <3>1, <3>2, <3>3 DEF IsDoubled, n
    <3> QED
      BY <3>1, <3>4 DEF IsTidy, n
  <2> QED
    BY <2>3, <2>4, <2>5
<1>5. ASSUME NEW c \in Range(all) PROVE c \notin {<< >>, << Dot >>}
  <2>1. PICK a, b : IsBetween(s, a, b) /\ c = SubSeq(s, a + 1, b - 1)
    BY ComponentsAre
  <2>2. a \in 0 .. n /\ b \in a + 1 .. n + 1 /\ b # a + 1
    BY <1>4, <2>1 DEF IsBetween
  <2>3. \A k \in a + 1 .. b - 1 : s[k] \in Byte
    BY <1>1, <2>2
  <2>4. Len(c) = (IF a + 1 <= b - 1 THEN b - 1 - (a + 1) + 1 ELSE 0)
    <3> HIDE DEF n, all
    <3>1. a + 1 \in Int /\ b - 1 \in Int
      BY <1>1, <2>2
    <3> QED
      BY <2>1, <2>3, <3>1, SubSeqProperties
  <2>5. Len(c) > 0
    BY <1>1, <2>2, <2>4
  <2>6. c # << >>
    BY <2>5
  <2>7. c = << >> \/ ComponentIsSafe(c)
    BY DEF PathIsSafe
  <2> QED
    BY <2>6, <2>7 DEF ComponentIsSafe
<1>6. all # << >>
  <2> DEFINE S == {k \in 1 .. n + 1 : k = n + 1 \/ s[k] \in Separators}
  <2>1. S \in SUBSET Nat /\ n + 1 \in S
    BY <1>1
  <2>2. PICK b \in S : \A x \in S : b <= x
    <3> HIDE DEF S
    <3> QED
      BY <2>1, LeastExists
  <2>3. b \in 1 .. n + 1 /\ (b = n + 1 \/ s[b] \in Separators)
    OBVIOUS
  <2>4. \A k \in 0 + 1 .. b - 1 : s[k] \notin Separators
    <3> SUFFICES ASSUME NEW k \in 0 + 1 .. b - 1, s[k] \in Separators PROVE FALSE
      OBVIOUS
    <3>1. k \in 1 .. n + 1 /\ k < b /\ k \in S
      BY <1>1, <2>3
    <3> HIDE DEF S
    <3> QED
      BY <2>2, <2>3, <3>1
  <2>5. IsBetween(s, 0, b)
    BY <1>1, <2>3, <2>4 DEF IsBetween
  <2>6. SubSeq(s, 0 + 1, b - 1) \in Range(all)
    BY <2>5, ComponentsAre
  <2> QED
    BY <2>6 DEF Range
<1>7. DOMAIN all \subseteq {i \in DOMAIN all : all[i] \notin {<< >>, << Dot >>}}
  BY <1>5 DEF Range
<1>8. Kept(all, {i \in DOMAIN all : all[i] \notin {<< >>, << Dot >>}}) = all
  <2> HIDE DEF all
  <2> QED
    BY <1>2, <1>7, KeptAll
<1> QED
  BY <1>2, <1>6, <1>8 DEF Parts

\* A beginning that is one longer.
LEMMA OneLonger ==
  ASSUME NEW S, NEW s \in Seq(S), NEW k \in 0 .. Len(s) - 1
  PROVE  /\ s[k + 1] \in S
         /\ SubSeq(s, 1, k) \in Seq(S)
         /\ SubSeq(s, 1, k + 1) = Append(SubSeq(s, 1, k), s[k + 1])
<1> DEFINE n == Len(s)
           short == SubSeq(s, 1, k)
           long == SubSeq(s, 1, k + 1)
           longer == Append(short, s[k + 1])
<1>1. n \in Nat /\ k \in Nat /\ k + 1 \in 1 .. n /\ \A i \in 1 .. n : s[i] \in S
  OBVIOUS
<1>2. short \in Seq(S) /\ Len(short) = k /\ \A i \in 1 .. k : short[i] = s[i]
  <2>1. \A i \in 1 .. k : s[i] \in S
    BY <1>1
  <2>2. /\ short \in Seq(S) /\ Len(short) = (IF 1 <= k THEN k - 1 + 1 ELSE 0)
        /\ \A i \in 1 .. k - 1 + 1 : short[i] = s[1 + i - 1]
    BY <1>1, <2>1, SubSeqProperties
  <2>3. \A i \in 1 .. k : i \in 1 .. k - 1 + 1 /\ 1 + i - 1 = i
    BY <1>1
  <2> HIDE DEF short, n
  <2> QED
    BY <1>1, <2>2, <2>3
<1>3. long \in Seq(S) /\ Len(long) = k + 1 /\ \A i \in 1 .. k + 1 : long[i] = s[i]
  <2>1. \A i \in 1 .. k + 1 : s[i] \in S
    BY <1>1
  <2>2. /\ long \in Seq(S) /\ Len(long) = (IF 1 <= k + 1 THEN k + 1 - 1 + 1 ELSE 0)
        /\ \A i \in 1 .. k + 1 - 1 + 1 : long[i] = s[1 + i - 1]
    BY <1>1, <2>1, SubSeqProperties
  <2>3. \A i \in 1 .. k + 1 : i \in 1 .. k + 1 - 1 + 1 /\ 1 + i - 1 = i
    BY <1>1
  <2> HIDE DEF long, n
  <2> QED
    BY <1>1, <2>2, <2>3
<1>4. longer \in Seq(S) /\ Len(longer) = k + 1
      /\ longer[k + 1] = s[k + 1] /\ \A i \in 1 .. k : longer[i] = short[i]
  <2> HIDE DEF short
  <2> QED
    BY <1>1, <1>2
<1> HIDE DEF n, short, long, longer
<1>5. \A i \in 1 .. k + 1 : longer[i] = long[i]
  BY <1>1, <1>2, <1>3, <1>4
<1>6. long = longer
  BY <1>3, <1>4, <1>5, SeqEqual
<1> QED
  BY <1>1, <1>2, <1>6 DEF short, long, longer, n
-----------------------------------------------------------------------------
(* File systems that grow *)

\* new has what old has: directories have entries more, nothing else differs.
Extends(old, new) ==
  /\ IsFileSystem(old) /\ IsFileSystem(new)
  /\ DOMAIN old \subseteq DOMAIN new
  /\ \A d \in DOMAIN old :
       IF old[d].kind = "dir"
       THEN /\ new[d].kind = "dir"
            /\ \A x \in DOMAIN old[d].ent : x \in DOMAIN new[d].ent /\ new[d].ent[x] = old[d].ent[x]
       ELSE new[d] = old[d]

\* The path leads to something.
Leads(files, path) == Lookup(files, path) # 0

LEMMA EnteringExtends ==
  ASSUME NEW files, IsFileSystem(files), NEW d \in DOMAIN files, files[d].kind = "dir",
         NEW name, ~ Has(files, d, name), NEW node \in Nodes
  PROVE  LET new == Enter(files, d, name, node)
         IN /\ Extends(files, new)
            /\ Step(new, d, name) \in DOMAIN new
            /\ new[Step(new, d, name)] = node
<1> DEFINE ent == WithName(files[d].ent, name, Len(files) + 1)
           new == Enter(files, d, name, node)
           n == Len(files)
<1>1. /\ ent \in [DOMAIN files[d].ent \cup {name} -> 1 .. n + 1]
      /\ ent[name] = n + 1
      /\ \A x \in DOMAIN files[d].ent : x # name /\ ent[x] = files[d].ent[x]
      /\ Grown(files, new, d, ent, node)
      /\ IsFileSystem(new)
  BY Entering
<1> HIDE DEF ent, new
<1>2. n \in Nat /\ DOMAIN files = 1 .. n /\ d # 0
  BY DEF IsFileSystem
<1>3. /\ DOMAIN new = 1 .. n + 1 /\ new[n + 1] = node
      /\ \A i \in DOMAIN files : new[i] = IF i = d THEN Directory(ent) ELSE files[i]
  BY <1>1 DEF Grown
<1>4. new[d].kind = "dir" /\ new[d].ent = ent
  BY <1>3 DEF Directory
<1>5. Extends(files, new)
  <2>1. DOMAIN files \subseteq DOMAIN new
    BY <1>2, <1>3
  <2>2. ASSUME NEW c \in DOMAIN files
        PROVE  IF files[c].kind = "dir"
               THEN /\ new[c].kind = "dir"
                    /\ \A x \in DOMAIN files[c].ent :
                         x \in DOMAIN new[c].ent /\ new[c].ent[x] = files[c].ent[x]
               ELSE new[c] = files[c]
    BY <1>1, <1>3, <1>4
  <2> QED
    BY <1>1, <2>1, <2>2 DEF Extends
<1>6. Step(new, d, name) = n + 1
  BY <1>1, <1>2, <1>4 DEF Step, Has
<1> QED
  BY <1>2, <1>3, <1>5, <1>6 DEF new

LEMMA ExtendsItself ==
  ASSUME NEW files, IsFileSystem(files)
  PROVE  Extends(files, files)
BY DEF Extends

LEMMA StepGrows ==
  ASSUME NEW old, NEW new, Extends(old, new), NEW d \in DOMAIN old \cup {0}, NEW name,
         Step(old, d, name) # 0
  PROVE  Step(new, d, name) = Step(old, d, name)
<1>1. d # 0 /\ old[d].kind = "dir" /\ Has(old, d, name) /\ d \in DOMAIN old
  BY DEF Step
<1>2. new[d].kind = "dir" /\ name \in DOMAIN new[d].ent /\ new[d].ent[name] = old[d].ent[name]
  BY <1>1 DEF Extends, Has
<1> QED
  BY <1>1, <1>2 DEF Step, Has

\* A step that leads somewhere starts in a directory that has the name.
LEMMA StepIsEntry ==
  ASSUME NEW files, NEW d, NEW name, Step(files, d, name) # 0
  PROVE  d # 0 /\ files[d].kind = "dir" /\ Has(files, d, name) /\ Step(files, d, name) = files[d].ent[name]
BY DEF Step

\* Where a path leads it leads for good.
LEMMA LookupGrows ==
  ASSUME NEW old, NEW new, Extends(old, new), NEW S, NEW path \in Seq(S), Leads(old, path)
  PROVE  Lookup(new, path) = Lookup(old, path)
<1> DEFINE n == Len(path)
           part(k) == SubSeq(path, 1, k)
           T == {k \in Nat : Leads(old, part(k)) => Lookup(new, part(k)) = Lookup(old, part(k))}
<1>1. n \in Nat /\ IsFileSystem(old) /\ IsFileSystem(new)
  BY DEF Extends
<1>2. part(0) = << >> /\ part(n) = path
  <2>1. path = SubSeq(path, 1, Len(path)) /\ SubSeq(path, 1, 0) = << >>
    OBVIOUS
  <2> QED
    BY <2>1
<1>3. 0 \in T
  <2>1. Lookup(new, part(0)) = Lookup(old, part(0))
    BY <1>1, <1>2, LookupRoot
  <2> QED
    BY <2>1
<1>4. ASSUME NEW k \in 0 .. n - 1, k \in T PROVE k + 1 \in T
  <2>1. path[k + 1] \in S /\ part(k) \in Seq(S) /\ part(k + 1) = Append(part(k), path[k + 1])
    BY <1>1, OneLonger
  <2>2. k + 1 \in Nat
    BY <1>1
  <2> DEFINE short == part(k)
             long == part(k + 1)
             x == path[k + 1]
  <2>6. x \in S /\ short \in Seq(S) /\ long = Append(short, x)
    BY <2>1
  <2> HIDE DEF part, n, x, short, long
  <2>7. Lookup(new, long) = Step(new, Lookup(new, short), x)
    BY <1>1, <2>6, LookupAppend
  <2>8. Lookup(old, long) = Step(old, Lookup(old, short), x)
    BY <1>1, <2>6, LookupAppend
  <2>3. /\ Lookup(new, part(k + 1)) = Step(new, Lookup(new, part(k)), path[k + 1])
        /\ Lookup(old, part(k + 1)) = Step(old, Lookup(old, part(k)), path[k + 1])
    BY <2>7, <2>8 DEF x, short, long
  <2>4. Lookup(old, part(k)) \in DOMAIN old \cup {0}
    BY <1>1, <2>1, LookupType
  <2>5. ASSUME Leads(old, part(k + 1)) PROVE Lookup(new, part(k + 1)) = Lookup(old, part(k + 1))
    <3>1. Step(old, Lookup(old, part(k)), path[k + 1]) # 0
      BY <2>3, <2>5 DEF Leads
    <3>2. Leads(old, part(k))
      BY <3>1, StepIsEntry DEF Leads
    <3>3. Lookup(new, part(k)) = Lookup(old, part(k))
      BY <1>4, <3>2
    <3>4. Step(new, Lookup(old, part(k)), path[k + 1]) = Step(old, Lookup(old, part(k)), path[k + 1])
      BY <2>4, <3>1, StepGrows
    <3> QED
      BY <2>3, <3>3, <3>4
  <2> QED
    BY <2>2, <2>5
<1>5. \A k \in 0 .. n : k \in T
  <2> HIDE DEF T, n
  <2> QED
    BY <1>1, <1>3, <1>4, BoundedInduction
<1>6. n \in T
  BY <1>1, <1>5
<1> QED
  BY <1>2, <1>6

\* A path that leads on leads to a directory first.
LEMMA LeadsToDirectory ==
  ASSUME NEW files, IsFileSystem(files), NEW S, NEW path \in Seq(S), NEW rest \in Seq(S),
         rest # << >>, Leads(files, path \o rest)
  PROVE  Leads(files, path) /\ files[Lookup(files, path)].kind = "dir"
<1> DEFINE n == Len(rest)
           way(k) == path \o SubSeq(rest, 1, k)
           IsDir(p) == Leads(files, p) /\ files[Lookup(files, p)].kind = "dir"
           T == {j \in Nat : IsDir(way(n - 1 - j))}
<1>1. n \in Nat /\ n > 0
  OBVIOUS
<1>2. \A k \in 0 .. n - 1 : Leads(files, way(k + 1)) => IsDir(way(k))
  <2> TAKE k \in 0 .. n - 1
  <2>1. rest[k + 1] \in S /\ SubSeq(rest, 1, k) \in Seq(S)
        /\ SubSeq(rest, 1, k + 1) = Append(SubSeq(rest, 1, k), rest[k + 1])
    BY <1>1, OneLonger
  <2> DEFINE short == SubSeq(rest, 1, k)
             long == SubSeq(rest, 1, k + 1)
             x == rest[k + 1]
             first == path \o short
  <2>2. short \in Seq(S) /\ long = Append(short, x) /\ x \in S
    BY <2>1
  <2> HIDE DEF short, long, x
  <2>3. path \o long = Append(first, x) /\ first \in Seq(S)
    BY <2>2
  <2> HIDE DEF first
  <2>4. Lookup(files, Append(first, x)) = Step(files, Lookup(files, first), x)
    BY <2>2, <2>3, LookupAppend
  <2>5. Leads(files, path \o long) => IsDir(first)
    BY <2>3, <2>4, StepIsEntry DEF Leads
  <2> QED
    BY <2>5 DEF short, long, first
<1>3. way(0) = path /\ way(n) = path \o rest
  <2>1. rest = SubSeq(rest, 1, Len(rest)) /\ SubSeq(rest, 1, 0) = << >> /\ path \o << >> = path
    OBVIOUS
  <2> QED
    BY <2>1
<1> HIDE DEF way
<1>4. 0 \in T
  <2>1. n - 1 \in 0 .. n - 1 /\ n - 1 + 1 = n /\ n - 1 - 0 = n - 1
    BY <1>1
  <2>2. Leads(files, way(n))
    BY <1>3
  <2> HIDE DEF n, IsDir
  <2> QED
    BY <1>2, <2>1, <2>2
<1>5. ASSUME NEW j \in 0 .. n - 1 - 1, j \in T PROVE j + 1 \in T
  <2>1. n - 1 - (j + 1) \in 0 .. n - 1 /\ n - 1 - (j + 1) + 1 = n - 1 - j /\ j + 1 \in Nat
    BY <1>1
  <2>2. Leads(files, way(n - 1 - j))
    BY <1>5
  <2> HIDE DEF n, IsDir
  <2> QED
    BY <1>2, <2>1, <2>2
<1>6. \A j \in 0 .. n - 1 : j \in T
  <2>1. n - 1 \in Nat
    BY <1>1
  <2> DEFINE m == n - 1
  <2> HIDE DEF T, n
  <2>2. \A j \in 0 .. m - 1 : j \in T => j + 1 \in T
    BY <1>5
  <2> HIDE DEF m
  <2>3. \A j \in 0 .. m : j \in T
    BY <1>4, <2>1, <2>2, BoundedInduction DEF m
  <2> QED
    BY <2>3 DEF m
<1>7. IsDir(way(n - 1 - (n - 1)))
  <2>1. n - 1 \in 0 .. n - 1
    BY <1>1
  <2>2. n - 1 \in T
    BY <1>6, <2>1
  <2> HIDE DEF IsDir, n
  <2> QED
    BY <2>2
<1>8. n - 1 - (n - 1) = 0
  BY <1>1
<1> HIDE DEF IsDir, n
<1>9. IsDir(path)
  BY <1>3, <1>7, <1>8
<1> QED
  BY <1>9 DEF IsDir
-----------------------------------------------------------------------------
(* Real paths in file systems that grow *)

\* A path is made real one component after the other.
LEMMA RealPathAppend ==
  ASSUME NEW files, IsFileSystem(files), NEW path \in Seq(Names), NEW name \in Names
  PROVE  RealPath(files, Append(path, name)) = Resolve(files, RealPath(files, path), name)
<1> DEFINE long == Append(path, name)
           n == Len(path)
<1>1. long \in Seq(Names) /\ Len(long) = n + 1 /\ n \in Nat
      /\ long[n + 1] = name /\ \A k \in 1 .. n : long[k] = path[k]
  OBVIOUS
<1> HIDE DEF long
<1>2. PICK short : Reals(short, files, path)
  BY RealPathSteps
<1>3. PICK real : Reals(real, files, long)
  BY <1>1, RealPathSteps
<1> DEFINE T == {k \in Nat : real[k] = short[k]}
<1>4. 0 \in T
  BY <1>2, <1>3 DEF Reals
<1>5. \A k \in 0 .. n - 1 : k \in T => k + 1 \in T
  <2> TAKE k \in 0 .. n - 1
  <2> HAVE k \in T
  <2>1. k + 1 \in 1 .. n /\ k + 1 \in 1 .. Len(long) /\ k + 1 - 1 = k
    BY <1>1
  <2>2. short[k + 1] = Resolve(files, short[k], path[k + 1])
    BY <1>2, <2>1 DEF Reals
  <2>3. real[k + 1] = Resolve(files, real[k], long[k + 1])
    BY <1>3, <2>1 DEF Reals
  <2> QED
    BY <1>1, <2>1, <2>2, <2>3
<1>6. real[n] = short[n]
  <2>1. \A k \in 0 .. n : k \in T
    <3> HIDE DEF T, n
    <3> QED
      BY <1>1, <1>4, <1>5, BoundedInduction
  <2> QED
    BY <1>1, <2>1
<1>7. real[n + 1] = Resolve(files, real[n], name)
  <2>1. n + 1 \in 1 .. Len(long) /\ n + 1 - 1 = n
    BY <1>1
  <2> QED
    BY <1>1, <1>3, <2>1 DEF Reals
<1>8. RealPath(files, long) = real[n + 1] /\ RealPath(files, path) = short[n]
  BY <1>1, <1>2, <1>3 DEF Reals
<1> QED
  BY <1>6, <1>7, <1>8 DEF long

LEMMA ResolveGrows ==
  ASSUME NEW old, NEW new, Extends(old, new), NEW r \in RealPaths(old), NEW name \in Names,
         Resolve(old, r, name).error = "none"
  PROVE  r.error = "none" /\ Resolve(new, r, name) = Resolve(old, r, name)
<1> DEFINE d == Lookup(old, r.path)
           child == old[d].ent[name]
           to == old[child].to
<1>1. /\ r \in [path : Seq(Names), error : {"none", "ENOTDIR", "ENOENT"}]
      /\ r.path \in Seq(Names) /\ d \in DOMAIN old /\ d # 0
      /\ IsFileSystem(old) /\ IsFileSystem(new)
  BY DEF RealPaths, IsFileSystem, Extends
<1>2. [r EXCEPT !.error = "ENOTDIR"].error # "none" /\ [r EXCEPT !.error = "ENOENT"].error # "none"
  BY <1>1
<1>3. r.error = "none" /\ old[d].kind = "dir"
  <2> HIDE DEF d
  <2>1. r.error # "none" => Resolve(old, r, name) = r
    BY DEF Resolve
  <2>2. r.error = "none" /\ old[d].kind # "dir" => Resolve(old, r, name) = [r EXCEPT !.error = "ENOTDIR"]
    BY DEF Resolve, d
  <2> QED
    BY <1>2, <2>1, <2>2
<1>4. Lookup(new, r.path) = d
  <2>1. Leads(old, r.path)
    BY <1>1 DEF Leads
  <2> QED
    BY <1>1, <2>1, LookupGrows
<1>5. new[d].kind = "dir"
      /\ \A x \in DOMAIN old[d].ent : x \in DOMAIN new[d].ent /\ new[d].ent[x] = old[d].ent[x]
  <2> HIDE DEF d
  <2> QED
    BY <1>1, <1>3 DEF Extends
<1>6. CASE name \in {<< Dot >>, << Dot, Dot >>}
  <2> HIDE DEF d
  <2>1. Resolve(old, r, name) = IF name = << Dot >> THEN r
                                ELSE [r EXCEPT !.path = IF @ = << >> THEN @ ELSE Front(@)]
    BY <1>3, <1>6 DEF Resolve, d
  <2>2. Resolve(new, r, name) = IF name = << Dot >> THEN r
                                ELSE [r EXCEPT !.path = IF @ = << >> THEN @ ELSE Front(@)]
    BY <1>3, <1>4, <1>5, <1>6 DEF Resolve
  <2> QED
    BY <1>3, <2>1, <2>2
<1>7. CASE name \notin {<< Dot >>, << Dot, Dot >>}
  <2>1. Has(old, d, name)
    <3> HIDE DEF d
    <3>1. ~ Has(old, d, name) => Resolve(old, r, name) = [r EXCEPT !.error = "ENOENT"]
      BY <1>3, <1>7 DEF Resolve, d
    <3> QED
      BY <1>2, <3>1
  <2>2. Has(new, d, name) /\ new[d].ent[name] = child
    <3> HIDE DEF d
    <3> QED
      BY <1>5, <2>1 DEF Has
  <2>3. child \in DOMAIN old
    <3> HIDE DEF d
    <3> QED
      BY <1>1, <1>3, <2>1 DEF IsFileSystem, Link, File, Has
  <2> DEFINE ReadsTo(files, result) ==
               result = IF files[child].kind = "link"
                        THEN IF Lookup(files, files[child].to) = 0 THEN [r EXCEPT !.error = "ENOENT"]
                             ELSE [r EXCEPT !.path = files[child].to]
                        ELSE [r EXCEPT !.path = Append(@, name)]
  <2>4. ReadsTo(old, Resolve(old, r, name))
    BY <1>3, <1>7, <2>1 DEF Resolve
  <2>5. ReadsTo(new, Resolve(new, r, name))
    <3> HIDE DEF d, child
    <3>1. new[Lookup(new, r.path)].ent[name] = child /\ Has(new, Lookup(new, r.path), name)
          /\ new[Lookup(new, r.path)].kind = "dir"
      BY <1>4, <1>5, <2>2
    <3> QED
      BY <1>3, <1>7, <3>1 DEF Resolve
  <2> HIDE DEF child
  <2>6. CASE old[child].kind = "link"
    <3>1. new[child] = old[child]
      BY <2>3, <2>6 DEF Extends
    <3>2. old[child].to \in Seq(Names)
      BY <1>1, <2>3, <2>6 DEF IsFileSystem, Directory, File
    <3>3. Leads(old, old[child].to)
      BY <1>2, <2>4, <2>6 DEF Leads
    <3>4. Lookup(new, old[child].to) = Lookup(old, old[child].to)
      BY <3>2, <3>3, LookupGrows
    <3> QED
      BY <1>3, <2>4, <2>5, <2>6, <3>1, <3>3, <3>4 DEF Leads
  <2>7. CASE old[child].kind # "link"
    <3>1. new[child].kind # "link"
      BY <2>3, <2>7 DEF Extends
    <3> QED
      BY <1>3, <2>4, <2>5, <2>7, <3>1
  <2> QED
    BY <2>6, <2>7
<1> QED
  BY <1>6, <1>7

\* What a path is made real as, it stays.
LEMMA RealPathGrows ==
  ASSUME NEW old, NEW new, Extends(old, new), NEW path \in Seq(Names),
         RealPath(old, path).error = "none"
  PROVE  RealPath(new, path) = RealPath(old, path)
<1> DEFINE n == Len(path)
<1>1. n \in Nat /\ IsFileSystem(old) /\ IsFileSystem(new)
  BY DEF Extends
<1>2. PICK was : Reals(was, old, path)
  BY <1>1, RealPathSteps
<1>3. PICK is : Reals(is, new, path)
  BY <1>1, RealPathSteps
<1> DEFINE T == {k \in Nat : was[k].error = "none" => is[k] = was[k]}
<1>4. 0 \in T
  BY <1>2, <1>3 DEF Reals
<1>5. ASSUME NEW k \in 0 .. n - 1, k \in T PROVE k + 1 \in T
  <2>1. k + 1 \in 1 .. n /\ k + 1 - 1 = k /\ path[k + 1] \in Names /\ k \in 0 .. n
    BY <1>1
  <2>2. was[k + 1] = Resolve(old, was[k], path[k + 1]) /\ was[k] \in RealPaths(old)
    BY <1>2, <2>1 DEF Reals
  <2>3. is[k + 1] = Resolve(new, is[k], path[k + 1])
    BY <1>3, <2>1 DEF Reals
  <2>4. ASSUME was[k + 1].error = "none" PROVE is[k + 1] = was[k + 1]
    <3> DEFINE r == was[k]
               name == path[k + 1]
    <3>1. r \in RealPaths(old) /\ name \in Names /\ Resolve(old, r, name).error = "none"
      BY <2>1, <2>2, <2>4
    <3> HIDE DEF r, name
    <3>2. r.error = "none" /\ Resolve(new, r, name) = Resolve(old, r, name)
      BY <3>1, ResolveGrows
    <3> QED
      BY <1>5, <2>2, <2>3, <3>2 DEF r, name
  <2> QED
    BY <2>1, <2>4
<1>6. n \in T
  <2> HIDE DEF T, n
  <2>1. \A k \in 0 .. n : k \in T
    BY <1>1, <1>4, <1>5, BoundedInduction
  <2> QED
    BY <1>1, <2>1
<1> QED
  BY <1>2, <1>3, <1>6 DEF Reals
-----------------------------------------------------------------------------
(* The output directory and the entries in it *)

\* root is a beginning of the path made real, and the rest of it as it stands.
Rooted(files, path, root) ==
  \E k \in 0 .. Len(path) :
    LET real == RealPath(files, SubSeq(path, 1, k))
        suffix == SubSeq(path, k + 1, Len(path))
    IN /\ real.error = "none"
       /\ ~ Contains(suffix, << Dot, Dot >>)
       /\ root = real.path \o Kept(suffix, {i \in DOMAIN suffix : suffix[i] # << Dot >>})

LEMMA CanonicalRooted ==
  ASSUME NEW files, IsFileSystem(files), NEW path \in Seq(Names), CanonicalRoot(files, path).ok
  PROVE  Rooted(files, path, CanonicalRoot(files, path).path)
<1> DEFINE real(k) == RealPath(files, SubSeq(path, 1, k))
           found == CHOOSE k \in 0 .. Len(path) :
                      /\ real(k).error # "ENOENT"
                      /\ \A j \in k + 1 .. Len(path) : real(j).error = "ENOENT"
           suffix == SubSeq(path, found + 1, Len(path))
           whole == real(found).path \o Kept(suffix, {i \in DOMAIN suffix : suffix[i] # << Dot >>})
           refused == real(found).error # "none" \/ Contains(suffix, << Dot, Dot >>)
<1>1. found \in 0 .. Len(path)
  BY RootFound
<1>2. CanonicalRoot(files, path) = IF refused THEN [ok |-> FALSE, path |-> << >>]
                                   ELSE [ok |-> TRUE, path |-> whole]
  BY DEF CanonicalRoot
<1>3. ~ refused /\ CanonicalRoot(files, path).path = whole
  <2> HIDE DEF refused, whole
  <2> QED
    BY <1>2
<1> HIDE DEF found
<1> QED
  BY <1>1, <1>3 DEF Rooted

LEMMA RootedGrows ==
  ASSUME NEW old, NEW new, Extends(old, new), NEW path \in Seq(Names), NEW root,
         Rooted(old, path, root)
  PROVE  Rooted(new, path, root)
<1>1. PICK k \in 0 .. Len(path) :
        LET real == RealPath(old, SubSeq(path, 1, k))
            suffix == SubSeq(path, k + 1, Len(path))
        IN /\ real.error = "none"
           /\ ~ Contains(suffix, << Dot, Dot >>)
           /\ root = real.path \o Kept(suffix, {i \in DOMAIN suffix : suffix[i] # << Dot >>})
  BY DEF Rooted
<1>2. SubSeq(path, 1, k) \in Seq(Names)
  BY PieceType
<1>3. RealPath(new, SubSeq(path, 1, k)) = RealPath(old, SubSeq(path, 1, k))
  BY <1>1, <1>2, RealPathGrows
<1> QED
  BY <1>1, <1>3 DEF Rooted

\* When all of it is there, it is what the path is made real as.
LEMMA RootedIsReal ==
  ASSUME NEW files, IsFileSystem(files), NEW path \in Seq(Names), NEW root,
         Rooted(files, path, root), Leads(files, root), files[Lookup(files, root)].kind = "dir"
  PROVE  RealPath(files, path).error = "none" /\ RealPath(files, path).path = root
<1> DEFINE n == Len(path)
           begun(k) == RealPath(files, SubSeq(path, 1, k))
<1>1. PICK k \in 0 .. n :
        LET suffix == SubSeq(path, k + 1, n)
        IN /\ begun(k).error = "none"
           /\ ~ Contains(suffix, << Dot, Dot >>)
           /\ root = begun(k).path \o Kept(suffix, {i \in DOMAIN suffix : suffix[i] # << Dot >>})
  BY DEF Rooted
<1> DEFINE suffix == SubSeq(path, k + 1, n)
           places == {i \in DOMAIN suffix : suffix[i] # << Dot >>}
           base == begun(k).path
           m == n - k
<1>2. n \in Nat /\ k \in Nat /\ m \in Nat /\ k + m = n /\ \A i \in 1 .. n : path[i] \in Names
  OBVIOUS
<1>3. suffix \in Seq(Names) /\ Len(suffix) = m /\ \A i \in 1 .. m : suffix[i] = path[k + i]
  <2>1. k + 1 \in Int /\ n \in Int /\ \A i \in k + 1 .. n : path[i] \in Names
    BY <1>2
  <2> HIDE DEF n
  <2>2. /\ suffix \in Seq(Names) /\ Len(suffix) = (IF k + 1 <= n THEN n - (k + 1) + 1 ELSE 0)
        /\ \A i \in 1 .. n - (k + 1) + 1 : suffix[i] = path[k + 1 + i - 1]
    BY <2>1, SubSeqProperties
  <2>3. \A i \in 1 .. m : i \in 1 .. n - (k + 1) + 1 /\ k + 1 + i - 1 = k + i
    BY <1>2
  <2> HIDE DEF suffix
  <2> QED
    BY <1>2, <2>2, <2>3
<1>4. begun(k) \in RealPaths(files) /\ begun(k).error = "none"
  <2>1. SubSeq(path, 1, k) \in Seq(Names)
    BY PieceType
  <2> QED
    BY <1>1, <2>1, RealPathType
<1>5. base \in Seq(Names)
  BY <1>4 DEF RealPaths
<1>6. root = base \o Kept(suffix, places)
  BY <1>1
<1>7. \A i \in 1 .. m : suffix[i] # << Dot, Dot >>
  <2>1. ~ Contains(suffix, << Dot, Dot >>)
    BY <1>1
  <2> HIDE DEF suffix
  <2> QED
    BY <1>3, <2>1 DEF Contains
<1> HIDE DEF suffix, base
<1>8. PICK kept : Keeps(kept, suffix, places) /\ \A j \in 0 .. m : kept[j] \in Seq(Names)
  BY <1>3, KeptSteps
<1>9. /\ Kept(suffix, places) = kept[m] /\ kept[0] = << >>
      /\ \A j \in 1 .. m : kept[j] = IF suffix[j] # << Dot >> THEN Append(kept[j - 1], suffix[j])
                                     ELSE kept[j - 1]
  <2>1. \A j \in 1 .. m : j \in places <=> suffix[j] # << Dot >>
    BY <1>2, <1>3
  <2> HIDE DEF places
  <2> QED
    BY <1>3, <1>8, <2>1 DEF Keeps
<1> HIDE DEF places, n, m
<1> DEFINE way(j) == base \o kept[j]
           IsDir(p) == Leads(files, p) /\ files[Lookup(files, p)].kind = "dir"
<1>10. \A j \in 0 .. m : way(j) \in Seq(Names)
  BY <1>5, <1>8
<1>11. ASSUME NEW j \in 0 .. m - 1
       PROVE  /\ suffix[j + 1] \in Names /\ j + 1 \in 1 .. m /\ j \in 0 .. m /\ j + 1 \in 0 .. m
              /\ way(j) \in Seq(Names)
              /\ way(j + 1) = IF suffix[j + 1] # << Dot >> THEN Append(way(j), suffix[j + 1])
                              ELSE way(j)
  <2>1. j + 1 \in 1 .. m /\ j \in 0 .. m /\ j + 1 \in 0 .. m /\ j + 1 - 1 = j
    BY <1>2
  <2>2. suffix[j + 1] \in Names
    BY <1>3, <2>1
  <2>3. kept[j + 1] = IF suffix[j + 1] # << Dot >> THEN Append(kept[j], suffix[j + 1]) ELSE kept[j]
    BY <1>9, <2>1
  <2>4. kept[j] \in Seq(Names)
    BY <1>8, <2>1
  <2>5. base \o Append(kept[j], suffix[j + 1]) = Append(way(j), suffix[j + 1])
    BY <1>5, <2>2, <2>4
  <2> QED
    BY <1>10, <2>1, <2>2, <2>3, <2>5
<1> HIDE DEF way
<1> DEFINE T == {j \in Nat : IsDir(way(m - j))}
<1>12. 0 \in T
  <2>1. way(m) = root /\ m - 0 = m
    BY <1>2, <1>6, <1>9 DEF way
  <2>2. IsDir(root)
    OBVIOUS
  <2> HIDE DEF IsDir
  <2> QED
    BY <2>1, <2>2
<1>13. ASSUME NEW j \in 0 .. m - 1, j \in T PROVE j + 1 \in T
  <2> DEFINE i == m - (j + 1)
  <2>1. i \in 0 .. m - 1 /\ i + 1 = m - j /\ j + 1 \in Nat
    BY <1>2
  <2>2. IsDir(way(m - j))
    BY <1>13
  <2> HIDE DEF i
  <2>3. /\ suffix[i + 1] \in Names /\ way(i) \in Seq(Names)
        /\ way(i + 1) = IF suffix[i + 1] # << Dot >> THEN Append(way(i), suffix[i + 1]) ELSE way(i)
    BY <1>11, <2>1
  <2>4. IsDir(way(i + 1))
    <3> HIDE DEF IsDir
    <3> QED
      BY <2>1, <2>2
  <2>5. IsDir(way(i))
    <3>1. CASE suffix[i + 1] # << Dot >>
      <4> DEFINE w == way(i)
                 x == suffix[i + 1]
      <4>2. w \in Seq(Names) /\ x \in Names /\ way(i + 1) = Append(w, x)
        BY <2>3, <3>1
      <4> HIDE DEF w, x
      <4>3. Lookup(files, Append(w, x)) = Step(files, Lookup(files, w), x)
        BY <4>2, LookupAppend
      <4>1. Lookup(files, way(i + 1)) = Step(files, Lookup(files, way(i)), suffix[i + 1])
        BY <4>2, <4>3 DEF w, x
      <4> QED
        BY <2>4, <4>1, StepIsEntry DEF Leads
    <3>2. CASE suffix[i + 1] = << Dot >>
      BY <2>3, <2>4, <3>2
    <3> QED
      BY <3>1, <3>2
  <2> HIDE DEF IsDir
  <2> QED
    BY <2>1, <2>5 DEF i
<1>14. \A j \in 0 .. m : IsDir(way(j))
  <2>1. \A j \in 0 .. m : j \in T
    <3> HIDE DEF T
    <3> QED
      BY <1>2, <1>12, <1>13, BoundedInduction
  <2> TAKE j \in 0 .. m
  <2>2. m - j \in 0 .. m /\ m - (m - j) = j
    BY <1>2
  <2>3. IsDir(way(m - (m - j)))
    BY <2>1, <2>2
  <2> HIDE DEF IsDir
  <2> QED
    BY <2>2, <2>3
<1> DEFINE IsAt(r, p) == r \in RealPaths(files) /\ r.error = "none" /\ r.path = p
           U == {j \in Nat : IsAt(begun(k + j), way(j))}
<1>15. 0 \in U
  <2>1. way(0) = base /\ k + 0 = k
    BY <1>2, <1>5, <1>9 DEF way
  <2> QED
    BY <1>4, <2>1 DEF base
<1>16. ASSUME NEW j \in 0 .. m - 1, j \in U PROVE j + 1 \in U
  <2> DEFINE r == begun(k + j)
             name == suffix[j + 1]
             d == Lookup(files, way(j))
  <2>1. /\ name \in Names /\ j + 1 \in 1 .. m /\ j \in 0 .. m /\ j + 1 \in 0 .. m
        /\ way(j) \in Seq(Names)
        /\ way(j + 1) = IF name # << Dot >> THEN Append(way(j), name) ELSE way(j)
    BY <1>11
  <2>2. IsAt(r, way(j))
    BY <1>16
  <2>3. begun(k + (j + 1)) = Resolve(files, r, name)
    <3>1. k + j \in 0 .. n - 1 /\ k + j + 1 = k + (j + 1) /\ name = path[k + j + 1]
      BY <1>2, <1>3, <2>1
    <3>2. SubSeq(path, 1, k + j) \in Seq(Names)
          /\ SubSeq(path, 1, k + j + 1) = Append(SubSeq(path, 1, k + j), path[k + j + 1])
      BY <3>1, OneLonger DEF n
    <3> DEFINE short == SubSeq(path, 1, k + j)
    <3>3. short \in Seq(Names) /\ SubSeq(path, 1, k + (j + 1)) = Append(short, name)
      BY <3>1, <3>2
    <3>4. r = RealPath(files, short)
      OBVIOUS
    <3> HIDE DEF name, short, r
    <3>5. RealPath(files, Append(short, name)) = Resolve(files, RealPath(files, short), name)
      BY <2>1, <3>3, RealPathAppend
    <3> QED
      BY <3>3, <3>4, <3>5
  <2>4. IsDir(way(j)) /\ IsDir(way(j + 1))
    BY <1>14, <2>1
  <2> HIDE DEF r, name
  <2>5. Resolve(files, r, name) \in RealPaths(files)
    BY <2>1, <2>2, ResolveType
  <2>6. /\ r \in [path : Seq(Names), error : {"none", "ENOTDIR", "ENOENT"}]
        /\ r.error = "none" /\ r.path = way(j)
    BY <2>2 DEF RealPaths
  <2>7. files[d].kind = "dir" /\ name # << Dot, Dot >>
    BY <1>7, <2>1, <2>4 DEF name
  <2>8. CASE name = << Dot >>
    <3>1. Resolve(files, r, name) = r
      BY <2>6, <2>7, <2>8 DEF Resolve
    <3> HIDE DEF IsAt
    <3>2. IsAt(begun(k + (j + 1)), way(j + 1))
      BY <2>1, <2>2, <2>3, <2>8, <3>1
    <3> QED
      BY <2>1, <3>2
  <2>9. CASE name # << Dot >>
    <3>1. Lookup(files, way(j + 1)) = Step(files, d, name)
      <4> DEFINE w == way(j)
      <4>1. w \in Seq(Names) /\ way(j + 1) = Append(w, name)
        BY <2>1, <2>9
      <4> HIDE DEF w
      <4>2. Lookup(files, Append(w, name)) = Step(files, Lookup(files, w), name)
        BY <2>1, <4>1, LookupAppend
      <4> QED
        BY <4>1, <4>2 DEF w
    <3>2. Has(files, d, name) /\ files[files[d].ent[name]].kind = "dir"
      <4> HIDE DEF d
      <4>1. Step(files, d, name) # 0 /\ files[Step(files, d, name)].kind = "dir"
        BY <2>4, <3>1 DEF Leads
      <4> QED
        BY <4>1, StepIsEntry
    <3>3. Resolve(files, r, name) = [r EXCEPT !.path = Append(@, name)]
      BY <2>6, <2>7, <2>9, <3>2 DEF Resolve
    <3>4. Resolve(files, r, name).error = "none" /\ Resolve(files, r, name).path = Append(way(j), name)
      BY <2>6, <3>3
    <3>5. IsAt(Resolve(files, r, name), way(j + 1))
      BY <2>1, <2>5, <2>9, <3>4
    <3> HIDE DEF IsAt
    <3>6. IsAt(begun(k + (j + 1)), way(j + 1))
      BY <2>3, <3>5
    <3> QED
      BY <2>1, <3>6
  <2> QED
    BY <2>8, <2>9
<1>17. m \in U
  <2>1. \A j \in 0 .. m : j \in U
    <3> HIDE DEF U
    <3> QED
      BY <1>2, <1>15, <1>16, BoundedInduction
  <2> QED
    BY <1>2, <2>1
<1>18. way(m) = root /\ SubSeq(path, 1, n) = path /\ k + m = n
  <2>1. path = SubSeq(path, 1, Len(path))
    OBVIOUS
  <2> QED
    BY <1>2, <1>6, <1>9, <2>1 DEF way, n
<1>19. IsAt(begun(k + m), way(m))
  BY <1>17
<1>20. IsAt(RealPath(files, path), root)
  <2> HIDE DEF IsAt
  <2> QED
    BY <1>18, <1>19
<1> QED
  BY <1>20

\* The file of an entry is under its name in the output directory.
InPlace(files, i) ==
  LET real == RealPath(files, dest)
      place == real.path \o Parts(list[i])
  IN real.error = "none" /\ Leads(files, place) /\ files[Lookup(files, place)] = File(i)

\* While nothing failed and nobody interfered, the entries before this one are in
\* their places, and the walk has come from the root the way it was to go.
EntriesPlaced ==
  errors = {} /\ exchanged = {} =>
    /\ \A i \in DOMAIN list : i < entry => InPlace(fs, i)
    /\ pc = "walk" =>
         Rooted(fs, dest, physical) /\ at = Lookup(fs, SubSeq(Way, 1, Len(Way) - Len(todo)))

\* Entries are extracted from a whole list, to its end.
ListIsWhole ==
  entry > 0 =>
    /\ ~ failed /\ pc \notin {"collect", "validate"}
    /\ pc = "done" => entry > Len(list)

LEMMA ListIsWholeInvariance ==
  EntryPathsTypeOK /\ ListIsWhole /\ [Next]_vars => ListIsWhole'
<1> SUFFICES ASSUME EntryPathsTypeOK, ListIsWhole, [Next]_vars PROVE ListIsWhole'
  OBVIOUS
<1>1. entry \in Nat
  BY DEF EntryPathsTypeOK
<1>2. CASE Collect
  BY <1>2 DEF Collect, ListIsWhole
<1>3. CASE Validate
  BY <1>3 DEF Validate, ListIsWhole
<1>4. CASE StartEntry
  BY <1>1, <1>4 DEF StartEntry, ListIsWhole, EntryPathsTypeOK
<1>5. CASE Descend
  BY <1>1, <1>5 DEF Descend, GiveUp, ListIsWhole, EntryPathsTypeOK
<1>6. CASE Create
  BY <1>1, <1>6 DEF Create, GiveUp, ListIsWhole, EntryPathsTypeOK
<1>7. CASE CallFails
  BY <1>1, <1>7 DEF CallFails, GiveUp, ListIsWhole, EntryPathsTypeOK
<1>8. CASE Finish
  BY <1>8 DEF Finish, ListIsWhole
<1>9. CASE Exchange
  BY <1>9 DEF Exchange, ListIsWhole
<1>10. CASE UNCHANGED vars
  BY <1>10 DEF vars, ListIsWhole
<1> QED
  BY <1>2, <1>3, <1>4, <1>5, <1>6, <1>7, <1>8, <1>9, <1>10 DEF Next, Done

\* The way of the walk, the part that was walked, and the next component.
LEMMA TheWay ==
  ASSUME EntryPathsTypeOK, TodoEndsTheWay, pc = "walk", Len(todo) > 0
  PROVE  /\ Way \in Seq(Names) /\ physical \in Seq(Names) /\ Parts(list[entry]) \in Seq(Names)
         /\ Head(todo) \in Names /\ Len(Tail(todo)) = Len(todo) - 1
         /\ SubSeq(Way, 1, Len(Way) - Len(todo)) \in Seq(Names)
         /\ SubSeq(Way, 1, Len(Way) - Len(Tail(todo)))
              = Append(SubSeq(Way, 1, Len(Way) - Len(todo)), Head(todo))
<1>1. todo \in Seq(Names) /\ physical \in Seq(Names) /\ list[entry] \in Names
  BY DEF EntryPathsTypeOK
<1>2. Parts(list[entry]) \in Seq(Names)
  BY <1>1, PartsType
<1> DEFINE way == Way
<1>3. way \in Seq(Names)
  BY <1>1, <1>2 DEF Way
<1>4. Len(todo) <= Len(way) /\ todo = SubSeq(way, Len(way) - Len(todo) + 1, Len(way))
  BY DEF TodoEndsTheWay
<1> HIDE DEF way
<1>5. /\ Head(todo) \in Names /\ Len(Tail(todo)) = Len(todo) - 1
      /\ SubSeq(way, 1, Len(way) - Len(todo)) \in Seq(Names)
      /\ SubSeq(way, 1, Len(way) - Len(Tail(todo)))
           = Append(SubSeq(way, 1, Len(way) - Len(todo)), Head(todo))
  <2>1. IsRestOfWay(todo, way)
    BY <1>1, <1>3, <1>4 DEF IsRestOfWay
  <2> QED
    BY <2>1, OneFurther, Zenon DEF GoesOneFurther
<1> QED
  BY <1>1, <1>2, <1>3, <1>5 DEF way

\* What is in its place stays there.
LEMMA InPlaceGrows ==
  ASSUME EntryPathsTypeOK, NEW new, Extends(fs, new), NEW i \in DOMAIN list, InPlace(fs, i)
  PROVE  InPlace(new, i)
<1> DEFINE real == RealPath(fs, dest)
           place == real.path \o Parts(list[i])
<1>1. dest \in Seq(Names) /\ list[i] \in Names /\ IsFileSystem(fs)
  BY EntryPathsConstants DEF EntryPathsTypeOK
<1>2. real.error = "none" /\ Leads(fs, place) /\ fs[Lookup(fs, place)] = File(i)
  BY DEF InPlace
<1>3. RealPath(new, dest) = real
  BY <1>1, <1>2, RealPathGrows
<1>4. place \in Seq(Names)
  <2>1. real \in RealPaths(fs)
    BY <1>1, RealPathType
  <2>2. real.path \in Seq(Names)
    BY <2>1 DEF RealPaths
  <2>3. Parts(list[i]) \in Seq(Names)
    BY <1>1, PartsType
  <2> HIDE DEF real
  <2> QED
    BY <2>2, <2>3
<1>5. Lookup(new, place) = Lookup(fs, place)
  BY <1>2, <1>4, LookupGrows
<1>6. Lookup(fs, place) \in DOMAIN fs
  <2>1. Lookup(fs, place) \in DOMAIN fs \cup {0}
    BY <1>1, <1>4, LookupType
  <2> QED
    BY <1>2, <2>1 DEF Leads
<1>7. new[Lookup(fs, place)] = File(i)
  <2>1. File(i).kind # "dir"
    BY DEF File
  <2> HIDE DEF place
  <2> QED
    BY <1>2, <1>6, <2>1 DEF Extends
<1> HIDE DEF real
<1> QED
  BY <1>2, <1>3, <1>5, <1>7 DEF InPlace, Leads

LEMMA StartEntryPlaces ==
  ASSUME EntryPathsTypeOK, EntriesPlaced, StartEntry
  PROVE  EntriesPlaced'
<1> SUFFICES ASSUME errors' = {}, exchanged' = {}
             PROVE  /\ (\A i \in DOMAIN list : i < entry => InPlace(fs, i))'
                    /\ (pc = "walk" =>
                          Rooted(fs, dest, physical)
                          /\ at = Lookup(fs, SubSeq(Way, 1, Len(Way) - Len(todo))))'
  BY DEF EntriesPlaced
<1> DEFINE canonical == CanonicalRoot(fs, dest)
<1>1. canonical.ok
  BY DEF StartEntry
<1>2. /\ pc' = "walk" /\ physical' = canonical.path
      /\ at' = Root /\ todo' = canonical.path \o Parts(list[entry])
      /\ UNCHANGED << entry, errors, list, dest, fs, exchanged >>
  BY <1>1 DEF StartEntry
<1>3. dest \in Seq(Names) /\ IsFileSystem(fs)
  BY EntryPathsConstants DEF EntryPathsTypeOK
<1>4. Rooted(fs, dest, canonical.path)
  BY <1>1, <1>3, CanonicalRooted
<1>5. todo' \in Seq(Names)
  BY StartEntryTypes DEF EntryPathsTypeOK
<1>6. Way' = todo'
  BY <1>2 DEF Way
<1>7. Lookup(fs, SubSeq(todo', 1, Len(todo') - Len(todo'))) = Root
  <2> DEFINE whole == todo'
  <2>1. whole \in Seq(Names)
    BY <1>5
  <2> HIDE DEF whole
  <2>2. Len(whole) - Len(whole) = 0 /\ SubSeq(whole, 1, 0) = << >>
    BY <2>1
  <2>3. Lookup(fs, SubSeq(whole, 1, Len(whole) - Len(whole))) = Root
    BY <1>3, <2>2, LookupRoot
  <2> QED
    BY <2>3 DEF whole
<1> HIDE DEF canonical
<1>8. (Rooted(fs, dest, physical))'
  BY <1>2, <1>4
<1>9. (at = Lookup(fs, SubSeq(Way, 1, Len(Way) - Len(todo))))'
  BY <1>2, <1>6, <1>7
<1>10. (\A i \in DOMAIN list : i < entry => InPlace(fs, i))'
  <2>1. \A i \in DOMAIN list : i < entry => InPlace(fs, i)
    BY <1>2 DEF EntriesPlaced
  <2> QED
    BY <1>2, <2>1 DEF InPlace
<1> QED
  BY <1>8, <1>9, <1>10

LEMMA DescendPlaces ==
  ASSUME EntryPathsTypeOK, TodoEndsTheWay, EntriesPlaced, Descend
  PROVE  EntriesPlaced'
<1> SUFFICES ASSUME errors' = {}, exchanged' = {}
             PROVE  /\ (\A i \in DOMAIN list : i < entry => InPlace(fs, i))'
                    /\ (Rooted(fs, dest, physical)
                        /\ at = Lookup(fs, SubSeq(Way, 1, Len(Way) - Len(todo))))'
  BY DEF EntriesPlaced
<1> DEFINE name == Head(todo)
           made == IF Has(fs, at, name) THEN fs ELSE Enter(fs, at, name, EmptyDirectory)
           next == OpenDirectory(made, at, name)
           walked == SubSeq(Way, 1, Len(Way) - Len(todo))
<1>1. pc = "walk" /\ Len(todo) > 1 /\ fs' = made
      /\ UNCHANGED << list, dest, physical, exchanged >>
  BY DEF Descend
<1>2. next # 0 /\ at' = next /\ todo' = Tail(todo) /\ UNCHANGED << pc, entry, errors >>
  <2>1. next # 0
    <3>1. next = 0 => GiveUp
      BY DEF Descend
    <3> QED
      BY <3>1 DEF GiveUp
  <2> QED
    BY <2>1 DEF Descend
<1>3. /\ Way \in Seq(Names) /\ name \in Names /\ walked \in Seq(Names)
      /\ SubSeq(Way, 1, Len(Way) - Len(Tail(todo))) = Append(walked, name)
  <2>1. Len(todo) > 0
    BY <1>1 DEF EntryPathsTypeOK
  <2> QED
    BY <1>1, <2>1, TheWay
<1>4. IsFileSystem(fs) /\ at \in DOMAIN fs /\ fs[at].kind = "dir" /\ at # 0 /\ dest \in Seq(Names)
  BY EntryPathsConstants DEF EntryPathsTypeOK, IsFileSystem
<1>5. errors = {} /\ exchanged = {}
  BY <1>1, <1>2
<1>6. Rooted(fs, dest, physical) /\ at = Lookup(fs, walked)
      /\ \A i \in DOMAIN list : i < entry => InPlace(fs, i)
  BY <1>1, <1>5 DEF EntriesPlaced
<1> HIDE DEF walked
<1>7. Extends(fs, made)
  <2>1. CASE Has(fs, at, name)
    BY <1>4, <2>1, ExtendsItself
  <2>2. CASE ~ Has(fs, at, name)
    <3>1. EmptyDirectory \in Nodes
      BY DEF Nodes
    <3> HIDE DEF name
    <3>2. Extends(fs, Enter(fs, at, name, EmptyDirectory))
      BY <1>4, <2>2, <3>1, EnteringExtends
    <3> QED
      BY <2>2, <3>2
  <2> QED
    BY <2>1, <2>2
<1>8. name \in DOMAIN made[at].ent /\ made[at].kind = "dir"
  BY Making
<1> HIDE DEF name, made
<1>9. next = Step(made, at, name)
  BY <1>2, <1>4, <1>8 DEF OpenDirectory, Step, Has
<1>10. Lookup(made, Append(walked, name)) = next
  <2>1. Leads(fs, walked)
    BY <1>4, <1>6 DEF Leads
  <2>2. Lookup(made, walked) = at
    BY <1>3, <1>6, <1>7, <2>1, LookupGrows
  <2>3. IsFileSystem(made)
    BY <1>7 DEF Extends
  <2>4. Lookup(made, Append(walked, name)) = Step(made, Lookup(made, walked), name)
    BY <1>3, <2>3, LookupAppend
  <2> QED
    BY <1>9, <2>2, <2>4
<1> HIDE DEF next
<1>11. Way' = Way
  BY <1>1, <1>2 DEF Way
<1>12. (at = Lookup(fs, SubSeq(Way, 1, Len(Way) - Len(todo))))'
  BY <1>1, <1>2, <1>3, <1>10, <1>11
<1>13. (Rooted(fs, dest, physical))'
  <2>1. Rooted(made, dest, physical)
    BY <1>4, <1>6, <1>7, RootedGrows
  <2> QED
    BY <1>1, <2>1
<1>14. (\A i \in DOMAIN list : i < entry => InPlace(fs, i))'
  <2>1. \A i \in DOMAIN list : i < entry => InPlace(made, i)
    BY <1>6, <1>7, InPlaceGrows
  <2> QED
    BY <1>1, <1>2, <2>1 DEF InPlace
<1> QED
  BY <1>12, <1>13, <1>14

LEMMA CreatePlaces ==
  ASSUME EntryPathsTypeOK, TodoEndsTheWay, ListIsWhole, NamesAreTidy, EntriesPlaced, Create
  PROVE  EntriesPlaced'
<1> SUFFICES ASSUME errors' = {}, exchanged' = {}
             PROVE  pc' # "walk" /\ (\A i \in DOMAIN list : i < entry => InPlace(fs, i))'
  BY DEF EntriesPlaced
<1> DEFINE name == Head(todo)
           walked == SubSeq(Way, 1, Len(Way) - Len(todo))
           new == Enter(fs, at, name, File(entry))
           parts == Parts(list[entry])
<1>1. pc = "walk" /\ Len(todo) = 1 /\ UNCHANGED << list, dest, physical, exchanged >>
  BY DEF Create
<1>2. NameIsFree(fs, at, name)
  <2>1. ~ NameIsFree(fs, at, name) => GiveUp
    BY DEF Create
  <2> QED
    BY <2>1 DEF GiveUp
<1>3. fs' = new /\ entry' = entry + 1 /\ pc' = "entry" /\ UNCHANGED errors
  BY <1>2 DEF Create
<1>4. IsFileSystem(fs) /\ at \in DOMAIN fs /\ fs[at].kind = "dir" /\ at # 0 /\ dest \in Seq(Names)
      /\ entry \in Nat /\ entry > 0 /\ entry \in DOMAIN list /\ list[entry] \in Names
  BY <1>1, EntryPathsConstants DEF EntryPathsTypeOK, IsFileSystem
<1>5. /\ Way \in Seq(Names) /\ physical \in Seq(Names) /\ parts \in Seq(Names)
      /\ name \in Names /\ walked \in Seq(Names)
      /\ SubSeq(Way, 1, Len(Way) - Len(Tail(todo))) = Append(walked, name)
      /\ Len(Tail(todo)) = Len(todo) - 1
  <2>1. Len(todo) > 0
    BY <1>1
  <2> QED
    BY <1>1, <2>1, TheWay
<1>6. Way = Append(walked, name)
  <2> DEFINE way == Way
  <2>1. way \in Seq(Names) /\ SubSeq(way, 1, Len(way) - 0) = Append(walked, name)
    <3>1. Len(Tail(todo)) = 0
      BY <1>1, <1>5
    <3> QED
      BY <1>5, <3>1
  <2> HIDE DEF way, walked
  <2>2. SubSeq(way, 1, Len(way) - 0) = way
    BY <2>1
  <2>3. way = Append(walked, name)
    BY <2>1, <2>2
  <2> QED
    BY <2>3 DEF way
<1>7. errors = {} /\ exchanged = {}
  BY <1>1, <1>3
<1>8. Rooted(fs, dest, physical) /\ at = Lookup(fs, walked)
      /\ \A i \in DOMAIN list : i < entry => InPlace(fs, i)
  BY <1>1, <1>7 DEF EntriesPlaced
<1>9. parts # << >>
  <2>1. list[entry] \in Range(list) /\ ~ failed
    BY <1>4 DEF Range, ListIsWhole
  <2>2. PathIsSafe(list[entry]) /\ IsTidy(list[entry])
    BY <2>1 DEF NamesAreTidy
  <2> QED
    BY <1>4, <2>2, PartsAre
<1>10. Extends(fs, new) /\ Step(new, at, name) \in DOMAIN new /\ new[Step(new, at, name)] = File(entry)
  <2>1. File(entry) \in Nodes
    BY <1>4 DEF Nodes
  <2> HIDE DEF name
  <2> QED
    BY <1>2, <1>4, <2>1, EnteringExtends DEF NameIsFree
<1> HIDE DEF walked, new, name, parts
<1>11. IsFileSystem(new)
  BY <1>10 DEF Extends
<1>12. Lookup(new, Way) = Step(new, at, name)
  <2>1. Leads(fs, walked)
    BY <1>4, <1>8 DEF Leads
  <2>2. Lookup(new, walked) = at
    BY <1>5, <1>8, <1>10, <2>1, LookupGrows
  <2>3. Lookup(new, Append(walked, name)) = Step(new, Lookup(new, walked), name)
    BY <1>5, <1>11, LookupAppend
  <2> QED
    BY <1>6, <2>2, <2>3
<1>13. Leads(new, Way) /\ new[Lookup(new, Way)] = File(entry)
  BY <1>10, <1>11, <1>12 DEF Leads, IsFileSystem
<1>14. Way = physical \o parts
  BY DEF Way, parts
<1>15. Leads(new, physical) /\ new[Lookup(new, physical)].kind = "dir"
  BY <1>5, <1>9, <1>11, <1>13, <1>14, LeadsToDirectory
<1>16. Rooted(new, dest, physical)
  BY <1>4, <1>8, <1>10, RootedGrows
<1>17. RealPath(new, dest).error = "none" /\ RealPath(new, dest).path = physical
  BY <1>4, <1>11, <1>15, <1>16, RootedIsReal
<1>18. InPlace(new, entry)
  BY <1>13, <1>14, <1>17 DEF InPlace, parts
<1>19. ASSUME NEW i \in DOMAIN list, i < entry + 1 PROVE InPlace(new, i)
  <2>1. CASE i = entry
    BY <1>18, <2>1
  <2>2. CASE i # entry
    <3>1. i < entry
      BY <1>4, <1>19, <2>2 DEF EntryPathsTypeOK
    <3>2. InPlace(fs, i)
      BY <1>8, <3>1
    <3> QED
      BY <1>10, <3>2, InPlaceGrows
  <2> QED
    BY <2>1, <2>2
<1> QED
  BY <1>1, <1>3, <1>19 DEF InPlace

LEMMA PlacedInvariance ==
  ASSUME EntryPathsTypeOK, WalkInvariant, ListIsWhole, NamesAreTidy, EntriesPlaced, [Next]_vars
  PROVE  EntriesPlaced'
<1>1. entry \in Nat /\ DOMAIN list = 1 .. Len(list)
  BY DEF EntryPathsTypeOK
<1>2. CASE Collect
  <2>1. entry' = 0 /\ pc' # "walk" /\ list' \in Seq(Names)
    BY <1>1, <1>2, TypeInvariance DEF Collect, ListIsWhole, EntryPathsTypeOK
  <2>2. \A i \in DOMAIN list' : ~ (i < entry')
    BY <2>1
  <2> QED
    BY <2>1, <2>2 DEF EntriesPlaced
<1>3. CASE Validate
  <2>1. entry' \in {0, 1} /\ pc' # "walk" /\ list' = list
    BY <1>1, <1>3 DEF Validate, ListIsWhole
  <2>2. \A i \in DOMAIN list' : ~ (i < entry')
    BY <1>1, <2>1
  <2> QED
    BY <2>1, <2>2 DEF EntriesPlaced
<1>4. CASE CallFails
  BY <1>4 DEF CallFails, GiveUp, EntriesPlaced
<1>5. CASE Exchange
  <2>1. exchanged' # {}
    BY <1>5 DEF Exchange
  <2> QED
    BY <2>1 DEF EntriesPlaced
<1>6. CASE Finish
  <2>1. pc' # "walk" /\ UNCHANGED << list, entry, dest, fs, errors, exchanged >>
    BY <1>6 DEF Finish
  <2> QED
    BY <2>1 DEF EntriesPlaced, InPlace
<1>7. CASE UNCHANGED vars
  BY <1>7 DEF vars, EntriesPlaced, InPlace, Way
<1>8. TodoEndsTheWay
  BY DEF WalkInvariant
<1> QED
  BY <1>2, <1>3, <1>4, <1>5, <1>6, <1>7, <1>8, StartEntryPlaces, DescendPlaces, CreatePlaces
     DEF Next, Done

LEMMA InitiallyPlaced ==
  Init => ListIsWhole /\ EntriesPlaced
<1> SUFFICES ASSUME Init PROVE ListIsWhole /\ EntriesPlaced
  OBVIOUS
<1>1. entry = 0 /\ pc = "collect" /\ list = << >>
  BY DEF Init
<1>2. ListIsWhole
  BY <1>1 DEF ListIsWhole
<1>3. \A i \in DOMAIN list : ~ (i < entry)
  BY <1>1
<1>4. EntriesPlaced
  BY <1>1, <1>3 DEF EntriesPlaced
<1> QED
  BY <1>2, <1>4

\* When the call ends without an error and nobody interfered, every entry of the
\* archive is a file of its own, under its name below the directory the user named,
\* with the links on the way to that directory followed.
THEOREM EveryEntryPlaced == Spec => []EveryEntryIsInItsPlace
<1>1. Init => WalkInvariant /\ CollectedSoFar /\ ListedFinitely /\ AllMayBeArchived
                /\ ListIsWhole /\ EntriesPlaced
  BY InitialWalk, InitiallyCollected, InitiallyArchived, InitiallyPlaced
<1>2. EntryPathsTypeOK /\ CollectedSoFar /\ ListedFinitely /\ AllMayBeArchived /\ [Next]_vars
      => CollectedSoFar' /\ ListedFinitely' /\ AllMayBeArchived'
  BY CollectedInvariance, ArchivedInvariance
<1>3. EntryPathsTypeOK /\ WalkInvariant /\ [Next]_vars => WalkInvariant'
  BY WalkInvariance
<1>4. EntryPathsTypeOK /\ CollectedSoFar /\ AllMayBeArchived => NamesAreTidy
  BY ListedAreTidy
<1>5. EntryPathsTypeOK /\ ListIsWhole /\ [Next]_vars => ListIsWhole'
  BY ListIsWholeInvariance
<1>6. EntryPathsTypeOK /\ WalkInvariant /\ ListIsWhole /\ NamesAreTidy /\ EntriesPlaced /\ [Next]_vars
      => EntriesPlaced'
  BY PlacedInvariance
<1>7. EntryPathsTypeOK /\ ListIsWhole /\ NamesAreTidy /\ EntriesPlaced => EveryEntryIsInItsPlace
  <2> SUFFICES ASSUME EntryPathsTypeOK, ListIsWhole, NamesAreTidy, EntriesPlaced,
                      pc = "done", entry > 0, errors = {}, exchanged = {}, NEW i \in DOMAIN list
               PROVE  LET real == RealPath(fs, dest)
                          place == real.path \o Components(list[i])
                      IN /\ real.error = "none"
                         /\ Lookup(fs, place) # 0
                         /\ fs[Lookup(fs, place)] = File(i)
    BY DEF EveryEntryIsInItsPlace
  <2>1. list[i] \in Names /\ list[i] \in Range(list) /\ ~ failed /\ i < entry
    BY DEF EntryPathsTypeOK, ListIsWhole, Range
  <2>2. Parts(list[i]) = Components(list[i])
    BY <2>1, PartsAre DEF NamesAreTidy
  <2>3. InPlace(fs, i)
    BY <2>1 DEF EntriesPlaced
  <2> QED
    BY <2>2, <2>3 DEF InPlace, Leads
<1> QED
  BY <1>1, <1>2, <1>3, <1>4, <1>5, <1>6, <1>7, EntryPathsTypeCorrect, PTL DEF Spec
=============================================================================
