--------------------------- MODULE Archives_proof ----------------------------
(***************************************************************************)
(* Proofs about DiskImage and ArchiveCalls.  A target shows the archived    *)
(* image, whatever was torn, failed or killed, and a restore says what it   *)
(* did: what was written is a prefix of the blocks that the test read.  An  *)
(* archive that a backup returned OK for restores to what was read: every   *)
(* frame written so far is read back as its block, and the hash over the    *)
(* blocks is that of the image.  What is extracted from an archive of any   *)
(* layout is what was archived, whatever one damage did to it: an archive   *)
(* that opens has the header, the footer and the index that were written,   *)
(* and the hashes in the index tell the rest.  In the other direction, what *)
(* was written opens with its secret and is read back, and a damaged block  *)
(* costs only the files that hold it.  The first lemmas say what flattening *)
(* makes of a prefix.                                                       *)
(***************************************************************************)
EXTENDS DiskImage, ArchiveCalls, FiniteSetTheorems, TLAPS

-----------------------------------------------------------------------------
(* Induction *)

\* A set that holds 0 and with each number the next holds all numbers: the least
\* interval that ends outside would be a minimal one.
LEMMA Induction ==
  ASSUME NEW T, 0 \in T, \A k \in Nat : k \in T => k + 1 \in T
  PROVE  Nat \subseteq T
<1> DEFINE R == StrictSubsetOrdering(Nat)
           Missed == {0 .. k : k \in Nat \ T}
<1>1. IsWellFoundedOn(R, FiniteSubsetsOf(Nat))
  BY FS_StrictSubsetOrderingWellFounded
<1>2. Missed \subseteq FiniteSubsetsOf(Nat)
  <2>1. \A k \in Nat : IsFiniteSet(0 .. k) /\ 0 .. k \in SUBSET Nat
    BY FS_Interval
  <2> QED
    BY <2>1 DEF FiniteSubsetsOf
<1>3. SUFFICES ASSUME Missed # {} PROVE FALSE
  OBVIOUS
<1>4. \A k \in Nat : k > 0 => << 0 .. k - 1, 0 .. k >> \in R
  <2> TAKE k \in Nat
  <2> HAVE k > 0
  <2>1. 0 .. k - 1 \subseteq 0 .. k /\ 0 .. k \subseteq Nat /\ 0 .. k - 1 \subseteq Nat
    OBVIOUS
  <2>2. k \in 0 .. k /\ k \notin 0 .. k - 1
    OBVIOUS
  <2>3. 0 .. k - 1 # 0 .. k
    BY <2>2
  <2> QED
    BY <2>1, <2>3 DEF StrictSubsetOrdering
<1> HIDE DEF R
<1>5. PICK low \in Missed : \A y \in Missed : ~ (<< y, low >> \in R)
  <2> HIDE DEF Missed
  <2> QED
    BY <1>1, <1>2, <1>3, WFMin
<1>6. PICK x \in Nat \ T : low = 0 .. x
  OBVIOUS
<1>7. x > 0 /\ x - 1 \in Nat /\ x = (x - 1) + 1
  OBVIOUS
<1>8. x - 1 \notin T
  BY <1>7
<1>9. 0 .. x - 1 \in Missed
  BY <1>7, <1>8
<1>10. << 0 .. x - 1, low >> \in R
  BY <1>4, <1>6, <1>7
<1> QED
  BY <1>5, <1>9, <1>10

\* The same up to a bound.
LEMMA BoundedInduction ==
  ASSUME NEW n \in Nat, NEW T, 0 \in T, \A k \in 0 .. n - 1 : k \in T => k + 1 \in T
  PROVE  \A k \in 0 .. n : k \in T
<1> DEFINE S == {k \in Nat : k <= n => k \in T}
<1>1. 0 \in S
  OBVIOUS
<1>2. \A k \in Nat : k \in S => k + 1 \in S
  OBVIOUS
<1>3. Nat \subseteq S
  <2> HIDE DEF S
  <2> QED
    BY <1>1, <1>2, Induction
<1> QED
  BY <1>3

-----------------------------------------------------------------------------
(* Sequences *)

LEMMA IsSequenceInSeq ==
  ASSUME NEW s, IsSequence(s)
  PROVE  s \in Seq(Range(s)) /\ DOMAIN s = 1 .. Len(s) /\ \A i \in 1 .. Len(s) : s[i] \in Range(s)
<1>1. DOMAIN s = 1 .. Len(s)
  BY DEF IsSequence
<1>2. \A i \in 1 .. Len(s) : s[i] \in Range(s)
  BY <1>1 DEF Range
<1>3. s \in [1 .. Len(s) -> Range(s)]
  BY <1>2 DEF IsSequence
<1>4. QED
  BY <1>1, <1>2, <1>3 DEF IsSequence

LEMMA SeqIsSequence ==
  ASSUME NEW S, NEW s \in Seq(S)
  PROVE  IsSequence(s)
  BY DEF IsSequence

LEMMA Prefix ==
  ASSUME NEW S, NEW s \in Seq(S), NEW k \in 0 .. Len(s)
  PROVE  /\ SubSeq(s, 1, k) \in Seq(S)
         /\ Len(SubSeq(s, 1, k)) = k
         /\ \A i \in 1 .. k : SubSeq(s, 1, k)[i] = s[i]
  OBVIOUS

LEMMA PrefixGrows ==
  ASSUME NEW S, NEW s \in Seq(S), NEW k \in 0 .. Len(s) - 1
  PROVE  SubSeq(s, 1, k + 1) = Append(SubSeq(s, 1, k), s[k + 1]) /\ s[k + 1] \in S
  OBVIOUS

LEMMA PrefixOfMore ==
  ASSUME NEW S, NEW P \in Seq(S), NEW Q \in Seq(S), NEW R \in Seq(S),
         Len(P) <= Len(Q), P = SubSeq(Q, 1, Len(P))
  PROVE  Len(P) <= Len(Q \o R) /\ P = SubSeq(Q \o R, 1, Len(P))
  OBVIOUS

LEMMA WholePrefix ==
  ASSUME NEW S, NEW s \in Seq(S)
  PROVE  SubSeq(s, 1, Len(s)) = s
  OBVIOUS

LEMMA Appended ==
  ASSUME NEW S, NEW s \in Seq(S), NEW x \in S
  PROVE  /\ Append(s, x) \in Seq(S)
         /\ Len(Append(s, x)) = Len(s) + 1
         /\ Append(s, x)[Len(s) + 1] = x
         /\ SubSeq(Append(s, x), 1, Len(s)) = s
  OBVIOUS

-----------------------------------------------------------------------------
(* Flattening *)

\* The recursive function of FlattenSeq.
Flattens(f, s) ==
  f = [i \in 1 .. Len(s) |-> IF i = 1 THEN s[1] ELSE f[i - 1] \o s[i]]

LEMMA FlattenExists ==
  ASSUME NEW S, NEW s \in Seq(Seq(S))
  PROVE  \E f \in [1 .. Len(s) -> Seq(S)] : Flattens(f, s)
<1> DEFINE Good(m, f) == \A i \in 1 .. m : f[i] = IF i = 1 THEN s[1] ELSE f[i - 1] \o s[i]
           T == {m \in Nat : \E f \in [1 .. m -> Seq(S)] : Good(m, f)}
<1>0. Len(s) \in Nat /\ \A i \in 1 .. Len(s) : s[i] \in Seq(S)
  OBVIOUS
<1>1. 0 \in T
  <2>1. [i \in 1 .. 0 |-> << >>] \in [1 .. 0 -> Seq(S)] /\ Good(0, [i \in 1 .. 0 |-> << >>])
    OBVIOUS
  <2>2. QED
    BY <2>1
<1>2. ASSUME NEW m \in 0 .. Len(s) - 1, m \in T
      PROVE  m + 1 \in T
  <2>1. PICK f \in [1 .. m -> Seq(S)] : Good(m, f)
    BY <1>2
  <2> DEFINE new == IF m = 0 THEN s[1] ELSE f[m] \o s[m + 1]
             g == [i \in 1 .. m + 1 |-> IF i = m + 1 THEN new ELSE f[i]]
  <2>2. m \in Nat /\ m + 1 \in 1 .. Len(s) /\ (m # 0 => f[m] \in Seq(S))
    BY <1>0
  <2>3. new \in Seq(S)
    <3>1. CASE m = 0
      BY <1>0, <2>2, <3>1
    <3>2. CASE m # 0
      <4>1. f[m] \in Seq(S) /\ s[m + 1] \in Seq(S)
        BY <1>0, <2>2, <3>2
      <4>2. QED
        BY <3>2, <4>1
    <3>3. QED
      BY <3>1, <3>2
  <2> HIDE DEF new
  <2>4. g \in [1 .. m + 1 -> Seq(S)]
    BY <2>2, <2>3
  <2>5. ASSUME NEW i \in 1 .. m + 1 PROVE g[i] = IF i = 1 THEN s[1] ELSE g[i - 1] \o s[i]
    <3>1. CASE i = m + 1
      <4>1. i # 1 => g[i - 1] = f[m]
        BY <2>2, <3>1
      <4>2. QED
        BY <2>2, <3>1, <4>1 DEF new
    <3>2. CASE i # m + 1
      <4>1. i \in 1 .. m /\ g[i] = f[i] /\ (i # 1 => g[i - 1] = f[i - 1])
        BY <2>2, <3>2
      <4>2. QED
        BY <2>1, <4>1
    <3>3. QED
      BY <3>1, <3>2
  <2> HIDE DEF g
  <2>6. Good(m + 1, g)
    BY <2>5
  <2> HIDE DEF Good
  <2>7. QED
    BY <2>2, <2>4, <2>6
<1>3. Len(s) \in T
  <2> HIDE DEF T
  <2>1. \A k \in 0 .. Len(s) : k \in T
    BY <1>0, <1>1, <1>2, BoundedInduction
  <2>2. QED
    BY <1>0, <2>1
<1>4. PICK f \in [1 .. Len(s) -> Seq(S)] : Good(Len(s), f)
  BY <1>3
<1>5. f = [i \in 1 .. Len(s) |-> f[i]]
  OBVIOUS
<1>6. f = [i \in 1 .. Len(s) |-> IF i = 1 THEN s[1] ELSE f[i - 1] \o s[i]]
  BY <1>4, <1>5
<1>7. QED
  BY <1>6 DEF Flattens
LEMMA FlattenValue ==
  ASSUME NEW S, NEW s \in Seq(Seq(S)), s # << >>
  PROVE  \E f \in [1 .. Len(s) -> Seq(S)] : Flattens(f, s) /\ FlattenSeq(s) = f[Len(s)]
<1> DEFINE C == CHOOSE f : f = [i \in 1 .. Len(s) |-> IF i = 1 THEN s[i] ELSE f[i - 1] \o s[i]]
<1>1. Len(s) # 0
  OBVIOUS
<1>2. FlattenSeq(s) = C[Len(s)]
  BY <1>1 DEF FlattenSeq
<1>3. \E f : f = [i \in 1 .. Len(s) |-> IF i = 1 THEN s[i] ELSE f[i - 1] \o s[i]]
  <2>1. PICK f : Flattens(f, s)
    BY FlattenExists
  <2>2. [i \in 1 .. Len(s) |-> IF i = 1 THEN s[1] ELSE f[i - 1] \o s[i]]
        = [i \in 1 .. Len(s) |-> IF i = 1 THEN s[i] ELSE f[i - 1] \o s[i]]
    OBVIOUS
  <2>3. QED
    BY <2>1, <2>2 DEF Flattens
<1>4. C = [i \in 1 .. Len(s) |-> IF i = 1 THEN s[i] ELSE C[i - 1] \o s[i]]
  BY <1>3
<1> HIDE DEF C
<1>5. \A i \in 1 .. Len(s) : C[i] = IF i = 1 THEN s[1] ELSE C[i - 1] \o s[i]
  BY <1>4
<1> DEFINE T == {k \in Nat : k = 0 \/ C[k] \in Seq(S)}
<1>6. 0 \in T
  OBVIOUS
<1>7. ASSUME NEW k \in 0 .. Len(s) - 1, k \in T
      PROVE  k + 1 \in T
  <2>1. s[k + 1] \in Seq(S) /\ k + 1 \in Nat
    OBVIOUS
  <2>2. CASE k = 0
    BY <1>5, <2>1, <2>2
  <2>3. CASE k # 0
    <3>1. C[k + 1] = C[k] \o s[k + 1]
      <4>1. k + 1 \in 1 .. Len(s) /\ k + 1 # 1 /\ (k + 1) - 1 = k
        BY <2>3
      <4>2. QED
        BY <1>5, <4>1
    <3>2. C[k] \in Seq(S)
      BY <1>7, <2>3
    <3>3. C[k + 1] \in Seq(S)
      BY <2>1, <3>1, <3>2
    <3>4. QED
      BY <2>1, <3>3
  <2>4. QED
    BY <2>2, <2>3
<1>8. \A k \in 1 .. Len(s) : C[k] \in Seq(S)
  <2> HIDE DEF T
  <2>0. Len(s) \in Nat
    OBVIOUS
  <2>1. \A k \in 0 .. Len(s) : k \in T
    BY <1>6, <1>7, <2>0, BoundedInduction
  <2>2. QED
    BY <2>1 DEF T
<1>9. C = [i \in 1 .. Len(s) |-> C[i]]
  BY <1>4
<1>10. C \in [1 .. Len(s) -> Seq(S)]
  BY <1>8, <1>9
<1>11. Flattens(C, s)
  <2>1. [i \in 1 .. Len(s) |-> IF i = 1 THEN s[1] ELSE C[i - 1] \o s[i]]
        = [i \in 1 .. Len(s) |-> IF i = 1 THEN s[i] ELSE C[i - 1] \o s[i]]
    OBVIOUS
  <2>2. QED
    BY <1>4, <2>1 DEF Flattens
<1>12. QED
  BY <1>2, <1>10, <1>11

\* The values of the recursion are what prefixes flatten to, each a prefix of the
\* last one.
LEMMA FlattenPrefixValue ==
  ASSUME NEW S, NEW s \in Seq(Seq(S)), NEW f \in [1 .. Len(s) -> Seq(S)], Flattens(f, s),
         NEW k \in 1 .. Len(s)
  PROVE  FlattenSeq(SubSeq(s, 1, k)) = f[k]
<1> DEFINE p == SubSeq(s, 1, k)
<1>0. k \in Nat /\ k \in 0 .. Len(s) /\ k # 0 /\ \A i \in 1 .. k : i \in 1 .. Len(s)
  OBVIOUS
<1>1. p \in Seq(Seq(S)) /\ Len(p) = k /\ p # << >> /\ \A i \in 1 .. k : p[i] = s[i]
  <2>1. p \in Seq(Seq(S)) /\ Len(p) = k /\ \A i \in 1 .. k : p[i] = s[i]
    BY <1>0, Prefix
  <2>2. QED
    BY <1>0, <2>1
<1> HIDE DEF p
<1>2. PICK g \in [1 .. k -> Seq(S)] : Flattens(g, p) /\ FlattenSeq(p) = g[k]
  BY <1>1, FlattenValue
<1>3. \A i \in 1 .. k : g[i] = IF i = 1 THEN s[1] ELSE g[i - 1] \o s[i]
  <2>1. \A i \in 1 .. k : g[i] = IF i = 1 THEN p[1] ELSE g[i - 1] \o p[i]
    BY <1>1, <1>2 DEF Flattens
  <2>2. QED
    BY <1>1, <2>1
<1>4. \A i \in 1 .. k : f[i] = IF i = 1 THEN s[1] ELSE f[i - 1] \o s[i]
  <2>1. \A i \in 1 .. Len(s) : f[i] = IF i = 1 THEN s[1] ELSE f[i - 1] \o s[i]
    BY DEF Flattens
  <2>2. QED
    BY <1>0, <2>1
<1> DEFINE T == {i \in Nat : i = 0 \/ g[i] = f[i]}
<1>5. 0 \in T
  OBVIOUS
<1>6. ASSUME NEW i \in 0 .. k - 1, i \in T
      PROVE  i + 1 \in T
  <2>1. i + 1 \in 1 .. k /\ (i + 1) - 1 = i /\ i + 1 \in Nat
    BY <1>0
  <2>2. CASE i = 0
    <3>1. g[i + 1] = s[1] /\ f[i + 1] = s[1]
      <4>0. 1 \in 1 .. k
        BY <1>0
      <4>1. g[1] = s[1]
        BY <1>3, <4>0
      <4>2. f[1] = s[1]
        BY <1>4, <4>0
      <4>3. QED
        BY <2>2, <4>1, <4>2
    <3>2. QED
      BY <2>1, <3>1
  <2>3. CASE i # 0
    <3>1. g[i] = f[i]
      BY <1>6, <2>3
    <3>2. i + 1 # 1
      BY <2>1, <2>3
    <3>3. g[i + 1] = g[i] \o s[i + 1]
      BY <1>3, <2>1, <3>2
    <3>4. f[i + 1] = f[i] \o s[i + 1]
      BY <1>4, <2>1, <3>2
    <3>5. QED
      BY <2>1, <3>1, <3>3, <3>4
  <2>4. QED
    BY <2>2, <2>3
<1>7. g[k] = f[k]
  <2> HIDE DEF T
  <2>1. \A i \in 0 .. k : i \in T
    BY <1>0, <1>5, <1>6, BoundedInduction
  <2>2. QED
    BY <1>0, <2>1 DEF T
<1>8. QED
  BY <1>2, <1>7 DEF p

LEMMA FlattenEmpty == FlattenSeq(<< >>) = << >>
  BY DEF FlattenSeq

LEMMA FlattenType ==
  ASSUME NEW S, NEW s \in Seq(Seq(S))
  PROVE  FlattenSeq(s) \in Seq(S)
<1>1. CASE s = << >>
  <2>1. << >> \in Seq(S)
    OBVIOUS
  <2>2. QED
    BY <1>1, <2>1, FlattenEmpty
<1>2. CASE s # << >>
  <2>1. PICK f \in [1 .. Len(s) -> Seq(S)] : FlattenSeq(s) = f[Len(s)]
    BY <1>2, FlattenValue
  <2>2. Len(s) \in 1 .. Len(s)
    BY <1>2
  <2>3. QED
    BY <2>1, <2>2
<1>3. QED
  BY <1>1, <1>2

LEMMA FlattenAppend ==
  ASSUME NEW S, NEW s \in Seq(Seq(S)), NEW x \in Seq(S)
  PROVE  FlattenSeq(Append(s, x)) = FlattenSeq(s) \o x
<1> DEFINE t == Append(s, x)
           n == Len(s)
<1>1. /\ t \in Seq(Seq(S)) /\ Len(t) = n + 1 /\ t # << >> /\ t[n + 1] = x
      /\ n \in Nat /\ SubSeq(t, 1, n) = s
  <2>1. n \in Nat
    OBVIOUS
  <2>2. t \in Seq(Seq(S)) /\ Len(t) = n + 1 /\ t[n + 1] = x /\ SubSeq(t, 1, n) = s
    BY Appended
  <2>3. QED
    BY <2>1, <2>2
<1> HIDE DEF t, n
<1>2. PICK f \in [1 .. n + 1 -> Seq(S)] : Flattens(f, t) /\ FlattenSeq(t) = f[n + 1]
  BY <1>1, FlattenValue
<1>3. f[n + 1] = IF n + 1 = 1 THEN t[1] ELSE f[n] \o t[n + 1]
  <2>1. \A i \in 1 .. n + 1 : f[i] = IF i = 1 THEN t[1] ELSE f[i - 1] \o t[i]
    BY <1>1, <1>2 DEF Flattens
  <2>2. n + 1 \in 1 .. n + 1 /\ (n + 1) - 1 = n
    BY <1>1
  <2>3. QED
    BY <2>1, <2>2
<1>4. CASE n = 0
  <2>1. s = << >>
    BY <1>4 DEF n
  <2>2. FlattenSeq(s) \o x = x
    BY <2>1, FlattenEmpty
  <2>3. QED
    BY <1>1, <1>2, <1>3, <1>4, <2>2 DEF t
<1>5. CASE n # 0
  <2>1. f[n] = FlattenSeq(s)
    <3>1. n \in 1 .. Len(t)
      BY <1>1, <1>5
    <3>2. f \in [1 .. Len(t) -> Seq(S)]
      BY <1>1, <1>2, Zenon
    <3>3. t \in Seq(Seq(S)) /\ Flattens(f, t)
      BY <1>1, <1>2
    <3>4. FlattenSeq(SubSeq(t, 1, n)) = f[n]
      BY <3>1, <3>2, <3>3, FlattenPrefixValue, Zenon
    <3>5. QED
      BY <1>1, <3>4
  <2>2. QED
    BY <1>1, <1>2, <1>3, <1>5, <2>1 DEF t
<1>6. QED
  BY <1>4, <1>5

LEMMA FlattenPrefix ==
  ASSUME NEW S, NEW s \in Seq(Seq(S)), NEW k \in 0 .. Len(s)
  PROVE  LET part == FlattenSeq(SubSeq(s, 1, k))
             all == FlattenSeq(s)
         IN /\ part \in Seq(S) /\ all \in Seq(S)
            /\ Len(part) <= Len(all)
            /\ part = SubSeq(all, 1, Len(part))
<1> DEFINE part(j) == FlattenSeq(SubSeq(s, 1, j))
           T == {j \in Nat : j <= Len(s) - k =>
                   /\ Len(part(k)) <= Len(part(k + j))
                   /\ part(k) = SubSeq(part(k + j), 1, Len(part(k)))}
<1>1. ASSUME NEW j \in 0 .. Len(s)
      PROVE  SubSeq(s, 1, j) \in Seq(Seq(S)) /\ part(j) \in Seq(S)
  <2>1. SubSeq(s, 1, j) \in Seq(Seq(S))
    BY Prefix
  <2>2. QED
    BY <2>1, FlattenType
<1>2. ASSUME NEW j \in 0 .. Len(s) - 1
      PROVE  part(j + 1) = part(j) \o s[j + 1] /\ s[j + 1] \in Seq(S)
  <2>1. SubSeq(s, 1, j + 1) = Append(SubSeq(s, 1, j), s[j + 1]) /\ s[j + 1] \in Seq(S)
    BY PrefixGrows
  <2>2. SubSeq(s, 1, j) \in Seq(Seq(S))
    BY <1>1
  <2>3. QED
    BY <2>1, <2>2, FlattenAppend
<1>3. part(Len(s)) = FlattenSeq(s)
  BY WholePrefix
<1> HIDE DEF part
<1>4. 0 \in T
  <2>1. part(k) \in Seq(S)
    BY <1>1
  <2>2. QED
    BY <2>1
<1>5. ASSUME NEW j \in 0 .. Len(s) - k - 1, j \in T
      PROVE  j + 1 \in T
  <2>1. k + j \in 0 .. Len(s) - 1 /\ (k + j) + 1 = k + (j + 1)
    OBVIOUS
  <2>2. part(k + (j + 1)) = part(k + j) \o s[(k + j) + 1] /\ s[(k + j) + 1] \in Seq(S)
    BY <1>2, <2>1
  <2>3. part(k) \in Seq(S) /\ part(k + j) \in Seq(S)
    BY <1>1, <2>1
  <2>4. Len(part(k)) <= Len(part(k + j)) /\ part(k) = SubSeq(part(k + j), 1, Len(part(k)))
    BY <1>5
  <2>5. \A P \in Seq(S), Q \in Seq(S), R \in Seq(S) :
          Len(P) <= Len(Q) /\ P = SubSeq(Q, 1, Len(P)) =>
            Len(P) <= Len(Q \o R) /\ P = SubSeq(Q \o R, 1, Len(P))
    BY PrefixOfMore
  <2>6. /\ Len(part(k)) <= Len(part(k + (j + 1)))
        /\ part(k) = SubSeq(part(k + (j + 1)), 1, Len(part(k)))
    <3> DEFINE P == part(k)
               Q == part(k + j)
               R == s[(k + j) + 1]
    <3>1. P \in Seq(S) /\ Q \in Seq(S) /\ R \in Seq(S)
      BY <2>2, <2>3
    <3>2. Len(P) <= Len(Q) /\ P = SubSeq(Q, 1, Len(P))
      BY <2>4
    <3>3. part(k + (j + 1)) = Q \o R
      BY <2>2
    <3> HIDE DEF P, Q, R
    <3>4. Len(P) <= Len(Q \o R) /\ P = SubSeq(Q \o R, 1, Len(P))
      BY <2>5, <3>1, <3>2
    <3>5. QED
      BY <3>3, <3>4 DEF P
  <2>7. j + 1 \in Nat
    OBVIOUS
  <2>8. QED
    BY <2>6, <2>7
<1>6. Len(s) - k \in T
  <2> HIDE DEF T
  <2>1. Len(s) - k \in Nat
    OBVIOUS
  <2>2. \A j \in 0 .. Len(s) - k : j \in T
    BY <1>4, <1>5, <2>1, BoundedInduction
  <2>3. QED
    BY <2>1, <2>2
<1>7. Len(part(k)) <= Len(part(Len(s))) /\ part(k) = SubSeq(part(Len(s)), 1, Len(part(k)))
  BY <1>6
<1>8. part(k) \in Seq(S) /\ part(Len(s)) \in Seq(S)
  BY <1>1
<1>9. QED
  BY <1>3, <1>7, <1>8 DEF part
-----------------------------------------------------------------------------
(* What the test of an archive has read *)

UnitsOf(a) == UNION {Range(a.frames[i].pay.data) : i \in DOMAIN a.frames}

LEMMA DecodedIsSequence ==
  ASSUME NEW frame, IsFrame(frame), NEW key, NEW seq, NEW aad,
         BlockError(frame, key, seq, aad) = "OK"
  PROVE  Decoded(frame) \in Seq(Range(frame.pay.data)) /\ Len(Decoded(frame)) = frame.size
<1> DEFINE d == frame.pay.data
           n == frame.size
<1>1. d \in Seq(Range(d)) /\ n \in Nat
  BY IsSequenceInSeq DEF IsFrame
<1>2. ContentError(frame) = "OK"
  BY DEF BlockError, ??
<1>3. n <= Len(d)
  <2>1. CASE n = 0
    BY <1>1, <2>1
  <2>2. CASE n # 0
    <3>1. DecodeError(frame) = "OK"
      BY <1>2, <2>2 DEF ContentError, ??
    <3>2. Len(d) >= n \/ Len(d) = n
      BY <3>1 DEF DecodeError, Check, ??
    <3>3. QED
      BY <1>1, <3>2
  <2>3. QED
    BY <2>1, <2>2
<1>4. Decoded(frame) = SubSeq(d, 1, n)
  BY DEF Decoded
<1> HIDE DEF d, n
<1>5. n \in 0 .. Len(d)
  BY <1>1, <1>3
<1>6. SubSeq(d, 1, n) \in Seq(Range(d)) /\ Len(SubSeq(d, 1, n)) = n
  BY <1>1, <1>5, Prefix
<1>7. QED
  BY <1>4, <1>6 DEF d, n

\* The same in an archive, whose frames have their units in common.
LEMMA DecodedHasUnits ==
  ASSUME NEW a, IsArchive(a), NEW place, ReadError(a, place) = "OK",
         NEW key, NEW seq, NEW aad, BlockError(a.frames[place], key, seq, aad) = "OK"
  PROVE  Decoded(a.frames[place]) \in Seq(UnitsOf(a))
<1>1. place \in DOMAIN a.frames
  BY DEF ReadError, Check, ??
<1>2. IsFrame(a.frames[place]) /\ Range(a.frames[place].pay.data) \subseteq UnitsOf(a)
  BY <1>1 DEF IsArchive, UnitsOf
<1>3. Decoded(a.frames[place]) \in Seq(Range(a.frames[place].pay.data))
  BY <1>2, DecodedIsSequence
<1>4. \A S, T : S \subseteq T => Seq(S) \subseteq Seq(T)
  OBVIOUS
<1>5. QED
  BY <1>2, <1>3, <1>4

LEMMA BlockHasUnits ==
  ASSUME NEW a, IsArchive(a), NEW entry, NEW i, NEW b, NEW key,
         Block(a, entry, i, b, key).error = "OK"
  PROVE  Block(a, entry, i, b, key).data \in Seq(UnitsOf(a))
<1> DEFINE place == entry.offset + b
           frame == a.frames[place]
           seq == ReaderSeq(a.header.flags, i, b)
           data == Block(a, entry, i, b, key).data
<1>1. ReadError(a, place) = "OK"
  BY DEF Block, Result, ??
<1>2. CASE frame.type = "DATA"
  <2>1. BlockError(frame, key, seq, Aad(a)) = "OK"
    BY <1>2, <1>1 DEF Block, Result, ??
  <2>2. data = Decoded(frame)
    BY <1>2 DEF Block, Result
  <2>3. QED
    BY <1>1, <2>1, <2>2, DecodedHasUnits
<1>3. CASE frame.type # "DATA"
  <2>1. frame.type = "DEDUP_REF" /\ TargetError(a, entry, place, key) = "OK"
    BY <1>1, <1>3 DEF Block, Result, ??
  <2> DEFINE offset == frame.pay.data[1]
  <2>2. /\ ReadError(a, offset) = "OK"
        /\ BlockError(a.frames[offset], key, TargetSeq(a, entry, frame), Aad(a)) = "OK"
    BY <2>1 DEF TargetError, ??
  <2>3. data = Decoded(a.frames[offset])
    BY <1>3 DEF Block, Result
  <2>4. QED
    BY <2>2, <2>3, DecodedHasUnits
<1>4. QED
  BY <1>2, <1>3

\* A set of numbers that is not empty has a least one.
LEMMA MinIsLeast ==
  ASSUME NEW I \in SUBSET Nat, I # {}
  PROVE  Min(I) \in I /\ \A y \in I : Min(I) <= y
<1> DEFINE T == {k \in Nat : \A y \in I : y > k}
<1>1. \E x \in I : \A y \in I : x <= y
  <2> SUFFICES ASSUME ~ \E x \in I : \A y \in I : x <= y PROVE FALSE
    OBVIOUS
  <2>1. 0 \in T
    <3>1. 0 \notin I
      OBVIOUS
    <3>2. QED
      BY <3>1
  <2>2. ASSUME NEW k \in Nat, k \in T PROVE k + 1 \in T
    <3>1. \A y \in I : y >= k + 1
      BY <2>2
    <3>2. k + 1 \notin I
      BY <3>1
    <3>3. QED
      BY <3>1, <3>2
  <2>3. Nat \subseteq T
    <3> HIDE DEF T
    <3>1. QED
      BY <2>1, <2>2, Induction
  <2>4. PICK x \in I : TRUE
    OBVIOUS
  <2>5. QED
    BY <2>3, <2>4
<1>2. QED
  BY <1>1 DEF Min

LEMMA NoFirstError ==
  ASSUME NEW n \in Nat, NEW faults, faults = [i \in 1 .. n |-> faults[i]],
         FirstError(faults) = "OK"
  PROVE  \A i \in 1 .. n : faults[i] = "OK"
<1> DEFINE I == {i \in 1 .. Len(faults) : faults[i] # "OK"}
<1>1. Len(faults) = n
  OBVIOUS
<1>2. SUFFICES ASSUME I # {} PROVE FALSE
  BY <1>1
<1>3. SelectInSeq(faults, LAMBDA e : e # "OK") = Min(I)
  BY <1>2 DEF SelectInSeq
<1>4. Min(I) \in I
  <2>1. I \in SUBSET Nat
    BY <1>1
  <2> HIDE DEF I
  <2>2. QED
    BY <1>2, <2>1, MinIsLeast
<1>5. Min(I) # 0
  BY <1>1, <1>4
<1>6. faults[Min(I)] = "OK"
  BY <1>3, <1>5 DEF FirstError
<1>7. QED
  BY <1>4, <1>6
\* The index of an archive that opens.
LEMMA EntriesAreASequence ==
  ASSUME NEW a, IsArchive(a), NEW r, OpenError(a, r) = "OK"
  PROVE  Entries(a) \in Seq(UnitsOf(a))
<1> DEFINE frame == a.frames[a.footer.index]
           key == IF OldDisk(a) THEN NoKey ELSE KeyOf(a, r)
<1>1. IndexError(a, KeyOf(a, r)) = "OK"
  BY DEF OpenError, MetadataError, ??
<1>2. /\ ReadError(a, a.footer.index) = "OK"
      /\ BlockError(frame, key, IndexSeq, Aad(a)) = "OK"
      /\ ParseError(a, Decoded(frame)) = "OK"
  BY <1>1 DEF IndexError, ??
<1>3. Decoded(frame) \in Seq(UnitsOf(a))
  BY <1>2, DecodedHasUnits
<1>4. Decoded(frame) # << >>
  BY <1>2 DEF ParseError, Check, ??
<1>5. QED
  BY <1>3, <1>4 DEF Entries

\* All blocks of the one entry of a disk are sound, and extraction gives what
\* they make together.
LEMMA TestedDisk ==
  ASSUME NEW a, IsArchive(a), NEW r, r.quota = 0,
         OpenError(a, r) = "OK", Flag(a, "DISK_IMAGE"), Len(Entries(a)) = 1,
         Entries(a)[1].count = a.footer.total, TestArchive(a, r) = "OK"
  PROVE  /\ Chunks(a, r) \in Seq(Seq(UnitsOf(a))) /\ Len(Chunks(a, r)) = a.footer.total
         /\ Len(Whole(a, r)) = Entries(a)[1].size
         /\ HashHolds(a, Entries(a)[1], Chunks(a, r))
         /\ {f.content : f \in ExtractArchive(a, r).files} = {Whole(a, r)}
<1> DEFINE entries == Entries(a)
           entry == entries[1]
           total == a.footer.total
           key == KeyOf(a, r)
           block(b) == Block(a, entry, 1, b - 1, key)
           checked == EntryResult(a, 1, entry, key)
           results == [i \in DOMAIN entries |-> EntryResult(a, i, entries[i], key)]
<1>1. total \in Nat
  BY DEF IsArchive, IsFooter
<1>2. DOMAIN entries = {1}
  <2>1. entries \in Seq(UnitsOf(a))
    BY EntriesAreASequence
  <2>2. DOMAIN entries = 1 .. 1
    BY <2>1
  <2>3. QED
    BY <2>2
<1>3. ~ Flag(a, "SOLID")
  BY DEF IsArchive, Flag
<1>4. AadMapError(a, entries) = "OK" /\ ~ Failed(results)
  <2>1. Contents(a, r, FALSE).error = "OK" /\ ~ Failed(Contents(a, r, FALSE).entries)
    BY DEF TestArchive, Check, ??
  <2>2. Contents(a, r, FALSE).error = AadMapError(a, entries)
    BY <1>3 DEF Contents
  <2>3. Contents(a, r, FALSE).entries = results
    BY <1>3, <2>1, <2>2 DEF Contents
  <2>4. QED
    BY <2>1, <2>2, <2>3
<1>5. checked.error = "OK"
  BY <1>2, <1>4 DEF Failed
<1>6. Chunks(a, r) = [b \in 1 .. total |-> block(b).data]
  BY DEF Chunks
<1>7. /\ FirstError([b \in 1 .. total |-> block(b).error]) = "OK"
      /\ Len(Whole(a, r)) = entry.size /\ HashHolds(a, entry, Chunks(a, r))
      /\ checked.data = Whole(a, r)
  <2> DEFINE blocks == [b \in 1 .. total |-> block(b)]
             parts == [b \in DOMAIN blocks |-> blocks[b].data]
             faults == [b \in DOMAIN blocks |-> blocks[b].error]
  <2>1. checked = Result(FirstError(faults)
                        ?? Check(Len(FlattenSeq(parts)) = entry.size /\ HashHolds(a, entry, parts),
                                 "BAD_CHECKSUM"),
                        FlattenSeq(parts))
    BY DEF EntryResult
  <2>2. parts = Chunks(a, r) /\ faults = [b \in 1 .. total |-> block(b).error]
    BY <1>6
  <2> HIDE DEF parts, faults, checked
  <2>3. FlattenSeq(parts) = Whole(a, r)
    BY <2>2 DEF Whole
  <2>4. FirstError(faults) = "OK" /\ Len(FlattenSeq(parts)) = entry.size
        /\ HashHolds(a, entry, parts)
    BY <1>5, <2>1 DEF Result, Check, ??
  <2>5. checked.data = FlattenSeq(parts)
    BY <2>1 DEF Result
  <2>6. QED
    BY <2>2, <2>3, <2>4, <2>5
<1>8. \A b \in 1 .. total : block(b).error = "OK"
  <2> DEFINE faults == [b \in 1 .. total |-> block(b).error]
  <2>1. faults = [b \in 1 .. total |-> faults[b]]
    OBVIOUS
  <2>2. \A b \in 1 .. total : faults[b] = block(b).error
    OBVIOUS
  <2>3. FirstError(faults) = "OK"
    BY <1>7
  <2> HIDE DEF faults
  <2>4. \A b \in 1 .. total : faults[b] = "OK"
    BY <1>1, <2>1, <2>3, NoFirstError
  <2>5. QED
    BY <2>2, <2>4
<1>9. \A b \in 1 .. total : block(b).data \in Seq(UnitsOf(a))
  BY <1>8, BlockHasUnits
<1>10. Chunks(a, r) \in Seq(Seq(UnitsOf(a))) /\ Len(Chunks(a, r)) = total
  <2> HIDE DEF block
  <2>1. Chunks(a, r) \in [1 .. total -> Seq(UnitsOf(a))]
    BY <1>6, <1>9
  <2>2. QED
    BY <1>1, <2>1
<1>11. {f.content : f \in ExtractArchive(a, r).files} = {Whole(a, r)}
  <2>1. OpenError(a, r) ?? QuotaError(a, r) = "OK"
    BY DEF QuotaError, Check, ??
  <2>2. Contents(a, r, TRUE).error = AadMapError(a, entries)
    BY <1>3 DEF Contents
  <2>3. Contents(a, r, TRUE).entries = results
    BY <1>3, <1>4, <2>2 DEF Contents
  <2>4. ExtractArchive(a, r).files = Extracted(entries, results)
    BY <2>1, <2>3 DEF ExtractArchive
  <2> DEFINE file == [path |-> entry.path, content |-> Whole(a, r)]
  <2>5. Extracted(entries, results) = {file}
    <3>1. {j \in DOMAIN results : results[j].error = "OK"} = {1}
      BY <1>2, <1>5
    <3>2. results[1].data = Whole(a, r)
      BY <1>2, <1>7
    <3> HIDE DEF results
    <3>3. Extracted(entries, results)
          = {[path |-> entries[i].path, content |-> results[i].data] : i \in {1}}
      BY <3>1 DEF Extracted
    <3>4. QED
      BY <3>2, <3>3
  <2>6. file.content = Whole(a, r)
    OBVIOUS
  <2> HIDE DEF file
  <2>7. {f.content : f \in {file}} = {file.content}
    OBVIOUS
  <2>8. QED
    BY <2>4, <2>5, <2>6, <2>7
<1>12. QED
  BY <1>7, <1>10, <1>11
-----------------------------------------------------------------------------
(* Types *)

IsFrameRecord(f) ==
  /\ f = [intact |-> f.intact, type |-> f.type, codec |-> f.codec, sealed |-> f.sealed,
          size |-> f.size, sum |-> f.sum, pay |-> f.pay]
  /\ f.pay = [codec |-> f.pay.codec, data |-> f.pay.data, seal |-> f.pay.seal]
  /\ IsFrame(f)

LEMMA FrameType ==
  ASSUME NEW type, NEW codec, NEW data, IsSequence(data)
  PROVE  IsFrameRecord(Frame(type, codec, data))
  BY DEF Frame, IsFrameRecord, IsFrame, IsSequence

LEMMA Marked ==
  ASSUME NEW i, NEW t, NEW c, NEW s, NEW z, NEW m, NEW p, NEW f, NEW v,
         f = [intact |-> i, type |-> t, codec |-> c, sealed |-> s, size |-> z, sum |-> m, pay |-> p]
  PROVE  [f EXCEPT !.sealed = v]
         = [intact |-> i, type |-> t, codec |-> c, sealed |-> v, size |-> z, sum |-> m, pay |-> p]
  OBVIOUS

LEMMA SealType ==
  ASSUME NEW f, IsFrameRecord(f), NEW key, NEW seq, NEW aad
  PROVE  IsFrameRecord(Seal(f, key, seq, aad))
<1> DEFINE marked == [f EXCEPT !.sealed = TRUE]
           seal == [key |-> key, seq |-> seq, preface |-> IF aad THEN Preface(marked) ELSE << >>]
           g == [marked EXCEPT !.pay.seal = seal]
<1>1. CASE key = NoKey
  BY <1>1 DEF Seal
<1>2. CASE key # NoKey
  <2>1. Seal(f, key, seq, aad) = g
    BY <1>2 DEF Seal
  <2> HIDE DEF seal
  <2> DEFINE pay == [f.pay EXCEPT !.seal = seal]
  <2>0. \A v : [f EXCEPT !.sealed = v]
               = [intact |-> f.intact, type |-> f.type, codec |-> f.codec, sealed |-> v,
                  size |-> f.size, sum |-> f.sum, pay |-> f.pay]
    BY Marked DEF IsFrameRecord
  <2>a. marked = [intact |-> f.intact, type |-> f.type, codec |-> f.codec, sealed |-> TRUE,
                  size |-> f.size, sum |-> f.sum, pay |-> f.pay]
    BY <2>0, Zenon
  <2>b. pay = [codec |-> f.pay.codec, data |-> f.pay.data, seal |-> seal]
    BY DEF IsFrameRecord
  <2>c. g = [marked EXCEPT !.pay = pay]
    <3>1. marked.pay = f.pay
      BY <2>a
    <3> HIDE DEF marked
    <3>2. QED
      BY <3>1
  <2> HIDE DEF pay, marked, g
  <2>d. g = [intact |-> f.intact, type |-> f.type, codec |-> f.codec, sealed |-> TRUE,
             size |-> f.size, sum |-> f.sum, pay |-> pay]
    BY <2>a, <2>c
  <2>2. g = [intact |-> f.intact, type |-> f.type, codec |-> f.codec, sealed |-> TRUE,
             size |-> f.size, sum |-> f.sum,
             pay |-> [codec |-> f.pay.codec, data |-> f.pay.data, seal |-> seal]]
    BY <2>b, <2>d
  <2> HIDE DEF g
  <2>3. IsFrameRecord(g)
    BY <2>2 DEF IsFrameRecord, IsFrame
  <2>4. QED
    BY <2>1, <2>3
<1>3. QED
  BY <1>1, <1>2

LEMMA DataFrameType ==
  ASSUME NEW piece, IsSequence(piece.data), NEW how
  PROVE  IsFrameRecord(DataFrame(piece, how))
  BY FrameType, SealType DEF DataFrame

LEMMA RefFrameType ==
  ASSUME NEW piece, IsSequence(piece.data), NEW offset, NEW goal, NEW how
  PROVE  IsFrameRecord(RefFrame(piece, offset, goal, how))
<1> DEFINE authenticated == Encrypts(how) /\ ~ Old(how)
           payload == IF authenticated THEN << offset, goal.seq >> ELSE << offset >>
           frame == Frame("DEDUP_REF", "STORE", piece.data)
           bare == [frame EXCEPT !.codec = "STORE",
                      !.pay = [codec |-> "STORE", seal |-> NoSeal, data |-> payload]]
<1>1. IsFrameRecord(frame)
  BY FrameType
<1>2. IsSequence(payload)
  BY DEF IsSequence
<1> DEFINE plain == [frame EXCEPT !.codec = "STORE"]
           pay == [codec |-> "STORE", seal |-> NoSeal, data |-> payload]
<1>7. bare = [plain EXCEPT !.pay = pay]
  OBVIOUS
<1>8. RefFrame(piece, offset, goal, how)
      = Seal(bare, IF authenticated THEN KeyFor(how) ELSE NoKey, piece.seq, TRUE)
  BY DEF RefFrame
<1> HIDE DEF frame, payload, bare
<1>9. plain = [intact |-> frame.intact, type |-> frame.type, codec |-> "STORE",
                sealed |-> frame.sealed, size |-> frame.size, sum |-> frame.sum,
                pay |-> frame.pay]
  BY <1>1 DEF IsFrameRecord
<1> HIDE DEF plain
<1>3. bare = [intact |-> frame.intact, type |-> frame.type, codec |-> "STORE",
              sealed |-> frame.sealed, size |-> frame.size, sum |-> frame.sum,
              pay |-> [codec |-> "STORE", data |-> payload, seal |-> NoSeal]]
  BY <1>7, <1>9
<1>4. IsFrameRecord(bare)
  BY <1>1, <1>2, <1>3 DEF IsFrameRecord, IsFrame
<1>6. QED
  BY <1>4, <1>8, SealType

\* What a backup leaves is an archive.
LEMMA ClosedType ==
  ASSUME NEW frames, IsSequence(frames), \A i \in DOMAIN frames : IsFrame(frames[i]),
         NEW how \in DiskOptions, Len(frames) >= Base(how), NEW file
  PROVE  IsArchive(Closed(frames, << file >>, how))
<1> DEFINE index == IndexFrame(<< file >>, Base(how), how)
           a == Closed(frames, << file >>, how)
<1>1. how.layout = "disk"
  BY DiskAssumption
<1>2. ~ HasComment(how)
  BY <1>1 DEF HasComment, OnDisk
<1>3. IsFrame(index)
  <2> DEFINE data == IndexData(<< file >>, Base(how), how)
             bare == Frame("INDEX", IF OnDisk(how) THEN "STORE" ELSE "LZH", data)
  <2>1. IsSequence(data)
    <3> DEFINE first == << [form |-> IF Old(how) THEN "fixed" ELSE "varint", count |-> Len(<< file >>)] >>
               rest == [i \in DOMAIN << file >> |-> EntryOf(<< file >>, i, Base(how), how)]
    <3>1. DOMAIN << file >> = 1 .. 1
      OBVIOUS
    <3>2. rest \in Seq({rest[1]})
      BY <3>1
    <3>3. first \in Seq({first[1]})
      OBVIOUS
    <3>4. data = first \o rest
      BY DEF IndexData
    <3> HIDE DEF first, rest, data
    <3>5. data \in Seq({first[1], rest[1]})
      BY <3>2, <3>3, <3>4
    <3>6. QED
      BY <3>5, SeqIsSequence
  <2> HIDE DEF data
  <2>2. IsFrameRecord(bare)
    BY <2>1, FrameType
  <2>3. index = Seal(bare, IF Old(how) THEN NoKey ELSE KeyFor(how), IndexSeq, TRUE)
    BY DEF IndexFrame, data
  <2> HIDE DEF index, bare
  <2>4. IsFrameRecord(index)
    BY <2>2, <2>3, SealType
  <2>5. QED
    BY <2>4 DEF IsFrameRecord
<1>4. Len(frames) \in Nat /\ Base(how) \in Nat
  BY IsSequenceInSeq DEF IsSequence, Base
<1> DEFINE S == {frames[i] : i \in 1 .. Len(frames)} \cup {index}
<1>5. Append(frames, index) \in Seq(S) /\ \A i \in DOMAIN Append(frames, index) : IsFrame(Append(frames, index)[i])
  <2>1. frames \in Seq(S) /\ index \in S /\ DOMAIN frames = 1 .. Len(frames)
    <3>1. \A i \in 1 .. Len(frames) : frames[i] \in S
      OBVIOUS
    <3>2. frames = [i \in 1 .. Len(frames) |-> frames[i]]
      BY DEF IsSequence
    <3> HIDE DEF S, index
    <3>3. frames \in Seq(S) /\ DOMAIN frames = 1 .. Len(frames)
      BY <1>4, <3>1, <3>2
    <3>4. QED
      BY <3>3 DEF S
  <2>2. \A s \in S : IsFrame(s)
    BY <1>3, <2>1
  <2> HIDE DEF S, index
  <2>3. Append(frames, index) \in Seq(S)
    BY <2>1
  <2>4. QED
    BY <2>2, <2>3
<1> DEFINE header == [magic |-> TRUE, version |-> TRUE, flags |-> Flags(how),
                      encOffset |-> Base(how), commentOffset |-> 0]
           footer == [magic |-> TRUE, version |-> TRUE, index |-> Len(frames) + 1,
                      total |-> Len(frames) - Base(how) + 0]
<1>6. a = [header |-> header, frames |-> Append(frames, index), footer |-> footer,
           trailer |-> TrailerOf(header, footer, KeyFor(how))]
  BY <1>1, <1>2 DEF Closed
<1>7. "SOLID" \notin Flags(how)
  BY <1>1 DEF Flags, When
<1>8. footer.total \in Nat
  BY <1>4
<1>9. IsSequence(Append(frames, index))
  BY <1>5, SeqIsSequence
<1> HIDE DEF index
<1>10. a.header.flags = Flags(how) /\ a.footer = footer /\ a.frames = Append(frames, index)
  <2> HIDE DEF a
  <2>1. a.header = header /\ a.footer = footer /\ a.frames = Append(frames, index)
    BY <1>6
  <2>2. QED
    BY <2>1
<1>11. IsFooter(a.footer)
  BY <1>8, <1>10 DEF IsFooter
<1>12. a = [header |-> a.header, frames |-> a.frames, footer |-> a.footer, trailer |-> a.trailer]
  BY <1>6
<1> HIDE DEF a
<1>13. QED
  BY <1>5, <1>7, <1>9, <1>10, <1>11, <1>12 DEF IsArchive, a
-----------------------------------------------------------------------------
(* What is known when a target is written *)

LEMMA AfterTheTest ==
  ASSUME TypeOK, ControlInvariant, rpc \in {"target", "write"}
  PROVE  LET chunksOf == Chunks(snapshot, reader)
             whole == Whole(snapshot, reader)
             U == UnitsOf(snapshot)
         IN /\ IsArchive(snapshot) /\ reader \in Readers
            /\ snapshot.footer.total \in Nat
            /\ TestArchive(snapshot, reader) = "OK"
            /\ chunksOf \in Seq(Seq(U)) /\ Len(chunksOf) = snapshot.footer.total
            /\ whole \in Seq(U) /\ Len(whole) = DiskEntry.size
            /\ ContentWith(snapshot) = {whole}
<1>1. IsArchive(snapshot) /\ reader \in Readers /\ reader.quota = 0
  BY DiskAssumption DEF TypeOK, ControlInvariant, IsArchiveOrNone
<1>2. DiskError = "OK" /\ TestArchive(snapshot, reader) = "OK"
  BY DEF ControlInvariant, Passed, Preflight
<1>3. /\ OpenError(snapshot, reader) = "OK"
      /\ Len(Entries(snapshot)) = 1 /\ Flag(snapshot, "DISK_IMAGE")
      /\ Entries(snapshot)[1].count = snapshot.footer.total
  <2>1. OpenError(snapshot, reader) = "OK"
    BY <1>2 DEF DiskError, ??
  <2>2. Check(Len(Entries(snapshot)) = 1 /\ Flag(snapshot, "DISK_IMAGE"), "CORRUPT") = "OK"
    BY <1>2 DEF DiskError, ??
  <2>3. Check(DiskEntry.count = snapshot.footer.total /\ DiskEntry.offset < snapshot.footer.index,
              "CORRUPT") = "OK"
    BY <1>2 DEF DiskError, ??
  <2>4. QED
    BY <2>1, <2>2, <2>3 DEF Check, DiskEntry
<1>4. snapshot.footer.total \in Nat
  BY <1>1 DEF IsArchive, IsFooter
<1>5. /\ Chunks(snapshot, reader) \in Seq(Seq(UnitsOf(snapshot)))
      /\ Len(Chunks(snapshot, reader)) = snapshot.footer.total
      /\ Len(Whole(snapshot, reader)) = Entries(snapshot)[1].size
      /\ {f.content : f \in ExtractArchive(snapshot, reader).files} = {Whole(snapshot, reader)}
  BY <1>1, <1>2, <1>3, TestedDisk
<1>6. Whole(snapshot, reader) \in Seq(UnitsOf(snapshot))
  BY <1>5, FlattenType DEF Whole
<1>7. QED
  BY <1>1, <1>2, <1>4, <1>5, <1>6 DEF DiskEntry, ContentWith

LEMMA WrittenSoFar ==
  ASSUME TypeOK, ControlInvariant, WriteInvariant, rpc = "write"
  PROVE  LET whole == Whole(snapshot, reader)
             U == UnitsOf(snapshot)
         IN /\ Len(chunks) \in 0 .. snapshot.footer.total
            /\ chunks \in Seq(Seq(U))
            /\ Flat \in Seq(U) /\ Len(Flat) \in 0 .. DiskEntry.size
            /\ Flat = SubSeq(whole, 1, Len(Flat))
            /\ Len(chunks) = snapshot.footer.total => Flat = whole
<1> DEFINE all == Chunks(snapshot, reader)
           whole == Whole(snapshot, reader)
           U == UnitsOf(snapshot)
           n == snapshot.footer.total
<1>1. /\ all \in Seq(Seq(U)) /\ Len(all) = n /\ n \in Nat
      /\ whole \in Seq(U) /\ Len(whole) = DiskEntry.size
  BY AfterTheTest
<1>2. Len(chunks) <= n /\ chunks = SubSeq(all, 1, Len(chunks)) /\ Len(chunks) \in Nat
  BY DEF WriteInvariant, TypeOK
<1>3. Len(chunks) \in 0 .. n
  BY <1>1, <1>2
<1>4. whole = FlattenSeq(all) /\ Flat = FlattenSeq(chunks)
  BY DEF Whole, Flat
<1> HIDE DEF all, whole, U, n
<1>5. /\ FlattenSeq(SubSeq(all, 1, Len(chunks))) \in Seq(U)
      /\ Len(FlattenSeq(SubSeq(all, 1, Len(chunks)))) <= Len(FlattenSeq(all))
      /\ FlattenSeq(SubSeq(all, 1, Len(chunks)))
         = SubSeq(FlattenSeq(all), 1, Len(FlattenSeq(SubSeq(all, 1, Len(chunks)))))
  BY <1>1, <1>3, FlattenPrefix
<1>6. Flat \in Seq(U) /\ Len(Flat) <= Len(whole) /\ Flat = SubSeq(whole, 1, Len(Flat))
  BY <1>2, <1>4, <1>5
<1>7. chunks \in Seq(Seq(U))
  BY <1>1, <1>2, <1>3, Prefix
<1>8. Len(chunks) = n => Flat = whole
  <2>1. SubSeq(all, 1, n) = all
    BY <1>1, WholePrefix
  <2>2. QED
    BY <1>2, <1>4, <2>1
<1>9. QED
  BY <1>1, <1>3, <1>6, <1>7, <1>8 DEF n, whole, U
-----------------------------------------------------------------------------
(* A step that leaves the target alone *)

LEMMA QuietStep ==
  ASSUME target' = before', restored' # "OK", opened' # NoArchive => archive' # NoArchive
  PROVE  TargetShowsTheImage' /\ RestoreSaysWhatItDid'
  BY DEF TargetShowsTheImage, RestoreSaysWhatItDid

\* A block read from a source.
LEMMA SourceBlock ==
  ASSUME NEW s, IsSequence(s), NEW m \in Nat, NEW n \in Nat
  PROVE  IsSequence(SubSeq(s, m + 1, IF n < Len(s) THEN n ELSE Len(s)))
<1>1. s \in Seq(Range(s)) /\ Len(s) \in Nat
  BY IsSequenceInSeq DEF IsSequence
<1> DEFINE last == IF n < Len(s) THEN n ELSE Len(s)
<1>2. last \in Nat /\ last <= Len(s)
  BY <1>1
<1> HIDE DEF last
<1>3. SubSeq(s, m + 1, last) \in Seq(Range(s))
  BY <1>1, <1>2
<1>4. QED
  BY <1>3, SeqIsSequence DEF last

LEMMA AppendFrame ==
  ASSUME NEW frames, IsSequence(frames), \A i \in DOMAIN frames : IsFrame(frames[i]),
         NEW frame, IsFrame(frame)
  PROVE  /\ IsSequence(Append(frames, frame))
         /\ \A i \in DOMAIN Append(frames, frame) : IsFrame(Append(frames, frame)[i])
         /\ Len(Append(frames, frame)) = Len(frames) + 1
<1> DEFINE S == {frames[i] : i \in 1 .. Len(frames)} \cup {frame}
<1>1. frames \in Seq(S)
  BY DEF IsSequence
<1>2. \A s \in S : IsFrame(s)
  BY IsSequenceInSeq
<1>3. frame \in S
  OBVIOUS
<1> HIDE DEF S
<1>4. Append(frames, frame) \in Seq(S) /\ Len(Append(frames, frame)) = Len(frames) + 1
  BY <1>1, <1>3
<1> DEFINE longer == Append(frames, frame)
<1> HIDE DEF longer
<1>5. IsSequence(longer)
  BY <1>4, SeqIsSequence DEF longer
<1>6. \A i \in DOMAIN longer : longer[i] \in S
  <2>1. longer \in Seq(S)
    BY <1>4 DEF longer
  <2>2. QED
    BY <2>1
<1>7. QED
  BY <1>2, <1>4, <1>5, <1>6 DEF longer

LEMMA SequenceAppends ==
  ASSUME NEW s, NEW t, IsSequence(s), IsSequence(t)
  PROVE  IsSequence(s \o t)
<1>1. s \in Seq(Range(s) \cup Range(t)) /\ t \in Seq(Range(s) \cup Range(t))
  <2>1. \A i \in 1 .. Len(s) : s[i] \in Range(s)
    BY IsSequenceInSeq
  <2>2. \A i \in 1 .. Len(t) : t[i] \in Range(t)
    BY IsSequenceInSeq
  <2>3. QED
    BY <2>1, <2>2 DEF IsSequence
<1>2. s \o t \in Seq(Range(s) \cup Range(t))
  BY <1>1
<1>3. QED
  BY <1>2, SeqIsSequence

-----------------------------------------------------------------------------
(* The steps of a backup *)

LEMMA BackupTypes ==
  ASSUME TypeOK, BackupNext, UNCHANGED restoreVars
  PROVE  TypeOK'
<1> USE DEF TypeOK
<1>0. UNCHANGED << rpc, reader, opened, snapshot, target, before, chunks, errors, overwritten, restored >>
  BY DEF restoreVars
<1>1. CASE BackupOpen
  <2>1. UNCHANGED archive /\ bpc = "open"
    BY <1>1 DEF BackupOpen
  <2>2. CASE bpc' = "done" /\ UNCHANGED << source, o, readVars >>
    BY <1>0, <2>1, <2>2 DEF readVars
  <2>3. CASE /\ bpc' = "read" /\ size' = Len(source.content) /\ body' = Opening(o)
             /\ UNCHANGED << source, o, image >>
             /\ source.content # << >>
    <3>2. IsSource(source) /\ size' \in Nat
      BY <2>1, <2>3 DEF IsSource, IsSequence
    <3>3. /\ IsSequence(body') /\ \A i \in DOMAIN body' : IsFrame(body'[i])
          /\ Len(body') >= Base(o)
      <4>1. CASE Encrypts(o)
        <5> DEFINE frame == EncFrame(o)
        <5>1. IsFrame(frame)
          <6>1. IsSequence(<< Key(o.kind, o.value) >>)
            BY DEF IsSequence
          <6>2. IsFrameRecord(frame)
            BY <6>1, FrameType DEF EncFrame
          <6>3. QED
            BY <6>2 DEF IsFrameRecord
        <5>2. body' = << frame >> /\ Base(o) = 1
          BY <2>3, <4>1 DEF Opening, Base
        <5> HIDE DEF frame
        <5>3. QED
          BY <5>1, <5>2 DEF IsSequence
      <4>2. CASE ~ Encrypts(o)
        BY <2>3, <4>2 DEF Opening, Base, IsSequence
      <4>3. QED
        BY <4>1, <4>2
    <3>4. QED
      BY <1>0, <2>1, <2>3, <3>2, <3>3
  <2>4. BackupError(TRUE) = "OK" \/ BackupError(FALSE) = "OK" => source.content # << >>
    BY DEF BackupError, ??, Check
  <2>5. QED
    <3>1. PICK fails \in MayFail :
            IF BackupError(fails) # "OK" THEN BackupEnds(BackupError(fails))
            ELSE /\ bpc' = "read"
                 /\ size' = Len(source.content)
                 /\ body' = Opening(o)
                 /\ UNCHANGED << source, o, image, known, lost, changes, backedUp >>
      BY <1>1 DEF BackupOpen
    <3>2. fails \in BOOLEAN
      BY DEF MayFail
    <3>3. CASE BackupError(fails) # "OK"
      BY <2>2, <3>1, <3>3 DEF BackupEnds
    <3>4. CASE BackupError(fails) = "OK"
      BY <2>3, <2>4, <3>1, <3>2, <3>4
    <3>5. QED
      BY <3>3, <3>4
<1>2. CASE ReadBlock
  <2> DEFINE wanted == IF size - Len(image) < BlockSize THEN size - Len(image) ELSE BlockSize
             last == Len(image) + wanted
             data == SubSeq(source.content, Len(image) + 1,
                            IF last < Len(source.content) THEN last ELSE Len(source.content))
  <2>1. /\ bpc = "read" /\ Len(image) < size
        /\ UNCHANGED << source, o, size, archive >>
    BY <1>2 DEF ReadBlock
  <2>2. IsSequence(source.content)
    BY <2>1 DEF IsSource
  <2>3. Len(image) \in Nat /\ last \in Nat
    BY <2>1, FormatAssumption DEF IsSequence
  <2>4. IsSequence(data)
    BY <2>2, <2>3, SourceBlock
  <2>5. Len(body) >= Base(o) /\ Base(o) \in Nat /\ Len(body) \in Nat
    BY <2>1 DEF Base, IsSequence
  <2>6. \/ /\ UNCHANGED << image, body >> /\ bpc' = "finish"
        \/ /\ image' = image \o data
           /\ \E fails \in MayFail : WriteReference(data, fails) \/ WriteBlock(data, fails)
    BY <1>2 DEF ReadBlock
  <2> HIDE DEF data
  <2>7. CASE UNCHANGED << image, body >> /\ bpc' = "finish"
    BY <1>0, <2>1, <2>5, <2>7
  <2>8. ASSUME image' = image \o data,
               NEW fails \in MayFail, WriteReference(data, fails) \/ WriteBlock(data, fails)
        PROVE  TypeOK'
    <3>1. IsSequence(image')
      BY <2>4, <2>8, SequenceAppends
    <3>2. /\ bpc' \in {"read", "finish"}
          /\ body' = body \/ \E frame : IsFrame(frame) /\ body' = Append(body, frame)
      <4>1. CASE WriteReference(data, fails)
        <5>1. IsFrameRecord(ReferTo(data))
          BY <2>4, RefFrameType DEF ReferTo
        <5>2. QED
          BY <4>1, <5>1 DEF WriteReference, IsFrameRecord
      <4>2. CASE WriteBlock(data, fails)
        <5> DEFINE frame == DataFrame([data |-> data, seq |-> Len(body) - Base(o)], o)
                   torn == [frame EXCEPT !.intact = ~ fails]
        <5>1. IsFrameRecord(frame)
          BY <2>4, DataFrameType
        <5>2. body' = Append(body, torn) /\ bpc' = "read"
          BY <4>2 DEF WriteBlock
        <5> HIDE DEF frame
        <5>3. torn.size = frame.size /\ torn.pay = frame.pay
          BY <5>1 DEF IsFrameRecord
        <5> HIDE DEF torn
        <5>4. IsFrame(torn)
          BY <5>1, <5>3 DEF IsFrameRecord, IsFrame
        <5>5. QED
          BY <5>2, <5>4
      <4>3. QED
        BY <2>8, <4>1, <4>2
    <3>3. /\ IsSequence(body') /\ \A i \in DOMAIN body' : IsFrame(body'[i])
          /\ Len(body') >= Base(o)
      <4>1. CASE body' = body
        BY <2>5, <4>1
      <4>2. ASSUME NEW frame, IsFrame(frame), body' = Append(body, frame)
            PROVE  /\ IsSequence(body') /\ \A i \in DOMAIN body' : IsFrame(body'[i])
                   /\ Len(body') >= Base(o)
        <5>1. /\ IsSequence(Append(body, frame))
              /\ \A i \in DOMAIN Append(body, frame) : IsFrame(Append(body, frame)[i])
              /\ Len(Append(body, frame)) = Len(body) + 1
          BY <4>2, AppendFrame
        <5>2. QED
          BY <2>5, <4>2, <5>1
      <4>3. QED
        BY <3>2, <4>1, <4>2
    <3>4. QED
      BY <1>0, <2>1, <3>1, <3>2, <3>3
  <2>9. QED
    BY <2>6, <2>7, <2>8
<1>3. CASE EncryptFails
  BY <1>0, <1>3 DEF EncryptFails, BackupEnds, readVars
<1>4. CASE Finish
  <2>1. bpc \in {"read", "finish"} /\ bpc' = "done" /\ UNCHANGED << source, o, readVars >>
    BY <1>4 DEF Finish, BackupEnds
  <2>2. archive' = archive \/ \E file : archive' = Closed(body, << file >>, o)
    BY <1>4 DEF Finish
  <2>3. \A file : IsArchive(Closed(body, << file >>, o))
    BY <2>1, ClosedType
  <2>4. IsArchiveOrNone(archive')
    BY <2>2, <2>3 DEF IsArchiveOrNone
  <2>5. QED
    BY <1>0, <2>1, <2>4 DEF readVars
<1>5. CASE SourceChanges
  <2>1. PICK content \in Changed : source' = [source EXCEPT !.content = content]
    BY <1>5 DEF SourceChanges
  <2>2. bpc \in {"read", "finish"} /\ UNCHANGED << bpc, o, readVars, archive >>
    BY <1>5 DEF SourceChanges
  <2>3. IsSequence(content)
    BY DiskAssumption
  <2>4. IsSource(source')
    BY <2>1, <2>2, <2>3 DEF IsSource
  <2>5. QED
    BY <1>0, <2>2, <2>4 DEF readVars
<1>6. CASE BackupGone
  BY <1>0, <1>6 DEF BackupGone, IsSequence
<1>7. QED
  BY <1>1, <1>2, <1>3, <1>4, <1>5, <1>6 DEF BackupNext
-----------------------------------------------------------------------------
(* Writing over a device *)

LEMMA OverType ==
  ASSUME NEW content, IsSequence(content), NEW at \in Nat, NEW data
  PROVE  IsSequence(Over(content, at, data)) /\ Len(Over(content, at, data)) = Len(content)
<1> DEFINE unit(i) == IF i \in at + 1 .. at + Len(data) THEN data[i - at] ELSE content[i]
           n == Len(content)
           written == [i \in 1 .. n |-> unit(i)]
<1>1. n \in Nat /\ Over(content, at, data) = written
  BY IsSequenceInSeq DEF Over, IsSequence
<1> HIDE DEF unit, n
<1>2. written \in Seq({unit(i) : i \in 1 .. n}) /\ Len(written) = n
  BY <1>1
<1>3. QED
  BY <1>1, <1>2, SeqIsSequence DEF n

LEMMA OverNothing ==
  ASSUME NEW content, IsSequence(content), NEW S, NEW whole \in Seq(S)
  PROVE  Over(content, 0, SubSeq(whole, 1, 0)) = content
<1>1. Len(SubSeq(whole, 1, 0)) = 0
  OBVIOUS
<1>2. Over(content, 0, SubSeq(whole, 1, 0)) = [i \in 1 .. Len(content) |-> content[i]]
  BY <1>1, IsSequenceInSeq DEF Over, IsSequence
<1>3. QED
  BY <1>2 DEF IsSequence

\* Some of the data that follow in an image, written behind what is there of it.
LEMMA OverMore ==
  ASSUME NEW content, IsSequence(content), NEW S, NEW whole \in Seq(S), NEW data \in Seq(S),
         NEW k \in 0 .. Len(whole), NEW m \in 0 .. Len(data), k + Len(data) <= Len(whole),
         SubSeq(whole, 1, k) \o data = SubSeq(whole, 1, k + Len(data))
  PROVE  Over(Over(content, 0, SubSeq(whole, 1, k)), k, SubSeq(data, 1, m))
         = Over(content, 0, SubSeq(whole, 1, k + m))
<1>1. \A i \in 1 .. Len(data) : data[i] = whole[k + i]
  <2>1. \A i \in 1 .. Len(data) : (SubSeq(whole, 1, k) \o data)[k + i] = data[i]
    OBVIOUS
  <2>2. \A i \in 1 .. Len(data) : SubSeq(whole, 1, k + Len(data))[k + i] = whole[k + i]
    BY Prefix
  <2>3. QED
    BY <2>1, <2>2
<1> DEFINE one == SubSeq(whole, 1, k)
           two == SubSeq(data, 1, m)
           both == SubSeq(whole, 1, k + m)
<1>2. /\ Len(one) = k /\ \A i \in 1 .. k : one[i] = whole[i]
      /\ Len(two) = m /\ \A i \in 1 .. m : two[i] = whole[k + i]
      /\ Len(both) = k + m /\ \A i \in 1 .. k + m : both[i] = whole[i]
  BY <1>1, Prefix
<1> DEFINE first == Over(content, 0, one)
           L == Len(content)
<1>3. L \in Nat /\ DOMAIN content = 1 .. L
  BY IsSequenceInSeq DEF IsSequence
<1> HIDE DEF one, two, both, L
<1>4. first = [i \in 1 .. L |-> IF i \in 1 .. k THEN whole[i] ELSE content[i]]
  BY <1>2, <1>3 DEF Over
<1> HIDE DEF first
<1>5. \A i \in k + 1 .. k + m : two[i - k] = whole[i]
  <2> TAKE i \in k + 1 .. k + m
  <2>1. i - k \in 1 .. m /\ k + (i - k) = i
    OBVIOUS
  <2>2. QED
    BY <1>2, <2>1
<1>6. Over(first, k, two)
      = [i \in 1 .. L |-> IF i \in 1 .. k + m THEN whole[i] ELSE content[i]]
  <2> DEFINE put(i) == IF i \in k + 1 .. k + Len(two) THEN two[i - k] ELSE first[i]
  <2>1. DOMAIN first = 1 .. L
    BY <1>4
  <2>2. Over(first, k, two) = [i \in 1 .. L |-> put(i)]
    BY Zenon, <2>1 DEF Over
  <2>3. ASSUME NEW i \in 1 .. L
        PROVE  put(i) = IF i \in 1 .. k + m THEN whole[i] ELSE content[i]
    <3>1. first[i] = IF i \in 1 .. k THEN whole[i] ELSE content[i]
      BY <1>4
    <3>2. CASE i \in k + 1 .. k + m
      <4>1. put(i) = whole[i]
        BY <1>2, <1>5, <3>2
      <4>2. i \in 1 .. k + m
        BY <3>2
      <4>3. QED
        BY <4>1, <4>2
    <3>3. CASE i \notin k + 1 .. k + m
      <4>1. put(i) = first[i]
        BY <1>2, <3>3
      <4> HIDE DEF put
      <4>2. i \in 1 .. k <=> i \in 1 .. k + m
        BY <1>3, <3>3
      <4>3. QED
        BY <3>1, <4>1, <4>2
    <3>4. QED
      BY <3>2, <3>3
  <2> HIDE DEF put
  <2>4. QED
    BY <2>2, <2>3
<1>7. Over(content, 0, both)
      = [i \in 1 .. L |-> IF i \in 1 .. k + m THEN whole[i] ELSE content[i]]
  BY <1>2, <1>3 DEF Over
<1>8. QED
  BY <1>6, <1>7 DEF first, one, two, both
-----------------------------------------------------------------------------
(* The steps before a target is written *)

LEMMA BackupStep ==
  ASSUME RestoreInvariant, BackupNext, UNCHANGED restoreVars
  PROVE  RestoreInvariant'
<1>1. bpc # "gone"
  BY DEF BackupNext, BackupOpen, ReadBlock, EncryptFails, Finish, SourceChanges, BackupGone
<1>2. rpc = "idle" /\ UNCHANGED << rpc, opened, target, before, chunks, errors, restored >>
  BY <1>1 DEF RestoreInvariant, TypeOK, restoreVars
<1>3. opened = NoArchive /\ restored = "none" /\ target = before /\ chunks = << >> /\ ~ errors
  BY <1>2 DEF RestoreInvariant, ControlInvariant
<1>4. TypeOK'
  BY BackupTypes DEF RestoreInvariant
<1>5. ControlInvariant' /\ WriteInvariant'
  BY <1>2, <1>3 DEF ControlInvariant, WriteInvariant
<1>6. TargetShowsTheImage' /\ RestoreSaysWhatItDid'
  BY <1>2, <1>3, QuietStep
<1>7. QED
  BY <1>4, <1>5, <1>6 DEF RestoreInvariant

\* A step that ends a restore before its target is written.
LEMMA EndsEarly ==
  ASSUME RestoreInvariant, rpc \in {"copy", "verify", "target"},
         NEW fault, fault # "OK", RestoreEnds(fault), UNCHANGED << overwritten, backupVars >>
  PROVE  RestoreInvariant'
<1>1. /\ rpc' = "done" /\ restored' # "OK"
      /\ UNCHANGED << reader, opened, snapshot, target, before, chunks, errors, backupVars >>
  BY DEF RestoreEnds
<1>2. target = before /\ opened # NoArchive /\ archive # NoArchive
  BY DEF RestoreInvariant, ControlInvariant
<1>3. TypeOK'
  BY <1>1 DEF RestoreInvariant, TypeOK, backupVars, readVars
<1>4. ControlInvariant' /\ WriteInvariant'
  BY <1>1, <1>2 DEF ControlInvariant, WriteInvariant, backupVars
<1>5. TargetShowsTheImage' /\ RestoreSaysWhatItDid'
  BY <1>1, <1>2, QuietStep DEF backupVars
<1>6. QED
  BY <1>3, <1>4, <1>5 DEF RestoreInvariant

\* A step that goes on before the target is written.
LEMMA GoesOn ==
  ASSUME RestoreInvariant, rpc \in {"copy", "verify", "target"},
         rpc' \in {"copy", "verify", "target"}, rpc' = "target" => Passed',
         IsArchive(snapshot'), snapshot' # NoArchive,
         UNCHANGED << reader, opened, target, before, chunks, errors, restored, backupVars >>
  PROVE  RestoreInvariant'
<1>1. /\ target = before /\ opened # NoArchive /\ archive # NoArchive
      /\ restored = "none" /\ chunks = << >> /\ ~ errors
  BY DEF RestoreInvariant, ControlInvariant
<1>2. TypeOK'
  BY DEF RestoreInvariant, TypeOK, backupVars, readVars, IsArchiveOrNone
<1>3. ControlInvariant' /\ WriteInvariant'
  BY <1>1 DEF ControlInvariant, WriteInvariant, backupVars
<1>4. TargetShowsTheImage' /\ RestoreSaysWhatItDid'
  BY <1>1, QuietStep DEF backupVars
<1>5. QED
  BY <1>2, <1>3, <1>4 DEF RestoreInvariant

\* An archive with other frames, or with what a torn copy ends with, is still a
\* file a reader may meet.
LEMMA OtherFrames ==
  ASSUME NEW a, IsArchive(a), NEW frames, IsSequence(frames),
         \A i \in DOMAIN frames : IsFrame(frames[i])
  PROVE  IsArchive([a EXCEPT !.frames = frames]) /\ [a EXCEPT !.frames = frames] # NoArchive
<1> DEFINE b == [a EXCEPT !.frames = frames]
<1>1. b = [header |-> a.header, frames |-> frames, footer |-> a.footer, trailer |-> a.trailer]
  BY DEF IsArchive
<1>2. IsFooter(a.footer) /\ ~ {"SOLID", "DISK_IMAGE"} \subseteq a.header.flags
  BY DEF IsArchive
<1> HIDE DEF b
<1>3. /\ b.header = a.header /\ b.frames = frames /\ b.footer = a.footer /\ b.trailer = a.trailer
      /\ "header" \in DOMAIN b
  BY <1>1
<1>4. b # NoArchive
  BY <1>3 DEF NoArchive
<1>5. IsArchive(b)
  BY <1>1, <1>2, <1>3 DEF IsArchive
<1>6. QED
  BY <1>4, <1>5 DEF b

LEMMA OpenArchiveStep ==
  ASSUME RestoreInvariant, OpenArchive
  PROVE  RestoreInvariant'
<1>1. /\ rpc = "idle" /\ bpc = "gone"
      /\ reader' \in Readers /\ target' \in Targets /\ before' = target'
      /\ UNCHANGED << chunks, errors, overwritten, backupVars >>
  BY DEF OpenArchive
<1>2. opened = NoArchive /\ restored = "none" /\ chunks = << >> /\ ~ errors
  BY <1>1 DEF RestoreInvariant, ControlInvariant
<1>3. /\ IsArchiveOrNone(archive) /\ IsArchiveOrNone(opened) /\ IsArchiveOrNone(snapshot)
      /\ IsTarget(target')
  BY <1>1, DiskAssumption DEF RestoreInvariant, TypeOK
<1>4. CASE /\ archive # NoArchive /\ rpc' = "copy" /\ opened' = archive
           /\ snapshot' = [archive EXCEPT !.frames = << >>] /\ UNCHANGED restored
  <2>1. IsArchive(archive)
    BY <1>3, <1>4 DEF IsArchiveOrNone
  <2>2. IsSequence(<< >>) /\ \A i \in DOMAIN << >> : IsFrame(<< >>[i])
    BY DEF IsSequence
  <2>3. IsArchive(snapshot') /\ snapshot' # NoArchive
    BY <1>4, <2>1, <2>2, OtherFrames
  <2>4. TypeOK'
    BY <1>1, <1>3, <1>4, <2>1, <2>3
       DEF RestoreInvariant, TypeOK, backupVars, readVars, IsArchiveOrNone
  <2>5. ControlInvariant' /\ WriteInvariant'
    BY <1>1, <1>2, <1>4, <2>3 DEF ControlInvariant, WriteInvariant, backupVars
  <2>6. TargetShowsTheImage' /\ RestoreSaysWhatItDid'
    BY <1>1, <1>2, <1>4, QuietStep DEF backupVars
  <2>7. QED
    BY <2>4, <2>5, <2>6 DEF RestoreInvariant
<1>5. CASE rpc' = "done" /\ restored' = "IO" /\ UNCHANGED << opened, snapshot >>
  <2>1. TypeOK'
    BY <1>1, <1>3, <1>5 DEF RestoreInvariant, TypeOK, backupVars, readVars
  <2>2. ControlInvariant' /\ WriteInvariant'
    BY <1>1, <1>2, <1>5 DEF ControlInvariant, WriteInvariant
  <2>3. TargetShowsTheImage' /\ RestoreSaysWhatItDid'
    BY <1>1, <1>2, <1>5, QuietStep
  <2>4. QED
    BY <2>1, <2>2, <2>3 DEF RestoreInvariant
<1>6. QED
  BY <1>4, <1>5 DEF OpenArchive
LEMMA MarkedFooter ==
  ASSUME NEW f, IsFooter(f), NEW v
  PROVE  IsFooter([f EXCEPT !.magic = v])
<1> DEFINE g == [f EXCEPT !.magic = v]
<1>1. g = [magic |-> v, version |-> f.version, index |-> f.index, total |-> f.total]
  BY DEF IsFooter
<1>2. f.total \in Nat
  BY DEF IsFooter
<1> HIDE DEF g
<1>3. g.magic = v /\ g.version = f.version /\ g.index = f.index /\ g.total = f.total
  BY <1>1
<1>4. IsFooter(g)
  BY <1>1, <1>2, <1>3 DEF IsFooter
<1>5. QED
  BY <1>4 DEF g

LEMMA CopyPieceStep ==
  ASSUME RestoreInvariant, CopyPiece
  PROVE  RestoreInvariant'
<1> DEFINE next == Len(snapshot.frames) + 1
           grown == [snapshot EXCEPT !.frames = Append(snapshot.frames, archive.frames[next])]
           end == IF Len(archive.frames) = Len(opened.frames)
                  THEN [archive EXCEPT !.header = snapshot.header, !.frames = snapshot.frames]
                  ELSE [snapshot EXCEPT !.footer.magic = FALSE, !.trailer = NoTrailer]
<1>1. rpc = "copy" /\ UNCHANGED << overwritten, backupVars >>
  BY DEF CopyPiece
<1>2. IsArchive(snapshot) /\ IsArchive(opened) /\ IsArchive(archive)
  BY <1>1 DEF RestoreInvariant, TypeOK, ControlInvariant, IsArchiveOrNone
<1>3. CASE /\ next <= Len(archive.frames) /\ snapshot' = grown
           /\ UNCHANGED << rpc, reader, opened, target, before, chunks, errors, restored >>
  <2>1. next \in DOMAIN archive.frames
    BY <1>2, <1>3, IsSequenceInSeq DEF IsArchive, IsSequence
  <2>2. IsFrame(archive.frames[next])
    BY <1>2, <2>1 DEF IsArchive
  <2>3. /\ IsSequence(Append(snapshot.frames, archive.frames[next]))
        /\ \A i \in DOMAIN Append(snapshot.frames, archive.frames[next]) :
             IsFrame(Append(snapshot.frames, archive.frames[next])[i])
    BY <1>2, <2>2, AppendFrame DEF IsArchive
  <2>4. IsArchive(grown) /\ grown # NoArchive
    BY <1>2, <2>3, OtherFrames
  <2>5. QED
    BY <1>1, <1>3, <2>4, GoesOn
<1>4. CASE /\ next > Len(opened.frames) /\ snapshot' = end /\ rpc' = "verify"
           /\ UNCHANGED << reader, opened, target, before, chunks, errors, restored >>
  <2>1. IsArchive(end) /\ end # NoArchive
    <3>2. /\ end.header = snapshot.header /\ end.frames = snapshot.frames
          /\ end = [header |-> end.header, frames |-> end.frames, footer |-> end.footer,
                    trailer |-> end.trailer]
          /\ IsFooter(end.footer)
      <4>1. CASE Len(archive.frames) = Len(opened.frames)
        <5>1. end = [header |-> snapshot.header, frames |-> snapshot.frames,
                     footer |-> archive.footer, trailer |-> archive.trailer]
          BY <1>2, <4>1 DEF IsArchive
        <5>2. IsFooter(archive.footer)
          BY <1>2 DEF IsArchive
        <5> HIDE DEF end
        <5>3. QED
          BY <5>1, <5>2
      <4>2. CASE Len(archive.frames) # Len(opened.frames)
        <5> DEFINE footer == [snapshot.footer EXCEPT !.magic = FALSE]
        <5>1. end = [header |-> snapshot.header, frames |-> snapshot.frames,
                     footer |-> footer, trailer |-> NoTrailer]
          BY <1>2, <4>2 DEF IsArchive
        <5>2. IsFooter(footer)
          BY <1>2, MarkedFooter DEF IsArchive
        <5> HIDE DEF end, footer
        <5>3. QED
          BY <5>1, <5>2
      <4>3. QED
        BY <4>1, <4>2
    <3> HIDE DEF end
    <3>3. IsArchive(end)
      BY <1>2, <3>2 DEF IsArchive
    <3>4. "header" \in DOMAIN end
      BY <3>2
    <3>5. QED
      BY <3>3, <3>4 DEF NoArchive
  <2>2. QED
    BY <1>1, <1>4, <2>1, GoesOn
<1>5. CASE RestoreEnds("IO")
  BY <1>1, <1>5, EndsEarly
<1>6. QED
  BY <1>3, <1>4, <1>5 DEF CopyPiece

LEMMA CopyFailsStep ==
  ASSUME RestoreInvariant, CopyFails
  PROVE  RestoreInvariant'
BY EndsEarly DEF CopyFails

LEMMA VerifyStep ==
  ASSUME RestoreInvariant, Verify
  PROVE  RestoreInvariant'
<1>1. rpc = "verify" /\ UNCHANGED << overwritten, backupVars >>
  BY DEF Verify
<1>2. IsArchive(snapshot) /\ snapshot # NoArchive
  BY <1>1 DEF RestoreInvariant, TypeOK, ControlInvariant, IsArchiveOrNone
<1>3. CASE DiskError ?? Preflight # "OK" /\ RestoreEnds(DiskError ?? Preflight)
  BY <1>1, <1>3, EndsEarly
<1>4. CASE /\ DiskError ?? Preflight = "OK" /\ rpc' = "target"
           /\ UNCHANGED << reader, opened, snapshot, target, before, chunks, errors, restored >>
  <2>1. Passed
    BY <1>4 DEF ??, Passed
  <2>2. Passed'
    BY <1>4, <2>1 DEF Passed, DiskError, Preflight, DiskEntry
  <2>3. QED
    BY <1>1, <1>2, <1>4, <2>2, GoesOn
<1>5. QED
  BY <1>3, <1>4 DEF Verify
LEMMA OpenTargetStep ==
  ASSUME RestoreInvariant, OpenTarget
  PROVE  RestoreInvariant'
<1>1. rpc = "target" /\ UNCHANGED << overwritten, backupVars >>
  BY DEF OpenTarget
<1>2. PICK fails \in MayFail :
        LET fault == TargetRefused(target.kind)
                     ?? Check(~ fails, "IO")
                     ?? AadMapError(snapshot, Entries(snapshot))
        IN IF fault # "OK" THEN RestoreEnds(fault)
           ELSE /\ rpc' = "write"
                /\ UNCHANGED << reader, opened, snapshot, target, before, chunks, errors, restored >>
  BY DEF OpenTarget
<1> DEFINE fault == TargetRefused(target.kind)
                    ?? Check(~ fails, "IO")
                    ?? AadMapError(snapshot, Entries(snapshot))
<1>3. CASE fault # "OK"
  BY <1>1, <1>2, <1>3, EndsEarly
<1>4. CASE fault = "OK"
  <2>1. /\ rpc' = "write"
        /\ UNCHANGED << reader, opened, snapshot, target, before, chunks, errors, restored >>
    BY <1>2, <1>4
  <2>2. TargetRefused(target.kind) = "OK"
    BY <1>4 DEF ??
  <2>3. /\ opened # NoArchive /\ snapshot # NoArchive /\ archive # NoArchive
        /\ restored = "none" /\ target = before /\ chunks = << >> /\ ~ errors
        /\ Passed
    BY <1>1 DEF RestoreInvariant, ControlInvariant
  <2>4. TypeOK'
    BY <1>1, <2>1 DEF RestoreInvariant, TypeOK, backupVars, readVars
  <2>5. Passed'
    BY <2>1, <2>3 DEF Passed, DiskError, Preflight, DiskEntry
  <2>6. ControlInvariant'
    <3>1. TargetRefused(target.kind)' = TargetRefused(target.kind)
      BY <2>1 DEF TargetRefused, Fits, DiskEntry
    <3>2. QED
      BY <1>1, <2>1, <2>2, <2>3, <2>5, <3>1 DEF ControlInvariant, backupVars
  <2>7. WriteInvariant'
    <3> DEFINE all == Chunks(snapshot, reader)
               whole == Whole(snapshot, reader)
               U == UnitsOf(snapshot)
    <3>1. /\ snapshot.footer.total \in Nat
          /\ all \in Seq(Seq(U)) /\ whole \in Seq(U) /\ Len(whole) = DiskEntry.size
      BY <1>1, AfterTheTest DEF RestoreInvariant
    <3>2. Len(chunks) = 0 /\ chunks = SubSeq(all, 1, 0) /\ Flat = << >> /\ Len(Flat) = 0
      BY <2>3, <3>1, FlattenEmpty DEF Flat
    <3>3. IsDevice => /\ before.kind = "device" /\ DiskEntry.size <= Len(before.content)
                      /\ target.content = Restoring(whole, 0)
      <4>1. SUFFICES ASSUME IsDevice
                     PROVE  /\ before.kind = "device" /\ DiskEntry.size <= Len(before.content)
                            /\ target.content = Restoring(whole, 0)
        OBVIOUS
      <4>2. Fits /\ before.kind = "device"
        BY <2>2, <2>3, <4>1 DEF TargetRefused, Check, IsDevice
      <4>3. IsSequence(before.content)
        BY DEF RestoreInvariant, TypeOK, IsTarget
      <4>4. Over(before.content, 0, SubSeq(whole, 1, 0)) = before.content
        BY <3>1, <4>3, OverNothing
      <4>5. QED
        BY <2>3, <4>2, <4>4 DEF Restoring, Fits
    <3>4. 0 \in 0 .. DiskEntry.size
      BY <3>1
    <3> HIDE DEF all, whole, U
    <3>5. UNCHANGED << Flat, IsDevice, DiskEntry, snapshot, reader, target, before, chunks, errors >>
      BY <2>1 DEF Flat, IsDevice, DiskEntry
    <3>7. QED
      BY <2>1, <2>3, <3>1, <3>2, <3>3, <3>4, <3>5 DEF WriteInvariant, all, whole, Restoring
  <2>8. TargetShowsTheImage' /\ RestoreSaysWhatItDid'
    BY <1>1, <2>1, <2>3, QuietStep DEF backupVars
  <2>9. QED
    BY <2>4, <2>6, <2>7, <2>8 DEF RestoreInvariant
<1>5. QED
  BY <1>3, <1>4
-----------------------------------------------------------------------------
(* The steps that write *)

\* What is known of the target while it is written says what it shows.
LEMMA WriteShows ==
  ASSUME TypeOK, ControlInvariant, WriteInvariant, rpc = "write"
  PROVE  TargetShowsTheImage /\ RestoreSaysWhatItDid
<1> DEFINE whole == Whole(snapshot, reader)
<1>1. /\ TestArchive(snapshot, reader) = "OK" /\ ContentWith(snapshot) = {whole}
      /\ Len(whole) = DiskEntry.size
  BY AfterTheTest
<1>2. Len(Flat) \in Nat
  BY WrittenSoFar
<1> HIDE DEF whole
<1>3. target # before => /\ before.kind = "device" /\ DiskEntry.size <= Len(before.content)
                         /\ \E n \in Len(Flat) .. DiskEntry.size :
                              target.content = Restoring(whole, n)
  BY DEF WriteInvariant, whole
<1>4. TargetShowsTheImage
  BY <1>1, <1>2, <1>3 DEF TargetShowsTheImage
<1>5. RestoreSaysWhatItDid
  BY DEF ControlInvariant, RestoreSaysWhatItDid
<1>6. QED
  BY <1>4, <1>5

\* The next block of the image, when it is sound.
LEMMA NextOfTheImage ==
  ASSUME TypeOK, ControlInvariant, WriteInvariant, rpc = "write",
         Len(chunks) < snapshot.footer.total
  PROVE  LET whole == Whole(snapshot, reader)
             data == NextBlock(Len(chunks)).data
         IN /\ data \in Seq(UnitsOf(snapshot))
            /\ Append(chunks, data) = SubSeq(Chunks(snapshot, reader), 1, Len(chunks) + 1)
            /\ Len(Append(chunks, data)) = Len(chunks) + 1
            /\ FlattenSeq(Append(chunks, data)) = Flat \o data
            /\ Len(Flat) + Len(data) <= Len(whole)
            /\ Flat \o data = SubSeq(whole, 1, Len(Flat) + Len(data))
<1> DEFINE all == Chunks(snapshot, reader)
           whole == Whole(snapshot, reader)
           U == UnitsOf(snapshot)
           data == NextBlock(Len(chunks)).data
           b == Len(chunks)
<1>1. /\ all \in Seq(Seq(U)) /\ Len(all) = snapshot.footer.total /\ snapshot.footer.total \in Nat
      /\ whole = FlattenSeq(all)
  BY AfterTheTest DEF Whole
<1>2. /\ b \in 0 .. Len(all) - 1 /\ chunks \in Seq(Seq(U)) /\ Flat = FlattenSeq(chunks)
      /\ chunks = SubSeq(all, 1, b)
  BY <1>1, WrittenSoFar DEF Flat, WriteInvariant
<1>3. all[b + 1] = data
  BY <1>1, <1>2 DEF Chunks, NextBlock, DiskEntry, SnapshotKey
<1> HIDE DEF all, whole, U, data, b
<1>4. SubSeq(all, 1, b + 1) = Append(chunks, data) /\ data \in Seq(U)
  BY <1>1, <1>2, <1>3, PrefixGrows
<1>5. FlattenSeq(Append(chunks, data)) = Flat \o data
  BY <1>2, <1>4, FlattenAppend
<1>6. b + 1 \in 0 .. Len(all)
  BY <1>1, <1>2
<1>7. /\ Len(FlattenSeq(SubSeq(all, 1, b + 1))) <= Len(FlattenSeq(all))
      /\ FlattenSeq(SubSeq(all, 1, b + 1))
         = SubSeq(FlattenSeq(all), 1, Len(FlattenSeq(SubSeq(all, 1, b + 1))))
  BY <1>1, <1>6, FlattenPrefix
<1>8. Flat \in Seq(U)
  BY <1>2, FlattenType
<1>9. Len(Flat \o data) = Len(Flat) + Len(data)
  BY <1>4, <1>8
<1>10. /\ Len(Flat) + Len(data) <= Len(whole)
       /\ Flat \o data = SubSeq(whole, 1, Len(Flat) + Len(data))
  BY <1>1, <1>4, <1>5, <1>7, <1>9
<1>11. Len(Append(chunks, data)) = b + 1
  BY <1>2, <1>4 DEF b
<1>12. QED
  BY <1>4, <1>5, <1>10, <1>11 DEF all, whole, U, data, b
LEMMA WriteShowsNext ==
  (TypeOK /\ ControlInvariant /\ WriteInvariant /\ rpc = "write")'
    => (TargetShowsTheImage /\ RestoreSaysWhatItDid)'
<1>1. TypeOK /\ ControlInvariant /\ WriteInvariant /\ rpc = "write"
        => TargetShowsTheImage /\ RestoreSaysWhatItDid
  BY WriteShows
<1>2. QED
  BY <1>1, PTL

LEMMA WriteNextStep ==
  ASSUME RestoreInvariant, WriteNext
  PROVE  RestoreInvariant'
<1> DEFINE all == Chunks(snapshot, reader)
           whole == Whole(snapshot, reader)
           U == UnitsOf(snapshot)
           data == NextBlock(Len(chunks)).data
<1>1. /\ rpc = "write" /\ Len(chunks) < snapshot.footer.total /\ ~ errors
      /\ UNCHANGED << rpc, reader, opened, snapshot, before, overwritten, restored, backupVars >>
  BY DEF WriteNext
<1>2. /\ whole \in Seq(U) /\ Len(whole) = DiskEntry.size
      /\ Len(chunks) \in Nat /\ Flat \in Seq(U) /\ Len(Flat) \in 0 .. DiskEntry.size
      /\ Flat = SubSeq(whole, 1, Len(Flat))
      /\ chunks = SubSeq(all, 1, Len(chunks)) /\ snapshot.footer.total \in Nat
  BY <1>1, AfterTheTest, WrittenSoFar DEF RestoreInvariant, WriteInvariant
<1>3. /\ data \in Seq(U)
      /\ Append(chunks, data) = SubSeq(all, 1, Len(chunks) + 1)
      /\ Len(Append(chunks, data)) = Len(chunks) + 1
      /\ FlattenSeq(Append(chunks, data)) = Flat \o data
      /\ Len(Flat) + Len(data) <= Len(whole)
      /\ Flat \o data = SubSeq(whole, 1, Len(Flat) + Len(data))
  BY <1>1, NextOfTheImage DEF RestoreInvariant
<1>4. /\ IF IsDevice THEN /\ before.kind = "device" /\ DiskEntry.size <= Len(before.content)
                          /\ target.content = Restoring(whole, Len(Flat))
         ELSE target = before
      /\ IsTarget(target) /\ IsTarget(before)
  BY <1>1 DEF RestoreInvariant, WriteInvariant, TypeOK
\* The step: some of the block is on a device, all of it unless the write failed.
<1>5. \E k \in 0 .. Len(data) :
        /\ IF IsDevice THEN target' = [target EXCEPT !.content =
                                         Over(target.content, Len(Flat), SubSeq(data, 1, k))]
           ELSE target' = target
        /\ errors' \in BOOLEAN
        /\ \/ chunks' = chunks /\ errors'
           \/ chunks' = Append(chunks, data) /\ ~ errors' /\ k = Len(data)
  <2> HIDE DEF data
  <2>1. CASE errors' = TRUE /\ UNCHANGED << target, chunks >>
    <3>1. IsDevice => target = [target EXCEPT !.content =
                                  Over(target.content, Len(Flat), SubSeq(data, 1, 0))]
      <4>1. Len(SubSeq(data, 1, 0)) = 0 /\ Len(Flat) \in Nat
        BY <1>2, <1>3
      <4>2. Over(target.content, Len(Flat), SubSeq(data, 1, 0))
            = [i \in 1 .. Len(target.content) |-> target.content[i]]
        BY <1>4, <4>1, IsSequenceInSeq DEF Over, IsTarget, IsSequence
      <4>3. Over(target.content, Len(Flat), SubSeq(data, 1, 0)) = target.content
        BY <1>4, <4>2 DEF IsTarget, IsSequence
      <4>4. QED
        BY <1>4, <4>3 DEF IsTarget
    <3>2. 0 \in 0 .. Len(data)
      BY <1>3
    <3>3. QED
      BY <2>1, <3>1, <3>2
  <2>2. ASSUME NEW fails \in MayFail, WriteTarget(data, fails), errors' = fails,
               chunks' = IF fails THEN chunks ELSE Append(chunks, data)
        PROVE  \E k \in 0 .. Len(data) :
                 /\ IF IsDevice THEN target' = [target EXCEPT !.content =
                                                  Over(target.content, Len(Flat), SubSeq(data, 1, k))]
                    ELSE target' = target
                 /\ errors' \in BOOLEAN
                 /\ \/ chunks' = chunks /\ errors'
                    \/ chunks' = Append(chunks, data) /\ ~ errors' /\ k = Len(data)
    <3>1. fails \in BOOLEAN
      BY DEF MayFail
    <3>2. Len(data) \in Nat
      BY <1>3
    <3>3. QED
      BY <2>2, <3>1, <3>2 DEF WriteTarget
  <2>3. QED
    BY <2>1, <2>2 DEF WriteNext, data
<1>6. PICK k \in 0 .. Len(data) :
        /\ IF IsDevice THEN target' = [target EXCEPT !.content =
                                         Over(target.content, Len(Flat), SubSeq(data, 1, k))]
           ELSE target' = target
        /\ errors' \in BOOLEAN
        /\ \/ chunks' = chunks /\ errors'
           \/ chunks' = Append(chunks, data) /\ ~ errors' /\ k = Len(data)
  BY <1>5
<1> HIDE DEF all, whole, U, data
<1>7. /\ IsTarget(target') /\ target'.kind = target.kind
      /\ Len(target'.content) = Len(target.content)
      /\ IsDevice => target'.content = Restoring(whole, Len(Flat) + k)
  <2>1. CASE ~ IsDevice
    BY <1>4, <1>6, <2>1
  <2>2. CASE IsDevice
    <3> DEFINE new == Over(target.content, Len(Flat), SubSeq(data, 1, k))
    <3>1. IsSequence(new) /\ Len(new) = Len(target.content)
      BY <1>2, <1>4, OverType DEF IsTarget
    <3>2. new = Restoring(whole, Len(Flat) + k)
      <4>1. /\ IsSequence(before.content)
            /\ Len(Flat) \in 0 .. Len(whole)
            /\ SubSeq(whole, 1, Len(Flat)) \o data = SubSeq(whole, 1, Len(Flat) + Len(data))
            /\ whole \in Seq(U) /\ data \in Seq(U)
            /\ Len(Flat) + Len(data) <= Len(whole)
        BY <1>2, <1>3, <1>4 DEF IsTarget
      <4>2. Over(Over(before.content, 0, SubSeq(whole, 1, Len(Flat))), Len(Flat), SubSeq(data, 1, k))
            = Over(before.content, 0, SubSeq(whole, 1, Len(Flat) + k))
        <5> DEFINE old == before.content
                   there == Len(Flat)
        <5>1. k \in 0 .. Len(data)
          BY <1>6
        <5>2. /\ IsSequence(old) /\ there \in 0 .. Len(whole)
              /\ SubSeq(whole, 1, there) \o data = SubSeq(whole, 1, there + Len(data))
              /\ there + Len(data) <= Len(whole)
          BY <4>1
        <5> HIDE DEF old, there
        <5>3. Over(Over(old, 0, SubSeq(whole, 1, there)), there, SubSeq(data, 1, k))
              = Over(old, 0, SubSeq(whole, 1, there + k))
          BY <4>1, <5>1, <5>2, OverMore
        <5>4. QED
          BY <5>3 DEF old, there
      <4>3. QED
        BY <1>4, <2>2, <4>2 DEF Restoring
    <3> HIDE DEF new
    <3>3. target' = [kind |-> target.kind, content |-> new]
      BY <1>4, <1>6, <2>2 DEF IsTarget, new
    <3>4. QED
      BY <3>1, <3>2, <3>3 DEF IsTarget
  <2>3. QED
    BY <2>1, <2>2
<1>8. Len(chunks') \in Nat /\ Len(chunks') <= snapshot.footer.total
      /\ chunks' = SubSeq(all, 1, Len(chunks'))
  BY <1>1, <1>2, <1>3, <1>6
<1>9. /\ Len(Flat') \in Nat
      /\ Len(Flat) + k \in Len(Flat') .. DiskEntry.size
      /\ ~ errors' => Len(Flat) + k = Len(Flat')
  <2>1. CASE chunks' = chunks /\ errors'
    <3>1. Flat' = Flat
      BY <2>1 DEF Flat
    <3>2. QED
      BY <1>2, <1>3, <1>6, <2>1, <3>1
  <2>2. CASE chunks' = Append(chunks, data) /\ k = Len(data)
    <3>1. Flat' = Flat \o data
      BY <1>3, <2>2 DEF Flat
    <3>2. Len(Flat \o data) = Len(Flat) + Len(data)
      BY <1>2, <1>3
    <3>3. Len(data) \in Nat /\ Len(Flat) \in Nat /\ DiskEntry.size \in Nat
      BY <1>2, <1>3
    <3>4. Len(Flat') = Len(Flat) + k
      BY <2>2, <3>1, <3>2
    <3>5. Len(Flat) + k <= DiskEntry.size
      BY <1>2, <1>3, <2>2
    <3>6. QED
      BY <1>6, <3>3, <3>4, <3>5
  <2>3. QED
    BY <1>6, <2>1, <2>2
<1>10. /\ Chunks(snapshot, reader)' = all /\ Whole(snapshot, reader)' = whole
       /\ DiskEntry' = DiskEntry /\ IsDevice' = IsDevice
  BY <1>1, <1>7 DEF all, whole, DiskEntry, IsDevice
<1>11. TypeOK'
  BY <1>1, <1>6, <1>7, <1>8 DEF RestoreInvariant, TypeOK, backupVars, readVars
<1>12. ControlInvariant'
  <2>1. Passed'
    <3>1. Passed
      BY <1>1 DEF RestoreInvariant, ControlInvariant
    <3>2. QED
      BY <1>1, <3>1 DEF Passed, DiskError, Preflight, DiskEntry
  <2>2. TargetRefused(target.kind)' = TargetRefused(target.kind)
    BY <1>1, <1>7, <1>10 DEF TargetRefused, Fits
  <2>3. QED
    BY <1>1, <2>1, <2>2 DEF RestoreInvariant, ControlInvariant, backupVars
<1>13. WriteInvariant'
  <2>2. IsDevice => \E n \in Len(Flat') .. DiskEntry.size :
                       /\ target'.content = Over(before'.content, 0, SubSeq(whole, 1, n))
                       /\ ~ errors' => n = Len(Flat')
    BY <1>1, <1>7, <1>9 DEF Restoring
  <2>3. QED
    BY <1>1, <1>4, <1>6, <1>8, <1>10, <2>2 DEF WriteInvariant, Restoring
<1>14. QED
  BY <1>1, <1>11, <1>12, <1>13, WriteShowsNext DEF RestoreInvariant
LEMMA CloseStep ==
  ASSUME RestoreInvariant, Close
  PROVE  RestoreInvariant'
<1> DEFINE whole == Whole(snapshot, reader)
<1>1. /\ rpc = "write" /\ rpc' = "done"
      /\ UNCHANGED << reader, opened, snapshot, before, chunks, errors, overwritten,
                      bpc, source, o, readVars, changes, backedUp >>
  BY DEF Close
<1>2. PICK fails \in MayFail :
        LET failed == \/ errors \/ fails
                      \/ Len(Flat) # DiskEntry.size
                      \/ ~ HashHolds(snapshot, DiskEntry, chunks)
        IN /\ restored' = IF failed THEN "CORRUPT" ELSE "OK"
           /\ target' = IF failed \/ IsDevice THEN target
                        ELSE [kind |-> "file", content |-> Flat]
           /\ archive' = IF target.kind = "archive" /\ ~ failed THEN NoArchive ELSE archive
  BY DEF Close
<1>3. TargetRefused(target.kind) = "OK" /\ archive # NoArchive /\ Passed
  BY <1>1 DEF RestoreInvariant, ControlInvariant
<1>4. target.kind # "archive"
  BY <1>3 DEF TargetRefused
<1>5. /\ TestArchive(snapshot, reader) = "OK" /\ ContentWith(snapshot) = {whole}
      /\ Len(whole) = DiskEntry.size
  BY <1>1, AfterTheTest DEF RestoreInvariant
<1>6. /\ Flat \in Seq(UnitsOf(snapshot)) /\ Len(Flat) \in Nat
      /\ Len(chunks) = snapshot.footer.total => Flat = whole
  BY <1>1, WrittenSoFar DEF RestoreInvariant
<1>7. IF IsDevice THEN /\ before.kind = "device"
                       /\ ~ errors => target.content = Restoring(whole, Len(Flat))
      ELSE target = before
  BY <1>1 DEF RestoreInvariant, WriteInvariant
<1> HIDE DEF whole
<1>8. archive' = archive
  BY <1>2, <1>4
<1>9. \/ restored' = "CORRUPT" /\ target' = target
      \/ /\ restored' = "OK" /\ ~ errors
         /\ target' = IF IsDevice THEN target ELSE [kind |-> "file", content |-> Flat]
  BY <1>2
<1>10. ~ errors => Flat = whole
  BY <1>1, <1>6 DEF Close
<1>11. TypeOK'
  <2>1. IsTarget(target')
    <3>1. IsSequence(Flat)
      BY <1>6, SeqIsSequence
    <3>2. IsTarget([kind |-> "file", content |-> Flat])
      BY <3>1 DEF IsTarget
    <3>3. QED
      BY <1>9, <3>2 DEF RestoreInvariant, TypeOK
  <2>2. QED
    BY <1>1, <1>8, <2>1 DEF RestoreInvariant, TypeOK, readVars
<1>12. ControlInvariant' /\ WriteInvariant'
  BY <1>1, <1>3, <1>8 DEF ControlInvariant, WriteInvariant
<1>13. /\ TestArchive(snapshot, reader)' = "OK" /\ ContentWith(snapshot)' = {whole}
  BY <1>1, <1>5 DEF ContentWith
<1>14. CASE restored' = "CORRUPT" /\ target' = target
  <2>1. TargetShowsTheImage
    BY DEF RestoreInvariant
  <2>2. TargetShowsTheImage'
    BY <1>1, <1>14, <2>1 DEF TargetShowsTheImage, ContentWith, Restoring
  <2>3. RestoreSaysWhatItDid'
    BY <1>1, <1>3, <1>7, <1>8, <1>14 DEF RestoreSaysWhatItDid, IsDevice
  <2>4. QED
    BY <1>11, <1>12, <2>2, <2>3 DEF RestoreInvariant
<1>15. CASE restored' = "OK" /\ IsDevice /\ target' = target /\ ~ errors
  <2>1. TargetShowsTheImage
    BY DEF RestoreInvariant
  <2>2. TargetShowsTheImage'
    BY <1>1, <1>15, <2>1 DEF TargetShowsTheImage, ContentWith, Restoring
  <2>3. target'.content = Over(before'.content, 0, SubSeq(whole, 1, Len(whole)))
    BY <1>1, <1>7, <1>10, <1>15 DEF Restoring
  <2>4. RestoreSaysWhatItDid'
    BY <1>1, <1>3, <1>8, <1>13, <1>15, <2>3 DEF RestoreSaysWhatItDid, IsDevice, Restoring
  <2>5. QED
    BY <1>11, <1>12, <2>2, <2>4 DEF RestoreInvariant
<1>16. CASE /\ restored' = "OK" /\ ~ IsDevice /\ ~ errors
            /\ target' = [kind |-> "file", content |-> Flat]
  <2>1. target'.kind = "file" /\ target'.content = whole
    BY <1>10, <1>16
  <2>2. before'.kind # "device"
    BY <1>1, <1>7, <1>16 DEF IsDevice
  <2>3. TargetShowsTheImage'
    BY <1>10, <1>13, <1>16, <2>2 DEF TargetShowsTheImage
  <2>4. RestoreSaysWhatItDid'
    BY <1>1, <1>3, <1>8, <1>13, <1>16, <2>1 DEF RestoreSaysWhatItDid, IsDevice
  <2>5. QED
    BY <1>11, <1>12, <2>3, <2>4 DEF RestoreInvariant
<1>17. QED
  BY <1>9, <1>14, <1>15, <1>16

LEMMA KillStep ==
  ASSUME RestoreInvariant, Kill
  PROVE  RestoreInvariant'
<1>1. /\ rpc = "write" /\ rpc' = "killed"
      /\ UNCHANGED << reader, opened, snapshot, target, before, chunks, errors, restored, backupVars >>
  BY DEF Kill, Goes
<1>2. archive # NoArchive /\ restored = "none"
  BY <1>1 DEF RestoreInvariant, ControlInvariant
<1>3. TypeOK'
  BY <1>1 DEF RestoreInvariant, TypeOK, backupVars, readVars
<1>4. ControlInvariant' /\ WriteInvariant'
  BY <1>1, <1>2 DEF ControlInvariant, WriteInvariant, backupVars
<1>5. TargetShowsTheImage'
  <2>1. TargetShowsTheImage
    BY DEF RestoreInvariant
  <2>2. QED
    BY <1>1, <2>1 DEF TargetShowsTheImage, ContentWith, Restoring
<1>6. RestoreSaysWhatItDid'
  BY <1>1, <1>2 DEF RestoreSaysWhatItDid, backupVars
<1>7. QED
  BY <1>3, <1>4, <1>5, <1>6 DEF RestoreInvariant

-----------------------------------------------------------------------------
(* The steps that touch none of the restore's own variables *)

\* Nothing but the archive's name, or nothing at all, has changed.
LEMMA OthersStep ==
  ASSUME RestoreInvariant, IsArchiveOrNone(archive'), archive # NoArchive => archive' # NoArchive,
         UNCHANGED << rpc, reader, opened, snapshot, target, before, chunks, errors, restored,
                      bpc, source, o, readVars >>
  PROVE  RestoreInvariant'
<1>1. TypeOK'
  BY DEF RestoreInvariant, TypeOK, readVars
<1>2. UNCHANGED << DiskEntry, Flat, IsDevice >>
  BY DEF DiskEntry, Flat, IsDevice
<1>3. ControlInvariant'
  <2>1. ControlInvariant
    BY DEF RestoreInvariant
  <2>2. Passed' = Passed
    BY DEF Passed, DiskError, Preflight, DiskEntry
  <2>3. TargetRefused(target.kind)' = TargetRefused(target.kind)
    BY <1>2 DEF TargetRefused, Fits
  <2>4. QED
    BY <2>1, <2>2, <2>3 DEF ControlInvariant
<1>4. WriteInvariant'
  <2>1. WriteInvariant
    BY DEF RestoreInvariant
  <2>2. QED
    BY <1>2, <2>1 DEF WriteInvariant, Restoring
<1>5. TargetShowsTheImage'
  <2>1. TargetShowsTheImage
    BY DEF RestoreInvariant
  <2>2. QED
    BY <2>1 DEF TargetShowsTheImage, ContentWith, Restoring
<1>6. RestoreSaysWhatItDid'
  <2>1. RestoreSaysWhatItDid
    BY DEF RestoreInvariant
  <2>2. QED
    BY <1>2, <2>1 DEF RestoreSaysWhatItDid, ContentWith, Restoring
<1>7. QED
  BY <1>1, <1>3, <1>4, <1>5, <1>6 DEF RestoreInvariant

LEMMA OverwriteStep ==
  ASSUME RestoreInvariant, Overwrite
  PROVE  RestoreInvariant'
<1>1. IsArchive(archive')
  BY DiskAssumption DEF Overwrite
<1>2. archive' # NoArchive
  <2>1. "header" \in DOMAIN archive'
    BY <1>1 DEF IsArchive
  <2>2. QED
    BY <2>1 DEF NoArchive
<1>3. QED
  BY <1>1, <1>2, OthersStep DEF Overwrite, IsArchiveOrNone

LEMMA StutterStep ==
  ASSUME RestoreInvariant, UNCHANGED vars
  PROVE  RestoreInvariant'
<1>1. /\ UNCHANGED << rpc, reader, opened, snapshot, target, before, chunks, errors, restored,
                      bpc, source, o, readVars >>
      /\ archive' = archive
  BY DEF vars, backupVars, restoreVars
<1>2. IsArchiveOrNone(archive)
  BY DEF RestoreInvariant, TypeOK
<1>3. QED
  BY <1>1, <1>2, OthersStep

-----------------------------------------------------------------------------
(* What a restore does *)

LEMMA DiskInit == Init => RestoreInvariant
<1> SUFFICES ASSUME Init
             PROVE  RestoreInvariant
  OBVIOUS
<1>1. IsSequence(<< >>)
  BY DEF IsSequence
<1>2. /\ bpc = "open" /\ source \in Sources /\ o \in DiskOptions
      /\ size = 0 /\ image = << >> /\ body = << >> /\ archive \in Earlier
  BY DEF Init, BackupInit
<1>3. /\ rpc = "idle" /\ opened = NoArchive /\ snapshot = NoArchive
      /\ target = NoTarget /\ before = NoTarget /\ chunks = << >> /\ errors = FALSE
      /\ restored = "none"
  BY DEF Init, RestoreInit
<1>4. IsTarget(NoTarget)
  BY <1>1 DEF IsTarget, NoTarget
<1>5. IsSource(source) /\ IsArchiveOrNone(archive)
  BY <1>2, DiskAssumption
<1>6. TypeOK
  <2>1. /\ size \in Nat /\ IsSequence(image) /\ IsSequence(body)
        /\ \A i \in DOMAIN body : IsFrame(body[i])
    BY <1>1, <1>2
  <2>2. Len(chunks) \in Nat /\ errors \in BOOLEAN
    BY <1>3
  <2>3. /\ bpc \in {"open", "read", "finish", "done", "gone"}
        /\ IsSource(source) /\ o \in DiskOptions /\ bpc \notin {"read", "finish"}
    BY <1>2, <1>5
  <2>4. IsArchiveOrNone(archive) /\ IsArchiveOrNone(opened) /\ IsArchiveOrNone(snapshot)
    BY <1>3, <1>5 DEF IsArchiveOrNone
  <2>5. IsTarget(target) /\ IsTarget(before)
    BY <1>3, <1>4
  <2>6. QED
    BY <1>3, <2>1, <2>2, <2>3, <2>4, <2>5 DEF TypeOK
<1>7. ControlInvariant /\ WriteInvariant
  BY <1>3 DEF ControlInvariant, WriteInvariant
<1>8. TargetShowsTheImage /\ RestoreSaysWhatItDid
  BY <1>3 DEF TargetShowsTheImage, RestoreSaysWhatItDid
<1>9. QED
  BY <1>6, <1>7, <1>8 DEF RestoreInvariant

\* The inductive invariant of zupt_disk_backup followed by zupt_disk_restore, for all
\* sources, options, targets, readers and faults: what a restore has written is the
\* beginning of the image that its private copy was tested to hold.
THEOREM DiskInvariance == Spec => []RestoreInvariant
<1>1. Init => RestoreInvariant
  BY DiskInit
<1>2. RestoreInvariant /\ [Next]_vars => RestoreInvariant'
  <2> SUFFICES ASSUME RestoreInvariant, [Next]_vars
               PROVE  RestoreInvariant'
    OBVIOUS
  <2>1. CASE BackupNext /\ UNCHANGED restoreVars
    BY <2>1, BackupStep
  <2>2. CASE RestoreNext
    BY <2>2, OpenArchiveStep, CopyPieceStep, CopyFailsStep, VerifyStep, OpenTargetStep,
       WriteNextStep, CloseStep, KillStep, OverwriteStep DEF RestoreNext
  <2>3. CASE UNCHANGED vars
    BY <2>3, StutterStep
  <2>4. QED
    BY <2>1, <2>2, <2>3 DEF Next
<1>3. QED
  BY <1>1, <1>2, PTL DEF Spec

\* Every variable of zupt_disk_backup and zupt_disk_restore keeps its type: the archive,
\* the copy of it and the target are always files that some writer could have left,
\* torn ones included.
THEOREM DiskTypeCorrect == Spec => []TypeOK
<1>1. RestoreInvariant => TypeOK
  BY DEF RestoreInvariant
<1>2. QED
  BY <1>1, DiskInvariance, PTL

\* zupt_disk_restore changes its target only after the test of its private copy, and a
\* device then shows a beginning of the image over what it held, a file all of
\* it: write errors, a kill and an archive overwritten meanwhile included.
THEOREM TargetIsTheImage == Spec => []TargetShowsTheImage
<1>1. RestoreInvariant => TargetShowsTheImage
  BY DEF RestoreInvariant
<1>2. QED
  BY <1>1, DiskInvariance, PTL

\* A zupt_disk_restore that returns OK has written the whole image, one that returns an
\* error has left a file as it was, and the archive is never lost.
THEOREM RestoreIsHonest == Spec => []RestoreSaysWhatItDid
<1>1. RestoreInvariant => RestoreSaysWhatItDid
  BY DEF RestoreInvariant
<1>2. QED
  BY <1>1, DiskInvariance, PTL
-----------------------------------------------------------------------------
(* What a reader makes of the frames of a backup *)

\* The fields of a frame as a writer makes it.
LEMMA FrameFields ==
  ASSUME NEW type, NEW codec, NEW data
  PROVE  LET f == Frame(type, codec, data)
             used == IF data \in Incompressible THEN "STORE" ELSE codec
         IN /\ f.intact /\ ~ f.sealed
            /\ f.type = type /\ f.codec = used /\ f.size = Len(data) /\ f.sum = data
            /\ f.pay.codec = used /\ f.pay.data = data
<1> DEFINE f == Frame(type, codec, data)
           used == IF data \in Incompressible THEN "STORE" ELSE codec
<1> DEFINE pay == [codec |-> used, data |-> data, seal |-> NoSeal]
<1> HIDE DEF used
<1>1. f = [intact |-> TRUE, type |-> type, codec |-> used, sealed |-> FALSE,
           size |-> Len(data), sum |-> data, pay |-> pay]
  BY DEF Frame, used
<1> HIDE DEF f, pay
<1>2. f.intact = TRUE /\ f.sealed = FALSE
  BY <1>1
<1>3. f.type = type /\ f.codec = used /\ f.size = Len(data) /\ f.sum = data /\ f.pay = pay
  BY <1>1
<1>4. QED
  BY <1>2, <1>3 DEF f, used, pay

\* Sealed with its preface, as every writer of today does.
Sealed(f, key, seq) == Seal(f, key, seq, TRUE)

\* What a seal leaves of a frame, and what it adds.
KeepsWhat(g, f, key, seq) ==
  /\ key = NoKey => g = f
  /\ key # NoKey => g.sealed /\ g.pay.seal = [key |-> key, seq |-> seq, preface |-> Preface(g)]
  /\ g.intact = f.intact /\ g.type = f.type /\ g.codec = f.codec
  /\ g.size = f.size /\ g.sum = f.sum
  /\ g.pay.codec = f.pay.codec /\ g.pay.data = f.pay.data

\* The same of a seal with its preface or without.
KeepsBound(g, f, key, seq, aad) ==
  /\ key = NoKey => g = f
  /\ key # NoKey => /\ g.sealed
                    /\ g.pay.seal = [key |-> key, seq |-> seq,
                                     preface |-> IF aad THEN Preface(g) ELSE << >>]
  /\ g.intact = f.intact /\ g.type = f.type /\ g.codec = f.codec
  /\ g.size = f.size /\ g.sum = f.sum
  /\ g.pay.codec = f.pay.codec /\ g.pay.data = f.pay.data

LEMMA BoundSealFields ==
  ASSUME NEW f, IsFrameRecord(f), NEW key, NEW seq, NEW aad
  PROVE  KeepsBound(Seal(f, key, seq, aad), f, key, seq, aad)
<1> DEFINE marked == [f EXCEPT !.sealed = TRUE]
           seal == [key |-> key, seq |-> seq, preface |-> IF aad THEN Preface(marked) ELSE << >>]
           g == [marked EXCEPT !.pay.seal = seal]
<1>1. CASE key = NoKey
  <2>1. Seal(f, key, seq, aad) = f
    BY <1>1, Zenon DEF Seal
  <2>2. QED
    BY <1>1, <2>1 DEF KeepsBound
<1>2. CASE key # NoKey
  <2>1. Seal(f, key, seq, aad) = g
    BY <1>2 DEF Seal
  <2> HIDE DEF seal
  <2> DEFINE pay == [f.pay EXCEPT !.seal = seal]
  <2>2. \A v : [f EXCEPT !.sealed = v]
               = [intact |-> f.intact, type |-> f.type, codec |-> f.codec, sealed |-> v,
                  size |-> f.size, sum |-> f.sum, pay |-> f.pay]
    BY Marked DEF IsFrameRecord
  <2>3. marked = [intact |-> f.intact, type |-> f.type, codec |-> f.codec, sealed |-> TRUE,
                  size |-> f.size, sum |-> f.sum, pay |-> f.pay]
    BY <2>2, Zenon
  <2>4. pay = [codec |-> f.pay.codec, data |-> f.pay.data, seal |-> seal]
    BY DEF IsFrameRecord
  <2>5. g = [marked EXCEPT !.pay = pay]
    <3>1. marked.pay = f.pay
      BY <2>3
    <3> HIDE DEF marked
    <3>2. QED
      BY <3>1
  <2> HIDE DEF pay, marked, g
  <2>6. g = [intact |-> f.intact, type |-> f.type, codec |-> f.codec, sealed |-> TRUE,
             size |-> f.size, sum |-> f.sum, pay |-> pay]
    BY <2>3, <2>5
  <2>7. /\ g.intact = f.intact /\ g.type = f.type /\ g.codec = f.codec /\ g.sealed = TRUE
        /\ g.size = f.size /\ g.sum = f.sum /\ g.pay = pay
    BY <2>6
  <2>8. /\ marked.type = f.type /\ marked.codec = f.codec /\ marked.sealed = TRUE
        /\ marked.size = f.size /\ marked.sum = f.sum
    BY <2>3
  <2>9. Preface(marked) = Preface(g)
    BY <2>7, <2>8 DEF Preface
  <2>10. pay.codec = f.pay.codec /\ pay.data = f.pay.data /\ pay.seal = seal
    BY <2>4
  <2>11. QED
    BY <1>2, <2>1, <2>7, <2>9, <2>10 DEF seal, KeepsBound
<1>3. QED
  BY <1>1, <1>2

LEMMA SealFields ==
  ASSUME NEW f, IsFrameRecord(f), NEW key, NEW seq
  PROVE  KeepsWhat(Sealed(f, key, seq), f, key, seq)
<1>1. \A aad : KeepsBound(Seal(f, key, seq, aad), f, key, seq, aad)
  BY BoundSealFields
<1>2. KeepsBound(Seal(f, key, seq, TRUE), f, key, seq, TRUE)
  BY <1>1, Zenon
<1>3. KeepsBound(Sealed(f, key, seq), f, key, seq, TRUE)
  BY <1>2 DEF Sealed
<1>4. QED
  BY <1>3 DEF KeepsBound, KeepsWhat

\* What a sealed frame of some data says to its reader, and one without a key.
LEMMA SealReads ==
  ASSUME NEW f, IsFrameRecord(f), ~ f.sealed, NEW key, NEW seq, NEW aad, aad <=> key # NoKey
  PROVE  SealError(Sealed(f, key, seq), key, seq, aad) = "OK"
<1> DEFINE g == Sealed(f, key, seq)
<1>1. KeepsWhat(g, f, key, seq)
  BY SealFields
<1> HIDE DEF g
<1>2. SealError(g, key, seq, aad) = "OK"
  <2>1. CASE key = NoKey
    BY <1>1, <2>1 DEF SealError, Check, KeepsWhat
  <2>2. CASE key # NoKey
    <3>1. Unseals(g, key, seq, aad)
      BY <1>1, <2>2 DEF Unseals, KeepsWhat
    <3>2. QED
      BY <1>1, <2>2, <3>1 DEF SealError, Check, ??, KeepsWhat
  <2>3. QED
    BY <2>1, <2>2
<1>3. QED
  BY <1>2 DEF g

\* A frame that gives its reader, who has the key and knows the number, some data.
Gives(g, type, data, key, seq, aad) ==
  /\ g.intact /\ g.type = type /\ g.size = Len(data) /\ g.sum = data
  /\ g.pay.data = data
  /\ BlockError(g, key, seq, aad) = "OK"
  /\ Decoded(g) = data

LEMMA SealedReads ==
  ASSUME NEW f, IsFrameRecord(f), f.intact, ~ f.sealed, f.codec \in Codecs, f.pay.codec = f.codec,
         NEW data, IsSequence(data), f.pay.data = data, f.size = Len(data), f.sum = data,
         NEW key, NEW seq, NEW aad, aad <=> key # NoKey
  PROVE  Gives(Sealed(f, key, seq), f.type, data, key, seq, aad)
<1> DEFINE g == Sealed(f, key, seq)
<1>1. KeepsWhat(g, f, key, seq)
  BY SealFields
<1>2. SealError(g, key, seq, aad) = "OK"
  BY SealReads
<1> HIDE DEF g
<1>3. /\ g.intact = f.intact /\ g.type = f.type /\ g.codec = f.codec /\ g.size = Len(data)
      /\ g.sum = data /\ g.pay.codec = f.codec /\ g.pay.data = data
  BY <1>1 DEF KeepsWhat
<1>4. Decoded(g) = data
  BY <1>3, IsSequenceInSeq, WholePrefix DEF Decoded
<1>5. ContentError(g) = "OK"
  <2>1. Len(data) \in Nat
    BY DEF IsSequence
  <2>2. DecodeError(g) = "OK"
    BY <1>3, <2>1 DEF DecodeError, Check, ??
  <2>3. QED
    BY <1>3, <1>4, <2>2 DEF ContentError, Check, ??
<1>6. BlockError(g, key, seq, aad) = "OK"
  BY <1>2, <1>5 DEF BlockError, ??
<1>7. Gives(g, f.type, data, key, seq, aad)
  BY <1>3, <1>4, <1>6 DEF Gives
<1>8. QED
  BY <1>7 DEF g

LEMMA FrameReads ==
  ASSUME NEW type, NEW codec \in Codecs, NEW data, IsSequence(data), NEW key, NEW seq,
         NEW aad, aad <=> key # NoKey
  PROVE  Gives(Sealed(Frame(type, codec, data), key, seq), type, data, key, seq, aad)
<1> DEFINE f == Frame(type, codec, data)
           used == IF data \in Incompressible THEN "STORE" ELSE codec
<1>1. IsFrameRecord(f) /\ f.intact /\ ~ f.sealed
  BY FrameType, FrameFields
<1>2. /\ f.type = type /\ f.codec = used /\ f.size = Len(data) /\ f.sum = data
      /\ f.pay.codec = used /\ f.pay.data = data
  BY FrameFields
<1>3. used \in Codecs
  BY DEF Codecs
<1> HIDE DEF used, f
<1>4. f.codec \in Codecs /\ f.pay.codec = f.codec
  BY <1>2, <1>3
<1>5. Gives(Sealed(f, key, seq), f.type, data, key, seq, aad)
  BY <1>1, <1>2, <1>4, SealedReads
<1>6. QED
  BY <1>2, <1>5 DEF f

\* The flags of a disk's archive.
LEMMA DiskFlags ==
  ASSUME NEW how, how.layout = "disk"
  PROVE  LET fl == Flags(how)
         IN /\ "SOLID" \notin fl /\ "DISK_IMAGE" \in fl /\ "DISK_CONTENT_HASH" \in fl
            /\ ("ENCRYPTED" \in fl <=> Encrypts(how)) /\ ("AAD_SEQ" \in fl <=> Encrypts(how))
            /\ ("AAD_PREFACE" \in fl <=> Encrypts(how))
            /\ ("DEDUP" \in fl <=> References(how))
            /\ ("AUTH_DEDUP_REFS" \in fl <=> References(how) /\ Encrypts(how))
  BY DEF Flags, When, Old, OnDisk

LEMMA KeyIsSomething ==
  ASSUME NEW how, how.kind \in NativeKinds \cup {"none"}
  PROVE  KeyFor(how) # NoKey <=> Encrypts(how)
  BY DEF KeyFor, NoKey, Key, Encrypts, NativeKinds

\* A reference, read with the key it was sealed with.
RefersTo(a, g, data, seq, offset, other, key) ==
  /\ g.intact /\ g.type = "DEDUP_REF" /\ g.size = Len(data) /\ g.sum = data
  /\ g.pay.data[1] = offset
  /\ Authenticated(a) => g.pay.data[2] = other
  /\ ReferenceError(a, g, key, seq) = "OK"

LEMMA ReferenceReads ==
  ASSUME NEW how, how.kind \in NativeKinds \cup {"none"}, NEW a,
         Authenticated(a) <=> Encrypts(how) /\ ~ Old(how), Aad(a) <=> Encrypts(how) /\ ~ Old(how),
         NEW piece, IsSequence(piece.data), NEW offset \in Nat, NEW goal
  PROVE  RefersTo(a, RefFrame(piece, offset, goal, how), piece.data, piece.seq, offset, goal.seq,
                  KeyFor(how))
<1> DEFINE bound == Encrypts(how) /\ ~ Old(how)
           payload == IF bound THEN << offset, goal.seq >> ELSE << offset >>
           frame == Frame("DEDUP_REF", "STORE", piece.data)
           plain == [frame EXCEPT !.codec = "STORE"]
           pay == [codec |-> "STORE", seal |-> NoSeal, data |-> payload]
           bare == [plain EXCEPT !.pay = pay]
           key == KeyFor(how)
           own == IF bound THEN key ELSE NoKey
           g == RefFrame(piece, offset, goal, how)
<1>1. IsFrameRecord(frame) /\ frame.intact /\ ~ frame.sealed
  BY FrameType, FrameFields
<1>2. frame.type = "DEDUP_REF" /\ frame.size = Len(piece.data) /\ frame.sum = piece.data
  BY FrameFields
<1>3. IsSequence(payload)
  <2>1. IsSequence(<< offset, goal.seq >>) /\ IsSequence(<< offset >>)
    BY DEF IsSequence
  <2>2. QED
    BY <2>1
<1>4. bound \in BOOLEAN /\ (Authenticated(a) <=> bound) /\ (Aad(a) <=> bound)
  OBVIOUS
<1>5. key # NoKey <=> Encrypts(how)
  BY KeyIsSomething
<1>6. g = Sealed(bare, own, piece.seq)
  <2>1. g = Sealed([frame EXCEPT !.codec = "STORE", !.pay = pay], own, piece.seq)
    BY Zenon DEF RefFrame, Sealed
  <2>2. [frame EXCEPT !.codec = "STORE", !.pay = pay] = bare
    OBVIOUS
  <2>3. QED
    BY <2>1, <2>2
<1>7. (bound => own = key /\ key # NoKey) /\ (~ bound => own = NoKey)
  BY <1>5
<1> HIDE DEF frame, payload, key, own, bound, g
<1>8. plain = [intact |-> frame.intact, type |-> frame.type, codec |-> "STORE",
                sealed |-> frame.sealed, size |-> frame.size, sum |-> frame.sum,
                pay |-> frame.pay]
  <2>1. IsFrameRecord(frame)
    BY <1>1
  <2>2. QED
    BY <2>1 DEF IsFrameRecord
<1> HIDE DEF plain
<1>9. bare = [intact |-> frame.intact, type |-> frame.type, codec |-> "STORE",
              sealed |-> frame.sealed, size |-> frame.size, sum |-> frame.sum,
              pay |-> [codec |-> "STORE", data |-> payload, seal |-> NoSeal]]
  BY <1>8
<1> HIDE DEF bare
<1>10. /\ bare.intact = frame.intact /\ bare.type = frame.type /\ bare.codec = "STORE"
       /\ bare.sealed = frame.sealed /\ bare.size = frame.size /\ bare.sum = frame.sum
       /\ bare.pay.data = payload
  BY <1>9
<1>11. IsFrameRecord(bare)
  BY <1>1, <1>3, <1>9 DEF IsFrameRecord, IsFrame
<1>12. KeepsWhat(g, bare, own, piece.seq)
  BY <1>6, <1>11, SealFields
<1>13. ReferenceError(a, g, key, piece.seq) = "OK"
  <2>1. CASE bound
    <3>1. Unseals(g, key, piece.seq, Aad(a))
      BY <1>4, <1>7, <1>12, <2>1 DEF Unseals, KeepsWhat
    <3>2. Len(g.pay.data) = 2
      BY <1>10, <1>12, <2>1 DEF payload, KeepsWhat
    <3>3. QED
      BY <1>4, <1>7, <1>10, <1>12, <2>1, <3>1, <3>2 DEF ReferenceError, Check, ??, KeepsWhat
  <2>2. CASE ~ bound
    <3>1. Len(g.pay.data) = 1 /\ g.pay.data[1] \in Nat
      BY <1>10, <1>12, <2>2 DEF payload, KeepsWhat
    <3>2. ~ g.sealed
      BY <1>1, <1>7, <1>10, <1>12, <2>2 DEF KeepsWhat
    <3>3. QED
      BY <1>4, <1>10, <1>12, <2>2, <3>1, <3>2 DEF ReferenceError, Check, ??, KeepsWhat
  <2>3. QED
    BY <2>1, <2>2
<1>14. g.pay.data[1] = offset /\ (Authenticated(a) => g.pay.data[2] = goal.seq)
  BY <1>4, <1>10, <1>12 DEF payload, KeepsWhat
<1>15. QED
  BY <1>1, <1>2, <1>10, <1>12, <1>13, <1>14 DEF g, key, KeepsWhat, RefersTo
-----------------------------------------------------------------------------
(* The blocks of an image *)

LEMMA Division ==
  ASSUME NEW L \in Nat, NEW B \in Nat \ {0}, NEW n, n = (L + B - 1) \div B
  PROVE  n \in Nat /\ n * B >= L /\ n * B < L + B
<1>1. n \in Int /\ n * B <= L + B - 1 /\ L + B - 1 < n * B + B
  OBVIOUS
<1>2. n >= 0
  BY <1>1
<1>3. QED
  BY <1>1, <1>2
LEMMA Unique ==
  ASSUME NEW L \in Nat, NEW B \in Nat \ {0}, NEW n \in Nat, n * B >= L, n * B < L + B
  PROVE  (L + B - 1) \div B = n
<1> DEFINE m == (L + B - 1) \div B
<1>1. m \in Nat /\ m * B >= L /\ m * B < L + B
  BY Division
<1> HIDE DEF m
<1>2. ~ (m < n) 
  <2>1. m < n => m + 1 <= n
    BY <1>1
  <2>2. m + 1 <= n => (m + 1) * B <= n * B
    BY <1>1
  <2>3. (m + 1) * B = m * B + B
    BY <1>1
  <2>4. QED
    BY <1>1, <2>1, <2>2, <2>3
<1>3. ~ (n < m) 
  <2>1. n < m => n + 1 <= m
    BY <1>1
  <2>2. n + 1 <= m => (n + 1) * B <= m * B
    BY <1>1
  <2>3. (n + 1) * B = n * B + B
    BY <1>1
  <2>4. QED
    BY <1>1, <2>1, <2>2, <2>3
<1>4. QED
  BY <1>1, <1>2, <1>3 DEF m

LEMMA Part ==
  ASSUME NEW U, NEW s \in Seq(U), NEW i \in Nat, NEW j \in Nat, i <= j, j <= Len(s)
  PROVE  SubSeq(s, i + 1, j) \in Seq(U) /\ Len(SubSeq(s, i + 1, j)) = j - i
  OBVIOUS

LEMMA PartOfMore ==
  ASSUME NEW U, NEW s \in Seq(U), NEW t \in Seq(U), NEW i \in Nat, NEW j \in Nat, j <= Len(s)
  PROVE  SubSeq(s \o t, i + 1, j) = SubSeq(s, i + 1, j)
  OBVIOUS

LEMMA PartBehind ==
  ASSUME NEW U, NEW s \in Seq(U), NEW t \in Seq(U)
  PROVE  /\ s \o t \in Seq(U) /\ Len(s \o t) = Len(s) + Len(t)
         /\ SubSeq(s \o t, Len(s) + 1, Len(s) + Len(t)) = t
  OBVIOUS

LEMMA AppendedValues ==
  ASSUME NEW n \in Nat, NEW U, NEW s, s = [b \in 1 .. n |-> s[b]], \A b \in 1 .. n : s[b] \in U,
         NEW x \in U
  PROVE  Append(s, x) = [b \in 1 .. n + 1 |-> IF b = n + 1 THEN x ELSE s[b]]
<1>1. s \in Seq(U) /\ Len(s) = n
  OBVIOUS
<1>2. QED
  BY <1>1

\* The blocks of some content are numbered through, none is empty, and they reach
\* the end of it.
LEMMA Blocks ==
  ASSUME NEW content, IsSequence(content)
  PROVE  LET blocks == BlocksOf(content)
             n == Len(blocks)
         IN /\ n \in Nat /\ n = (Len(content) + BlockSize - 1) \div BlockSize
            /\ n * BlockSize >= Len(content) /\ n * BlockSize < Len(content) + BlockSize
            /\ IsSequence(blocks) /\ DOMAIN blocks = 1 .. n
            /\ \A b \in 1 .. n : IsSequence(blocks[b]) /\ Len(blocks[b]) \in 1 .. BlockSize
<1> DEFINE blocks == BlocksOf(content)
           n == (Len(content) + BlockSize - 1) \div BlockSize
           from(b) == (b - 1) * BlockSize + 1
           to(b) == IF b * BlockSize < Len(content) THEN b * BlockSize ELSE Len(content)
<1>1. Len(content) \in Nat /\ BlockSize \in Nat \ {0}
  BY FormatAssumption DEF IsSequence
<1>2. n \in Nat /\ n * BlockSize >= Len(content) /\ n * BlockSize < Len(content) + BlockSize
  BY <1>1, Division
<1>3. blocks = [b \in 1 .. n |-> SubSeq(content, from(b), to(b))]
  BY DEF BlocksOf
<1> HIDE DEF blocks, n
<1>4. Len(blocks) = n /\ DOMAIN blocks = 1 .. n /\ IsSequence(blocks)
  <2>1. DOMAIN blocks = 1 .. n /\ Len(blocks) = n
    BY <1>2, <1>3
  <2>2. QED
    BY <1>2, <1>3, <2>1 DEF IsSequence
<1>5. ASSUME NEW b \in 1 .. n
      PROVE  IsSequence(blocks[b]) /\ Len(blocks[b]) \in 1 .. BlockSize
  <2>1. b * BlockSize \in Nat /\ (b - 1) * BlockSize \in Nat
        /\ b * BlockSize = (b - 1) * BlockSize + BlockSize
    BY <1>1, <1>2
  <2>2. (b - 1) * BlockSize < Len(content)
    <3>1. b <= n /\ b \in Nat /\ n \in Nat
      BY <1>2
    <3>2. b * BlockSize <= n * BlockSize
      BY <1>1, <3>1
    <3>3. QED
      BY <1>1, <1>2, <2>1, <3>2
  <2> DEFINE start == (b - 1) * BlockSize
             end == b * BlockSize
  <2> HIDE DEF start, end
  <2>3. to(b) \in Nat /\ start \in Nat /\ start <= to(b) /\ to(b) <= Len(content)
        /\ to(b) - start \in 1 .. BlockSize
    <3>1. to(b) = IF end < Len(content) THEN end ELSE Len(content)
      BY DEF end
    <3>2. end \in Nat /\ start \in Nat /\ end = start + BlockSize /\ start < Len(content)
      BY <2>1, <2>2 DEF start, end
    <3> HIDE DEF to
    <3>3. QED
      BY <1>1, <3>1, <3>2
  <2>4. blocks[b] = SubSeq(content, start + 1, to(b))
    BY <1>3 DEF start
  <2>5. content \in Seq(Range(content))
    BY IsSequenceInSeq
  <2> HIDE DEF from, to
  <2>6. blocks[b] \in Seq(Range(content)) /\ Len(blocks[b]) = to(b) - start
    BY <2>3, <2>4, <2>5, Part
  <2>7. QED
    BY <2>3, <2>6, SeqIsSequence
<1>6. QED
  BY <1>2, <1>4, <1>5 DEF blocks, n

\* A block more.
LEMMA OneBlockMore ==
  ASSUME NEW content, IsSequence(content), NEW data, IsSequence(data),
         Len(content) = Len(BlocksOf(content)) * BlockSize, Len(data) \in 1 .. BlockSize
  PROVE  BlocksOf(content \o data) = Append(BlocksOf(content), data)
<1> DEFINE n == Len(BlocksOf(content))
           all == content \o data
           U == Range(content) \cup Range(data)
           blocks == BlocksOf(content)
           block(c, b) == SubSeq(c, (b - 1) * BlockSize + 1,
                                 IF b * BlockSize < Len(c) THEN b * BlockSize ELSE Len(c))
<1>1. /\ n \in Nat /\ BlockSize \in Nat \ {0} /\ Len(content) = n * BlockSize
      /\ n = (Len(content) + BlockSize - 1) \div BlockSize
      /\ IsSequence(blocks) /\ DOMAIN blocks = 1 .. n
  BY Blocks, FormatAssumption
<1>2. content \in Seq(U) /\ data \in Seq(U)
  <2>1. \A i \in 1 .. Len(content) : content[i] \in Range(content)
    BY IsSequenceInSeq
  <2>2. \A i \in 1 .. Len(data) : data[i] \in Range(data)
    BY IsSequenceInSeq
  <2>3. QED
    BY <2>1, <2>2 DEF IsSequence
<1>3. /\ all \in Seq(U) /\ Len(all) = Len(content) + Len(data)
      /\ SubSeq(all, Len(content) + 1, Len(content) + Len(data)) = data
  BY <1>2, PartBehind
<1> DEFINE whole == n * BlockSize
<1> HIDE DEF all, U
<1>4. /\ whole \in Nat /\ (n + 1) * BlockSize = whole + BlockSize /\ Len(content) = whole
      /\ Len(data) \in Nat
  <2> HIDE DEF n
  <2>1. n \in Nat /\ BlockSize \in Nat /\ Len(content) = n * BlockSize
    BY <1>1
  <2>2. QED
    BY <2>1, FormatAssumption
<1> HIDE DEF whole, n
<1>5. (Len(all) + BlockSize - 1) \div BlockSize = n + 1
  <2> DEFINE next == (n + 1) * BlockSize
  <2>1. Len(all) = whole + Len(data) /\ next = whole + BlockSize
    BY <1>3, <1>4
  <2> HIDE DEF next
  <2>2. Len(all) \in Nat /\ next >= Len(all) /\ next < Len(all) + BlockSize
    BY <1>1, <1>4, <2>1
  <2>3. n + 1 \in Nat
    BY <1>1
  <2>4. QED
    BY <1>1, <2>2, <2>3, Unique DEF next
<1>6. BlocksOf(all) = [b \in 1 .. n + 1 |-> block(all, b)]
  BY <1>5 DEF BlocksOf
<1>7. blocks = [b \in 1 .. n |-> block(content, b)]
  BY <1>1 DEF BlocksOf
<1>8. block(all, n + 1) = data
  <2>2. (IF (n + 1) * BlockSize < Len(all) THEN (n + 1) * BlockSize ELSE Len(all))
        = Len(content) + Len(data)
    <3> DEFINE next == (n + 1) * BlockSize
    <3>1. next = whole + BlockSize
      BY <1>4
    <3> HIDE DEF next
    <3>2. (IF next < Len(all) THEN next ELSE Len(all)) = Len(content) + Len(data)
      <4>1. /\ BlockSize \in Nat /\ whole \in Nat /\ Len(data) \in 1 .. BlockSize
            /\ Len(content) = whole /\ Len(all) = Len(content) + Len(data)
        BY <1>1, <1>3, <1>4
      <4>2. QED
        BY <3>1, <4>1
    <3>3. QED
      BY <3>2 DEF next
  <2>3. ((n + 1) - 1) * BlockSize = Len(content)
    BY <1>1, <1>4 DEF whole
  <2>4. QED
    BY <1>3, <2>2, <2>3
<1>9. ASSUME NEW b \in 1 .. n
      PROVE  block(all, b) = block(content, b)
  <2> DEFINE start == (b - 1) * BlockSize
             end == b * BlockSize
  <2>1. start \in Nat /\ end \in Nat /\ end <= whole
    BY <1>1 DEF whole
  <2> HIDE DEF start, end
  <2>2. block(all, b) = SubSeq(all, start + 1, end)
    <3>1. (IF end < Len(all) THEN end ELSE Len(all)) = end
      BY <1>3, <1>4, <2>1
    <3>2. QED
      BY <3>1 DEF start, end
  <2>3. block(content, b) = SubSeq(content, start + 1, end)
    <3>1. (IF end < Len(content) THEN end ELSE Len(content)) = end
      BY <1>4, <2>1
    <3>2. QED
      BY <3>1 DEF start, end
  <2>4. SubSeq(all, start + 1, end) = SubSeq(content, start + 1, end)
    BY <1>2, <1>4, <2>1, PartOfMore DEF all
  <2>5. QED
    BY <2>2, <2>3, <2>4
<1> HIDE DEF blocks, n, block
<1>10. Append(blocks, data) = [b \in 1 .. n + 1 |-> IF b = n + 1 THEN data ELSE blocks[b]]
  <2> DEFINE V == Range(blocks) \cup {data}
  <2>1. blocks = [b \in 1 .. n |-> blocks[b]]
    BY <1>7
  <2>2. \A b \in 1 .. n : blocks[b] \in V
    BY <1>1 DEF Range
  <2>3. data \in V
    OBVIOUS
  <2>4. n \in Nat
    BY <1>1
  <2> HIDE DEF V
  <2>5. QED
    BY <2>1, <2>2, <2>3, <2>4, AppendedValues
<1>11. Append(blocks, data) = BlocksOf(all)
  <2>1. \A b \in 1 .. n + 1 : (IF b = n + 1 THEN data ELSE blocks[b]) = block(all, b)
    <3> TAKE b \in 1 .. n + 1
    <3>1. CASE b = n + 1
      BY <1>8, <3>1
    <3>2. CASE b # n + 1
      <4>1. b \in 1 .. n
        BY <1>1, <3>2
      <4>2. QED
        BY <1>7, <1>9, <3>2, <4>1
    <3>3. QED
      BY <3>1, <3>2
  <2>2. QED
    BY <1>6, <1>10, <2>1
<1>12. QED
  BY <1>11 DEF all, blocks
LEMMA Two ==
  ASSUME NEW x, NEW y, NEW S, NEW s \in Seq(S), Len(s) = 2, s[1] = x, s[2] = y
  PROVE  s = << x, y >>
  OBVIOUS

LEMMA Joined ==
  ASSUME NEW S, NEW p \in Seq(S), NEW q \in Seq(S), Len(p) = 1, Len(q) = 1
  PROVE  p \o q = << p[1], q[1] >>
<1>1. p \o q \in Seq(S) /\ Len(p \o q) = 2
  OBVIOUS
<1>2. (p \o q)[1] = p[1]
  OBVIOUS
<1>3. (p \o q)[2] = q[1]
  <2>0. SubSeq(p \o q, Len(p) + 1, Len(p) + Len(q)) = q
    BY PartBehind
  <2>1. SubSeq(p \o q, 2, 2) = q
    <3>1. Len(p) + 1 = 2 /\ Len(p) + Len(q) = 2
      OBVIOUS
    <3>2. QED
      BY <2>0, <3>1, Zenon
  <2>2. SubSeq(p \o q, 2, 2)[1] = (p \o q)[2]
    BY <1>1
  <2>3. QED
    BY <2>1, <2>2
<1>4. QED
  BY <1>1, <1>2, <1>3, Two

LEMMA Couple ==
  ASSUME NEW x, NEW y
  PROVE  << x >> \o << y >> = << x, y >>
<1> DEFINE p == << x >>
           q == << y >>
<1>1. p \in Seq({x, y}) /\ q \in Seq({x, y}) /\ Len(p) = 1 /\ Len(q) = 1 /\ p[1] = x /\ q[1] = y
  OBVIOUS
<1> HIDE DEF p, q
<1>2. p \o q = << p[1], q[1] >>
  BY <1>1, Joined
<1>3. QED
  BY <1>1, <1>2 DEF p, q

\* All blocks of an image hold data, and the chained hash is over all of them.
LEMMA AllHoldData ==
  ASSUME NEW S, NEW s \in Seq(S), \A i \in 1 .. Len(s) : s[i] # << >>
  PROVE  WithData(s) = s
<1> DEFINE w == [k \in DOMAIN s |-> IF s[k] = << >> THEN << >> ELSE << s[k] >>]
           n == Len(s)
           T == {k \in Nat : k <= n => FlattenSeq(SubSeq(w, 1, k)) = SubSeq(s, 1, k)}
<1>1. n \in Nat /\ DOMAIN s = 1 .. n /\ \A i \in 1 .. n : s[i] \in S
  OBVIOUS
<1>2. w = [k \in 1 .. n |-> << s[k] >>]
  BY <1>1
<1> HIDE DEF w
<1>3. w \in Seq(Seq(S)) /\ Len(w) = n /\ \A k \in 1 .. n : w[k] = << s[k] >>
  BY <1>1, <1>2
<1>4. 0 \in T
  <2>1. SubSeq(w, 1, 0) = << >> /\ SubSeq(s, 1, 0) = << >>
    BY <1>3
  <2>2. QED
    BY <2>1, FlattenEmpty
<1>5. ASSUME NEW k \in 0 .. n - 1, k \in T
      PROVE  k + 1 \in T
  <2>1. k \in Nat /\ k + 1 \in 1 .. n /\ k <= n
    BY <1>1
  <2>2. SubSeq(w, 1, k + 1) = Append(SubSeq(w, 1, k), w[k + 1])
    BY <1>3, PrefixGrows
  <2>3. SubSeq(s, 1, k + 1) = Append(SubSeq(s, 1, k), s[k + 1])
    BY <1>1, PrefixGrows
  <2>4. SubSeq(w, 1, k) \in Seq(Seq(S)) /\ SubSeq(s, 1, k) \in Seq(S)
    BY <1>1, <1>3, <2>1, Prefix
  <2>5. FlattenSeq(SubSeq(w, 1, k)) = SubSeq(s, 1, k)
    BY <1>5, <2>1
  <2>6. w[k + 1] = << s[k + 1] >> /\ s[k + 1] \in S
    BY <1>1, <1>3, <2>1
  <2>7. FlattenSeq(SubSeq(w, 1, k + 1)) = FlattenSeq(SubSeq(w, 1, k)) \o w[k + 1]
    <3> DEFINE p == SubSeq(w, 1, k)
               x == w[k + 1]
    <3>1. p \in Seq(Seq(S)) /\ x \in Seq(S)
      BY <2>4, <2>6
    <3> HIDE DEF p, x
    <3>2. FlattenSeq(Append(p, x)) = FlattenSeq(p) \o x
      BY <3>1, FlattenAppend
    <3>3. QED
      BY <2>2, <3>2 DEF p, x
  <2>8. SubSeq(s, 1, k) \o << s[k + 1] >> = Append(SubSeq(s, 1, k), s[k + 1])
    BY <2>4, <2>6
  <2>9. QED
    BY <2>1, <2>3, <2>5, <2>6, <2>7, <2>8
<1>6. n \in T
  <2> HIDE DEF T, n
  <2>1. \A k \in 0 .. n : k \in T
    BY <1>1, <1>4, <1>5, BoundedInduction
  <2>2. QED
    BY <1>1, <2>1
<1>7. SubSeq(w, 1, n) = w /\ SubSeq(s, 1, n) = s
  BY <1>3, WholePrefix
<1>8. FlattenSeq(w) = s
  <2>1. FlattenSeq(SubSeq(w, 1, n)) = SubSeq(s, 1, n)
    BY <1>1, <1>6
  <2> HIDE DEF n
  <2>2. QED
    BY <1>7, <2>1
<1>9. QED
  BY <1>8 DEF WithData, w

\* The parts of a disk's archive.
Disk(frames, path, content, how) == Closed(frames, << [path |-> path, content |-> content] >>, how)
DiskIndex(frames, path, content, how) ==
  IndexFrame(<< [path |-> path, content |-> content] >>, Base(how), how)
DiskRecord(path, content, how) ==
  Entry(path, Len(content), BlocksOf(content), Base(how) + 1, Len(BlocksOf(content)))
IsDiskOf(a, frames, path, content, how) ==
  /\ a.header.magic /\ a.header.version /\ a.header.flags = Flags(how)
  /\ a.header.encOffset = Base(how) /\ a.header.commentOffset = 0
  /\ a.frames = Append(frames, DiskIndex(frames, path, content, how))
  /\ a.footer.magic /\ a.footer.version /\ a.footer.index = Len(frames) + 1
  /\ a.footer.total = Len(frames) - Base(how)
  /\ a.trailer = TrailerOf(a.header, a.footer, KeyFor(how))

LEMMA DiskParts ==
  ASSUME NEW frames, NEW path, NEW content, NEW how, how.layout = "disk",
         Len(frames) \in Nat
  PROVE  IsDiskOf(Disk(frames, path, content, how), frames, path, content, how)
<1> DEFINE index == DiskIndex(frames, path, content, how)
           header == [magic |-> TRUE, version |-> TRUE, flags |-> Flags(how),
                      encOffset |-> Base(how), commentOffset |-> 0]
           footer == [magic |-> TRUE, version |-> TRUE, index |-> Len(frames) + 1,
                      total |-> Len(frames) - Base(how) + 0]
           trailer == TrailerOf(header, footer, KeyFor(how))
           a == Disk(frames, path, content, how)
<1>1. ~ HasComment(how)
  BY DEF HasComment, OnDisk
<1>2. a = [header |-> header, frames |-> Append(frames, index), footer |-> footer,
           trailer |-> trailer]
  BY <1>1 DEF Closed, Disk, DiskIndex
<1> HIDE DEF header, footer, index, a, trailer
<1>3. a.header = header /\ a.frames = Append(frames, index) /\ a.footer = footer
      /\ a.trailer = trailer
  BY <1>2
<1>4. /\ header.magic = TRUE /\ header.version = TRUE /\ header.flags = Flags(how)
      /\ header.encOffset = Base(how) /\ header.commentOffset = 0
  BY DEF header
<1>5. /\ footer.magic = TRUE /\ footer.version = TRUE /\ footer.index = Len(frames) + 1
      /\ footer.total = Len(frames) - Base(how) + 0
  BY DEF footer
<1>6. Len(frames) - Base(how) + 0 = Len(frames) - Base(how)
  BY DEF Base
<1>7. QED
  BY <1>3, <1>4, <1>5, <1>6 DEF IsDiskOf, a, index, trailer

\* The index: one entry, under the archive's seal.
LEMMA IndexIsSealed ==
  ASSUME NEW frames, NEW path, NEW content, NEW how, how.layout = "disk"
  PROVE  \E data : /\ DiskIndex(frames, path, content, how)
                      = Sealed(Frame("INDEX", "STORE", data), KeyFor(how), IndexSeq)
                   /\ IsSequence(data) /\ data # << >> /\ data[1].form = "varint"
                   /\ Tail(data) = << DiskRecord(path, content, how) >>
<1> DEFINE file == [path |-> path, content |-> content]
           data == IndexData(<< file >>, Base(how), how)
           first == [form |-> "varint", count |-> 1]
           record == DiskRecord(path, content, how)
           index == DiskIndex(frames, path, content, how)
<1>1. ~ Old(how) /\ OnDisk(how)
  BY DEF Old, OnDisk
<1>2. EntryOf(<< file >>, 1, Base(how), how) = record
  <2>1. BlocksBefore(<< file >>, 1) = << >>
    <3>1. [j \in 1 .. 1 - 1 |-> BlocksOf(<< file >>[j].content)] = << >>
      OBVIOUS
    <3>2. QED
      BY <3>1, FlattenEmpty DEF BlocksBefore
  <2>2. << file >>[1] = file /\ file.path = path /\ file.content = content
    OBVIOUS
  <2> HIDE DEF file
  <2>3. EntryOf(<< file >>, 1, Base(how), how)
        = Entry(path, Len(content), BlocksOf(content), Base(how) + 0 + 1, Len(BlocksOf(content)))
    BY <1>1, <2>1, <2>2 DEF EntryOf
  <2>4. Base(how) + 0 + 1 = Base(how) + 1
    BY DEF Base
  <2>5. QED
    BY <2>3, <2>4 DEF DiskRecord
<1>3. data = << first, record >>
  <2>1. data = << first >> \o [i \in DOMAIN << file >> |-> EntryOf(<< file >>, i, Base(how), how)]
    BY <1>1 DEF IndexData
  <2>2. DOMAIN << file >> = 1 .. 1
    OBVIOUS
  <2> HIDE DEF file, first, record, data
  <2>3. [i \in DOMAIN << file >> |-> EntryOf(<< file >>, i, Base(how), how)] = << record >>
    BY <1>2, <2>2
  <2>4. << first >> \o << record >> = << first, record >>
    BY Couple
  <2>5. QED
    BY <2>1, <2>3, <2>4
<1>4. index = Sealed(Frame("INDEX", "STORE", data), KeyFor(how), IndexSeq)
  <2>1. index = Seal(Frame("INDEX", IF OnDisk(how) THEN "STORE" ELSE "LZH", data),
                     IF Old(how) THEN NoKey ELSE KeyFor(how), IndexSeq, TRUE)
    BY Zenon DEF DiskIndex, IndexFrame
  <2>2. (IF OnDisk(how) THEN "STORE" ELSE "LZH") = "STORE"
        /\ (IF Old(how) THEN NoKey ELSE KeyFor(how)) = KeyFor(how)
    BY <1>1
  <2> HIDE DEF data, index
  <2>3. QED
    BY <2>1, <2>2, Zenon DEF Sealed
<1> HIDE DEF data, record, first, index
<1>5. IsSequence(data)
  BY <1>3 DEF IsSequence
<1>6. data # << >> /\ data[1] = first /\ Tail(data) = << record >>
  BY <1>3
<1>7. QED
  BY <1>4, <1>5, <1>6 DEF index, first, record

\* Read with the archive's key.
LEMMA IndexReads ==
  ASSUME NEW frames, NEW path, NEW content, NEW how, how.layout = "disk",
         how.kind \in NativeKinds \cup {"none"}, NEW aad, aad <=> Encrypts(how)
  PROVE  \E data : /\ Gives(DiskIndex(frames, path, content, how), "INDEX", data,
                            KeyFor(how), IndexSeq, aad)
                   /\ data # << >> /\ data[1].form = "varint"
                   /\ Tail(data) = << DiskRecord(path, content, how) >>
<1> DEFINE index == DiskIndex(frames, path, content, how)
<1>1. PICK data : /\ index = Sealed(Frame("INDEX", "STORE", data), KeyFor(how), IndexSeq)
                  /\ IsSequence(data) /\ data # << >> /\ data[1].form = "varint"
                  /\ Tail(data) = << DiskRecord(path, content, how) >>
  BY IndexIsSealed
<1>2. KeyFor(how) # NoKey <=> Encrypts(how)
  BY KeyIsSomething
<1> HIDE DEF index
<1>3. Gives(index, "INDEX", data, KeyFor(how), IndexSeq, aad)
  BY <1>1, <1>2, FrameReads DEF Codecs
<1>4. QED
  BY <1>1, <1>3 DEF index

-----------------------------------------------------------------------------
(* The archive of a backup, read by its owner *)

\* What is given of a disk's archive, and who reads it.
IsBackup(a, frames, path, content, how, r) ==
  /\ how \in DiskOptions /\ how.kind \in NativeKinds \cup {"none"}
  /\ IsSequence(frames) /\ IsSequence(content) /\ HoldsImage(frames, content, how)
  /\ r.quota = 0
  /\ Encrypts(how) => r.secret.form = FormOf(how.kind) /\ r.secret.value = how.value
  /\ IsDiskOf(a, frames, path, content, how)

\* Who reads it with the right secret has the key it was written with.
LEMMA OwnerHasTheKey ==
  ASSUME NEW a, NEW frames, NEW path, NEW content, NEW how, NEW r,
         IsBackup(a, frames, path, content, how, r)
  PROVE  /\ how.layout = "disk" /\ how.codec \in Codecs
         /\ (Flag(a, "ENCRYPTED") <=> Encrypts(how)) /\ (Aad(a) <=> Encrypts(how))
         /\ ~ OldDisk(a) /\ ~ Flag(a, "SOLID") /\ Flag(a, "DISK_IMAGE")
         /\ (Authenticated(a) <=> References(how) /\ Encrypts(how))
         /\ KeyOf(a, r) = KeyFor(how) /\ EncHeaderError(a, r) = "OK" /\ FlagsError(a) = "OK"
<1>1. how.layout = "disk" /\ how.codec \in Codecs
  BY DiskAssumption DEF IsBackup
<1>2. /\ a.header.flags = Flags(how) /\ a.header.encOffset = Base(how)
      /\ a.frames = Append(frames, DiskIndex(frames, path, content, how))
      /\ a.footer.index = Len(frames) + 1 /\ Len(frames) \in Nat
  BY DEF IsBackup, IsDiskOf, IsSequence
<1>3. /\ (Flag(a, "ENCRYPTED") <=> Encrypts(how)) /\ (Aad(a) <=> Encrypts(how))
      /\ ~ OldDisk(a) /\ ~ Flag(a, "SOLID") /\ Flag(a, "DISK_IMAGE")
      /\ (Authenticated(a) <=> References(how) /\ Encrypts(how))
  BY <1>1, <1>2, DiskFlags DEF Flag, Aad, OldDisk, Authenticated
<1>4. FlagsError(a) = "OK"
  BY <1>1, <1>2, DiskFlags DEF FlagsError, Requires, Flag, Check, ??
<1>5. CASE ~ Encrypts(how)
  BY <1>1, <1>3, <1>4, <1>5 DEF KeyOf, KeyFor, EncHeaderError
<1>6. CASE Encrypts(how)
  <2>1. how.kind \in NativeKinds
    BY <1>6 DEF IsBackup, Encrypts
  <2>2. Len(frames) >= 1 /\ frames[1] = EncFrame(how)
    <3>1. /\ frames[1] = EncFrame(how)
          /\ Len(frames) = Base(how) + Len(BlocksOf(content)) /\ IsSequence(content)
      BY <1>6 DEF IsBackup, HoldsImage
    <3>2. Base(how) = 1 /\ Len(BlocksOf(content)) \in Nat
      BY <1>6, <3>1, Blocks DEF Base
    <3>3. QED
      BY <3>1, <3>2
  <2>3. a.frames[1] = EncFrame(how) /\ 1 \in DOMAIN a.frames /\ Len(a.frames) = Len(frames) + 1
    <3> DEFINE index == DiskIndex(frames, path, content, how)
               S == Range(frames) \cup {index}
    <3>1. frames \in Seq(S) /\ index \in S
      <4>1. \A i \in 1 .. Len(frames) : frames[i] \in Range(frames)
        BY IsSequenceInSeq DEF IsBackup
      <4>2. QED
        BY <1>2, <4>1 DEF IsBackup, IsSequence
    <3> HIDE DEF S, index
    <3>2. /\ Append(frames, index)[1] = frames[1] /\ 1 \in DOMAIN Append(frames, index)
          /\ Len(Append(frames, index)) = Len(frames) + 1
      BY <2>2, <3>1
    <3>3. QED
      BY <1>2, <2>2, <3>2 DEF index
  <2>4. a.header.encOffset = 1
    BY <1>2, <1>6 DEF Base
  <2> DEFINE key == Key(how.kind, how.value)
             frame == EncFrame(how)
  <2>5. /\ frame.intact /\ ~ frame.sealed /\ frame.type = "ENC_HEADER" /\ frame.codec = "STORE"
        /\ frame.size = Len(<< key >>) /\ frame.sum = << key >> /\ frame.pay.data = << key >>
    <3> DEFINE data == << key >>
    <3>1. frame = Frame("ENC_HEADER", "STORE", data)
      BY DEF EncFrame
    <3> HIDE DEF data, frame
    <3>2. /\ frame.intact /\ ~ frame.sealed /\ frame.type = "ENC_HEADER"
          /\ frame.codec = (IF data \in Incompressible THEN "STORE" ELSE "STORE")
          /\ frame.size = Len(data) /\ frame.sum = data /\ frame.pay.data = data
      BY <3>1, FrameFields
    <3>3. QED
      BY <3>2 DEF data
  <2> HIDE DEF frame
  <2>6. EncFrameError(frame) = "OK"
    BY <2>5 DEF EncFrameError, Check, ??
  <2>7. Kind(a) = how.kind
    BY <2>3, <2>4, <2>5 DEF Kind, Key, frame
  <2>8. r.secret.form = FormOf(how.kind) /\ r.secret.value = how.value
    BY <1>6 DEF IsBackup
  <2>9. SecretError(Kind(a), r) = "OK"
    BY <2>1, <2>7, <2>8 DEF SecretError, Check
  <2>10. ReadError(a, 1) = "OK"
    BY <1>2, <2>2, <2>3, <2>5 DEF ReadError, EndOfFile, Check, ??, frame
  <2>11. EncHeaderError(a, r) = "OK"
    BY <1>2, <2>3, <2>4, <2>6, <2>9, <2>10 DEF EncHeaderError, EndOfFile, Check, ??, frame
  <2>12. KeyOf(a, r) = KeyFor(how)
    BY <1>3, <1>6, <2>7, <2>8 DEF KeyOf, KeyFor
  <2>13. QED
    BY <1>1, <1>3, <1>4, <2>11, <2>12
<1>7. QED
  BY <1>5, <1>6

\* The frames of an archive are those of its image, and the index.
LEMMA FramesOfBackup ==
  ASSUME NEW a, NEW frames, NEW path, NEW content, NEW how, NEW r,
         IsBackup(a, frames, path, content, how, r)
  PROVE  /\ DOMAIN a.frames = 1 .. Len(frames) + 1 /\ Len(a.frames) = Len(frames) + 1
         /\ \A i \in 1 .. Len(frames) : a.frames[i] = frames[i]
         /\ a.frames[Len(frames) + 1] = DiskIndex(frames, path, content, how)
         /\ Len(frames) \in Nat
<1> DEFINE index == DiskIndex(frames, path, content, how)
           S == Range(frames) \cup {index}
<1>1. frames \in Seq(S) /\ index \in S /\ Len(frames) \in Nat
  <2>1. \A i \in 1 .. Len(frames) : frames[i] \in Range(frames)
    BY IsSequenceInSeq DEF IsBackup
  <2>2. QED
    BY <2>1 DEF IsBackup, IsSequence
<1>2. a.frames = Append(frames, index)
  BY DEF IsBackup, IsDiskOf
<1> HIDE DEF S, index
<1>3. QED
  BY <1>1, <1>2 DEF index

\* The archive opens, and has one entry with an accepted name.
LEMMA BackupOpens ==
  ASSUME NEW a, NEW frames, NEW path, NEW content, NEW how, NEW r,
         IsBackup(a, frames, path, content, how, r)
  PROVE  /\ OpenError(a, r) = "OK"
         /\ Entries(a) = << DiskRecord(path, content, how) >>
         /\ NameIsAccepted(path) => PathsError(a) = "OK"
<1> DEFINE index == DiskIndex(frames, path, content, how)
           record == DiskRecord(path, content, how)
           key == KeyFor(how)
<1>1. /\ a.header.magic /\ a.header.version /\ a.header.commentOffset = 0
      /\ a.footer.magic /\ a.footer.version /\ a.footer.index = Len(frames) + 1
      /\ a.trailer = TrailerOf(a.header, a.footer, KeyFor(how))
      /\ IsSequence(content) /\ how.kind \in NativeKinds \cup {"none"}
  BY DEF IsBackup, IsDiskOf
<1>2. /\ how.layout = "disk" /\ ~ OldDisk(a) /\ (Aad(a) <=> Encrypts(how))
      /\ KeyOf(a, r) = key /\ EncHeaderError(a, r) = "OK" /\ FlagsError(a) = "OK"
  BY OwnerHasTheKey
<1>3. PICK data : /\ Gives(index, "INDEX", data, key, IndexSeq, Aad(a))
                  /\ data # << >> /\ data[1].form = "varint" /\ Tail(data) = << record >>
  <2>1. ASSUME NEW aad, aad <=> Encrypts(how)
        PROVE  \E data : /\ Gives(index, "INDEX", data, key, IndexSeq, aad)
                         /\ data # << >> /\ data[1].form = "varint"
                         /\ Tail(data) = << record >>
    <3>1. /\ IsSequence(content) /\ how.layout = "disk"
          /\ how.kind \in NativeKinds \cup {"none"}
      BY <1>1, <1>2
    <3>2. QED
      BY <2>1, <3>1, IndexReads
  <2> HIDE DEF index, key, record
  <2>2. QED
    BY <1>2, <2>1, Zenon
<1>4. a.frames[a.footer.index] = index /\ a.footer.index \in DOMAIN a.frames
      /\ a.footer.index < EndOfFile(a)
  BY <1>1, FramesOfBackup DEF EndOfFile
<1> HIDE DEF index, key, record
<1>5. /\ index.intact /\ index.type = "INDEX" /\ BlockError(index, key, IndexSeq, Aad(a)) = "OK"
      /\ Decoded(index) = data
  BY <1>3 DEF Gives
<1>6. IndexError(a, key) = "OK"
  <2>1. ReadError(a, a.footer.index) = "OK"
    BY <1>1, <1>4, <1>5, FramesOfBackup DEF ReadError, Check, ??, EndOfFile
  <2>2. ParseError(a, data) = "OK"
    BY <1>2, <1>3 DEF ParseError, Check, ??
  <2>3. Check(a.footer.index <= EndOfFile(a), "CORRUPT") = "OK"
    BY <1>1, FramesOfBackup DEF EndOfFile, Check
  <2>4. QED
    BY <1>2, <1>4, <1>5, <2>1, <2>2, <2>3 DEF IndexError, Check, ??
<1>7. TrailerError(a, key) = "OK"
  BY <1>1 DEF TrailerError, TrailerOf, Check, key
<1>8. CommentError(a, key) = "OK"
  BY <1>1 DEF CommentError
<1>9. a.trailer.present = TRUE
  BY <1>1 DEF TrailerOf
<1>10. OpenError(a, r) = "OK"
  BY <1>1, <1>2, <1>6, <1>7, <1>8, <1>9
     DEF OpenError, HeaderError, FooterError, MetadataError, Check, ??
<1>11. Entries(a) = << record >>
  BY <1>3, <1>4, <1>5 DEF Entries
<1>12. ASSUME NameIsAccepted(path)
       PROVE  PathsError(a) = "OK"
  <2>1. record.path = path
    BY DEF record, DiskRecord, Entry
  <2>2. DOMAIN << record >> = {1} /\ << record >>[1] = record
    OBVIOUS
  <2>3. [i \in DOMAIN Entries(a) |-> Entries(a)[i].path] = << path >>
    BY <1>11, <2>1, <2>2
  <2>4. \A i \in DOMAIN Entries(a) : ~ HasUnsafeText(Entries(a)[i].path)
    BY <1>11, <1>12, <2>1, <2>2 DEF NameIsAccepted
  <2>5. ValidDestinations([i \in DOMAIN Entries(a) |-> Entries(a)[i].path])
    BY <1>12, <2>3 DEF NameIsAccepted
  <2>6. QED
    BY <2>4, <2>5 DEF PathsError, Check, ??
<1>13. QED
  BY <1>10, <1>11, <1>12 DEF record

\* A frame of data, read at its place or through a reference to it.
LEMMA DataReads ==
  ASSUME NEW a, NEW frames, NEW path, NEW content, NEW how, NEW r,
         IsBackup(a, frames, path, content, how, r),
         NEW k \in 1 .. Len(BlocksOf(content)), HoldsData(frames, content, how, k),
         NEW seq, Encrypts(how) => seq = k - 1
  PROVE  Gives(frames[Base(how) + k], "DATA", BlocksOf(content)[k], KeyFor(how), seq, Aad(a))
<1> DEFINE piece == Piece(content, k)
           codec == IF OnDisk(how) /\ IsZeroBlock(piece.data) THEN "STORE" ELSE how.codec
           key == KeyFor(how)
           data == BlocksOf(content)[k]
<1>1. how.layout = "disk" /\ how.codec \in Codecs /\ (Aad(a) <=> Encrypts(how))
  BY OwnerHasTheKey
<1>2. key # NoKey <=> Encrypts(how)
  BY KeyIsSomething DEF IsBackup
<1>3. codec \in Codecs
  BY <1>1 DEF Codecs
<1>4. piece.data = data /\ piece.seq = k - 1
  BY DEF Piece
<1>5. IsSequence(data)
  BY Blocks DEF IsBackup
<1> HIDE DEF codec, key, piece, data
<1>6. Old(how) = FALSE
  BY <1>1 DEF Old
<1>7. DataFrame(piece, how) = Sealed(Frame("DATA", codec, data), key, piece.seq)
  <2>1. DataFrame(piece, how) = Seal(Frame("DATA", codec, piece.data), key, piece.seq, ~ Old(how))
    BY Zenon DEF DataFrame, codec, key
  <2>2. (~ Old(how)) = TRUE
    BY <1>6
  <2>3. QED
    BY <1>4, <2>1, <2>2, Zenon DEF Sealed
<1>8. Sealed(Frame("DATA", codec, data), key, piece.seq) = Sealed(Frame("DATA", codec, data), key, seq)
  <2>1. CASE Encrypts(how)
    BY <1>4, <2>1
  <2>2. CASE ~ Encrypts(how)
    BY <1>2, <2>2, Zenon DEF Sealed, Seal
  <2>3. QED
    BY <2>1, <2>2
<1>9. Gives(Sealed(Frame("DATA", codec, data), key, seq), "DATA", data, key, seq, Aad(a))
  BY <1>1, <1>2, <1>3, <1>5, FrameReads
<1>10. frames[Base(how) + k] = DataFrame(piece, how)
  BY DEF HoldsData, piece
<1>11. QED
  BY <1>7, <1>8, <1>9, <1>10 DEF data, key

\* Every block of the entry is read back.
LEMMA BackupBlock ==
  ASSUME NEW a, NEW frames, NEW path, NEW content, NEW how, NEW r,
         IsBackup(a, frames, path, content, how, r),
         NEW k \in 1 .. Len(BlocksOf(content))
  PROVE  Block(a, DiskRecord(path, content, how), 1, k - 1, KeyFor(how))
         = Result("OK", BlocksOf(content)[k])
<1> DEFINE entry == DiskRecord(path, content, how)
           key == KeyFor(how)
           place == Base(how) + k
           frame == a.frames[place]
           data == BlocksOf(content)[k]
           n == Len(BlocksOf(content))
<1>1. /\ how.layout = "disk" /\ ~ OldDisk(a) /\ Flag(a, "DISK_IMAGE")
      /\ (Aad(a) <=> Encrypts(how)) /\ (Authenticated(a) <=> References(how) /\ Encrypts(how))
  BY OwnerHasTheKey
<1>2. /\ n \in Nat /\ Base(how) \in {0, 1} /\ k \in Nat /\ k <= n
      /\ Len(frames) = Base(how) + n
  BY Blocks DEF IsBackup, HoldsImage, Base
<1>3. /\ DOMAIN a.frames = 1 .. Len(frames) + 1 /\ Len(a.frames) = Len(frames) + 1
      /\ \A i \in 1 .. Len(frames) : a.frames[i] = frames[i]
  BY FramesOfBackup
<1>4. entry.offset = Base(how) + 1
  BY DEF DiskRecord, Entry
<1>5. entry.offset + (k - 1) = place /\ place \in 1 .. Len(frames)
  BY <1>2, <1>4
<1>6. frame = frames[place]
  BY <1>3, <1>5
<1>7. ReaderSeq(a.header.flags, 1, k - 1) = k - 1
  BY <1>1 DEF ReaderSeq, Flag
<1>8. ASSUME NEW p \in 1 .. Len(frames), a.frames[p].intact
      PROVE  ReadError(a, p) = "OK"
  BY <1>2, <1>3, <1>8 DEF ReadError, EndOfFile, Check, ??
<1> HIDE DEF n
<1>9. CASE HoldsData(frames, content, how, k)
  <2>1. Gives(frame, "DATA", data, key, k - 1, Aad(a))
    <3>1. \A seq : (Encrypts(how) => seq = k - 1)
                   => Gives(frames[place], "DATA", data, key, seq, Aad(a))
      BY <1>9, DataReads
    <3>2. QED
      BY <1>6, <3>1, Zenon
  <2> HIDE DEF entry, key, place, frame, data
  <2>2. /\ frame.intact /\ frame.type = "DATA" /\ Decoded(frame) = data
        /\ BlockError(frame, key, k - 1, Aad(a)) = "OK"
    BY <2>1 DEF Gives
  <2>3. ReadError(a, place) = "OK"
    BY <1>5, <1>8, <2>2 DEF frame
  <2>4. Block(a, entry, 1, k - 1, key) = Result("OK", data)
    BY <1>5, <1>7, <2>2, <2>3 DEF Block, ??, frame
  <2>5. QED
    BY <2>4 DEF entry, key, data
<1>10. CASE HoldsReference(frames, content, how, k)
  <2>1. References(how)
    BY <1>10 DEF HoldsReference
  <2>2. PICK j \in 1 .. k - 1 :
          /\ BlocksOf(content)[j] = data
          /\ HoldsData(frames, content, how, j)
          /\ frame = RefFrame(Piece(content, k), Base(how) + j, Piece(content, j), how)
    BY <1>6, <1>10 DEF HoldsReference
  <2> DEFINE offset == Base(how) + j
             piece == Piece(content, k)
             goal == Piece(content, j)
             referred == a.frames[offset]
             seq == TargetSeq(a, entry, frame)
  <2>3. /\ j \in 1 .. n /\ j \in Nat /\ offset \in Nat /\ offset \in 1 .. Len(frames)
        /\ offset <= place
    BY <1>2 DEF n
  <2>4. piece.data = data /\ piece.seq = k - 1 /\ goal.seq = j - 1
    BY DEF Piece
  <2>5. IsSequence(data)
    BY Blocks DEF IsBackup
  <2>6. /\ frame.intact /\ frame.type = "DEDUP_REF" /\ frame.size = Len(data) /\ frame.sum = data
        /\ frame.pay.data[1] = offset
        /\ Authenticated(a) => frame.pay.data[2] = j - 1
        /\ ReferenceError(a, frame, key, k - 1) = "OK"
    <3>1. a.header.flags = Flags(how) /\ how.kind \in NativeKinds \cup {"none"}
      BY DEF IsBackup, IsDiskOf
    <3> HIDE DEF piece, goal, offset, frame, data
    <3>2. frame = RefFrame(piece, offset, goal, how)
      BY <2>2 DEF piece, goal, offset
    <3>3. IsSequence(piece.data) /\ offset \in Nat /\ ~ Old(how)
      BY <1>1, <2>3, <2>4, <2>5 DEF offset, Old
    <3> HIDE DEF key
    <3>4. RefersTo(a, frame, piece.data, piece.seq, offset, goal.seq, key)
      BY <1>1, <2>1, <3>1, <3>2, <3>3, ReferenceReads DEF key
    <3>5. QED
      BY <2>4, <3>4 DEF RefersTo
  <2>7. ~ OldDedup(a)
    BY <1>1 DEF OldDedup
  <2>8. Encrypts(how) => seq = j - 1
    <3> HIDE DEF frame
    <3>1. QED
      BY <1>1, <2>1, <2>6 DEF TargetSeq
  <2>9. Gives(referred, "DATA", data, key, seq, Aad(a))
    <3>1. \A s : (Encrypts(how) => s = j - 1)
                 => Gives(frames[offset], "DATA", BlocksOf(content)[j], key, s, Aad(a))
      BY <2>2, <2>3, DataReads DEF n
    <3>2. referred = frames[offset]
      BY <1>3, <2>3
    <3>3. QED
      BY <2>2, <2>8, <3>1, <3>2, Zenon
  <2> HIDE DEF entry, key, place, frame, data, referred, offset, piece, goal, seq
  <2>10. /\ referred.intact /\ referred.type = "DATA" /\ referred.size = Len(data) /\ referred.sum = data
         /\ Decoded(referred) = data /\ BlockError(referred, key, seq, Aad(a)) = "OK"
    BY <2>9 DEF Gives
  <2>11. ReadError(a, place) = "OK" /\ ReadError(a, offset) = "OK"
    BY <1>5, <1>8, <2>3, <2>6, <2>10 DEF frame, referred
  <2>12. TargetError(a, entry, place, key) = "OK"
    BY <2>3, <2>6, <2>7, <2>10, <2>11
       DEF TargetError, TargetSeqError, PointsBack, Check, ??, frame, referred, seq
  <2>13. Block(a, entry, 1, k - 1, key) = Result("OK", data)
    BY <1>5, <1>7, <2>6, <2>10, <2>11, <2>12 DEF Block, ??, frame, referred
  <2>14. QED
    BY <2>13 DEF entry, key, data
<1>11. QED
  BY <1>9, <1>10 DEF IsBackup, HoldsImage
\* No error, no first one.
LEMMA AllWell ==
  ASSUME NEW faults, \A i \in 1 .. Len(faults) : faults[i] = "OK"
  PROVE  FirstError(faults) = "OK"
<1> DEFINE I == {i \in 1 .. Len(faults) : faults[i] # "OK"}
<1>1. I = {}
  OBVIOUS
<1>2. SelectInSeq(faults, LAMBDA e : e # "OK") = 0
  BY <1>1 DEF SelectInSeq
<1>3. QED
  BY <1>2 DEF FirstError

\* The entry is read back whole.
LEMMA BackupEntry ==
  ASSUME NEW a, NEW frames, NEW path, NEW content, NEW how, NEW r,
         IsBackup(a, frames, path, content, how, r)
  PROVE  EntryResult(a, 1, DiskRecord(path, content, how), KeyFor(how)) = Result("OK", content)
<1> DEFINE entry == DiskRecord(path, content, how)
           key == KeyFor(how)
           all == BlocksOf(content)
           n == Len(all)
           block(b) == Block(a, entry, 1, b - 1, key)
           blocks == [b \in 1 .. n |-> block(b)]
           parts == [b \in DOMAIN blocks |-> blocks[b].data]
           faults == [b \in DOMAIN blocks |-> blocks[b].error]
<1>1. /\ n \in Nat /\ DOMAIN all = 1 .. n /\ IsSequence(all)
      /\ \A b \in 1 .. n : Len(all[b]) \in 1 .. BlockSize
      /\ Len(content) \in Nat
  BY Blocks DEF IsBackup, IsSequence
<1>2. FlattenSeq(all) = content
  BY DEF IsBackup, HoldsImage
<1>3. entry.count = n /\ entry.size = Len(content) /\ entry.hash = all
  BY DEF DiskRecord, Entry
<1>4. \A b \in 1 .. n : block(b) = Result("OK", all[b])
  BY BackupBlock
<1> HIDE DEF entry, key, block
<1>5. EntryResult(a, 1, entry, key)
      = Result(FirstError(faults)
               ?? Check(Len(FlattenSeq(parts)) = entry.size /\ HashHolds(a, entry, parts),
                        "BAD_CHECKSUM"),
               FlattenSeq(parts))
  BY <1>3 DEF EntryResult, block
<1>6. \A b \in 1 .. n : block(b).error = "OK" /\ block(b).data = all[b]
  BY <1>4 DEF Result
<1> HIDE DEF n
<1>7. parts = all
  <2>1. parts = [b \in 1 .. n |-> block(b).data]
    OBVIOUS
  <2>2. all = [b \in 1 .. n |-> all[b]]
    BY <1>1 DEF IsSequence, n
  <2> HIDE DEF parts, all
  <2>3. QED
    BY <1>6, <2>1, <2>2
<1>8. FirstError(faults) = "OK"
  <2>1. faults = [b \in 1 .. n |-> block(b).error]
    OBVIOUS
  <2>2. Len(faults) = n
    BY <1>1, <2>1
  <2>3. \A i \in 1 .. Len(faults) : faults[i] = "OK"
    BY <1>6, <2>1, <2>2
  <2> HIDE DEF faults
  <2>4. QED
    BY <2>3, AllWell
<1> HIDE DEF parts, faults
<1>9. WithData(all) = all
  <2>1. all \in Seq(Range(all))
    BY <1>1, IsSequenceInSeq
  <2>2. \A b \in 1 .. Len(all) : all[b] # << >>
    BY <1>1 DEF n
  <2> HIDE DEF all
  <2>3. QED
    BY <2>1, <2>2, AllHoldData
<1> HIDE DEF all
<1>10. HashHolds(a, entry, parts) /\ Len(FlattenSeq(parts)) = entry.size
  BY <1>2, <1>3, <1>7, <1>9 DEF HashHolds
<1>11. EntryResult(a, 1, entry, key) = Result("OK", content)
  BY <1>2, <1>5, <1>7, <1>8, <1>10 DEF Check, ??
<1>12. QED
  BY <1>11 DEF entry, key

\* What a backup leaves can be opened, tested and extracted by its owner.
LEMMA RoundTrip ==
  ASSUME NEW a, NEW frames, NEW path, NEW content, NEW how, NEW r,
         IsBackup(a, frames, path, content, how, r)
  PROVE  /\ OpenError(a, r) = "OK" /\ TestArchive(a, r) = "OK"
         /\ NameIsAccepted(path) => PathsError(a) = "OK"
         /\ ExtractArchive(a, r).error = "OK"
         /\ {f.content : f \in ExtractArchive(a, r).files} = {content}
<1> DEFINE record == DiskRecord(path, content, how)
           results == [i \in DOMAIN Entries(a) |-> EntryResult(a, i, Entries(a)[i], KeyOf(a, r))]
           file == [path |-> path, content |-> content]
<1>1. /\ OpenError(a, r) = "OK" /\ Entries(a) = << record >>
      /\ NameIsAccepted(path) => PathsError(a) = "OK"
  BY BackupOpens
<1>2. ~ Flag(a, "SOLID") /\ ~ OldDisk(a) /\ KeyOf(a, r) = KeyFor(how)
  BY OwnerHasTheKey
<1>3. AadMapError(a, Entries(a)) = "OK"
  BY <1>2 DEF AadMapError, OldDedup
<1>4. results = << Result("OK", content) >>
  <2>1. EntryResult(a, 1, record, KeyOf(a, r)) = Result("OK", content)
    BY <1>2, BackupEntry
  <2> HIDE DEF record
  <2>2. DOMAIN Entries(a) = 1 .. 1 /\ Entries(a)[1] = record
    BY <1>1
  <2>3. results = [i \in 1 .. 1 |-> Result("OK", content)]
    BY <2>1, <2>2
  <2>4. QED
    BY <2>3
<1>5. record.path = path
  BY DEF DiskRecord, Entry
<1> HIDE DEF record, results
<1>6. \A emptyHash : Contents(a, r, emptyHash).error = "OK" /\ Contents(a, r, emptyHash).entries = results
  BY <1>2, <1>3 DEF Contents, results
<1>7. /\ DOMAIN results = {1} /\ results[1].error = "OK" /\ results[1].data = content
  BY <1>4 DEF Result
<1>8. ~ Failed(results)
  BY <1>7 DEF Failed
<1>9. Contents(a, r, TRUE).error = "OK" /\ Contents(a, r, TRUE).entries = results
      /\ Contents(a, r, FALSE).error = "OK" /\ Contents(a, r, FALSE).entries = results
  BY <1>6, Zenon
<1>10. TestArchive(a, r) = "OK"
  BY <1>1, <1>8, <1>9 DEF TestArchive, Check, ??
<1>11. r.quota = 0
  BY DEF IsBackup
<1>12. OpenError(a, r) ?? QuotaError(a, r) = "OK"
  BY <1>1, <1>11 DEF QuotaError, Check, ??
<1>13. /\ ExtractArchive(a, r).error = "OK"
       /\ ExtractArchive(a, r).files = Extracted(Entries(a), results)
  BY <1>8, <1>9, <1>12 DEF ExtractArchive, Check, ??
<1>14. Extracted(Entries(a), results) = {file}
  <2>1. {j \in DOMAIN results : results[j].error = "OK"} = {1}
    BY <1>7
  <2>2. Entries(a)[1].path = path
    BY <1>1, <1>5
  <2>3. Extracted(Entries(a), results)
        = {[path |-> Entries(a)[i].path, content |-> results[i].data] : i \in {1}}
    BY <2>1 DEF Extracted
  <2>4. QED
    BY <1>7, <2>2, <2>3
<1>15. {f.content : f \in ExtractArchive(a, r).files} = {content}
  <2>1. file.content = content
    OBVIOUS
  <2> HIDE DEF file
  <2>2. QED
    BY <1>13, <1>14, <2>1
<1>16. QED
  BY <1>1, <1>10, <1>13, <1>15
-----------------------------------------------------------------------------
(* The steps of a backup and what it leaves *)

\* A seal leaves a frame as intact as it was.
LEMMA SealIntact ==
  ASSUME NEW f, IsFrameRecord(f), NEW key, NEW seq, NEW aad
  PROVE  Seal(f, key, seq, aad).intact = f.intact
<1> DEFINE marked == [f EXCEPT !.sealed = TRUE]
           seal == [key |-> key, seq |-> seq, preface |-> IF aad THEN Preface(marked) ELSE << >>]
           g == [marked EXCEPT !.pay.seal = seal]
<1>1. CASE key = NoKey
  BY <1>1, Zenon DEF Seal
<1>2. CASE key # NoKey
  <2>1. Seal(f, key, seq, aad) = g
    BY <1>2, Zenon DEF Seal
  <2> HIDE DEF seal
  <2>2. g.intact = marked.intact
    <3>1. \A v : [f EXCEPT !.sealed = v]
             = [intact |-> f.intact, type |-> f.type, codec |-> f.codec, sealed |-> v,
                size |-> f.size, sum |-> f.sum, pay |-> f.pay]
      BY Marked DEF IsFrameRecord
    <3>2. marked = [intact |-> f.intact, type |-> f.type, codec |-> f.codec, sealed |-> TRUE,
                  size |-> f.size, sum |-> f.sum, pay |-> f.pay]
      BY <3>1, Zenon
    <3>3. \A m : m = [intact |-> f.intact, type |-> f.type, codec |-> f.codec, sealed |-> m.sealed,
                  size |-> f.size, sum |-> f.sum, pay |-> f.pay] => [m EXCEPT !.pay.seal = seal].intact = m.intact
      OBVIOUS
    <3>4. marked.sealed = TRUE
      BY <3>2
    <3> HIDE DEF marked
    <3>5. QED
      BY <3>2, <3>3, <3>4, Zenon
  <2>3. marked.intact = f.intact
    BY DEF IsFrameRecord
  <2>4. QED
    BY <2>1, <2>2, <2>3
<1>3. QED
  BY <1>1, <1>2

\* Writing a frame well does not change it.
LEMMA FrameIntact ==
  ASSUME NEW piece, IsSequence(piece.data), NEW how
  PROVE  \A w : w = TRUE => [DataFrame(piece, how) EXCEPT !.intact = w] = DataFrame(piece, how)
<1> DEFINE f == Frame("DATA", IF OnDisk(how) /\ IsZeroBlock(piece.data) THEN "STORE" ELSE how.codec,
                      piece.data)
           g == DataFrame(piece, how)
<1>1. f.intact = TRUE
  <2> DEFINE codec == IF OnDisk(how) /\ IsZeroBlock(piece.data) THEN "STORE" ELSE how.codec
  <2>1. f = Frame("DATA", codec, piece.data)
    OBVIOUS
  <2> HIDE DEF codec, f
  <2>2. QED
    BY <2>1 DEF Frame
<1>2. g.intact = f.intact
  <2>1. IsFrameRecord(f)
    BY FrameType
  <2>2. g = Seal(f, KeyFor(how), piece.seq, ~ Old(how))
    BY Zenon DEF DataFrame
  <2> HIDE DEF f, g
  <2>3. \A aad : Seal(f, KeyFor(how), piece.seq, aad).intact = f.intact
    BY <2>1, Zenon, SealIntact
  <2>4. QED
    BY <2>2, <2>3, Zenon
<1>3. IsFrameRecord(g)
  BY DataFrameType
<1> HIDE DEF f, g
<1>4. \A w : w = g.intact => [g EXCEPT !.intact = w] = g
  BY <1>3 DEF IsFrameRecord
<1>5. QED
  BY <1>1, <1>2, <1>4, Zenon DEF g

\* A reference holds its target's number, and nothing else of it.
LEMMA SameReference ==
  ASSUME NEW piece, NEW offset, NEW how, NEW p, NEW q, p.seq = q.seq
  PROVE  RefFrame(piece, offset, p, how) = RefFrame(piece, offset, q, how)
  BY DEF RefFrame

\* One block more of the image, and the frame for it: data, or a reference to the
\* data of an equal block.
IsNextFrame(frame, frames, content, how, data) ==
  LET n == Len(BlocksOf(content))
      piece == [data |-> data, seq |-> n]
  IN \/ frame = DataFrame(piece, how)
     \/ References(how) /\ \E j \in 1 .. n :
          /\ BlocksOf(content)[j] = data /\ HoldsData(frames, content, how, j)
          /\ frame = RefFrame(piece, Base(how) + j, Piece(content, j), how)

LEMMA MoreOfTheImage ==
  ASSUME NEW frames, IsSequence(frames), NEW content, IsSequence(content), NEW how,
         HoldsImage(frames, content, how), NEW data, IsSequence(data),
         Len(content) = Len(BlocksOf(content)) * BlockSize, Len(data) \in 1 .. BlockSize,
         NEW frame, IsNextFrame(frame, frames, content, how, data)
  PROVE  LET n == Len(BlocksOf(content))
             blocks == BlocksOf(content \o data)
             longer == Append(frames, frame)
         IN /\ HoldsImage(longer, content \o data, how)
            /\ n \in Nat /\ Len(blocks) = n + 1 /\ blocks[n + 1] = data
            /\ \A k \in 1 .. n :
                 /\ blocks[k] = BlocksOf(content)[k]
                 /\ HoldsData(frames, content, how, k) => HoldsData(longer, content \o data, how, k)
            /\ frame = DataFrame([data |-> data, seq |-> n], how)
                 => HoldsData(longer, content \o data, how, n + 1)
<1> DEFINE n == Len(BlocksOf(content))
           old == BlocksOf(content)
           all == content \o data
           blocks == BlocksOf(all)
           longer == Append(frames, frame)
           piece == [data |-> data, seq |-> n]
           base == Base(how)
<1>1. /\ n \in Nat /\ IsSequence(old) /\ DOMAIN old = 1 .. n
      /\ \A b \in 1 .. n : IsSequence(old[b])
      /\ base \in {0, 1} /\ Len(frames) = base + n
  BY Blocks DEF HoldsImage, Base
<1>2. blocks = Append(old, data)
  BY OneBlockMore
<1>3. /\ Len(blocks) = n + 1 /\ blocks[n + 1] = data
      /\ \A k \in 1 .. n : blocks[k] = old[k]
  <2> DEFINE S == Range(old) \cup {data}
  <2>1. old \in Seq(S) /\ data \in S /\ Len(old) = n
    <3>1. \A i \in 1 .. Len(old) : old[i] \in Range(old)
      BY <1>1, IsSequenceInSeq
    <3>2. QED
      BY <1>1, <3>1 DEF IsSequence
  <2> HIDE DEF S, n, old, blocks
  <2>2. QED
    BY <1>1, <1>2, <2>1
<1>4. /\ Len(longer) = base + n + 1 /\ longer[base + n + 1] = frame
      /\ \A k \in 1 .. n : longer[base + k] = frames[base + k]
      /\ base = 1 => longer[1] = frames[1]
  <2> DEFINE S == Range(frames) \cup {frame}
  <2>1. frames \in Seq(S) /\ frame \in S
    <3>1. \A i \in 1 .. Len(frames) : frames[i] \in Range(frames)
      BY IsSequenceInSeq
    <3>2. QED
      BY <3>1 DEF IsSequence
  <2> HIDE DEF S, n, base, longer
  <2>2. Len(longer) = Len(frames) + 1 /\ longer[Len(frames) + 1] = frame
        /\ \A i \in 1 .. Len(frames) : longer[i] = frames[i]
    BY <2>1 DEF longer
  <2>3. \A k \in 1 .. n : base + k \in 1 .. Len(frames)
    BY <1>1
  <2>4. base = 1 => 1 \in 1 .. Len(frames)
    BY <1>1
  <2>5. QED
    BY <1>1, <2>2, <2>3, <2>4
<1>5. \A k \in 1 .. n : Piece(all, k) = Piece(content, k)
  BY <1>3 DEF Piece
<1>6. Piece(all, n + 1) = piece
  BY <1>1, <1>3 DEF Piece
<1>7. \A k \in 1 .. n : HoldsData(frames, content, how, k) => HoldsData(longer, all, how, k)
  BY <1>4, <1>5 DEF HoldsData
<1>8. frame = DataFrame(piece, how) => HoldsData(longer, all, how, n + 1)
  <2> HIDE DEF piece, longer, n, all
  <2>1. Base(how) + (n + 1) = base + n + 1
    BY <1>1
  <2>2. QED
    BY <1>4, <1>6, <2>1 DEF HoldsData
<1>9. ASSUME NEW k \in 1 .. n
      PROVE  HoldsData(longer, all, how, k) \/ HoldsReference(longer, all, how, k)
  <2>1. HoldsData(frames, content, how, k) \/ HoldsReference(frames, content, how, k)
    BY DEF HoldsImage
  <2>2. CASE HoldsData(frames, content, how, k)
    BY <1>7, <2>2
  <2>3. CASE HoldsReference(frames, content, how, k)
    <3>1. PICK j \in 1 .. k - 1 :
            /\ old[j] = old[k] /\ HoldsData(frames, content, how, j)
            /\ frames[base + k] = RefFrame(Piece(content, k), base + j, Piece(content, j), how)
      BY <2>3 DEF HoldsReference
    <3>2. j \in 1 .. n
      BY <1>1
    <3> HIDE DEF n, old, longer, all, blocks, base
    <3>3. blocks[j] = blocks[k] /\ HoldsData(longer, all, how, j)
      BY <1>3, <1>7, <3>1, <3>2
    <3>4. longer[base + k] = RefFrame(Piece(all, k), base + j, Piece(all, j), how)
      BY <1>4, <1>5, <3>1, <3>2
    <3>5. References(how)
      BY <2>3 DEF HoldsReference
    <3>6. QED
      BY <3>3, <3>4, <3>5 DEF HoldsReference, base, blocks
  <2>4. QED
    BY <2>1, <2>2, <2>3
<1>10. HoldsData(longer, all, how, n + 1) \/ HoldsReference(longer, all, how, n + 1)
  <2>1. CASE frame = DataFrame(piece, how)
    BY <1>8, <2>1
  <2>2. CASE frame # DataFrame(piece, how)
    <3>1. References(how)
      BY <2>2 DEF IsNextFrame
    <3>2. PICK j \in 1 .. n :
            /\ old[j] = data /\ HoldsData(frames, content, how, j)
            /\ frame = RefFrame(piece, base + j, Piece(content, j), how)
      BY <2>2 DEF IsNextFrame
    <3>3. j \in 1 .. (n + 1) - 1
      BY <1>1
    <3> HIDE DEF n, old, longer, all, blocks, base, piece
    <3>4. blocks[j] = blocks[n + 1] /\ HoldsData(longer, all, how, j)
      BY <1>3, <1>7, <3>2
    <3>5. longer[base + (n + 1)] = RefFrame(Piece(all, n + 1), base + j, Piece(all, j), how)
      <4>1. base + (n + 1) = base + n + 1
        BY <1>1
      <4>2. QED
        BY <1>4, <1>5, <1>6, <3>2, <4>1
    <3>6. QED
      BY <3>1, <3>3, <3>4, <3>5 DEF HoldsReference, base, blocks
  <2>3. QED
    BY <2>1, <2>2
<1>11. FlattenSeq(blocks) = all
  <2> DEFINE others == UNION {Range(old[b]) : b \in 1 .. n}
             S == others \cup Range(data)
  <2> HIDE DEF others, old, n
  <2>1. \A b \in 1 .. n : old[b] \in Seq(S)
    <3> TAKE b \in 1 .. n
    <3>1. IsSequence(old[b])
      BY <1>1
    <3>2. old[b] \in Seq(Range(old[b]))
      BY <3>1, IsSequenceInSeq
    <3>3. Range(old[b]) \subseteq S
      BY DEF others
    <3> HIDE DEF S
    <3>4. QED
      BY <3>2, <3>3
  <2>2. data \in Seq(S)
    <3>1. Range(data) \subseteq S
      OBVIOUS
    <3>2. data \in Seq(Range(data))
      BY IsSequenceInSeq
    <3> HIDE DEF S
    <3>3. QED
      BY <3>1, <3>2
  <2>3. old \in Seq(Seq(S))
    <3> HIDE DEF S
    <3>1. old = [b \in 1 .. n |-> old[b]]
      BY <1>1 DEF IsSequence, n
    <3>2. QED
      BY <1>1, <2>1, <3>1
  <2> HIDE DEF S
  <2>4. FlattenSeq(Append(old, data)) = FlattenSeq(old) \o data
    BY <2>2, <2>3, FlattenAppend
  <2>5. FlattenSeq(old) = content
    BY DEF HoldsImage, old
  <2>6. QED
    BY <1>2, <2>4, <2>5
<1>12. HoldsImage(longer, all, how)
  <2> HIDE DEF n, old, longer, all, blocks, base, piece
  <2>1. Encrypts(how) => longer[1] = EncFrame(how)
    BY <1>4 DEF HoldsImage, base, Base
  <2>2. Len(longer) = Base(how) + Len(blocks)
    BY <1>1, <1>3, <1>4 DEF base
  <2>3. \A k \in 1 .. n + 1 : HoldsData(longer, all, how, k) \/ HoldsReference(longer, all, how, k)
    <3> TAKE k \in 1 .. n + 1
    <3>1. k \in 1 .. n \/ k = n + 1
      BY <1>1
    <3>2. QED
      BY <1>9, <1>10, <3>1
  <2>4. QED
    BY <1>3, <1>11, <2>1, <2>2, <2>3 DEF HoldsImage, blocks
<1>13. QED
  BY <1>1, <1>3, <1>7, <1>8, <1>12

LEMMA JoinedLength ==
  ASSUME NEW s, NEW t, IsSequence(s), IsSequence(t)
  PROVE  Len(s \o t) = Len(s) + Len(t)
<1>1. s \in Seq(Range(s) \cup Range(t)) /\ t \in Seq(Range(s) \cup Range(t))
  <2>1. \A i \in 1 .. Len(s) : s[i] \in Range(s)
    BY IsSequenceInSeq
  <2>2. \A i \in 1 .. Len(t) : t[i] \in Range(t)
    BY IsSequenceInSeq
  <2>3. QED
    BY <2>1, <2>2 DEF IsSequence
<1>2. QED
  BY <1>1

LEMMA PartsJoin ==
  ASSUME NEW S, NEW s \in Seq(S), NEW i \in Nat, NEW j \in Nat, i <= j, j <= Len(s)
  PROVE  SubSeq(s, 1, i) \o SubSeq(s, i + 1, j) = SubSeq(s, 1, j)
  OBVIOUS

\* What reading a block leaves as it was.
Underway ==
  /\ backedUp = "none" /\ changes \in Nat /\ bpc \in {"read", "finish"}
  /\ \E s \in Sources : source.name = s.name
  /\ o.kind \in NativeKinds \cup {"none"}
  /\ Len(image) <= size
  /\ changes = 0 => Len(source.content) = size

LEMMA UnderwayHolds ==
  ASSUME Underway,
         ~ lost => /\ HoldsImage(body, image, o) /\ TableInvariant
                   /\ Len(image) = Len(BlocksOf(image)) * BlockSize \/ Len(image) = size
                   /\ changes = 0 => image = SubSeq(source.content, 1, Len(image))
  PROVE  BackupInvariant
  BY DEF Underway, BackupInvariant

LEMMA ReadBlockStep ==
  ASSUME TypeOK, BackupInvariant, ReadBlock
  PROVE  BackupInvariant' /\ backedUp' = "none"
<1> DEFINE wanted == IF size - Len(image) < BlockSize THEN size - Len(image) ELSE BlockSize
           last == Len(image) + wanted
           data == SubSeq(source.content, Len(image) + 1,
                          IF last < Len(source.content) THEN last ELSE Len(source.content))
           n == Len(BlocksOf(image))
           piece == [data |-> data, seq |-> n]
<1>1. /\ bpc = "read" /\ Len(image) < size
      /\ UNCHANGED << source, o, size, changes, archive, backedUp >>
  BY DEF ReadBlock
<1>2. /\ IsSequence(source.content) /\ o \in DiskOptions /\ size \in Nat
      /\ IsSequence(image) /\ Len(image) \in Nat /\ IsSequence(body)
      /\ BlockSize \in Nat \ {0} /\ o.layout = "disk"
  BY <1>1, FormatAssumption, DiskAssumption DEF TypeOK, IsSource, IsSequence
<1>3. /\ wanted \in 1 .. BlockSize /\ last \in Nat /\ last <= size
      /\ wanted = BlockSize \/ last = size
  BY <1>1, <1>2
<1>4. /\ Underway
      /\ ~ lost => /\ HoldsImage(body, image, o) /\ TableInvariant
                   /\ Len(image) = n * BlockSize
                   /\ changes = 0 => image = SubSeq(source.content, 1, Len(image))
  BY <1>1, <1>2 DEF BackupInvariant, Underway
<1>5. IsSequence(data)
  BY <1>2, <1>3, SourceBlock
<1>6. \/ lost' = TRUE /\ bpc' = "finish" /\ UNCHANGED image
      \/ /\ Len(data) = wanted /\ image' = image \o data
         /\ \E fails \in BOOLEAN : /\ lost' = (lost \/ fails)
                                   /\ IF data \in DOMAIN known THEN WriteReference(data, fails)
                                      ELSE WriteBlock(data, fails)
  BY DEF ReadBlock, MayFail
<1> HIDE DEF data, wanted
<1>7. CASE lost' = TRUE /\ bpc' = "finish" /\ UNCHANGED image
  <2>1. Underway'
    BY <1>1, <1>4, <1>7 DEF Underway
  <2>2. BackupInvariant'
    BY <1>7, <2>1 DEF Underway, BackupInvariant
  <2>3. QED
    BY <1>1, <1>4, <2>2 DEF Underway
<1>8. ASSUME Len(data) = wanted, image' = image \o data, NEW fails \in BOOLEAN,
             lost' = (lost \/ fails),
             IF data \in DOMAIN known THEN WriteReference(data, fails) ELSE WriteBlock(data, fails)
      PROVE  BackupInvariant' /\ backedUp' = "none"
  <2>1. Len(image') = last /\ bpc' \in {"read", "finish"}
    <3>1. Len(image \o data) = Len(image) + Len(data)
      BY <1>2, <1>5, JoinedLength
    <3>2. bpc' \in {"read", "finish"}
      BY <1>8 DEF WriteReference, WriteBlock
    <3>3. QED
      BY <1>8, <3>1, <3>2
  <2>2. Underway'
    BY <1>1, <1>3, <1>4, <2>1 DEF Underway
  <2>3. CASE lost'
    <3>1. BackupInvariant'
      BY <2>2, <2>3 DEF Underway, BackupInvariant
    <3>2. QED
      BY <2>2, <3>1 DEF Underway
  <2>4. CASE ~ lost'
    <3>1. ~ lost /\ ~ fails
      BY <1>8, <2>4
    <3>2. /\ HoldsImage(body, image, o) /\ TableInvariant /\ Len(image) = n * BlockSize
          /\ Len(body) = Base(o) + n /\ n \in Nat /\ Base(o) \in {0, 1}
      BY <1>2, <1>4, <3>1, Blocks DEF HoldsImage, Base
    <3>3. Len(body) - Base(o) = n /\ Len(body) + 1 = Base(o) + (n + 1)
      <4> HIDE DEF n
      <4>1. QED
        BY <3>2
    <3>4. \E frame :
            /\ body' = Append(body, frame) /\ IsNextFrame(frame, body, image, o, data)
            /\ \A d \in DOMAIN known' :
                 \/ d \in DOMAIN known /\ known'[d] = known[d]
                 \/ /\ d = data /\ o.dedup /\ frame = DataFrame(piece, o)
                    /\ known'[d] = [offset |-> Base(o) + (n + 1), seq |-> n]
      <4>1. CASE data \in DOMAIN known
        <5>1. body' = Append(body, ReferTo(data)) /\ known' = known
          BY <1>8, <3>1, <4>1 DEF WriteReference
        <5>2. PICK j \in 1 .. n : /\ known[data] = [offset |-> Base(o) + j, seq |-> j - 1]
                                  /\ BlocksOf(image)[j] = data /\ HoldsData(body, image, o, j)
          BY <3>2, <4>1 DEF TableInvariant
        <5>3. References(o)
          BY <1>2, <3>2, <4>1 DEF TableInvariant, References
        <5>4. ReferTo(data) = RefFrame(piece, Base(o) + j, known[data], o)
          BY <3>3, <5>2 DEF ReferTo
        <5>5. known[data].seq = Piece(image, j).seq
          BY <5>2 DEF Piece
        <5>6. ReferTo(data) = RefFrame(piece, Base(o) + j, Piece(image, j), o)
          BY <5>4, <5>5, SameReference
        <5>7. IsNextFrame(ReferTo(data), body, image, o, data)
          BY <5>2, <5>3, <5>6 DEF IsNextFrame
        <5>8. QED
          BY <5>1, <5>7
      <4>2. CASE data \notin DOMAIN known
        <5> DEFINE frame == DataFrame(piece, o)
                   place == [offset |-> Len(body) + 1, seq |-> Len(body) - Base(o)]
                   added == [d \in DOMAIN known \cup {data} |-> IF d = data THEN place ELSE known[d]]
        <5>1. /\ body' = Append(body, [DataFrame([data |-> data, seq |-> Len(body) - Base(o)], o)
                                         EXCEPT !.intact = ~ fails])
              /\ known' = known \/ (o.dedup /\ known' = added)
          BY <1>8, <4>2 DEF WriteBlock
        <5>2. piece.data = data
          OBVIOUS
        <5>3. [data |-> data, seq |-> Len(body) - Base(o)] = piece
          BY <3>3
        <5>4. (~ fails) = TRUE
          BY <3>1
        <5>5. [frame EXCEPT !.intact = ~ fails] = frame
          <6> HIDE DEF piece
          <6>1. IsSequence(piece.data)
            BY <1>5, <5>2
          <6>2. QED
            BY <5>4, <6>1, FrameIntact, Zenon
        <5>6. body' = Append(body, frame)
          <6> HIDE DEF piece
          <6>1. QED
            BY <5>1, <5>3, <5>5, Zenon
        <5>7. IsNextFrame(frame, body, image, o, data)
          BY DEF IsNextFrame
        <5>8. \A d \in DOMAIN known' :
                 \/ d \in DOMAIN known /\ known'[d] = known[d]
                 \/ /\ d = data /\ o.dedup
                    /\ known'[d] = [offset |-> Base(o) + (n + 1), seq |-> n]
          <6> HIDE DEF n
          <6>1. place = [offset |-> Base(o) + (n + 1), seq |-> n]
            BY <3>3
          <6> HIDE DEF place
          <6>2. QED
            BY <5>1, <6>1
        <5> HIDE DEF frame, n
        <5>9. QED
          BY <5>6, <5>7, <5>8 DEF frame
      <4>3. QED
        BY <4>1, <4>2
    <3>5. PICK frame :
            /\ body' = Append(body, frame) /\ IsNextFrame(frame, body, image, o, data)
            /\ \A d \in DOMAIN known' :
                 \/ d \in DOMAIN known /\ known'[d] = known[d]
                 \/ /\ d = data /\ o.dedup /\ frame = DataFrame(piece, o)
                    /\ known'[d] = [offset |-> Base(o) + (n + 1), seq |-> n]
      BY <3>4
    <3>6. /\ HoldsImage(body', image', o')
          /\ Len(BlocksOf(image')) = n + 1 /\ BlocksOf(image')[n + 1] = data
          /\ \A k \in 1 .. n :
               /\ BlocksOf(image')[k] = BlocksOf(image)[k]
               /\ HoldsData(body, image, o, k) => HoldsData(body', image', o', k)
          /\ frame = DataFrame(piece, o) => HoldsData(body', image', o', n + 1)
      <4>1. o' = o
        BY <1>1
      <4>2. Len(data) \in 1 .. BlockSize
        BY <1>3, <1>8
      <4>3. QED
        BY <1>2, <1>5, <1>8, <3>2, <3>5, <4>1, <4>2, MoreOfTheImage
    <3> HIDE DEF n, piece
    <3>7. TableInvariant'
      <4> SUFFICES ASSUME NEW d \in DOMAIN known'
                   PROVE  /\ o'.dedup
                          /\ \E j \in 1 .. Len(BlocksOf(image')) :
                               /\ known'[d] = [offset |-> Base(o') + j, seq |-> j - 1]
                               /\ BlocksOf(image')[j] = d /\ HoldsData(body', image', o', j)
        BY DEF TableInvariant
      <4>1. CASE d \in DOMAIN known /\ known'[d] = known[d]
        <5>1. PICK j \in 1 .. n : /\ known[d] = [offset |-> Base(o) + j, seq |-> j - 1]
                                  /\ BlocksOf(image)[j] = d /\ HoldsData(body, image, o, j)
          BY <3>2, <4>1 DEF TableInvariant, n
        <5>2. o.dedup
          BY <3>2, <4>1 DEF TableInvariant
        <5>3. j \in 1 .. Len(BlocksOf(image'))
          BY <3>2, <3>6
        <5>4. QED
          BY <1>1, <3>6, <4>1, <5>1, <5>2, <5>3
      <4>2. CASE /\ d = data /\ o.dedup /\ frame = DataFrame(piece, o)
                 /\ known'[d] = [offset |-> Base(o) + (n + 1), seq |-> n]
        <5>1. n + 1 \in 1 .. Len(BlocksOf(image')) /\ (n + 1) - 1 = n
          BY <3>2, <3>6
        <5>2. QED
          BY <1>1, <3>6, <4>2, <5>1
      <4>3. QED
        BY <3>5, <4>1, <4>2
    <3>8. Len(image') = Len(BlocksOf(image')) * BlockSize \/ Len(image') = size'
      <4>1. CASE wanted = BlockSize
        <5>1. (n + 1) * BlockSize = n * BlockSize + BlockSize
          BY <1>2, <3>2
        <5>2. QED
          BY <2>1, <3>2, <3>6, <4>1, <5>1
      <4>2. CASE last = size
        BY <1>1, <2>1, <4>2
      <4>3. QED
        BY <1>3, <4>1, <4>2
    <3>9. changes' = 0 => image' = SubSeq(source'.content, 1, Len(image'))
      <4> SUFFICES ASSUME changes = 0
                   PROVE  image' = SubSeq(source.content, 1, last)
        BY <1>1, <2>1
      <4>1. image = SubSeq(source.content, 1, Len(image)) /\ Len(source.content) = size
        BY <1>4, <3>1 DEF Underway
      <4>2. data = SubSeq(source.content, Len(image) + 1, last)
        <5>1. (IF last < Len(source.content) THEN last ELSE Len(source.content)) = last
          BY <1>2, <1>3, <4>1
        <5>2. QED
          BY <5>1, Zenon DEF data
      <4>3. source.content \in Seq(Range(source.content))
        BY <1>2, IsSequenceInSeq
      <4>4. Len(image) <= last /\ last <= Len(source.content)
        BY <1>2, <1>3, <4>1
      <4> HIDE DEF last
      <4>5. SubSeq(source.content, 1, Len(image)) \o SubSeq(source.content, Len(image) + 1, last)
            = SubSeq(source.content, 1, last)
        BY <1>2, <1>3, <4>3, <4>4, PartsJoin
      <4>6. QED
        BY <1>8, <4>1, <4>2, <4>5
    <3>10. BackupInvariant'
      BY <2>2, <3>6, <3>7, <3>8, <3>9 DEF BackupInvariant, Underway
    <3>11. QED
      BY <2>2, <3>10 DEF Underway
  <2>5. QED
    BY <2>3, <2>4
<1>9. QED
  BY <1>6, <1>7, <1>8

LEMMA BackupOpenStep ==
  ASSUME TypeOK, BackupInvariant, BackupOpen
  PROVE  BackupInvariant' /\ backedUp' # "OK"
<1>1. bpc = "open" /\ IsSource(source) /\ o \in DiskOptions
  BY DEF BackupOpen, TypeOK
<1>2. /\ backedUp = "none" /\ known = << >> /\ image = << >> /\ changes = 0
      /\ \E s \in Sources : source.name = s.name
  BY <1>1 DEF BackupInvariant
<1>3. PICK fails \in MayFail :
        IF BackupError(fails) # "OK" THEN BackupEnds(BackupError(fails))
        ELSE /\ bpc' = "read"
             /\ size' = Len(source.content)
             /\ body' = Opening(o)
             /\ UNCHANGED << source, o, image, known, lost, changes, backedUp >>
  BY DEF BackupOpen
<1>4. CASE BackupError(fails) # "OK"
  <2>1. BackupEnds(BackupError(fails))
    BY <1>3, <1>4
  <2>2. /\ bpc' = "done" /\ changes' = changes /\ source' = source
        /\ backedUp' = BackupError(fails)
    BY <2>1 DEF BackupEnds
  <2>3. QED
    BY <1>2, <1>4, <2>2 DEF BackupInvariant
<1>5. CASE BackupError(fails) = "OK"
  <2>1. /\ bpc' = "read" /\ size' = Len(source.content) /\ body' = Opening(o)
        /\ UNCHANGED << source, o, image, known, lost, changes, backedUp >>
    BY <1>3, <1>5
  <2>2. o.kind \in NativeKinds \cup {"none"}
    BY <1>5 DEF BackupError, WriteError, Check, ??
  <2>3. Len(source.content) \in Nat
    BY <1>1 DEF IsSource, IsSequence
  <2>4. IsSequence(<< >>) /\ Len(<< >>) = 0
    BY DEF IsSequence
  <2>5. BlocksOf(<< >>) = << >>
    <3>1. BlockSize \in Nat \ {0}
      BY FormatAssumption
    <3>2. (0 + BlockSize - 1) \div BlockSize = 0
      BY <3>1, Unique
    <3>3. Len(BlocksOf(<< >>)) = 0 /\ IsSequence(BlocksOf(<< >>))
      <4>1. Len(BlocksOf(<< >>)) = (Len(<< >>) + BlockSize - 1) \div BlockSize
        BY <2>4, Blocks
      <4>2. QED
        BY <2>4, <3>2, <4>1, Blocks
    <3>4. QED
      BY <3>3 DEF IsSequence
  <2>6. HoldsImage(Opening(o), << >>, o)
    <3>1. Encrypts(o) => Opening(o)[1] = EncFrame(o)
      BY DEF Opening
    <3>2. Len(Opening(o)) = Base(o) + 0
      BY DEF Opening, Base
    <3>3. QED
      BY <2>4, <2>5, <3>1, <3>2, FlattenEmpty DEF HoldsImage
  <2>7. HoldsImage(body', image', o')
    BY <1>2, <2>1, <2>6
  <2>8. TableInvariant'
    BY <1>2, <2>1 DEF TableInvariant
  <2>9. /\ Len(image') = Len(BlocksOf(image')) * BlockSize
        /\ image' = SubSeq(source'.content, 1, Len(image')) /\ Len(image') <= size'
    <3>1. image' = << >> /\ size' \in Nat
      BY <1>2, <2>1, <2>3
    <3>2. SubSeq(source'.content, 1, 0) = << >>
      <4>1. source.content \in Seq(Range(source.content))
        BY <1>1, IsSequenceInSeq DEF IsSource
      <4>2. SubSeq(source.content, 1, 0) = << >>
        BY <4>1
      <4>3. QED
        BY <2>1, <4>2
    <3>3. 0 * BlockSize = 0
      BY FormatAssumption
    <3>4. QED
      BY <2>4, <2>5, <3>1, <3>2, <3>3
  <2>10. Underway'
    BY <1>2, <2>1, <2>2, <2>9 DEF Underway
  <2>11. BackupInvariant'
    BY <2>7, <2>8, <2>9, <2>10 DEF BackupInvariant, Underway
  <2>12. QED
    BY <2>10, <2>11 DEF Underway
<1>6. QED
  BY <1>4, <1>5

\* What a backup publishes is an archive of what it has read, for its owner.
LEMMA FinishHolds ==
  ASSUME TypeOK, BackupInvariant, Finish
  PROVE  /\ BackupInvariant' /\ UNCHANGED << source, o, size, image, changes >>
         /\ bpc \in {"read", "finish"} /\ bpc' = "done"
         /\ \/ archive' = archive /\ backedUp' # "OK"
            \/ /\ Complete
               /\ IsBackup(archive', body, Label(source.name), image, o, Owner(o.kind, o.value))
               /\ archive' = Disk(body, Label(source.name), image, o)
<1>1. /\ bpc \in {"read", "finish"} /\ bpc' = "done"
      /\ UNCHANGED << source, o, size, image, changes >>
  BY DEF Finish, BackupEnds, readVars
<1>2. BackupInvariant'
  BY <1>1 DEF BackupInvariant
<1>3. \/ archive' = archive /\ backedUp' # "OK"
      \/ Complete /\ archive' = Disk(body, Label(source.name), image, o)
  BY DEF Finish, BackupEnds, Disk
<1>4. ASSUME Complete, archive' = Disk(body, Label(source.name), image, o)
      PROVE  IsBackup(archive', body, Label(source.name), image, o, Owner(o.kind, o.value))
  <2> DEFINE path == Label(source.name)
             owner == Owner(o.kind, o.value)
             a == Disk(body, path, image, o)
  <2>1. ~ lost
    BY <1>4 DEF Complete
  <2>2. /\ o \in DiskOptions /\ IsSequence(body) /\ IsSequence(image) /\ o.layout = "disk"
    BY <1>1, DiskAssumption DEF TypeOK
  <2>3. HoldsImage(body, image, o) /\ o.kind \in NativeKinds \cup {"none"}
    BY <1>1, <2>1 DEF BackupInvariant
  <2>4. Len(body) \in Nat
    BY <2>2 DEF IsSequence
  <2>5. owner.quota = 0 /\ owner.secret.form = FormOf(o.kind) /\ owner.secret.value = o.value
    BY DEF Owner, Secret
  <2> HIDE DEF path, owner
  <2>6. IsDiskOf(a, body, path, image, o)
    BY <2>2, <2>4, DiskParts
  <2> HIDE DEF a
  <2>7. IsBackup(a, body, path, image, o, owner)
    BY <2>2, <2>3, <2>5, <2>6 DEF IsBackup
  <2>8. QED
    BY <1>4, <2>7 DEF a, path, owner
<1>5. QED
  BY <1>1, <1>2, <1>3, <1>4

\* A finished backup that returns OK has lost nothing.
LEMMA FinishStep ==
  ASSUME LabelsAreAccepted, TypeOK, BackupInvariant, Finish
  PROVE  BackupInvariant' /\ BackedUpIsRestorable'
<1>1. /\ BackupInvariant' /\ UNCHANGED << source, o, size, image, changes >>
      /\ bpc \in {"read", "finish"}
  BY FinishHolds
<1>2. CASE backedUp' # "OK"
  BY <1>1, <1>2 DEF BackedUpIsRestorable
<1>3. CASE backedUp' = "OK"
  <2> DEFINE path == Label(source.name)
             owner == Owner(o.kind, o.value)
  <2>1. Complete /\ IsBackup(archive', body, path, image, o, owner)
    BY <1>3, FinishHolds
  <2>2. ~ lost /\ Len(source.content) = size /\ Len(image) = size
    BY <2>1 DEF Complete
  <2>3. /\ changes = 0 => image = SubSeq(source.content, 1, Len(image))
        /\ \E s \in Sources : source.name = s.name
    BY <1>1, <2>2 DEF BackupInvariant
  <2>4. NameIsAccepted(path)
    BY <2>3 DEF LabelsAreAccepted
  <2> HIDE DEF path, owner
  <2>5. /\ OpenError(archive', owner) = "OK" /\ PathsError(archive') = "OK"
        /\ TestArchive(archive', owner) = "OK"
        /\ ExtractArchive(archive', owner).error = "OK"
        /\ {f.content : f \in ExtractArchive(archive', owner).files} = {image}
    <3> DEFINE a == archive'
    <3>1. IsBackup(a, body, path, image, o, owner)
      BY <2>1
    <3> HIDE DEF a
    <3>2. /\ OpenError(a, owner) = "OK" /\ PathsError(a) = "OK" /\ TestArchive(a, owner) = "OK"
          /\ ExtractArchive(a, owner).error = "OK"
          /\ {f.content : f \in ExtractArchive(a, owner).files} = {image}
      BY <2>4, <3>1, RoundTrip
    <3>3. QED
      BY <3>2 DEF a
  <2>6. changes = 0 => image = source.content
    <3>1. source.content \in Seq(Range(source.content))
      BY <1>1, IsSequenceInSeq DEF IsSource, TypeOK
    <3>2. SubSeq(source.content, 1, Len(source.content)) = source.content
      BY <3>1, WholePrefix
    <3>3. QED
      BY <2>2, <2>3, <3>2
  <2>7. owner = Owner(o'.kind, o'.value)
    BY <1>1 DEF owner
  <2>8. BackedUpIsRestorable'
    BY <1>1, <2>2, <2>5, <2>6, <2>7 DEF BackedUpIsRestorable, ??
  <2>9. QED
    BY <1>1, <2>8
<1>4. QED
  BY <1>2, <1>3

\* A backup keeps the invariant, and only its end says OK.
LEMMA BackupHolds ==
  ASSUME TypeOK, BackupInvariant, BackupNext
  PROVE  BackupInvariant' /\ (Finish \/ backedUp' # "OK")
<1>1. CASE BackupOpen
  BY <1>1, BackupOpenStep
<1>2. CASE ReadBlock
  BY <1>2, ReadBlockStep
<1>3. CASE EncryptFails
  <2>1. bpc = "read" /\ bpc' = "done" /\ backedUp' = "NOMEM" /\ UNCHANGED << source, changes >>
    BY <1>3 DEF EncryptFails, BackupEnds
  <2>2. BackupInvariant'
    BY <2>1 DEF BackupInvariant
  <2>3. QED
    BY <2>1, <2>2
<1>4. CASE Finish
  BY <1>4, FinishHolds
<1>5. CASE SourceChanges
  <2>1. /\ bpc \in {"read", "finish"} /\ changes' = changes + 1
        /\ UNCHANGED << bpc, o, size, image, body, known, lost, archive, backedUp >>
    BY <1>5 DEF SourceChanges, readVars
  <2>2. backedUp = "none" /\ changes \in Nat
    BY <2>1 DEF BackupInvariant
  <2>3. changes' \in Nat /\ changes' # 0
    BY <2>1, <2>2
  <2>4. source'.name = source.name
    <3>1. PICK content \in Changed : source' = [source EXCEPT !.content = content]
      BY <1>5 DEF SourceChanges
    <3>2. IsSource(source)
      BY <2>1 DEF TypeOK
    <3>3. QED
      BY <3>1, <3>2 DEF IsSource
  <2>5. Underway'
    BY <2>1, <2>2, <2>3, <2>4 DEF BackupInvariant, Underway
  <2>6. ~ lost' => /\ HoldsImage(body', image', o')
                   /\ Len(image') = Len(BlocksOf(image')) * BlockSize \/ Len(image') = size'
    BY <2>1 DEF BackupInvariant
  <2>7. ~ lost' => TableInvariant'
    BY <2>1 DEF BackupInvariant, TableInvariant
  <2>8. BackupInvariant'
    BY <2>3, <2>5, <2>6, <2>7 DEF BackupInvariant, Underway
  <2>9. QED
    BY <2>1, <2>2, <2>8
<1>6. CASE BackupGone
  <2>1. bpc' = "gone" /\ backedUp' = "none" /\ changes' = 0
    BY <1>6 DEF BackupGone
  <2>2. QED
    BY <2>1 DEF BackupInvariant
<1>7. QED
  BY <1>1, <1>2, <1>3, <1>4, <1>5, <1>6 DEF BackupNext

LEMMA BackupKeeps ==
  ASSUME LabelsAreAccepted, TypeOK, BackupInvariant, BackupNext
  PROVE  BackupInvariant' /\ BackedUpIsRestorable'
<1>1. BackupInvariant' /\ (Finish \/ backedUp' # "OK")
  BY BackupHolds
<1>2. QED
  BY <1>1, FinishStep DEF BackedUpIsRestorable

\* A restore begins when the process of the backup is gone.
LEMMA RestoreHolds ==
  ASSUME TypeOK, BackupInvariant, RestoreNext
  PROVE  BackupInvariant' /\ backedUp' = "none"
<1>1. bpc = "gone"
  BY DEF RestoreNext, OpenArchive, CopyPiece, CopyFails, Verify, OpenTarget, WriteNext, Close,
         Kill, Goes, Overwrite, TypeOK
<1>2. UNCHANGED << bpc, changes, backedUp >>
  BY DEF RestoreNext, OpenArchive, CopyPiece, CopyFails, Verify, OpenTarget, WriteNext, Close,
         Kill, Goes, Overwrite, backupVars
<1>3. backedUp = "none" /\ changes \in Nat
  BY <1>1 DEF BackupInvariant
<1>4. QED
  BY <1>1, <1>2, <1>3 DEF BackupInvariant

LEMMA StutterKeeps ==
  ASSUME BackupInvariant, BackedUpIsRestorable, UNCHANGED vars
  PROVE  BackupInvariant' /\ BackedUpIsRestorable'
<1>1. UNCHANGED << bpc, source, o, size, image, body, known, lost, changes, archive, backedUp >>
  BY DEF vars, backupVars, readVars
<1>2. BackupInvariant'
  BY <1>1 DEF BackupInvariant, TableInvariant
<1>3. BackedUpIsRestorable'
  BY <1>1 DEF BackedUpIsRestorable
<1>4. QED
  BY <1>2, <1>3

LEMMA BackupBegins == Init => BackupInvariant /\ BackedUpIsRestorable
<1> SUFFICES ASSUME Init PROVE BackupInvariant /\ BackedUpIsRestorable
  OBVIOUS
<1>1. /\ bpc = "open" /\ source \in Sources /\ backedUp = "none" /\ changes = 0
      /\ known = << >> /\ image = << >> /\ body = << >>
  BY DEF Init, BackupInit
<1>2. QED
  BY <1>1 DEF BackupInvariant, BackedUpIsRestorable

\* The inductive invariant of zupt_disk_backup and zupt_disk_restore: the frames written so
\* far are those of the blocks read so far, and the dedup table points into them.
THEOREM BackupInvariance == LabelsAreAccepted => (Spec => []DiskInvariant)
<1> SUFFICES ASSUME LabelsAreAccepted PROVE Spec => []DiskInvariant
  OBVIOUS
<1>1. Init => BackupInvariant /\ BackedUpIsRestorable
  BY BackupBegins
<1>2. TypeOK /\ BackupInvariant /\ BackedUpIsRestorable /\ [Next]_vars
      => BackupInvariant' /\ BackedUpIsRestorable'
  BY BackupKeeps, RestoreHolds, StutterKeeps DEF Next, BackedUpIsRestorable
<1>3. RestoreInvariant /\ BackupInvariant /\ BackedUpIsRestorable <=> DiskInvariant
  BY DEF DiskInvariant
<1>4. QED
  BY <1>1, <1>2, <1>3, DiskInvariance, DiskTypeCorrect, PTL DEF Spec

\* An archive that zupt_disk_backup returns OK for is opened, tested and extracted
\* with the secret it was made with, and holds exactly what was read from the source,
\* all of it and unchanged when nobody wrote to it: whatever frames are references,
\* whichever calls fail.  The name of the source must be one that readers accept:
\* disk_archive_label lets others pass.
THEOREM BackupRestores == LabelsAreAccepted => (Spec => []BackedUpIsRestorable)
<1>1. DiskInvariant => BackedUpIsRestorable
  BY DEF DiskInvariant
<1>2. QED
  BY <1>1, BackupInvariance, PTL
-----------------------------------------------------------------------------
(* The image of a private copy is that of one archive *)

\* Nothing is lost when empty blocks are left out.
LEMMA WithDataFlattens ==
  ASSUME NEW S, NEW s \in Seq(Seq(S))
  PROVE  FlattenSeq(WithData(s)) = FlattenSeq(s)
<1> DEFINE w == [k \in DOMAIN s |-> IF s[k] = << >> THEN << >> ELSE << s[k] >>]
           n == Len(s)
           kept(k) == FlattenSeq(SubSeq(w, 1, k))
           T == {k \in Nat : k <= n => /\ kept(k) \in Seq(Seq(S))
                                       /\ FlattenSeq(kept(k)) = FlattenSeq(SubSeq(s, 1, k))}
<1>1. n \in Nat /\ DOMAIN s = 1 .. n /\ \A i \in 1 .. n : s[i] \in Seq(S)
  OBVIOUS
<1>2. w = [k \in 1 .. n |-> IF s[k] = << >> THEN << >> ELSE << s[k] >>]
  BY <1>1
<1> HIDE DEF w
<1>3. /\ w \in Seq(Seq(Seq(S))) /\ Len(w) = n
      /\ \A k \in 1 .. n : w[k] = IF s[k] = << >> THEN << >> ELSE << s[k] >>
  BY <1>1, <1>2
<1>4. 0 \in T
  <2>1. SubSeq(w, 1, 0) = << >> /\ SubSeq(s, 1, 0) = << >> /\ << >> \in Seq(Seq(S))
    BY <1>3
  <2>2. QED
    BY <2>1, FlattenEmpty
<1>5. ASSUME NEW k \in 0 .. n - 1, k \in T
      PROVE  k + 1 \in T
  <2>1. k \in Nat /\ k + 1 \in 1 .. n /\ k <= n
    BY <1>1
  <2> DEFINE p == SubSeq(w, 1, k)
             q == SubSeq(s, 1, k)
             x == s[k + 1]
             y == w[k + 1]
  <2>2. SubSeq(w, 1, k + 1) = Append(p, y) /\ p \in Seq(Seq(Seq(S))) /\ y \in Seq(Seq(S))
    BY <1>1, <1>3, <2>1, PrefixGrows, Prefix
  <2>3. SubSeq(s, 1, k + 1) = Append(q, x) /\ q \in Seq(Seq(S)) /\ x \in Seq(S)
    BY <1>1, <2>1, PrefixGrows, Prefix
  <2>4. y = IF x = << >> THEN << >> ELSE << x >>
    BY <1>3, <2>1
  <2>5. kept(k) \in Seq(Seq(S)) /\ FlattenSeq(kept(k)) = FlattenSeq(q)
    BY <1>5, <2>1
  <2> HIDE DEF p, q, x, y, kept, T
  <2>6. kept(k + 1) = kept(k) \o y
    <3>1. FlattenSeq(Append(p, y)) = FlattenSeq(p) \o y
      BY <2>2, FlattenAppend
    <3>2. QED
      BY <2>2, <3>1 DEF kept, p
  <2>7. FlattenSeq(SubSeq(s, 1, k + 1)) = FlattenSeq(q) \o x
    BY <2>3, FlattenAppend
  <2>8. FlattenSeq(q) \in Seq(S)
    BY <2>3, FlattenType
  <2>9. kept(k + 1) \in Seq(Seq(S)) /\ FlattenSeq(kept(k + 1)) = FlattenSeq(q) \o x
    <3>1. CASE x = << >>
      <4>1. kept(k + 1) = kept(k)
        BY <2>4, <2>5, <2>6, <3>1
      <4>2. FlattenSeq(q) \o x = FlattenSeq(q)
        BY <2>8, <3>1
      <4>3. QED
        BY <2>5, <4>1, <4>2
    <3>2. CASE x # << >>
      <4>1. kept(k + 1) = Append(kept(k), x)
        BY <2>3, <2>4, <2>5, <2>6, <3>2
      <4>2. FlattenSeq(Append(kept(k), x)) = FlattenSeq(kept(k)) \o x
        BY <2>3, <2>5, FlattenAppend
      <4>3. Append(kept(k), x) \in Seq(Seq(S))
        BY <2>3, <2>5
      <4>4. QED
        BY <2>5, <4>1, <4>2, <4>3
    <3>3. QED
      BY <3>1, <3>2
  <2>10. /\ k + 1 \in Nat /\ kept(k + 1) \in Seq(Seq(S))
         /\ FlattenSeq(kept(k + 1)) = FlattenSeq(SubSeq(s, 1, k + 1))
    <3>1. FlattenSeq(kept(k + 1)) = FlattenSeq(SubSeq(s, 1, k + 1))
      BY <2>7, <2>9, Zenon
    <3>2. k + 1 \in Nat
      BY <2>1
    <3>3. QED
      BY <2>9, <3>1, <3>2, Zenon
  <2>11. QED
    BY <2>10 DEF T
<1>6. n \in T
  <2> HIDE DEF T, n
  <2>1. \A k \in 0 .. n : k \in T
    BY <1>1, <1>4, <1>5, BoundedInduction
  <2>2. QED
    BY <1>1, <2>1
<1>7. SubSeq(w, 1, n) = w /\ SubSeq(s, 1, n) = s
  BY <1>3, WholePrefix
<1>8. FlattenSeq(FlattenSeq(w)) = FlattenSeq(s)
  <2>1. FlattenSeq(kept(n)) = FlattenSeq(SubSeq(s, 1, n))
    BY <1>1, <1>6
  <2> HIDE DEF n
  <2>2. QED
    BY <1>7, <2>1
<1>9. QED
  BY <1>8 DEF WithData, w

\* All frames but the last, and that one.
LEMMA AllButTheLast ==
  ASSUME NEW s, IsSequence(s), Len(s) > 0
  PROVE  /\ IsSequence(SubSeq(s, 1, Len(s) - 1)) /\ Len(SubSeq(s, 1, Len(s) - 1)) = Len(s) - 1
         /\ s = Append(SubSeq(s, 1, Len(s) - 1), s[Len(s)])
<1>1. s \in Seq(Range(s))
  BY IsSequenceInSeq
<1>2. Len(s) - 1 \in 0 .. Len(s) /\ Len(s) - 1 \in 0 .. Len(s) - 1
  BY <1>1
<1>3. SubSeq(s, 1, Len(s) - 1) \in Seq(Range(s)) /\ Len(SubSeq(s, 1, Len(s) - 1)) = Len(s) - 1
  BY <1>1, <1>2, Prefix
<1>4. SubSeq(s, 1, Len(s)) = Append(SubSeq(s, 1, Len(s) - 1), s[Len(s)])
  <2>1. SubSeq(s, 1, (Len(s) - 1) + 1) = Append(SubSeq(s, 1, Len(s) - 1), s[(Len(s) - 1) + 1])
    BY <1>1, <1>2, PrefixGrows
  <2>2. (Len(s) - 1) + 1 = Len(s)
    BY <1>1
  <2>3. QED
    BY <2>1, <2>2, Zenon
<1>5. SubSeq(s, 1, Len(s)) = s
  BY <1>1, WholePrefix
<1>6. QED
  BY <1>3, <1>4, <1>5, SeqIsSequence

\* An archive of a disk is one of a backup for whoever has its secret.
LEMMA DiskIsBackup ==
  ASSUME NEW a, IsArchive(a), Len(a.frames) > 0, NEW how \in DiskOptions, HoldsDisk(a, how),
         NEW r, r.quota = 0,
         Encrypts(how) => r.secret.form = FormOf(how.kind) /\ r.secret.value = how.value
  PROVE  IsBackup(a, FramesIn(a), Entries(a)[1].path, ImageIn(a), how, r)
<1> DEFINE frames == FramesIn(a)
           path == Entries(a)[1].path
           content == ImageIn(a)
<1>1. IsSequence(frames)
  BY AllButTheLast DEF IsArchive, FramesIn
<1>2. /\ how.kind \in NativeKinds \cup {"none"} /\ IsSequence(content)
      /\ HoldsImage(frames, content, how)
  BY DEF HoldsDisk
<1>3. a = Disk(frames, path, content, how)
  BY DEF HoldsDisk, Disk
<1>4. how.layout = "disk" /\ Len(frames) \in Nat
  BY <1>1, DiskAssumption DEF IsSequence
<1> HIDE DEF frames, path, content
<1>5. IsDiskOf(a, frames, path, content, how)
  BY <1>3, <1>4, DiskParts
<1>6. IsBackup(a, frames, path, content, how, r)
  BY <1>1, <1>2, <1>5 DEF IsBackup
<1>7. QED
  BY <1>6 DEF frames, path, content

\* What a backup publishes is written as archives are.
LEMMA PublishedIsWritten ==
  ASSUME NEW a, NEW frames, NEW path, NEW content, NEW how, NEW r,
         IsBackup(a, frames, path, content, how, r), a = Disk(frames, path, content, how)
  PROVE  IsWritten(a)
<1> DEFINE record == DiskRecord(path, content, how)
<1>1. /\ a.footer.index = Len(frames) + 1 /\ a.frames = Append(frames, DiskIndex(frames, path, content, how))
      /\ a.trailer = TrailerOf(a.header, a.footer, KeyFor(how))
      /\ how \in DiskOptions /\ how.kind \in NativeKinds \cup {"none"}
      /\ IsSequence(content) /\ IsSequence(frames) /\ HoldsImage(frames, content, how)
  BY DEF IsBackup, IsDiskOf
<1>2. Len(a.frames) = Len(frames) + 1 /\ Len(frames) \in Nat
      /\ DOMAIN a.frames = 1 .. Len(frames) + 1
      /\ \A i \in 1 .. Len(frames) : a.frames[i] = frames[i]
  BY FramesOfBackup
<1>3. a.header = [magic |-> a.header.magic, version |-> a.header.version, flags |-> a.header.flags,
                  encOffset |-> a.header.encOffset, commentOffset |-> a.header.commentOffset]
  BY DEF Disk, Closed
<1>4. a.trailer.key = KeyFor(how)
  BY <1>1 DEF TrailerOf
<1>5. FramesIn(a) = frames
  <2> DEFINE index == DiskIndex(frames, path, content, how)
             S == Range(frames) \cup {index}
  <2>1. frames \in Seq(S) /\ index \in S
    <3>1. \A i \in 1 .. Len(frames) : frames[i] \in Range(frames)
      BY <1>1, IsSequenceInSeq
    <3>2. QED
      BY <1>1, <3>1 DEF IsSequence
  <2> HIDE DEF S, index
  <2>2. SubSeq(Append(frames, index), 1, Len(frames)) = frames
    BY <2>1, Appended
  <2>3. Len(a.frames) - 1 = Len(frames)
    BY <1>2
  <2>4. QED
    BY <1>1, <2>2, <2>3 DEF FramesIn, index
<1>6. Entries(a) = << record >>
  BY BackupOpens
<1>7. record.path = path /\ record.hash = BlocksOf(content)
  BY DEF DiskRecord, Entry
<1> HIDE DEF record
<1>8. Entries(a)[1] = record
  BY <1>6
<1>9. ImageIn(a) = content
  BY <1>1, <1>7, <1>8 DEF ImageIn, HoldsImage
<1>10. HoldsDisk(a, how)
  BY <1>1, <1>5, <1>7, <1>8, <1>9 DEF HoldsDisk, Disk
<1>11. QED
  BY <1>1, <1>2, <1>3, <1>4, <1>10 DEF IsWritten

\* The index of an encrypted archive is opened with its key only.
LEMMA IndexNeedsTheKey ==
  ASSUME NEW frames, NEW path, NEW content, NEW how, how.layout = "disk", Encrypts(how),
         how.kind \in NativeKinds \cup {"none"}, NEW key, NEW aad,
         BlockError(DiskIndex(frames, path, content, how), key, IndexSeq, aad) = "OK"
  PROVE  key = KeyFor(how)
<1> DEFINE index == DiskIndex(frames, path, content, how)
<1>1. PICK data : /\ index = Sealed(Frame("INDEX", "STORE", data), KeyFor(how), IndexSeq)
                  /\ IsSequence(data)
  BY IndexIsSealed
<1> DEFINE f == Frame("INDEX", "STORE", data)
<1>2. IsFrameRecord(f)
  BY <1>1, FrameType
<1>3. KeyFor(how) # NoKey
  BY KeyIsSomething
<1> HIDE DEF f
<1>4. KeepsWhat(Sealed(f, KeyFor(how), IndexSeq), f, KeyFor(how), IndexSeq)
  BY <1>2, SealFields
<1>5. index = Sealed(f, KeyFor(how), IndexSeq)
  BY <1>1 DEF f
<1> HIDE DEF index
<1>6. index.sealed /\ index.pay.seal = [key |-> KeyFor(how), seq |-> IndexSeq, preface |-> Preface(index)]
  BY <1>3, <1>4, <1>5 DEF KeepsWhat
<1>7. BlockError(index, key, IndexSeq, aad) = "OK"
  BY DEF index
<1>8. Unseals(index, key, IndexSeq, aad)
  BY <1>6, <1>7 DEF BlockError, SealError, Check, ??
<1>9. index.pay.seal.key = key
  <2>1. CASE aad
    BY <1>8, <2>1 DEF Unseals
  <2>2. CASE ~ aad
    BY <1>8, <2>2 DEF Unseals
  <2>3. QED
    BY <2>1, <2>2
<1>10. index.pay.seal.key = KeyFor(how)
  BY <1>6
<1>11. QED
  BY <1>9, <1>10

\* Two archives whose trailers bind the same have the same header.
LEMMA BoundTwice ==
  ASSUME NEW h, NEW g, NEW f,
         h = [magic |-> h.magic, version |-> h.version, flags |-> h.flags,
              encOffset |-> h.encOffset, commentOffset |-> h.commentOffset],
         g = [magic |-> g.magic, version |-> g.version, flags |-> g.flags,
              encOffset |-> g.encOffset, commentOffset |-> g.commentOffset],
         Bound(h, f) = Bound(g, f)
  PROVE  h = g
<1>1. /\ h.magic = g.magic /\ h.version = g.version /\ h.flags = g.flags
      /\ h.encOffset = g.encOffset /\ h.commentOffset = g.commentOffset
  BY DEF Bound
<1>2. QED
  BY <1>1

\* Who opens a copy that has the index of a disk's archive has the secret of that.
LEMMA OpenerHasTheSecret ==
  ASSUME NEW a, IsArchive(a), Len(a.frames) > 0, NEW how \in DiskOptions, HoldsDisk(a, how),
         NEW c, c.header.flags = a.header.flags, c.frames[c.footer.index] = a.frames[Len(a.frames)],
         NEW r, OpenError(c, r) = "OK", Encrypts(how)
  PROVE  r.secret.form = FormOf(how.kind) /\ r.secret.value = how.value
<1> DEFINE owner == Owner(how.kind, how.value)
           frames == FramesIn(a)
           path == Entries(a)[1].path
           content == ImageIn(a)
           key == KeyOf(c, r)
<1>1. owner.quota = 0 /\ owner.secret.form = FormOf(how.kind) /\ owner.secret.value = how.value
  BY DEF Owner, Secret
<1> HIDE DEF owner
<1>2. IsBackup(a, frames, path, content, how, owner)
  BY <1>1, DiskIsBackup
<1> HIDE DEF frames, path, content
<1>3. /\ how.layout = "disk" /\ how.kind \in NativeKinds \cup {"none"}
      /\ Flag(a, "ENCRYPTED") /\ ~ OldDisk(a)
  BY <1>2, OwnerHasTheKey DEF IsBackup
<1>4. Flag(c, "ENCRYPTED") /\ ~ OldDisk(c)
  BY <1>3 DEF Flag, OldDisk
<1>5. c.frames[c.footer.index] = DiskIndex(frames, path, content, how)
  BY <1>2, FramesOfBackup
<1>6. EncHeaderError(c, r) = "OK" /\ IndexError(c, key) = "OK"
  BY DEF OpenError, MetadataError, ??
<1> HIDE DEF key
<1>7. BlockError(c.frames[c.footer.index], key, IndexSeq, Aad(c)) = "OK"
  BY <1>4, <1>6 DEF IndexError, ??
<1>8. key = KeyFor(how)
  BY <1>3, <1>5, <1>7, IndexNeedsTheKey
<1>9. key = Key(Kind(c), r.secret.value)
  BY <1>4 DEF key, KeyOf
<1>10. KeyFor(how) = Key(how.kind, how.value)
  BY DEF KeyFor
<1>11. Kind(c) = how.kind /\ r.secret.value = how.value
  <2> DEFINE k == Kind(c)
             v == r.secret.value
  <2>1. Key(k, v) = Key(how.kind, how.value)
    BY <1>8, <1>9, <1>10
  <2> HIDE DEF k, v
  <2>2. k = how.kind /\ v = how.value
    BY <2>1 DEF Key
  <2>3. QED
    BY <2>2 DEF k, v
<1>12. SecretError(Kind(c), r) = "OK"
  BY <1>4, <1>6 DEF EncHeaderError, ??
<1>13. r.secret.form = FormOf(how.kind)
  BY <1>11, <1>12 DEF SecretError, Check
<1>14. QED
  BY <1>11, <1>13

\* The content of what is extracted.
ContentsOf(a, r) == {f.content : f \in ExtractArchive(a, r).files}

LEMMA RoundContents ==
  ASSUME NEW a, NEW frames, NEW path, NEW content, NEW how, NEW r,
         IsBackup(a, frames, path, content, how, r)
  PROVE  ContentsOf(a, r) = {content}
BY RoundTrip DEF ContentsOf

\* A copy that passed the test and has the index of a disk's archive gives its image.
LEMMA TestedIsTheImage ==
  ASSUME NEW a, IsArchive(a), Len(a.frames) > 0, NEW how \in DiskOptions, HoldsDisk(a, how),
         NEW c, IsArchive(c), c.header.flags = a.header.flags, Flag(c, "DISK_IMAGE"),
         c.frames[c.footer.index] = a.frames[Len(a.frames)], a.footer.index = Len(a.frames),
         NEW r, r.quota = 0, OpenError(c, r) = "OK", Len(Entries(c)) = 1,
         Entries(c)[1].count = c.footer.total, TestArchive(c, r) = "OK"
  PROVE  ContentsOf(c, r) = ContentsOf(a, r)
<1> DEFINE frames == FramesIn(a)
           path == Entries(a)[1].path
           content == ImageIn(a)
           record == DiskRecord(path, content, how)
<1>1. Encrypts(how) => r.secret.form = FormOf(how.kind) /\ r.secret.value = how.value
  BY OpenerHasTheSecret
<1>2. IsBackup(a, frames, path, content, how, r)
  BY <1>1, DiskIsBackup
<1> HIDE DEF frames, path, content
<1>3. Entries(a) = << record >> /\ ContentsOf(a, r) = {content}
  <2>1. Entries(a) = << record >>
    BY <1>2, BackupOpens
  <2>2. ContentsOf(a, r) = {content}
    BY <1>2, RoundContents
  <2>3. QED
    BY <2>1, <2>2
<1>4. record.hash = BlocksOf(content)
  BY DEF DiskRecord, Entry
<1>5. ~ OldDisk(c)
  <2>1. ~ OldDisk(a)
    BY <1>2, OwnerHasTheKey
  <2>2. QED
    BY <2>1 DEF OldDisk, Flag
<1>6. /\ Chunks(c, r) \in Seq(Seq(UnitsOf(c)))
      /\ HashHolds(c, Entries(c)[1], Chunks(c, r))
      /\ ContentsOf(c, r) = {Whole(c, r)}
  BY TestedDisk DEF ContentsOf
<1>7. Entries(c) = Entries(a)
  BY DEF Entries
<1> HIDE DEF record
<1>8. Entries(c)[1].hash = BlocksOf(content)
  BY <1>3, <1>4, <1>7
<1>9. WithData(Chunks(c, r)) = BlocksOf(content)
  BY <1>5, <1>6, <1>8 DEF HashHolds, HashRequired
<1>10. FlattenSeq(BlocksOf(content)) = content
  BY <1>2 DEF IsBackup, HoldsImage
<1>11. Whole(c, r) = content
  BY <1>6, <1>9, <1>10, WithDataFlattens DEF Whole
<1>12. QED
  BY <1>3, <1>6, <1>11

\* What another process writes over an archive is one, and written as they are.
LEMMA OverwritesAreWritten ==
  ASSUME ArchivesAreWritten, NEW a \in Overwrites
  PROVE  IsWritten(a) /\ IsArchive(a) /\ a # NoArchive
<1>1. IsArchive(a)
  BY DiskAssumption
<1>2. "header" \in DOMAIN a
  BY <1>1 DEF IsArchive
<1>3. a # NoArchive
  BY <1>2 DEF NoArchive
<1>4. QED
  BY <1>1, <1>3 DEF ArchivesAreWritten

\* Before a target is written, the copy holds the image of one archive.
LEMMA ImageOfOne ==
  ASSUME ArchivesAreWritten, TypeOK, ControlInvariant, SnapshotInvariant, rpc = "write",
         ~ OldDisk(snapshot)
  PROVE  ContentWith(snapshot) \in {ContentWith(a) : a \in {opened} \cup Overwrites}
<1>1. IsArchive(snapshot) /\ reader \in Readers /\ reader.quota = 0 /\ IsArchive(opened) /\ opened # NoArchive
  BY DiskAssumption DEF TypeOK, ControlInvariant, IsArchiveOrNone
<1>2. DiskError = "OK" /\ TestArchive(snapshot, reader) = "OK"
  BY DEF ControlInvariant, Passed, Preflight
<1>3. OpenError(snapshot, reader) = "OK"
  BY <1>2 DEF DiskError, ??
<1>4. Len(Entries(snapshot)) = 1 /\ Flag(snapshot, "DISK_IMAGE")
      /\ Entries(snapshot)[1].count = snapshot.footer.total
  <2>1. Check(Len(Entries(snapshot)) = 1 /\ Flag(snapshot, "DISK_IMAGE"), "CORRUPT") = "OK"
    BY <1>2 DEF DiskError, ??
  <2>2. Check(DiskEntry.count = snapshot.footer.total /\ DiskEntry.offset < snapshot.footer.index,
              "CORRUPT") = "OK"
    BY <1>2 DEF DiskError, ??
  <2>3. QED
    BY <2>1, <2>2 DEF Check, DiskEntry
<1>5. snapshot.footer.magic /\ TrailerError(snapshot, KeyOf(snapshot, reader)) = "OK"
  <2>1. FooterError(snapshot) = "OK"
    BY <1>3 DEF OpenError, ??
  <2>2. TrailerError(snapshot, KeyOf(snapshot, reader)) = "OK"
    BY <1>3 DEF OpenError, MetadataError, ??
  <2>3. QED
    BY <2>1, <2>2 DEF FooterError, Check, ??
<1>6. PICK b \in {opened} \cup Overwrites :
        /\ Mixed(b) /\ snapshot.footer = b.footer /\ snapshot.trailer = b.trailer
        /\ Len(snapshot.frames) = Len(b.frames) /\ Len(opened.frames) = Len(b.frames)
  BY <1>5 DEF SnapshotInvariant
<1>7. \A a \in {opened} \cup Overwrites : IsWritten(a) /\ IsArchive(a)
  <2>1. IsWritten(opened)
    BY <1>1 DEF SnapshotInvariant
  <2>2. QED
    BY <1>1, <2>1, OverwritesAreWritten
<1>8. snapshot.header = opened.header
  BY <1>1 DEF SnapshotInvariant
<1>9. opened.header = b.header
  <2> DEFINE f == b.footer
             h == opened.header
             g == b.header
  <2>1. b.trailer = [present |-> TRUE, key |-> b.trailer.key, over |-> Bound(g, f)]
    BY <1>7 DEF IsWritten, TrailerOf
  <2>2. b.trailer = [present |-> TRUE, key |-> KeyOf(snapshot, reader), over |-> Bound(h, f)]
    <3>1. snapshot.trailer.present
      BY <1>6, <2>1
    <3>2. snapshot.trailer = [present |-> TRUE, key |-> KeyOf(snapshot, reader),
                              over |-> Bound(snapshot.header, snapshot.footer)]
      BY <1>5, <3>1 DEF TrailerError, Check
    <3>3. QED
      BY <1>6, <1>8, <3>2
  <2>3. Bound(h, f) = Bound(g, f)
    BY <2>1, <2>2
  <2>4. /\ h = [magic |-> h.magic, version |-> h.version, flags |-> h.flags,
                encOffset |-> h.encOffset, commentOffset |-> h.commentOffset]
        /\ g = [magic |-> g.magic, version |-> g.version, flags |-> g.flags,
                encOffset |-> g.encOffset, commentOffset |-> g.commentOffset]
    BY <1>6, <1>7 DEF IsWritten
  <2> HIDE DEF f, h, g
  <2>5. h = g
    BY <2>3, <2>4, BoundTwice
  <2>6. QED
    BY <2>5 DEF h, g
<1>10. PICK a \in {opened, b} : FrameOf(a, Len(snapshot.frames))
  <2>1. Len(snapshot.frames) \in DOMAIN snapshot.frames
    <3>1. Len(snapshot.frames) > 0
      BY <1>6, <1>7 DEF IsWritten
    <3>2. DOMAIN snapshot.frames = 1 .. Len(snapshot.frames) /\ Len(snapshot.frames) \in Nat
      BY <1>1, IsSequenceInSeq DEF IsArchive, IsSequence
    <3>3. QED
      BY <3>1, <3>2
  <2>2. QED
    BY <1>6, <2>1 DEF Mixed
<1>11. /\ a \in {opened} \cup Overwrites /\ IsArchive(a) /\ IsWritten(a)
       /\ a.header = snapshot.header /\ Len(a.frames) = Len(snapshot.frames)
       /\ snapshot.footer.index = Len(snapshot.frames)
  <2>1. b.footer.index = Len(b.frames)
    BY <1>6, <1>7 DEF IsWritten
  <2>2. QED
    BY <1>6, <1>7, <1>8, <1>9, <2>1
<1>12. snapshot.frames[snapshot.footer.index] = a.frames[Len(a.frames)]
  BY <1>10, <1>11 DEF FrameOf
<1>13. PICK how \in DiskOptions : HoldsDisk(a, how)
  BY <1>4, <1>11 DEF IsWritten, OldDisk, Flag
<1>14. Len(a.frames) > 0 /\ a.footer.index = Len(a.frames)
  BY <1>11 DEF IsWritten
<1>15. ContentWith(snapshot) = ContentWith(a)
  BY <1>1, <1>2, <1>3, <1>4, <1>11, <1>12, <1>13, <1>14, TestedIsTheImage DEF ContentWith, ContentsOf
<1>16. QED
  BY <1>11, <1>15

-----------------------------------------------------------------------------
(* The steps that a private copy comes from *)

LEMMA SnapshotBegins ==
  ASSUME ArchivesAreWritten, Init
  PROVE  SnapshotInvariant /\ ImageIsOfOneArchive
<1>1. archive \in Earlier /\ rpc = "idle" /\ opened = NoArchive /\ target = before
  BY DEF Init, RestoreInit
<1>2. archive # NoArchive => IsWritten(archive)
  BY <1>1 DEF ArchivesAreWritten
<1>3. QED
  BY <1>1, <1>2 DEF SnapshotInvariant, ImageIsOfOneArchive

\* What shows at the archive's place while a disk is backed up is written as archives are.
LEMMA BackupWrites ==
  ASSUME ArchivesAreWritten, RestoreInvariant, BackupInvariant, SnapshotInvariant,
         BackupNext, UNCHANGED restoreVars
  PROVE  SnapshotInvariant' /\ ImageIsOfOneArchive'
<1>1. bpc # "gone"
  BY DEF BackupNext, BackupOpen, ReadBlock, EncryptFails, Finish, SourceChanges, BackupGone
<1>2. rpc = "idle" /\ rpc' = "idle" /\ UNCHANGED << opened, target, before >>
  BY <1>1 DEF RestoreInvariant, TypeOK, restoreVars
<1>3. opened = NoArchive /\ target = before
  BY <1>2 DEF RestoreInvariant, ControlInvariant
<1>4. archive' = archive \/ IsWritten(archive')
  <2>1. CASE Finish
    <3>1. TypeOK
      BY DEF RestoreInvariant
    <3>2. \/ archive' = archive
          \/ /\ IsBackup(archive', body, Label(source.name), image, o, Owner(o.kind, o.value))
             /\ archive' = Disk(body, Label(source.name), image, o)
      BY <2>1, <3>1, FinishHolds
    <3>3. QED
      BY <3>2, PublishedIsWritten
  <2>2. CASE ~ Finish
    BY <2>2 DEF BackupNext, BackupOpen, ReadBlock, EncryptFails, SourceChanges, BackupGone
  <2>3. QED
    BY <2>1, <2>2
<1>5. archive' # NoArchive => IsWritten(archive')
  BY <1>4 DEF SnapshotInvariant
<1>6. QED
  BY <1>2, <1>3, <1>5 DEF SnapshotInvariant, ImageIsOfOneArchive

LEMMA OpeningCopies ==
  ASSUME SnapshotInvariant, RestoreInvariant, OpenArchive
  PROVE  SnapshotInvariant' /\ ImageIsOfOneArchive'
<1>1. /\ rpc = "idle" /\ target' = before' /\ archive' = archive
  BY DEF OpenArchive, backupVars
<1>2. opened = NoArchive
  BY <1>1 DEF RestoreInvariant, ControlInvariant
<1>3. CASE /\ archive # NoArchive /\ rpc' = "copy" /\ opened' = archive
           /\ snapshot' = [archive EXCEPT !.frames = << >>]
  <2>1. IsArchive(archive)
    BY <1>3 DEF RestoreInvariant, TypeOK, IsArchiveOrNone
  <2>2. snapshot'.header = archive.header /\ snapshot'.frames = << >>
    <3>1. snapshot' = [header |-> archive.header, frames |-> << >>, footer |-> archive.footer,
                       trailer |-> archive.trailer]
      BY <1>3, <2>1 DEF IsArchive
    <3>2. QED
      BY <3>1
  <2>3. Mixed(archive)'
    BY <2>2 DEF Mixed
  <2>4. QED
    BY <1>1, <1>3, <2>2, <2>3 DEF SnapshotInvariant, ImageIsOfOneArchive
<1>4. CASE rpc' = "done" /\ opened' = opened
  BY <1>1, <1>2, <1>4 DEF SnapshotInvariant, ImageIsOfOneArchive
<1>5. QED
  BY <1>3, <1>4 DEF OpenArchive

\* A step that ends a restore or goes on, with the same copy.
LEMMA SameCopy ==
  ASSUME SnapshotInvariant,
         UNCHANGED << opened, snapshot, overwritten >>,
         archive' = archive \/ (archive' = NoArchive /\ rpc' = "done"),
         rpc' \in {rpc, "done", "killed"} \/ (rpc = "verify" /\ rpc' = "target")
           \/ (rpc = "target" /\ rpc' = "write")
  PROVE  SnapshotInvariant'
<1>1. archive' # NoArchive => IsWritten(archive')
  BY DEF SnapshotInvariant
<1>2. opened' # NoArchive => IsWritten(opened') /\ snapshot'.header = opened'.header
  BY DEF SnapshotInvariant
<1>3. rpc' \in {"copy", "verify", "target", "write"} =>
        archive' = opened' \/ (overwritten' /\ archive' \in Overwrites)
  BY DEF SnapshotInvariant
<1>4. ASSUME NEW b PROVE Mixed(b)' <=> Mixed(b)
  BY DEF Mixed, FrameOf
<1>5. rpc' = "copy" => Mixed(archive)'
  <2> SUFFICES ASSUME rpc' = "copy" PROVE Mixed(archive)'
    OBVIOUS
  <2>1. rpc = "copy" /\ archive' = archive
    OBVIOUS
  <2>2. Mixed(archive)
    BY <2>1 DEF SnapshotInvariant
  <2>3. QED
    BY <2>1, <2>2 DEF Mixed, FrameOf
<1>6. rpc' \in {"verify", "target", "write"} /\ snapshot'.footer.magic =>
        \E b \in {opened'} \cup Overwrites :
          /\ Mixed(b)' /\ snapshot'.footer = b.footer /\ snapshot'.trailer = b.trailer
          /\ Len(snapshot'.frames) = Len(b.frames) /\ Len(opened'.frames) = Len(b.frames)
  <2> SUFFICES ASSUME rpc' \in {"verify", "target", "write"}, snapshot'.footer.magic
               PROVE  \E b \in {opened'} \cup Overwrites :
                        /\ Mixed(b)' /\ snapshot'.footer = b.footer /\ snapshot'.trailer = b.trailer
                        /\ Len(snapshot'.frames) = Len(b.frames)
                        /\ Len(opened'.frames) = Len(b.frames)
    OBVIOUS
  <2>1. rpc \in {"verify", "target", "write"} /\ snapshot.footer.magic
    OBVIOUS
  <2>2. PICK b \in {opened} \cup Overwrites :
          /\ Mixed(b) /\ snapshot.footer = b.footer /\ snapshot.trailer = b.trailer
          /\ Len(snapshot.frames) = Len(b.frames) /\ Len(opened.frames) = Len(b.frames)
    BY <2>1 DEF SnapshotInvariant
  <2>3. Mixed(b)'
    BY <1>4, <2>2
  <2>4. QED
    BY <2>2, <2>3
<1>7. QED
  BY <1>1, <1>2, <1>3, <1>5, <1>6 DEF SnapshotInvariant

\* The target is as it was after a step that does not write it.
LEMMA SameTarget ==
  ASSUME RestoreInvariant, rpc \in {"copy", "verify", "target"}, UNCHANGED << target, before >>
  PROVE  ImageIsOfOneArchive'
BY DEF RestoreInvariant, ControlInvariant, ImageIsOfOneArchive

\* A copy stays one of frames of two archives.
LEMMA CopyMixes ==
  ASSUME SnapshotInvariant, RestoreInvariant, CopyPiece
  PROVE  SnapshotInvariant' /\ ImageIsOfOneArchive'
<1> DEFINE next == Len(snapshot.frames) + 1
           grown == [snapshot EXCEPT !.frames = Append(snapshot.frames, archive.frames[next])]
           end == IF Len(archive.frames) = Len(opened.frames)
                  THEN [archive EXCEPT !.header = snapshot.header, !.frames = snapshot.frames]
                  ELSE [snapshot EXCEPT !.footer.magic = FALSE, !.trailer = NoTrailer]
<1>1. rpc = "copy" /\ archive' = archive /\ overwritten' = overwritten
  BY DEF CopyPiece, backupVars
<1>2. IsArchive(snapshot) /\ IsArchive(opened) /\ IsArchive(archive) /\ opened # NoArchive
  BY <1>1 DEF RestoreInvariant, TypeOK, ControlInvariant, IsArchiveOrNone
<1>3. /\ archive # NoArchive => IsWritten(archive)
      /\ IsWritten(opened) /\ snapshot.header = opened.header
      /\ archive = opened \/ (overwritten /\ archive \in Overwrites)
      /\ Mixed(archive)
  BY <1>1, <1>2 DEF SnapshotInvariant
<1>4. /\ snapshot.frames \in Seq(Range(snapshot.frames)) /\ Len(snapshot.frames) \in Nat
      /\ Len(opened.frames) \in Nat /\ Len(archive.frames) \in Nat
      /\ DOMAIN archive.frames = 1 .. Len(archive.frames)
      /\ DOMAIN snapshot.frames = 1 .. Len(snapshot.frames)
  BY <1>2, IsSequenceInSeq DEF IsArchive, IsSequence
<1>5. CASE /\ next <= Len(archive.frames) /\ snapshot' = grown
           /\ UNCHANGED << rpc, reader, opened, target, before, chunks, errors, restored >>
  <2> DEFINE frame == archive.frames[next]
             S == Range(snapshot.frames) \cup {frame}
  <2>1. snapshot'.header = snapshot.header /\ snapshot'.frames = Append(snapshot.frames, frame)
    <3>1. snapshot' = [header |-> snapshot.header, frames |-> Append(snapshot.frames, frame),
                       footer |-> snapshot.footer, trailer |-> snapshot.trailer]
      BY <1>2, <1>5 DEF IsArchive
    <3>2. QED
      BY <3>1
  <2>2. /\ DOMAIN snapshot'.frames = 1 .. next /\ snapshot'.frames[next] = frame
        /\ \A i \in 1 .. next - 1 : snapshot'.frames[i] = snapshot.frames[i]
    <3>1. snapshot.frames \in Seq(S) /\ frame \in S
      <4>1. \A i \in 1 .. Len(snapshot.frames) : snapshot.frames[i] \in Range(snapshot.frames)
        BY <1>4
      <4>2. snapshot.frames = [i \in 1 .. Len(snapshot.frames) |-> snapshot.frames[i]]
        BY <1>2 DEF IsArchive, IsSequence
      <4>3. QED
        BY <1>4, <4>1, <4>2
    <3> HIDE DEF S, frame
    <3>2. QED
      BY <1>4, <2>1, <3>1
  <2>3. next \in DOMAIN archive.frames
    BY <1>4, <1>5
  <2>4. ASSUME NEW i \in DOMAIN snapshot'.frames
        PROVE  FrameOf(opened, i)' \/ FrameOf(archive, i)'
    <3>1. CASE i = next
      BY <1>1, <2>2, <2>3, <3>1 DEF FrameOf
    <3>2. CASE i # next
      <4>1. i \in DOMAIN snapshot.frames /\ snapshot'.frames[i] = snapshot.frames[i]
        BY <1>4, <2>2, <3>2
      <4>2. FrameOf(opened, i) \/ FrameOf(archive, i)
        BY <1>3, <4>1 DEF Mixed
      <4>3. QED
        BY <1>1, <1>5, <4>1, <4>2 DEF FrameOf
    <3>3. QED
      BY <3>1, <3>2
  <2>5. Mixed(archive)'
    BY <2>4 DEF Mixed
  <2>6. SnapshotInvariant'
    BY <1>1, <1>3, <1>5, <2>1, <2>5 DEF SnapshotInvariant
  <2>7. QED
    BY <1>1, <1>5, <2>6, SameTarget
<1>6. CASE /\ next > Len(opened.frames) /\ next <= Len(archive.frames) + 1
           /\ snapshot' = end /\ rpc' = "verify"
           /\ UNCHANGED << reader, opened, target, before, chunks, errors, restored >>
  <2>1. CASE Len(archive.frames) = Len(opened.frames)
    <3>1. /\ snapshot'.header = snapshot.header /\ snapshot'.frames = snapshot.frames
          /\ snapshot'.footer = archive.footer /\ snapshot'.trailer = archive.trailer
      <4>1. snapshot' = [header |-> snapshot.header, frames |-> snapshot.frames,
                         footer |-> archive.footer, trailer |-> archive.trailer]
        BY <1>2, <1>6, <2>1 DEF IsArchive
      <4>2. QED
        BY <4>1
    <3>2. Len(snapshot.frames) = Len(opened.frames)
      BY <1>4, <1>6, <2>1
    <3>3. ASSUME NEW i \in DOMAIN snapshot'.frames
          PROVE  FrameOf(opened, i)' \/ FrameOf(archive, i)'
      <4>1. i \in DOMAIN snapshot.frames /\ snapshot'.frames[i] = snapshot.frames[i]
        BY <3>1
      <4>2. FrameOf(opened, i) \/ FrameOf(archive, i)
        BY <1>3, <4>1 DEF Mixed
      <4>3. QED
        BY <1>1, <1>6, <4>1, <4>2 DEF FrameOf
    <3>4. Mixed(archive)'
      BY <3>3 DEF Mixed
    <3>5. PICK w \in {opened} \cup Overwrites : w = archive
      BY <1>3
    <3>6. Mixed(w)'
      BY <1>1, <3>4, <3>5 DEF Mixed, FrameOf
    <3>7. \E c \in {opened'} \cup Overwrites :
            /\ Mixed(c)' /\ snapshot'.footer = c.footer /\ snapshot'.trailer = c.trailer
            /\ Len(snapshot'.frames) = Len(c.frames) /\ Len(opened'.frames) = Len(c.frames)
      BY <1>6, <2>1, <3>1, <3>2, <3>5, <3>6
    <3>8. SnapshotInvariant'
      BY <1>1, <1>3, <1>6, <3>1, <3>7 DEF SnapshotInvariant
    <3>9. QED
      BY <1>1, <1>6, <3>8, SameTarget
  <2>2. CASE Len(archive.frames) # Len(opened.frames)
    <3> DEFINE footer == [snapshot.footer EXCEPT !.magic = FALSE]
    <3>1. snapshot'.header = snapshot.header /\ snapshot'.footer = footer
      <4>1. snapshot' = [header |-> snapshot.header, frames |-> snapshot.frames,
                         footer |-> footer, trailer |-> NoTrailer]
        BY <1>2, <1>6, <2>2 DEF IsArchive
      <4>2. QED
        BY <4>1
    <3>2. footer.magic = FALSE
      BY <1>2 DEF IsArchive, IsFooter
    <3>3. SnapshotInvariant'
      BY <1>1, <1>3, <1>6, <3>1, <3>2 DEF SnapshotInvariant
    <3>4. QED
      BY <1>1, <1>6, <3>3, SameTarget
  <2>3. QED
    BY <2>1, <2>2
<1>7. CASE RestoreEnds("IO")
  <2>1. /\ rpc' = "done"
        /\ UNCHANGED << opened, snapshot, target, before >>
    BY <1>7 DEF RestoreEnds
  <2>2. SnapshotInvariant'
    BY <1>1, <2>1, SameCopy
  <2>3. QED
    BY <1>1, <2>1, <2>2, SameTarget
<1>8. QED
  BY <1>5, <1>6, <1>7 DEF CopyPiece

\* Steps that leave the copy and the target alone.
LEMMA QuietSteps ==
  ASSUME SnapshotInvariant, RestoreInvariant, CopyFails \/ Verify \/ OpenTarget
  PROVE  SnapshotInvariant' /\ ImageIsOfOneArchive'
<1>1. /\ rpc \in {"copy", "verify", "target"}
      /\ UNCHANGED << opened, snapshot, target, before, overwritten, archive >>
  BY DEF CopyFails, Verify, OpenTarget, RestoreEnds, backupVars
<1>2. rpc' = "done" \/ (rpc = "verify" /\ rpc' = "target") \/ (rpc = "target" /\ rpc' = "write")
  BY DEF CopyFails, Verify, OpenTarget, RestoreEnds
<1>3. SnapshotInvariant'
  BY <1>1, <1>2, SameCopy
<1>4. QED
  BY <1>1, <1>3, SameTarget

\* What is written is the image of one archive.
LEMMA WritesOfOne ==
  ASSUME ArchivesAreWritten, SnapshotInvariant, RestoreInvariant, WriteNext \/ Close
  PROVE  SnapshotInvariant' /\ ImageIsOfOneArchive'
<1>1. rpc = "write" /\ rpc' \in {"write", "done"}
      /\ UNCHANGED << reader, opened, snapshot, before, overwritten >>
  BY DEF WriteNext, Close
<1>2. archive' = archive \/ (archive' = NoArchive /\ rpc' = "done")
  BY DEF WriteNext, Close, backupVars
<1>3. SnapshotInvariant'
  BY <1>1, <1>2, SameCopy
<1>4. ~ OldDisk(snapshot) =>
        ContentWith(snapshot) \in {ContentWith(a) : a \in {opened} \cup Overwrites}
  BY <1>1, ImageOfOne DEF RestoreInvariant
<1>5. ASSUME ~ OldDisk(snapshot)'
      PROVE  (ContentWith(snapshot) \in {ContentWith(a) : a \in {opened} \cup Overwrites})'
  <2>1. PICK a \in {opened} \cup Overwrites : ContentWith(snapshot) = ContentWith(a)
    BY <1>1, <1>4, <1>5
  <2>2. ContentWith(snapshot)' = ContentWith(snapshot) /\ ContentWith(a)' = ContentWith(a)
    BY <1>1 DEF ContentWith
  <2>3. a \in {opened'} \cup Overwrites
    BY <1>1
  <2>4. QED
    BY <2>1, <2>2, <2>3
<1>6. QED
  BY <1>3, <1>5 DEF ImageIsOfOneArchive

\* A process killed, and one that does nothing.
LEMMA StillOne ==
  ASSUME SnapshotInvariant, ImageIsOfOneArchive, Kill \/ UNCHANGED vars
  PROVE  SnapshotInvariant' /\ ImageIsOfOneArchive'
<1>1. /\ UNCHANGED << reader, opened, snapshot, target, before, overwritten, archive >>
      /\ rpc' \in {rpc, "killed"}
  BY DEF Kill, Goes, vars, backupVars, restoreVars
<1>2. SnapshotInvariant'
  BY <1>1, SameCopy
<1>3. ImageIsOfOneArchive'
  BY <1>1 DEF ImageIsOfOneArchive, ContentWith
<1>4. QED
  BY <1>2, <1>3

\* An archive is written over once only: the frames copied so far are those of the first.
LEMMA OverwriteMixes ==
  ASSUME ArchivesAreWritten, SnapshotInvariant, ImageIsOfOneArchive, Overwrite
  PROVE  SnapshotInvariant' /\ ImageIsOfOneArchive'
<1>1. /\ rpc \in {"copy", "verify", "target", "write"} /\ ~ overwritten /\ overwritten' = TRUE
      /\ archive' \in Overwrites
      /\ UNCHANGED << rpc, reader, opened, snapshot, target, before >>
  BY DEF Overwrite
<1>2. IsWritten(archive')
  BY <1>1, OverwritesAreWritten
<1>3. opened # NoArchive => IsWritten(opened) /\ snapshot.header = opened.header
  BY DEF SnapshotInvariant
<1>4. rpc = "copy" => Mixed(archive)'
  <2> SUFFICES ASSUME rpc = "copy" PROVE Mixed(archive)'
    OBVIOUS
  <2>1. Mixed(opened)
    BY <1>1 DEF SnapshotInvariant
  <2>2. \A i \in DOMAIN snapshot.frames : FrameOf(opened, i)
    BY <2>1 DEF Mixed
  <2>3. QED
    BY <1>1, <2>2 DEF Mixed, FrameOf
<1>5. ASSUME rpc' \in {"verify", "target", "write"}, snapshot'.footer.magic
      PROVE  \E b \in {opened'} \cup Overwrites :
               /\ Mixed(b)' /\ snapshot'.footer = b.footer /\ snapshot'.trailer = b.trailer
               /\ Len(snapshot'.frames) = Len(b.frames) /\ Len(opened'.frames) = Len(b.frames)
  <2>1. rpc \in {"verify", "target", "write"} /\ snapshot.footer.magic
    BY <1>1, <1>5
  <2>2. PICK b \in {opened} \cup Overwrites :
          /\ Mixed(b) /\ snapshot.footer = b.footer /\ snapshot.trailer = b.trailer
          /\ Len(snapshot.frames) = Len(b.frames) /\ Len(opened.frames) = Len(b.frames)
    BY <2>1 DEF SnapshotInvariant
  <2>3. Mixed(b)'
    BY <1>1, <2>2 DEF Mixed, FrameOf
  <2>4. QED
    BY <1>1, <2>2, <2>3
<1>6. SnapshotInvariant'
  BY <1>1, <1>2, <1>3, <1>4, <1>5 DEF SnapshotInvariant
<1>7. ImageIsOfOneArchive'
  BY <1>1 DEF ImageIsOfOneArchive, ContentWith
<1>8. QED
  BY <1>6, <1>7

\* The inductive invariant of zupt_disk_restore behind the one archive: every frame of the
\* private copy is one of two archives that both are as this program writes them.
THEOREM SnapshotInvariance ==
  ArchivesAreWritten => (Spec => [](SnapshotInvariant /\ ImageIsOfOneArchive))
<1> SUFFICES ASSUME ArchivesAreWritten
             PROVE  Spec => [](SnapshotInvariant /\ ImageIsOfOneArchive)
  OBVIOUS
<1>1. Init => BackupInvariant /\ SnapshotInvariant /\ ImageIsOfOneArchive
  BY BackupBegins, SnapshotBegins
<1>2. RestoreInvariant /\ BackupInvariant /\ SnapshotInvariant /\ ImageIsOfOneArchive /\ [Next]_vars
      => BackupInvariant' /\ SnapshotInvariant' /\ ImageIsOfOneArchive'
  <2> SUFFICES ASSUME RestoreInvariant, BackupInvariant, SnapshotInvariant, ImageIsOfOneArchive,
                      [Next]_vars
               PROVE  BackupInvariant' /\ SnapshotInvariant' /\ ImageIsOfOneArchive'
    OBVIOUS
  <2>1. TypeOK
    BY DEF RestoreInvariant
  <2>2. CASE BackupNext /\ UNCHANGED restoreVars
    BY <2>1, <2>2, BackupHolds, BackupWrites
  <2>3. CASE RestoreNext
    <3>1. BackupInvariant'
      BY <2>1, <2>3, RestoreHolds
    <3>2. SnapshotInvariant' /\ ImageIsOfOneArchive'
      BY <2>3, OpeningCopies, CopyMixes, QuietSteps, WritesOfOne, StillOne, OverwriteMixes
         DEF RestoreNext
    <3>3. QED
      BY <3>1, <3>2
  <2>4. CASE UNCHANGED vars
    <3>1. BackupInvariant'
      BY <2>4 DEF vars, backupVars, readVars, BackupInvariant, TableInvariant
    <3>2. QED
      BY <2>4, <3>1, StillOne
  <2>5. QED
    BY <2>2, <2>3, <2>4 DEF Next
<1>3. QED
  BY <1>1, <1>2, DiskInvariance, PTL DEF Spec

\* What zupt_disk_restore writes is the image of one archive, the one it opened or the one
\* another process wrote over it while it was copied, never a mixture: the trailer binds
\* the header to the footer, the last frame is the index of one of the two, and a
\* copy with blocks of the other fails the test of the image's hash.  What lies at
\* the archive's place must be written as this program writes archives; an archive
\* of an earlier version has no hash of the image, and is left out.
THEOREM ImageOfOneArchive == ArchivesAreWritten => (Spec => []ImageIsOfOneArchive)
<1> SUFFICES ASSUME ArchivesAreWritten PROVE Spec => []ImageIsOfOneArchive
  OBVIOUS
<1>1. Spec => [](SnapshotInvariant /\ ImageIsOfOneArchive)
  BY SnapshotInvariance
<1>2. QED
  BY <1>1, PTL
-----------------------------------------------------------------------------
(* The frames of an archive, and what one damage leaves of a frame *)

\* A seal of any age leaves the kind and the size of a frame.
LEMMA SealKeeps ==
  ASSUME NEW f, IsFrameRecord(f), NEW key, NEW seq, NEW aad
  PROVE  LET g == Seal(f, key, seq, aad)
         IN IsFrameRecord(g) /\ g.type = f.type /\ g.size = f.size
<1> DEFINE marked == [f EXCEPT !.sealed = TRUE]
           seal == [key |-> key, seq |-> seq, preface |-> IF aad THEN Preface(marked) ELSE << >>]
           g == [marked EXCEPT !.pay.seal = seal]
<1>1. IsFrameRecord(Seal(f, key, seq, aad))
  BY SealType
<1>2. CASE key = NoKey
  <2>1. Seal(f, key, seq, aad) = f
    BY <1>2, Zenon DEF Seal
  <2>2. QED
    BY <1>1, <2>1
<1>3. CASE key # NoKey
  <2>1. Seal(f, key, seq, aad) = g
    BY <1>3, Zenon DEF Seal
  <2> HIDE DEF seal
  <2>2. \A v : [f EXCEPT !.sealed = v]
               = [intact |-> f.intact, type |-> f.type, codec |-> f.codec, sealed |-> v,
                  size |-> f.size, sum |-> f.sum, pay |-> f.pay]
    BY Marked DEF IsFrameRecord
  <2>3. marked = [intact |-> f.intact, type |-> f.type, codec |-> f.codec, sealed |-> TRUE,
                  size |-> f.size, sum |-> f.sum, pay |-> f.pay]
    BY <2>2, Zenon
  <2> HIDE DEF marked
  <2>4. g.type = f.type /\ g.size = f.size
    BY <2>3
  <2> HIDE DEF g
  <2>5. QED
    BY <1>1, <2>1, <2>4
<1>4. QED
  BY <1>2, <1>3

\* The same as a fact of the two frames.
KeepsKind(g, f) == IsFrameRecord(g) /\ g.type = f.type /\ g.size = f.size

LEMMA SealKeepsKind ==
  ASSUME NEW f, IsFrameRecord(f), NEW key, NEW seq, NEW aad
  PROVE  KeepsKind(Seal(f, key, seq, aad), f)
BY SealKeeps DEF KeepsKind

\* A frame of the body of an archive: of a kind that is not the index, and not empty.
IsBodyFrame(f, types) == IsFrameRecord(f) /\ f.type \in types /\ f.size \in Nat \ {0}

LEMMA DataFrameKind ==
  ASSUME NEW piece, IsSequence(piece.data), Len(piece.data) # 0, NEW how
  PROVE  IsBodyFrame(DataFrame(piece, how), {"DATA"})
<1> DEFINE codec == IF OnDisk(how) /\ IsZeroBlock(piece.data) THEN "STORE" ELSE how.codec
           f == Frame("DATA", codec, piece.data)
<1>1. IsFrameRecord(f)
  BY FrameType
<1>2. f.type = "DATA" /\ f.size = Len(piece.data)
  BY FrameFields
<1>3. DataFrame(piece, how) = Seal(f, KeyFor(how), piece.seq, ~ Old(how))
  BY DEF DataFrame
<1> HIDE DEF f
<1>4. QED
  BY <1>1, <1>2, <1>3, SealKeeps DEF IsBodyFrame, IsSequence

LEMMA RefFrameKind ==
  ASSUME NEW piece, IsSequence(piece.data), Len(piece.data) # 0, NEW offset, NEW goal, NEW how
  PROVE  IsBodyFrame(RefFrame(piece, offset, goal, how), {"DEDUP_REF"})
<1> DEFINE authenticated == Encrypts(how) /\ ~ Old(how)
           payload == IF authenticated THEN << offset, goal.seq >> ELSE << offset >>
           frame == Frame("DEDUP_REF", "STORE", piece.data)
           plain == [frame EXCEPT !.codec = "STORE"]
           pay == [codec |-> "STORE", seal |-> NoSeal, data |-> payload]
           bare == [plain EXCEPT !.pay = pay]
<1>1. IsFrameRecord(frame)
  BY FrameType
<1>2. frame.type = "DEDUP_REF" /\ frame.size = Len(piece.data)
  BY FrameFields
<1>3. IsSequence(payload)
  BY DEF IsSequence
<1>4. RefFrame(piece, offset, goal, how)
      = Seal(bare, IF authenticated THEN KeyFor(how) ELSE NoKey, piece.seq, TRUE)
  <2>1. [frame EXCEPT !.codec = "STORE", !.pay = pay] = bare
    OBVIOUS
  <2>2. QED
    BY <2>1, Zenon DEF RefFrame
<1> HIDE DEF frame, payload
<1>5. plain = [intact |-> frame.intact, type |-> frame.type, codec |-> "STORE",
                sealed |-> frame.sealed, size |-> frame.size, sum |-> frame.sum,
                pay |-> frame.pay]
  BY <1>1 DEF IsFrameRecord
<1> HIDE DEF plain
<1>6. bare = [intact |-> frame.intact, type |-> frame.type, codec |-> "STORE",
              sealed |-> frame.sealed, size |-> frame.size, sum |-> frame.sum,
              pay |-> [codec |-> "STORE", data |-> payload, seal |-> NoSeal]]
  BY <1>5
<1> HIDE DEF bare
<1>7. IsFrameRecord(bare)
  BY <1>1, <1>3, <1>6 DEF IsFrameRecord, IsFrame
<1>8. bare.type = "DEDUP_REF" /\ bare.size = Len(piece.data)
  BY <1>2, <1>6
<1> DEFINE key == IF authenticated THEN KeyFor(how) ELSE NoKey
           g == Seal(bare, key, piece.seq, TRUE)
<1>9. IsFrameRecord(g) /\ g.type = bare.type /\ g.size = bare.size
  <2> HIDE DEF key
  <2>1. KeepsKind(g, bare)
    BY <1>7, SealKeepsKind, Zenon
  <2>2. QED
    BY <2>1, Zenon DEF KeepsKind
<1>10. RefFrame(piece, offset, goal, how) = g
  BY <1>4
<1> HIDE DEF g
<1>11. g.type \in {"DEDUP_REF"} /\ g.size \in Nat \ {0}
  BY <1>8, <1>9 DEF IsSequence
<1>12. QED
  BY <1>9, <1>10, <1>11 DEF IsBodyFrame

\* What a sealed frame of some data holds, whatever its kind.
Holds(g, type, data, key) ==
  /\ IsFrameRecord(g) /\ g.type = type
  /\ g.size = Len(data) /\ g.sum = data /\ g.pay.data = data
  /\ key # NoKey => g.pay.seal.key = key

LEMMA FrameHolds ==
  ASSUME NEW type, NEW codec, NEW data, IsSequence(data), NEW key, NEW seq
  PROVE  Holds(Seal(Frame(type, codec, data), key, seq, TRUE), type, data, key)
<1> DEFINE f == Frame(type, codec, data)
           g == Sealed(f, key, seq)
<1>1. IsFrameRecord(f)
  BY FrameType
<1>2. f.type = type /\ f.size = Len(data) /\ f.sum = data /\ f.pay.data = data
  BY FrameFields
<1> HIDE DEF f
<1>3. KeepsWhat(g, f, key, seq) /\ IsFrameRecord(g)
  BY <1>1, SealFields, SealType DEF Sealed
<1>4. g = Seal(f, key, seq, TRUE)
  BY DEF Sealed
<1> HIDE DEF g
<1>5. key # NoKey => g.pay.seal.key = key
  BY <1>3 DEF KeepsWhat
<1>6. QED
  BY <1>2, <1>3, <1>4, <1>5 DEF Holds, KeepsWhat, f

\* A damaged frame still has the data and the size, or the checksum, and if it has a
\* seal, then its own.
LEMMA HarmedFrame ==
  ASSUME NEW a, NEW f, IsFrameRecord(f), f.size \in Nat \ {0}, NEW g \in FrameDamages(a, f)
  PROVE  /\ IsFrame(g)
         /\ (g.pay.data = f.pay.data /\ g.size = f.size) \/ g.sum = f.sum
         /\ g.pay.seal \in {f.pay.seal, NoSeal}
<1>1. IsSequence(f.pay.data) /\ f.size \in Nat
  BY DEF IsFrameRecord, IsFrame
<1>2. CASE g \in PayloadDamages(a, f)
  <2>1. CASE \E offset \in 0 .. EndOfFile(a) : g = [f EXCEPT !.pay.data = << offset >>]
    <3>1. PICK offset : g = [f EXCEPT !.pay.data = << offset >>]
      BY <2>1
    <3>2. IsSequence(<< offset >>)
      BY DEF IsSequence
    <3>3. g.pay.data = << offset >> /\ g.size = f.size /\ g.sum = f.sum /\ g.pay.seal = f.pay.seal
      BY <3>1 DEF IsFrameRecord
    <3>4. QED
      BY <1>1, <3>2, <3>3 DEF IsFrame
  <2>2. CASE g = [f EXCEPT !.pay.data = Garbled(f.pay.data), !.pay.seal = NoSeal]
    <3> DEFINE d == Garbled(f.pay.data)
    <3>1. IsSequence(d)
      BY <1>1 DEF Garbled, IsSequence
    <3> HIDE DEF d
    <3>2. g = [f EXCEPT !.pay.data = d, !.pay.seal = NoSeal]
      BY <2>2 DEF d
    <3>3. g.pay.data = d /\ g.size = f.size /\ g.sum = f.sum /\ g.pay.seal = NoSeal
      BY <3>2 DEF IsFrameRecord
    <3>4. QED
      BY <1>1, <3>1, <3>3 DEF IsFrame
  <2>3. QED
    BY <1>2, <2>1, <2>2 DEF PayloadDamages
<1>3. CASE \/ \E v : g = [f EXCEPT !.intact = v] \/ g = [f EXCEPT !.sealed = v]
           \/ \E v : g = [f EXCEPT !.type = v] \/ g = [f EXCEPT !.codec = v]
           \/ \E v : g = [f EXCEPT !.sum = v]
  <2>1. g.pay = f.pay /\ g.size = f.size
    BY <1>3 DEF IsFrameRecord
  <2>2. QED
    BY <1>1, <2>1 DEF IsFrame
<1>4. CASE \E z \in {0, f.size - 1, f.size + 1} : g = [f EXCEPT !.size = z]
  <2>1. PICK z \in {0, f.size - 1, f.size + 1} : g = [f EXCEPT !.size = z]
    BY <1>4
  <2>2. z \in Nat
    BY <1>1
  <2>3. g.pay = f.pay /\ g.size = z /\ g.sum = f.sum
    BY <2>1 DEF IsFrameRecord
  <2>4. QED
    BY <1>1, <2>2, <2>3 DEF IsFrame
<1>5. QED
  BY <1>2, <1>3, <1>4 DEF FrameDamages
-----------------------------------------------------------------------------
(* What the writers write, in every layout *)

\* Sequences have their members in common.
MembersOf(s) == UNION {Range(s[i]) : i \in DOMAIN s}

LEMMA Members ==
  ASSUME NEW s, IsSequence(s), \A i \in DOMAIN s : IsSequence(s[i])
  PROVE  s \in Seq(Seq(MembersOf(s)))
<1> DEFINE U == MembersOf(s)
<1>1. DOMAIN s = 1 .. Len(s) /\ Len(s) \in Nat
  BY IsSequenceInSeq DEF IsSequence
<1>2. \A i \in 1 .. Len(s) : s[i] \in Seq(U)
  <2> TAKE i \in 1 .. Len(s)
  <2>1. s[i] \in Seq(Range(s[i]))
    BY <1>1, IsSequenceInSeq
  <2>2. Range(s[i]) \subseteq U
    BY <1>1 DEF MembersOf
  <2>3. \A S, T : S \subseteq T => Seq(S) \subseteq Seq(T)
    OBVIOUS
  <2>4. QED
    BY <2>1, <2>2, <2>3
<1> HIDE DEF U
<1>3. s = [i \in 1 .. Len(s) |-> s[i]]
  BY DEF IsSequence
<1>4. s \in [1 .. Len(s) -> Seq(U)]
  BY <1>2, <1>3
<1>5. QED
  BY <1>1, <1>4 DEF U

\* A sequence of files, and what is written of each.
LEMMA FilesAreSequences ==
  ASSUME NEW list \in FileLists
  PROVE  /\ IsSequence(list) /\ Len(list) \in Nat /\ DOMAIN list = 1 .. Len(list)
         /\ \A i \in 1 .. Len(list) :
              /\ list[i] = [path |-> list[i].path, content |-> list[i].content]
              /\ IsSequence(list[i].content)
<1>1. IsSequence(list)
  BY CallsAssumption
<1>2. Len(list) \in Nat /\ DOMAIN list = 1 .. Len(list)
  BY <1>1, IsSequenceInSeq DEF IsSequence
<1>3. QED
  BY <1>1, <1>2, CallsAssumption

ContentsIn(list) == [i \in DOMAIN list |-> list[i].content]

LEMMA ContentsAreSequences ==
  ASSUME NEW list \in FileLists
  PROVE  LET U == MembersOf(ContentsIn(list))
         IN ContentsIn(list) \in Seq(Seq(U)) /\ Len(ContentsIn(list)) = Len(list)
<1> DEFINE s == ContentsIn(list)
<1>1. DOMAIN list = 1 .. Len(list) /\ Len(list) \in Nat
  BY FilesAreSequences
<1>2. s = [i \in 1 .. Len(list) |-> list[i].content]
  BY <1>1 DEF ContentsIn
<1>3. \A i \in 1 .. Len(list) : IsSequence(list[i].content)
  BY FilesAreSequences
<1> HIDE DEF s
<1>4. IsSequence(s) /\ DOMAIN s = 1 .. Len(list) /\ Len(s) = Len(list)
  BY <1>1, <1>2 DEF IsSequence
<1>5. s \in Seq(Seq(MembersOf(s)))
  BY <1>2, <1>3, <1>4, Members
<1>6. QED
  BY <1>4, <1>5 DEF s

\* The blocks of one file, numbered.
NumberedBlocks(entry, content, how) ==
  [b \in 1 .. Len(BlocksOf(content)) |->
     [data |-> BlocksOf(content)[b],
      seq |-> IF OnDisk(how) THEN b - 1 ELSE DataSeq(entry, b - 1)]]
IsPiece(p) == IsSequence(p.data) /\ Len(p.data) # 0
ArePieces(s) == IsSequence(s) /\ \A k \in DOMAIN s : IsPiece(s[k])

LEMMA PartHasPieces ==
  ASSUME NEW content, IsSequence(content), NEW entry, NEW how
  PROVE  ArePieces(NumberedBlocks(entry, content, how))
<1> DEFINE blocks == BlocksOf(content)
           n == Len(blocks)
           seq(b) == IF OnDisk(how) THEN b - 1 ELSE DataSeq(entry, b - 1)
           s == NumberedBlocks(entry, content, how)
<1>1. n \in Nat /\ \A b \in 1 .. n : IsSequence(blocks[b]) /\ Len(blocks[b]) # 0
  <2>1. n \in Nat /\ \A b \in 1 .. n : IsSequence(blocks[b]) /\ Len(blocks[b]) \in 1 .. BlockSize
    BY Blocks
  <2>2. BlockSize \in Nat
    BY FormatAssumption
  <2> HIDE DEF blocks, n
  <2>3. QED
    BY <2>1, <2>2
<1>2. s = [b \in 1 .. n |-> [data |-> blocks[b], seq |-> seq(b)]]
  BY DEF NumberedBlocks
<1> HIDE DEF blocks, n, seq, s
<1>3. IsSequence(s) /\ DOMAIN s = 1 .. n
  BY <1>1, <1>2 DEF IsSequence
<1>4. \A b \in 1 .. n : s[b].data = blocks[b]
  BY <1>2
<1>5. ArePieces(s)
  BY <1>1, <1>3, <1>4 DEF ArePieces, IsPiece
<1>6. QED
  BY <1>5 DEF s

LEMMA PiecesAreBlocks ==
  ASSUME NEW list \in FileLists, NEW how
  PROVE  ArePieces(Pieces(list, how))
<1>1. DOMAIN list = 1 .. Len(list) /\ Len(list) \in Nat
  BY FilesAreSequences
<1>2. CASE how.layout = "solid"
  <2> DEFINE all == FlattenSeq(ContentsIn(list))
  <2>1. Pieces(list, how) = NumberedBlocks(1, all, how)
    BY <1>2, Zenon DEF Pieces, NumberedBlocks, ContentsIn
  <2>2. IsSequence(all)
    BY ContentsAreSequences, FlattenType, SeqIsSequence
  <2> HIDE DEF all
  <2>3. QED
    BY <2>1, <2>2, PartHasPieces
<1>3. CASE how.layout # "solid"
  <2> DEFINE parts == [i \in DOMAIN list |-> NumberedBlocks(i, list[i].content, how)]
             P == MembersOf(parts)
  <2>1. Pieces(list, how) = FlattenSeq(parts)
    BY <1>3, Zenon DEF Pieces, NumberedBlocks
  <2>2. \A i \in DOMAIN list : ArePieces(NumberedBlocks(i, list[i].content, how))
    BY <1>1, FilesAreSequences, PartHasPieces
  <2>3. IsSequence(parts) /\ DOMAIN parts = DOMAIN list
    BY <1>1 DEF IsSequence
  <2>4. \A i \in DOMAIN parts : ArePieces(parts[i])
    BY <2>2
  <2> HIDE DEF parts
  <2>5. parts \in Seq(Seq(P))
    BY <2>3, <2>4, Members DEF ArePieces
  <2>6. \A p \in P : IsPiece(p)
    BY <2>4 DEF MembersOf, ArePieces, Range
  <2> HIDE DEF P
  <2>7. FlattenSeq(parts) \in Seq(P)
    BY <2>5, FlattenType
  <2>8. IsSequence(FlattenSeq(parts)) /\ \A k \in DOMAIN FlattenSeq(parts) : FlattenSeq(parts)[k] \in P
    BY <2>7, SeqIsSequence
  <2>9. QED
    BY <2>1, <2>6, <2>8 DEF ArePieces
<1>4. QED
  BY <1>2, <1>3

\* The frames of the blocks.
LEMMA BlocksHaveFrames ==
  ASSUME NEW list \in FileLists, NEW how, NEW base
  PROVE  LET frames == DataFrames(Pieces(list, how), base, how)
         IN IsSequence(frames) /\ \A k \in DOMAIN frames :
              IsBodyFrame(frames[k], {"DATA", "DEDUP_REF"})
<1> DEFINE pieces == Pieces(list, how)
           frames == DataFrames(pieces, base, how)
           frame(k) == IF References(how) /\ FirstEqual(pieces, k) < k
                       THEN RefFrame(pieces[k], base + FirstEqual(pieces, k),
                                     pieces[FirstEqual(pieces, k)], how)
                       ELSE DataFrame(pieces[k], how)
<1>1. ArePieces(pieces)
  BY PiecesAreBlocks
<1>2. frames = [k \in DOMAIN pieces |-> frame(k)]
  BY DEF DataFrames
<1> HIDE DEF pieces, frames
<1>3. DOMAIN pieces = 1 .. Len(pieces) /\ Len(pieces) \in Nat
  BY <1>1, IsSequenceInSeq DEF ArePieces, IsSequence
<1>4. \A k \in DOMAIN pieces : IsBodyFrame(frame(k), {"DATA", "DEDUP_REF"})
  <2> TAKE k \in DOMAIN pieces
  <2>1. IsSequence(pieces[k].data) /\ Len(pieces[k].data) # 0
    BY <1>1 DEF ArePieces, IsPiece
  <2>2. IsBodyFrame(DataFrame(pieces[k], how), {"DATA"})
    BY <2>1, DataFrameKind
  <2>3. \A offset, goal : IsBodyFrame(RefFrame(pieces[k], offset, goal, how), {"DEDUP_REF"})
    BY <2>1, RefFrameKind
  <2>4. QED
    BY <2>2, <2>3 DEF IsBodyFrame
<1> HIDE DEF frame
<1>5. IsSequence(frames) /\ \A k \in DOMAIN frames : frames[k] = frame(k) /\ k \in DOMAIN pieces
  BY <1>2, <1>3 DEF IsSequence
<1>6. QED
  BY <1>4, <1>5 DEF frames, pieces
LEMMA OneMore ==
  ASSUME NEW s, IsSequence(s), NEW x
  PROVE  /\ IsSequence(Append(s, x)) /\ Len(Append(s, x)) = Len(s) + 1
         /\ Append(s, x)[Len(s) + 1] = x
         /\ \A i \in 1 .. Len(s) : Append(s, x)[i] = s[i]
<1> DEFINE S == Range(s) \cup {x}
<1>1. s \in Seq(Range(s))
  BY IsSequenceInSeq
<1>2. \A P, Q : P \subseteq Q => Seq(P) \subseteq Seq(Q)
  OBVIOUS
<1>3. s \in Seq(S) /\ x \in S
  BY <1>1, <1>2
<1> HIDE DEF S
<1>4. Append(s, x) \in Seq(S) /\ Len(Append(s, x)) = Len(s) + 1 /\ Append(s, x)[Len(s) + 1] = x
  BY <1>3, Appended
<1>5. \A i \in 1 .. Len(s) : Append(s, x)[i] = s[i]
  BY <1>3
<1>6. QED
  BY <1>4, <1>5, SeqIsSequence

\* The opening and the blocks.
BodyOf(list, how) == Opening(how) \o DataFrames(Pieces(list, how), Base(how), how)

LEMMA BodyFrames ==
  ASSUME NEW list \in FileLists, NEW how
  PROVE  LET inner == BodyOf(list, how)
         IN /\ IsSequence(inner) /\ Len(inner) \in Nat /\ Len(inner) >= Base(how)
            /\ \A i \in 1 .. Len(inner) : IsBodyFrame(inner[i], {"ENC_HEADER", "DATA", "DEDUP_REF"})
<1> DEFINE frames == DataFrames(Pieces(list, how), Base(how), how)
           inner == BodyOf(list, how)
           first == Opening(how)
           kinds == {"ENC_HEADER", "DATA", "DEDUP_REF"}
<1>1. IsSequence(frames) /\ \A k \in DOMAIN frames : IsBodyFrame(frames[k], kinds)
  BY BlocksHaveFrames DEF IsBodyFrame
<1>2. inner = first \o frames
  BY DEF BodyOf
<1>3. IsBodyFrame(EncFrame(how), kinds)
  <2> DEFINE data == << Key(how.kind, how.value) >>
  <2>1. IsSequence(data) /\ Len(data) = 1
    BY DEF IsSequence
  <2>2. EncFrame(how) = Frame("ENC_HEADER", "STORE", data)
    BY DEF EncFrame
  <2> HIDE DEF data
  <2> DEFINE f == Frame("ENC_HEADER", "STORE", data)
  <2>3. IsFrameRecord(f)
    BY <2>1, FrameType
  <2>4. f.type = "ENC_HEADER" /\ f.size = Len(data)
    BY FrameFields
  <2> HIDE DEF f
  <2>5. QED
    BY <2>1, <2>2, <2>3, <2>4 DEF IsBodyFrame, f
<1>4. /\ IsSequence(first) /\ Len(first) = Base(how) /\ Base(how) \in Nat
      /\ \A i \in 1 .. Len(first) : first[i] = EncFrame(how)
  BY DEF Opening, Base, IsSequence
<1> HIDE DEF frames, inner, first
<1>5. IsSequence(inner)
  BY <1>1, <1>2, <1>4, SequenceAppends
<1>6. Len(inner) = Len(first) + Len(frames) /\ Len(frames) \in Nat
  BY <1>1, <1>2, <1>4, JoinedLength DEF IsSequence
<1>7. DOMAIN frames = 1 .. Len(frames)
  BY <1>1, IsSequenceInSeq
<1>8. \A i \in 1 .. Len(inner) : inner[i] = IF i <= Len(first) THEN first[i] ELSE frames[i - Len(first)]
  <2> DEFINE S == Range(first) \cup Range(frames)
  <2>1. first \in Seq(Range(first)) /\ frames \in Seq(Range(frames))
    BY <1>1, <1>4, IsSequenceInSeq
  <2>2. \A P, Q : P \subseteq Q => Seq(P) \subseteq Seq(Q)
    OBVIOUS
  <2>3. first \in Seq(S) /\ frames \in Seq(S)
    BY <2>1, <2>2
  <2> HIDE DEF S
  <2>4. QED
    BY <1>2, <2>3
<1>9. \A i \in 1 .. Len(inner) : IsBodyFrame(inner[i], kinds)
  <2> TAKE i \in 1 .. Len(inner)
  <2>1. CASE i <= Len(first)
    BY <1>3, <1>4, <1>8, <2>1
  <2>2. CASE ~ i <= Len(first)
    <3>1. i - Len(first) \in 1 .. Len(frames)
      BY <1>4, <1>6, <2>2
    <3>2. QED
      BY <1>1, <1>7, <1>8, <2>2, <3>1
  <2>3. QED
    BY <2>1, <2>2
<1>10. QED
  BY <1>4, <1>5, <1>6, <1>9 DEF inner

\* What the writers make of some files.
IsFileOf(w, list, how) ==
  /\ w = [header |-> w.header, frames |-> w.frames, footer |-> w.footer, trailer |-> w.trailer]
  /\ w.header = [magic |-> TRUE, version |-> TRUE, flags |-> Flags(how), encOffset |-> Base(how),
                 commentOffset |-> IF HasComment(how) THEN Len(w.frames) - 1 ELSE 0]
  /\ w.footer = [magic |-> TRUE, version |-> TRUE, index |-> Len(w.frames),
                 total |-> w.footer.total]
  /\ w.footer.total \in Nat
  /\ w.trailer = TrailerOf(w.header, w.footer, KeyFor(how))
  /\ IsSequence(w.frames) /\ Len(w.frames) \in Nat \ {0}
  /\ w.frames[Len(w.frames)] = IndexFrame(list, Base(how), how)
  /\ HasComment(how) =>
       Len(w.frames) > 1 /\ w.frames[Len(w.frames) - 1] = CommentFrame(how)
  /\ \A i \in 1 .. Len(w.frames) - 1 :
       \/ IsBodyFrame(w.frames[i], {"ENC_HEADER", "DATA", "DEDUP_REF"})
       \/ HasComment(how) /\ i = Len(w.frames) - 1

LEMMA FileIsWritten ==
  ASSUME NEW list \in FileLists, NEW how
  PROVE  IsFileOf(Written(list, how), list, how)
<1> DEFINE inner == BodyOf(list, how)
           kinds == {"ENC_HEADER", "DATA", "DEDUP_REF"}
           annotated == IF HasComment(how) THEN Append(inner, CommentFrame(how)) ELSE inner
           header == [magic |-> TRUE, version |-> TRUE, flags |-> Flags(how),
                      encOffset |-> Base(how),
                      commentOffset |-> IF HasComment(how) THEN Len(annotated) ELSE 0]
           footer == [magic |-> TRUE, version |-> TRUE, index |-> Len(annotated) + 1,
                      total |-> Len(annotated) - Base(how)
                                + (IF how.layout = "solid" THEN 1 ELSE 0)]
           frames == Append(annotated, IndexFrame(list, Base(how), how))
           w == Written(list, how)
<1>1. w = [header |-> header, frames |-> frames, footer |-> footer,
           trailer |-> TrailerOf(header, footer, KeyFor(how))]
  BY Zenon DEF Written, Closed, BodyOf
<1>2. /\ IsSequence(inner) /\ Len(inner) \in Nat /\ Len(inner) >= Base(how)
      /\ \A i \in 1 .. Len(inner) : IsBodyFrame(inner[i], kinds)
  BY BodyFrames
<1>3. Base(how) \in Nat
  BY DEF Base
<1> HIDE DEF inner
<1>4. /\ IsSequence(annotated) /\ Len(annotated) \in Nat /\ Len(annotated) >= Base(how)
      /\ HasComment(how) => Len(annotated) > 0 /\ annotated[Len(annotated)] = CommentFrame(how)
      /\ \A i \in 1 .. Len(annotated) :
           IsBodyFrame(annotated[i], kinds) \/ (HasComment(how) /\ i = Len(annotated))
  <2>1. CASE HasComment(how)
    <3> DEFINE longer == Append(inner, CommentFrame(how))
    <3>1. annotated = longer
      BY <2>1
    <3>2. /\ IsSequence(longer) /\ Len(longer) = Len(inner) + 1
          /\ longer[Len(inner) + 1] = CommentFrame(how)
          /\ \A i \in 1 .. Len(inner) : longer[i] = inner[i]
      BY <1>2, OneMore
    <3> HIDE DEF longer, annotated
    <3>3. \A i \in 1 .. Len(longer) : IsBodyFrame(longer[i], kinds) \/ i = Len(longer)
      BY <1>2, <3>2
    <3>4. QED
      BY <1>2, <1>3, <2>1, <3>1, <3>2, <3>3
  <2>2. CASE ~ HasComment(how)
    BY <1>2, <2>2
  <2>3. QED
    BY <2>1, <2>2
<1> HIDE DEF annotated
<1>5. /\ IsSequence(frames) /\ Len(frames) = Len(annotated) + 1
      /\ frames[Len(frames)] = IndexFrame(list, Base(how), how)
      /\ \A i \in 1 .. Len(annotated) : frames[i] = annotated[i]
  BY <1>4, OneMore
<1> HIDE DEF frames
<1>6. footer.total \in Nat
  BY <1>3, <1>4
<1>7. header.commentOffset = IF HasComment(how) THEN Len(frames) - 1 ELSE 0
  BY <1>4, <1>5
<1> DEFINE trailer == TrailerOf(header, footer, KeyFor(how))
<1>8. w.header = header /\ w.frames = frames /\ w.footer = footer /\ w.trailer = trailer
  BY <1>1
<1>9. w = [header |-> w.header, frames |-> w.frames, footer |-> w.footer, trailer |-> w.trailer]
  BY <1>1, <1>8
<1>10. w.header = [magic |-> TRUE, version |-> TRUE, flags |-> Flags(how), encOffset |-> Base(how),
                   commentOffset |-> IF HasComment(how) THEN Len(w.frames) - 1 ELSE 0]
  BY <1>7, <1>8
<1>11. w.footer = [magic |-> TRUE, version |-> TRUE, index |-> Len(w.frames),
                   total |-> w.footer.total]
  <2>1. footer = [magic |-> TRUE, version |-> TRUE, index |-> Len(frames), total |-> footer.total]
    BY <1>5
  <2> HIDE DEF w, footer
  <2>2. QED
    BY <1>8, <2>1
<1>12. w.trailer = TrailerOf(w.header, w.footer, KeyFor(how)) /\ w.footer.total \in Nat
  BY <1>6, <1>8
<1> HIDE DEF w, header, footer, trailer
<1>13. /\ IsSequence(w.frames) /\ Len(w.frames) \in Nat \ {0}
       /\ w.frames[Len(w.frames)] = IndexFrame(list, Base(how), how)
       /\ HasComment(how) =>
            Len(w.frames) > 1 /\ w.frames[Len(w.frames) - 1] = CommentFrame(how)
       /\ \A i \in 1 .. Len(w.frames) - 1 :
            \/ IsBodyFrame(w.frames[i], kinds)
            \/ HasComment(how) /\ i = Len(w.frames) - 1
  BY <1>4, <1>5, <1>8
<1>14. QED
  BY <1>9, <1>10, <1>11, <1>12, <1>13 DEF IsFileOf, w
-----------------------------------------------------------------------------
(* What one damage leaves of an archive, and what an opening says about it *)

\* Each frame is one of the written ones, or that of its place damaged.
FromFrames(a, w) ==
  /\ IsSequence(a.frames) /\ Len(a.frames) = Len(w.frames)
  /\ \A i \in 1 .. Len(w.frames) :
       \/ \E j \in 1 .. Len(w.frames) : a.frames[i] = w.frames[j]
       \/ a.frames[i] \in FrameDamages(w, w.frames[i])

IsHeaderRecord(h) ==
  h = [magic |-> h.magic, version |-> h.version, flags |-> h.flags,
       encOffset |-> h.encOffset, commentOffset |-> h.commentOffset]
IsFooterRecord(f) ==
  /\ f = [magic |-> f.magic, version |-> f.version, index |-> f.index, total |-> f.total]
  /\ f.magic \in BOOLEAN /\ f.version \in BOOLEAN

\* Header and footer are the written ones, or the trailer is, or there is no footer.
IsAfterDamage(a, w) ==
  /\ a = [header |-> a.header, frames |-> a.frames, footer |-> a.footer, trailer |-> a.trailer]
  /\ FromFrames(a, w)
  /\ \/ a.header = w.header /\ a.footer = w.footer
     \/ a.trailer = w.trailer /\ a.footer = w.footer /\ IsHeaderRecord(a.header)
     \/ a.trailer = w.trailer /\ a.header = w.header /\ IsFooterRecord(a.footer)
     \/ ~ a.footer.magic

LEMMA SameFrames ==
  ASSUME NEW w, IsSequence(w.frames), NEW a, a.frames = w.frames
  PROVE  FromFrames(a, w)
  BY DEF FromFrames

LEMMA HeaderKeepsItsShape ==
  ASSUME NEW w, NEW h \in HeaderDamages(w), IsHeaderRecord(w.header)
  PROVE  IsHeaderRecord(h)
<1>1. \/ \E v : h = [w.header EXCEPT !.magic = v] \/ h = [w.header EXCEPT !.version = v]
      \/ \E v : h = [w.header EXCEPT !.encOffset = v] \/ h = [w.header EXCEPT !.commentOffset = v]
      \/ \E v : h = [w.header EXCEPT !.flags = v]
  BY DEF HeaderDamages
<1> DEFINE g == w.header
<1>2. g = [magic |-> g.magic, version |-> g.version, flags |-> g.flags,
           encOffset |-> g.encOffset, commentOffset |-> g.commentOffset]
  BY DEF IsHeaderRecord
<1> HIDE DEF g
<1>3. \/ \E v : h = [g EXCEPT !.magic = v] \/ h = [g EXCEPT !.version = v]
      \/ \E v : h = [g EXCEPT !.encOffset = v] \/ h = [g EXCEPT !.commentOffset = v]
      \/ \E v : h = [g EXCEPT !.flags = v]
  BY <1>1 DEF g
<1>4. QED
  BY <1>2, <1>3 DEF IsHeaderRecord

LEMMA FooterKeepsItsShape ==
  ASSUME NEW w, NEW f \in FooterDamages(w), IsFooterRecord(w.footer)
  PROVE  IsFooterRecord(f)
<1>1. \/ \E v \in BOOLEAN : f = [w.footer EXCEPT !.magic = v] \/ f = [w.footer EXCEPT !.version = v]
      \/ \E v : f = [w.footer EXCEPT !.total = v] \/ f = [w.footer EXCEPT !.index = v]
  BY DEF FooterDamages
<1> DEFINE g == w.footer
<1>2. /\ g = [magic |-> g.magic, version |-> g.version, index |-> g.index, total |-> g.total]
      /\ g.magic \in BOOLEAN /\ g.version \in BOOLEAN
  BY DEF IsFooterRecord
<1> HIDE DEF g
<1>3. \/ \E v \in BOOLEAN : f = [g EXCEPT !.magic = v] \/ f = [g EXCEPT !.version = v]
      \/ \E v : f = [g EXCEPT !.total = v] \/ f = [g EXCEPT !.index = v]
  BY <1>1 DEF g
<1>4. QED
  BY <1>2, <1>3 DEF IsFooterRecord

\* Other frames in the same archive.
LEMMA ReframedFile ==
  ASSUME NEW w,
         w = [header |-> w.header, frames |-> w.frames, footer |-> w.footer, trailer |-> w.trailer],
         NEW frames, FromFrames([frames |-> frames], w)
  PROVE  IsAfterDamage([w EXCEPT !.frames = frames], w)
<1> DEFINE a == [w EXCEPT !.frames = frames]
<1>1. a = [header |-> w.header, frames |-> frames, footer |-> w.footer, trailer |-> w.trailer]
  OBVIOUS
<1> HIDE DEF a
<1>2. a.header = w.header /\ a.frames = frames /\ a.footer = w.footer /\ a.trailer = w.trailer
  BY <1>1
<1>3. FromFrames(a, w)
  BY <1>2 DEF FromFrames
<1>4. a = [header |-> a.header, frames |-> a.frames, footer |-> a.footer, trailer |-> a.trailer]
  BY <1>1, <1>2
<1>5. QED
  BY <1>2, <1>3, <1>4 DEF IsAfterDamage, a

LEMMA FramesAfterDamage ==
  ASSUME NEW w, IsSequence(w.frames), NEW frames,
         \/ \E i \in DOMAIN w.frames : \E g \in FrameDamages(w, w.frames[i]) :
              frames = [w.frames EXCEPT ![i] = g]
         \/ \E i, j \in DOMAIN w.frames :
              \/ frames = [w.frames EXCEPT ![i] = w.frames[j], ![j] = w.frames[i]]
              \/ frames = [w.frames EXCEPT ![i] = w.frames[j]]
  PROVE  FromFrames([frames |-> frames], w)
<1> DEFINE f == w.frames
           n == Len(w.frames)
<1>1. n \in Nat /\ f = [i \in 1 .. n |-> f[i]] /\ DOMAIN f = 1 .. n
  BY IsSequenceInSeq DEF IsSequence
<1>2. /\ DOMAIN frames = 1 .. n /\ frames = [i \in 1 .. n |-> frames[i]]
      /\ \A i \in 1 .. n : (\E j \in 1 .. n : frames[i] = f[j]) \/ frames[i] \in FrameDamages(w, f[i])
  <2>1. CASE \E i \in 1 .. n : \E g \in FrameDamages(w, f[i]) : frames = [f EXCEPT ![i] = g]
    <3>0. PICK i \in 1 .. n : \E g \in FrameDamages(w, f[i]) : frames = [f EXCEPT ![i] = g]
      BY <2>1
    <3>1. PICK g \in FrameDamages(w, f[i]) : frames = [f EXCEPT ![i] = g]
      BY <3>0
    <3> HIDE DEF f, n
    <3>2. DOMAIN frames = 1 .. n /\ frames[i] = g /\ \A k \in (1 .. n) \ {i} : frames[k] = f[k]
      BY <1>1, <3>1
    <3>3. frames = [k \in 1 .. n |-> frames[k]]
      BY <1>1, <3>1
    <3>4. QED
      BY <3>2, <3>3
  <2>2. CASE \E i, j \in 1 .. n : frames = [f EXCEPT ![i] = f[j], ![j] = f[i]]
    <3> HIDE DEF f, n
    <3>1. PICK i \in 1 .. n, j \in 1 .. n : frames = [f EXCEPT ![i] = f[j], ![j] = f[i]]
      BY <2>2
    <3>2. QED
      BY <1>1, <3>1
  <2>3. CASE \E i, j \in 1 .. n : frames = [f EXCEPT ![i] = f[j]]
    <3> HIDE DEF f, n
    <3>1. PICK i \in 1 .. n, j \in 1 .. n : frames = [f EXCEPT ![i] = f[j]]
      BY <2>3
    <3>2. QED
      BY <1>1, <3>1
  <2>4. QED
    BY <1>1, <2>1, <2>2, <2>3
<1>3. Len(frames) = n
  BY <1>1, <1>2
<1>4. QED
  BY <1>1, <1>2, <1>3 DEF FromFrames, IsSequence

LEMMA AfterDamage ==
  ASSUME NEW list, NEW how, NEW w, IsFileOf(w, list, how), NEW a, a = w \/ OneDamage(a, w)
  PROVE  IsAfterDamage(a, w)
<1>1. /\ w = [header |-> w.header, frames |-> w.frames, footer |-> w.footer, trailer |-> w.trailer]
      /\ IsSequence(w.frames)
  BY DEF IsFileOf
<1>2. IsHeaderRecord(w.header)
  <2>1. w.header = [magic |-> TRUE, version |-> TRUE, flags |-> Flags(how), encOffset |-> Base(how),
                    commentOffset |-> IF HasComment(how) THEN Len(w.frames) - 1 ELSE 0]
    BY DEF IsFileOf
  <2>2. QED
    BY <2>1 DEF IsHeaderRecord
<1>3. IsFooterRecord(w.footer)
  <2>1. w.footer = [magic |-> TRUE, version |-> TRUE, index |-> Len(w.frames),
                    total |-> w.footer.total]
    BY DEF IsFileOf
  <2>2. w.footer.magic = TRUE /\ w.footer.version = TRUE /\ w.footer.index = Len(w.frames)
    BY <2>1
  <2>3. QED
    BY <2>1, <2>2 DEF IsFooterRecord
<1>4. CASE a = w
  BY <1>1, <1>4, SameFrames DEF IsAfterDamage
<1>5. CASE \E frames : a = [w EXCEPT !.frames = frames] /\ FromFrames([frames |-> frames], w)
  BY <1>1, <1>5, ReframedFile
<1>6. CASE a \in OtherDamages(w)
  <2>1. CASE \E h \in HeaderDamages(w) : a = [w EXCEPT !.header = h]
    <3>1. PICK h \in HeaderDamages(w) : a = [w EXCEPT !.header = h]
      BY <2>1
    <3>2. IsHeaderRecord(h)
      BY <1>2, HeaderKeepsItsShape
    <3>3. a = [header |-> h, frames |-> w.frames, footer |-> w.footer, trailer |-> w.trailer]
      BY <1>1, <3>1
    <3>4. a.header = h /\ a.frames = w.frames /\ a.footer = w.footer /\ a.trailer = w.trailer
      BY <3>3
    <3>5. QED
      BY <1>1, <3>2, <3>3, <3>4, SameFrames DEF IsAfterDamage
  <2>2. CASE \E f \in FooterDamages(w) : a = [w EXCEPT !.footer = f]
    <3>1. PICK f \in FooterDamages(w) : a = [w EXCEPT !.footer = f]
      BY <2>2
    <3>2. IsFooterRecord(f)
      BY <1>3, FooterKeepsItsShape
    <3>3. a = [header |-> w.header, frames |-> w.frames, footer |-> f, trailer |-> w.trailer]
      BY <1>1, <3>1
    <3>4. a.header = w.header /\ a.frames = w.frames /\ a.footer = f /\ a.trailer = w.trailer
      BY <3>3
    <3>5. QED
      BY <1>1, <3>2, <3>3, <3>4, SameFrames DEF IsAfterDamage
  <2>3. CASE \E t : a = [w EXCEPT !.trailer = t]
    <3>1. PICK t : a = [w EXCEPT !.trailer = t]
      BY <2>3
    <3>2. a = [header |-> w.header, frames |-> w.frames, footer |-> w.footer, trailer |-> t]
      BY <1>1, <3>1
    <3>3. a.header = w.header /\ a.frames = w.frames /\ a.footer = w.footer /\ a.trailer = t
      BY <3>2
    <3>4. QED
      BY <1>1, <3>2, <3>3, SameFrames DEF IsAfterDamage
  <2>4. CASE a = Truncated(w)
    <3> DEFINE f == [w.footer EXCEPT !.magic = FALSE]
    <3>1. a = [header |-> w.header, frames |-> w.frames, footer |-> f, trailer |-> NoTrailer]
      <4>1. a = [[w EXCEPT !.footer = f] EXCEPT !.trailer = NoTrailer]
        BY <1>1, <2>4 DEF Truncated
      <4> HIDE DEF f
      <4>2. QED
        BY <1>1, <4>1
    <3>2. ~ f.magic
      <4>1. w.footer = [magic |-> w.footer.magic, version |-> w.footer.version,
                        index |-> w.footer.index, total |-> w.footer.total]
        BY <1>3 DEF IsFooterRecord
      <4>2. QED
        BY <4>1
    <3> HIDE DEF f
    <3>3. a.frames = w.frames /\ a.footer = f /\ a.header = w.header /\ a.trailer = NoTrailer
      BY <3>1
    <3>4. QED
      BY <1>1, <3>1, <3>2, <3>3, SameFrames DEF IsAfterDamage
  <2>5. QED
    BY <1>6, <2>1, <2>2, <2>3, <2>4 DEF OtherDamages
<1>7. ASSUME NEW frames, a = [w EXCEPT !.frames = frames],
             \/ \E i \in DOMAIN w.frames : \E g \in FrameDamages(w, w.frames[i]) :
                  frames = [w.frames EXCEPT ![i] = g]
             \/ \E i, j \in DOMAIN w.frames :
                  \/ frames = [w.frames EXCEPT ![i] = w.frames[j], ![j] = w.frames[i]]
                  \/ frames = [w.frames EXCEPT ![i] = w.frames[j]]
      PROVE  IsAfterDamage(a, w)
  BY <1>1, <1>5, <1>7, FramesAfterDamage
<1>8. CASE \E i \in DOMAIN w.frames : \E g \in FrameDamages(w, w.frames[i]) :
             a = [w EXCEPT !.frames[i] = g]
  <2>1. PICK i \in DOMAIN w.frames : \E g \in FrameDamages(w, w.frames[i]) :
               a = [w EXCEPT !.frames[i] = g]
    BY <1>8
  <2>2. PICK g \in FrameDamages(w, w.frames[i]) : a = [w EXCEPT !.frames[i] = g]
    BY <2>1
  <2> DEFINE frames == [w.frames EXCEPT ![i] = g]
  <2>3. a = [w EXCEPT !.frames = frames]
    BY <1>1, <2>2
  <2>4. QED
    BY <1>7, <2>3
<1>9. CASE \E i, j \in DOMAIN w.frames :
             a = Exchanged(w, i, j) \/ a = [w EXCEPT !.frames[i] = w.frames[j]]
  <2>1. PICK i \in DOMAIN w.frames, j \in DOMAIN w.frames :
          a = Exchanged(w, i, j) \/ a = [w EXCEPT !.frames[i] = w.frames[j]]
    BY <1>9
  <2>2. \/ a = [w EXCEPT !.frames = [w.frames EXCEPT ![i] = w.frames[j], ![j] = w.frames[i]]]
        \/ a = [w EXCEPT !.frames = [w.frames EXCEPT ![i] = w.frames[j]]]
    BY <1>1, <2>1 DEF Exchanged
  <2>3. QED
    BY <1>7, <2>2
<1>10. QED
  BY <1>4, <1>6, <1>8, <1>9 DEF OneDamage
\* Two footers that a trailer binds with the same header are the same.
LEMMA BoundFooter ==
  ASSUME NEW h, NEW f, NEW g, IsFooterRecord(f), IsFooterRecord(g),
         f.magic = g.magic, f.version = g.version, Bound(h, f) = Bound(h, g)
  PROVE  f = g
<1>1. f.index = g.index /\ f.total = g.total
  BY DEF Bound
<1>2. QED
  BY <1>1 DEF IsFooterRecord

\* An archive that opens has the header and the footer that were written: the trailer
\* binds them, and a reader that does without a trailer finds them unharmed.
LEMMA OpensWithItsEnds ==
  ASSUME NEW list, NEW how, NEW w, IsFileOf(w, list, how), NEW a, IsAfterDamage(a, w),
         NEW r, OpenError(a, r) = "OK"
  PROVE  a.header = w.header /\ a.footer = w.footer
<1>1. a.footer.magic /\ a.footer.version
  <2>1. FooterError(a) = "OK"
    BY DEF OpenError, ??
  <2>2. QED
    BY <2>1 DEF FooterError, Check, ??
<1>2. TrailerError(a, KeyOf(a, r)) = "OK"
  BY DEF OpenError, MetadataError, ??
<1>3. w.trailer.present = TRUE /\ w.trailer.over = Bound(w.header, w.footer)
  <2>1. w.trailer = TrailerOf(w.header, w.footer, KeyFor(how))
    BY DEF IsFileOf
  <2>2. QED
    BY <2>1 DEF TrailerOf
<1>4. ASSUME a.trailer = w.trailer
      PROVE  Bound(a.header, a.footer) = Bound(w.header, w.footer)
  <2>1. a.trailer.present
    BY <1>3, <1>4
  <2>2. a.trailer = [present |-> TRUE, key |-> KeyOf(a, r), over |-> Bound(a.header, a.footer)]
    BY <1>2, <2>1 DEF TrailerError, Check
  <2> DEFINE b == Bound(a.header, a.footer)
  <2> HIDE DEF b
  <2>3. a.trailer.over = b
    BY <2>2 DEF b
  <2>4. QED
    BY <1>3, <1>4, <2>3 DEF b
<1>5. CASE a.trailer = w.trailer /\ a.footer = w.footer /\ IsHeaderRecord(a.header)
  <2>1. w.header = [magic |-> TRUE, version |-> TRUE, flags |-> Flags(how), encOffset |-> Base(how),
                    commentOffset |-> IF HasComment(how) THEN Len(w.frames) - 1 ELSE 0]
    BY DEF IsFileOf
  <2>2. IsHeaderRecord(w.header)
    BY <2>1 DEF IsHeaderRecord
  <2>3. Bound(a.header, w.footer) = Bound(w.header, w.footer)
    BY <1>4, <1>5
  <2>4. QED
    BY <1>5, <2>2, <2>3, BoundTwice DEF IsHeaderRecord
<1>6. CASE a.trailer = w.trailer /\ a.header = w.header /\ IsFooterRecord(a.footer)
  <2>1. w.footer = [magic |-> TRUE, version |-> TRUE, index |-> Len(w.frames),
                    total |-> w.footer.total]
    BY DEF IsFileOf
  <2>2. w.footer.magic = TRUE /\ w.footer.version = TRUE /\ w.footer.index = Len(w.frames)
    BY <2>1
  <2>3. IsFooterRecord(w.footer)
    BY <2>1, <2>2 DEF IsFooterRecord
  <2>4. a.footer.magic = w.footer.magic /\ a.footer.version = w.footer.version
    BY <1>1, <1>6, <2>2 DEF IsFooterRecord
  <2>5. Bound(w.header, a.footer) = Bound(w.header, w.footer)
    BY <1>4, <1>6
  <2>6. QED
    BY <1>6, <2>3, <2>4, <2>5, BoundFooter
<1>7. QED
  BY <1>1, <1>5, <1>6 DEF IsAfterDamage

\* Only place p has a frame of a kind.
IsOnly(w, p, type) == \A j \in 1 .. Len(w.frames) : w.frames[j].type = type => j = p

\* What is left of a frame with some data.
KeepsData(g, data) == (g.pay.data = data /\ g.size = Len(data)) \/ g.sum = data
KeepsSeal(g, f) == g.pay.seal \in {f.pay.seal, NoSeal}

\* A frame of a kind that only one place has comes from there, whatever happened to it.
LEMMA ComesFromItsPlace ==
  ASSUME NEW a, NEW w, FromFrames(a, w), NEW p \in 1 .. Len(w.frames),
         NEW type, NEW data, IsSequence(data) /\ Len(data) # 0, NEW own,
         Holds(w.frames[p], type, data, own) /\ IsOnly(w, p, type) /\ a.frames[p].type = type
  PROVE  KeepsData(a.frames[p], data) /\ KeepsSeal(a.frames[p], w.frames[p])
<1> DEFINE f == w.frames[p]
           g == a.frames[p]
<1>1. IsFrameRecord(f) /\ f.size = Len(data) /\ f.sum = data /\ f.pay.data = data
  BY DEF Holds
<1>2. f.size \in Nat \ {0}
  BY <1>1 DEF IsSequence
<1>3. \/ g = f
      \/ g \in FrameDamages(w, f)
  BY DEF FromFrames, IsOnly
<1> HIDE DEF f, g
<1>4. CASE g = f
  BY <1>1, <1>4 DEF f, g, KeepsData, KeepsSeal
<1>5. CASE g \in FrameDamages(w, f)
  <2>1. /\ (g.pay.data = f.pay.data /\ g.size = f.size) \/ g.sum = f.sum
        /\ g.pay.seal \in {f.pay.seal, NoSeal}
    BY <1>1, <1>2, <1>5, HarmedFrame
  <2>2. (g.pay.data = data /\ g.size = Len(data)) \/ g.sum = data
    BY <1>1, <2>1
  <2>3. QED
    BY Zenon, <2>1, <2>2 DEF f, g, KeepsData, KeepsSeal
<1>6. QED
  BY <1>3, <1>4, <1>5

\* If it reads at all, it decodes to what was written there.
LEMMA ReadsBack ==
  ASSUME NEW a, NEW w, FromFrames(a, w), NEW p \in 1 .. Len(w.frames),
         NEW type, NEW data, IsSequence(data) /\ Len(data) # 0, NEW own,
         Holds(w.frames[p], type, data, own) /\ IsOnly(w, p, type) /\ a.frames[p].type = type,
         a.frames[p].size # 0, ContentError(a.frames[p]) = "OK"
  PROVE  Decoded(a.frames[p]) = data
<1> DEFINE g == a.frames[p]
<1>1. KeepsData(g, data)
  BY ComesFromItsPlace
<1> HIDE DEF g
<1>2. Decoded(g) = g.sum
  BY DEF g, ContentError, Check, ??
<1>3. CASE g.pay.data = data /\ g.size = Len(data)
  <2>1. SubSeq(data, 1, Len(data)) = data
    BY IsSequenceInSeq, WholePrefix
  <2>2. QED
    BY <1>3, <2>1 DEF Decoded, g
<1>4. QED
  BY <1>1, <1>2, <1>3 DEF g, KeepsData

\* A sealed frame that opens is sealed with the key that opens it.
LEMMA OpensWithItsKey ==
  ASSUME NEW g, NEW used, used # NoKey, NEW seq, NEW bound,
         SealError(g, used, seq, bound) = "OK"
  PROVE  g.pay.seal.key = used
<1>1. Unseals(g, used, seq, bound)
  BY DEF SealError, Check, ??
<1>2. QED
  BY <1>1 DEF Unseals

\* The index.
EntriesOf(list, how) == [i \in DOMAIN list |-> EntryOf(list, i, Base(how), how)]

LEMMA IndexIs ==
  ASSUME NEW list \in FileLists, NEW how
  PROVE  LET data == IndexData(list, Base(how), how)
         IN IsSequence(data) /\ Len(data) # 0 /\ Tail(data) = EntriesOf(list, how)
<1> DEFINE head == [form |-> IF Old(how) THEN "fixed" ELSE "varint", count |-> Len(list)]
           entries == EntriesOf(list, how)
           data == IndexData(list, Base(how), how)
           S == {head} \cup Range(entries)
<1>1. DOMAIN list = 1 .. Len(list) /\ Len(list) \in Nat
  BY FilesAreSequences
<1>2. data = << head >> \o entries
  BY Zenon DEF IndexData, EntriesOf
<1>3. IsSequence(entries)
  BY <1>1 DEF EntriesOf, IsSequence
<1> HIDE DEF head, entries, data
<1>4. entries \in Seq(S) /\ head \in S
  <2>1. entries \in Seq(Range(entries))
    BY <1>3, IsSequenceInSeq
  <2>2. \A P, Q : P \subseteq Q => Seq(P) \subseteq Seq(Q)
    OBVIOUS
  <2>3. QED
    BY <2>1, <2>2
<1> HIDE DEF S
<1>5. data \in Seq(S) /\ Len(data) # 0 /\ Tail(data) = entries
  BY <1>2, <1>4
<1>6. QED
  BY <1>5, SeqIsSequence DEF data, entries

LEMMA IndexHolds ==
  ASSUME NEW list \in FileLists, NEW how
  PROVE  Holds(IndexFrame(list, Base(how), how), "INDEX", IndexData(list, Base(how), how),
               IF Old(how) THEN NoKey ELSE KeyFor(how))
<1> DEFINE data == IndexData(list, Base(how), how)
           codec == IF OnDisk(how) THEN "STORE" ELSE "LZH"
           key == IF Old(how) THEN NoKey ELSE KeyFor(how)
<1>1. IndexFrame(list, Base(how), how) = Seal(Frame("INDEX", codec, data), key, IndexSeq, TRUE)
  BY DEF IndexFrame
<1>2. IsSequence(data)
  BY IndexIs
<1> HIDE DEF data, codec, key
<1>3. Holds(Seal(Frame("INDEX", codec, data), key, IndexSeq, TRUE), "INDEX", data, key)
  BY <1>2, FrameHolds
<1>4. QED
  BY <1>1, <1>3 DEF data, key

LEMMA CommentHolds ==
  ASSUME NEW how \in WriteOptions
  PROVE  Holds(CommentFrame(how), "COMMENT", how.comment, KeyFor(how))
<1> DEFINE key == KeyFor(how)
<1>1. CommentFrame(how) = Seal(Frame("COMMENT", "STORE", how.comment), key, CommentSeq, TRUE)
  BY DEF CommentFrame
<1>2. IsSequence(how.comment)
  BY CallsAssumption
<1> HIDE DEF key
<1>3. QED
  BY <1>1, <1>2, FrameHolds DEF key

\* The index is the last frame, and the only one of its kind; so is the comment.
LEMMA OneOfItsKind ==
  ASSUME NEW list \in FileLists, NEW how \in WriteOptions, NEW w, IsFileOf(w, list, how)
  PROVE  /\ IsOnly(w, Len(w.frames), "INDEX")
         /\ HasComment(how) => IsOnly(w, Len(w.frames) - 1, "COMMENT")
<1> DEFINE n == Len(w.frames)
<1>1. n \in Nat \ {0} /\ w.frames[n].type = "INDEX"
  BY IndexHolds DEF IsFileOf, Holds
<1>2. HasComment(how) => w.frames[n - 1].type = "COMMENT"
  BY CommentHolds DEF IsFileOf, Holds
<1>3. \A i \in 1 .. n - 1 :
        \/ w.frames[i].type \in {"ENC_HEADER", "DATA", "DEDUP_REF"}
        \/ HasComment(how) /\ i = n - 1
  BY DEF IsFileOf, IsBodyFrame
<1>4. ASSUME NEW j \in 1 .. n, w.frames[j].type = "INDEX"
      PROVE  j = n
  <2>1. CASE j \in 1 .. n - 1
    <3>1. CASE w.frames[j].type \in {"ENC_HEADER", "DATA", "DEDUP_REF"}
      BY <1>4, <3>1
    <3>2. CASE HasComment(how) /\ j = n - 1
      BY <1>2, <1>4, <3>2
    <3>3. QED
      BY <1>3, <2>1, <3>1, <3>2
  <2>2. j \in 1 .. n - 1 \/ j = n
    BY <1>1
  <2>3. QED
    BY <2>1, <2>2
<1>5. ASSUME HasComment(how), NEW j \in 1 .. n, w.frames[j].type = "COMMENT"
      PROVE  j = n - 1
  <2>1. j # n
    BY <1>1, <1>5
  <2>2. j \in 1 .. n - 1
    BY <1>1, <2>1
  <2>3. ~ (w.frames[j].type \in {"ENC_HEADER", "DATA", "DEDUP_REF"})
    BY <1>5
  <2>4. QED
    BY <1>3, <2>2, <2>3
<1>6. QED
  BY <1>4, <1>5 DEF IsOnly

\* What an archive that opens says is the index is what was written as the index.
LEMMA OpensWithItsIndex ==
  ASSUME NEW list \in FileLists, NEW how \in WriteOptions, NEW w, IsFileOf(w, list, how),
         NEW a, IsAfterDamage(a, w), NEW r, OpenError(a, r) = "OK"
  PROVE  Entries(a) = EntriesOf(list, how)
<1> DEFINE p == a.footer.index
           frame == a.frames[p]
           key == IF OldDisk(a) THEN NoKey ELSE KeyOf(a, r)
           data == IndexData(list, Base(how), how)
           own == IF Old(how) THEN NoKey ELSE KeyFor(how)
<1>1. p = Len(w.frames) /\ p \in 1 .. Len(w.frames)
  <2>1. a.footer = w.footer
    BY OpensWithItsEnds
  <2>2. w.footer = [magic |-> TRUE, version |-> TRUE, index |-> Len(w.frames),
                    total |-> w.footer.total] /\ Len(w.frames) \in Nat \ {0}
    BY DEF IsFileOf
  <2>3. w.footer.index = Len(w.frames)
    BY <2>2
  <2>4. QED
    BY <2>1, <2>2, <2>3
<1>2. IndexError(a, KeyOf(a, r)) = "OK"
  BY DEF OpenError, MetadataError, ??
<1>3. /\ frame.type = "INDEX" /\ BlockError(frame, key, IndexSeq, Aad(a)) = "OK"
      /\ ParseError(a, Decoded(frame)) = "OK"
  BY <1>2 DEF IndexError, Check, ??
<1>4. Decoded(frame) # << >>
  BY <1>3 DEF ParseError, Check, ??
<1>5. IsSequence(data) /\ Len(data) # 0 /\ Tail(data) = EntriesOf(list, how)
  BY IndexIs
<1>6. Holds(w.frames[p], "INDEX", data, own)
  BY <1>1, IndexHolds DEF IsFileOf
<1>7. IsOnly(w, p, "INDEX")
  BY <1>1, OneOfItsKind
<1>8. FromFrames(a, w)
  BY DEF IsAfterDamage
<1> HIDE DEF p, key, data, own
<1>9. frame.size # 0
  <2>1. SubSeq(frame.pay.data, 1, 0) = << >>
    OBVIOUS
  <2>2. QED
    BY <1>4, <2>1 DEF Decoded
<1>10. Decoded(frame) = data
  <2>1. frame.type = "INDEX"
    BY <1>3
  <2>2. ContentError(frame) = "OK"
    BY <1>3 DEF BlockError, ??
  <2> HIDE DEF frame
  <2>3. a.frames[p].type = "INDEX" /\ a.frames[p].size # 0 /\ ContentError(a.frames[p]) = "OK"
    BY <1>9, <2>1, <2>2 DEF frame
  <2>4. QED
    BY <1>1, <1>5, <1>6, <1>7, <1>8, <2>3, ReadsBack DEF frame
<1>11. QED
  BY <1>5, <1>10 DEF Entries, p
\* A call that opens what storage gives back.
IsOpened(a, w, list, how, r) ==
  /\ list \in FileLists /\ how \in WriteOptions
  /\ IsFileOf(w, list, how) /\ IsAfterDamage(a, w) /\ OpenError(a, r) = "OK"

LEMMA FlagsOfTheOpened ==
  ASSUME NEW a, NEW w, NEW list, NEW how, NEW r, IsOpened(a, w, list, how, r)
  PROVE  /\ a.header = w.header /\ a.footer = w.footer
         /\ a.header.flags = Flags(how) /\ a.header.encOffset = Base(how)
         /\ a.header.commentOffset = (IF HasComment(how) THEN Len(w.frames) - 1 ELSE 0)
         /\ a.footer.index = Len(w.frames) /\ Len(w.frames) \in Nat \ {0}
<1>1. a.header = w.header /\ a.footer = w.footer
  BY OpensWithItsEnds DEF IsOpened
<1>2. w.header = [magic |-> TRUE, version |-> TRUE, flags |-> Flags(how), encOffset |-> Base(how),
                  commentOffset |-> IF HasComment(how) THEN Len(w.frames) - 1 ELSE 0]
  BY DEF IsOpened, IsFileOf
<1>3. /\ w.footer = [magic |-> TRUE, version |-> TRUE, index |-> Len(w.frames),
                     total |-> w.footer.total]
      /\ Len(w.frames) \in Nat \ {0}
  BY DEF IsOpened, IsFileOf
<1>4. w.footer.index = Len(w.frames)
  BY <1>3
<1>5. /\ w.header.flags = Flags(how) /\ w.header.encOffset = Base(how)
      /\ w.header.commentOffset = (IF HasComment(how) THEN Len(w.frames) - 1 ELSE 0)
  BY <1>2
<1>6. QED
  BY <1>1, <1>3, <1>4, <1>5

\* What the flags say of the layout.
LEMMA FlagsOfTheLayout ==
  ASSUME NEW a, NEW how \in WriteOptions, a.header.flags = Flags(how)
  PROVE  /\ Flag(a, "ENCRYPTED") <=> Encrypts(how)
         /\ Flag(a, "SOLID") <=> how.layout = "solid"
         /\ Flag(a, "DISK_IMAGE") <=> OnDisk(how)
         /\ OldDisk(a) <=> Old(how)
<1>1. how.layout \in {"flat", "solid", "disk", "old disk"}
  BY CallsAssumption
<1>2. QED
  BY <1>1 DEF Flag, Flags, When, OldDisk, OnDisk, Old

\* Only who has the secret opens an encrypted archive.
LEMMA OpenedWithTheSecret ==
  ASSUME NEW a, NEW w, NEW list, NEW how, NEW r, IsOpened(a, w, list, how, r),
         how.kind \in NativeKinds \cup {"none"}, Encrypts(how), ~ Old(how),
         r.secret = Secret(r.secret.form, r.secret.value)
  PROVE  r.secret = Secret(FormOf(how.kind), how.value)
<1> DEFINE p == a.footer.index
           data == IndexData(list, Base(how), how)
           own == KeyFor(how)
           key == KeyOf(a, r)
           kind == Kind(a)
           value == r.secret.value
<1>1. /\ a.header.flags = Flags(how) /\ p = Len(w.frames) /\ p \in 1 .. Len(w.frames)
  BY FlagsOfTheOpened
<1>2. Flag(a, "ENCRYPTED") /\ ~ OldDisk(a)
  BY <1>1, FlagsOfTheLayout DEF IsOpened
<1>3. EncHeaderError(a, r) = "OK" /\ IndexError(a, key) = "OK"
  BY DEF IsOpened, OpenError, MetadataError, ??
<1>4. kind \in NativeKinds /\ r.secret.form = FormOf(kind)
  BY <1>2, <1>3 DEF EncHeaderError, SecretError, Check, ??
<1>5. key = Key(kind, value)
  BY <1>2 DEF KeyOf
<1>6. own = Key(how.kind, how.value)
  BY DEF KeyFor
<1> HIDE DEF kind, value, key, own
<1>7. key # NoKey /\ own # NoKey
  <2>1. kind # "none" /\ how.kind # "none"
    BY <1>4 DEF NativeKinds, Encrypts
  <2>2. QED
    BY <1>5, <1>6, <2>1 DEF Key, NoKey
<1>8. /\ a.frames[p].type = "INDEX" /\ SealError(a.frames[p], key, IndexSeq, Aad(a)) = "OK"
  BY <1>2, <1>3 DEF IndexError, BlockError, Check, ??
<1>9. a.frames[p].pay.seal.key = key
  BY <1>7, <1>8, OpensWithItsKey
<1>10. IsSequence(data) /\ Len(data) # 0
  BY IndexIs DEF IsOpened
<1>11. Holds(w.frames[p], "INDEX", data, own)
  BY <1>1, IndexHolds DEF IsOpened, IsFileOf, own
<1>12. IsOnly(w, p, "INDEX")
  BY <1>1, OneOfItsKind DEF IsOpened
<1>13. FromFrames(a, w)
  BY DEF IsOpened, IsAfterDamage
<1> HIDE DEF data
<1>14. KeepsSeal(a.frames[p], w.frames[p])
  BY <1>1, <1>8, <1>10, <1>11, <1>12, <1>13, ComesFromItsPlace
<1>15. a.frames[p].pay.seal.key = own
  <2>1. w.frames[p].pay.seal.key = own
    BY <1>7, <1>11 DEF Holds
  <2>2. NoSeal.key = NoKey
    BY DEF NoSeal
  <2>3. QED
    BY <1>7, <1>9, <1>14, <2>1, <2>2 DEF KeepsSeal
<1>16. kind = how.kind /\ value = how.value
  BY <1>5, <1>6, <1>9, <1>15 DEF Key
<1>17. QED
  BY <1>4, <1>16 DEF value

\* The blocks of some content make it up.
LEMMA BlocksMakeTheContent ==
  ASSUME NEW content, IsSequence(content)
  PROVE  FlattenSeq(BlocksOf(content)) = content
<1> DEFINE blocks == BlocksOf(content)
           n == Len(blocks)
           S == Range(content)
           to(b) == IF b * BlockSize < Len(content) THEN b * BlockSize ELSE Len(content)
           part(b) == FlattenSeq(SubSeq(blocks, 1, b))
           T == {b \in Nat : b <= n => part(b) = SubSeq(content, 1, to(b))}
<1>1. content \in Seq(S) /\ Len(content) \in Nat /\ BlockSize \in Nat \ {0}
  BY FormatAssumption, IsSequenceInSeq DEF IsSequence
<1>2. /\ n \in Nat /\ n = (Len(content) + BlockSize - 1) \div BlockSize
      /\ n * BlockSize >= Len(content) /\ n * BlockSize < Len(content) + BlockSize
  BY Blocks
<1>3. blocks = [b \in 1 .. n |-> SubSeq(content, (b - 1) * BlockSize + 1, to(b))]
  BY <1>2 DEF BlocksOf
<1> HIDE DEF blocks, n, S
<1>4. ASSUME NEW b \in 0 .. n - 1
      PROVE  /\ b * BlockSize \in Nat /\ b * BlockSize < Len(content) /\ to(b) = b * BlockSize
             /\ to(b + 1) \in Nat /\ to(b) <= to(b + 1) /\ to(b + 1) <= Len(content)
             /\ blocks[b + 1] = SubSeq(content, to(b) + 1, to(b + 1))
  <2>1. b \in Nat /\ b + 1 <= n /\ b + 1 \in 1 .. n /\ b + 1 \in Nat
    BY <1>2
  <2>2. b * BlockSize \in Nat /\ (b + 1) * BlockSize = b * BlockSize + BlockSize
    BY <1>1, <2>1
  <2>3. (b + 1) * BlockSize <= n * BlockSize
    BY <1>1, <1>2, <2>1
  <2> DEFINE start == b * BlockSize
             end == (b + 1) * BlockSize
             last == n * BlockSize
  <2>4. end = start + BlockSize /\ start \in Nat /\ end <= last /\ last < Len(content) + BlockSize
        /\ last \in Nat
    BY <1>1, <1>2, <2>2, <2>3
  <2>5. blocks[b + 1] = SubSeq(content, b * BlockSize + 1, to(b + 1))
    <3> HIDE DEF to
    <3>1. \A c \in 1 .. n : blocks[c] = SubSeq(content, (c - 1) * BlockSize + 1, to(c))
      BY <1>3
    <3>2. (b + 1) - 1 = b
      BY <2>1
    <3>3. QED
      BY <2>1, <3>1, <3>2
  <2>6. to(b) = IF start < Len(content) THEN start ELSE Len(content)
    OBVIOUS
  <2>7. to(b + 1) = IF end < Len(content) THEN end ELSE Len(content)
    OBVIOUS
  <2> HIDE DEF start, end, last, to
  <2>8. start < Len(content)
    BY <1>1, <2>4
  <2>9. to(b) = start /\ to(b + 1) \in Nat /\ start <= to(b + 1) /\ to(b + 1) <= Len(content)
    BY <1>1, <2>4, <2>6, <2>7, <2>8
  <2>10. blocks[b + 1] = SubSeq(content, start + 1, to(b + 1))
    BY <2>5 DEF start
  <2>11. QED
    BY <2>4, <2>8, <2>9, <2>10 DEF start
<1>5. \A b \in 1 .. n : blocks[b] \in Seq(S)
  <2> TAKE b \in 1 .. n
  <2>1. b - 1 \in 0 .. n - 1 /\ (b - 1) + 1 = b
    BY <1>2
  <2>2. /\ blocks[b] = SubSeq(content, to(b - 1) + 1, to(b)) /\ to(b) \in Nat /\ to(b - 1) \in Nat
        /\ to(b - 1) <= to(b) /\ to(b) <= Len(content)
    BY <1>4, <2>1
  <2> HIDE DEF to
  <2>3. QED
    BY <1>1, <2>2, Part
<1>6. blocks \in Seq(Seq(S)) /\ Len(blocks) = n
  <2>1. blocks = [b \in 1 .. n |-> blocks[b]]
    BY <1>3
  <2>2. blocks \in [1 .. n -> Seq(S)]
    BY <1>5, <2>1
  <2>3. QED
    BY <1>2, <2>2
<1>7. 0 \in T
  <2>1. SubSeq(blocks, 1, 0) = << >> /\ SubSeq(content, 1, 0) = << >>
    BY <1>1, <1>6
  <2>2. to(0) = 0
    BY <1>1
  <2>3. QED
    BY <2>1, <2>2, FlattenEmpty
<1>8. ASSUME NEW b \in 0 .. n - 1, b \in T PROVE b + 1 \in T
  <2> DEFINE q == SubSeq(blocks, 1, b)
             x == blocks[b + 1]
  <2>1. b \in 0 .. Len(blocks) - 1 /\ b \in 0 .. Len(blocks) /\ b \in Nat /\ b <= n
    BY <1>2, <1>6
  <2>2. SubSeq(blocks, 1, b + 1) = Append(q, x) /\ q \in Seq(Seq(S)) /\ x \in Seq(S)
    BY <1>6, <2>1, PrefixGrows, Prefix
  <2>3. part(b) = SubSeq(content, 1, to(b))
    BY <1>8, <2>1
  <2>4. FlattenSeq(Append(q, x)) = FlattenSeq(q) \o x
    BY <2>2, FlattenAppend
  <2>5. x = SubSeq(content, to(b) + 1, to(b + 1))
    BY <1>4
  <2>6. to(b) \in Nat /\ to(b + 1) \in Nat /\ to(b) <= to(b + 1) /\ to(b + 1) <= Len(content)
    BY <1>4
  <2> HIDE DEF to
  <2>7. SubSeq(content, 1, to(b)) \o SubSeq(content, to(b) + 1, to(b + 1))
        = SubSeq(content, 1, to(b + 1))
    BY <1>1, <2>6, PartsJoin
  <2>8. part(b + 1) = SubSeq(content, 1, to(b + 1))
    BY <2>2, <2>3, <2>4, <2>5, <2>7, Zenon
  <2>9. b + 1 \in Nat
    BY <2>1
  <2> HIDE DEF part
  <2>10. QED
    BY <2>8, <2>9
<1>9. n \in T
  <2> HIDE DEF T
  <2>1. \A b \in 0 .. n : b \in T
    BY <1>2, <1>7, <1>8, BoundedInduction
  <2>2. QED
    BY <1>2, <2>1
<1>10. to(n) = Len(content)
  BY <1>1, <1>2
<1>11. part(n) = FlattenSeq(blocks) /\ SubSeq(content, 1, Len(content)) = content
  <2>1. SubSeq(blocks, 1, n) = blocks
    BY <1>6, WholePrefix
  <2>2. SubSeq(content, 1, Len(content)) = content
    BY <1>1, WholePrefix
  <2>3. QED
    BY <2>1, <2>2, Zenon
<1>12. part(n) = SubSeq(content, 1, to(n))
  BY <1>2, <1>9
<1> HIDE DEF part, to
<1>13. QED
  BY <1>10, <1>11, <1>12 DEF blocks
\* The frames of a file, and an archive that opens is one.
LEMMA FramesOfTheFile ==
  ASSUME NEW list \in FileLists, NEW how \in WriteOptions, NEW w, IsFileOf(w, list, how)
  PROVE  \A i \in 1 .. Len(w.frames) : IsFrameRecord(w.frames[i]) /\ w.frames[i].size \in Nat \ {0}
<1> DEFINE n == Len(w.frames)
<1>1. n \in Nat \ {0}
  BY DEF IsFileOf
<1>2. IsFrameRecord(w.frames[n]) /\ w.frames[n].size \in Nat \ {0}
  <2> DEFINE data == IndexData(list, Base(how), how)
  <2>1. IsSequence(data) /\ Len(data) # 0
    BY IndexIs
  <2>2. Holds(w.frames[n], "INDEX", data, IF Old(how) THEN NoKey ELSE KeyFor(how))
    BY IndexHolds DEF IsFileOf
  <2> HIDE DEF data, n
  <2>3. QED
    BY <2>1, <2>2 DEF Holds, IsSequence
<1>3. HasComment(how) => IsFrameRecord(w.frames[n - 1]) /\ w.frames[n - 1].size \in Nat \ {0}
  <2> SUFFICES ASSUME HasComment(how) PROVE IsFrameRecord(w.frames[n - 1])
                                            /\ w.frames[n - 1].size \in Nat \ {0}
    OBVIOUS
  <2>1. IsSequence(how.comment) /\ Len(how.comment) # 0
    <3>1. IsSequence(how.comment) /\ how.comment # << >>
      BY CallsAssumption DEF HasComment
    <3>2. QED
      BY <3>1 DEF IsSequence
  <2>2. Holds(w.frames[n - 1], "COMMENT", how.comment, KeyFor(how))
    BY CommentHolds DEF IsFileOf
  <2> HIDE DEF n
  <2>3. QED
    BY <2>1, <2>2 DEF Holds, IsSequence
<1>4. \A i \in 1 .. n - 1 :
        \/ IsFrameRecord(w.frames[i]) /\ w.frames[i].size \in Nat \ {0}
        \/ HasComment(how) /\ i = n - 1
  BY DEF IsFileOf, IsBodyFrame
<1> HIDE DEF n
<1>5. QED
  BY <1>1, <1>2, <1>3, <1>4 DEF n

LEMMA OpenedIsArchive ==
  ASSUME NEW a, NEW w, NEW list, NEW how, NEW r, IsOpened(a, w, list, how, r)
  PROVE  IsArchive(a)
<1>1. a = [header |-> a.header, frames |-> a.frames, footer |-> a.footer, trailer |-> a.trailer]
  BY DEF IsOpened, IsAfterDamage
<1>2. IsFooter(a.footer)
  <2>1. a.footer = w.footer
    BY FlagsOfTheOpened
  <2>2. /\ w.footer = [magic |-> TRUE, version |-> TRUE, index |-> Len(w.frames),
                       total |-> w.footer.total]
        /\ w.footer.total \in Nat
    BY DEF IsOpened, IsFileOf
  <2>3. w.footer.magic = TRUE /\ w.footer.version = TRUE /\ w.footer.index = Len(w.frames)
    BY <2>2
  <2>4. QED
    BY <2>1, <2>2, <2>3 DEF IsFooter
<1>3. IsSequence(a.frames) /\ DOMAIN a.frames = 1 .. Len(w.frames)
  BY IsSequenceInSeq DEF IsOpened, IsAfterDamage, FromFrames
<1>4. ASSUME NEW i \in 1 .. Len(w.frames) PROVE IsFrame(a.frames[i])
  <2>1. \A j \in 1 .. Len(w.frames) : IsFrameRecord(w.frames[j]) /\ w.frames[j].size \in Nat \ {0}
    BY FramesOfTheFile DEF IsOpened
  <2>2. CASE \E j \in 1 .. Len(w.frames) : a.frames[i] = w.frames[j]
    BY <2>1, <2>2 DEF IsFrameRecord
  <2>3. CASE a.frames[i] \in FrameDamages(w, w.frames[i])
    <3> DEFINE f == w.frames[i]
               g == a.frames[i]
    <3>1. IsFrameRecord(f) /\ f.size \in Nat \ {0} /\ g \in FrameDamages(w, f)
      BY <2>1, <2>3
    <3> HIDE DEF f, g
    <3>2. IsFrame(g)
      BY <3>1, HarmedFrame
    <3>3. QED
      BY <3>2 DEF g
  <2>4. QED
    BY <2>2, <2>3 DEF IsOpened, IsAfterDamage, FromFrames
<1>5. ~ {"SOLID", "DISK_IMAGE"} \subseteq a.header.flags
  <2>1. a.header.flags = Flags(how) /\ how \in WriteOptions
    BY FlagsOfTheOpened DEF IsOpened
  <2>2. QED
    BY <2>1, FlagsOfTheLayout DEF Flag, OnDisk
<1>6. QED
  BY <1>1, <1>2, <1>3, <1>4, <1>5 DEF IsArchive

\* What the index says of a file.
LEMMA EntryIs ==
  ASSUME NEW list \in FileLists, NEW how, NEW i \in DOMAIN list
  PROVE  LET entry == EntriesOf(list, how)[i]
             content == list[i].content
         IN /\ entry.path = list[i].path /\ entry.size = Len(content) /\ IsSequence(content)
            /\ how.layout = "solid" => entry.hash = content /\ entry.offset = Len(Before(list, i))
            /\ how.layout # "solid" => entry.count = Len(BlocksOf(content))
            /\ how.layout # "solid" /\ ~ Old(how) => entry.hash = BlocksOf(content)
<1>1. EntriesOf(list, how)[i] = EntryOf(list, i, Base(how), how)
  BY DEF EntriesOf
<1>2. IsSequence(list[i].content)
  BY CallsAssumption
<1> DEFINE content == list[i].content
           entry == EntriesOf(list, how)[i]
<1>3. CASE how.layout = "solid"
  <2>1. entry = [path |-> list[i].path, size |-> Len(content), hash |-> content,
                 offset |-> Len(Before(list, i)), count |-> 0]
    BY <1>1, <1>3, Zenon DEF EntryOf, Entry, SolidHash
  <2> HIDE DEF entry
  <2>2. QED
    BY <1>2, <1>3, <2>1 DEF entry
<1>4. CASE how.layout # "solid"
  <2>1. entry = [path |-> list[i].path, size |-> Len(content),
                 hash |-> IF Old(how) THEN << >> ELSE BlocksOf(content),
                 offset |-> Base(how) + Len(BlocksBefore(list, i)) + 1,
                 count |-> Len(BlocksOf(content))]
    BY <1>1, <1>4, Zenon DEF EntryOf, Entry
  <2> HIDE DEF entry
  <2>2. QED
    BY <1>2, <1>4, <2>1 DEF entry
<1>5. QED
  BY <1>3, <1>4

\* An entry that is read without an error and has the hash of some content holds that.
LEMMA ReadEntryHolds ==
  ASSUME NEW a, IsArchive(a), ~ OldDisk(a), NEW i, NEW entry, NEW key,
         NEW content, IsSequence(content),
         entry.hash = BlocksOf(content), entry.count = Len(BlocksOf(content)),
         EntryResult(a, i, entry, key).error = "OK"
  PROVE  EntryResult(a, i, entry, key).data = content
<1> DEFINE n == entry.count
           block(b) == Block(a, entry, i, b - 1, key)
           blocks == [b \in 1 .. n |-> block(b)]
           parts == [b \in DOMAIN blocks |-> blocks[b].data]
           faults == [b \in DOMAIN blocks |-> blocks[b].error]
           read == EntryResult(a, i, entry, key)
<1>1. n \in Nat
  BY Blocks
<1>2. read = Result(FirstError(faults)
                    ?? Check(Len(FlattenSeq(parts)) = entry.size /\ HashHolds(a, entry, parts),
                             "BAD_CHECKSUM"),
                    FlattenSeq(parts))
  BY DEF EntryResult
<1>3. /\ parts = [b \in 1 .. n |-> block(b).data] /\ faults = [b \in 1 .. n |-> block(b).error]
  OBVIOUS
<1> HIDE DEF parts, faults, read, n, block
<1>4. /\ FirstError(faults) = "OK" /\ HashHolds(a, entry, parts) /\ read.data = FlattenSeq(parts)
  <2>1. read.error = "OK"
    BY DEF read
  <2>2. QED
    BY <1>2, <2>1 DEF Result, Check, ??
<1>5. \A b \in 1 .. n : block(b).error = "OK"
  <2>1. faults = [b \in 1 .. n |-> faults[b]] /\ \A b \in 1 .. n : faults[b] = block(b).error
    BY <1>3
  <2>2. \A b \in 1 .. n : faults[b] = "OK"
    BY <1>1, <1>4, <2>1, NoFirstError
  <2>3. QED
    BY <2>1, <2>2
<1>6. \A b \in 1 .. n : block(b).data \in Seq(UnitsOf(a))
  BY <1>5, BlockHasUnits DEF block
<1>7. parts \in Seq(Seq(UnitsOf(a)))
  <2>1. parts \in [1 .. n -> Seq(UnitsOf(a))]
    BY <1>3, <1>6
  <2>2. QED
    BY <1>1, <2>1
<1>8. WithData(parts) = BlocksOf(content)
  BY <1>4 DEF HashHolds, HashRequired
<1>9. FlattenSeq(parts) = FlattenSeq(BlocksOf(content))
  BY <1>7, <1>8, WithDataFlattens
<1>10. QED
  BY <1>4, <1>9, BlocksMakeTheContent DEF read
\* The same of an entry of a solid archive, whose hash extraction always compares.
SolidFile(entry, stream) == SolidEntry(entry, stream, TRUE)

LEMMA SolidEntryHolds ==
  ASSUME NEW entry, NEW stream, SolidFile(entry, stream).error = "OK"
  PROVE  SolidFile(entry, stream).data = entry.hash
<1> DEFINE content == SubSeq(stream, entry.offset + 1, entry.offset + entry.size)
           inside == entry.offset + entry.size <= Len(stream)
<1>1. SolidFile(entry, stream)
      = [error |-> Check(inside, "CORRUPT") ?? Check(content = entry.hash, "BAD_CHECKSUM"),
         data |-> content]
  BY DEF SolidFile, SolidEntry, Result
<1> HIDE DEF content, inside
<1>2. /\ SolidFile(entry, stream).data = content
      /\ Check(inside, "CORRUPT") ?? Check(content = entry.hash, "BAD_CHECKSUM") = "OK"
  BY <1>1
<1>3. Check(content = entry.hash, "BAD_CHECKSUM") = "OK"
  BY <1>2 DEF ??
<1>4. QED
  BY <1>2, <1>3 DEF Check

\* What extraction says of the entries.
ContentsRead(a, r) == Contents(a, r, TRUE)
ResultsOf(a, r) == ContentsRead(a, r).entries

LEMMA ResultsAre ==
  ASSUME NEW a, NEW r, ContentsRead(a, r).error = "OK"
  PROVE  LET entries == Entries(a)
             key == KeyOf(a, r)
             stream == SolidStream(a, entries, key)
         IN /\ Flag(a, "SOLID") =>
                 ResultsOf(a, r) = [i \in DOMAIN entries |-> SolidFile(entries[i], stream.data)]
            /\ ~ Flag(a, "SOLID") =>
                 ResultsOf(a, r) = [i \in DOMAIN entries |-> EntryResult(a, i, entries[i], key)]
  BY DEF Contents, ContentsRead, ResultsOf, SolidFile

LEMMA NoResults ==
  ASSUME NEW a, NEW r, ContentsRead(a, r).error # "OK"
  PROVE  ResultsOf(a, r) = << >>
  BY DEF Contents, ContentsRead, ResultsOf

\* An entry that is extracted is the file that was archived.
LEMMA ExtractedEntryHolds ==
  ASSUME NEW a, NEW w, NEW list, NEW how, NEW r, IsOpened(a, w, list, how, r), ~ Old(how),
         ContentsRead(a, r).error = "OK",
         NEW i \in DOMAIN list, ResultsOf(a, r)[i].error = "OK"
  PROVE  /\ ResultsOf(a, r)[i].data = list[i].content
         /\ Entries(a)[i].path = list[i].path
<1> DEFINE entries == Entries(a)
           key == KeyOf(a, r)
           stream == SolidStream(a, entries, key).data
           content == list[i].content
           entry == entries[i]
           results == ResultsOf(a, r)
<1>1. list \in FileLists /\ how \in WriteOptions
  BY DEF IsOpened
<1>2. entries = EntriesOf(list, how)
  BY OpensWithItsIndex DEF IsOpened
<1>3. i \in DOMAIN entries
  BY <1>2 DEF EntriesOf
<1>4. /\ entry.path = list[i].path /\ IsSequence(content)
      /\ how.layout = "solid" => entry.hash = content
      /\ how.layout # "solid" =>
           entry.count = Len(BlocksOf(content)) /\ entry.hash = BlocksOf(content)
  BY <1>1, <1>2, EntryIs
<1>5. (Flag(a, "SOLID") <=> how.layout = "solid") /\ ~ OldDisk(a)
  <2>1. a.header.flags = Flags(how)
    BY FlagsOfTheOpened
  <2>2. QED
    BY <1>1, <2>1, FlagsOfTheLayout
<1>6. /\ Flag(a, "SOLID") => results[i] = SolidFile(entry, stream)
      /\ ~ Flag(a, "SOLID") => results[i] = EntryResult(a, i, entry, key)
  <2>1. /\ Flag(a, "SOLID") =>
             results = [j \in DOMAIN entries |-> SolidFile(entries[j], stream)]
        /\ ~ Flag(a, "SOLID") =>
             results = [j \in DOMAIN entries |-> EntryResult(a, j, entries[j], key)]
    BY ResultsAre
  <2> HIDE DEF results, entries, stream, key
  <2>2. QED
    BY <1>3, <2>1
<1>7. results[i].error = "OK"
  OBVIOUS
<1>8. IsArchive(a)
  BY OpenedIsArchive
<1> HIDE DEF results, stream, content, key, entry
<1>9. CASE Flag(a, "SOLID")
  <2>1. SolidFile(entry, stream).error = "OK"
    BY <1>6, <1>7, <1>9
  <2>2. SolidFile(entry, stream).data = entry.hash
    BY <2>1, SolidEntryHolds
  <2>3. QED
    BY <1>4, <1>5, <1>6, <1>9, <2>2 DEF results, content, entry
<1>10. CASE ~ Flag(a, "SOLID")
  <2>1. EntryResult(a, i, entry, key).error = "OK"
    BY <1>6, <1>7, <1>10
  <2>2. EntryResult(a, i, entry, key).data = content
    BY <1>4, <1>5, <1>8, <1>10, <2>1, ReadEntryHolds
  <2>3. QED
    BY <1>4, <1>6, <1>10, <2>2 DEF results, content, entry
<1>11. QED
  BY <1>9, <1>10

LEMMA ResultsHaveTheirEntries ==
  ASSUME NEW a, NEW w, NEW list, NEW how, NEW r, IsOpened(a, w, list, how, r),
         ContentsRead(a, r).error = "OK"
  PROVE  DOMAIN ResultsOf(a, r) = DOMAIN list
<1>1. Entries(a) = EntriesOf(list, how)
  BY OpensWithItsIndex DEF IsOpened
<1>2. DOMAIN Entries(a) = DOMAIN list
  BY <1>1 DEF EntriesOf
<1>3. DOMAIN ResultsOf(a, r) = DOMAIN Entries(a)
  BY ResultsAre
<1>4. QED
  BY <1>2, <1>3

FilesOf(list) == {list[i] : i \in DOMAIN list}

\* Extraction gives files that were archived, and all of them when it has no error.
LEMMA ExtractGivesTheFiles ==
  ASSUME NEW a, NEW w, NEW list \in FileLists, NEW how \in WriteOptions,
         IsFileOf(w, list, how), IsAfterDamage(a, w), ~ Old(how), NEW r
  PROVE  /\ ExtractArchive(a, r).files \subseteq FilesOf(list)
         /\ ExtractArchive(a, r).error = "OK" => ExtractArchive(a, r).files = FilesOf(list)
<1> DEFINE contents == ContentsRead(a, r)
           results == ResultsOf(a, r)
           refused == OpenError(a, r) ?? QuotaError(a, r)
           all == ExtractArchive(a, r)
           file(i) == [path |-> Entries(a)[i].path, content |-> results[i].data]
           sound == {j \in DOMAIN results : results[j].error = "OK"}
<1>1. CASE refused # "OK"
  BY <1>1 DEF ExtractArchive
<1>2. CASE refused = "OK"
  <2>1. /\ all.error = contents.error ?? Check(~ Failed(results), "CORRUPT")
        /\ all.files = {file(i) : i \in sound}
    <3>1. all = [error |-> contents.error ?? Check(~ Failed(contents.entries), "CORRUPT"),
                 files |-> Extracted(Entries(a), contents.entries)]
      BY <1>2 DEF ExtractArchive, ContentsRead
    <3>2. Extracted(Entries(a), results) = {file(i) : i \in sound}
      BY DEF Extracted
    <3> HIDE DEF all, results, contents, file, sound
    <3>3. contents.entries = results
      BY DEF contents, results, ResultsOf
    <3>4. QED
      BY <3>1, <3>2, <3>3
  <2>2. IsOpened(a, w, list, how, r)
    BY <1>2 DEF IsOpened, ??
  <2>3. CASE contents.error # "OK"
    <3>1. results = << >>
      BY <2>3, NoResults
    <3>2. sound = {}
      BY <3>1
    <3> HIDE DEF sound, file, contents, results, all
    <3>3. all.files = {} /\ all.error # "OK"
      BY <2>1, <2>3, <3>2 DEF ??
    <3>4. QED
      BY <3>3 DEF all
  <2>4. CASE contents.error = "OK"
    <3>1. DOMAIN results = DOMAIN list
      BY <2>2, <2>4, ResultsHaveTheirEntries
    <3>2. \A i \in sound : file(i) = list[i]
      <4> TAKE i \in sound
      <4>1. i \in DOMAIN list /\ results[i].error = "OK"
        BY <3>1
      <4>2. results[i].data = list[i].content /\ Entries(a)[i].path = list[i].path
        BY <2>2, <2>4, <4>1, ExtractedEntryHolds
      <4>3. list[i] = [path |-> list[i].path, content |-> list[i].content]
        BY <4>1, CallsAssumption
      <4>4. QED
        BY <4>2, <4>3
    <3>3. all.error = "OK" => sound = DOMAIN list
      <4>1. all.error = Check(~ Failed(results), "CORRUPT")
        BY <2>1, <2>4 DEF ??
      <4> HIDE DEF all, results
      <4>2. QED
        BY <3>1, <4>1 DEF Failed, Check
    <3>4. sound \subseteq DOMAIN list
      BY <3>1
    <3> HIDE DEF sound, file, all
    <3>5. QED
      BY <2>1, <3>2, <3>3, <3>4 DEF all, FilesOf
  <2>5. QED
    BY <2>3, <2>4
<1>3. QED
  BY <1>1, <1>2
\* Where a file begins in the stream is a number.
LEMMA BeforeIsSequence ==
  ASSUME NEW list \in FileLists, NEW i \in DOMAIN list
  PROVE  Len(Before(list, i)) \in Nat
<1> DEFINE n == i - 1
           s == [j \in 1 .. n |-> list[j].content]
<1>1. i \in 1 .. Len(list) /\ Len(list) \in Nat
      /\ \A j \in 1 .. Len(list) : IsSequence(list[j].content)
  BY FilesAreSequences
<1>2. n \in Nat /\ \A j \in 1 .. n : j \in 1 .. Len(list)
  BY <1>1
<1>3. Before(list, i) = FlattenSeq(s)
  BY DEF Before
<1> HIDE DEF n
<1>4. IsSequence(s) /\ DOMAIN s = 1 .. n /\ \A j \in DOMAIN s : IsSequence(s[j])
  BY <1>1, <1>2 DEF IsSequence
<1> HIDE DEF s
<1>5. s \in Seq(Seq(MembersOf(s)))
  BY <1>4, Members
<1>6. FlattenSeq(s) \in Seq(MembersOf(s))
  BY <1>5, FlattenType
<1>7. QED
  BY <1>3, <1>6

\* What the test says of the entries: of an empty file it compares no hash, which is
\* the empty one.
ContentsTested(a, r) == Contents(a, r, FALSE)
SolidTested(entry, stream) == SolidEntry(entry, stream, FALSE)

LEMMA SolidTestAgrees ==
  ASSUME NEW entry, NEW stream, IsSequence(entry.hash), entry.size = Len(entry.hash),
         entry.offset \in Nat
  PROVE  SolidTested(entry, stream).error = SolidFile(entry, stream).error
<1> DEFINE content == SubSeq(stream, entry.offset + 1, entry.offset + entry.size)
           inside == entry.offset + entry.size <= Len(stream)
           same == content = entry.hash
<1>1. SolidFile(entry, stream)
      = [error |-> Check(inside, "CORRUPT") ?? Check(same, "BAD_CHECKSUM"), data |-> content]
  BY DEF SolidFile, SolidEntry, Result
<1>2. SolidTested(entry, stream)
      = [error |-> Check(inside, "CORRUPT") ?? Check(same \/ entry.size = 0, "BAD_CHECKSUM"),
         data |-> content]
  BY DEF SolidTested, SolidEntry, Result
<1>3. entry.size = 0 => same
  <2> SUFFICES ASSUME entry.size = 0 PROVE same
    OBVIOUS
  <2>1. entry.hash = << >>
    BY DEF IsSequence
  <2>2. entry.offset + entry.size = entry.offset
    OBVIOUS
  <2> DEFINE k == entry.offset
  <2>3. k \in Nat
    OBVIOUS
  <2> HIDE DEF k
  <2>4. SubSeq(stream, k + 1, k) = << >>
    BY <2>3
  <2>5. QED
    BY <2>1, <2>2, <2>4 DEF k
<1> HIDE DEF content, inside, same
<1>4. Check(same \/ entry.size = 0, "BAD_CHECKSUM") = Check(same, "BAD_CHECKSUM")
  BY <1>3 DEF Check
<1>5. QED
  BY <1>1, <1>2, <1>4

LEMMA TestAgreesOnTheEntries ==
  ASSUME NEW a, NEW w, NEW list, NEW how, NEW r, IsOpened(a, w, list, how, r)
  PROVE  /\ ContentsTested(a, r).error = ContentsRead(a, r).error
         /\ Failed(ContentsTested(a, r).entries) <=> Failed(ContentsRead(a, r).entries)
<1> DEFINE entries == Entries(a)
           key == KeyOf(a, r)
           stream == SolidStream(a, entries, key)
           large == Check(StreamSize(entries) <= SolidLimit, "OVERFLOW")
           read == ContentsRead(a, r)
           checked == ContentsTested(a, r)
<1>1. CASE ~ Flag(a, "SOLID")
  <2>1. checked = read
    BY <1>1 DEF Contents, ContentsTested, ContentsRead
  <2>2. QED
    BY <2>1
<1>2. CASE Flag(a, "SOLID")
  <2> DEFINE failure == large ?? stream.error
  <2>1. read = [error |-> failure,
                entries |-> IF failure # "OK" THEN << >>
                            ELSE [i \in DOMAIN entries |-> SolidFile(entries[i], stream.data)]]
    BY <1>2 DEF Contents, ContentsRead, SolidFile
  <2>2. checked = [error |-> failure,
                   entries |-> IF failure # "OK" THEN << >>
                               ELSE [i \in DOMAIN entries |-> SolidTested(entries[i], stream.data)]]
    BY <1>2 DEF Contents, ContentsTested, SolidTested
  <2>3. \A i \in DOMAIN entries :
          SolidTested(entries[i], stream.data).error = SolidFile(entries[i], stream.data).error
    <3> TAKE i \in DOMAIN entries
    <3>1. entries = EntriesOf(list, how)
      BY OpensWithItsIndex DEF IsOpened
    <3>2. i \in DOMAIN list /\ list \in FileLists
      BY <3>1 DEF EntriesOf, IsOpened
    <3>3. how.layout = "solid"
      <4>1. a.header.flags = Flags(how)
        BY FlagsOfTheOpened
      <4>2. QED
        BY <1>2, <4>1, FlagsOfTheLayout DEF IsOpened
    <3> DEFINE entry == entries[i]
    <3>4. /\ IsSequence(entry.hash) /\ entry.size = Len(entry.hash)
          /\ entry.offset = Len(Before(list, i))
      BY <3>1, <3>2, <3>3, EntryIs
    <3>5. entry.offset \in Nat
      BY <3>2, <3>4, BeforeIsSequence
    <3> HIDE DEF entry
    <3>6. SolidTested(entry, stream.data).error = SolidFile(entry, stream.data).error
      BY <3>4, <3>5, SolidTestAgrees
    <3>7. QED
      BY <3>6 DEF entry
  <2> HIDE DEF failure, read, checked, entries, stream
  <2>4. checked.error = read.error
    BY <2>1, <2>2
  <2>5. CASE failure # "OK"
    BY <2>1, <2>2, <2>5 DEF read, checked
  <2>6. CASE failure = "OK"
    <3>1. /\ read.entries = [i \in DOMAIN entries |-> SolidFile(entries[i], stream.data)]
          /\ checked.entries = [i \in DOMAIN entries |-> SolidTested(entries[i], stream.data)]
      BY <2>1, <2>2, <2>6
    <3>2. Failed(checked.entries) <=> Failed(read.entries)
      BY <2>3, <3>1 DEF Failed
    <3>3. QED
      BY <2>4, <3>2 DEF read, checked
  <2>7. QED
    BY <2>5, <2>6
<1>3. QED
  BY <1>1, <1>2

LEMMA TestIsExtraction ==
  ASSUME NEW a, NEW w, NEW list \in FileLists, NEW how \in WriteOptions,
         IsFileOf(w, list, how), IsAfterDamage(a, w), NEW r, r.quota = 0
  PROVE  TestArchive(a, r) = "OK" <=> ExtractArchive(a, r).error = "OK"
<1> DEFINE read == ContentsRead(a, r)
           checked == ContentsTested(a, r)
<1>1. TestArchive(a, r)
      = OpenError(a, r) ?? (checked.error ?? Check(~ Failed(checked.entries), "BAD_CHECKSUM"))
  BY DEF TestArchive, ContentsTested, ??
<1>2. OpenError(a, r) ?? QuotaError(a, r) = OpenError(a, r)
  BY DEF QuotaError, Check, ??
<1>3. CASE OpenError(a, r) # "OK"
  <2>1. TestArchive(a, r) # "OK"
    BY <1>1, <1>3 DEF ??
  <2>2. ExtractArchive(a, r).error # "OK"
    BY <1>2, <1>3 DEF ExtractArchive
  <2>3. QED
    BY <2>1, <2>2
<1>4. CASE OpenError(a, r) = "OK"
  <2>1. ExtractArchive(a, r)
        = [error |-> read.error ?? Check(~ Failed(read.entries), "CORRUPT"),
           files |-> Extracted(Entries(a), read.entries)]
    BY <1>2, <1>4 DEF ExtractArchive, ContentsRead
  <2>2. /\ checked.error = read.error
        /\ Failed(checked.entries) <=> Failed(read.entries)
    BY <1>4, TestAgreesOnTheEntries DEF IsOpened
  <2> HIDE DEF read, checked
  <2>3. ExtractArchive(a, r).error = read.error ?? Check(~ Failed(read.entries), "CORRUPT")
    BY <2>1
  <2>4. QED
    BY <1>1, <1>4, <2>2, <2>3 DEF Check, ??
<1>5. QED
  BY <1>3, <1>4
\* The comment of an archive that opens is the one it was written with.
LEMMA CommentIsWritten ==
  ASSUME NEW a, NEW w, NEW list, NEW how, NEW r, IsOpened(a, w, list, how, r)
  PROVE  CommentOf(a) = (IF HasComment(how) THEN how.comment ELSE << >>)
<1> DEFINE p == a.header.commentOffset
           data == how.comment
           key == KeyOf(a, r)
<1>1. /\ p = (IF HasComment(how) THEN Len(w.frames) - 1 ELSE 0)
      /\ Len(w.frames) \in Nat \ {0}
  BY FlagsOfTheOpened
<1>2. CASE ~ HasComment(how)
  BY <1>1, <1>2 DEF CommentOf
<1>3. CASE HasComment(how)
  <2>1. list \in FileLists /\ how \in WriteOptions /\ IsFileOf(w, list, how)
    BY DEF IsOpened
  <2>2. Len(w.frames) > 1 /\ w.frames[Len(w.frames) - 1] = CommentFrame(how)
    BY <1>3, <2>1 DEF IsFileOf
  <2>3. p # 0 /\ p = Len(w.frames) - 1 /\ p \in 1 .. Len(w.frames)
    <3> DEFINE n == Len(w.frames)
    <3> HIDE DEF n, p
    <3>1. n \in Nat \ {0} /\ n > 1 /\ p = n - 1
      BY <1>1, <1>3, <2>2 DEF n
    <3>2. p # 0 /\ p \in 1 .. n
      BY <3>1
    <3>3. QED
      BY <3>1, <3>2 DEF n
  <2>4. IsSequence(data) /\ Len(data) # 0 /\ Len(data) < MaxComment
    <3>1. IsSequence(data) /\ data # << >> /\ Len(data) < MaxComment
      BY <1>3, <2>1, CallsAssumption DEF HasComment
    <3>2. QED
      BY <3>1 DEF IsSequence
  <2>5. CommentError(a, key) = "OK"
    BY DEF IsOpened, OpenError, MetadataError, ??
  <2> DEFINE frame == a.frames[p]
  <2>6. /\ frame.type = "COMMENT" /\ frame.size \in 1 .. MaxComment
        /\ BlockError(frame, key, CommentSeq, Aad(a)) = "OK"
    BY <2>3, <2>5 DEF CommentError, Check, ??
  <2>7. ContentError(frame) = "OK"
    BY <2>6 DEF BlockError, ??
  <2>8. frame.size # 0
    BY <2>6
  <2>9. Holds(w.frames[p], "COMMENT", data, KeyFor(how))
    BY <2>1, <2>2, <2>3, CommentHolds
  <2>10. IsOnly(w, p, "COMMENT")
    BY <1>3, <2>1, <2>3, OneOfItsKind
  <2>11. FromFrames(a, w)
    BY DEF IsOpened, IsAfterDamage
  <2> DEFINE own == KeyFor(how)
  <2>12. a.frames[p].type = "COMMENT" /\ a.frames[p].size # 0 /\ ContentError(a.frames[p]) = "OK"
    BY <2>6, <2>7, <2>8
  <2> HIDE DEF p, data, frame, own, key
  <2>13. Holds(w.frames[p], "COMMENT", data, own)
    BY <2>9 DEF own
  <2>14. Decoded(a.frames[p]) = data
    BY <2>3, <2>4, <2>10, <2>11, <2>12, <2>13, ReadsBack
  <2>15. CommentOf(a)
         = SubSeq(data, 1, IF Len(data) < MaxComment THEN Len(data) ELSE MaxComment - 1)
    BY <2>3, <2>14 DEF CommentOf, p
  <2>16. SubSeq(data, 1, Len(data)) = data
    BY <2>4, IsSequenceInSeq, WholePrefix
  <2>17. CommentOf(a) = data
    BY <2>4, <2>15, <2>16
  <2>18. QED
    BY <1>3, <2>17 DEF data
<1>4. QED
  BY <1>2, <1>3

\* What list and info show of an archive that list accepts.
LEMMA ListIsWritten ==
  ASSUME NEW a, NEW w, NEW list, NEW how, NEW r, IsOpened(a, w, list, how, r)
  PROVE  /\ ListArchive(a, r).paths = [i \in DOMAIN list |-> list[i].path]
         /\ ListArchive(a, r).sizes = [i \in DOMAIN list |-> Len(list[i].content)]
         /\ ListArchive(a, r).comment = (IF HasComment(how) THEN how.comment ELSE << >>)
<1> DEFINE entries == Entries(a)
           shown == ListArchive(a, r)
<1>1. /\ shown.paths = [i \in DOMAIN entries |-> entries[i].path]
      /\ shown.sizes = [i \in DOMAIN entries |-> entries[i].size]
      /\ shown.comment = CommentOf(a)
  BY DEF IsOpened, ListArchive
<1>2. entries = EntriesOf(list, how) /\ list \in FileLists
  BY OpensWithItsIndex DEF IsOpened
<1>3. DOMAIN entries = DOMAIN list
  BY <1>2 DEF EntriesOf
<1>4. \A i \in DOMAIN list :
        entries[i].path = list[i].path /\ entries[i].size = Len(list[i].content)
  BY <1>2, EntryIs
<1> HIDE DEF entries, shown
<1>5. /\ shown.paths = [i \in DOMAIN list |-> list[i].path]
      /\ shown.sizes = [i \in DOMAIN list |-> Len(list[i].content)]
  BY <1>1, <1>3, <1>4
<1>6. QED
  BY <1>1, <1>5, CommentIsWritten DEF shown

LEMMA InfoIsWritten ==
  ASSUME NEW a, NEW w, NEW list, NEW how, NEW r, IsOpened(a, w, list, how, r)
  PROVE  /\ ArchiveInfo(a).flags = Flags(how)
         /\ ArchiveInfo(a).blocks = w.footer.total
         /\ ArchiveInfo(a).comment = HasComment(how)
<1>1. /\ a.header = w.header /\ a.footer = w.footer /\ a.header.flags = Flags(how)
      /\ a.header.commentOffset = (IF HasComment(how) THEN Len(w.frames) - 1 ELSE 0)
  BY FlagsOfTheOpened
<1>2. w.footer.magic
  <2>1. w.footer = [magic |-> TRUE, version |-> TRUE, index |-> Len(w.frames),
                    total |-> w.footer.total]
    BY DEF IsOpened, IsFileOf
  <2>2. QED
    BY <2>1
<1>3. HasComment(how) => Len(w.frames) > 1
  BY DEF IsOpened, IsFileOf
<1>4. a.header.commentOffset # 0 <=> HasComment(how)
  <2> DEFINE n == Len(w.frames)
             p == a.header.commentOffset
  <2>1. n \in Nat /\ (HasComment(how) => n > 1 /\ p = n - 1) /\ (~ HasComment(how) => p = 0)
    BY <1>1, <1>3, FlagsOfTheOpened
  <2> HIDE DEF n, p
  <2>2. p # 0 <=> HasComment(how)
    BY <2>1
  <2>3. QED
    BY <2>2 DEF p
<1>5. ArchiveInfo(a).comment = (a.header.commentOffset # 0)
  BY DEF ArchiveInfo
<1>6. ArchiveInfo(a).comment = HasComment(how)
  BY Zenon, <1>4, <1>5 DEF HasComment
<1>7. QED
  BY <1>1, <1>2, <1>6 DEF ArchiveInfo
-----------------------------------------------------------------------------
(* The calls on one archive *)

LEMMA CallsBegin == CallsInit => CallsInvariant
  BY DEF CallsInit, CallsInvariant, Called

\* A place or two of a sequence changed.
LEMMA OtherPlaces ==
  ASSUME NEW w, IsSequence(w.frames), NEW i \in DOMAIN w.frames, NEW frame,
         NEW a, a = [w EXCEPT !.frames[i] = frame]
  PROVE  SameBut({i}, a, w)
<1>1. DOMAIN w.frames = 1 .. Len(w.frames)
  BY IsSequenceInSeq
<1> DEFINE fs == [w.frames EXCEPT ![i] = frame]
<1>2. a = [w EXCEPT !.frames = fs]
  OBVIOUS
<1>3. DOMAIN fs = DOMAIN w.frames /\ \A p \in DOMAIN w.frames \ {i} : fs[p] = w.frames[p]
  OBVIOUS
<1> QED
  BY <1>2, <1>3 DEF SameBut

LEMMA TwoPlaces ==
  ASSUME NEW w, IsSequence(w.frames), NEW i \in DOMAIN w.frames, NEW j \in DOMAIN w.frames
  PROVE  SameBut({i, j}, Exchanged(w, i, j), w)
<1> DEFINE fs == [w.frames EXCEPT ![i] = w.frames[j], ![j] = w.frames[i]]
           a == Exchanged(w, i, j)
<1>1. a = [w EXCEPT !.frames = fs]
  BY DEF Exchanged
<1>2. DOMAIN fs = DOMAIN w.frames /\ \A p \in DOMAIN w.frames \ {i, j} : fs[p] = w.frames[p]
  OBVIOUS
<1> HIDE DEF a, fs
<1>3. SameBut({i, j}, a, w)
  BY <1>1, <1>2 DEF SameBut
<1> QED
  BY <1>3 DEF a

LEMMA WriteStep ==
  ASSUME CallsInvariant, Write
  PROVE  CallsInvariant'
<1>1. /\ pc = "write" /\ stored = Unwritten /\ damaged = << >> /\ damaged' = << >>
      /\ files' = files /\ options' = options /\ caller' = caller
  BY DEF CallsInvariant, Write
<1>2. CASE WriteError(options) = "OK"
  <2>1. pc' = "store" /\ stored' = Written(files, options)
    BY <1>2 DEF Write
  <2>2. QED
    BY <1>1, <1>2, <2>1 DEF CallsInvariant, Called
<1>3. CASE WriteError(options) # "OK"
  <2>1. pc' = "done" /\ stored' = Unwritten
    BY <1>1, <1>3 DEF Write
  <2>2. QED
    BY <1>1, <2>1 DEF CallsInvariant, Called
<1>4. QED
  BY <1>2, <1>3

LEMMA StoreStep ==
  ASSUME CallsInvariant, Store
  PROVE  CallsInvariant'
<1> DEFINE w == Written(files, options)
<1>1. /\ pc = "store" /\ pc' = "test" /\ stored = w /\ WriteError(options) = "OK"
      /\ files' = files /\ options' = options /\ caller' = caller
  BY DEF CallsInvariant, Store
<1>2. DamageFrame \/ Exchange \/ Repeat \/ DamageOther \/ Keep
  BY DEF Store
<1> HIDE DEF w
<1>3. stored' = w \/ OneDamage(stored', w)
  BY <1>1, <1>2 DEF DamageFrame, Exchange, Repeat, DamageOther, Keep, OneDamage
<1>4. InStorage(stored)'
  BY <1>1, <1>3 DEF InStorage, w
<1>5. IsSequence(w.frames)
  BY FileIsWritten DEF CallsInvariant, IsFileOf, w
<1>6. damaged' # << >> => SameBut(Range(damaged'), stored', w)
  <2>1. ASSUME NEW i \in DOMAIN w.frames, NEW frame,
               stored' = [w EXCEPT !.frames[i] = frame], damaged' = << i >>
        PROVE  SameBut(Range(damaged'), stored', w)
    <3>1. Range(<< i >>) = {i}
      BY DEF Range
    <3>2. QED
      BY <1>5, <2>1, <3>1, OtherPlaces
  <2>2. CASE DamageFrame
    BY <1>1, <2>1, <2>2 DEF DamageFrame
  <2>3. CASE Repeat
    BY <1>1, <2>1, <2>3 DEF Repeat
  <2>4. CASE Exchange
    <3>1. PICK i, j \in DOMAIN w.frames : stored' = Exchanged(w, i, j) /\ damaged' = << i, j >>
      BY <1>1, <2>4 DEF Exchange
    <3>2. Range(<< i, j >>) = {i, j}
      BY DEF Range
    <3>3. SameBut({i, j}, stored', w)
      BY <1>5, <3>1, TwoPlaces
    <3>4. QED
      BY <3>1, <3>2, <3>3
  <2>5. CASE DamageOther \/ Keep
    BY <1>1, <2>5 DEF DamageOther, Keep, CallsInvariant
  <2>6. QED
    BY <1>2, <2>2, <2>3, <2>4, <2>5
<1>7. QED
  BY <1>1, <1>4, <1>6 DEF CallsInvariant, Called, w

LEMMA TestStep ==
  ASSUME CallsInvariant, Test
  PROVE  CallsInvariant'
<1>1. /\ pc = "test" /\ pc' = "extract" /\ tested' = TestArchive(stored, caller)
      /\ files' = files /\ options' = options /\ caller' = caller /\ stored' = stored
      /\ damaged' = damaged
  BY DEF Test
<1>2. InStorage(stored)'
  BY <1>1 DEF CallsInvariant, InStorage
<1>3. tested' = TestArchive(stored', caller')
  BY <1>1
<1>4. QED
  BY <1>1, <1>2, <1>3 DEF CallsInvariant, Called

LEMMA ExtractStep ==
  ASSUME CallsInvariant, Extract
  PROVE  CallsInvariant'
<1>1. /\ pc = "extract" /\ pc' = "list" /\ extracted' = ExtractArchive(stored, caller)
      /\ files' = files /\ options' = options /\ caller' = caller /\ stored' = stored
      /\ damaged' = damaged
      /\ tested' = tested
  BY DEF Extract
<1>2. InStorage(stored)' /\ tested' = TestArchive(stored', caller')
  BY <1>1 DEF CallsInvariant, InStorage
<1>3. extracted' = ExtractArchive(stored', caller')
  BY <1>1
<1>4. QED
  BY <1>1, <1>2, <1>3 DEF CallsInvariant, Called

LEMMA ListStep ==
  ASSUME CallsInvariant, List
  PROVE  CallsInvariant'
<1>1. /\ pc = "list" /\ pc' = "done" /\ listed' = ListArchive(stored, caller)
      /\ info' = ArchiveInfo(stored)
      /\ files' = files /\ options' = options /\ caller' = caller /\ stored' = stored
      /\ damaged' = damaged
      /\ tested' = tested /\ extracted' = extracted
  BY DEF List
<1>2. /\ InStorage(stored)' /\ tested' = TestArchive(stored', caller')
      /\ extracted' = ExtractArchive(stored', caller')
  BY <1>1 DEF CallsInvariant, InStorage
<1>3. listed' = ListArchive(stored', caller') /\ info' = ArchiveInfo(stored')
  BY <1>1
<1>4. QED
  BY <1>1, <1>2, <1>3 DEF CallsInvariant, Called

LEMMA CallsStutter ==
  ASSUME CallsInvariant, UNCHANGED callsVars
  PROVE  CallsInvariant'
<1>1. /\ pc' = pc /\ files' = files /\ options' = options /\ stored' = stored
      /\ damaged' = damaged
      /\ caller' = caller /\ tested' = tested /\ extracted' = extracted
      /\ listed' = listed /\ info' = info
  BY DEF callsVars
<1>2. InStorage(stored)' <=> InStorage(stored)
  BY <1>1 DEF InStorage
<1>3. Called' <=> Called
  BY <1>1 DEF Called
<1>4. QED
  BY <1>1, <1>2, <1>3 DEF CallsInvariant

\* What the calls return is what they say of the file in storage, which is the written
\* one with at most one damage.
THEOREM CallsInvariance == CallsSpec => []CallsInvariant
<1>1. CallsInvariant /\ [CallsNext]_callsVars => CallsInvariant'
  <2> SUFFICES ASSUME CallsInvariant, [CallsNext]_callsVars PROVE CallsInvariant'
    OBVIOUS
  <2>1. CASE Write
    BY <2>1, WriteStep
  <2>2. CASE Store
    BY <2>2, StoreStep
  <2>3. CASE Test
    BY <2>3, TestStep
  <2>4. CASE Extract
    BY <2>4, ExtractStep
  <2>5. CASE List
    BY <2>5, ListStep
  <2>6. CASE UNCHANGED callsVars
    BY <2>6, CallsStutter
  <2>7. QED
    BY <2>1, <2>2, <2>3, <2>4, <2>5, <2>6 DEF CallsNext
<1>2. QED
  BY <1>1, CallsBegin, PTL DEF CallsSpec

\* When the calls have returned.
LEMMA CallsReturned ==
  ASSUME CallsInvariant, Called
  PROVE  /\ files \in FileLists /\ options \in WriteOptions /\ caller \in ReadOptions
         /\ WriteError(options) = "OK"
         /\ IsFileOf(Written(files, options), files, options)
         /\ IsAfterDamage(stored, Written(files, options))
         /\ tested = TestArchive(stored, caller) /\ extracted = ExtractArchive(stored, caller)
         /\ listed = ListArchive(stored, caller) /\ info = ArchiveInfo(stored)
<1>1. /\ files \in FileLists /\ options \in WriteOptions /\ caller \in ReadOptions
      /\ WriteError(options) = "OK" /\ InStorage(stored)
      /\ tested = TestArchive(stored, caller) /\ extracted = ExtractArchive(stored, caller)
      /\ listed = ListArchive(stored, caller) /\ info = ArchiveInfo(stored)
  BY DEF CallsInvariant
<1> DEFINE w == Written(files, options)
<1>2. IsFileOf(w, files, options)
  BY <1>1, FileIsWritten
<1>3. stored = w \/ OneDamage(stored, w)
  BY <1>1 DEF InStorage
<1> HIDE DEF w
<1>4. IsAfterDamage(stored, w)
  BY <1>2, <1>3, AfterDamage
<1>5. QED
  BY <1>1, <1>2, <1>4 DEF w

\* Whatever one damage does to the archive and whoever reads it, what extraction leaves
\* behind was archived, and only who has the secret gets an archive through the test.
THEOREM ArchiveIsHonest == CallsSpec => []OnlyArchivedIsExtracted
<1>1. CallsInvariant => OnlyArchivedIsExtracted
  <2> SUFFICES ASSUME CallsInvariant, Called, Current
               PROVE  /\ extracted.files \subseteq Archived
                      /\ extracted.error = "OK" => extracted.files = Archived
                      /\ tested = "OK" => RightSecret
    BY DEF OnlyArchivedIsExtracted
  <2> DEFINE w == Written(files, options)
  <2>1. /\ files \in FileLists /\ options \in WriteOptions /\ caller \in ReadOptions
        /\ WriteError(options) = "OK" /\ IsFileOf(w, files, options) /\ IsAfterDamage(stored, w)
        /\ tested = TestArchive(stored, caller) /\ extracted = ExtractArchive(stored, caller)
    BY CallsReturned
  <2> HIDE DEF w
  <2>2. /\ extracted.files \subseteq FilesOf(files)
        /\ extracted.error = "OK" => extracted.files = FilesOf(files)
    BY <2>1, ExtractGivesTheFiles DEF Current
  <2>3. FilesOf(files) = Archived
    BY DEF FilesOf, Archived
  <2>4. ASSUME tested = "OK", Encrypts(options)
        PROVE  caller.secret = Secret(FormOf(options.kind), options.value)
    <3>1. IsOpened(stored, w, files, options, caller)
      BY <2>1, <2>4 DEF IsOpened, TestArchive, ??
    <3>2. options.kind \in NativeKinds \cup {"none"}
      BY <2>1 DEF WriteError, Check
    <3>3. caller.secret = Secret(caller.secret.form, caller.secret.value)
      BY <2>1, CallsAssumption
    <3>4. QED
      BY <2>4, <3>1, <3>2, <3>3, OpenedWithTheSecret DEF Current
  <2>5. QED
    BY <2>2, <2>3, <2>4 DEF RightSecret
<1>2. QED
  BY <1>1, CallsInvariance, PTL

\* Test and extraction agree, although they do not compare the same hashes.
THEOREM TestIsHonest == CallsSpec => []TestAgreesWithExtract
<1>1. CallsInvariant => TestAgreesWithExtract
  <2> SUFFICES ASSUME CallsInvariant, Called, caller.quota = 0
               PROVE  tested = "OK" <=> extracted.error = "OK"
    BY DEF TestAgreesWithExtract
  <2>1. /\ files \in FileLists /\ options \in WriteOptions
        /\ IsFileOf(Written(files, options), files, options)
        /\ IsAfterDamage(stored, Written(files, options))
        /\ tested = TestArchive(stored, caller) /\ extracted = ExtractArchive(stored, caller)
    BY CallsReturned
  <2>2. QED
    BY <2>1, TestIsExtraction
<1>2. QED
  BY <1>1, CallsInvariance, PTL

\* What list and info show of an archive that list accepts is what was archived.
THEOREM ListIsHonest == CallsSpec => []ListingIsArchived
<1>1. CallsInvariant => ListingIsArchived
  <2> SUFFICES ASSUME CallsInvariant, Called, listed.error = "OK"
               PROVE  /\ listed.paths = [i \in DOMAIN files |-> files[i].path]
                      /\ listed.sizes = [i \in DOMAIN files |-> Len(files[i].content)]
                      /\ listed.comment = (IF HasComment(options) THEN options.comment ELSE << >>)
                      /\ info.flags = Flags(options)
                      /\ info.blocks = Written(files, options).footer.total
                      /\ info.comment = HasComment(options)
    BY DEF ListingIsArchived
  <2> DEFINE w == Written(files, options)
  <2>1. /\ files \in FileLists /\ options \in WriteOptions
        /\ IsFileOf(w, files, options) /\ IsAfterDamage(stored, w)
        /\ listed = ListArchive(stored, caller) /\ info = ArchiveInfo(stored)
    BY CallsReturned
  <2>2. OpenError(stored, caller) = "OK"
    BY <2>1 DEF ListArchive
  <2> HIDE DEF w
  <2>3. IsOpened(stored, w, files, options, caller)
    BY <2>1, <2>2 DEF IsOpened
  <2>4. /\ listed.paths = [i \in DOMAIN files |-> files[i].path]
        /\ listed.sizes = [i \in DOMAIN files |-> Len(files[i].content)]
        /\ listed.comment = (IF HasComment(options) THEN options.comment ELSE << >>)
    BY <2>1, <2>3, ListIsWritten
  <2>5. /\ info.flags = Flags(options) /\ info.blocks = w.footer.total
        /\ info.comment = HasComment(options)
    BY <2>1, <2>3, InfoIsWritten
  <2>6. QED
    BY <2>4, <2>5 DEF w
<1>2. QED
  BY <1>1, CallsInvariance, PTL
-----------------------------------------------------------------------------
(* Where everything lies in an archive as it was written *)

LEMMA Concatenated ==
  ASSUME NEW s, IsSequence(s), NEW t, IsSequence(t)
  PROVE  /\ IsSequence(s \o t) /\ Len(s \o t) = Len(s) + Len(t)
         /\ \A i \in 1 .. Len(s) : (s \o t)[i] = s[i]
         /\ \A i \in 1 .. Len(t) : (s \o t)[Len(s) + i] = t[i]
<1> DEFINE S == Range(s) \cup Range(t)
<1>1. s \in Seq(Range(s)) /\ t \in Seq(Range(t)) /\ Len(s) \in Nat /\ Len(t) \in Nat
  BY IsSequenceInSeq DEF IsSequence
<1>2. \A P, Q : P \subseteq Q => Seq(P) \subseteq Seq(Q)
  OBVIOUS
<1>3. s \in Seq(S) /\ t \in Seq(S)
  BY <1>1, <1>2
<1> HIDE DEF S
<1>4. s \o t \in Seq(S) /\ Len(s \o t) = Len(s) + Len(t)
  BY <1>3
<1>5. IsSequence(s \o t)
  BY <1>4, SeqIsSequence
<1>6. \A i \in 1 .. Len(s) : (s \o t)[i] = s[i]
  BY <1>1, <1>3
<1>7. \A i \in 1 .. Len(t) : (s \o t)[Len(s) + i] = t[i]
  BY <1>1, <1>3
<1>8. QED
  BY <1>4, <1>5, <1>6, <1>7

BlockFrames(list, how) == DataFrames(Pieces(list, how), Base(how), how)
CountOf(list, how) == Len(Pieces(list, how))
Extra(how) == IF HasComment(how) THEN 1 ELSE 0
AllLies(w, list, how) ==
  /\ CountOf(list, how) \in Nat /\ Base(how) \in {0, 1}
  /\ Len(w.frames) = Base(how) + CountOf(list, how) + Extra(how) + 1
  /\ DOMAIN w.frames = 1 .. Len(w.frames)
  /\ Encrypts(how) => w.frames[1] = EncFrame(how)
  /\ \A k \in 1 .. CountOf(list, how) : w.frames[Base(how) + k] = BlockFrames(list, how)[k]
  /\ w.footer.total = CountOf(list, how) + Extra(how) + (IF how.layout = "solid" THEN 1 ELSE 0)

LEMMA EverythingLies ==
  ASSUME NEW list \in FileLists, NEW how
  PROVE  AllLies(Written(list, how), list, how)
<1> DEFINE inner == BodyOf(list, how)
           first == Opening(how)
           blocks == BlockFrames(list, how)
           n == CountOf(list, how)
           annotated == IF HasComment(how) THEN Append(inner, CommentFrame(how)) ELSE inner
           header == [magic |-> TRUE, version |-> TRUE, flags |-> Flags(how),
                      encOffset |-> Base(how),
                      commentOffset |-> IF HasComment(how) THEN Len(annotated) ELSE 0]
           footer == [magic |-> TRUE, version |-> TRUE, index |-> Len(annotated) + 1,
                      total |-> Len(annotated) - Base(how)
                                + (IF how.layout = "solid" THEN 1 ELSE 0)]
           index == IndexFrame(list, Base(how), how)
           frames == Append(annotated, index)
           w == Written(list, how)
<1>1. w = [header |-> header, frames |-> frames, footer |-> footer,
           trailer |-> TrailerOf(header, footer, KeyFor(how))]
  BY Zenon DEF Written, Closed, BodyOf
<1>2. w.frames = frames /\ w.footer.total = footer.total
  BY <1>1
<1>3. IsSequence(blocks) /\ Len(blocks) = n /\ n \in Nat
  <2>1. IsSequence(Pieces(list, how))
    BY PiecesAreBlocks DEF ArePieces
  <2>2. DOMAIN Pieces(list, how) = 1 .. n /\ n \in Nat
    BY <2>1, IsSequenceInSeq DEF CountOf, IsSequence
  <2>3. IsSequence(blocks)
    BY BlocksHaveFrames DEF BlockFrames
  <2>4. DOMAIN blocks = 1 .. n
    BY <2>2 DEF BlockFrames, DataFrames
  <2>5. DOMAIN blocks = 1 .. Len(blocks) /\ Len(blocks) \in Nat
    BY <2>3, IsSequenceInSeq DEF IsSequence
  <2> HIDE DEF blocks, n
  <2>6. Len(blocks) = n
    BY <2>2, <2>4, <2>5
  <2>7. QED
    BY <2>2, <2>3, <2>6
<1>4. /\ IsSequence(first) /\ Len(first) = Base(how) /\ Base(how) \in {0, 1}
      /\ Encrypts(how) => Base(how) = 1 /\ first[1] = EncFrame(how)
  BY DEF Opening, Base, IsSequence
<1>5. inner = first \o blocks
  BY DEF BodyOf, BlockFrames
<1> HIDE DEF w, footer, inner, first, blocks, n, index
<1>6. /\ IsSequence(inner) /\ Len(inner) = Base(how) + n
      /\ \A i \in 1 .. Len(first) : inner[i] = first[i]
      /\ \A i \in 1 .. n : inner[Base(how) + i] = blocks[i]
  BY <1>3, <1>4, <1>5, Concatenated
<1>7. /\ IsSequence(annotated) /\ Len(annotated) = Len(inner) + Extra(how)
      /\ \A i \in 1 .. Len(inner) : annotated[i] = inner[i]
  <2>1. CASE HasComment(how)
    <3> DEFINE longer == Append(inner, CommentFrame(how))
    <3>1. annotated = longer /\ Extra(how) = 1
      BY <2>1 DEF Extra
    <3>2. /\ IsSequence(longer) /\ Len(longer) = Len(inner) + 1
          /\ \A i \in 1 .. Len(inner) : longer[i] = inner[i]
      BY <1>6, OneMore
    <3> HIDE DEF longer, annotated
    <3>3. QED
      BY <3>1, <3>2
  <2>2. CASE ~ HasComment(how)
    <3>1. annotated = inner /\ Extra(how) = 0
      BY <2>2 DEF Extra
    <3>2. Len(inner) \in Nat
      BY <1>3, <1>4, <1>6
    <3> HIDE DEF annotated
    <3>3. QED
      BY <1>6, <3>1, <3>2
  <2>3. QED
    BY <2>1, <2>2
<1>8. Extra(how) \in {0, 1}
  BY DEF Extra
<1>9. footer.total = Len(annotated) - Base(how) + (IF how.layout = "solid" THEN 1 ELSE 0)
  BY DEF footer
<1> HIDE DEF annotated
<1>10. /\ IsSequence(frames) /\ Len(frames) = Len(annotated) + 1
       /\ \A i \in 1 .. Len(annotated) : frames[i] = annotated[i]
  BY <1>7, OneMore
<1> HIDE DEF frames
<1>11. DOMAIN frames = 1 .. Len(frames)
  BY <1>10, IsSequenceInSeq
<1>12. Len(frames) = Base(how) + n + Extra(how) + 1
  BY <1>3, <1>4, <1>6, <1>7, <1>8, <1>10
<1>13. \A i \in 1 .. Base(how) + n : frames[i] = inner[i]
  BY <1>3, <1>4, <1>6, <1>7, <1>8, <1>10
<1>14. Encrypts(how) => frames[1] = EncFrame(how)
  BY <1>3, <1>4, <1>6, <1>13
<1>15. \A k \in 1 .. n : frames[Base(how) + k] = blocks[k]
  BY <1>3, <1>4, <1>6, <1>13
<1>16. footer.total = n + Extra(how) + (IF how.layout = "solid" THEN 1 ELSE 0)
  BY <1>3, <1>4, <1>6, <1>7, <1>8, <1>9
<1>17. QED
  BY <1>2, <1>3, <1>4, <1>11, <1>12, <1>14, <1>15, <1>16 DEF AllLies, w, n, blocks
\* The block a block is compared with first: no earlier one is equal.
LEMMA FirstOfItsKind ==
  ASSUME NEW pieces, Len(pieces) \in Nat, NEW k \in 1 .. Len(pieces)
  PROVE  LET f == FirstEqual(pieces, k)
         IN /\ f \in 1 .. Len(pieces) /\ f <= k
            /\ pieces[f].data = pieces[k].data
            /\ FirstEqual(pieces, f) = f
<1> DEFINE I(j) == {i \in 1 .. Len(pieces) : pieces[i].data = pieces[j].data}
           f == FirstEqual(pieces, k)
<1>1. ASSUME NEW j \in 1 .. Len(pieces)
      PROVE  FirstEqual(pieces, j) = Min(I(j)) /\ I(j) \in SUBSET Nat /\ j \in I(j)
  <2>1. I(j) \in SUBSET Nat /\ j \in I(j)
    OBVIOUS
  <2>2. FirstEqual(pieces, j) = IF I(j) # {} THEN Min(I(j)) ELSE 0
    BY DEF FirstEqual, SelectInSeq
  <2>3. QED
    BY <2>1, <2>2
<1>2. f = Min(I(k)) /\ I(k) \in SUBSET Nat /\ k \in I(k)
  BY <1>1
<1> HIDE DEF f
<1>3. f \in I(k) /\ f <= k
  <2> HIDE DEF I
  <2>1. QED
    BY <1>2, MinIsLeast
<1>4. f \in 1 .. Len(pieces) /\ pieces[f].data = pieces[k].data
  BY <1>3
<1>5. I(f) = I(k)
  BY <1>4
<1>6. FirstEqual(pieces, f) = f
  BY <1>1, <1>2, <1>4, <1>5
<1>7. QED
  BY <1>3, <1>4, <1>6 DEF f

\* A frame of data of any layout is read by who has the key.
LEMMA BoundSealReads ==
  ASSUME NEW f, IsFrameRecord(f), ~ f.sealed, NEW key, NEW seq, NEW aad \in BOOLEAN,
         NEW reads, reads <=> aad /\ key # NoKey
  PROVE  SealError(Seal(f, key, seq, aad), key, seq, reads) = "OK"
<1> DEFINE g == Seal(f, key, seq, aad)
<1>1. KeepsBound(g, f, key, seq, aad)
  BY BoundSealFields
<1> HIDE DEF g
<1>2. SealError(g, key, seq, reads) = "OK"
  <2>1. CASE key = NoKey
    BY <1>1, <2>1 DEF SealError, Check, KeepsBound
  <2>2. CASE key # NoKey
    <3>1. Unseals(g, key, seq, reads)
      BY <1>1, <2>2 DEF Unseals, KeepsBound
    <3>2. QED
      BY <1>1, <2>2, <3>1 DEF SealError, Check, ??, KeepsBound
  <2>3. QED
    BY <2>1, <2>2
<1>3. QED
  BY <1>2 DEF g

LEMMA DataFrameReads ==
  ASSUME NEW how, how.codec \in Codecs, how.kind \in NativeKinds \cup {"none"},
         NEW piece, IsSequence(piece.data), NEW seq, Encrypts(how) => seq = piece.seq,
         NEW aad, aad <=> Encrypts(how) /\ ~ Old(how)
  PROVE  Gives(DataFrame(piece, how), "DATA", piece.data, KeyFor(how), seq, aad)
<1> DEFINE codec == IF OnDisk(how) /\ IsZeroBlock(piece.data) THEN "STORE" ELSE how.codec
           used == IF piece.data \in Incompressible THEN "STORE" ELSE codec
           key == KeyFor(how)
           data == piece.data
           f == Frame("DATA", codec, data)
           recent == ~ Old(how)
           g == DataFrame(piece, how)
<1>1. key # NoKey <=> Encrypts(how)
  BY KeyIsSomething
<1>2. used \in Codecs
  BY DEF Codecs
<1>3. IsFrameRecord(f)
  BY FrameType
<1>4. /\ f.intact /\ ~ f.sealed /\ f.type = "DATA" /\ f.codec = used /\ f.size = Len(data)
      /\ f.sum = data /\ f.pay.codec = used /\ f.pay.data = data
  BY FrameFields
<1>5. g = Seal(f, key, piece.seq, recent)
  BY Zenon DEF DataFrame
<1>6. recent \in BOOLEAN /\ IsSequence(data)
  BY DEF Old
<1>7. aad <=> recent /\ key # NoKey
  BY <1>1
<1> HIDE DEF codec, used, key, data, f, recent, g
<1>8. KeepsBound(g, f, key, piece.seq, recent)
  BY <1>3, <1>5, BoundSealFields
<1>9. SealError(g, key, seq, aad) = "OK"
  <2>1. SealError(g, key, piece.seq, aad) = "OK"
    BY <1>3, <1>4, <1>5, <1>6, <1>7, BoundSealReads
  <2>2. CASE Encrypts(how)
    BY <2>1, <2>2
  <2>3. CASE ~ Encrypts(how)
    BY <1>1, <1>4, <1>8, <2>3 DEF SealError, Check, KeepsBound
  <2>4. QED
    BY <2>2, <2>3
<1>10. /\ g.intact /\ g.type = "DATA" /\ g.codec = used /\ g.size = Len(data)
       /\ g.sum = data /\ g.pay.codec = used /\ g.pay.data = data
  BY <1>4, <1>8 DEF KeepsBound
<1>11. Decoded(g) = data
  BY <1>6, <1>10, IsSequenceInSeq, WholePrefix DEF Decoded
<1>12. ContentError(g) = "OK"
  <2>1. Len(data) \in Nat
    BY <1>6 DEF IsSequence
  <2>2. DecodeError(g) = "OK"
    BY <1>2, <1>10, <2>1 DEF DecodeError, Check, ??
  <2>3. QED
    BY <1>10, <1>11, <2>2 DEF ContentError, Check, ??
<1>13. BlockError(g, key, seq, aad) = "OK"
  BY <1>9, <1>12 DEF BlockError, ??
<1>14. Gives(g, "DATA", data, key, seq, aad)
  BY <1>10, <1>11, <1>13 DEF Gives
<1>15. QED
  BY <1>14 DEF g, data, key
\* Where a part lies in what a sequence of parts is flattened to.
LEMMA FlattenAt ==
  ASSUME NEW S, NEW s \in Seq(Seq(S)), NEW i \in 1 .. Len(s)
  PROVE  LET all == FlattenSeq(s)
             at == Len(FlattenSeq(SubSeq(s, 1, i - 1)))
         IN /\ at \in Nat /\ at + Len(s[i]) <= Len(all) /\ Len(all) \in Nat
            /\ \A b \in 1 .. Len(s[i]) : all[at + b] = s[i][b]
            /\ SubSeq(all, at + 1, at + Len(s[i])) = s[i]
<1> DEFINE all == FlattenSeq(s)
           earlier == FlattenSeq(SubSeq(s, 1, i - 1))
           part == FlattenSeq(SubSeq(s, 1, i))
           x == s[i]
<1>1. i - 1 \in 0 .. Len(s) - 1 /\ (i - 1) + 1 = i /\ i \in 0 .. Len(s) /\ i - 1 \in 0 .. Len(s)
  OBVIOUS
<1>2. SubSeq(s, 1, i) = Append(SubSeq(s, 1, i - 1), x) /\ x \in Seq(S)
  BY <1>1, PrefixGrows
<1>3. SubSeq(s, 1, i - 1) \in Seq(Seq(S))
  BY <1>1, Prefix
<1>4. part = earlier \o x
  BY <1>2, <1>3, FlattenAppend
<1>5. earlier \in Seq(S)
  BY <1>3, FlattenType
<1>6. part \in Seq(S) /\ all \in Seq(S) /\ Len(part) <= Len(all) /\ part = SubSeq(all, 1, Len(part))
  BY <1>1, FlattenPrefix
<1> HIDE DEF all, earlier, part, x
<1>7. Len(part) = Len(earlier) + Len(x) /\ Len(earlier) \in Nat /\ Len(x) \in Nat
      /\ Len(all) \in Nat
  BY <1>2, <1>4, <1>5, <1>6
<1>8. \A b \in 1 .. Len(x) : part[Len(earlier) + b] = x[b]
  BY <1>2, <1>4, <1>5
<1>9. \A j \in 1 .. Len(part) : part[j] = all[j]
  BY <1>6
<1>10. \A b \in 1 .. Len(x) : all[Len(earlier) + b] = x[b]
  <2> TAKE b \in 1 .. Len(x)
  <2>1. Len(earlier) + b \in 1 .. Len(part)
    BY <1>7
  <2>2. QED
    BY <1>8, <1>9, <2>1
<1>11. SubSeq(all, Len(earlier) + 1, Len(earlier) + Len(x)) = x
  <2> DEFINE y == SubSeq(all, Len(earlier) + 1, Len(earlier) + Len(x))
  <2>1. y \in Seq(S) /\ Len(y) = Len(x)
    BY <1>6, <1>7, Part
  <2>2. \A b \in 1 .. Len(x) : y[b] = all[Len(earlier) + b]
    BY <1>6, <1>7
  <2> HIDE DEF y
  <2>3. \A b \in 1 .. Len(x) : y[b] = x[b]
    BY <1>10, <2>2
  <2>4. y = x
    BY <1>2, <2>1, <2>3
  <2>5. QED
    BY <2>4 DEF y
<1>12. QED
  BY <1>6, <1>7, <1>10, <1>11 DEF all, earlier, part, x

\* The lengths of the parts add up to that of the whole.
LengthsOf(s) == [i \in DOMAIN s |-> Len(s[i])]

LEMMA TotalIsLength ==
  ASSUME NEW S, NEW s \in Seq(Seq(S))
  PROVE  Total(LengthsOf(s)) = Len(FlattenSeq(s)) /\ Len(FlattenSeq(s)) \in Nat
<1> DEFINE n == Len(s)
           sizes == LengthsOf(s)
           C == CHOOSE f : f = [k \in 0 .. Len(sizes) |-> IF k = 0 THEN 0 ELSE f[k - 1] + sizes[k]]
           upTo(k) == FlattenSeq(SubSeq(s, 1, k))
           g == [k \in 0 .. n |-> Len(upTo(k))]
<1>1. n \in Nat /\ DOMAIN s = 1 .. n
  OBVIOUS
<1>2. Len(sizes) = n /\ \A k \in 1 .. n : sizes[k] = Len(s[k]) /\ sizes[k] \in Nat
  BY <1>1 DEF LengthsOf
<1>3. Total(sizes) = C[Len(sizes)]
  BY DEF Total
<1> HIDE DEF sizes, n
<1>4. g[0] = 0
  <2>1. SubSeq(s, 1, 0) = << >>
    OBVIOUS
  <2>2. upTo(0) = << >>
    BY <2>1, FlattenEmpty
  <2> HIDE DEF upTo
  <2>3. g[0] = Len(upTo(0))
    BY <1>1
  <2>4. Len(<< >>) = 0
    OBVIOUS
  <2>5. QED
    BY <2>2, <2>3, <2>4
<1>5. ASSUME NEW k \in 1 .. n
      PROVE  g[k] = g[k - 1] + sizes[k]
  <2>1. k - 1 \in 0 .. Len(s) - 1 /\ (k - 1) + 1 = k /\ k - 1 \in 0 .. Len(s)
    BY <1>1 DEF n
  <2>2. SubSeq(s, 1, k) = Append(SubSeq(s, 1, k - 1), s[k]) /\ s[k] \in Seq(S)
    BY <2>1, PrefixGrows
  <2>3. SubSeq(s, 1, k - 1) \in Seq(Seq(S))
    BY <2>1, Prefix
  <2>4. upTo(k) = upTo(k - 1) \o s[k]
    BY <2>2, <2>3, FlattenAppend
  <2>5. upTo(k - 1) \in Seq(S)
    BY <2>3, FlattenType
  <2> HIDE DEF upTo
  <2>6. Len(upTo(k)) = Len(upTo(k - 1)) + Len(s[k])
    BY <2>2, <2>4, <2>5
  <2>7. k \in 0 .. n /\ k - 1 \in 0 .. n
    BY <1>1
  <2>8. QED
    BY <1>2, <2>6, <2>7
<1>6. g = [k \in 0 .. Len(sizes) |-> IF k = 0 THEN 0 ELSE g[k - 1] + sizes[k]]
  <2>2. g = [k \in 0 .. n |-> g[k]]
    OBVIOUS
  <2> HIDE DEF g
  <2>1. \A k \in 0 .. n : g[k] = IF k = 0 THEN 0 ELSE g[k - 1] + sizes[k]
    BY <1>1, <1>4, <1>5
  <2>3. QED
    BY <1>2, <2>1, <2>2
<1>7. C = [k \in 0 .. Len(sizes) |-> IF k = 0 THEN 0 ELSE C[k - 1] + sizes[k]]
  <2> HIDE DEF g
  <2>1. \E f : f = [k \in 0 .. Len(sizes) |-> IF k = 0 THEN 0 ELSE f[k - 1] + sizes[k]]
    BY <1>6
  <2>2. QED
    BY <2>1
<1> HIDE DEF C, g
<1> DEFINE T == {k \in Nat : C[k] = g[k]}
<1>8. 0 \in T
  <2>1. C[0] = 0
    BY <1>1, <1>2, <1>7
  <2>2. QED
    BY <1>4, <2>1
<1>9. ASSUME NEW k \in 0 .. n - 1, k \in T PROVE k + 1 \in T
  <2>1. k + 1 \in 0 .. n /\ k + 1 # 0 /\ (k + 1) - 1 = k /\ k + 1 \in 1 .. n /\ k + 1 \in Nat
    BY <1>1
  <2>2. C[k + 1] = C[k] + sizes[k + 1]
    BY <1>2, <1>7, <2>1
  <2>3. g[k + 1] = g[k] + sizes[k + 1]
    BY <1>5, <2>1
  <2>4. C[k] = g[k]
    BY <1>9
  <2>5. QED
    BY <2>1, <2>2, <2>3, <2>4
<1>10. C[n] = g[n]
  <2> HIDE DEF T
  <2>1. \A k \in 0 .. n : k \in T
    BY <1>1, <1>8, <1>9, BoundedInduction
  <2>2. QED
    BY <1>1, <2>1 DEF T
<1>11. g[n] = Len(FlattenSeq(s))
  <2>1. SubSeq(s, 1, n) = s
    BY WholePrefix DEF n
  <2>2. upTo(n) = FlattenSeq(s)
    BY <2>1
  <2> HIDE DEF upTo
  <2>3. QED
    BY <1>1, <2>2 DEF g
<1>12. FlattenSeq(s) \in Seq(S)
  BY FlattenType
<1>13. QED
  BY <1>2, <1>3, <1>10, <1>11, <1>12 DEF sizes

LEMMA SameTotal ==
  ASSUME NEW S, NEW s \in Seq(Seq(S)), NEW P, NEW t \in Seq(Seq(P)), Len(s) = Len(t),
         \A i \in 1 .. Len(s) : Len(s[i]) = Len(t[i])
  PROVE  Len(FlattenSeq(s)) = Len(FlattenSeq(t))
<1>1. DOMAIN s = 1 .. Len(s) /\ DOMAIN t = 1 .. Len(t)
  OBVIOUS
<1>2. LengthsOf(s) = LengthsOf(t)
  BY <1>1 DEF LengthsOf
<1>3. QED
  BY <1>2, TotalIsLength
\* Block b of file i, where it lies among the blocks of all files.
At(list, i, b) == Len(BlocksBefore(list, i)) + b
CountIn(list, i) == Len(BlocksOf(list[i].content))
PieceLies(list, how, i, b) ==
  LET piece == Pieces(list, how)[At(list, i, b)]
  IN /\ piece.data = BlocksOf(list[i].content)[b] /\ IsSequence(piece.data)
     /\ piece.seq = IF OnDisk(how) THEN b - 1 ELSE DataSeq(i, b - 1)
FileLies(list, how, i) ==
  /\ Len(BlocksBefore(list, i)) \in Nat /\ CountIn(list, i) \in Nat
  /\ Len(BlocksBefore(list, i)) + CountIn(list, i) <= CountOf(list, how)

LEMMA NumberedBlocksAre ==
  ASSUME NEW content, IsSequence(content), NEW entry, NEW how
  PROVE  LET s == NumberedBlocks(entry, content, how)
             blocks == BlocksOf(content)
         IN /\ Len(s) = Len(blocks) /\ Len(blocks) \in Nat
            /\ \A b \in 1 .. Len(blocks) :
                 /\ s[b].data = blocks[b] /\ IsSequence(blocks[b])
                 /\ s[b].seq = IF OnDisk(how) THEN b - 1 ELSE DataSeq(entry, b - 1)
<1> DEFINE s == NumberedBlocks(entry, content, how)
           blocks == BlocksOf(content)
           n == Len(blocks)
           seq(b) == IF OnDisk(how) THEN b - 1 ELSE DataSeq(entry, b - 1)
<1>1. n \in Nat /\ \A b \in 1 .. n : IsSequence(blocks[b])
  BY Blocks
<1>2. s = [b \in 1 .. n |-> [data |-> blocks[b], seq |-> seq(b)]]
  BY DEF NumberedBlocks
<1> HIDE DEF s, blocks, n, seq
<1>3. Len(s) = n /\ \A b \in 1 .. n : s[b].data = blocks[b] /\ s[b].seq = seq(b)
  BY <1>1, <1>2
<1>4. QED
  BY <1>1, <1>3 DEF s, blocks, n, seq

LEMMA EarlierBlocks ==
  ASSUME NEW list \in FileLists, NEW how, NEW parts,
         parts = [i \in DOMAIN list |-> NumberedBlocks(i, list[i].content, how)],
         NEW P, parts \in Seq(Seq(P)), NEW i \in 1 .. Len(list)
  PROVE  Len(FlattenSeq(SubSeq(parts, 1, i - 1))) = Len(BlocksBefore(list, i))
<1> DEFINE s == SubSeq(parts, 1, i - 1)
           t == [j \in 1 .. i - 1 |-> BlocksOf(list[j].content)]
           T == MembersOf(t)
<1>1. DOMAIN list = 1 .. Len(list) /\ Len(list) \in Nat
  BY FilesAreSequences
<1>2. Len(parts) = Len(list) /\ i - 1 \in 0 .. Len(parts) /\ i - 1 \in Nat
  BY <1>1
<1>3. s \in Seq(Seq(P)) /\ Len(s) = i - 1 /\ \A j \in 1 .. i - 1 : s[j] = parts[j]
  BY <1>2, Prefix
<1>4. \A j \in 1 .. Len(list) : IsSequence(list[j].content)
  BY FilesAreSequences
<1>5. IsSequence(t) /\ DOMAIN t = 1 .. i - 1 /\ Len(t) = i - 1
      /\ \A j \in 1 .. i - 1 : t[j] = BlocksOf(list[j].content)
  BY <1>2 DEF IsSequence
<1>6. \A j \in 1 .. i - 1 : /\ IsSequence(t[j])
                            /\ Len(parts[j]) = Len(t[j])
  <2> TAKE j \in 1 .. i - 1
  <2>1. j \in 1 .. Len(list)
    BY <1>1
  <2>2. IsSequence(list[j].content)
    BY <1>4, <2>1
  <2>3. IsSequence(BlocksOf(list[j].content))
    BY <2>2, Blocks
  <2>4. Len(NumberedBlocks(j, list[j].content, how)) = Len(BlocksOf(list[j].content))
    BY <2>2, NumberedBlocksAre
  <2>5. QED
    BY <1>1, <1>5, <2>1, <2>3, <2>4
<1> HIDE DEF s, t
<1>7. t \in Seq(Seq(T))
  BY <1>5, <1>6, Members
<1> HIDE DEF T
<1>8. \A j \in 1 .. Len(s) : Len(s[j]) = Len(t[j])
  BY <1>3, <1>6
<1>9. Len(FlattenSeq(s)) = Len(FlattenSeq(t))
  BY <1>3, <1>5, <1>7, <1>8, SameTotal
<1>10. QED
  BY <1>9 DEF s, t, BlocksBefore

LEMMA EveryPieceLies ==
  ASSUME NEW list \in FileLists, NEW how, how.layout # "solid", NEW i \in 1 .. Len(list)
  PROVE  FileLies(list, how, i) /\ \A b \in 1 .. CountIn(list, i) : PieceLies(list, how, i, b)
<1> DEFINE parts == [j \in DOMAIN list |-> NumberedBlocks(j, list[j].content, how)]
           P == MembersOf(parts)
           all == Pieces(list, how)
           at == Len(FlattenSeq(SubSeq(parts, 1, i - 1)))
           x == NumberedBlocks(i, list[i].content, how)
           n == CountIn(list, i)
<1>1. DOMAIN list = 1 .. Len(list) /\ Len(list) \in Nat
  BY FilesAreSequences
<1>2. all = FlattenSeq(parts)
  BY Zenon DEF Pieces, NumberedBlocks
<1>3. \A j \in DOMAIN list : ArePieces(NumberedBlocks(j, list[j].content, how))
  BY <1>1, FilesAreSequences, PartHasPieces
<1>4. IsSequence(parts) /\ DOMAIN parts = 1 .. Len(list) /\ Len(parts) = Len(list)
      /\ \A j \in 1 .. Len(list) : parts[j] = NumberedBlocks(j, list[j].content, how)
  BY <1>1 DEF IsSequence
<1>5. parts[i] = x
  BY <1>4
<1>6. parts = [j \in DOMAIN list |-> NumberedBlocks(j, list[j].content, how)]
  OBVIOUS
<1> HIDE DEF parts, all
<1>7. parts \in Seq(Seq(P))
  <2>1. \A j \in DOMAIN parts : IsSequence(parts[j])
    BY <1>1, <1>3, <1>4 DEF ArePieces
  <2>2. QED
    BY <1>4, <2>1, Members
<1> HIDE DEF P
<1>8. at = Len(BlocksBefore(list, i))
  BY <1>6, <1>7, EarlierBlocks
<1>9. IsSequence(list[i].content)
  BY FilesAreSequences
<1>10. /\ Len(x) = n /\ n \in Nat
       /\ \A b \in 1 .. n :
            /\ x[b].data = BlocksOf(list[i].content)[b] /\ IsSequence(BlocksOf(list[i].content)[b])
            /\ x[b].seq = IF OnDisk(how) THEN b - 1 ELSE DataSeq(i, b - 1)
  BY <1>9, NumberedBlocksAre DEF CountIn
<1>11. /\ at \in Nat /\ at + Len(parts[i]) <= Len(all)
       /\ \A b \in 1 .. Len(parts[i]) : all[at + b] = parts[i][b]
  <2>1. i \in 1 .. Len(parts)
    BY <1>4
  <2>2. /\ Len(FlattenSeq(SubSeq(parts, 1, i - 1))) \in Nat
        /\ Len(FlattenSeq(SubSeq(parts, 1, i - 1))) + Len(parts[i]) <= Len(FlattenSeq(parts))
        /\ \A b \in 1 .. Len(parts[i]) :
             FlattenSeq(parts)[Len(FlattenSeq(SubSeq(parts, 1, i - 1))) + b] = parts[i][b]
    BY <1>7, <2>1, FlattenAt
  <2>3. QED
    BY <1>2, <2>2
<1> HIDE DEF at, x, n
<1>12. at \in Nat /\ at + n <= Len(all) /\ \A b \in 1 .. n : all[at + b] = x[b]
  BY <1>5, <1>10, <1>11
<1>13. FileLies(list, how, i)
  BY <1>8, <1>10, <1>12 DEF FileLies, CountOf, n, all
<1>14. \A b \in 1 .. n : PieceLies(list, how, i, b)
  <2> TAKE b \in 1 .. n
  <2>1. Pieces(list, how)[At(list, i, b)] = x[b]
    BY <1>8, <1>12 DEF At, all
  <2>2. QED
    BY <1>10, <2>1 DEF PieceLies
<1>15. QED
  BY <1>13, <1>14 DEF n
-----------------------------------------------------------------------------
(* An archive read by its owner, with harm at most to some of its blocks *)

BlockPlaces(list, how) == Base(how) + 1 .. Base(how) + CountOf(list, how)
HasTheSecret(r, how) == Encrypts(how) => r.secret = Secret(FormOf(how.kind), how.value)
IsAround(a, list, how, r, places) ==
  /\ list \in FileLists /\ how \in WriteOptions /\ how.kind \in NativeKinds \cup {"none"}
  /\ OnDisk(how) => Len(list) = 1
  /\ IsAfterDamage(a, Written(list, how)) /\ SameBut(places, a, Written(list, how))
  /\ places \subseteq BlockPlaces(list, how)
  /\ HasTheSecret(r, how)

\* What is left alone: both ends, and every frame that is not a block.
IsKept(a, list, how, places) ==
  LET w == Written(list, how)
      n == Len(w.frames)
  IN /\ n \in Nat \ {0} /\ Len(a.frames) = n /\ DOMAIN a.frames = 1 .. n
     /\ a.header.magic /\ a.header.version /\ a.footer.magic /\ a.footer.version
     /\ a.header.flags = Flags(how) /\ a.header.encOffset = Base(how)
     /\ a.header.commentOffset = (IF HasComment(how) THEN n - 1 ELSE 0)
     /\ a.footer.index = n
     /\ a.footer.total = CountOf(list, how) + Extra(how) + (IF how.layout = "solid" THEN 1 ELSE 0)
     /\ a.trailer = TrailerOf(a.header, a.footer, KeyFor(how))
     /\ a.frames[n] = IndexFrame(list, Base(how), how)
     /\ HasComment(how) => n > 1 /\ a.frames[n - 1] = CommentFrame(how)
     /\ Encrypts(how) => n > 1 /\ a.frames[1] = EncFrame(how)
     /\ CountOf(list, how) \in Nat /\ Base(how) \in {0, 1}
     /\ n = Base(how) + CountOf(list, how) + Extra(how) + 1
     /\ \A k \in 1 .. CountOf(list, how) :
          Base(how) + k \notin places => a.frames[Base(how) + k] = BlockFrames(list, how)[k]

LEMMA AroundKeeps ==
  ASSUME NEW a, NEW list, NEW how, NEW r, NEW places, IsAround(a, list, how, r, places)
  PROVE  IsKept(a, list, how, places)
<1> DEFINE w == Written(list, how)
           n == Len(w.frames)
           count == CountOf(list, how)
<1>1. IsFileOf(w, list, how) /\ AllLies(w, list, how)
  BY FileIsWritten, EverythingLies DEF IsAround
<1>2. /\ a = [w EXCEPT !.frames = a.frames] /\ DOMAIN a.frames = DOMAIN w.frames
      /\ \A p \in DOMAIN w.frames \ places : a.frames[p] = w.frames[p]
      /\ places \subseteq Base(how) + 1 .. Base(how) + count
      /\ Len(a.frames) = n
  BY DEF IsAround, SameBut, BlockPlaces, IsAfterDamage, FromFrames
<1> HIDE DEF w, count
<1>3. a.header = w.header /\ a.footer = w.footer /\ a.trailer = w.trailer
  <2>1. w = [header |-> w.header, frames |-> w.frames, footer |-> w.footer, trailer |-> w.trailer]
    BY <1>1 DEF IsFileOf
  <2> DEFINE f == a.frames
  <2>2. a = [w EXCEPT !.frames = f]
    BY <1>2
  <2> HIDE DEF f
  <2>3. [w EXCEPT !.frames = f].header = w.header /\ [w EXCEPT !.frames = f].footer = w.footer
        /\ [w EXCEPT !.frames = f].trailer = w.trailer
    BY <2>1
  <2>4. QED
    BY <2>2, <2>3
<1>4. /\ w.header.magic = TRUE /\ w.header.version = TRUE
      /\ w.header.flags = Flags(how) /\ w.header.encOffset = Base(how)
      /\ w.header.commentOffset = (IF HasComment(how) THEN n - 1 ELSE 0)
  <2>1. w.header = [magic |-> TRUE, version |-> TRUE, flags |-> Flags(how), encOffset |-> Base(how),
                    commentOffset |-> IF HasComment(how) THEN n - 1 ELSE 0]
    BY <1>1 DEF IsFileOf
  <2>2. QED
    BY <2>1
<1>5. w.footer.magic = TRUE /\ w.footer.version = TRUE /\ w.footer.index = n
  <2>1. w.footer = [magic |-> TRUE, version |-> TRUE, index |-> n, total |-> w.footer.total]
    BY <1>1 DEF IsFileOf
  <2>2. QED
    BY <2>1
<1>6. /\ n \in Nat \ {0} /\ w.trailer = TrailerOf(w.header, w.footer, KeyFor(how))
      /\ w.frames[n] = IndexFrame(list, Base(how), how)
      /\ HasComment(how) => n > 1 /\ w.frames[n - 1] = CommentFrame(how)
  BY <1>1 DEF IsFileOf
<1>7. /\ count \in Nat /\ Base(how) \in {0, 1} /\ n = Base(how) + count + Extra(how) + 1
      /\ DOMAIN w.frames = 1 .. n
      /\ Encrypts(how) => w.frames[1] = EncFrame(how)
      /\ \A k \in 1 .. count : w.frames[Base(how) + k] = BlockFrames(list, how)[k]
      /\ w.footer.total = count + Extra(how) + (IF how.layout = "solid" THEN 1 ELSE 0)
  BY <1>1 DEF AllLies, count
<1>8. Extra(how) \in {0, 1} /\ (HasComment(how) => Extra(how) = 1) /\ (Encrypts(how) => Base(how) = 1)
  BY DEF Extra, Base
<1> HIDE DEF n
<1>9. \A p \in 1 .. n : ~ (p \in Base(how) + 1 .. Base(how) + count) => a.frames[p] = w.frames[p]
  BY <1>2, <1>7
<1>10. a.frames[n] = w.frames[n]
  BY <1>6, <1>7, <1>8, <1>9
<1>11. HasComment(how) => a.frames[n - 1] = w.frames[n - 1]
  <2>1. HasComment(how) => n - 1 \in 1 .. n /\ n - 1 > Base(how) + count
    BY <1>6, <1>7, <1>8
  <2>2. QED
    BY <1>7, <1>9, <2>1
<1>12. Encrypts(how) => n > 1 /\ a.frames[1] = w.frames[1]
  BY <1>6, <1>7, <1>8, <1>9
<1>13. \A k \in 1 .. count : Base(how) + k \notin places => a.frames[Base(how) + k] = w.frames[Base(how) + k]
  BY <1>2, <1>7, <1>8
<1>14. Len(a.frames) = n /\ DOMAIN a.frames = 1 .. n
  BY <1>2, <1>7 DEF n
<1>15. QED
  BY <1>3, <1>4, <1>5, <1>6, <1>7, <1>10, <1>11, <1>12, <1>13, <1>14 DEF IsKept, w, n, count
\* What the flags say of everything the readers ask.
LEMMA FlagsOfTheOptions ==
  ASSUME NEW a, NEW how \in WriteOptions, a.header.flags = Flags(how)
  PROVE  /\ Flag(a, "ENCRYPTED") <=> Encrypts(how)
         /\ Flag(a, "DEDUP") <=> References(how)
         /\ Aad(a) <=> Encrypts(how) /\ ~ Old(how)
         /\ Authenticated(a) <=> References(how) /\ Encrypts(how) /\ ~ Old(how)
         /\ OldDedup(a) <=> Old(how) /\ Encrypts(how) /\ References(how)
         /\ FlagsError(a) = "OK"
<1>1. how.layout \in {"flat", "solid", "disk", "old disk"}
  BY CallsAssumption
<1>2. /\ Flag(a, "ENCRYPTED") <=> Encrypts(how)
      /\ Flag(a, "AAD_SEQ") <=> Encrypts(how)
      /\ Flag(a, "DEDUP") <=> References(how)
      /\ Flag(a, "AAD_PREFACE") <=> Encrypts(how) /\ ~ Old(how)
      /\ Flag(a, "AUTH_DEDUP_REFS") <=> References(how) /\ Encrypts(how) /\ ~ Old(how)
      /\ Flag(a, "DISK_IMAGE") <=> OnDisk(how)
      /\ Flag(a, "DISK_CONTENT_HASH") <=> how.layout = "disk"
  BY DEF Flag, Flags, When
<1>3. OldDisk(a) <=> Old(how)
  BY <1>1, <1>2 DEF OldDisk, OnDisk, Old
<1>4. OldDedup(a) <=> Old(how) /\ Encrypts(how) /\ References(how)
  BY <1>2, <1>3 DEF OldDedup, Flag
<1>5. FlagsError(a) = "OK"
  <2>1. Requires(a, "AUTH_DEDUP_REFS", {"ENCRYPTED", "DEDUP", "AAD_SEQ", "AAD_PREFACE"}) = "OK"
    BY <1>2 DEF Requires, Check, Flag
  <2>2. Requires(a, "AAD_PREFACE", {"ENCRYPTED", "AAD_SEQ"}) = "OK"
    BY <1>2 DEF Requires, Check, Flag
  <2>3. Requires(a, "DISK_CONTENT_HASH", {"DISK_IMAGE"}) = "OK"
    BY <1>1, <1>2 DEF Requires, Check, Flag, OnDisk
  <2>4. QED
    BY <2>1, <2>2, <2>3 DEF FlagsError, ??
<1>6. QED
  BY <1>2, <1>4, <1>5 DEF Aad, Authenticated

\* The frame of an encrypted archive that says how its key is made.
EncFrameReads(frame, how) ==
  EncFrameError(frame) = "OK" /\ frame.intact /\ frame.pay.data[1].kind = how.kind

LEMMA EncFrameIsRead ==
  ASSUME NEW how
  PROVE  EncFrameReads(EncFrame(how), how)
<1> DEFINE key == Key(how.kind, how.value)
           frame == EncFrame(how)
           data == << key >>
<1>1. frame = Frame("ENC_HEADER", "STORE", data)
  BY DEF EncFrame
<1>2. data[1] = key /\ key.kind = how.kind
  BY DEF Key
<1> HIDE DEF data, frame, key
<1>3. /\ frame.intact /\ ~ frame.sealed /\ frame.type = "ENC_HEADER"
      /\ frame.codec = (IF data \in Incompressible THEN "STORE" ELSE "STORE")
      /\ frame.size = Len(data) /\ frame.sum = data /\ frame.pay.data = data
  BY <1>1, FrameFields
<1>4. EncFrameError(frame) = "OK"
  BY <1>3 DEF EncFrameError, Check, ??
<1>5. EncFrameReads(frame, how)
  BY <1>2, <1>3, <1>4 DEF EncFrameReads
<1>6. QED
  BY <1>5 DEF frame

\* Who reads it with the right secret has the key it was written with.
LEMMA OwnerGetsTheKey ==
  ASSUME NEW a, NEW list, NEW how, NEW r, NEW places, IsAround(a, list, how, r, places)
  PROVE  EncHeaderError(a, r) = "OK" /\ KeyOf(a, r) = KeyFor(how)
<1> DEFINE n == Len(a.frames)
<1>1. /\ n \in Nat \ {0} /\ DOMAIN a.frames = 1 .. n
      /\ a.header.flags = Flags(how) /\ a.header.encOffset = Base(how)
      /\ Encrypts(how) => n > 1 /\ a.frames[1] = EncFrame(how)
  BY AroundKeeps DEF IsKept
<1>2. how \in WriteOptions /\ how.kind \in NativeKinds \cup {"none"}
      /\ (Encrypts(how) => r.secret = Secret(FormOf(how.kind), how.value))
  BY DEF IsAround, HasTheSecret
<1>3. Flag(a, "ENCRYPTED") <=> Encrypts(how)
  BY <1>1, <1>2, FlagsOfTheOptions
<1>4. CASE ~ Encrypts(how)
  BY <1>3, <1>4 DEF EncHeaderError, KeyOf, KeyFor
<1>5. CASE Encrypts(how)
  <2>1. EncFrameReads(a.frames[1], how)
    BY <1>1, <1>5, EncFrameIsRead
  <2>2. a.header.encOffset = 1 /\ EndOfFile(a) = n + 2
    BY <1>1, <1>5 DEF Base, EndOfFile
  <2> HIDE DEF n
  <2>3. ReadError(a, 1) = "OK"
    BY <1>1, <1>5, <2>1, <2>2 DEF ReadError, Check, ??, EncFrameReads
  <2>4. Kind(a) = how.kind
    BY <2>1, <2>2 DEF Kind, EncFrameReads
  <2>5. r.secret.form = FormOf(how.kind) /\ r.secret.value = how.value
    BY <1>2, <1>5 DEF Secret
  <2>6. how.kind \in NativeKinds
    BY <1>2, <1>5 DEF Encrypts
  <2>7. SecretError(Kind(a), r) = "OK"
    BY <2>4, <2>5, <2>6 DEF SecretError, Check
  <2>8. EncFrameError(a.frames[1]) = "OK"
    BY <2>1 DEF EncFrameReads
  <2>9. Check(a.header.encOffset <= EndOfFile(a), "CORRUPT") = "OK"
    BY <1>1, <2>2 DEF Check
  <2>10. EncHeaderError(a, r) = "OK"
    BY <2>2, <2>3, <2>7, <2>8, <2>9 DEF EncHeaderError, ??
  <2>11. KeyOf(a, r) = KeyFor(how)
    BY <1>3, <1>5, <2>4, <2>5 DEF KeyOf, KeyFor
  <2>12. QED
    BY <2>10, <2>11
<1>6. QED
  BY <1>4, <1>5
\* Its comment and its index are read with that key.
LEMMA CommentReads ==
  ASSUME NEW how \in WriteOptions, how.kind \in NativeKinds \cup {"none"}, HasComment(how),
         NEW aad, aad <=> Encrypts(how) /\ ~ Old(how)
  PROVE  Gives(CommentFrame(how), "COMMENT", how.comment, KeyFor(how), CommentSeq, aad)
<1> DEFINE key == KeyFor(how)
           data == how.comment
<1>1. key # NoKey <=> Encrypts(how)
  BY KeyIsSomething
<1>2. ~ Old(how)
  BY DEF HasComment, Old, OnDisk
<1>3. IsSequence(data)
  BY CallsAssumption
<1>4. "STORE" \in Codecs
  BY DEF Codecs
<1>5. CommentFrame(how) = Sealed(Frame("COMMENT", "STORE", data), key, CommentSeq)
  BY Zenon DEF CommentFrame, Sealed
<1> HIDE DEF key, data
<1>6. aad <=> key # NoKey
  BY <1>1, <1>2
<1>7. Gives(Sealed(Frame("COMMENT", "STORE", data), key, CommentSeq), "COMMENT", data, key,
            CommentSeq, aad)
  BY <1>3, <1>4, <1>6, FrameReads
<1>8. QED
  BY <1>5, <1>7 DEF key, data

IndexKey(how) == IF Old(how) THEN NoKey ELSE KeyFor(how)
LEMMA IndexIsRead ==
  ASSUME NEW list \in FileLists, NEW how, how.kind \in NativeKinds \cup {"none"},
         NEW aad, aad <=> Encrypts(how) /\ ~ Old(how)
  PROVE  Gives(IndexFrame(list, Base(how), how), "INDEX", IndexData(list, Base(how), how),
               IndexKey(how), IndexSeq, aad)
<1> DEFINE key == IndexKey(how)
           data == IndexData(list, Base(how), how)
           codec == IF OnDisk(how) THEN "STORE" ELSE "LZH"
<1>1. IndexFrame(list, Base(how), how) = Sealed(Frame("INDEX", codec, data), key, IndexSeq)
  BY Zenon DEF IndexFrame, Sealed, IndexKey
<1>2. IsSequence(data)
  BY IndexIs
<1>3. codec \in Codecs
  BY DEF Codecs
<1>4. key # NoKey <=> Encrypts(how) /\ ~ Old(how)
  BY KeyIsSomething DEF IndexKey
<1> HIDE DEF key, data, codec
<1>5. aad <=> key # NoKey
  BY <1>4
<1>6. Gives(Sealed(Frame("INDEX", codec, data), key, IndexSeq), "INDEX", data, key, IndexSeq, aad)
  BY <1>2, <1>3, <1>5, FrameReads
<1>7. QED
  BY <1>1, <1>6 DEF key, data

LEMMA HeadOfTheIndex ==
  ASSUME NEW list \in FileLists, NEW how
  PROVE  LET data == IndexData(list, Base(how), how)
         IN /\ data # << >> /\ data[1].count = Len(list)
            /\ data[1].form = IF Old(how) THEN "fixed" ELSE "varint"
<1> DEFINE head == [form |-> IF Old(how) THEN "fixed" ELSE "varint", count |-> Len(list)]
           entries == EntriesOf(list, how)
           data == IndexData(list, Base(how), how)
<1>1. DOMAIN list = 1 .. Len(list) /\ Len(list) \in Nat
  BY FilesAreSequences
<1>2. data = << head >> \o entries
  BY Zenon DEF IndexData, EntriesOf
<1>3. IsSequence(entries) /\ IsSequence(<< head >>)
  BY <1>1 DEF EntriesOf, IsSequence
<1>4. Len(<< head >>) = 1 /\ << head >>[1] = head
  OBVIOUS
<1>5. head.count = Len(list) /\ head.form = IF Old(how) THEN "fixed" ELSE "varint"
  OBVIOUS
<1> HIDE DEF entries, data, head
<1>6. data[1] = head /\ Len(data) = 1 + Len(entries) /\ Len(entries) \in Nat
  <2>1. /\ Len(<< head >> \o entries) = Len(<< head >>) + Len(entries)
        /\ \A i \in 1 .. Len(<< head >>) : (<< head >> \o entries)[i] = << head >>[i]
    BY <1>3, Concatenated
  <2>2. Len(entries) \in Nat
    BY <1>3 DEF IsSequence
  <2>3. QED
    BY <1>2, <1>4, <2>1, <2>2
<1>7. data # << >>
  BY <1>6
<1>8. QED
  BY <1>5, <1>6, <1>7 DEF data

\* It opens.
LEMMA OwnerOpens ==
  ASSUME NEW a, NEW list, NEW how, NEW r, NEW places, IsAround(a, list, how, r, places)
  PROVE  OpenError(a, r) = "OK"
<1> DEFINE n == Len(a.frames)
           p == a.header.commentOffset
           key == KeyFor(how)
           aad == Aad(a)
           index == IndexFrame(list, Base(how), how)
           data == IndexData(list, Base(how), how)
<1>1. /\ n \in Nat \ {0} /\ DOMAIN a.frames = 1 .. n
      /\ a.header.magic /\ a.header.version /\ a.footer.magic /\ a.footer.version
      /\ a.header.flags = Flags(how)
      /\ p = (IF HasComment(how) THEN n - 1 ELSE 0)
      /\ a.footer.index = n
      /\ a.trailer = TrailerOf(a.header, a.footer, key)
      /\ a.frames[n] = index
      /\ HasComment(how) => n > 1 /\ a.frames[n - 1] = CommentFrame(how)
  BY AroundKeeps DEF IsKept
<1>2. /\ how \in WriteOptions /\ how.kind \in NativeKinds \cup {"none"} /\ list \in FileLists
      /\ OnDisk(how) => Len(list) = 1
  BY DEF IsAround
<1>3. /\ aad <=> Encrypts(how) /\ ~ Old(how)
      /\ FlagsError(a) = "OK"
      /\ OldDisk(a) <=> Old(how)
  BY <1>1, <1>2, FlagsOfTheOptions, FlagsOfTheLayout
<1>4. EncHeaderError(a, r) = "OK" /\ KeyOf(a, r) = key
  BY OwnerGetsTheKey
<1>5. EndOfFile(a) = n + 2
  BY DEF EndOfFile
<1>6. Gives(index, "INDEX", data, IndexKey(how), IndexSeq, aad)
  <2>1. \A bound : (bound <=> Encrypts(how) /\ ~ Old(how))
                   => Gives(index, "INDEX", data, IndexKey(how), IndexSeq, bound)
    BY <1>2, IndexIsRead
  <2> HIDE DEF index, data, aad
  <2>2. QED
    BY <1>3, <2>1, Zenon
<1>7. HasComment(how) => Gives(CommentFrame(how), "COMMENT", how.comment, key, CommentSeq, aad)
  <2>1. HasComment(how) =>
          \A bound : (bound <=> Encrypts(how) /\ ~ Old(how))
                     => Gives(CommentFrame(how), "COMMENT", how.comment, key, CommentSeq, bound)
    BY <1>2, CommentReads
  <2> HIDE DEF aad, key
  <2>2. QED
    BY <1>3, <2>1, Zenon
<1>8. /\ data # << >> /\ data[1].count = Len(list)
      /\ data[1].form = IF Old(how) THEN "fixed" ELSE "varint"
  BY <1>2, HeadOfTheIndex
<1>9. OldDisk(a) => Len(list) = 1
  BY <1>2, <1>3 DEF Old, OnDisk
<1>10. (IF OldDisk(a) THEN NoKey ELSE key) = IndexKey(how)
  BY <1>3 DEF IndexKey
<1> HIDE DEF n, p, key, aad, index, data
<1>11. TrailerError(a, key) = "OK"
  BY <1>1 DEF TrailerError, TrailerOf, Check
<1>12. CommentError(a, key) = "OK"
  <2>1. CASE ~ HasComment(how)
    BY <1>1, <2>1 DEF CommentError, p
  <2>2. CASE HasComment(how)
    <3> DEFINE frame == a.frames[p]
    <3>1. p = n - 1 /\ p \in 1 .. n /\ p # 0 /\ p # n + 2 /\ frame = CommentFrame(how)
      BY <1>1, <2>2
    <3>2. /\ frame.intact /\ frame.type = "COMMENT" /\ frame.size = Len(how.comment)
          /\ BlockError(frame, key, CommentSeq, aad) = "OK"
      BY <1>7, <2>2, <3>1 DEF Gives
    <3>3. frame.size \in 1 .. MaxComment
      <4>1. IsSequence(how.comment) /\ how.comment # << >> /\ Len(how.comment) < MaxComment
        BY <1>2, <2>2, CallsAssumption DEF HasComment
      <4>2. Len(how.comment) \in Nat \ {0}
        BY <4>1 DEF IsSequence
      <4>3. MaxComment \in Nat
        BY FormatAssumption
      <4>4. QED
        BY <3>2, <4>1, <4>2, <4>3
    <3>4. ReadError(a, p) = "OK"
      BY <1>1, <1>5, <3>1, <3>2 DEF ReadError, Check, ??
    <3>5. QED
      BY <3>1, <3>2, <3>3, <3>4 DEF CommentError, Check, ??, p, aad
  <2>3. QED
    BY <2>1, <2>2
<1>13. IndexError(a, key) = "OK"
  <2>1. /\ index.intact /\ index.type = "INDEX" /\ Decoded(index) = data
        /\ BlockError(index, IndexKey(how), IndexSeq, aad) = "OK"
    BY <1>6 DEF Gives
  <2>2. ReadError(a, n) = "OK"
    BY <1>1, <1>5, <2>1 DEF ReadError, Check, ??
  <2>3. ParseError(a, data) = "OK"
    BY <1>3, <1>8, <1>9 DEF ParseError, Check, ??
  <2>4. Check(n <= EndOfFile(a), "CORRUPT") = "OK"
    BY <1>1, <1>5 DEF Check
  <2>5. QED
    BY <1>1, <1>10, <2>1, <2>2, <2>3, <2>4 DEF IndexError, Check, ??, aad
<1>14. MetadataError(a, key) = "OK"
  BY <1>11, <1>12, <1>13 DEF MetadataError, ??
<1>15. HeaderError(a) = "OK" /\ FooterError(a) = "OK"
  BY <1>1 DEF HeaderError, FooterError, Check, ??
<1>16. a.trailer.present = TRUE
  BY <1>1 DEF TrailerOf
<1>17. Check(a.trailer.present \/ r.legacy, "AUTH_FAIL") = "OK"
  BY <1>16 DEF Check
<1>18. QED
  BY <1>3, <1>4, <1>14, <1>15, <1>17 DEF OpenError, ??
\* What an opening of it finds is what opening finds of any archive.
LEMMA OwnerHasItOpen ==
  ASSUME NEW a, NEW list, NEW how, NEW r, NEW places, IsAround(a, list, how, r, places)
  PROVE  IsOpened(a, Written(list, how), list, how, r)
<1> DEFINE w == Written(list, how)
<1>1. list \in FileLists /\ how \in WriteOptions /\ IsAfterDamage(a, w)
  BY DEF IsAround
<1>2. IsFileOf(w, list, how)
  BY <1>1, FileIsWritten
<1>3. OpenError(a, r) = "OK"
  BY OwnerOpens
<1> HIDE DEF w
<1>4. IsOpened(a, w, list, how, r)
  BY <1>1, <1>2, <1>3 DEF IsOpened
<1>5. QED
  BY <1>4 DEF w

\* A block that was not harmed: its data, or a reference to the first block that is equal.
First(list, how, k) == FirstEqual(Pieces(list, how), k)
Refers(list, how, k) == References(how) /\ First(list, how, k) < k
IsPlaced(a, list, how, k) ==
  LET pieces == Pieces(list, how)
      frame == a.frames[Base(how) + k]
      f == First(list, how, k)
  IN /\ Refers(list, how, k) => frame = RefFrame(pieces[k], Base(how) + f, pieces[f], how)
     /\ ~ Refers(list, how, k) => frame = DataFrame(pieces[k], how)

LEMMA BlockIsPlaced ==
  ASSUME NEW a, NEW list, NEW how, NEW r, NEW places, IsAround(a, list, how, r, places),
         NEW k \in 1 .. CountOf(list, how), Base(how) + k \notin places
  PROVE  /\ IsPlaced(a, list, how, k) /\ IsSequence(Pieces(list, how)[k].data)
         /\ Base(how) + k \in 1 .. Len(a.frames)
<1> DEFINE pieces == Pieces(list, how)
           n == CountOf(list, how)
<1>1. /\ a.frames[Base(how) + k] = BlockFrames(list, how)[k]
      /\ n \in Nat /\ Base(how) \in {0, 1} /\ Len(a.frames) = Base(how) + n + Extra(how) + 1
  BY AroundKeeps DEF IsKept
<1>2. IsSequence(pieces) /\ \A j \in DOMAIN pieces : IsSequence(pieces[j].data)
  BY PiecesAreBlocks DEF IsAround, ArePieces, IsPiece
<1>3. DOMAIN pieces = 1 .. n
  BY <1>2, IsSequenceInSeq DEF CountOf
<1>4. k \in DOMAIN pieces
  BY <1>3
<1>5. Extra(how) \in Nat
  BY DEF Extra
<1>6. Base(how) + k \in 1 .. Len(a.frames)
  <2>1. k \in 1 .. n
    OBVIOUS
  <2> HIDE DEF n
  <2>2. QED
    BY <1>1, <1>5, <2>1
<1> HIDE DEF n
<1>7. BlockFrames(list, how)[k]
      = IF Refers(list, how, k)
        THEN RefFrame(pieces[k], Base(how) + First(list, how, k), pieces[First(list, how, k)], how)
        ELSE DataFrame(pieces[k], how)
  <2>1. BlockFrames(list, how)
        = [j \in DOMAIN pieces |->
             IF References(how) /\ FirstEqual(pieces, j) < j
             THEN RefFrame(pieces[j], Base(how) + FirstEqual(pieces, j), pieces[FirstEqual(pieces, j)], how)
             ELSE DataFrame(pieces[j], how)]
    BY Zenon DEF BlockFrames, DataFrames
  <2> HIDE DEF pieces
  <2>2. BlockFrames(list, how)[k]
        = IF References(how) /\ FirstEqual(pieces, k) < k
          THEN RefFrame(pieces[k], Base(how) + FirstEqual(pieces, k), pieces[FirstEqual(pieces, k)], how)
          ELSE DataFrame(pieces[k], how)
    BY <1>4, <2>1
  <2>3. First(list, how, k) = FirstEqual(pieces, k)
        /\ (Refers(list, how, k) <=> References(how) /\ FirstEqual(pieces, k) < k)
    BY DEF First, Refers, pieces
  <2>4. QED
    BY <2>2, <2>3
<1>8. IsPlaced(a, list, how, k)
  BY <1>1, <1>7 DEF IsPlaced, pieces
<1>9. QED
  BY <1>2, <1>4, <1>6, <1>8

\* Where the first equal block is there lies data.
LEMMA FirstIsData ==
  ASSUME NEW list \in FileLists, NEW how, NEW k \in 1 .. CountOf(list, how)
  PROVE  LET pieces == Pieces(list, how)
             f == First(list, how, k)
         IN /\ f \in 1 .. CountOf(list, how) /\ f <= k /\ pieces[f].data = pieces[k].data
            /\ ~ Refers(list, how, f)
<1> DEFINE pieces == Pieces(list, how)
           f == First(list, how, k)
<1>1. Len(pieces) \in Nat
  BY PiecesAreBlocks DEF ArePieces, IsSequence
<1>2. f = FirstEqual(pieces, k) /\ k \in 1 .. Len(pieces)
  BY DEF First, CountOf
<1>3. /\ f \in 1 .. Len(pieces) /\ f <= k /\ pieces[f].data = pieces[k].data
      /\ FirstEqual(pieces, f) = f
  <2> HIDE DEF pieces, f
  <2>1. QED
    BY <1>1, <1>2, FirstOfItsKind
<1>4. ~ Refers(list, how, f)
  BY <1>3 DEF Refers, First
<1>5. QED
  BY <1>3, <1>4 DEF CountOf

LEMMA PlacedDataReads ==
  ASSUME NEW a, NEW list, NEW how, NEW r, NEW places, IsAround(a, list, how, r, places),
         NEW k \in 1 .. CountOf(list, how), Base(how) + k \notin places, ~ Refers(list, how, k),
         NEW seq, Encrypts(how) => seq = Pieces(list, how)[k].seq
  PROVE  Gives(a.frames[Base(how) + k], "DATA", Pieces(list, how)[k].data, KeyFor(how), seq, Aad(a))
<1> DEFINE piece == Pieces(list, how)[k]
           frame == a.frames[Base(how) + k]
<1>1. frame = DataFrame(piece, how) /\ IsSequence(piece.data)
  BY BlockIsPlaced DEF IsPlaced
<1>2. how.kind \in NativeKinds \cup {"none"} /\ how \in WriteOptions
  BY DEF IsAround
<1>3. how.codec \in Codecs
  BY <1>2, CallsAssumption
<1>4. a.header.flags = Flags(how)
  BY AroundKeeps DEF IsKept
<1>5. Aad(a) <=> Encrypts(how) /\ ~ Old(how)
  BY <1>2, <1>4, FlagsOfTheOptions
<1> HIDE DEF frame, piece
<1>6. \A aad : (aad <=> Encrypts(how) /\ ~ Old(how))
               => Gives(DataFrame(piece, how), "DATA", piece.data, KeyFor(how), seq, aad)
  BY <1>1, <1>2, <1>3, DataFrameReads DEF piece
<1>7. Gives(DataFrame(piece, how), "DATA", piece.data, KeyFor(how), seq, Aad(a))
  BY <1>5, <1>6, Zenon
<1>8. QED
  BY <1>1, <1>7 DEF frame, piece

LEMMA PlacedReferenceReads ==
  ASSUME NEW a, NEW list, NEW how, NEW r, NEW places, IsAround(a, list, how, r, places),
         NEW k \in 1 .. CountOf(list, how), Base(how) + k \notin places, Refers(list, how, k)
  PROVE  LET pieces == Pieces(list, how)
             f == First(list, how, k)
         IN RefersTo(a, a.frames[Base(how) + k], pieces[k].data, pieces[k].seq, Base(how) + f,
                     pieces[f].seq, KeyFor(how))
<1> DEFINE f == First(list, how, k)
           piece == Pieces(list, how)[k]
           goal == Pieces(list, how)[f]
           frame == a.frames[Base(how) + k]
           offset == Base(how) + f
<1>1. frame = RefFrame(piece, offset, goal, how) /\ IsSequence(piece.data)
  BY BlockIsPlaced DEF IsPlaced
<1>2. how.kind \in NativeKinds \cup {"none"} /\ how \in WriteOptions /\ list \in FileLists
  BY DEF IsAround
<1>3. a.header.flags = Flags(how)
  BY AroundKeeps DEF IsKept
<1>4. References(how)
  BY DEF Refers
<1>5. /\ Aad(a) <=> Encrypts(how) /\ ~ Old(how)
      /\ Authenticated(a) <=> Encrypts(how) /\ ~ Old(how)
  BY <1>2, <1>3, <1>4, FlagsOfTheOptions
<1>6. offset \in Nat
  <2>1. f \in 1 .. CountOf(list, how)
    BY <1>2, FirstIsData
  <2>2. Base(how) \in {0, 1}
    BY DEF Base
  <2> HIDE DEF f
  <2>3. QED
    BY <2>1, <2>2
<1> HIDE DEF frame, piece, goal, offset, f
<1>7. RefersTo(a, RefFrame(piece, offset, goal, how), piece.data, piece.seq, offset, goal.seq,
               KeyFor(how))
  BY <1>1, <1>2, <1>5, <1>6, ReferenceReads
<1>8. QED
  BY <1>1, <1>7 DEF frame, piece, goal, offset, f
\* Where the blocks of a file lie, and with which sequence number they are read.
BlockOf(list, how, i, b) == Base(how) + At(list, i, b)
SeqAt(list, how, i, b) == Pieces(list, how)[At(list, i, b)].seq
EntryLies(entry, list, how, i) ==
  /\ entry.offset = Base(how) + Len(BlocksBefore(list, i)) + 1
  /\ entry.count = CountIn(list, i) /\ CountIn(list, i) \in Nat
  /\ \A b \in 1 .. CountIn(list, i) :
       /\ At(list, i, b) \in 1 .. CountOf(list, how)
       /\ entry.offset + (b - 1) = BlockOf(list, how, i, b)
       /\ Pieces(list, how)[At(list, i, b)].data = BlocksOf(list[i].content)[b]

LEMMA EntryIsPlaced ==
  ASSUME NEW list \in FileLists, NEW how, how.layout # "solid", NEW i \in 1 .. Len(list)
  PROVE  EntryLies(EntriesOf(list, how)[i], list, how, i)
<1> DEFINE entry == EntriesOf(list, how)[i]
           content == list[i].content
           prior == Len(BlocksBefore(list, i))
           count == CountIn(list, i)
           n == CountOf(list, how)
<1>1. i \in DOMAIN list
  BY FilesAreSequences
<1>2. entry = [path |-> list[i].path, size |-> Len(content),
               hash |-> IF Old(how) THEN << >> ELSE BlocksOf(content),
               offset |-> Base(how) + Len(BlocksBefore(list, i)) + 1,
               count |-> Len(BlocksOf(content))]
  <2>1. entry = EntryOf(list, i, Base(how), how)
    BY <1>1 DEF EntriesOf
  <2>2. QED
    BY <2>1, Zenon DEF EntryOf, Entry
<1> HIDE DEF entry
<1>3. entry.offset = Base(how) + prior + 1 /\ entry.count = count
  BY <1>2 DEF CountIn
<1>4. FileLies(list, how, i) /\ \A b \in 1 .. count : PieceLies(list, how, i, b)
  BY EveryPieceLies
<1>5. prior \in Nat /\ count \in Nat /\ prior + count <= n
  BY <1>4 DEF FileLies
<1>6. Base(how) \in {0, 1}
  BY DEF Base
<1>7. n \in Nat
  BY PiecesAreBlocks DEF CountOf, ArePieces, IsSequence
<1>8. \A b \in 1 .. count : At(list, i, b) = prior + b
  BY DEF At
<1> HIDE DEF prior, count, n, content
<1>9. \A b \in 1 .. count :
        /\ At(list, i, b) \in 1 .. n
        /\ entry.offset + (b - 1) = BlockOf(list, how, i, b)
  <2> TAKE b \in 1 .. count
  <2>1. At(list, i, b) = prior + b
    BY <1>8
  <2>2. prior + b \in 1 .. n
    BY <1>5, <1>7
  <2> DEFINE base == Base(how)
  <2>3. base \in Nat /\ prior \in Nat /\ b \in Nat
    BY <1>5, <1>6
  <2>4. BlockOf(list, how, i, b) = base + (prior + b)
    BY <2>1, Zenon DEF BlockOf
  <2>5. entry.offset = base + prior + 1
    BY <1>3, Zenon
  <2> HIDE DEF base
  <2>6. base + prior + 1 + (b - 1) = base + (prior + b)
    BY <2>3
  <2>7. entry.offset + (b - 1) = BlockOf(list, how, i, b)
    BY <2>4, <2>5, <2>6, Zenon
  <2> QED
    BY <2>1, <2>2, <2>7, Zenon
<1>10. \A b \in 1 .. count : Pieces(list, how)[At(list, i, b)].data = BlocksOf(list[i].content)[b]
  BY <1>4 DEF PieceLies
<1>11. QED
  BY <1>3, <1>5, <1>9, <1>10 DEF EntryLies, prior, count, n, entry

LEMMA ReadersNumber ==
  ASSUME NEW a, NEW list \in FileLists, NEW how \in WriteOptions, how.layout # "solid",
         a.header.flags = Flags(how), Encrypts(how),
         NEW i \in 1 .. Len(list), NEW b \in 1 .. CountIn(list, i)
  PROVE  ReaderSeq(a.header.flags, i, b - 1) = SeqAt(list, how, i, b)
<1>1. how.layout \in {"flat", "solid", "disk", "old disk"}
  BY CallsAssumption
<1>2. /\ Flag(a, "DISK_IMAGE") <=> OnDisk(how)
      /\ Flag(a, "DEDUP") <=> References(how)
      /\ Authenticated(a) <=> References(how) /\ ~ Old(how)
  BY FlagsOfTheOptions, FlagsOfTheLayout
<1>3. SeqAt(list, how, i, b) = IF OnDisk(how) THEN b - 1 ELSE DataSeq(i, b - 1)
  BY EveryPieceLies DEF PieceLies, SeqAt
<1>4. Old(how) => OnDisk(how)
  BY DEF Old, OnDisk
<1>5. QED
  BY <1>2, <1>3, <1>4 DEF ReaderSeq, Flag, Authenticated

\* Neither the block nor the one it refers to is among the places.
IsApart(list, how, k, places) ==
  /\ Base(how) + k \notin places
  /\ Refers(list, how, k) => Base(how) + First(list, how, k) \notin places

\* A reference to it carries the number it was sealed with, or its place says so.
LEMMA TargetsNumber ==
  ASSUME NEW a, NEW list, NEW how, NEW r, NEW places, IsAround(a, list, how, r, places),
         how.layout # "solid", NEW i \in 1 .. Len(list), NEW b \in 1 .. CountIn(list, i),
         NEW frame, frame.pay.data[1] = Base(how) + First(list, how, At(list, i, b)),
         Authenticated(a) =>
           frame.pay.data[2] = Pieces(list, how)[First(list, how, At(list, i, b))].seq,
         References(how), Encrypts(how)
  PROVE  TargetSeq(a, EntriesOf(list, how)[i], frame)
         = Pieces(list, how)[First(list, how, At(list, i, b))].seq
<1> DEFINE entry == EntriesOf(list, how)[i]
           k == At(list, i, b)
           f == First(list, how, k)
           goal == Pieces(list, how)[f]
<1>1. list \in FileLists /\ how \in WriteOptions
  BY DEF IsAround
<1>2. a.header.flags = Flags(how)
  BY AroundKeeps DEF IsKept
<1>3. /\ Authenticated(a) <=> ~ Old(how)
      /\ OldDedup(a) <=> Old(how)
  BY <1>1, <1>2, FlagsOfTheOptions
<1>4. CASE ~ Old(how)
  BY <1>3, <1>4 DEF TargetSeq
<1>5. CASE Old(how)
  <2>1. OnDisk(how)
    BY <1>5 DEF Old, OnDisk
  <2>2. Len(list) = 1 /\ i = 1
    BY <2>1 DEF IsAround
  <2>3. EntryLies(entry, list, how, i)
    BY <1>1, EntryIsPlaced
  <2>4. Len(BlocksBefore(list, i)) = 0
    <3>1. [j \in 1 .. i - 1 |-> BlocksOf(list[j].content)] = << >>
      BY <2>2
    <3>2. BlocksBefore(list, i) = << >>
      BY <3>1, FlattenEmpty, Zenon DEF BlocksBefore
    <3>3. QED
      BY <3>2
  <2>5. k = b /\ entry.offset = Base(how) + 1 /\ k \in 1 .. CountOf(list, how)
        /\ CountIn(list, i) \in Nat
    <3>1. /\ entry.offset = Base(how) + Len(BlocksBefore(list, i)) + 1
          /\ k \in 1 .. CountOf(list, how) /\ CountIn(list, i) \in Nat
      BY <2>3 DEF EntryLies
    <3>2. k = Len(BlocksBefore(list, i)) + b
      BY DEF At
    <3>3. Base(how) \in {0, 1}
      BY DEF Base
    <3>4. b \in Nat
      BY <3>1
    <3> HIDE DEF k, entry
    <3>5. QED
      BY <2>4, <3>1, <3>2, <3>3, <3>4
  <2>6. f \in 1 .. CountOf(list, how) /\ f <= k
    BY <1>1, <2>5, FirstIsData
  <2>7. f \in 1 .. CountIn(list, i)
    BY <2>5, <2>6
  <2>8. At(list, i, f) = f
    BY <2>4, <2>7 DEF At
  <2>9. goal.seq = f - 1
    <3>1. PieceLies(list, how, i, f)
      BY <1>1, <2>7, EveryPieceLies
    <3>2. QED
      BY <2>1, <2>8, <3>1 DEF PieceLies
  <2>10. TargetSeq(a, entry, frame) = (Base(how) + f) - (Base(how) + 1)
    BY <1>3, <1>5, <2>5 DEF TargetSeq
  <2>11. Base(how) \in {0, 1}
    BY DEF Base
  <2> HIDE DEF entry, k, f, goal
  <2>12. (Base(how) + f) - (Base(how) + 1) = f - 1
    BY <2>6, <2>11
  <2>13. TargetSeq(a, entry, frame) = goal.seq
    BY <2>9, <2>10, <2>12
  <2>14. QED
    BY <2>13 DEF entry, goal, f, k
<1>6. QED
  BY <1>4, <1>5
\* Every block of a file is read back.
LEMMA BlockReads ==
  ASSUME NEW a, NEW list, NEW how, NEW r, NEW places, IsAround(a, list, how, r, places),
         how.layout # "solid", NEW i \in 1 .. Len(list), NEW b \in 1 .. CountIn(list, i),
         IsApart(list, how, At(list, i, b), places)
  PROVE  Block(a, EntriesOf(list, how)[i], i, b - 1, KeyFor(how))
         = Result("OK", BlocksOf(list[i].content)[b])
<1> DEFINE entry == EntriesOf(list, how)[i]
           key == KeyFor(how)
           k == At(list, i, b)
           f == First(list, how, k)
           place == Base(how) + k
           offset == Base(how) + f
           frame == a.frames[place]
           referred == a.frames[offset]
           data == BlocksOf(list[i].content)[b]
           seq == ReaderSeq(a.header.flags, i, b - 1)
           other == TargetSeq(a, entry, frame)
           n == CountOf(list, how)
           aad == Aad(a)
<1>1. list \in FileLists /\ how \in WriteOptions /\ how.kind \in NativeKinds \cup {"none"}
  BY DEF IsAround
<1>2. a.header.flags = Flags(how)
  BY AroundKeeps DEF IsKept
<1>3. /\ Authenticated(a) <=> References(how) /\ Encrypts(how) /\ ~ Old(how)
      /\ OldDedup(a) <=> Old(how) /\ Encrypts(how) /\ References(how)
  BY <1>1, <1>2, FlagsOfTheOptions
<1>4. EntryLies(entry, list, how, i)
  BY <1>1, EntryIsPlaced
<1>5. /\ k \in 1 .. n /\ entry.offset + (b - 1) = place
      /\ Pieces(list, how)[k].data = data
      /\ entry.count = CountIn(list, i) /\ CountIn(list, i) \in Nat
  BY <1>4 DEF EntryLies, BlockOf
<1>6. place \notin places /\ (Refers(list, how, k) => offset \notin places)
  BY DEF IsApart
<1>7. place \in 1 .. Len(a.frames)
  BY <1>5, <1>6, BlockIsPlaced
<1>8. Encrypts(how) => seq = Pieces(list, how)[k].seq
  <2>1. Encrypts(how) => seq = SeqAt(list, how, i, b)
    BY <1>1, <1>2, ReadersNumber
  <2>2. QED
    BY <2>1 DEF SeqAt
<1>9. Len(a.frames) \in Nat /\ DOMAIN a.frames = 1 .. Len(a.frames) /\ EndOfFile(a) = Len(a.frames) + 2
  BY AroundKeeps DEF IsKept, EndOfFile
<1>10. ASSUME NEW p \in 1 .. Len(a.frames), a.frames[p].intact
       PROVE  ReadError(a, p) = "OK"
  BY <1>9, <1>10 DEF ReadError, Check, ??
<1>11. CASE ~ Refers(list, how, k)
  <2>1. Gives(frame, "DATA", data, key, seq, aad)
    <3>1. \A s : (Encrypts(how) => s = Pieces(list, how)[k].seq)
                 => Gives(frame, "DATA", Pieces(list, how)[k].data, key, s, aad)
      BY <1>5, <1>6, <1>11, PlacedDataReads
    <3> HIDE DEF frame, data, key, seq, aad, k
    <3>2. QED
      BY <1>5, <1>8, <3>1, Zenon
  <2> HIDE DEF entry, key, place, frame, data, seq, aad
  <2>2. /\ frame.intact /\ frame.type = "DATA" /\ Decoded(frame) = data
        /\ BlockError(frame, key, seq, aad) = "OK"
    BY <2>1 DEF Gives
  <2>3. ReadError(a, place) = "OK"
    BY <1>7, <1>10, <2>2 DEF frame
  <2>4. Block(a, entry, i, b - 1, key) = Result("OK", data)
    BY <1>5, <2>2, <2>3 DEF Block, ??, frame, seq, aad
  <2>5. QED
    BY <2>4 DEF entry, key, data
<1>12. CASE Refers(list, how, k)
  <2>1. References(how)
    BY <1>12 DEF Refers
  <2>2. /\ f \in 1 .. n /\ f <= k /\ Pieces(list, how)[f].data = Pieces(list, how)[k].data
        /\ ~ Refers(list, how, f)
    BY <1>1, <1>5, FirstIsData
  <2>3. Pieces(list, how)[f].data = data
    BY <1>5, <2>2
  <2>4. RefersTo(a, frame, data, Pieces(list, how)[k].seq, offset, Pieces(list, how)[f].seq, key)
    BY <1>5, <1>6, <1>12, PlacedReferenceReads
  <2>5. offset \notin places /\ offset \in 1 .. Len(a.frames)
    BY <1>6, <1>12, <2>2, BlockIsPlaced
  <2>6. offset <= place
    <3>1. Base(how) \in {0, 1}
      BY DEF Base
    <3>2. n \in Nat
      BY <1>1, PiecesAreBlocks DEF CountOf, ArePieces, IsSequence
    <3> HIDE DEF f, k, n
    <3>3. QED
      BY <1>5, <2>2, <3>1, <3>2
  <2>7. frame.pay.data[1] = offset
        /\ (Authenticated(a) => frame.pay.data[2] = Pieces(list, how)[f].seq)
    BY <2>4 DEF RefersTo
  <2>8. Encrypts(how) => other = Pieces(list, how)[f].seq
    <3> HIDE DEF frame
    <3>1. QED
      BY <2>1, <2>7, TargetsNumber
  <2>9. Gives(referred, "DATA", data, key, other, aad)
    <3>1. \A s : (Encrypts(how) => s = Pieces(list, how)[f].seq)
                 => Gives(referred, "DATA", Pieces(list, how)[f].data, key, s, aad)
      BY <2>2, <2>5, PlacedDataReads
    <3> HIDE DEF referred, data, key, other, aad, f
    <3>2. QED
      BY <2>3, <2>8, <3>1, Zenon
  <2> DEFINE own == Pieces(list, how)[k].seq
  <2>10. OldDedup(a) => offset \in DataPlaces(a, entry)
    <3> SUFFICES ASSUME OldDedup(a) PROVE offset \in DataPlaces(a, entry)
      OBVIOUS
    <3>1. OnDisk(how)
      BY <1>3 DEF Old, OnDisk
    <3>2. Len(list) = 1 /\ i = 1
      <4>1. Len(list) = 1
        BY <3>1, Zenon DEF IsAround
      <4>2. i \in 1 .. Len(list)
        OBVIOUS
      <4>3. QED
        BY <4>1, <4>2
    <3>3. Len(BlocksBefore(list, i)) = 0
      <4>1. [j \in 1 .. i - 1 |-> BlocksOf(list[j].content)] = << >>
        BY <3>2
      <4>2. BlocksBefore(list, i) = << >>
        BY <4>1, FlattenEmpty, Zenon DEF BlocksBefore
      <4>3. QED
        BY <4>2
    <3>4. entry.offset = Base(how) + Len(BlocksBefore(list, i)) + 1
      BY <1>4 DEF EntryLies
    <3>5. k = Len(BlocksBefore(list, i)) + b
      BY DEF At
    <3>6. Base(how) \in {0, 1} /\ b \in Nat /\ b <= entry.count /\ entry.count \in Nat
      <4>1. b \in 1 .. CountIn(list, i)
        OBVIOUS
      <4>2. QED
        BY <1>5, <4>1 DEF Base
    <3>7. referred.type = "DATA"
      BY <2>9 DEF Gives
    <3> HIDE DEF k, entry, f, referred
    <3>8. f \in Nat /\ f >= 1 /\ f <= b
      BY <2>2, <3>3, <3>5, <3>6
    <3>9. offset \in Places(entry)
      BY <3>3, <3>4, <3>6, <3>8 DEF Places
    <3>10. QED
      BY <3>7, <3>9 DEF DataPlaces, referred
  <2> HIDE DEF entry, key, place, frame, data, seq, aad, referred, offset, other, own
  <2>11. /\ frame.intact /\ frame.type = "DEDUP_REF" /\ frame.size = Len(data) /\ frame.sum = data
         /\ frame.pay.data[1] = offset /\ ReferenceError(a, frame, key, own) = "OK"
    BY <2>4 DEF RefersTo, own, frame, data, offset, key
  <2>12. ReferenceError(a, frame, key, seq) = "OK"
    <3>1. CASE Encrypts(how)
      BY <1>8, <2>11, <3>1 DEF own
    <3>2. CASE ~ Encrypts(how)
      <4>1. ~ Authenticated(a)
        BY <1>3, <3>2
      <4>2. QED
        BY <2>11, <4>1 DEF ReferenceError
    <3>3. QED
      BY <3>1, <3>2
  <2>13. /\ referred.intact /\ referred.type = "DATA" /\ referred.size = Len(data)
         /\ referred.sum = data /\ Decoded(referred) = data
         /\ BlockError(referred, key, other, aad) = "OK"
    BY <2>9 DEF Gives
  <2>14. ReadError(a, place) = "OK" /\ ReadError(a, offset) = "OK"
    BY <1>7, <1>10, <2>5, <2>11, <2>13 DEF frame, referred
  <2>15. TargetError(a, entry, place, key) = "OK"
    BY <2>6, <2>10, <2>11, <2>13, <2>14
       DEF TargetError, TargetSeqError, PointsBack, Check, ??, frame, referred, other, aad
  <2>16. Block(a, entry, i, b - 1, key) = Result("OK", data)
    BY <1>5, <2>11, <2>12, <2>13, <2>14, <2>15 DEF Block, ??, frame, referred, seq, aad
  <2>17. QED
    BY <2>16 DEF entry, key, data
<1>13. QED
  BY <1>11, <1>12
\* A file whose blocks were not harmed, nor those they refer to, is read back whole.
EntryIsApart(list, how, i, places) ==
  \A b \in 1 .. CountIn(list, i) : IsApart(list, how, At(list, i, b), places)

LEMMA EntryReads ==
  ASSUME NEW a, NEW list, NEW how, NEW r, NEW places, IsAround(a, list, how, r, places),
         how.layout # "solid", NEW i \in 1 .. Len(list), EntryIsApart(list, how, i, places)
  PROVE  EntryResult(a, i, EntriesOf(list, how)[i], KeyFor(how)) = Result("OK", list[i].content)
<1> DEFINE entry == EntriesOf(list, how)[i]
           key == KeyFor(how)
           content == list[i].content
           all == BlocksOf(content)
           n == Len(all)
           block(b) == Block(a, entry, i, b - 1, key)
           blocks == [b \in 1 .. n |-> block(b)]
           parts == [b \in DOMAIN blocks |-> blocks[b].data]
           faults == [b \in DOMAIN blocks |-> blocks[b].error]
<1>1. list \in FileLists /\ how \in WriteOptions /\ i \in DOMAIN list
  BY FilesAreSequences DEF IsAround
<1>2. /\ IsSequence(content) /\ entry.size = Len(content) /\ entry.count = n
      /\ ~ Old(how) => entry.hash = all
  BY <1>1, EntryIs
<1>3. /\ n \in Nat /\ DOMAIN all = 1 .. n /\ IsSequence(all)
      /\ \A b \in 1 .. n : Len(all[b]) \in 1 .. BlockSize
      /\ Len(content) \in Nat
  BY <1>2, Blocks DEF IsSequence
<1>4. FlattenSeq(all) = content
  BY <1>2, BlocksMakeTheContent
<1>5. \A b \in 1 .. n : block(b) = Result("OK", all[b])
  <2> TAKE b \in 1 .. n
  <2>1. b \in 1 .. CountIn(list, i)
    BY DEF CountIn
  <2>2. IsApart(list, how, At(list, i, b), places)
    BY <2>1 DEF EntryIsApart
  <2>3. QED
    BY <2>1, <2>2, BlockReads
<1>6. OldDisk(a) <=> Old(how)
  <2>1. a.header.flags = Flags(how)
    BY AroundKeeps DEF IsKept
  <2>2. QED
    BY <1>1, <2>1, FlagsOfTheLayout
<1> HIDE DEF entry, key, block
<1>7. EntryResult(a, i, entry, key)
      = Result(FirstError(faults)
               ?? Check(Len(FlattenSeq(parts)) = entry.size /\ HashHolds(a, entry, parts),
                        "BAD_CHECKSUM"),
               FlattenSeq(parts))
  BY <1>2 DEF EntryResult, block
<1>8. \A b \in 1 .. n : block(b).error = "OK" /\ block(b).data = all[b]
  BY <1>5 DEF Result
<1> HIDE DEF n
<1>9. parts = all
  <2>1. parts = [b \in 1 .. n |-> block(b).data]
    OBVIOUS
  <2>2. all = [b \in 1 .. n |-> all[b]]
    BY <1>3 DEF IsSequence, n
  <2> HIDE DEF parts, all
  <2>3. QED
    BY <1>8, <2>1, <2>2
<1>10. FirstError(faults) = "OK"
  <2>1. faults = [b \in 1 .. n |-> block(b).error]
    OBVIOUS
  <2>2. Len(faults) = n
    BY <1>3, <2>1
  <2>3. \A j \in 1 .. Len(faults) : faults[j] = "OK"
    BY <1>8, <2>1, <2>2
  <2> HIDE DEF faults
  <2>4. QED
    BY <2>3, AllWell
<1> HIDE DEF parts, faults
<1>11. WithData(all) = all
  <2>1. all \in Seq(Range(all))
    BY <1>3, IsSequenceInSeq
  <2>2. \A b \in 1 .. Len(all) : all[b] # << >>
    BY <1>3 DEF n
  <2> HIDE DEF all
  <2>3. QED
    BY <2>1, <2>2, AllHoldData
<1> HIDE DEF all, content
<1>12. HashHolds(a, entry, parts) /\ Len(FlattenSeq(parts)) = entry.size
  BY <1>2, <1>4, <1>6, <1>9, <1>11 DEF HashHolds, HashRequired
<1>13. EntryResult(a, i, entry, key) = Result("OK", content)
  BY <1>4, <1>7, <1>9, <1>10, <1>12 DEF Check, ??
<1>14. QED
  BY <1>13 DEF entry, key, content

\* An old disk's map of sequence numbers is made of its own frames.
LEMMA MapIsMade ==
  ASSUME NEW a, NEW list, NEW how, NEW r, NEW places, IsAround(a, list, how, r, places),
         places = {} \/ ~ Old(how)
  PROVE  AadMapError(a, EntriesOf(list, how)) = "OK"
<1> DEFINE entries == EntriesOf(list, how)
<1>1. list \in FileLists /\ how \in WriteOptions /\ a.header.flags = Flags(how)
  BY AroundKeeps DEF IsAround, IsKept
<1>2. OldDedup(a) => Old(how) /\ References(how)
  BY <1>1, FlagsOfTheOptions
<1>3. CASE ~ OldDedup(a)
  BY <1>3 DEF AadMapError
<1>4. CASE OldDedup(a)
  <2>1. Old(how) /\ OnDisk(how) /\ how.layout # "solid" /\ places = {}
    BY <1>2, <1>4 DEF Old, OnDisk
  <2>2. Len(list) = 1
    BY <2>1, Zenon DEF IsAround
  <2>3. DOMAIN list = 1 .. 1 /\ 1 \in 1 .. Len(list)
    BY <1>1, <2>2, FilesAreSequences
  <2>4. Len(entries) = 1
    BY <2>3 DEF EntriesOf
  <2> DEFINE entry == entries[1]
             place(b) == entry.offset + b - 1
             fault(b) == ReadError(a, place(b))
                         ?? Check(a.frames[place(b)].type \in {"DATA", "DEDUP_REF"}, "CORRUPT")
             faults == [b \in 1 .. entry.count |-> fault(b)]
  <2>5. EntryLies(entry, list, how, 1)
    BY <1>1, <2>1, <2>3, EntryIsPlaced
  <2> HIDE DEF entry
  <2>6. entry.count = CountIn(list, 1) /\ CountIn(list, 1) \in Nat
    BY <2>5 DEF EntryLies
  <2>7. ASSUME NEW b \in 1 .. CountIn(list, 1)
        PROVE  fault(b) = "OK"
    <3> DEFINE k == At(list, 1, b)
               p == Base(how) + k
    <3>1. k \in 1 .. CountOf(list, how) /\ entry.offset + (b - 1) = p
      BY <2>5 DEF EntryLies, BlockOf
    <3>2. place(b) = p
      <4>1. b \in Nat
        BY <2>6
      <4>2. entry.offset \in Nat
        <5>1. FileLies(list, how, 1)
          BY <1>1, <2>1, <2>3, EveryPieceLies
        <5>2. Base(how) \in {0, 1} /\ Len(BlocksBefore(list, 1)) \in Nat
          BY <5>1 DEF FileLies, Base
        <5>3. entry.offset = Base(how) + Len(BlocksBefore(list, 1)) + 1
          BY <2>5 DEF EntryLies
        <5>4. QED
          BY <5>2, <5>3
      <4> HIDE DEF p
      <4>3. QED
        BY <3>1, <4>1, <4>2
    <3>3. p \in 1 .. Len(a.frames)
      BY <2>1, <3>1, BlockIsPlaced
    <3>4. a.frames[p].intact /\ a.frames[p].type \in {"DATA", "DEDUP_REF"}
      <4>1. CASE Refers(list, how, k)
        BY <2>1, <3>1, <4>1, PlacedReferenceReads DEF RefersTo
      <4>2. CASE ~ Refers(list, how, k)
        <5>1. \A s : (Encrypts(how) => s = Pieces(list, how)[k].seq)
                     => Gives(a.frames[p], "DATA", Pieces(list, how)[k].data, KeyFor(how), s, Aad(a))
          BY <2>1, <3>1, <4>2, PlacedDataReads
        <5>2. Gives(a.frames[p], "DATA", Pieces(list, how)[k].data, KeyFor(how),
                    Pieces(list, how)[k].seq, Aad(a))
          BY <5>1, Zenon
        <5>3. QED
          BY <5>2 DEF Gives
      <4>3. QED
        BY <4>1, <4>2
    <3>5. ReadError(a, p) = "OK"
      <4>1. Len(a.frames) \in Nat /\ DOMAIN a.frames = 1 .. Len(a.frames)
        BY AroundKeeps DEF IsKept
      <4> HIDE DEF p
      <4>2. QED
        BY <3>3, <3>4, <4>1 DEF ReadError, Check, ??, EndOfFile
    <3> HIDE DEF p, place
    <3>6. QED
      BY <3>2, <3>4, <3>5 DEF Check, ??
  <2> HIDE DEF fault
  <2>8. FirstError(faults) = "OK"
    <3>1. Len(faults) = CountIn(list, 1)
      BY <2>6
    <3>2. \A j \in 1 .. Len(faults) : faults[j] = "OK"
      BY <2>6, <2>7, <3>1
    <3> HIDE DEF faults
    <3>3. QED
      BY <3>2, AllWell
  <2>9. AadMapError(a, entries) = Check(Len(entries) = 1, "CORRUPT") ?? FirstError(faults)
    BY <1>4, Zenon DEF AadMapError, entry, fault
  <2>10. QED
    BY <2>4, <2>8, <2>9 DEF Check, ??
<1>5. QED
  BY <1>3, <1>4
\* The stream of a solid archive.
StreamOf(list) == FlattenSeq(ContentsIn(list))
ErrorIn(a, key, p, b) ==
  ReadError(a, p) ?? Check(a.frames[p].type = "DATA", "CORRUPT")
                  ?? BlockError(a.frames[p], key, SolidSeq(b - 1), Aad(a))

LEMMA StreamIsWhole ==
  ASSUME NEW list \in FileLists
  PROVE  /\ IsSequence(StreamOf(list)) /\ Len(StreamOf(list)) = SizeOf(list)
         /\ SizeOf(list) \in Nat
<1> DEFINE s == ContentsIn(list)
           U == MembersOf(s)
<1>1. s \in Seq(Seq(U))
  BY ContentsAreSequences
<1>2. LengthsOf(s) = [i \in DOMAIN list |-> Len(list[i].content)]
  BY DEF LengthsOf, ContentsIn
<1> HIDE DEF s, U
<1>3. FlattenSeq(s) \in Seq(U)
  BY <1>1, FlattenType
<1>4. Total(LengthsOf(s)) = Len(FlattenSeq(s)) /\ Len(FlattenSeq(s)) \in Nat
  BY <1>1, TotalIsLength
<1>5. IsSequence(FlattenSeq(s))
  BY <1>3, SeqIsSequence
<1>6. QED
  BY <1>2, <1>4, <1>5 DEF StreamOf, SizeOf, s

\* Its entries add up to it.
LEMMA EntriesAddUp ==
  ASSUME NEW list \in FileLists, NEW how
  PROVE  StreamSize(EntriesOf(list, how)) = SizeOf(list)
<1> DEFINE entries == EntriesOf(list, how)
<1>1. DOMAIN entries = DOMAIN list
  BY DEF EntriesOf
<1>2. \A i \in DOMAIN list : entries[i].size = Len(list[i].content)
  BY EntryIs
<1> HIDE DEF entries
<1>3. [i \in DOMAIN entries |-> entries[i].size] = [i \in DOMAIN list |-> Len(list[i].content)]
  BY <1>1, <1>2
<1>4. StreamSize(entries) = SizeOf(list)
  BY <1>3 DEF StreamSize, SizeOf
<1>5. QED
  BY <1>4 DEF entries

\* Its blocks are those of the stream, numbered through.
LEMMA SolidPieces ==
  ASSUME NEW list \in FileLists, NEW how, how.layout = "solid"
  PROVE  LET pieces == Pieces(list, how)
             blocks == BlocksOf(StreamOf(list))
         IN /\ CountOf(list, how) = Len(blocks) /\ Len(blocks) \in Nat
            /\ \A b \in 1 .. Len(blocks) :
                 /\ pieces[b].data = blocks[b] /\ IsSequence(blocks[b])
                 /\ pieces[b].seq = SolidSeq(b - 1) /\ ~ Refers(list, how, b)
<1> DEFINE whole == StreamOf(list)
           blocks == BlocksOf(whole)
           s == NumberedBlocks(1, whole, how)
<1>1. IsSequence(whole)
  BY StreamIsWhole
<1>2. Pieces(list, how) = s
  <2>1. [i \in DOMAIN list |-> list[i].content] = ContentsIn(list)
    BY DEF ContentsIn
  <2>2. QED
    BY <2>1, Zenon DEF Pieces, NumberedBlocks, StreamOf
<1>3. ~ OnDisk(how) /\ ~ References(how)
  BY DEF OnDisk, References
<1>4. /\ Len(s) = Len(blocks) /\ Len(blocks) \in Nat
      /\ \A b \in 1 .. Len(blocks) :
           /\ s[b].data = blocks[b] /\ IsSequence(blocks[b])
           /\ s[b].seq = IF OnDisk(how) THEN b - 1 ELSE DataSeq(1, b - 1)
  <2> HIDE DEF whole
  <2>1. QED
    BY <1>1, NumberedBlocksAre
<1> HIDE DEF s, blocks, whole
<1>5. QED
  BY <1>2, <1>3, <1>4 DEF CountOf, SolidSeq, Refers, blocks, whole

LEMMA StreamReads ==
  ASSUME NEW a, NEW list, NEW how, NEW r, NEW places, IsAround(a, list, how, r, places),
         how.layout = "solid", places = {}
  PROVE  SolidStream(a, EntriesOf(list, how), KeyFor(how)) = Result("OK", StreamOf(list))
<1> DEFINE entries == EntriesOf(list, how)
           key == KeyFor(how)
           whole == StreamOf(list)
           blocks == BlocksOf(whole)
           n == Len(blocks)
           base == Base(how)
           start == IF Flag(a, "ENCRYPTED") THEN 2 ELSE 1
           end == StreamEnd(a)
           at == [b \in 1 .. end - start |-> start + b - 1]
           fault(b) == ErrorIn(a, key, at[b], b)
           faults == [b \in DOMAIN at |-> fault(b)]
           failed == FirstError(faults)
           parts == [b \in DOMAIN at |-> Decoded(a.frames[at[b]])]
           stream == FlattenSeq(parts)
           others == IF a.header.commentOffset # 0 THEN 2 ELSE 1
<1>1. list \in FileLists /\ how \in WriteOptions
  BY DEF IsAround
<1>2. /\ a.header.flags = Flags(how)
      /\ a.header.commentOffset = (IF HasComment(how) THEN Len(a.frames) - 1 ELSE 0)
      /\ a.footer.index = Len(a.frames)
      /\ a.footer.total = CountOf(list, how) + Extra(how) + 1
      /\ HasComment(how) => Len(a.frames) > 1
      /\ base \in {0, 1} /\ Len(a.frames) = base + CountOf(list, how) + Extra(how) + 1
      /\ Len(a.frames) \in Nat /\ DOMAIN a.frames = 1 .. Len(a.frames)
  BY AroundKeeps DEF IsKept
<1>3. CountOf(list, how) = n /\ n \in Nat
      /\ \A b \in 1 .. n : /\ Pieces(list, how)[b].data = blocks[b] /\ IsSequence(blocks[b])
                           /\ Pieces(list, how)[b].seq = SolidSeq(b - 1) /\ ~ Refers(list, how, b)
  BY <1>1, SolidPieces
<1>4. Flag(a, "ENCRYPTED") <=> Encrypts(how)
  BY <1>1, <1>2, FlagsOfTheOptions
<1>5. start = base + 1
  BY <1>4 DEF Base
<1>6. end = base + n + 1 /\ others = Extra(how) + 1
  <2> DEFINE m == Len(a.frames)
  <2>1. /\ HasComment(how) => a.header.commentOffset = m - 1 /\ m > 1 /\ Extra(how) = 1
        /\ ~ HasComment(how) => a.header.commentOffset = 0 /\ Extra(how) = 0
        /\ m = base + n + Extra(how) + 1 /\ m \in Nat
    BY <1>2, <1>3 DEF Extra
  <2>2. end = IF a.header.commentOffset # 0 THEN a.header.commentOffset ELSE m
    BY <1>2 DEF StreamEnd
  <2> HIDE DEF m, end, n, base
  <2>3. HasComment(how) \in BOOLEAN
    BY DEF HasComment
  <2>4. CASE HasComment(how)
    <3>1. a.header.commentOffset # 0 /\ end = m - 1
      BY <2>1, <2>2, <2>4
    <3>2. end = base + n + 1
      BY <1>2, <1>3, <2>1, <2>4, <3>1 DEF n, base
    <3>3. QED
      BY <2>1, <2>4, <3>1, <3>2
  <2>5. CASE ~ HasComment(how)
    BY <2>1, <2>2, <2>5, <1>2, <1>3 DEF n, base
  <2>6. QED
    BY <2>4, <2>5
<1>7. SolidStream(a, entries, key)
      = IF start > end \/ failed # "OK" THEN Result("CORRUPT", << >>)
        ELSE Result(Check(Len(stream) = StreamSize(entries) /\ Len(at) + others = a.footer.total,
                          "CORRUPT"), stream)
  BY Zenon DEF SolidStream, ErrorIn
<1>8. \A b \in 1 .. n :
        /\ Gives(a.frames[base + b], "DATA", blocks[b], key, SolidSeq(b - 1), Aad(a))
        /\ base + b \in 1 .. Len(a.frames)
  <2> TAKE b \in 1 .. n
  <2>1. b \in 1 .. CountOf(list, how) /\ ~ Refers(list, how, b)
        /\ Pieces(list, how)[b].data = blocks[b] /\ Pieces(list, how)[b].seq = SolidSeq(b - 1)
    BY <1>3
  <2>2. \A s : (Encrypts(how) => s = Pieces(list, how)[b].seq)
               => Gives(a.frames[Base(how) + b], "DATA", Pieces(list, how)[b].data, key, s, Aad(a))
    <3> HIDE DEF n, blocks
    <3>1. Base(how) + b \notin places /\ IsAround(a, list, how, r, places)
      OBVIOUS
    <3>2. QED
      BY <2>1, <3>1, PlacedDataReads
  <2>3. base + b \in 1 .. Len(a.frames)
    BY <2>1, BlockIsPlaced
  <2> HIDE DEF blocks, key
  <2>4. QED
    BY <2>1, <2>2, <2>3, Zenon
<1>9. whole = FlattenSeq(blocks) /\ Len(whole) = SizeOf(list)
  BY <1>1, StreamIsWhole, BlocksMakeTheContent
<1>10. StreamSize(entries) = SizeOf(list)
  BY <1>1, EntriesAddUp
<1>11. IsSequence(blocks)
  BY <1>1, StreamIsWhole, Blocks
<1> HIDE DEF entries, key, whole, base, start, end, others
<1>12. at = [b \in 1 .. n |-> base + b]
  <2> HIDE DEF n
  <2>1. end - start = n
    BY <1>2, <1>3, <1>5, <1>6
  <2>2. \A b \in 1 .. n : start + b - 1 = base + b
    BY <1>2, <1>3, <1>5
  <2>3. QED
    BY <2>1, <2>2
<1> HIDE DEF n, at
<1>13. DOMAIN at = 1 .. n /\ Len(at) = n /\ \A b \in 1 .. n : at[b] = base + b
  BY <1>3, <1>12
<1>14. failed = "OK"
  <2>1. \A b \in 1 .. n : fault(b) = "OK"
    <3> TAKE b \in 1 .. n
    <3> DEFINE frame == a.frames[base + b]
    <3>1. Gives(frame, "DATA", blocks[b], key, SolidSeq(b - 1), Aad(a)) /\ base + b \in 1 .. Len(a.frames)
      BY <1>8
    <3> HIDE DEF frame
    <3>2. frame.intact /\ frame.type = "DATA" /\ BlockError(frame, key, SolidSeq(b - 1), Aad(a)) = "OK"
      BY <3>1 DEF Gives
    <3>3. ReadError(a, base + b) = "OK"
      BY <1>2, <3>1, <3>2 DEF ReadError, EndOfFile, Check, ??, frame
    <3>4. QED
      BY <1>13, <3>2, <3>3 DEF ErrorIn, Check, ??, frame
  <2> HIDE DEF fault
  <2>2. Len(faults) = n /\ \A b \in 1 .. n : faults[b] = "OK"
    BY <1>3, <1>13, <2>1
  <2> HIDE DEF faults
  <2>3. QED
    BY <2>2, AllWell
<1>15. parts = blocks
  <2>1. \A b \in 1 .. n : Decoded(a.frames[at[b]]) = blocks[b]
    BY <1>8, <1>13 DEF Gives
  <2>2. blocks = [b \in 1 .. n |-> blocks[b]]
    BY <1>11 DEF IsSequence, n
  <2> HIDE DEF blocks
  <2>3. QED
    BY <1>13, <2>1, <2>2
<1> HIDE DEF parts, failed, blocks
<1>16. stream = whole
  BY <1>9, <1>15
<1>17. ~ start > end
  BY <1>2, <1>3, <1>5, <1>6
<1>18. Len(at) + others = a.footer.total
  <2>1. Extra(how) \in Nat
    BY DEF Extra
  <2>2. QED
    BY <1>2, <1>3, <1>6, <1>13, <2>1
<1>19. Len(stream) = StreamSize(entries)
  BY <1>9, <1>10, <1>16
<1>20. SolidStream(a, entries, key) = Result("OK", whole)
  BY <1>7, <1>14, <1>16, <1>17, <1>18, <1>19 DEF Check
<1>21. QED
  BY <1>20 DEF entries, key, whole
\* A file is where its entry says in the stream.
LEMMA SolidEntryReads ==
  ASSUME NEW list \in FileLists, NEW how, how.layout = "solid", NEW i \in 1 .. Len(list)
  PROVE  SolidFile(EntriesOf(list, how)[i], StreamOf(list)) = Result("OK", list[i].content)
<1> DEFINE s == ContentsIn(list)
           U == MembersOf(s)
           whole == StreamOf(list)
           entry == EntriesOf(list, how)[i]
           content == list[i].content
           at == Len(Before(list, i))
<1>1. DOMAIN list = 1 .. Len(list) /\ Len(list) \in Nat /\ i \in DOMAIN list
  BY FilesAreSequences
<1>2. s \in Seq(Seq(U)) /\ Len(s) = Len(list) /\ \A j \in 1 .. Len(list) : s[j] = list[j].content
  BY <1>1, ContentsAreSequences DEF ContentsIn
<1>3. Before(list, i) = FlattenSeq(SubSeq(s, 1, i - 1))
  <2> DEFINE t == [j \in 1 .. i - 1 |-> list[j].content]
  <2>1. i - 1 \in 0 .. Len(s) /\ i - 1 \in Nat
    BY <1>1, <1>2
  <2> HIDE DEF s
  <2>2. /\ SubSeq(s, 1, i - 1) \in Seq(Seq(U)) /\ Len(SubSeq(s, 1, i - 1)) = i - 1
        /\ \A j \in 1 .. i - 1 : SubSeq(s, 1, i - 1)[j] = s[j]
    BY <1>2, <2>1, Prefix
  <2>3. SubSeq(s, 1, i - 1) = t
    <3> DEFINE u == SubSeq(s, 1, i - 1)
    <3>1. u = [j \in 1 .. i - 1 |-> u[j]]
      <4> HIDE DEF u
      <4>1. u \in Seq(Seq(U)) /\ Len(u) = i - 1
        BY <2>2 DEF u
      <4>2. QED
        BY <4>1
    <3>2. \A j \in 1 .. i - 1 : u[j] = list[j].content
      BY <1>1, <1>2, <2>1, <2>2
    <3> HIDE DEF u
    <3>3. u = t
      BY <3>1, <3>2
    <3>4. QED
      BY <3>3 DEF u
  <2>4. QED
    BY <2>3 DEF Before
<1>4. entry.size = Len(content) /\ entry.hash = content /\ entry.offset = at
  BY <1>1, EntryIs
<1>5. whole = FlattenSeq(s)
  BY DEF StreamOf
<1>6. s[i] = content /\ i \in 1 .. Len(s)
  BY <1>2
<1> HIDE DEF s, U, whole, entry, content
<1>7. /\ Len(FlattenSeq(SubSeq(s, 1, i - 1))) \in Nat
      /\ Len(FlattenSeq(SubSeq(s, 1, i - 1))) + Len(s[i]) <= Len(FlattenSeq(s))
      /\ SubSeq(FlattenSeq(s), Len(FlattenSeq(SubSeq(s, 1, i - 1))) + 1,
                Len(FlattenSeq(SubSeq(s, 1, i - 1))) + Len(s[i])) = s[i]
  BY <1>2, <1>6, FlattenAt
<1>8. at \in Nat /\ at + Len(content) <= Len(whole) /\ SubSeq(whole, at + 1, at + Len(content)) = content
  BY <1>3, <1>5, <1>6, <1>7
<1> HIDE DEF at
<1>9. SolidFile(entry, whole) = Result("OK", content)
  BY <1>4, <1>8 DEF SolidFile, SolidEntry, Check, ??
<1>10. QED
  BY <1>9 DEF entry, whole, content

-----------------------------------------------------------------------------
(* All of it *)

IsRead(contents, list) ==
  /\ contents.error = "OK" /\ DOMAIN contents.entries = DOMAIN list
  /\ \A i \in DOMAIN list : contents.entries[i] = Result("OK", list[i].content)

LEMMA OwnerReadsAll ==
  ASSUME NEW a, NEW list, NEW how, NEW r, IsAround(a, list, how, r, {}),
         how.layout = "solid" => SizeOf(list) <= SolidLimit
  PROVE  IsRead(ContentsRead(a, r), list)
<1> DEFINE entries == Entries(a)
           key == KeyOf(a, r)
           stream == SolidStream(a, entries, key)
           contents == ContentsRead(a, r)
<1>1. list \in FileLists /\ how \in WriteOptions
  BY DEF IsAround
<1>2. DOMAIN list = 1 .. Len(list)
  BY <1>1, FilesAreSequences
<1>3. IsOpened(a, Written(list, how), list, how, r)
  BY OwnerHasItOpen
<1>4. entries = EntriesOf(list, how)
  BY <1>3, OpensWithItsIndex DEF IsOpened
<1>5. DOMAIN entries = DOMAIN list
  BY <1>4 DEF EntriesOf
<1>6. key = KeyFor(how)
  BY OwnerGetsTheKey
<1>7. Flag(a, "SOLID") <=> how.layout = "solid"
  <2>1. a.header.flags = Flags(how)
    BY AroundKeeps DEF IsKept
  <2>2. QED
    BY <1>1, <2>1, FlagsOfTheLayout
<1>8. CASE how.layout = "solid"
  <2>1. stream = Result("OK", StreamOf(list))
    BY <1>4, <1>6, <1>8, StreamReads
  <2>2. StreamSize(entries) <= SolidLimit
    BY <1>1, <1>4, <1>8, EntriesAddUp
  <2> HIDE DEF entries, key, stream
  <2>3. stream.error = "OK" /\ stream.data = StreamOf(list)
    BY <2>1 DEF Result
  <2>4. contents = [error |-> "OK", entries |-> [i \in DOMAIN entries |-> SolidFile(entries[i], stream.data)]]
    BY <1>7, <1>8, <2>2, <2>3 DEF ContentsRead, Contents, Check, ??, SolidFile, entries, key, stream
  <2>5. \A i \in DOMAIN list : SolidFile(entries[i], stream.data) = Result("OK", list[i].content)
    BY <1>1, <1>2, <1>4, <1>8, <2>3, SolidEntryReads
  <2> HIDE DEF contents
  <2>6. IsRead(contents, list)
    BY <1>5, <2>4, <2>5 DEF IsRead
  <2>7. QED
    BY <2>6 DEF contents
<1>9. CASE how.layout # "solid"
  <2>1. AadMapError(a, entries) = "OK"
    BY <1>4, MapIsMade
  <2>2. contents = [error |-> "OK", entries |-> [i \in DOMAIN entries |-> EntryResult(a, i, entries[i], key)]]
    BY <1>7, <1>9, <2>1 DEF ContentsRead, Contents
  <2>3. \A i \in DOMAIN list : EntryResult(a, i, entries[i], key) = Result("OK", list[i].content)
    <3> TAKE i \in DOMAIN list
    <3>1. i \in 1 .. Len(list) /\ EntryIsApart(list, how, i, {})
      BY <1>2 DEF EntryIsApart, IsApart
    <3>2. QED
      BY <1>4, <1>6, <1>9, <3>1, EntryReads
  <2> HIDE DEF entries, key, contents
  <2>4. IsRead(contents, list)
    BY <1>5, <2>2, <2>3 DEF IsRead
  <2>5. QED
    BY <2>4 DEF contents
<1>10. QED
  BY <1>8, <1>9
LEMMA OwnerTestsAndExtracts ==
  ASSUME NEW a, NEW list, NEW how, NEW r, IsAround(a, list, how, r, {}), r.quota \in Nat,
         how.layout = "solid" => SizeOf(list) <= SolidLimit
  PROVE  /\ TestArchive(a, r) = "OK"
         /\ ExtractArchive(a, r) = IF r.quota # 0 /\ SizeOf(list) > r.quota
                                   THEN [error |-> "OVERFLOW", files |-> {}]
                                   ELSE [error |-> "OK", files |-> FilesOf(list)]
<1> DEFINE read == ContentsRead(a, r)
           checked == ContentsTested(a, r)
           w == Written(list, how)
<1>1. IsRead(read, list)
  BY OwnerReadsAll
<1>2. IsOpened(a, w, list, how, r)
  BY OwnerHasItOpen
<1>3. list \in FileLists /\ how \in WriteOptions /\ OpenError(a, r) = "OK"
  BY <1>2 DEF IsOpened
<1>4. /\ checked.error = read.error
      /\ Failed(checked.entries) <=> Failed(read.entries)
  BY <1>2, TestAgreesOnTheEntries
<1>5. TestArchive(a, r)
      = OpenError(a, r) ?? (checked.error ?? Check(~ Failed(checked.entries), "BAD_CHECKSUM"))
  BY DEF TestArchive, ContentsTested, ??
<1>6. Entries(a) = EntriesOf(list, how)
  BY <1>2, OpensWithItsIndex DEF IsOpened
<1>7. StreamSize(Entries(a)) = SizeOf(list) /\ SizeOf(list) \in Nat
  BY <1>3, <1>6, EntriesAddUp, StreamIsWhole
<1>8. ASSUME QuotaError(a, r) = "OK"
      PROVE  ExtractArchive(a, r)
             = [error |-> read.error ?? Check(~ Failed(read.entries), "CORRUPT"),
                files |-> Extracted(Entries(a), read.entries)]
  BY <1>3, <1>8 DEF ExtractArchive, ContentsRead, ??
<1>9. ASSUME QuotaError(a, r) # "OK"
      PROVE  ExtractArchive(a, r) = [error |-> QuotaError(a, r), files |-> {}]
  BY <1>3, <1>9 DEF ExtractArchive, ??
<1> HIDE DEF read, checked
<1>10. read.error = "OK" /\ ~ Failed(read.entries)
       /\ DOMAIN read.entries = DOMAIN list
       /\ \A i \in DOMAIN list :
            read.entries[i].error = "OK" /\ read.entries[i].data = list[i].content
  <2>1. /\ read.error = "OK" /\ DOMAIN read.entries = DOMAIN list
        /\ \A i \in DOMAIN list : read.entries[i] = Result("OK", list[i].content)
    BY <1>1 DEF IsRead
  <2>2. \A d : Result("OK", d).error = "OK" /\ Result("OK", d).data = d
    BY DEF Result
  <2>3. \A i \in DOMAIN list :
          read.entries[i].error = "OK" /\ read.entries[i].data = list[i].content
    BY <2>1, <2>2
  <2>4. ~ Failed(read.entries)
    BY <2>1, <2>3 DEF Failed
  <2>5. QED
    BY <2>1, <2>3, <2>4
<1>11. TestArchive(a, r) = "OK"
  BY <1>3, <1>4, <1>5, <1>10 DEF Check, ??
<1>12. Extracted(Entries(a), read.entries) = FilesOf(list)
  <2> DEFINE file(i) == [path |-> Entries(a)[i].path, content |-> read.entries[i].data]
             sound == {j \in DOMAIN read.entries : read.entries[j].error = "OK"}
  <2>1. sound = DOMAIN list
    BY <1>10
  <2>2. \A i \in DOMAIN list : file(i) = list[i]
    <3> TAKE i \in DOMAIN list
    <3>1. Entries(a)[i].path = list[i].path
      BY <1>3, <1>6, EntryIs
    <3>2. read.entries[i].data = list[i].content
      BY <1>10
    <3>3. list[i] = [path |-> list[i].path, content |-> list[i].content]
      BY <1>3, CallsAssumption
    <3>4. QED
      BY <3>1, <3>2, <3>3
  <2>3. Extracted(Entries(a), read.entries) = {file(i) : i \in sound}
    BY DEF Extracted
  <2> HIDE DEF file, sound
  <2>4. QED
    BY <2>1, <2>2, <2>3 DEF FilesOf
<1>13. QuotaError(a, r) = Check(~ (r.quota # 0 /\ SizeOf(list) > r.quota), "OVERFLOW")
  <2>1. (r.quota = 0 \/ SizeOf(list) <= r.quota) <=> ~ (r.quota # 0 /\ SizeOf(list) > r.quota)
    BY <1>7
  <2>2. QED
    BY <1>7, <2>1 DEF QuotaError, Check
<1>14. CASE r.quota # 0 /\ SizeOf(list) > r.quota
  <2>1. QuotaError(a, r) = "OVERFLOW"
    BY <1>13, <1>14 DEF Check
  <2>2. QED
    BY <1>9, <1>11, <1>14, <2>1
<1>15. CASE ~ (r.quota # 0 /\ SizeOf(list) > r.quota)
  <2>1. QuotaError(a, r) = "OK"
    BY <1>13, <1>15 DEF Check
  <2>2. read.error ?? Check(~ Failed(read.entries), "CORRUPT") = "OK"
    BY <1>10 DEF Check, ??
  <2>3. QED
    BY <1>8, <1>11, <1>12, <1>15, <2>1, <2>2
<1>16. QED
  BY <1>14, <1>15

\* What no reader holds in memory is refused.
LEMMA TooLargeIsRefused ==
  ASSUME NEW a, NEW list, NEW how, NEW r, IsAround(a, list, how, r, {}),
         how.layout = "solid", SizeOf(list) > SolidLimit
  PROVE  TestArchive(a, r) = "OVERFLOW" /\ ExtractArchive(a, r).files = {}
<1> DEFINE read == ContentsRead(a, r)
           checked == ContentsTested(a, r)
           all == ExtractArchive(a, r)
<1>1. IsOpened(a, Written(list, how), list, how, r)
  BY OwnerHasItOpen
<1>2. list \in FileLists /\ how \in WriteOptions /\ OpenError(a, r) = "OK"
  BY <1>1 DEF IsOpened
<1>3. Entries(a) = EntriesOf(list, how)
  BY <1>1, OpensWithItsIndex DEF IsOpened
<1>4. StreamSize(Entries(a)) = SizeOf(list) /\ SizeOf(list) \in Nat
  BY <1>2, <1>3, EntriesAddUp, StreamIsWhole
<1>5. Flag(a, "SOLID")
  <2>1. a.header.flags = Flags(how)
    BY AroundKeeps DEF IsKept
  <2>2. QED
    BY <1>2, <2>1, FlagsOfTheLayout
<1>6. SolidLimit \in Nat
  BY FormatAssumption
<1>7. Check(StreamSize(Entries(a)) <= SolidLimit, "OVERFLOW") = "OVERFLOW"
  BY <1>4, <1>6 DEF Check
<1>8. read.error = "OVERFLOW" /\ checked.error = "OVERFLOW"
  BY <1>5, <1>7 DEF ContentsRead, ContentsTested, Contents, ??
<1>9. TestArchive(a, r)
      = OpenError(a, r) ?? (checked.error ?? Check(~ Failed(checked.entries), "BAD_CHECKSUM"))
  BY DEF TestArchive, ContentsTested, ??
<1>10. TestArchive(a, r) = "OVERFLOW"
  BY <1>2, <1>8, <1>9 DEF ??
<1>11. ResultsOf(a, r) = << >>
  BY <1>8, NoResults
<1>12. Extracted(Entries(a), ResultsOf(a, r)) = {}
  BY <1>11 DEF Extracted
<1>13. all.files = {}
  <2>1. all.files = {} \/ all.files = Extracted(Entries(a), ContentsRead(a, r).entries)
    BY DEF ExtractArchive, ContentsRead
  <2>2. QED
    BY <1>12, <2>1 DEF ResultsOf
<1>14. QED
  BY <1>10, <1>13

\* Without the secret the trailer tells.
LEMMA WrongSecretIsRefused ==
  ASSUME NEW a, NEW list \in FileLists, NEW how \in WriteOptions, IsFileOf(a, list, how),
         Encrypts(how), NEW r, r.secret = Secret(r.secret.form, r.secret.value),
         r.secret # Secret(FormOf(how.kind), how.value)
  PROVE  OpenError(a, r) # "OK"
<1> DEFINE kind == Kind(a)
           value == r.secret.value
           key == KeyOf(a, r)
           own == KeyFor(how)
<1>1. SUFFICES ASSUME OpenError(a, r) = "OK" PROVE FALSE
  OBVIOUS
<1>2. EncHeaderError(a, r) = "OK" /\ TrailerError(a, key) = "OK"
  BY <1>1 DEF OpenError, MetadataError, ??
<1>3. Flag(a, "ENCRYPTED")
  <2>1. a.header = [magic |-> TRUE, version |-> TRUE, flags |-> Flags(how), encOffset |-> Base(how),
                    commentOffset |-> IF HasComment(how) THEN Len(a.frames) - 1 ELSE 0]
    BY DEF IsFileOf
  <2>2. a.header.flags = Flags(how)
    BY <2>1
  <2>3. QED
    BY <2>2, FlagsOfTheLayout
<1>4. kind \in NativeKinds /\ r.secret.form = FormOf(kind)
  BY <1>2, <1>3 DEF EncHeaderError, SecretError, Check, ??
<1>5. key = Key(kind, value) /\ own = Key(how.kind, how.value)
  BY <1>3 DEF KeyOf, KeyFor
<1>6. a.trailer = TrailerOf(a.header, a.footer, own)
  BY DEF IsFileOf
<1> HIDE DEF kind, value, key, own
<1>7. a.trailer.present = TRUE /\ a.trailer.key = own
  BY <1>6 DEF TrailerOf
<1>8. a.trailer = [present |-> TRUE, key |-> key, over |-> Bound(a.header, a.footer)]
  BY <1>2, <1>7 DEF TrailerError, Check
<1>9. key = own
  <2> DEFINE b == Bound(a.header, a.footer)
  <2> HIDE DEF b
  <2>1. a.trailer = [present |-> TRUE, key |-> key, over |-> b]
    BY <1>8 DEF b
  <2>2. QED
    BY <1>7, <2>1
<1>10. kind = how.kind /\ value = how.value
  BY <1>5, <1>9 DEF Key
<1>11. QED
  BY <1>4, <1>10 DEF value

\* The archive as storage gives it back, when it does so or harms some blocks of it.
LEMMA KeptIsAround ==
  ASSUME NEW list \in FileLists, NEW how \in WriteOptions, how.kind \in NativeKinds \cup {"none"},
         OnDisk(how) => Len(list) = 1, NEW r, HasTheSecret(r, how)
  PROVE  IsAround(Written(list, how), list, how, r, {})
<1> DEFINE w == Written(list, how)
<1>1. IsFileOf(w, list, how)
  BY FileIsWritten
<1>2. w = [header |-> w.header, frames |-> w.frames, footer |-> w.footer, trailer |-> w.trailer]
  BY <1>1 DEF IsFileOf
<1> HIDE DEF w
<1>3. IsAfterDamage(w, w)
  BY <1>1, AfterDamage
<1>4. w = [w EXCEPT !.frames = w.frames]
  BY <1>2
<1>5. SameBut({}, w, w)
  BY <1>4 DEF SameBut
<1>6. IsAround(w, list, how, r, {})
  BY <1>3, <1>5 DEF IsAround, w
<1>7. QED
  BY <1>6 DEF w

\* What was written opens completely with its secret, in every layout; without the
\* secret nothing does.
THEOREM SecretOpens == CallsSpec => []RightSecretOpens
<1>1. CallsInvariant => RightSecretOpens
  <2> SUFFICES ASSUME CallsInvariant, Called, stored = Written(files, options)
               PROVE  IF ~ RightSecret
                      THEN tested # "OK" /\ extracted.error # "OK" /\ extracted.files = {}
                      ELSE IF TooLargeForReaders THEN tested = "OVERFLOW" /\ extracted.files = {}
                      ELSE /\ tested = "OK"
                           /\ listed.error = "OK"
                           /\ HasComment(options) => listed.comment = options.comment
                           /\ IF caller.quota # 0 /\ SizeOf(files) > caller.quota
                              THEN extracted = [error |-> "OVERFLOW", files |-> {}]
                              ELSE extracted = [error |-> "OK", files |-> Archived]
    BY DEF RightSecretOpens
  <2>1. /\ files \in FileLists /\ options \in WriteOptions /\ caller \in ReadOptions
        /\ WriteError(options) = "OK" /\ IsFileOf(stored, files, options)
        /\ tested = TestArchive(stored, caller) /\ extracted = ExtractArchive(stored, caller)
        /\ listed = ListArchive(stored, caller)
    BY CallsReturned
  <2>2. options.kind \in NativeKinds \cup {"none"}
    BY <2>1 DEF WriteError, Check
  <2>3. OnDisk(options) => Len(files) = 1
    BY DEF CallsInvariant
  <2>4. caller.secret = Secret(caller.secret.form, caller.secret.value) /\ caller.quota \in Nat
    BY <2>1, CallsAssumption
  <2>5. CASE ~ RightSecret
    <3>1. Encrypts(options) /\ caller.secret # Secret(FormOf(options.kind), options.value)
      BY <2>5 DEF RightSecret
    <3>2. OpenError(stored, caller) # "OK"
      BY <2>1, <2>4, <3>1, WrongSecretIsRefused
    <3>3. tested # "OK"
      BY <2>1, <3>2 DEF TestArchive, ??
    <3>4. extracted = [error |-> OpenError(stored, caller), files |-> {}]
      BY <2>1, <3>2 DEF ExtractArchive, ??
    <3>5. extracted.error # "OK" /\ extracted.files = {}
      BY <3>2, <3>4
    <3>6. QED
      BY <2>5, <3>3, <3>5
  <2>6. CASE RightSecret
    <3>1. HasTheSecret(caller, options)
      BY <2>6 DEF RightSecret, HasTheSecret
    <3>2. IsAround(stored, files, options, caller, {})
      BY <2>1, <2>2, <2>3, <3>1, KeptIsAround
    <3>3. SizeOf(files) \in Nat /\ SolidLimit \in Nat
      BY <2>1, StreamIsWhole, FormatAssumption
    <3>4. CASE TooLargeForReaders
      <4>1. options.layout = "solid" /\ SizeOf(files) > SolidLimit
        BY <3>4 DEF TooLargeForReaders
      <4>2. tested = "OVERFLOW" /\ extracted.files = {}
        BY <2>1, <3>2, <4>1, TooLargeIsRefused
      <4>3. QED
        BY <2>6, <3>4, <4>2
    <3>5. CASE ~ TooLargeForReaders
      <4>1. options.layout = "solid" => SizeOf(files) <= SolidLimit
        BY <3>3, <3>5 DEF TooLargeForReaders
      <4>2. /\ tested = "OK"
            /\ extracted = IF caller.quota # 0 /\ SizeOf(files) > caller.quota
                           THEN [error |-> "OVERFLOW", files |-> {}]
                           ELSE [error |-> "OK", files |-> FilesOf(files)]
        BY <2>1, <2>4, <3>2, <4>1, OwnerTestsAndExtracts
      <4>3. FilesOf(files) = Archived
        BY DEF FilesOf, Archived
      <4>4. IsOpened(stored, stored, files, options, caller)
        BY <3>2, OwnerHasItOpen
      <4>5. listed.error = "OK"
        BY <2>1, <4>4 DEF IsOpened, ListArchive
      <4>6. HasComment(options) => listed.comment = options.comment
        <5>1. /\ listed.paths = [i \in DOMAIN files |-> files[i].path]
              /\ listed.sizes = [i \in DOMAIN files |-> Len(files[i].content)]
              /\ listed.comment = (IF HasComment(options) THEN options.comment ELSE << >>)
          BY <2>1, <4>4, ListIsWritten
        <5>2. CASE HasComment(options)
          BY <2>1, <5>1, <5>2
        <5>3. QED
          BY <5>2
      <4>7. QED
        BY <2>6, <3>5, <4>2, <4>3, <4>5, <4>6
    <3>6. QED
      BY <3>4, <3>5
  <2>7. QED
    BY <2>5, <2>6
<1>2. QED
  BY <1>1, CallsInvariance, PTL
\* The places of a file's blocks are where its entry says.
LEMMA OwnPlacesAre ==
  ASSUME NEW list \in FileLists, NEW how, how.layout # "solid", NEW i \in DOMAIN list
  PROVE  /\ Places(EntryOf(list, i, Base(how), how)) \subseteq BlockPlaces(list, how)
         /\ \A b \in 1 .. CountIn(list, i) :
              BlockOf(list, how, i, b) \in Places(EntryOf(list, i, Base(how), how))
<1> DEFINE entry == EntriesOf(list, how)[i]
           n == CountIn(list, i)
           prior == Len(BlocksBefore(list, i))
<1>1. i \in 1 .. Len(list)
  BY FilesAreSequences
<1>2. EntryOf(list, i, Base(how), how) = entry
  BY DEF EntriesOf
<1>3. EntryLies(entry, list, how, i)
  BY <1>1, EntryIsPlaced
<1> HIDE DEF entry, n
<1>4. /\ entry.offset = Base(how) + prior + 1 /\ entry.count = n /\ n \in Nat
      /\ \A b \in 1 .. n : /\ At(list, i, b) \in 1 .. CountOf(list, how)
                           /\ entry.offset + (b - 1) = BlockOf(list, how, i, b)
  BY <1>3 DEF EntryLies, n
<1>5. prior \in Nat /\ Base(how) \in {0, 1} /\ CountOf(list, how) \in Nat
  <2>1. FileLies(list, how, i)
    BY <1>1, EveryPieceLies
  <2>2. QED
    BY <2>1, PiecesAreBlocks DEF FileLies, Base, CountOf, ArePieces, IsSequence
<1> HIDE DEF prior
<1>6. \A b \in 1 .. n : BlockOf(list, how, i, b) \in BlockPlaces(list, how)
  BY <1>4, <1>5 DEF BlockOf, BlockPlaces
<1>7. \A p \in Places(entry) : \E b \in 1 .. n : p = entry.offset + (b - 1)
  <2> TAKE p \in Places(entry)
  <2>1. p - entry.offset + 1 \in 1 .. n /\ p = entry.offset + ((p - entry.offset + 1) - 1)
    BY <1>4, <1>5 DEF Places
  <2>2. QED
    BY <2>1
<1>8. Places(entry) \subseteq BlockPlaces(list, how)
  BY <1>4, <1>6, <1>7
<1>9. \A b \in 1 .. n : BlockOf(list, how, i, b) \in Places(entry)
  <2> TAKE b \in 1 .. n
  <2>1. entry.offset + (b - 1) \in Places(entry)
    BY <1>4, <1>5 DEF Places
  <2>2. QED
    BY <1>4, <2>1
<1>10. QED
  BY <1>2, <1>8, <1>9 DEF n

\* A file that holds none of the blocks harmed, nor refers to one, is extracted.
LEMMA HarmIsLocal ==
  ASSUME NEW a, NEW list, NEW how, NEW r, NEW places, IsAround(a, list, how, r, places),
         how.layout = "flat", r.quota = 0,
         NEW i \in DOMAIN list, EntryIsApart(list, how, i, places)
  PROVE  list[i] \in ExtractArchive(a, r).files
<1> DEFINE entries == Entries(a)
           key == KeyOf(a, r)
           results == ResultsOf(a, r)
           contents == ContentsRead(a, r)
<1>1. list \in FileLists /\ how \in WriteOptions /\ ~ Old(how)
  BY DEF IsAround, Old
<1>2. i \in 1 .. Len(list)
  BY <1>1, FilesAreSequences
<1>3. IsOpened(a, Written(list, how), list, how, r)
  BY OwnerHasItOpen
<1>4. entries = EntriesOf(list, how) /\ OpenError(a, r) = "OK"
  BY <1>3, OpensWithItsIndex DEF IsOpened
<1>5. i \in DOMAIN entries
  BY <1>4 DEF EntriesOf
<1>6. key = KeyFor(how)
  BY OwnerGetsTheKey
<1>7. ~ Flag(a, "SOLID")
  <2>1. a.header.flags = Flags(how)
    BY AroundKeeps DEF IsKept
  <2>2. QED
    BY <1>1, <2>1, FlagsOfTheLayout
<1>8. AadMapError(a, entries) = "OK"
  BY <1>1, <1>4, MapIsMade
<1>9. results = [j \in DOMAIN entries |-> EntryResult(a, j, entries[j], key)]
  BY <1>7, <1>8 DEF ResultsOf, ContentsRead, Contents
<1>10. EntryResult(a, i, entries[i], key) = Result("OK", list[i].content)
  BY <1>2, <1>4, <1>6, EntryReads
<1>11. entries[i].path = list[i].path
  BY <1>1, <1>4, EntryIs
<1>12. list[i] = [path |-> list[i].path, content |-> list[i].content]
  BY <1>1, CallsAssumption
<1>13. ExtractArchive(a, r).files = Extracted(entries, results)
  <2>1. QuotaError(a, r) = "OK"
    BY DEF QuotaError, Check
  <2>2. QED
    BY <1>4, <2>1 DEF ExtractArchive, ResultsOf, ContentsRead, ??
<1> HIDE DEF entries, key, results, contents
<1>14. i \in DOMAIN results /\ results[i] = Result("OK", list[i].content)
  BY <1>5, <1>9, <1>10
<1>15. results[i].error = "OK" /\ results[i].data = list[i].content
  BY <1>14 DEF Result
<1>16. [path |-> entries[i].path, content |-> results[i].data] \in Extracted(entries, results)
  BY <1>14, <1>15 DEF Extracted
<1>17. QED
  BY <1>11, <1>12, <1>13, <1>15, <1>16

\* In a flat archive a damaged block costs the files that hold it, as a block of their
\* own or by reference, and no other.
THEOREM DamageStaysLocal == CallsSpec => []DamageIsLocal
<1>1. CallsInvariant => DamageIsLocal
  <2> SUFFICES ASSUME CallsInvariant, Called, options.layout = "flat", RightSecret,
                      caller.quota = 0, damaged # << >>,
                      Range(damaged) \subseteq UNION {OwnPlaces(i) : i \in DOMAIN files},
                      NEW i \in DOMAIN files,
                      Range(damaged) \cap (OwnPlaces(i) \cup Referred(i)) = {}
               PROVE  files[i] \in extracted.files
    BY DEF DamageIsLocal
  <2> DEFINE w == Written(files, options)
             places == Range(damaged)
  <2>1. /\ files \in FileLists /\ options \in WriteOptions /\ caller \in ReadOptions
        /\ WriteError(options) = "OK" /\ IsAfterDamage(stored, w)
        /\ extracted = ExtractArchive(stored, caller)
    BY CallsReturned
  <2>2. options.kind \in NativeKinds \cup {"none"}
    BY <2>1 DEF WriteError, Check
  <2>3. (OnDisk(options) => Len(files) = 1) /\ SameBut(places, stored, w)
    BY DEF CallsInvariant
  <2>4. HasTheSecret(caller, options)
    BY DEF RightSecret, HasTheSecret
  <2>5. \A j \in DOMAIN files :
          /\ OwnPlaces(j) \subseteq BlockPlaces(files, options)
          /\ \A b \in 1 .. CountIn(files, j) : BlockOf(files, options, j, b) \in OwnPlaces(j)
    BY <2>1, OwnPlacesAre DEF OwnPlaces
  <2>6. places \subseteq BlockPlaces(files, options)
    BY <2>5
  <2>7. IsAround(stored, files, options, caller, places)
    BY <2>1, <2>2, <2>3, <2>4, <2>6 DEF IsAround
  <2>8. IsAround(w, files, options, caller, {})
    BY <2>1, <2>2, <2>3, <2>4, KeptIsAround
  <2>9. \A b \in 1 .. CountIn(files, i) : IsApart(files, options, At(files, i, b), places)
    <3> TAKE b \in 1 .. CountIn(files, i)
    <3> DEFINE k == At(files, i, b)
               p == Base(options) + k
               q == Base(options) + First(files, options, k)
    <3>1. p \in OwnPlaces(i) /\ p \notin places
      BY <2>5 DEF BlockOf
    <3>2. ASSUME Refers(files, options, k)
          PROVE  q \notin places
      <4>1. i \in 1 .. Len(files)
        BY <2>1, FilesAreSequences
      <4>2. EntryLies(EntriesOf(files, options)[i], files, options, i)
        BY <2>1, <4>1, EntryIsPlaced
      <4>3. k \in 1 .. CountOf(files, options)
        BY <4>2 DEF EntryLies
      <4>4. w.frames[p].type = "DEDUP_REF" /\ w.frames[p].pay.data[1] = q
        BY <2>8, <3>2, <4>3, PlacedReferenceReads DEF RefersTo
      <4> HIDE DEF p, q, w
      <4>5. q \in Referred(i)
        BY <3>1, <4>4 DEF Referred, w
      <4>6. QED
        BY <4>5
    <3>3. QED
      BY <3>1, <3>2 DEF IsApart
  <2>10. EntryIsApart(files, options, i, places)
    BY <2>9 DEF EntryIsApart
  <2> HIDE DEF w, places
  <2>11. files[i] \in ExtractArchive(stored, caller).files
    BY <2>7, <2>10, HarmIsLocal
  <2>12. QED
    BY <2>1, <2>11
<1>2. QED
  BY <1>1, CallsInvariance, PTL
=============================================================================
