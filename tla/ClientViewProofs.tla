--------------------------- MODULE ClientViewProofs ---------------------------
(***************************************************************************)
(* The client's view, for any entities, any game and any number of frames. *)
(***************************************************************************)
EXTENDS ClientView, FiniteSetTheorems, SequenceTheorems, WellFoundedInduction, TLAPS

------------------------------------------------------------------------------
(* What createSprite and destroySprite do to a sequence.  EraseIds is      *)
(* recursive, so that it needs induction: over the set of the lengths for  *)
(* which a fact holds, because a set without a least element is empty.     *)

LEMMA LeastNumber ==
  ASSUME NEW T, T \subseteq Nat, T # {}
  PROVE  \E m \in T : \A k \in T : m <= k
<1>. DEFINE R == OpToRel(<, Nat)
<1>1. IsWellFoundedOn(R, Nat)
  BY NatLessThanWellFounded
<1>. HIDE DEF R
<1>2. PICK m \in T : \A k \in T : ~ (<<k, m>> \in R)
  BY <1>1, WFMin
<1>3. \A k \in Nat : k < m => <<k, m>> \in R
  BY DEF R, OpToRel
<1>4. ASSUME NEW k \in T PROVE m <= k
  <2>1. m \in Nat /\ k \in Nat
    OBVIOUS
  <2>2. ~ (k < m)
    BY <1>2, <1>3, <2>1
  <2>. QED
    BY <2>1, <2>2
<1>. QED
  BY <1>4

LEMMA NumbersBySet ==
  ASSUME NEW T, 0 \in T, \A n \in Nat : n \in T => n + 1 \in T
  PROVE  \A n \in Nat : n \in T
<1>. SUFFICES ASSUME NEW n \in Nat, n \notin T PROVE FALSE
  OBVIOUS
<1>1. PICK m \in Nat \ T : \A k \in Nat \ T : m <= k
  BY LeastNumber
<1>2. m # 0 /\ m - 1 \in Nat /\ (m - 1) + 1 = m
  BY <1>1
<1>3. m - 1 \in T
  BY <1>1, <1>2
<1>. QED
  BY <1>1, <1>2, <1>3

\* What is kept of the first n sprites.
KeptOf(f, s, ids, n) ==
  \A k \in 0..n : f[k] = IF k = 0 THEN <<>>
                         ELSE IF s[k] \in ids THEN f[k - 1] ELSE Append(f[k - 1], s[k])

LEMMA KeptExists ==
  ASSUME NEW S, NEW s \in Seq(S), NEW ids
  PROVE  \A n \in Nat : n <= Len(s) => \E f \in [0..n -> Seq(S)] : KeptOf(f, s, ids, n)
<1>. DEFINE T == {n \in Nat : n <= Len(s) => \E f \in [0..n -> Seq(S)] : KeptOf(f, s, ids, n)}
<1>1. 0 \in T
  <2>. DEFINE f == [k \in 0..0 |-> <<>>]
  <2>1. f \in [0..0 -> Seq(S)]
    OBVIOUS
  <2>2. KeptOf(f, s, ids, 0)
    BY DEF KeptOf
  <2>. HIDE DEF f
  <2>. QED
    BY <2>1, <2>2
<1>2. ASSUME NEW n \in Nat, n \in T PROVE n + 1 \in T
  <2>. SUFFICES ASSUME n + 1 <= Len(s)
                PROVE  \E f \in [0..(n + 1) -> Seq(S)] : KeptOf(f, s, ids, n + 1)
    OBVIOUS
  <2>1. n + 1 \in 1..Len(s) /\ s[n + 1] \in S
    OBVIOUS
  <2>2. PICK f \in [0..n -> Seq(S)] : KeptOf(f, s, ids, n)
    BY <1>2, <2>1
  <2>. DEFINE last == IF s[n + 1] \in ids THEN f[n] ELSE Append(f[n], s[n + 1])
              g == [k \in 0..(n + 1) |-> IF k = n + 1 THEN last ELSE f[k]]
  <2>3. last \in Seq(S)
    BY <2>1
  <2>. HIDE DEF last
  <2>4. g \in [0..(n + 1) -> Seq(S)]
    BY <2>3
  <2>5. /\ g[n + 1] = last
        /\ \A k \in 0..n : g[k] = f[k]
    OBVIOUS
  <2>. HIDE DEF g
  <2>6. ASSUME NEW k \in 0..(n + 1)
        PROVE  g[k] = IF k = 0 THEN <<>>
                      ELSE IF s[k] \in ids THEN g[k - 1] ELSE Append(g[k - 1], s[k])
    <3>1. CASE k = n + 1
      <4>1. k # 0 /\ k - 1 = n /\ g[n] = f[n] /\ g[k] = last
        BY <2>5, <3>1
      <4>. QED
        BY <3>1, <4>1 DEF last
    <3>2. CASE k \in 1..n
      <4>1. k \in 0..n /\ k - 1 \in 0..n /\ k # 0
        BY <3>2
      <4>. QED
        BY <2>2, <2>5, <4>1 DEF KeptOf
    <3>3. CASE k = 0
      BY <2>2, <2>5, <3>3 DEF KeptOf
    <3>. QED
      BY <3>1, <3>2, <3>3
  <2>. QED
    BY <2>4, <2>6 DEF KeptOf
<1>. HIDE DEF T
<1>3. \A n \in Nat : n \in T
  BY <1>1, <1>2, NumbersBySet
<1>. QED
  BY <1>3 DEF T

\* EraseIds is that function's last value.
LEMMA EraseIsKept ==
  ASSUME NEW S, NEW s \in Seq(S), NEW ids
  PROVE  \E f : KeptOf(f, s, ids, Len(s)) /\ EraseIds(s, ids) = f[Len(s)]
<1>. DEFINE Def(f) == [k \in 0..Len(s) |->
              IF k = 0 THEN <<>>
              ELSE IF s[k] \in ids THEN f[k - 1] ELSE Append(f[k - 1], s[k])]
            kept == CHOOSE f : f = Def(f)
<1>1. PICK f \in [0..Len(s) -> Seq(S)] : KeptOf(f, s, ids, Len(s))
  <2>1. Len(s) \in Nat /\ Len(s) <= Len(s)
    OBVIOUS
  <2>. QED
    BY <2>1, KeptExists
<1>2. f = Def(f)
  BY <1>1 DEF KeptOf
<1>3. kept = Def(kept)
  BY <1>2
<1>4. EraseIds(s, ids) = kept[Len(s)]
  BY DEF EraseIds
<1>. HIDE DEF kept
<1>5. KeptOf(kept, s, ids, Len(s))
  BY <1>3 DEF KeptOf
<1>. QED
  BY <1>4, <1>5

Distinct(s) == \A j, k \in 1..Len(s) : s[j] = s[k] => j = k

\* What EraseIds keeps: everything but ids, and nothing twice.
LEMMA EraseKeeps ==
  ASSUME NEW S, NEW s \in Seq(S), NEW ids
  PROVE  /\ EraseIds(s, ids) \in Seq(S)
         /\ Range(EraseIds(s, ids)) = Range(s) \ ids
         /\ Distinct(s) => Distinct(EraseIds(s, ids))
<1>. DEFINE Seen(n) == {s[k] : k \in 1..n} \ ids
            Fact(t, n) == /\ t \in Seq(S)
                          /\ {t[k] : k \in 1..Len(t)} = Seen(n)
                          /\ Distinct(s) => Distinct(t)
<1>1. PICK f : KeptOf(f, s, ids, Len(s)) /\ EraseIds(s, ids) = f[Len(s)]
  BY EraseIsKept
<1>. DEFINE T == {n \in Nat : n <= Len(s) => Fact(f[n], n)}
<1>2. 0 \in T
  <2>1. f[0] = <<>>
    BY <1>1 DEF KeptOf
  <2>2. <<>> \in Seq(S) /\ Len(<<>>) = 0
    OBVIOUS
  <2>3. 1..0 = {}
    OBVIOUS
  <2>4. Fact(<<>>, 0)
    BY <2>2, <2>3 DEF Distinct
  <2>. QED
    BY <2>1, <2>4
<1>3. ASSUME NEW n \in Nat, n \in T PROVE n + 1 \in T
  <2>. HIDE DEF Fact
  <2>. SUFFICES ASSUME n + 1 <= Len(s) PROVE Fact(f[n + 1], n + 1)
    OBVIOUS
  <2>. DEFINE t == f[n]
              x == s[n + 1]
  <2>1. Fact(t, n)
    BY <1>3
  <2>. USE DEF Fact
  <2>2. f[n + 1] = IF x \in ids THEN t ELSE Append(t, x)
    <3>1. n + 1 \in 0..Len(s) /\ n + 1 # 0 /\ (n + 1) - 1 = n
      OBVIOUS
    <3>. QED
      BY <1>1, <3>1 DEF KeptOf
  <2>3. n + 1 \in 1..Len(s) /\ x \in S /\ 1..(n + 1) = 1..n \cup {n + 1}
    OBVIOUS
  <2>4. Seen(n + 1) = IF x \in ids THEN Seen(n) ELSE Seen(n) \cup {x}
    BY <2>3
  <2>. HIDE DEF t
  <2>5. CASE x \in ids
    BY <2>1, <2>2, <2>4, <2>5
  <2>6. CASE x \notin ids
    <3>1. Append(t, x) \in Seq(S) /\ Len(Append(t, x)) = Len(t) + 1
          /\ (\A k \in 1..Len(t) : Append(t, x)[k] = t[k])
          /\ Append(t, x)[Len(t) + 1] = x /\ Len(t) \in Nat
      BY <2>1, <2>3
    <3>2. 1..(Len(t) + 1) = 1..Len(t) \cup {Len(t) + 1} /\ Len(t) + 1 \notin 1..Len(t)
      BY <3>1
    <3>3. {Append(t, x)[k] : k \in 1..Len(Append(t, x))} = {t[k] : k \in 1..Len(t)} \cup {x}
      BY <3>1, <3>2
    <3>4. ASSUME Distinct(s) PROVE Distinct(Append(t, x))
      <4>1. \A k \in 1..Len(t) : t[k] # x
        <5>1. x \notin {s[k] : k \in 1..n}
          BY <2>3, <3>4 DEF Distinct
        <5>. QED
          BY <2>1, <5>1
      <4>2. Distinct(t)
        BY <2>1, <3>4
      <4>. QED
        BY <3>1, <3>2, <4>1, <4>2 DEF Distinct
    <3>. QED
      BY <2>1, <2>2, <2>4, <2>6, <3>1, <3>3, <3>4
  <2>. QED
    BY <2>5, <2>6
<1>. HIDE DEF T
<1>4. \A n \in Nat : n \in T
  BY <1>2, <1>3, NumbersBySet
<1>5. Fact(f[Len(s)], Len(s))
  <2>1. Len(s) \in Nat /\ Len(s) <= Len(s)
    OBVIOUS
  <2>. QED
    BY <1>4, <2>1 DEF T
<1>6. \A r \in Seq(S) : Range(r) = {r[k] : k \in 1..Len(r)}
  BY DEF Range
<1>. QED
  BY <1>1, <1>5, <1>6

\* The sprites made come after those that are there.
LEMMA CreateAdds ==
  ASSUME NEW S, NEW s \in Seq(S), NEW ids, IsFiniteSet(ids), ids \subseteq S,
         NEW new \in SetToSeqs(ids \ Range(s))
  PROVE  /\ s \o new \in Seq(S)
         /\ Range(s \o new) = Range(s) \cup ids
         /\ Distinct(s) => Distinct(s \o new)
<1>. DEFINE D == ids \ Range(s)
            c == Cardinality(D)
            made == s \o new
<1>1. IsFiniteSet(D) /\ c \in Nat
  BY FS_Subset, FS_CardinalityType
<1>2. new \in SetToSeqs(D) /\ made = s \o new
  OBVIOUS
<1>3. new \in [1..c -> D] /\ \A i, j \in 1..c : i # j => new[i] # new[j]
  BY <1>2 DEF SetToSeqs
<1>. HIDE DEF c
<1>4. \A x \in D : \E k \in 1..c : new[k] = x
  <2>1. new \in Injection(1..c, D)
    BY <1>3 DEF Injection, IsInjective
  <2>2. IsFiniteSet(1..c) /\ Cardinality(1..c) = c
    BY <1>1, FS_Interval
  <2>3. new \in Surjection(1..c, D)
    BY <1>1, <2>1, <2>2, FS_Injection DEF c
  <2>. QED
    BY <2>3 DEF Surjection
<1>. HIDE DEF D, made
<1>5. D \subseteq S /\ D \cap Range(s) = {} /\ Range(s) \cup D = Range(s) \cup ids
  BY DEF D
<1>6. new \in Seq(S) /\ Len(new) = c
  BY <1>1, <1>3, <1>5
<1>7. made \in Seq(S) /\ Len(made) = Len(s) + c /\ Len(s) \in Nat
      /\ (\A k \in 1..Len(s) : made[k] = s[k])
      /\ (\A k \in 1..c : made[Len(s) + k] = new[k])
  <2>1. made \in Seq(S) /\ Len(made) = Len(s) + c /\ Len(s) \in Nat
    <3>1. s \o new \in Seq(S) /\ Len(s \o new) = Len(s) + Len(new)
      BY <1>6, ConcatProperties
    <3>2. Len(s) \in Nat
      OBVIOUS
    <3>. QED
      BY <1>2, <1>6, <3>1, <3>2
  <2>2. \A k \in 1..(Len(s) + c) : made[k] = IF k <= Len(s) THEN s[k] ELSE new[k - Len(s)]
    <3>1. \A k \in 1..(Len(s) + Len(new)) :
            (s \o new)[k] = IF k <= Len(s) THEN s[k] ELSE new[k - Len(s)]
      BY <1>6, ConcatProperties
    <3>. QED
      BY <1>2, <1>6, <3>1
  <2>3. ASSUME NEW k \in 1..c PROVE made[Len(s) + k] = new[k]
    <3>1. Len(s) + k \in 1..(Len(s) + c) /\ ~(Len(s) + k <= Len(s))
          /\ (Len(s) + k) - Len(s) = k
      BY <1>1, <2>1
    <3>. QED
      BY <2>2, <3>1
  <2>4. ASSUME NEW k \in 1..Len(s) PROVE made[k] = s[k]
    <3>1. k \in 1..(Len(s) + c) /\ k <= Len(s)
      BY <1>1, <2>1
    <3>. QED
      BY <2>2, <3>1
  <2>. QED
    BY <2>1, <2>3, <2>4
<1>8. /\ \A k \in 1..Len(made) : k \in 1..Len(s) \/ \E j \in 1..c : k = Len(s) + j
      /\ \A k \in 1..Len(s) : k \in 1..Len(made)
      /\ \A j \in 1..c : Len(s) + j \in 1..Len(made)
  <2>1. ASSUME NEW k \in 1..Len(made), k \notin 1..Len(s)
        PROVE  k - Len(s) \in 1..c /\ k = Len(s) + (k - Len(s))
    BY <1>1, <1>7, <2>1
  <2>. QED
    BY <1>1, <1>7, <2>1
<1>9. \A r \in Seq(S) : Range(r) = {r[k] : k \in 1..Len(r)}
  BY DEF Range
<1>10. Range(made) = Range(s) \cup D
  <2>1. ASSUME NEW x \in Range(made) PROVE x \in Range(s) \/ x \in D
    <3>1. PICK k \in 1..Len(made) : x = made[k]
      BY <1>7, <1>9
    <3>2. CASE k \in 1..Len(s)
      BY <1>7, <1>9, <3>1, <3>2
    <3>3. CASE \E j \in 1..c : k = Len(s) + j
      BY <1>3, <1>7, <3>1, <3>3
    <3>. QED
      BY <1>8, <3>2, <3>3
  <2>2. \A x \in Range(s) : x \in Range(made)
    BY <1>7, <1>8, <1>9
  <2>3. \A x \in D : x \in Range(made)
    BY <1>4, <1>7, <1>8, <1>9
  <2>. QED
    BY <2>1, <2>2, <2>3
<1>11. ASSUME Distinct(s) PROVE Distinct(made)
  <2>. SUFFICES ASSUME NEW j \in 1..Len(made), NEW k \in 1..Len(made), made[j] = made[k]
                PROVE  j = k
    BY DEF Distinct
  <2>1. \A i \in 1..Len(s) : made[i] \in Range(s) /\ made[i] \notin D
    BY <1>5, <1>7, <1>9
  <2>2. \A i \in 1..c : made[Len(s) + i] \in D
    BY <1>3, <1>7
  <2>3. CASE j \in 1..Len(s) /\ k \in 1..Len(s)
    BY <1>7, <1>11, <2>3 DEF Distinct
  <2>4. CASE \E a, b \in 1..c : j = Len(s) + a /\ k = Len(s) + b
    BY <1>3, <1>7, <2>4
  <2>. QED
    BY <1>8, <2>1, <2>2, <2>3, <2>4
<1>. QED
  BY <1>5, <1>7, <1>10, <1>11 DEF made

LEMMA RemoveAtKeeps ==
  ASSUME NEW S, NEW s \in Seq(S), NEW i \in 1..Len(s)
  PROVE  /\ RemoveAt(s, i) \in Seq(S)
         /\ Range(RemoveAt(s, i)) \subseteq Range(s)
         /\ \A x \in Range(s) : x # s[i] => x \in Range(RemoveAt(s, i))
         /\ Distinct(s) => Distinct(RemoveAt(s, i))
<1>. DEFINE t == RemoveAt(s, i)
            n == Len(s)
            before == SubSeq(s, 1, i - 1)
            after == SubSeq(s, i + 1, n)
<1>1. n \in Nat /\ i \in Nat /\ 1 <= i /\ i <= n
  OBVIOUS
<1>2. /\ before \in Seq(S) /\ Len(before) = i - 1
      /\ \A k \in 1..(i - 1) : before[k] = s[k]
  BY <1>1, SubSeqProperties
<1>3. /\ after \in Seq(S) /\ Len(after) = n - i
      /\ \A k \in 1..(n - i) : after[k] = s[i + k]
  BY <1>1, SubSeqProperties
<1>4. t = before \o after
  BY DEF RemoveAt
<1>. HIDE DEF before, after, n, t
<1>5. t \in Seq(S) /\ Len(t) = n - 1
  <2>1. before \o after \in Seq(S) /\ Len(before \o after) = Len(before) + Len(after)
    BY <1>2, <1>3, ConcatProperties
  <2>. QED
    BY <1>1, <1>2, <1>3, <1>4, <2>1
<1>6. \A k \in 1..(n - 1) : t[k] = IF k < i THEN s[k] ELSE s[k + 1]
  <2>1. \A k \in 1..(Len(before) + Len(after)) :
          (before \o after)[k] = IF k <= Len(before) THEN before[k] ELSE after[k - Len(before)]
    BY <1>2, <1>3, ConcatProperties
  <2>. SUFFICES ASSUME NEW k \in 1..(n - 1)
                PROVE  t[k] = IF k < i THEN s[k] ELSE s[k + 1]
    OBVIOUS
  <2>2. k \in 1..(Len(before) + Len(after)) /\ k \in Nat
    BY <1>1, <1>2, <1>3
  <2>3. CASE k < i
    <3>1. k \in 1..(i - 1) /\ k <= Len(before)
      BY <1>1, <1>2, <2>2, <2>3
    <3>. QED
      BY <1>2, <1>4, <2>1, <2>2, <2>3, <3>1
  <2>4. CASE ~(k < i)
    <3>1. k - (i - 1) \in 1..(n - i) /\ i + (k - (i - 1)) = k + 1
          /\ ~(k <= Len(before)) /\ k - Len(before) = k - (i - 1)
      BY <1>1, <1>2, <2>2, <2>4
    <3>. QED
      BY <1>3, <1>4, <2>1, <2>2, <2>4, <3>1
  <2>. QED
    BY <2>3, <2>4
<1>7. \A r \in Seq(S) : Range(r) = {r[k] : k \in 1..Len(r)}
  BY DEF Range
<1>8. ASSUME NEW x \in Range(t) PROVE x \in Range(s)
  <2>1. PICK k \in 1..(n - 1) : x = t[k]
    BY <1>5, <1>7
  <2>2. k \in 1..n /\ k + 1 \in 1..n
    BY <1>1
  <2>3. x = s[k] \/ x = s[k + 1]
    BY <1>6, <2>1
  <2>. QED
    BY <1>7, <2>2, <2>3 DEF n
<1>9. ASSUME NEW x \in Range(s), x # s[i] PROVE x \in Range(t)
  <2>1. PICK k \in 1..n : x = s[k]
    BY <1>7 DEF n
  <2>2. k # i
    BY <1>9, <2>1
  <2>3. CASE k < i
    <3>1. k \in 1..(n - 1)
      BY <1>1, <2>3
    <3>. QED
      BY <1>5, <1>6, <1>7, <2>1, <2>3, <3>1
  <2>4. CASE i < k
    <3>1. k - 1 \in 1..(n - 1) /\ ~(k - 1 < i) /\ (k - 1) + 1 = k
      BY <1>1, <2>4
    <3>. QED
      BY <1>5, <1>6, <1>7, <2>1, <3>1
  <2>. QED
    BY <1>1, <2>2, <2>3, <2>4
<1>10. ASSUME Distinct(s) PROVE Distinct(t)
  <2>. SUFFICES ASSUME NEW j \in 1..(n - 1), NEW k \in 1..(n - 1), t[j] = t[k]
                PROVE  j = k
    BY <1>5 DEF Distinct
  <2>. DEFINE P(m) == IF m < i THEN m ELSE m + 1
  <2>1. \A m \in 1..(n - 1) : P(m) \in 1..n /\ t[m] = s[P(m)]
    BY <1>1, <1>6
  <2>2. P(j) = P(k)
    <3>. HIDE DEF P
    <3>. QED
      BY <1>10, <2>1 DEF Distinct, n
  <2>. QED
    BY <1>1, <2>2
<1>. QED
  BY <1>5, <1>8, <1>9, <1>10 DEF t

\* The first sprite of that id goes.
LEMMA RemoveFirstKeeps ==
  ASSUME NEW S, NEW s \in Seq(S), NEW x
  PROVE  /\ RemoveFirst(s, x) \in Seq(S)
         /\ Range(RemoveFirst(s, x)) \subseteq Range(s)
         /\ \A y \in Range(s) : y # x => y \in Range(RemoveFirst(s, x))
         /\ Distinct(s) => Distinct(RemoveFirst(s, x))
<1>1. CASE \E i \in 1..Len(s) : s[i] = x
  <2>. DEFINE I == {i \in 1..Len(s) : s[i] = x}
  <2>1. I # {} /\ I \subseteq Nat
    BY <1>1
  <2>2. \E m \in I : \A k \in I : m <= k
    BY <2>1, LeastNumber
  <2>3. Min(I) \in I
    BY <2>2 DEF Min
  <2>4. RemoveFirst(s, x) = RemoveAt(s, Min(I))
    BY <1>1, <2>1 DEF RemoveFirst, SelectInSeq
  <2>5. Min(I) \in 1..Len(s) /\ s[Min(I)] = x
    BY <2>3
  <2>. HIDE DEF I
  <2>. QED
    BY <2>4, <2>5, RemoveAtKeeps
<1>2. CASE ~ \E i \in 1..Len(s) : s[i] = x
  <2>1. RemoveFirst(s, x) = s
    BY <1>2 DEF RemoveFirst
  <2>. QED
    BY <2>1
<1>. QED
  BY <1>1, <1>2

LEMMA FrontKeeps ==
  ASSUME NEW S, NEW s \in Seq(S), s # <<>>
  PROVE  /\ Front(s) \in Seq(S)
         /\ Range(Front(s)) \subseteq Range(s)
         /\ \A x \in Range(s) : x # Last(s) => x \in Range(Front(s))
         /\ Distinct(s) => Distinct(Front(s))
<1>. DEFINE t == Front(s)
            n == Len(s)
<1>1. n \in Nat \ {0}
  OBVIOUS
<1>2. /\ t \in Seq(S) /\ Len(t) = n - 1
      /\ \A k \in 1..(n - 1) : t[k] = s[k]
  <2>1. \A k \in 1..(n - 1) : s[k] \in S
    OBVIOUS
  <2>. DEFINE r == SubSeq(s, 1, n - 1)
  <2>2. /\ r \in Seq(S) /\ Len(r) = IF 1 <= n - 1 THEN (n - 1) - 1 + 1 ELSE 0
        /\ \A k \in 1..((n - 1) - 1 + 1) : r[k] = s[1 + k - 1]
    BY <1>1, <2>1, SubSeqProperties
  <2>3. t = r
    BY DEF Front
  <2>. HIDE DEF r, t, n
  <2>4. (n - 1) - 1 + 1 = n - 1 /\ \A k \in 1..(n - 1) : 1 + k - 1 = k
    BY <1>1
  <2>5. Len(r) = n - 1
    <3>1. (1 <= n - 1) \/ n - 1 = 0
      BY <1>1
    <3>. QED
      BY <2>2, <2>4, <3>1
  <2>. QED
    BY <2>2, <2>3, <2>4, <2>5
<1>3. \A r \in Seq(S) : Range(r) = {r[k] : k \in 1..Len(r)}
  BY DEF Range
<1>4. 1..n = 1..(n - 1) \cup {n} /\ Last(s) = s[n]
  BY <1>1 DEF Last
<1>. HIDE DEF t
<1>. QED
  BY <1>2, <1>3, <1>4 DEF Distinct, t

------------------------------------------------------------------------------
(* The view.                                                               *)

SpriteIds == Entities \cup {Background, Button}

\* The first frame to show is looked up once; no frame before since was shown.
IndexInv ==
  /\ pc = "begin" => currentFrameIndex = -1
  /\ currentFrameIndex >= 0 => since <= currentFrameIndex

ViewInv == TypeOK /\ IndexInv /\ OneSpritePerId /\ SpritesAreReplay

LEMMA LobbyIds ==
  /\ Background \notin Entities /\ Button \notin Entities /\ Background # Button
BY ViewAssumption DEF Background, Button

LEMMA LifeFacts ==
  ASSUME TypeOK
  PROVE  /\ DOMAIN life = Entities
         /\ \A i \in Entities : life[i].dead \in 0..MaxFrames
         /\ \A i \in Entities : \A n \in life[i].made : n \in Nat /\ n <= life[i].dead
         /\ MaxFrames \in Nat
BY ViewAssumption DEF TypeOK, Lives, FrameIds

LEMMA InitView == Init => ViewInv
<1>. SUFFICES ASSUME Init PROVE ViewInv
  OBVIOUS
<1>1. TypeOK
  BY ViewAssumption DEF Init, TypeOK
<1>2. Range(sprites) = {} /\ Len(sprites) = 0
  BY DEF Init, Range
<1>3. \A i \in Entities : \A n \in life[i].made : ~(n < -1)
  BY <1>1, LifeFacts
<1>4. SpritesAreReplay
  BY <1>2, <1>3 DEF Init, SpritesAreReplay
<1>. QED
  BY <1>1, <1>2, <1>4 DEF Init, ViewInv, IndexInv, OneSpritePerId

\* A step that keeps all sprites of entities, the index and since.
LEMMA SameEntities ==
  ASSUME SpritesAreReplay, UNCHANGED <<life, currentFrameIndex, since>>,
         Range(sprites') \subseteq Range(sprites),
         \A i \in Range(sprites) : i \in Entities => i \in Range(sprites')
  PROVE  SpritesAreReplay'
<1>1. {i \in Range(sprites') : i \in Entities} = {i \in Range(sprites) : i \in Entities}
  OBVIOUS
<1>. QED
  BY <1>1 DEF SpritesAreReplay

\* The lobby has no entity, whatever was shown before.
LEMMA LobbyView ==
  ASSUME TypeOK, InitLobbySprites, UNCHANGED <<life, currentFrameIndex>>
  PROVE  /\ sprites' \in Seq(SpriteIds)
         /\ OneSpritePerId' /\ SpritesAreReplay'
         /\ since' = currentFrameIndex
<1>1. sprites' = <<Background, Button>> /\ since' = currentFrameIndex
  BY DEF InitLobbySprites
<1>2. /\ sprites' \in Seq(SpriteIds) /\ Len(sprites') = 2
      /\ sprites'[1] = Background /\ sprites'[2] = Button
  BY <1>1 DEF SpriteIds
<1>3. OneSpritePerId'
  <2>1. \A k \in 1..2 : k = 1 \/ k = 2
    OBVIOUS
  <2>. QED
    BY <1>2, <2>1, LobbyIds DEF OneSpritePerId
<1>4. \A i \in Range(sprites') : i \notin Entities
  <2>1. DOMAIN sprites' = {1, 2}
    BY <1>1
  <2>. QED
    BY <1>2, <2>1, LobbyIds DEF Range
<1>5. \A i \in Entities : \A n \in life[i].made :
        ~(currentFrameIndex <= n /\ n < currentFrameIndex)
  BY LifeFacts DEF TypeOK
<1>6. SpritesAreReplay'
  BY <1>1, <1>4, <1>5 DEF SpritesAreReplay
<1>. QED
  BY <1>1, <1>2, <1>3, <1>6

\* What a frame shown does to the sprites.
LEMMA ShowSprites ==
  ASSUME ViewInv, ShowFrame, currentFrameIndex \in frameMap
  PROVE  /\ sprites' \in Seq(SpriteIds)
         /\ Distinct(sprites) => Distinct(sprites')
         /\ \A i \in Entities :
              i \in Range(sprites') <=> /\ i \in Range(sprites) \/ currentFrameIndex \in life[i].made
                                        /\ life[i].dead # currentFrameIndex
<1>. DEFINE n == currentFrameIndex
<1>0. PICK ids \in Brought(n) :
        \E new \in SetToSeqs(ids \ Range(sprites)) : sprites' = DestroySprite(sprites \o new, n)
  BY DEF ShowFrame, CreateSprite
<1>1. PICK new \in SetToSeqs(ids \ Range(sprites)) : sprites' = DestroySprite(sprites \o new, n)
  BY <1>0
<1>2. /\ ids \subseteq Entities \cup {Background}
      /\ \A i \in Entities : i \in ids <=> i \in Created(n)
  BY LobbyIds DEF Brought, Created
<1>3. ids \subseteq SpriteIds /\ IsFiniteSet(ids)
  <2>1. IsFiniteSet(Entities \cup {Background})
    BY ViewAssumption, FS_AddElement
  <2>. QED
    BY <1>2, <2>1, FS_Subset DEF SpriteIds
<1>4. sprites \in Seq(SpriteIds)
  BY DEF ViewInv, TypeOK, SpriteIds
<1>. DEFINE made == sprites \o new
<1>5. /\ made \in Seq(SpriteIds)
      /\ Range(made) = Range(sprites) \cup ids
      /\ Distinct(sprites) => Distinct(made)
  BY <1>3, <1>4, CreateAdds
<1>6. sprites' = EraseIds(made, Deleted(n))
  BY <1>1 DEF DestroySprite
<1>. HIDE DEF n, made
<1>7. /\ sprites' \in Seq(SpriteIds)
      /\ Range(sprites') = Range(made) \ Deleted(n)
      /\ Distinct(made) => Distinct(sprites')
  BY <1>5, <1>6, EraseKeeps
<1>8. \A i \in Entities : (i \in Created(n) <=> n \in life[i].made)
                          /\ (i \in Deleted(n) <=> life[i].dead = n)
  BY DEF Created, Deleted
<1>. QED
  BY <1>2, <1>5, <1>7, <1>8 DEF n

\* A frame shown is applied to the replay of those before.
LEMMA ShowView ==
  ASSUME ViewInv, ShowFrame
  PROVE  ViewInv'
<1>. DEFINE n == currentFrameIndex
<1>1. CASE n \notin frameMap
  <2>1. UNCHANGED <<life, ioVars, gameStatePacket, open, currentFrameIndex, sprites, since>>
        /\ pc' = "noFrame"
    BY <1>1 DEF ShowFrame
  <2>. QED
    BY <2>1
       DEF ViewInv, TypeOK, Undefined, ioVars, IndexInv, OneSpritePerId, SpritesAreReplay
<1>2. CASE n \in frameMap
  <2>2. /\ UNCHANGED <<life, ioVars, gameStatePacket, open, since>>
        /\ pc' = "index" /\ currentFrameIndex' = n + 1
    BY <1>2 DEF ShowFrame
  <2>3. n \in 0..(MaxFrames - 1) /\ MaxFrames \in Nat /\ since <= n /\ since \in Int
    BY <1>2, ViewAssumption DEF ViewInv, TypeOK, FrameIds, IndexInv
  <2>7. /\ sprites' \in Seq(SpriteIds)
        /\ Distinct(sprites) => Distinct(sprites')
        /\ \A i \in Entities : i \in Range(sprites') <=>
              (i \in Range(sprites) \/ n \in life[i].made) /\ life[i].dead # n
    BY <1>2, ShowSprites
  <2>. HIDE DEF n
  <2>8. TypeOK'
    BY <2>2, <2>3, <2>7 DEF ViewInv, TypeOK, SpriteIds, ioVars
  <2>9. OneSpritePerId'
    BY <2>7 DEF ViewInv, OneSpritePerId, Distinct
  <2>10. IndexInv'
    BY <2>2, <2>3 DEF IndexInv
  <2>11. SpritesAreReplay'
    <3>1. ASSUME NEW i \in Entities
          PROVE  i \in Range(sprites') <=>
                   /\ \E k \in life[i].made : since <= k /\ k < n + 1
                   /\ life[i].dead >= n + 1
      <4>1. /\ life[i].dead \in Nat
            /\ \A k \in life[i].made : k \in Nat /\ k <= life[i].dead
        BY LifeFacts DEF ViewInv
      <4>2. i \in Range(sprites) <=>
              /\ \E k \in life[i].made : since <= k /\ k < n
              /\ life[i].dead >= n
        BY DEF ViewInv, SpritesAreReplay, n
      <4>3. i \in Range(sprites') <=> (i \in Range(sprites) \/ n \in life[i].made) /\ life[i].dead # n
        BY <2>7
      <4>4. (\E k \in life[i].made : since <= k /\ k < n + 1) <=>
              (\E k \in life[i].made : since <= k /\ k < n) \/ n \in life[i].made
        BY <2>3, <4>1
      <4>. QED
        BY <2>3, <4>1, <4>2, <4>3, <4>4
    <3>. QED
      BY <2>2, <3>1 DEF SpritesAreReplay
  <2>. QED
    BY <2>8, <2>9, <2>10, <2>11 DEF ViewInv
<1>. QED
  BY <1>1, <1>2

LEMMA BeginView ==
  ASSUME ViewInv, BeginIndex
  PROVE  ViewInv'
<1>1. UNCHANGED <<life, ioVars, gameStatePacket, open, sprites>>
      /\ currentFrameIndex = -1 /\ pc' \in {"noFirst", "events"}
  BY DEF BeginIndex, ViewInv, IndexInv
<1>2. CASE UNCHANGED <<currentFrameIndex, since>>
  BY <1>1, <1>2
     DEF ViewInv, TypeOK, Undefined, ioVars, IndexInv, OneSpritePerId, SpritesAreReplay
<1>3. CASE \E first \in frameMap : currentFrameIndex' = first /\ since' = first
  <2>1. PICK first \in frameMap : currentFrameIndex' = first /\ since' = first
    BY <1>3
  <2>2. first \in 0..(MaxFrames - 1) /\ MaxFrames \in Nat
    BY ViewAssumption DEF ViewInv, TypeOK, FrameIds
  <2>3. \A i \in Entities : \A n \in life[i].made : ~(n < -1)
    BY LifeFacts DEF ViewInv
  <2>4. \A i \in Range(sprites) : i \notin Entities
    BY <1>1, <2>3 DEF ViewInv, SpritesAreReplay
  <2>5. \A i \in Entities : \A n \in life[i].made : ~(first <= n /\ n < first)
    BY <2>2, LifeFacts DEF ViewInv
  <2>6. SpritesAreReplay'
    BY <1>1, <2>1, <2>4, <2>5 DEF SpritesAreReplay
  <2>7. TypeOK'
    BY <1>1, <2>1, <2>2 DEF ViewInv, TypeOK, Undefined, ioVars
  <2>8. IndexInv' /\ OneSpritePerId'
    BY <1>1, <2>1, <2>2 DEF ViewInv, IndexInv, OneSpritePerId
  <2>. QED
    BY <2>6, <2>7, <2>8 DEF ViewInv
<1>. QED
  BY <1>2, <1>3 DEF BeginIndex

\* Steps that take one sprite away, which is no entity's.
LEMMA RemovalSprites ==
  ASSUME ViewInv, Click \/ TestStart
  PROVE  /\ UNCHANGED <<life, ioVars, gameStatePacket, open, currentFrameIndex, since>>
         /\ pc' \in {"events", "reset"}
         /\ sprites' \in Seq(SpriteIds)
         /\ Range(sprites') \subseteq Range(sprites)
         /\ \A i \in Range(sprites) : i # Button => i \in Range(sprites')
         /\ Distinct(sprites) => Distinct(sprites')
<1>1. sprites \in Seq(SpriteIds)
  BY DEF ViewInv, TypeOK, SpriteIds
<1>2. CASE Click
  BY <1>1, <1>2, FrontKeeps DEF Click
<1>3. CASE TestStart
  <2>1. sprites' = RemoveFirst(sprites, Button) \/ sprites' = sprites
    BY <1>3 DEF TestStart
  <2>2. UNCHANGED <<life, ioVars, gameStatePacket, open, currentFrameIndex, since>>
        /\ pc' = "reset"
    BY <1>3 DEF TestStart
  <2>. QED
    BY <1>1, <2>1, <2>2, RemoveFirstKeeps
<1>. QED
  BY <1>2, <1>3

LEMMA RemovalView ==
  ASSUME ViewInv, Click \/ TestStart
  PROVE  ViewInv'
<1>1. /\ UNCHANGED <<life, ioVars, gameStatePacket, open, currentFrameIndex, since>>
      /\ pc' \in {"events", "reset"}
      /\ sprites' \in Seq(SpriteIds)
      /\ Range(sprites') \subseteq Range(sprites)
      /\ \A i \in Range(sprites) : i # Button => i \in Range(sprites')
      /\ Distinct(sprites) => Distinct(sprites')
  BY RemovalSprites
<1>2. TypeOK'
  BY <1>1 DEF ViewInv, TypeOK, SpriteIds, ioVars
<1>3. IndexInv' /\ OneSpritePerId'
  BY <1>1 DEF ViewInv, IndexInv, OneSpritePerId, Distinct
<1>4. SpritesAreReplay'
  BY <1>1, LobbyIds, SameEntities DEF ViewInv
<1>. QED
  BY <1>2, <1>3, <1>4 DEF ViewInv

LEMMA ToLobbyView ==
  ASSUME ViewInv, InitLobbySprites, UNCHANGED <<life, ioVars, gameStatePacket, open, currentFrameIndex>>,
         pc' \in {"events", "reset"}
  PROVE  ViewInv'
<1>1. /\ sprites' \in Seq(SpriteIds) /\ OneSpritePerId' /\ SpritesAreReplay'
      /\ since' = currentFrameIndex
  BY LobbyView DEF ViewInv
<1>2. TypeOK'
  BY <1>1 DEF ViewInv, TypeOK, SpriteIds, ioVars
<1>3. IndexInv'
  BY <1>1 DEF ViewInv, TypeOK, IndexInv
<1>. QED
  BY <1>1, <1>2, <1>3 DEF ViewInv

\* Steps that leave the sprites and the index alone.
LEMMA OtherView ==
  ASSUME ViewInv, UNCHANGED <<life, currentFrameIndex, sprites, since>>, TypeOK',
         pc' = "begin" => currentFrameIndex = -1
  PROVE  ViewInv'
BY DEF ViewInv, IndexInv, OneSpritePerId, SpritesAreReplay

LEMMA ViewStep == ViewInv /\ [Next]_vars => ViewInv'
<1>. SUFFICES ASSUME ViewInv, [Next]_vars PROVE ViewInv'
  OBVIOUS
<1>. USE DEF ioVars, spriteVars
<1>1. CASE ShowFrame
  BY <1>1, ShowView
<1>2. CASE BeginIndex
  BY <1>2, BeginView
<1>3. CASE Click \/ TestStart
  BY <1>3, RemovalView
<1>4. CASE Escape
  BY <1>4, ToLobbyView DEF Escape
<1>5. CASE TestNotStarted
  <2>1. CASE gameStatePacket = "GAME_NOT_STARTED"
    BY <1>5, <2>1, ToLobbyView DEF TestNotStarted
  <2>2. CASE gameStatePacket # "GAME_NOT_STARTED"
    <3>1. pc' = "start" /\ UNCHANGED <<life, ioVars, gameStatePacket, open, currentFrameIndex, spriteVars>>
      BY <1>5, <2>2 DEF TestNotStarted
    <3>2. TypeOK'
      BY <3>1 DEF ViewInv, TypeOK
    <3>. QED
      BY <3>1, <3>2, OtherView
  <2>. QED
    BY <2>1, <2>2
<1>6. CASE Receive \/ EmplaceFrame
  <2>1. TypeOK' /\ UNCHANGED <<life, pc, currentFrameIndex, sprites, since>>
    BY <1>6
       DEF Receive, ReceiveFrame, ReceiveState, EmplaceFrame, ViewInv, TypeOK, StatePackets
  <2>. QED
    BY <2>1, OtherView DEF ViewInv, IndexInv
<1>7. CASE TestIndex \/ EventsDone \/ ResetGameStatePacket \/ SkipFrame \/ Close
  <2>1. /\ UNCHANGED <<life, currentFrameIndex, sprites, since>>
        /\ pc' = "begin" => currentFrameIndex = -1
    BY <1>7 DEF TestIndex, EventsDone, ResetGameStatePacket, SkipFrame, Close
  <2>2. TypeOK'
    BY <1>7
       DEF TestIndex, EventsDone, ResetGameStatePacket, SkipFrame, Close, ViewInv, TypeOK,
           StatePackets
  <2>. QED
    BY <2>1, <2>2, OtherView
<1>8. CASE UNCHANGED vars
  BY <1>8
     DEF vars, ViewInv, TypeOK, IndexInv, OneSpritePerId, SpritesAreReplay
<1>. QED
  BY <1>1, <1>2, <1>3, <1>4, <1>5, <1>6, <1>7, <1>8 DEF Next, Loop, Events

\* For any entities and frames: the variables keep their types.
THEOREM ViewTypes == Spec => []TypeOK
<1>1. ViewInv => TypeOK
  BY DEF ViewInv
<1>. QED
  BY <1>1, InitView, ViewStep, PTL DEF Spec

\* For any entities and frames: no id is drawn twice.
THEOREM ViewOneSprite == Spec => []OneSpritePerId
<1>1. ViewInv => OneSpritePerId
  BY DEF ViewInv
<1>. QED
  BY <1>1, InitView, ViewStep, PTL DEF Spec

\* For any entities and frames, in whatever order they arrive: what is drawn is
\* the replay of the frames shown.
THEOREM ViewIsReplay == Spec => []SpritesAreReplay
<1>1. ViewInv => SpritesAreReplay
  BY DEF ViewInv
<1>. QED
  BY <1>1, InitView, ViewStep, PTL DEF Spec

------------------------------------------------------------------------------
(* The view plays the game back.  What the abstract specification calls    *)
(* visible are the sprites of entities; ViewInv says which they are.       *)

\* A step that shows nothing else and stores no frame is hidden.
LEMMA HiddenFromScreen ==
  ASSUME UNCHANGED <<life, frameMap, currentFrameIndex>>,
         \A i \in Entities : i \in Range(sprites') <=> i \in Range(sprites)
  PROVE  UNCHANGED Screen!vars
<1>1. Range(sprites') \cap Entities = Range(sprites) \cap Entities
  OBVIOUS
<1>. QED
  BY <1>1 DEF Screen!vars

LEMMA ShowIsShow ==
  ASSUME ViewInv, ShowFrame
  PROVE  [Screen!Next]_(Screen!vars)
<1>1. CASE currentFrameIndex \notin frameMap
  BY <1>1, HiddenFromScreen DEF ShowFrame, ioVars
<1>2. CASE currentFrameIndex \in frameMap
  <2>1. /\ UNCHANGED <<life, frameMap>>
        /\ currentFrameIndex' = currentFrameIndex + 1
    BY <1>2 DEF ShowFrame, ioVars
  <2>2. \A i \in Entities : i \in Range(sprites') <=>
          (i \in Range(sprites) \/ currentFrameIndex \in life[i].made)
          /\ life[i].dead # currentFrameIndex
    BY <1>2, ShowSprites
  <2>3. DOMAIN life = Entities
    BY LifeFacts DEF ViewInv
  <2>4. Range(sprites') \cap Entities =
          {i \in DOMAIN life : /\ \/ i \in Range(sprites) \cap Entities
                                  \/ currentFrameIndex \in life[i].made
                               /\ life[i].dead # currentFrameIndex}
    BY <2>2, <2>3
  <2>5. Screen!Show
    BY <1>2, <2>1, <2>4 DEF Screen!Show
  <2>. QED
    BY <2>5 DEF Screen!Next
<1>. QED
  BY <1>1, <1>2

LEMMA BeginIsBegin ==
  ASSUME ViewInv, BeginIndex
  PROVE  [Screen!Next]_(Screen!vars)
<1>1. currentFrameIndex = -1 /\ UNCHANGED <<life, frameMap, sprites>>
  BY DEF BeginIndex, ViewInv, IndexInv, ioVars
<1>2. CASE frameMap = {}
  BY <1>1, <1>2, HiddenFromScreen DEF BeginIndex
<1>3. CASE frameMap # {}
  <2>1. currentFrameIndex' \in frameMap /\ \A n \in frameMap : currentFrameIndex' <= n
    BY <1>3 DEF BeginIndex
  <2>2. Screen!Begin
    BY <1>1, <2>1 DEF Screen!Begin
  <2>. QED
    BY <2>2 DEF Screen!Next
<1>. QED
  BY <1>2, <1>3

LEMMA LobbyIsLobby ==
  ASSUME ViewInv, InitLobbySprites, UNCHANGED <<life, ioVars, currentFrameIndex>>
  PROVE  [Screen!Next]_(Screen!vars)
<1>1. sprites' = <<Background, Button>> /\ UNCHANGED <<life, frameMap, currentFrameIndex>>
  BY DEF InitLobbySprites, ioVars
<1>2. Range(sprites') \cap Entities = {}
  <2>1. DOMAIN sprites' = {1, 2} /\ sprites'[1] = Background /\ sprites'[2] = Button
    BY <1>1
  <2>. QED
    BY <2>1, LobbyIds DEF Range
<1>3. Screen!Lobby
  BY <1>1, <1>2 DEF Screen!Lobby
<1>. QED
  BY <1>3 DEF Screen!Next

LEMMA StepIsPlayback == ViewInv /\ [Next]_vars => [Screen!Next]_(Screen!vars)
<1>. SUFFICES ASSUME ViewInv, [Next]_vars PROVE [Screen!Next]_(Screen!vars)
  OBVIOUS
<1>. USE DEF ioVars, spriteVars
<1>1. CASE ShowFrame
  BY <1>1, ShowIsShow
<1>2. CASE BeginIndex
  BY <1>2, BeginIsBegin
<1>3. CASE Click \/ TestStart
  <2>1. UNCHANGED <<life, frameMap, currentFrameIndex>>
        /\ \A i \in Entities : i \in Range(sprites') <=> i \in Range(sprites)
    BY <1>3, RemovalSprites, LobbyIds
  <2>. QED
    BY <2>1, HiddenFromScreen
<1>4. CASE Escape
  BY <1>4, LobbyIsLobby DEF Escape
<1>5. CASE TestNotStarted
  <2>1. CASE gameStatePacket = "GAME_NOT_STARTED"
    BY <1>5, <2>1, LobbyIsLobby DEF TestNotStarted
  <2>2. CASE gameStatePacket # "GAME_NOT_STARTED"
    BY <1>5, <2>2, HiddenFromScreen DEF TestNotStarted
  <2>. QED
    BY <2>1, <2>2
<1>6. CASE EmplaceFrame
  <2>1. frameMap' = frameMap \cup {ioFrame} /\ UNCHANGED <<life, currentFrameIndex, sprites>>
    BY <1>6 DEF EmplaceFrame
  <2>2. Screen!Arrive
    BY <2>1 DEF Screen!Arrive
  <2>. QED
    BY <2>2 DEF Screen!Next
<1>7. CASE \/ Receive \/ TestIndex \/ EventsDone \/ ResetGameStatePacket \/ SkipFrame \/ Close
           \/ UNCHANGED vars
  <2>1. UNCHANGED <<life, frameMap, currentFrameIndex, sprites>>
    BY <1>7
       DEF Receive, ReceiveFrame, ReceiveState, TestIndex, EventsDone, ResetGameStatePacket,
           SkipFrame, Close, vars
  <2>. QED
    BY <2>1, HiddenFromScreen
<1>. QED
  BY <1>1, <1>2, <1>3, <1>4, <1>5, <1>6, <1>7 DEF Next, Loop, Events

\* For any entities and frames, and whatever network, threads and player do: the
\* client plays back the frames there are.
THEOREM ViewImplementsPlayback == Spec => ImplementsPlayback
<1>1. Init => Screen!Init
  BY DEF Init, Screen!Init, Range
<1>. QED
  BY <1>1, InitView, ViewStep, StepIsPlayback, PTL DEF Spec, ImplementsPlayback, Screen!Spec

------------------------------------------------------------------------------
(* The first frame.                                                        *)

\* Once a number was received there is a frame, or the io thread is about to
\* store the only one; and the index is looked up after that only.
WindowInv ==
  /\ FirstFrameWindow
  /\ frameMap = {} => ioFrame = lastReceived
  /\ pc = "begin" => lastReceived # -1

\* For any frames and any interleaving of the two threads: the first frame is
\* missed only in the gap between the two locks.
THEOREM ViewFirstFrame == Spec => []FirstFrameWindow
<1>1. Init => WindowInv
  BY DEF Init, WindowInv, FirstFrameWindow
<1>2. TypeOK /\ WindowInv /\ [Next]_vars => WindowInv'
  <2>. SUFFICES ASSUME TypeOK, WindowInv, [Next]_vars PROVE WindowInv'
    OBVIOUS
  <2>. USE DEF ioVars, WindowInv, FirstFrameWindow, Alive, Undefined
  <2>1. CASE Receive
    BY <2>1 DEF Receive, ReceiveFrame, ReceiveState, TypeOK, FrameIds
  <2>2. CASE EmplaceFrame
    BY <2>2 DEF EmplaceFrame
  <2>3. CASE TestIndex
    BY <2>3 DEF TestIndex
  <2>4. CASE BeginIndex
    BY <2>4 DEF BeginIndex
  <2>5. CASE \/ EventsDone \/ TestNotStarted \/ TestStart \/ ResetGameStatePacket \/ SkipFrame
             \/ Events
    BY <2>5
       DEF EventsDone, TestNotStarted, TestStart, ResetGameStatePacket, SkipFrame, Events,
           Click, Escape, Close
  <2>6. CASE ShowFrame
    BY <2>6 DEF ShowFrame
  <2>7. CASE UNCHANGED vars
    BY <2>7 DEF vars
  <2>. QED
    BY <2>1, <2>2, <2>3, <2>4, <2>5, <2>6, <2>7 DEF Next, Loop
<1>3. WindowInv => FirstFrameWindow
  BY DEF WindowInv
<1>. QED
  BY <1>1, <1>2, <1>3, ViewTypes, PTL DEF Spec
===============================================================================
