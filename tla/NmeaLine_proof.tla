---------------------------- MODULE NmeaLine_proof ----------------------------
(* What an NMEA manager gives of what it hears, for every talk, every         *)
(* configuration, every damage and every pause.                               *)
EXTENDS NmeaLine, SequenceTheorems, FiniteSetTheorems, WellFoundedInduction, TLAPS

-----------------------------------------------------------------------------
(* Sequences *)

(* A set of numbers has a smallest.                                           *)
LEMMA Smallest ==
    ASSUME NEW T \in SUBSET Nat, T # {}
    PROVE  \E x \in T : \A y \in T : x <= y
<1>1. IsWellFoundedOn({ss \in Nat \X Nat : ss[1] < ss[2]}, Nat)
  BY NatLessThanWellFounded, SMT DEF OpToRel
<1>2. PICK x \in T : \A y \in T : ~ (<<y, x>> \in {ss \in Nat \X Nat : ss[1] < ss[2]})
  BY <1>1, WFMin, Zenon
<1>3. ASSUME NEW y \in T PROVE x <= y
  <2>1. x \in Nat /\ y \in Nat
    OBVIOUS
  <2>2. y < x => <<y, x>> \in {ss \in Nat \X Nat : ss[1] < ss[2]}
    BY <2>1
  <2>. QED  BY <1>2, <2>1, <2>2
<1>. QED  BY <1>3

(* How many of the positions I are not after i.                               *)
UpTo(I, i) == {j \in I : j <= i}

LEMMA UpToFinite ==
    ASSUME NEW n \in Nat, NEW I \in SUBSET (1..n), NEW i \in Nat
    PROVE  /\ IsFiniteSet(I) /\ Cardinality(I) \in Nat
           /\ IsFiniteSet(UpTo(I, i)) /\ Cardinality(UpTo(I, i)) \in Nat
           /\ Cardinality(UpTo(I, i)) <= Cardinality(I)
<1>1. IsFiniteSet(1..n)
  BY FS_Interval
<1>2. IsFiniteSet(I)
  BY <1>1, FS_Subset
<1>3. UpTo(I, i) \subseteq I
  BY DEF UpTo
<1>4. IsFiniteSet(UpTo(I, i)) /\ Cardinality(UpTo(I, i)) <= Cardinality(I)
  BY <1>2, <1>3, FS_Subset
<1>. QED  BY <1>2, <1>4, FS_CardinalityType

LEMMA UpToGrows ==
    ASSUME NEW n \in Nat, NEW I \in SUBSET (1..n), NEW i \in I, NEW j \in I, i < j
    PROVE  Cardinality(UpTo(I, i)) < Cardinality(UpTo(I, j))
<1>0. \A l \in I : l \in Nat
  OBVIOUS
<1>1. UpTo(I, i) \subseteq UpTo(I, j) /\ j \in UpTo(I, j) /\ j \notin UpTo(I, i)
  <2>1. i \in Nat /\ j \in Nat /\ \A l \in I : l <= i => l <= j
    BY <1>0
  <2>2. j <= j /\ ~ (j <= i)
    BY <2>1
  <2>. QED  BY <2>1, <2>2 DEF UpTo
<1>2. i \in Nat /\ j \in Nat
  OBVIOUS
<1>3. /\ IsFiniteSet(UpTo(I, j)) /\ Cardinality(UpTo(I, i)) \in Nat
      /\ Cardinality(UpTo(I, j)) \in Nat
  BY <1>2, UpToFinite
<1>4. /\ Cardinality(UpTo(I, i)) <= Cardinality(UpTo(I, j))
      /\ Cardinality(UpTo(I, j)) = Cardinality(UpTo(I, i)) => UpTo(I, j) = UpTo(I, i)
  BY <1>1, <1>3, FS_Subset
<1>. QED  BY <1>1, <1>3, <1>4

LEMMA NthExists ==
    ASSUME NEW n \in Nat, NEW I \in SUBSET (1..n), NEW k \in 1..Cardinality(I)
    PROVE  \E i \in I : Cardinality(UpTo(I, i)) = k
<1>0. \A l \in I : l \in Nat /\ l # 0 /\ l <= n
  OBVIOUS
<1>. DEFINE T == {m \in Nat : Cardinality(UpTo(I, m)) >= k}
<1>1. n \in T
  <2>1. UpTo(I, n) = I
    BY <1>0 DEF UpTo
  <2>2. Cardinality(I) \in Nat
    BY UpToFinite
  <2>. QED  BY <2>1, <2>2
<1>2. PICK m \in T : \A l \in T : m <= l
  BY <1>1, Smallest
<1>3. m \in Nat /\ Cardinality(UpTo(I, m)) >= k
  BY <1>2
<1>4. m # 0
  <2>1. UpTo(I, 0) = {}
    <3>1. \A l \in I : ~ (l <= 0)
      BY <1>0
    <3>. QED  BY <3>1 DEF UpTo
  <2>2. Cardinality(UpTo(I, 0)) = 0
    BY <2>1, FS_EmptySet
  <2>3. 0 \notin T
    BY <2>2
  <2>. QED  BY <1>2, <2>3
<1>5. m - 1 \in Nat /\ Cardinality(UpTo(I, m - 1)) < k
  <2>1. m - 1 \in Nat /\ ~ (m <= m - 1)
    BY <1>3, <1>4
  <2>2. m - 1 \notin T
    BY <1>2, <2>1
  <2>3. Cardinality(UpTo(I, m - 1)) \in Nat
    BY <2>1, UpToFinite
  <2>. QED  BY <2>1, <2>2, <2>3
<1>. HIDE DEF T
<1>6. m \in I
  <2> SUFFICES ASSUME m \notin I PROVE FALSE
    OBVIOUS
  <2>1. UpTo(I, m) = UpTo(I, m - 1)
    <3>1. \A l \in I : l <= m <=> l <= m - 1
      BY <1>0, <1>3
    <3>. QED  BY <3>1 DEF UpTo
  <2>. QED  BY <1>3, <1>5, <2>1, UpToFinite
<1>7. UpTo(I, m) = UpTo(I, m - 1) \cup {m} /\ m \notin UpTo(I, m - 1)
  <2>1. \A l \in I : l <= m <=> l <= m - 1 \/ l = m
    BY <1>0, <1>3
  <2>2. ~ (m <= m - 1)
    BY <1>3
  <2>. QED  BY <1>6, <2>1, <2>2 DEF UpTo
<1>8. Cardinality(UpTo(I, m)) = Cardinality(UpTo(I, m - 1)) + 1
  <2>1. IsFiniteSet(UpTo(I, m - 1))
    BY <1>5, UpToFinite
  <2>. QED  BY <1>7, <2>1, FS_AddElement
<1>9. Cardinality(UpTo(I, m - 1)) \in Nat /\ Cardinality(I) \in Nat
  BY <1>5, UpToFinite
<1>10. Cardinality(UpTo(I, m)) = k
  BY <1>3, <1>5, <1>8, <1>9
<1>. QED  BY <1>6, <1>10

(* Nth enumerates positions upwards.                                          *)
LEMMA NthIs ==
    ASSUME NEW n \in Nat, NEW I \in SUBSET (1..n)
    PROVE  /\ Cardinality(I) \in Nat
           /\ \A k \in 1..Cardinality(I) : Nth(I, k) \in I
           /\ \A k, l \in 1..Cardinality(I) : k < l => Nth(I, k) < Nth(I, l)
           /\ \A i \in I : \E k \in 1..Cardinality(I) : Nth(I, k) = i
<1>1. Cardinality(I) \in Nat
  BY UpToFinite
<1>2. ASSUME NEW k \in 1..Cardinality(I)
      PROVE  Nth(I, k) \in I /\ Cardinality(UpTo(I, Nth(I, k))) = k
  <2>1. \E i \in I : Cardinality(UpTo(I, i)) = k
    BY NthExists
  <2>. QED  BY <2>1 DEF Nth, UpTo
<1>3. ASSUME NEW k \in 1..Cardinality(I), NEW l \in 1..Cardinality(I), k < l
      PROVE  Nth(I, k) < Nth(I, l)
  <2>1. PICK i \in I, j \in I : i = Nth(I, k) /\ j = Nth(I, l)
    BY <1>2
  <2>2. Cardinality(UpTo(I, i)) = k /\ Cardinality(UpTo(I, j)) = l
    BY <1>2, <2>1
  <2>3. i \in Nat /\ j \in Nat /\ k \in Nat /\ l \in Nat
    BY <1>1
  <2>4. j < i => l < k
    BY <2>2, UpToGrows
  <2>. QED  BY <1>3, <2>1, <2>2, <2>3, <2>4
<1>4. ASSUME NEW i \in I PROVE \E k \in 1..Cardinality(I) : Nth(I, k) = i
  <2>1. PICK k : k = Cardinality(UpTo(I, i))
    OBVIOUS
  <2>2. k \in 1..Cardinality(I)
    <3>1. i \in UpTo(I, i) /\ i \in Nat
      BY DEF UpTo
    <3>2. IsFiniteSet(UpTo(I, i)) /\ k \in Nat /\ k <= Cardinality(I)
      BY <2>1, <3>1, UpToFinite
    <3>3. k # 0
      BY <2>1, <3>1, <3>2, FS_EmptySet
    <3>. QED  BY <1>1, <3>2, <3>3
  <2>3. PICK j \in I : j = Nth(I, k) /\ Cardinality(UpTo(I, j)) = k
    BY <1>2, <2>2
  <2>4. ~ (i < j) /\ ~ (j < i)
    BY <1>1, <2>1, <2>2, <2>3, UpToGrows
  <2>. QED  BY <2>2, <2>3, <2>4
<1>. QED  BY <1>1, <1>2, <1>3, <1>4

(* Where the elements w come from: all those of s that are in S.              *)
Picks(from, w, s, S) ==
    /\ from \in [1..Len(w) -> DOMAIN s]
    /\ \A k \in 1..Len(w) : w[k] = s[from[k]]
    /\ \A k, l \in 1..Len(w) : k < l => from[k] < from[l]
    /\ \A x \in DOMAIN s : s[x] \in S => \E k \in 1..Len(w) : from[k] = x

(* Kept takes the elements of S, all of them, in their order.                 *)
LEMMA KeptIs ==
    ASSUME NEW X, NEW s \in Seq(X), NEW S
    PROVE  \E w \in Seq(X \cap S) : w = Kept(s, S) /\ \E from : Picks(from, w, s, S)
<1>. DEFINE I == {i \in DOMAIN s : s[i] \in S}
            c == Cardinality(I)
            g == [k \in 1..c |-> Nth(I, k)]
<1>1. Len(s) \in Nat /\ DOMAIN s = 1..Len(s) /\ \A i \in DOMAIN s : s[i] \in X
  BY LenProperties, ElementOfSeq
<1>2. I \in SUBSET (1..Len(s))
  BY <1>1
<1>. HIDE DEF I
<1>3. /\ c \in Nat
      /\ \A k \in 1..c : Nth(I, k) \in I
      /\ \A k, l \in 1..c : k < l => Nth(I, k) < Nth(I, l)
      /\ \A i \in I : \E k \in 1..c : Nth(I, k) = i
  BY <1>1, <1>2, NthIs
<1>4. Kept(s, S) = [k \in 1..c |-> s[Nth(I, k)]]
  BY DEF Kept, I
<1>. HIDE DEF c
<1>5. \A i \in I : s[i] \in X \cap S /\ i \in DOMAIN s
  BY <1>1 DEF I
<1>6. Kept(s, S) \in [1..c -> X \cap S]
  BY <1>3, <1>4, <1>5
<1>7. Kept(s, S) \in Seq(X \cap S) /\ Len(Kept(s, S)) = c
  BY <1>3, <1>6
<1>8. g \in [1..c -> DOMAIN s]
  BY <1>3, <1>5
<1>9. /\ \A k \in 1..c : Kept(s, S)[k] = s[g[k]]
      /\ \A k, l \in 1..c : k < l => g[k] < g[l]
      /\ \A i \in DOMAIN s : s[i] \in S => \E k \in 1..c : g[k] = i
  <2>1. \A i \in DOMAIN s : s[i] \in S => i \in I
    BY DEF I
  <2>. QED  BY <1>3, <1>4, <2>1
<1>. HIDE DEF g
<1>10. PICK w \in Seq(X \cap S) : w = Kept(s, S) /\ Len(w) = c
  BY <1>7
<1>11. Picks(g, w, s, S)
  BY <1>8, <1>9, <1>10 DEF Picks
<1>. QED  BY <1>10, <1>11

(* What FlattenSeq has after each of m sequences.                             *)
Flattens(f, ss, m) == f = [i \in 1..m |-> IF i = 1 THEN ss[i] ELSE f[i - 1] \o ss[i]]

IsFlattening(f, ss, n) ==
    /\ f[1] = ss[1] /\ \A i \in 2..n : f[i] = f[i - 1] \o ss[i]
    /\ FlattenSeq(ss) = f[n]

LEMMA FlattenFolds ==
    ASSUME NEW X, NEW n \in Nat \ {0}, NEW ss \in [1..n -> Seq(X)]
    PROVE  \E f : IsFlattening(f, ss, n)
<1>1. Len(ss) = n
  OBVIOUS
<1>2. \E f : Flattens(f, ss, n)
  <2>. DEFINE T == {m \in Nat : m \in 1..n /\ ~ \E f : Flattens(f, ss, m)}
  <2> SUFFICES ASSUME T # {} PROVE FALSE
    <3>1. n \in Nat /\ n \in 1..n
      OBVIOUS
    <3>. QED  BY <3>1
  <2>1. PICK m \in T : \A l \in T : m <= l
    BY Smallest
  <2>2. m \in 1..n /\ (~ \E f : Flattens(f, ss, m)) /\ \A l \in 1..n : l < m => \E f : Flattens(f, ss, l)
    <3>1. m \in 1..n /\ m \in Nat
      BY <2>1
    <3>2. ASSUME NEW l \in 1..n, l < m PROVE \E f : Flattens(f, ss, l)
      <4>1. l \in Nat /\ ~ (m <= l)
        BY <3>1, <3>2
      <4>2. l \notin T
        BY <2>1, <4>1
      <4>. QED  BY <4>1, <4>2
    <3>. QED  BY <2>1, <3>1, <3>2
  <2>. HIDE DEF T
  <2>3. CASE m = 1
    <3>1. Flattens([i \in 1..1 |-> ss[i]], ss, 1)
      BY DEF Flattens
    <3>. QED  BY <2>2, <2>3, <3>1
  <2>4. CASE m # 1
    <3>1. PICK f : Flattens(f, ss, m - 1)
      <4>1. m - 1 \in 1..n /\ m - 1 < m
        BY <2>2, <2>4
      <4>. QED  BY <2>2, <4>1
    <3>. DEFINE g == [i \in 1..m |-> IF i = m THEN f[m - 1] \o ss[m] ELSE f[i]]
    <3>2. \A i \in 1..m : i # m => i \in 1..(m - 1) /\ g[i] = f[i]
      BY <2>2, <2>4
    <3>3. g[m] = f[m - 1] \o ss[m] /\ g[m - 1] = f[m - 1] /\ m - 1 \in 1..m
      BY <2>2, <2>4
    <3>. HIDE DEF g
    <3>4. ASSUME NEW i \in 1..m
          PROVE  g[i] = IF i = 1 THEN ss[i] ELSE g[i - 1] \o ss[i]
      <4>1. CASE i = m
        BY <2>4, <3>3, <4>1
      <4>2. CASE i # m
        <5>1. i \in 1..(m - 1) /\ g[i] = f[i]
          BY <3>2, <4>2
        <5>2. f[i] = IF i = 1 THEN ss[i] ELSE f[i - 1] \o ss[i]
          BY <3>1, <5>1 DEF Flattens
        <5>3. i # 1 => i - 1 \in 1..m /\ i - 1 # m
          BY <2>2, <5>1
        <5>. QED  BY <3>2, <5>1, <5>2, <5>3
      <4>. QED  BY <4>1, <4>2
    <3>5. Flattens(g, ss, m)
      <4>1. g = [i \in 1..m |-> g[i]]
        BY DEF g
      <4>. QED  BY <3>4, <4>1 DEF Flattens
    <3>. QED  BY <2>2, <3>5
  <2>. QED  BY <2>3, <2>4
<1>3. PICK f : Flattens(f, ss, n) /\ FlattenSeq(ss) = f[n]
  <2>1. n # 0
    OBVIOUS
  <2>. QED  BY <1>1, <1>2, <2>1 DEF FlattenSeq, Flattens
<1>4. f[1] = ss[1] /\ \A i \in 2..n : f[i] = f[i - 1] \o ss[i]
  <2>1. \A i \in 1..n : f[i] = IF i = 1 THEN ss[i] ELSE f[i - 1] \o ss[i]
    BY <1>3 DEF Flattens
  <2>2. \A i \in 2..n : i \in 1..n /\ i # 1
    OBVIOUS
  <2>3. 1 \in 1..n
    OBVIOUS
  <2>. QED  BY <2>1, <2>2, <2>3
<1>. QED  BY <1>3, <1>4 DEF IsFlattening

(* What is flattened begins with the first of the sequences, and is as long   *)
(* as that and any other of them.                                             *)
LEMMA FlattenIs ==
    ASSUME NEW X, NEW n \in Nat \ {0}, NEW ss \in [1..n -> Seq(X)]
    PROVE  /\ FlattenSeq(ss) \in Seq(X)
           /\ n = 1 => FlattenSeq(ss) = ss[1]
           /\ Len(FlattenSeq(ss)) >= Len(ss[1])
           /\ ss[1] # <<>> => FlattenSeq(ss) # <<>> /\ FlattenSeq(ss)[1] = ss[1][1]
           /\ \A l \in 2..n : Len(FlattenSeq(ss)) >= Len(ss[1]) + Len(ss[l])
<1>3. PICK f : IsFlattening(f, ss, n)
  BY FlattenFolds
<1>4. /\ f[1] = ss[1] /\ \A i \in 2..n : f[i] = f[i - 1] \o ss[i]
      /\ FlattenSeq(ss) = f[n]
  BY <1>3 DEF IsFlattening
<1>5. \A i \in 1..n : ss[i] \in Seq(X) /\ Len(ss[i]) \in Nat
  <2> SUFFICES ASSUME NEW i \in 1..n PROVE ss[i] \in Seq(X) /\ Len(ss[i]) \in Nat
    OBVIOUS
  <2>1. ss[i] \in Seq(X)
    OBVIOUS
  <2>. QED  BY <2>1, LenProperties
<1>. DEFINE Good(m) == /\ f[m] \in Seq(X)
                       /\ Len(f[m]) >= Len(ss[1])
                       /\ ss[1] # <<>> => f[m] # <<>> /\ f[m][1] = ss[1][1]
                       /\ \A l \in 2..m : Len(f[m]) >= Len(ss[1]) + Len(ss[l])
            Bad == {m \in Nat : m \in 1..n /\ ~ Good(m)}
<1>6. Good(1)
  <2>1. ss[1] \in Seq(X) /\ Len(ss[1]) \in Nat
    BY <1>5
  <2>. QED  BY <1>4, <2>1
<1>7. ASSUME NEW m \in 2..n, Good(m - 1) PROVE Good(m)
  <2>1. m - 1 \in 1..n /\ f[m - 1] \in Seq(X) /\ m \in 1..n /\ 1 \in 1..n
    BY <1>7
  <2>2. PICK a \in Seq(X) : a = f[m - 1]
    BY <2>1
  <2>3. PICK b \in Seq(X) : b = ss[m] /\ f[m] = a \o b
    BY <1>4, <1>5, <2>1, <2>2
  <2>4. /\ f[m] \in Seq(X) /\ Len(f[m]) = Len(a) + Len(b)
        /\ \A i \in 1..(Len(a) + Len(b)) : f[m][i] = IF i <= Len(a) THEN a[i] ELSE b[i - Len(a)]
    BY <2>3, ConcatProperties
  <2>5. Len(a) \in Nat /\ Len(b) \in Nat /\ Len(ss[1]) \in Nat
    BY <1>5, <2>1, LenProperties
  <2>6. Len(a) >= Len(ss[1]) /\ Len(f[m]) >= Len(ss[1])
    BY <1>7, <2>2, <2>4, <2>5
  <2>7. ASSUME ss[1] # <<>> PROVE f[m] # <<>> /\ f[m][1] = ss[1][1]
    <3>1. a # <<>> /\ a[1] = ss[1][1]
      BY <1>7, <2>2, <2>7
    <3>2. Len(a) >= 1
      BY <2>5, <3>1, EmptySeq
    <3>3. f[m][1] = a[1] /\ Len(f[m]) # 0
      BY <2>4, <2>5, <3>2
    <3>. QED  BY <3>1, <3>3, EmptySeq
  <2>8. ASSUME NEW l \in 2..m PROVE Len(f[m]) >= Len(ss[1]) + Len(ss[l])
    <3>1. CASE l = m
      BY <2>3, <2>4, <2>5, <2>6, <3>1
    <3>2. CASE l # m
      <4>1. l \in 2..(m - 1) /\ l \in 1..n
        BY <3>2
      <4>2. Len(ss[l]) \in Nat
        BY <1>5, <4>1
      <4>3. Len(a) >= Len(ss[1]) + Len(ss[l])
        BY <1>7, <2>2, <4>1
      <4>4. PICK x \in Nat, y \in Nat, c \in Nat, d \in Nat :
              x = Len(ss[1]) /\ y = Len(ss[l]) /\ c = Len(a) /\ d = Len(b)
        BY <2>5, <4>2
      <4>5. c >= x + y /\ Len(f[m]) = c + d
        BY <2>4, <4>3, <4>4
      <4>6. c + d >= x + y
        BY <4>5
      <4>. QED  BY <4>4, <4>5, <4>6
    <3>. QED  BY <3>1, <3>2
  <2>. QED  BY <2>4, <2>6, <2>7, <2>8
<1>8. Good(n)
  <2> SUFFICES ASSUME n \in Bad PROVE FALSE
    <3>1. n \in Nat /\ n \in 1..n
      OBVIOUS
    <3>. HIDE DEF Good
    <3>. QED  BY <3>1
  <2>1. PICK m \in Bad : \A l \in Bad : m <= l
    BY Smallest
  <2>2. m \in 1..n /\ ~ Good(m)
    BY <2>1
  <2>3. m # 1
    BY <1>6, <2>2
  <2>4. m - 1 \in 1..n /\ m \in 2..n /\ m - 1 \notin Bad
    BY <2>1, <2>2, <2>3
  <2>5. Good(m - 1)
    <3>. HIDE DEF Good
    <3>. QED  BY <2>4
  <2>. QED  BY <1>7, <2>2, <2>4, <2>5
<1>9. n = 1 => f[n] = ss[1]
  BY <1>4
<1>. QED  BY <1>4, <1>8, <1>9

-----------------------------------------------------------------------------
(* Pieces in the order they are said, and chunks *)

(* Where a piece comes among all that is said.                                *)
Real == [sentence : Nat \ {0}, part : Parts]
PlaceOf == [p \in Parts |-> CASE p = "$" -> 0 [] p = "text" -> 1 [] p = "*" -> 2 [] p = "CRLF" -> 3]
Rank(p) == 4 * p.sentence + PlaceOf[p.part]

LEMMA PieceSorts ==
    /\ Pieces = {Noise} \cup Real /\ Noise \notin Real
    /\ Noise.part = "noise" /\ Noise.sentence = 0
    /\ \A p \in Pieces : p.sentence \in Nat /\ (p # Noise <=> p \in Real) /\ (p # Noise <=> p.part # "noise")
<1>. USE DEF Pieces, Noise, Real, Piece, Parts
<1>1. Noise.part = "noise" /\ Noise.sentence = 0
  OBVIOUS
<1>2. \A p \in Real : p.part # "noise" /\ p.sentence \in Nat
  OBVIOUS
<1>3. Noise \notin Real
  BY <1>1, <1>2
<1>. QED  BY <1>1, <1>2, <1>3

LEMMA RankNat ==
    ASSUME NEW p \in Real
    PROVE  PlaceOf[p.part] \in 0..3 /\ Rank(p) \in Nat
BY DEF Real, PlaceOf, Rank, Parts

LEMMA RankOne ==
    ASSUME NEW p \in Real, NEW q \in Real
    PROVE  /\ Rank(p) = Rank(q) => p = q
           /\ p.sentence < q.sentence => Rank(p) < Rank(q)
           /\ Rank(p) < Rank(q) => p.sentence <= q.sentence
           /\ p.sentence = q.sentence => (Rank(p) < Rank(q) <=> PlaceOf[p.part] < PlaceOf[q.part])
<1>1. PICK a \in Nat, i \in 0..3 : a = p.sentence /\ i = PlaceOf[p.part] /\ Rank(p) = 4 * a + i
  BY RankNat DEF Rank, Real
<1>2. PICK b \in Nat, j \in 0..3 : b = q.sentence /\ j = PlaceOf[q.part] /\ Rank(q) = 4 * b + j
  BY RankNat DEF Rank, Real
<1>3. /\ 4 * a + i = 4 * b + j => a = b /\ i = j
      /\ a < b => 4 * a + i < 4 * b + j
      /\ 4 * a + i < 4 * b + j => a <= b
      /\ a = b => (4 * a + i < 4 * b + j <=> i < j)
  OBVIOUS
<1>4. i = j => p.part = q.part
  BY <1>1, <1>2 DEF Real, PlaceOf, Parts
<1>5. p.sentence = q.sentence /\ p.part = q.part => p = q
  BY DEF Real
<1>. QED  BY <1>1, <1>2, <1>3, <1>4, <1>5

LEMMA Onwards ==
    ASSUME NEW p \in Real
    PROVE  LET q == Piece(p.sentence + (IF p.part = "CRLF" THEN 1 ELSE 0), After[p.part])
           IN  q \in Real /\ Rank(q) = Rank(p) + 1
<1>. DEFINE q == Piece(p.sentence + (IF p.part = "CRLF" THEN 1 ELSE 0), After[p.part])
<1>0. p.sentence \in Nat \ {0} /\ p.part \in Parts
  BY DEF Real
<1>1. CASE p.part = "CRLF"
  <2>1. q = [sentence |-> p.sentence + 1, part |-> "$"]
    BY <1>1 DEF Piece, After, Parts
  <2>2. q \in Real /\ q.sentence = p.sentence + 1 /\ q.part = "$"
    BY <1>0, <2>1 DEF Real, Parts
  <2>3. PlaceOf["CRLF"] = 3 /\ PlaceOf["$"] = 0
    BY DEF PlaceOf, Parts
  <2>4. PICK a \in Nat : a = p.sentence
    BY <1>0
  <2>5. Rank(q) = 4 * (a + 1) + 0 /\ Rank(p) = 4 * a + 3
    BY <1>1, <2>2, <2>3, <2>4 DEF Rank
  <2>. QED  BY <2>2, <2>4, <2>5
<1>2. CASE p.part # "CRLF"
  <2>1. q = [sentence |-> p.sentence, part |-> After[p.part]] /\ After[p.part] \in Parts
    BY <1>0, <1>2 DEF Piece, After, Parts
  <2>2. q \in Real /\ q.sentence = p.sentence /\ q.part = After[p.part]
    BY <1>0, <2>1 DEF Real
  <2>3. PlaceOf[After[p.part]] = PlaceOf[p.part] + 1
    BY <1>0, <1>2 DEF PlaceOf, After, Parts
  <2>. QED  BY <1>0, <2>2, <2>3, RankNat DEF Rank
<1>. QED  BY <1>1, <1>2

-----------------------------------------------------------------------------
(* What arrives is in line, and what lies between two pieces of it is there   *)
(* or damaged.                                                                *)

InLine(s) ==
    /\ s \in Seq(Pieces)
    /\ \A i, j \in DOMAIN s : i < j /\ s[i] # Noise /\ s[j] # Noise => Rank(s[i]) < Rank(s[j])

Within(p, s) == \E k \in DOMAIN s : s[k] = p

(* s goes on to what comes next, when what was damaged is lost.               *)
ReachesTo(s, next, lost) ==
    \A i \in DOMAIN s : s[i] # Noise =>
        /\ Rank(s[i]) < Rank(next)
        /\ \A q \in Real : Rank(s[i]) < Rank(q) /\ Rank(q) < Rank(next) => q \in lost \/ Within(q, s)

Whole(s, lost) ==
    \A i, j \in DOMAIN s : s[i] # Noise /\ s[j] # Noise =>
        \A q \in Real : Rank(s[i]) < Rank(q) /\ Rank(q) < Rank(s[j]) => q \in lost \/ Within(q, s)

IsChunk(c, lost) ==
    /\ InLine(c) /\ Whole(c, lost)
    /\ c # <<>> /\ c[1].part = "$"
    /\ \A i \in DOMAIN c : c[i].part = "$" => i = 1

(* One piece more.                                                            *)
LEMMA Longer ==
    ASSUME NEW s, InLine(s), NEW p \in Pieces,
           p # Noise => \A i \in DOMAIN s : s[i] # Noise => Rank(s[i]) < Rank(p)
    PROVE  InLine(Append(s, p)) /\ DOMAIN Append(s, p) = DOMAIN s \cup {Len(s) + 1}
           /\ (\A i \in DOMAIN s : Append(s, p)[i] = s[i]) /\ Append(s, p)[Len(s) + 1] = p
<1>1. s \in Seq(Pieces) /\ Len(s) \in Nat /\ DOMAIN s = 1..Len(s)
  BY LenProperties DEF InLine
<1>2. /\ Append(s, p) \in Seq(Pieces) /\ Len(Append(s, p)) = Len(s) + 1
      /\ \A i \in 1..Len(s) : Append(s, p)[i] = s[i]
      /\ Append(s, p)[Len(s) + 1] = p
  BY <1>1, AppendProperties
<1>3. DOMAIN Append(s, p) = 1..(Len(s) + 1)
  BY <1>1, <1>2, LenProperties
<1>4. 1..(Len(s) + 1) = (1..Len(s)) \cup {Len(s) + 1}
  BY <1>1
<1>5. ASSUME NEW i \in DOMAIN Append(s, p), NEW j \in DOMAIN Append(s, p), i < j,
             Append(s, p)[i] # Noise, Append(s, p)[j] # Noise
      PROVE  Rank(Append(s, p)[i]) < Rank(Append(s, p)[j])
  <2>1. i \in DOMAIN s
    BY <1>1, <1>3, <1>5
  <2>2. CASE j \in DOMAIN s
    BY <1>1, <1>2, <1>5, <2>1, <2>2 DEF InLine
  <2>3. CASE j = Len(s) + 1
    BY <1>1, <1>2, <1>5, <2>1, <2>3
  <2>. QED  BY <1>1, <1>3, <1>4, <2>2, <2>3
<1>. QED  BY <1>1, <1>2, <1>3, <1>4, <1>5 DEF InLine

LEMMA Heard1 ==
    ASSUME NEW s, InLine(s), NEW p \in Real, NEW lost, ReachesTo(s, p, lost),
           NEW next \in Real, Rank(next) = Rank(p) + 1
    PROVE  InLine(Append(s, p)) /\ ReachesTo(Append(s, p), next, lost)
<1>1. p \in Pieces /\ p # Noise
  BY PieceSorts
<1>2. \A i \in DOMAIN s : s[i] # Noise => Rank(s[i]) < Rank(p)
  BY DEF ReachesTo
<1>3. /\ InLine(Append(s, p)) /\ DOMAIN Append(s, p) = DOMAIN s \cup {Len(s) + 1}
      /\ \A i \in DOMAIN s : Append(s, p)[i] = s[i]
      /\ Append(s, p)[Len(s) + 1] = p
  BY <1>1, <1>2, Longer
<1>4. \A q : Within(q, s) => Within(q, Append(s, p))
  BY <1>3 DEF Within
<1>5. Within(p, Append(s, p))
  BY <1>3 DEF Within
<1>6. \A i \in DOMAIN s : s[i] # Noise => Rank(s[i]) \in Nat
  <2> SUFFICES ASSUME NEW i \in DOMAIN s, s[i] # Noise PROVE Rank(s[i]) \in Nat
    OBVIOUS
  <2>1. s[i] \in Pieces
    BY ElementOfSeq, LenProperties DEF InLine
  <2>. QED  BY <2>1, PieceSorts, RankNat
<1>7. Rank(p) \in Nat /\ \A q \in Real : Rank(q) \in Nat
  BY RankNat
<1>8. ASSUME NEW i \in DOMAIN Append(s, p), Append(s, p)[i] # Noise
      PROVE  /\ Rank(Append(s, p)[i]) < Rank(next)
             /\ \A q \in Real : Rank(Append(s, p)[i]) < Rank(q) /\ Rank(q) < Rank(next)
                                    => q \in lost \/ Within(q, Append(s, p))
  <2>1. CASE i \in DOMAIN s
    <3>1. Append(s, p)[i] = s[i] /\ s[i] # Noise /\ Rank(s[i]) < Rank(p) /\ Rank(s[i]) \in Nat
      BY <1>2, <1>3, <1>6, <1>8, <2>1
    <3>2. ASSUME NEW q \in Real, Rank(s[i]) < Rank(q), Rank(q) < Rank(next)
          PROVE  q \in lost \/ Within(q, Append(s, p))
      <4>1. CASE Rank(q) = Rank(p)
        BY <1>5, <4>1, RankOne
      <4>2. CASE Rank(q) < Rank(p)
        BY <1>4, <2>1, <3>1, <3>2, <4>2 DEF ReachesTo
      <4>. QED  BY <1>7, <3>2, <4>1, <4>2
    <3>. QED  BY <1>7, <3>1, <3>2
  <2>2. CASE i = Len(s) + 1
    BY <1>3, <1>7, <2>2
  <2>. QED  BY <1>3, <2>1, <2>2
<1>. QED  BY <1>3, <1>8 DEF ReachesTo

LEMMA Missed ==
    ASSUME NEW s, InLine(s), NEW p \in Real, NEW lost, ReachesTo(s, p, lost),
           NEW next \in Real, Rank(next) = Rank(p) + 1
    PROVE  /\ ReachesTo(s, next, lost \cup {p})
           /\ InLine(Append(s, Noise)) /\ ReachesTo(Append(s, Noise), next, lost \cup {p})
<1>1. Noise \in Pieces
  BY PieceSorts
<1>2. /\ InLine(Append(s, Noise)) /\ DOMAIN Append(s, Noise) = DOMAIN s \cup {Len(s) + 1}
      /\ \A i \in DOMAIN s : Append(s, Noise)[i] = s[i]
      /\ Append(s, Noise)[Len(s) + 1] = Noise
  BY <1>1, Longer
<1>3. \A q : Within(q, s) => Within(q, Append(s, Noise))
  BY <1>2 DEF Within
<1>4. ASSUME NEW i \in DOMAIN s, s[i] # Noise
      PROVE  /\ Rank(s[i]) < Rank(next)
             /\ \A q \in Real : Rank(s[i]) < Rank(q) /\ Rank(q) < Rank(next)
                                    => q \in lost \cup {p} \/ Within(q, s)
  <2>1. s[i] \in Pieces
    BY ElementOfSeq, LenProperties DEF InLine
  <2>2. Rank(s[i]) \in Nat /\ Rank(s[i]) < Rank(p) /\ Rank(p) \in Nat
    BY <1>4, <2>1, PieceSorts, RankNat DEF ReachesTo
  <2>3. ASSUME NEW q \in Real, Rank(s[i]) < Rank(q), Rank(q) < Rank(next)
        PROVE  q \in lost \cup {p} \/ Within(q, s)
    <3>1. Rank(q) \in Nat
      BY RankNat
    <3>2. CASE Rank(q) = Rank(p)
      BY <3>2, RankOne
    <3>3. CASE Rank(q) < Rank(p)
      BY <1>4, <2>3, <3>3 DEF ReachesTo
    <3>. QED  BY <2>2, <2>3, <3>1, <3>2, <3>3
  <2>. QED  BY <2>2, <2>3
<1>5. ReachesTo(s, next, lost \cup {p})
  BY <1>4 DEF ReachesTo
<1>6. ReachesTo(Append(s, Noise), next, lost \cup {p})
  <2>1. \A i \in DOMAIN Append(s, Noise) :
           Append(s, Noise)[i] # Noise => i \in DOMAIN s /\ Append(s, Noise)[i] = s[i]
    BY <1>2
  <2>. QED  BY <1>3, <1>5, <2>1 DEF ReachesTo
<1>. QED  BY <1>2, <1>5, <1>6

(* What has been read is whole.                                               *)
LEMMA ReachesWhole ==
    ASSUME NEW s, InLine(s), NEW next \in Real, NEW lost, ReachesTo(s, next, lost)
    PROVE  Whole(s, lost)
<1> SUFFICES ASSUME NEW i \in DOMAIN s, NEW j \in DOMAIN s, s[i] # Noise, s[j] # Noise,
                    NEW q \in Real, Rank(s[i]) < Rank(q), Rank(q) < Rank(s[j])
             PROVE  q \in lost \/ Within(q, s)
  BY DEF Whole
<1>1. s[j] \in Pieces
  BY ElementOfSeq, LenProperties DEF InLine
<1>2. Rank(s[j]) < Rank(next) /\ Rank(s[j]) \in Nat /\ Rank(q) \in Nat /\ Rank(next) \in Nat
  BY <1>1, PieceSorts, RankNat DEF ReachesTo
<1>3. Rank(q) < Rank(next)
  BY <1>2
<1>. QED  BY <1>3 DEF ReachesTo

-----------------------------------------------------------------------------
(* Chunks *)

(* Where n chunks are cut from what was read: from a "$" to before the next.  *)
Cuts(s, n, from, to) ==
    /\ Split(s) = [k \in 1..n |-> SubSeq(s, from[k], to[k])]
    /\ \A k \in 1..n : /\ from[k] <= to[k] /\ s[from[k]].part = "$"
                       /\ \A i \in from[k]..to[k] : s[i].part = "$" => i = from[k]
                       /\ to[k] # Len(s) => to[k] + 1 \in 1..Len(s) /\ s[to[k] + 1].part = "$"
    /\ \A k, l \in 1..n : k < l => to[k] < from[l]
    /\ \A i \in 1..Len(s) : s[i].part = "$" => \E k \in 1..n : from[k] = i

LEMMA SplitIs ==
    ASSUME NEW s \in Seq(Pieces)
    PROVE  \E n \in Nat : \E from, to \in [1..n -> 1..Len(s)] : Cuts(s, n, from, to)
<1>. DEFINE I == {i \in DOMAIN s : s[i].part = "$"}
            n == Cardinality(I)
            from == [k \in 1..n |-> Nth(I, k)]
            to == [k \in 1..n |-> IF k = n THEN Len(s) ELSE Nth(I, k + 1) - 1]
<1>1. Len(s) \in Nat /\ DOMAIN s = 1..Len(s)
  BY LenProperties
<1>2. I \in SUBSET (1..Len(s))
  BY <1>1
<1>. HIDE DEF I
<1>3. /\ n \in Nat
      /\ \A k \in 1..n : Nth(I, k) \in I
      /\ \A k, l \in 1..n : k < l => Nth(I, k) < Nth(I, l)
      /\ \A i \in I : \E k \in 1..n : Nth(I, k) = i
  BY <1>1, <1>2, NthIs
<1>4. Split(s) = [k \in 1..n |-> SubSeq(s, Nth(I, k), IF k = n THEN Len(s) ELSE Nth(I, k + 1) - 1)]
  BY DEF Split, ChunksAt, I
<1>. HIDE DEF n
<1>5. \A k \in 1..n : from[k] \in I /\ from[k] \in 1..Len(s)
  BY <1>2, <1>3
<1>6. ASSUME NEW k \in 1..n
      PROVE  /\ to[k] \in 1..Len(s) /\ from[k] <= to[k]
             /\ k # n => k + 1 \in 1..n /\ to[k] = from[k + 1] - 1
             /\ k = n => to[k] = Len(s)
  <2>1. CASE k = n
    BY <1>1, <1>3, <1>5, <2>1
  <2>2. CASE k # n
    <3>1. k + 1 \in 1..n /\ k < k + 1
      BY <1>3, <2>2
    <3>2. to[k] = from[k + 1] - 1 /\ from[k] < from[k + 1]
      BY <1>3, <2>2, <3>1
    <3>3. from[k] \in 1..Len(s) /\ from[k + 1] \in 1..Len(s)
      BY <1>5, <3>1
    <3>. QED  BY <1>1, <2>2, <3>1, <3>2, <3>3
  <2>. QED  BY <2>1, <2>2
<1>7. \A k, l \in 1..n : k < l => from[k] < from[l]
  BY <1>3
<1>8. \A i \in I : \E k \in 1..n : from[k] = i
  BY <1>3
<1>9. Split(s) = [k \in 1..n |-> SubSeq(s, from[k], to[k])]
  BY <1>4
<1>10. from \in [1..n -> 1..Len(s)] /\ to \in [1..n -> 1..Len(s)]
  <2>1. from = [k \in 1..n |-> from[k]] /\ to = [k \in 1..n |-> to[k]]
    OBVIOUS
  <2>. HIDE DEF from, to
  <2>. QED  BY <1>5, <1>6, <2>1
<1>. HIDE DEF from, to
<1>11. ASSUME NEW k \in 1..n, NEW l \in 1..n, k < l PROVE to[k] < from[l]
  <2>1. k + 1 \in 1..n /\ to[k] = from[k + 1] - 1 /\ (k + 1 < l \/ k + 1 = l)
    BY <1>3, <1>6, <1>11
  <2>2. from[k + 1] \in Nat /\ from[l] \in Nat /\ from[k + 1] <= from[l]
    BY <1>5, <1>7, <2>1
  <2>. QED  BY <2>1, <2>2
<1>12. ASSUME NEW k \in 1..n, NEW i \in from[k]..to[k], s[i].part = "$" PROVE i = from[k]
  <2>1. from[k] \in 1..Len(s) /\ to[k] \in 1..Len(s)
    BY <1>5, <1>6
  <2>2. i \in I
    BY <1>1, <1>12, <2>1 DEF I
  <2>3. PICK l \in 1..n : from[l] = i
    BY <1>8, <2>2
  <2>4. ~ (l < k)
    BY <1>5, <1>7, <2>1, <2>3
  <2>5. ~ (k < l)
    BY <1>5, <1>11, <2>1, <2>3
  <2>. QED  BY <1>3, <2>3, <2>4, <2>5
<1>13. \A k \in 1..n : s[from[k]].part = "$"
  BY <1>5 DEF I
<1>14. \A k \in 1..n : /\ from[k] <= to[k] /\ s[from[k]].part = "$"
                        /\ \A i \in from[k]..to[k] : s[i].part = "$" => i = from[k]
  BY <1>6, <1>12, <1>13
<1>19. \A k \in 1..n : to[k] # Len(s) => to[k] + 1 \in 1..Len(s) /\ s[to[k] + 1].part = "$"
  <2> SUFFICES ASSUME NEW k \in 1..n, to[k] # Len(s)
               PROVE  to[k] + 1 \in 1..Len(s) /\ s[to[k] + 1].part = "$"
    OBVIOUS
  <2>1. k + 1 \in 1..n /\ to[k] = from[k + 1] - 1
    BY <1>6
  <2>2. to[k] + 1 = from[k + 1]
    BY <1>5, <2>1
  <2>. QED  BY <1>5, <1>13, <2>1, <2>2
<1>20. \A i \in 1..Len(s) : s[i].part = "$" => \E k \in 1..n : from[k] = i
  BY <1>1, <1>8 DEF I
<1>15. n \in Nat
  BY <1>3
<1>16. PICK m \in Nat : m = n
  BY <1>15
<1>17. from \in [1..m -> 1..Len(s)] /\ to \in [1..m -> 1..Len(s)]
  BY <1>10, <1>16
<1>18. Cuts(s, m, from, to)
  BY <1>9, <1>11, <1>14, <1>16, <1>19, <1>20 DEF Cuts
<1>. QED  BY <1>17, <1>18

(* A piece of a chunk is one of what was read.                                *)
LEMMA SliceIs ==
    ASSUME NEW s \in Seq(Pieces), NEW a \in 1..Len(s), NEW b \in 1..Len(s), a <= b
    PROVE  /\ SubSeq(s, a, b) \in Seq(Pieces) /\ DOMAIN SubSeq(s, a, b) = 1..(b - a + 1)
           /\ \A i \in 1..(b - a + 1) : a + i - 1 \in a..b /\ SubSeq(s, a, b)[i] = s[a + i - 1]
<1>1. Len(s) \in Nat /\ DOMAIN s = 1..Len(s)
  BY LenProperties
<1>2. \A i \in a..b : s[i] \in Pieces
  BY <1>1, ElementOfSeq
<1>3. /\ SubSeq(s, a, b) \in Seq(Pieces) /\ Len(SubSeq(s, a, b)) = b - a + 1
      /\ \A i \in 1..(b - a + 1) : SubSeq(s, a, b)[i] = s[a + i - 1]
  BY <1>1, <1>2, SubSeqProperties
<1>4. DOMAIN SubSeq(s, a, b) = 1..(b - a + 1)
  BY <1>3, LenProperties
<1>. QED  BY <1>1, <1>3, <1>4

(* A chunk is in line and whole if what it was cut from is.                   *)
LEMMA SliceIsChunk ==
    ASSUME NEW s, InLine(s), NEW lost, Whole(s, lost),
           NEW a \in 1..Len(s), NEW b \in 1..Len(s), a <= b,
           s[a].part = "$", \A i \in a..b : s[i].part = "$" => i = a
    PROVE  IsChunk(SubSeq(s, a, b), lost)
<1>. DEFINE c == SubSeq(s, a, b)
            n == b - a + 1
<1>0. s \in Seq(Pieces) /\ Len(s) \in Nat /\ DOMAIN s = 1..Len(s)
  BY LenProperties DEF InLine
<1>1. /\ c \in Seq(Pieces) /\ DOMAIN c = 1..n
      /\ \A i \in 1..n : a + i - 1 \in a..b /\ c[i] = s[a + i - 1]
  BY <1>0, SliceIs
<1>2. n \in Nat \ {0} /\ a..b \subseteq DOMAIN s
  BY <1>0
<1>. HIDE DEF c
<1>3. InLine(c)
  <2>2. ASSUME NEW i \in 1..n, NEW j \in 1..n, i < j, c[i] # Noise, c[j] # Noise
        PROVE  Rank(c[i]) < Rank(c[j])
    <3>1. a + i - 1 \in DOMAIN s /\ a + j - 1 \in DOMAIN s /\ a + i - 1 < a + j - 1
      BY <1>1, <1>2, <2>2
    <3>. QED  BY <1>1, <2>2, <3>1 DEF InLine
  <2>. QED  BY <1>1, <2>2 DEF InLine
<1>4. Whole(c, lost)
  <2> SUFFICES ASSUME NEW i \in 1..n, NEW j \in 1..n, c[i] # Noise, c[j] # Noise,
                      NEW q \in Real, Rank(c[i]) < Rank(q), Rank(q) < Rank(c[j]), q \notin lost
               PROVE  Within(q, c)
    BY <1>1 DEF Whole
  <2>1. PICK x \in a..b, y \in a..b : x = a + i - 1 /\ y = a + j - 1 /\ c[i] = s[x] /\ c[j] = s[y]
    BY <1>1
  <2>2. x \in DOMAIN s /\ y \in DOMAIN s
    BY <1>2
  <2>3. PICK k \in DOMAIN s : s[k] = q
    BY <2>1, <2>2 DEF Whole, Within
  <2>4. q # Noise /\ Rank(q) \in Nat
    BY PieceSorts, RankNat
  <2>5. s[x] \in Real /\ s[y] \in Real
    <3>1. s[x] \in Pieces /\ s[y] \in Pieces
      BY <1>0, <2>2, ElementOfSeq
    <3>. QED  BY <2>1, <3>1, PieceSorts
  <2>6. Rank(s[x]) \in Nat /\ Rank(s[y]) \in Nat
    BY <2>5, RankNat
  <2>7. ~ (k < x) /\ k # x
    <3>1. k < x => Rank(s[k]) < Rank(s[x])
      BY <2>1, <2>2, <2>3, <2>4 DEF InLine
    <3>. QED  BY <2>1, <2>3, <2>4, <2>6, <3>1
  <2>8. ~ (y < k) /\ k # y
    <3>1. y < k => Rank(s[y]) < Rank(s[k])
      BY <2>1, <2>2, <2>3, <2>4 DEF InLine
    <3>. QED  BY <2>1, <2>3, <2>4, <2>6, <3>1
  <2>9. k - a + 1 \in 1..n /\ a + (k - a + 1) - 1 = k
    <3>1. k \in Nat /\ x \in Nat /\ y \in Nat /\ a \in Nat /\ b \in Nat
      BY <1>0
    <3>2. x < k /\ k < y /\ a <= x /\ y <= b
      BY <2>7, <2>8, <3>1
    <3>. QED  BY <3>1, <3>2
  <2>10. c[k - a + 1] = q
    BY <1>1, <2>3, <2>9
  <2>. QED  BY <1>1, <2>9, <2>10 DEF Within
<1>5. c # <<>> /\ c[1].part = "$"
  <2>1. 1 \in 1..n /\ a + 1 - 1 = a
    BY <1>2
  <2>2. c[1] = s[a]
    BY <1>1, <2>1
  <2>3. DOMAIN <<>> = {}
    BY EmptySeq
  <2>. QED  BY <1>1, <2>1, <2>2, <2>3
<1>6. ASSUME NEW i \in DOMAIN c, c[i].part = "$" PROVE i = 1
  <2>1. a + i - 1 \in a..b /\ s[a + i - 1].part = "$"
    BY <1>1, <1>6
  <2>2. a + i - 1 = a
    BY <2>1
  <2>. QED  BY <1>1, <1>2, <2>2
<1>. QED  BY <1>3, <1>4, <1>5, <1>6 DEF IsChunk, c

(* Chunks follow one another as what they were cut from.                      *)
InTurn(cs) ==
    \A k, l \in DOMAIN cs : k < l =>
        \A i \in DOMAIN cs[k], j \in DOMAIN cs[l] :
            cs[k][i] # Noise /\ cs[l][j] # Noise => Rank(cs[k][i]) < Rank(cs[l][j])

LEMMA SplitChunks ==
    ASSUME NEW s, InLine(s), NEW lost, Whole(s, lost)
    PROVE  /\ Split(s) \in Seq(Seq(Pieces))
           /\ \A k \in DOMAIN Split(s) :
                 /\ IsChunk(Split(s)[k], lost)
                 /\ \A i \in DOMAIN Split(s)[k] : Within(Split(s)[k][i], s)
           /\ InTurn(Split(s))
<1>0. s \in Seq(Pieces) /\ Len(s) \in Nat /\ DOMAIN s = 1..Len(s)
  BY LenProperties DEF InLine
<1>1. PICK n \in Nat : \E from, to \in [1..n -> 1..Len(s)] : Cuts(s, n, from, to)
  BY <1>0, SplitIs
<1>2. PICK from \in [1..n -> 1..Len(s)], to \in [1..n -> 1..Len(s)] : Cuts(s, n, from, to)
  BY <1>1
<1>3. DOMAIN Split(s) = 1..n /\ \A k \in 1..n : Split(s)[k] = SubSeq(s, from[k], to[k])
  BY <1>2 DEF Cuts
<1>4. ASSUME NEW k \in 1..n
      PROVE  /\ from[k] \in 1..Len(s) /\ to[k] \in 1..Len(s) /\ from[k] <= to[k]
             /\ Split(s)[k] \in Seq(Pieces)
             /\ \A i \in DOMAIN Split(s)[k] : \E x \in from[k]..to[k] : Split(s)[k][i] = s[x]
  <2>1. from[k] \in 1..Len(s) /\ to[k] \in 1..Len(s) /\ from[k] <= to[k]
    BY <1>2 DEF Cuts
  <2>2. PICK a \in 1..Len(s), b \in 1..Len(s) : a = from[k] /\ b = to[k] /\ a <= b
    BY <2>1
  <2>3. Split(s)[k] = SubSeq(s, a, b)
    BY <1>3, <2>2
  <2>4. /\ SubSeq(s, a, b) \in Seq(Pieces) /\ DOMAIN SubSeq(s, a, b) = 1..(b - a + 1)
        /\ \A i \in 1..(b - a + 1) : a + i - 1 \in a..b /\ SubSeq(s, a, b)[i] = s[a + i - 1]
    BY <1>0, <2>2, SliceIs
  <2>. QED  BY <2>1, <2>2, <2>3, <2>4
<1>5. ASSUME NEW k \in 1..n PROVE IsChunk(Split(s)[k], lost)
  <2>1. s[from[k]].part = "$" /\ \A i \in from[k]..to[k] : s[i].part = "$" => i = from[k]
    BY <1>2 DEF Cuts
  <2>2. PICK a \in 1..Len(s), b \in 1..Len(s) : a = from[k] /\ b = to[k]
    BY <1>4
  <2>3. a <= b /\ s[a].part = "$" /\ (\A i \in a..b : s[i].part = "$" => i = a)
    BY <1>4, <2>1, <2>2
  <2>4. IsChunk(SubSeq(s, a, b), lost)
    BY <2>3, SliceIsChunk
  <2>. QED  BY <1>3, <2>2, <2>4
<1>6. ASSUME NEW k \in 1..n, NEW i \in DOMAIN Split(s)[k] PROVE Within(Split(s)[k][i], s)
  <2>1. PICK x \in from[k]..to[k] : Split(s)[k][i] = s[x]
    BY <1>4
  <2>2. from[k] \in 1..Len(s) /\ to[k] \in 1..Len(s)
    BY <1>4
  <2>3. x \in DOMAIN s
    BY <1>0, <2>2
  <2>. QED  BY <2>1, <2>3 DEF Within
<1>7. InTurn(Split(s))
  <2> SUFFICES ASSUME NEW k \in 1..n, NEW l \in 1..n, k < l,
                      NEW i \in DOMAIN Split(s)[k], NEW j \in DOMAIN Split(s)[l],
                      Split(s)[k][i] # Noise, Split(s)[l][j] # Noise
               PROVE  Rank(Split(s)[k][i]) < Rank(Split(s)[l][j])
    BY <1>3 DEF InTurn
  <2>1. PICK x \in from[k]..to[k] : Split(s)[k][i] = s[x]
    BY <1>4
  <2>2. PICK y \in from[l]..to[l] : Split(s)[l][j] = s[y]
    BY <1>4
  <2>3. to[k] < from[l]
    BY <1>2 DEF Cuts
  <2>4. x \in DOMAIN s /\ y \in DOMAIN s /\ x < y
    <3>1. /\ from[k] \in 1..Len(s) /\ to[k] \in 1..Len(s)
          /\ from[l] \in 1..Len(s) /\ to[l] \in 1..Len(s)
      BY <1>4
    <3>. QED  BY <1>0, <2>3, <3>1
  <2>. QED  BY <2>1, <2>2, <2>4 DEF InLine
<1>8. Split(s) \in Seq(Seq(Pieces))
  <2>1. \A k \in 1..n : Split(s)[k] \in Seq(Pieces)
    BY <1>4
  <2>2. Split(s) = [k \in 1..n |-> Split(s)[k]]
    BY <1>2 DEF Cuts
  <2>3. Split(s) \in [1..n -> Seq(Pieces)]
    BY <2>1, <2>2
  <2>. QED  BY <2>3
<1>. QED  BY <1>3, <1>5, <1>6, <1>7, <1>8

-----------------------------------------------------------------------------
(* Tokens *)

LEMMA ConsIs ==
    ASSUME NEW X, NEW x \in X, NEW r \in Seq(X)
    PROVE  /\ <<x>> \o r \in Seq(X) /\ Len(<<x>> \o r) = Len(r) + 1
           /\ (<<x>> \o r)[1] = x
           /\ \A i \in 1..Len(r) : (<<x>> \o r)[i + 1] = r[i]
<1>1. PICK h \in Seq(X) : h = <<x>> /\ Len(h) = 1 /\ h[1] = x
  <2>1. <<x>> \in Seq(X) /\ Len(<<x>>) = 1 /\ <<x>>[1] = x
    OBVIOUS
  <2>. QED  BY <2>1
<1>2. Len(r) \in Nat
  BY LenProperties
<1>3. /\ h \o r \in Seq(X) /\ Len(h \o r) = Len(h) + Len(r)
      /\ \A i \in 1..(Len(h) + Len(r)) : (h \o r)[i] = IF i <= Len(h) THEN h[i] ELSE r[i - Len(h)]
  BY ConcatProperties
<1>4. ASSUME NEW i \in 1..Len(r) PROVE (h \o r)[i + 1] = r[i]
  <2>1. i + 1 \in 1..(1 + Len(r)) /\ ~ (i + 1 <= 1) /\ (i + 1) - 1 = i
    BY <1>2
  <2>. QED  BY <1>1, <1>3, <2>1
<1>5. (h \o r)[1] = h[1] /\ Len(h \o r) = Len(r) + 1
  BY <1>1, <1>2, <1>3
<1>. QED  BY <1>1, <1>3, <1>4, <1>5

LEMMA FrontIs ==
    ASSUME NEW X, NEW s \in Seq(X), s # <<>>
    PROVE  /\ Front(s) \in Seq(X) /\ Len(Front(s)) = Len(s) - 1
           /\ \A i \in 1..(Len(s) - 1) : Front(s)[i] = s[i]
<1>1. PICK n \in Nat : n = Len(s) /\ n # 0
  BY LenProperties, EmptySeq
<1>2. \A i \in 1..(n - 1) : s[i] \in X
  BY <1>1, ElementOfSeq
<1>3. 1 \in Int /\ n - 1 \in Int
  BY <1>1
<1>4. /\ SubSeq(s, 1, n - 1) \in Seq(X)
      /\ Len(SubSeq(s, 1, n - 1)) = IF 1 <= n - 1 THEN (n - 1) - 1 + 1 ELSE 0
      /\ \A i \in 1..((n - 1) - 1 + 1) : SubSeq(s, 1, n - 1)[i] = s[1 + i - 1]
  BY <1>2, <1>3, SubSeqProperties
<1>5. \A i \in 1..(n - 1) : i \in 1..((n - 1) - 1 + 1) /\ 1 + i - 1 = i
  BY <1>1
<1>6. Len(SubSeq(s, 1, n - 1)) = n - 1
  BY <1>1, <1>4
<1>7. \A i \in 1..(n - 1) : SubSeq(s, 1, n - 1)[i] = s[i]
  BY <1>4, <1>5
<1>. QED  BY <1>1, <1>4, <1>6, <1>7 DEF Front

TokenSet == [sentence : Nat, field : Nat, class : Classes]

TalkOK == talk \in Talks \cup {<<>>}

(* Whether a piece is noise or of a sentence that is said.                    *)
Said(p) == p \in Pieces /\ (p # Noise => p.sentence \in DOMAIN talk)

LEMMA TalkIs ==
    ASSUME TalkOK
    PROVE  /\ Len(talk) \in Nat /\ DOMAIN talk = 1..Len(talk)
           /\ \A n \in DOMAIN talk :
                /\ talk[n].fields \in Seq(Classes)
                /\ Len(talk[n].fields) \in Nat \ {0}
                /\ DOMAIN talk[n].fields = 1..Len(talk[n].fields)
<1>1. talk \in Seq(Range(talk))
  <2>1. CASE talk \in Talks
    BY <2>1, NmeaAssumption
  <2>2. CASE talk = <<>>
    BY <2>2
  <2>. QED  BY <2>1, <2>2 DEF TalkOK
<1>2. Len(talk) \in Nat /\ DOMAIN talk = 1..Len(talk)
  BY <1>1, LenProperties
<1>3. ASSUME NEW n \in DOMAIN talk
      PROVE  /\ talk[n].fields \in Seq(Classes)
             /\ Len(talk[n].fields) \in Nat \ {0}
             /\ DOMAIN talk[n].fields = 1..Len(talk[n].fields)
  <2>1. talk # <<>>
    BY <1>3, EmptySeq
  <2>2. talk[n].fields \in Seq(Classes) /\ talk[n].fields # <<>>
    BY <1>3, <2>1, NmeaAssumption DEF TalkOK
  <2>. QED  BY <2>2, LenProperties, EmptySeq
<1>. QED  BY <1>2, <1>3

(* A piece's tokens: its id and its fields.                                   *)
LEMMA TokensOfIs ==
    ASSUME TalkOK, NEW p, Said(p)
    PROVE  /\ TokensOf(p) \in Seq(TokenSet) /\ TokensOf(p) # <<>>
           /\ TokensOf(p)[1].sentence = p.sentence
           /\ p = Noise => Len(TokensOf(p)) = 1
           /\ p # Noise =>
                /\ Len(TokensOf(p)) = Len(talk[p.sentence].fields) + 1
                /\ \A i \in DOMAIN talk[p.sentence].fields :
                      TokensOf(p)[i + 1].class = talk[p.sentence].fields[i]
<1>1. CASE p = Noise
  <2>1. Token(0, 0, "text") \in TokenSet /\ Token(0, 0, "text").sentence = 0
    BY DEF Token, TokenSet, Classes
  <2>2. TokensOf(p) = <<Token(0, 0, "text")>>
    BY <1>1 DEF TokensOf
  <2>. QED  BY <1>1, <2>1, <2>2, PieceSorts
<1>2. CASE p # Noise
  <2>. DEFINE f == talk[p.sentence].fields
              h == <<Token(p.sentence, 0, "text")>>
              r == [i \in DOMAIN f |-> Token(p.sentence, i, f[i])]
  <2>1. p.sentence \in DOMAIN talk /\ p.sentence \in Nat
    BY <1>2, PieceSorts DEF Said
  <2>2. f \in Seq(Classes) /\ Len(f) \in Nat \ {0} /\ DOMAIN f = 1..Len(f)
    BY <2>1, TalkIs
  <2>3. \A i \in DOMAIN f : f[i] \in Classes /\ i \in Nat
    BY <2>2, ElementOfSeq
  <2>4. TokensOf(p) = h \o r
    BY <1>2 DEF TokensOf
  <2>. HIDE DEF f
  <2>5. \A i \in DOMAIN f : r[i] \in TokenSet /\ r[i].class = f[i]
    BY <2>1, <2>3 DEF Token, TokenSet
  <2>6. r \in Seq(TokenSet) /\ Len(r) = Len(f)
    BY <2>2, <2>5
  <2>7. PICK x \in TokenSet : x = Token(p.sentence, 0, "text") /\ x.sentence = p.sentence
    <3>1. Token(p.sentence, 0, "text") \in TokenSet
      BY <2>1 DEF Token, TokenSet, Classes
    <3>2. Token(p.sentence, 0, "text").sentence = p.sentence
      BY DEF Token
    <3>. QED  BY <3>1, <3>2
  <2>. HIDE DEF r
  <2>8. PICK g \in Seq(TokenSet) : g = r /\ Len(g) = Len(f) /\ \A i \in DOMAIN f : g[i].class = f[i]
    BY <2>5, <2>6
  <2>9. /\ <<x>> \o g \in Seq(TokenSet) /\ Len(<<x>> \o g) = Len(g) + 1
        /\ (<<x>> \o g)[1] = x
        /\ \A i \in 1..Len(g) : (<<x>> \o g)[i + 1] = g[i]
    BY ConsIs
  <2>10. TokensOf(p) = <<x>> \o g
    BY <2>4, <2>7, <2>8
  <2>11. /\ TokensOf(p) \in Seq(TokenSet) /\ Len(TokensOf(p)) = Len(f) + 1
         /\ TokensOf(p)[1].sentence = p.sentence
         /\ \A i \in DOMAIN f : TokensOf(p)[i + 1].class = f[i]
    BY <2>2, <2>7, <2>8, <2>9, <2>10
  <2>12. TokensOf(p) # <<>>
    BY <2>2, <2>11, EmptySeq
  <2>. QED  BY <1>2, <2>11, <2>12 DEF f
<1>. QED  BY <1>1, <1>2

(* Running on loses no token, and no id of a text.                            *)
LEMMA RunsOn ==
    ASSUME NEW s \in Seq(TokenSet), s # <<>>
    PROVE  LET t == Append(Front(s), RunOn(Last(s)))
           IN  /\ t \in Seq(TokenSet) /\ Len(t) = Len(s) /\ t # <<>>
               /\ Len(s) > 1 => t[1] = s[1]
               /\ Len(s) = 1 => t[1].sentence = 0
<1>. DEFINE n == Len(s)
            z == RunOn(Last(s))
            a == Front(s)
            t == Append(a, z)
<1>1. n \in Nat /\ n # 0
  BY LenProperties, EmptySeq
<1>2. z \in TokenSet /\ z.sentence = 0
  BY DEF RunOn, Token, TokenSet, Classes
<1>3. a \in Seq(TokenSet) /\ Len(a) = n - 1 /\ \A i \in 1..(n - 1) : a[i] = s[i]
  BY FrontIs
<1>. HIDE DEF a, z
<1>4. /\ t \in Seq(TokenSet) /\ Len(t) = Len(a) + 1
      /\ \A i \in 1..Len(a) : t[i] = a[i]
      /\ t[Len(a) + 1] = z
  BY <1>2, <1>3, AppendProperties
<1>5. Len(t) = n /\ t[n] = z /\ \A i \in 1..(n - 1) : t[i] = s[i]
  BY <1>1, <1>3, <1>4
<1>6. n > 1 => 1 \in 1..(n - 1)
  BY <1>1
<1>. HIDE DEF t
<1>7. t # <<>>
  BY <1>1, <1>5, EmptySeq
<1>. QED  BY <1>1, <1>2, <1>4, <1>5, <1>6, <1>7 DEF t, a, z

(* What cleanBack leaves, taken apart: the first token is the first word's,   *)
(* and a text more is more tokens.                                            *)
LEMMA TokensIs ==
    ASSUME TalkOK, NEW c \in Seq(Pieces), c # <<>>, \A i \in DOMAIN c : Said(c[i])
    PROVE  /\ Tokens(c) \in Seq(TokenSet) /\ Tokens(c) # <<>>
           /\ Tokens(c)[1].sentence = c[1].sentence
           /\ Len(c) = 1 => Tokens(c) = TokensOf(c[1])
           /\ c[1] # Noise => \A l \in 2..Len(c) :
                 c[l] # Noise => Len(Tokens(c)) > Len(TokensOf(c[1]))
<1>. DEFINE n == Len(c)
            Own(j) == IF j = 1 THEN TokensOf(c[j]) ELSE Tail(TokensOf(c[j]))
            Joined(j) == IF j = n \/ Own(j) = <<>> THEN Own(j)
                           ELSE Append(Front(Own(j)), RunOn(Last(Own(j))))
            ss == [j \in 1..n |-> Joined(j)]
<1>1. n \in Nat \ {0} /\ DOMAIN c = 1..n
  BY LenProperties, EmptySeq
<1>2. Tokens(c) = FlattenSeq(ss)
  BY <1>1 DEF Tokens
<1>3. ASSUME NEW j \in 1..n
      PROVE  /\ TokensOf(c[j]) \in Seq(TokenSet) /\ TokensOf(c[j]) # <<>>
             /\ Len(TokensOf(c[j])) \in Nat
             /\ TokensOf(c[j])[1].sentence = c[j].sentence
             /\ c[j] = Noise => Len(TokensOf(c[j])) = 1
             /\ c[j] # Noise => Len(TokensOf(c[j])) > 1
  <2>1. Said(c[j])
    BY <1>1
  <2>2. c[j] # Noise => Len(talk[c[j].sentence].fields) \in Nat \ {0}
    BY <2>1, TalkIs DEF Said
  <2>. QED  BY <2>1, <2>2, TokensOfIs, LenProperties
<1>4. ASSUME NEW j \in 1..n
      PROVE  /\ Own(j) \in Seq(TokenSet) /\ Len(Own(j)) \in Nat
             /\ j # 1 /\ c[j] # Noise => Len(Own(j)) >= 1
  <2>1. CASE j = 1
    BY <1>3, <2>1
  <2>2. CASE j # 1
    <3>1. Tail(TokensOf(c[j])) \in Seq(TokenSet) /\ Len(Tail(TokensOf(c[j]))) = Len(TokensOf(c[j])) - 1
      BY <1>3, HeadTailProperties
    <3>2. Own(j) = Tail(TokensOf(c[j]))
      BY <2>2
    <3>. QED  BY <1>3, <3>1, <3>2, LenProperties
  <2>. QED  BY <2>1, <2>2
<1>. HIDE DEF Own
<1>5. ASSUME NEW j \in 1..n
      PROVE  /\ Joined(j) \in Seq(TokenSet) /\ Len(Joined(j)) = Len(Own(j))
             /\ Own(j) # <<>> => Joined(j) # <<>>
             /\ Len(Own(j)) > 1 => Joined(j)[1] = Own(j)[1]
             /\ Len(Own(j)) = 1 => Joined(j)[1] = Own(j)[1] \/ Joined(j)[1].sentence = 0
  BY <1>4, RunsOn
<1>. HIDE DEF Joined
<1>6. ss \in [1..n -> Seq(TokenSet)] /\ ss[1] = Joined(1)
  BY <1>1, <1>5
<1>7. /\ FlattenSeq(ss) \in Seq(TokenSet)
      /\ n = 1 => FlattenSeq(ss) = ss[1]
      /\ ss[1] # <<>> => FlattenSeq(ss) # <<>> /\ FlattenSeq(ss)[1] = ss[1][1]
      /\ \A l \in 2..n : Len(FlattenSeq(ss)) >= Len(ss[1]) + Len(ss[l])
  BY <1>1, <1>6, FlattenIs
<1>8. /\ Own(1) = TokensOf(c[1]) /\ Own(1) # <<>> /\ ss[1] # <<>>
      /\ n = 1 => ss[1] = TokensOf(c[1])
  <2>1. 1 \in 1..n /\ Own(1) = TokensOf(c[1])
    BY <1>1 DEF Own
  <2>2. n = 1 => Joined(1) = Own(1)
    BY DEF Joined
  <2>. QED  BY <1>3, <1>5, <1>6, <2>1, <2>2
<1>9. ss[1][1].sentence = c[1].sentence
  <2>1. 1 \in 1..n
    BY <1>1
  <2>2. CASE c[1] = Noise
    <3>1. Len(Own(1)) = 1 /\ c[1].sentence = 0 /\ Own(1)[1].sentence = 0
      BY <1>3, <1>8, <2>1, <2>2, PieceSorts
    <3>. QED  BY <1>5, <1>6, <2>1, <3>1
  <2>3. CASE c[1] # Noise
    <3>1. Len(Own(1)) > 1 /\ Own(1)[1].sentence = c[1].sentence
      BY <1>3, <1>8, <2>1, <2>3
    <3>. QED  BY <1>5, <1>6, <2>1, <3>1
  <2>. QED  BY <2>2, <2>3
<1>10. ASSUME NEW l \in 2..n, c[l] # Noise
       PROVE  Len(FlattenSeq(ss)) > Len(TokensOf(c[1]))
  <2>1. l \in 1..n /\ l # 1 /\ 1 \in 1..n
    BY <1>1
  <2>2. ss[l] = Joined(l)
    BY <2>1
  <2>3. Len(ss[l]) >= 1 /\ Len(ss[l]) \in Nat
    BY <1>4, <1>5, <1>10, <2>1, <2>2
  <2>4. Len(ss[1]) = Len(TokensOf(c[1])) /\ Len(ss[1]) \in Nat
    BY <1>4, <1>5, <1>6, <1>8, <2>1
  <2>5. Len(FlattenSeq(ss)) >= Len(ss[1]) + Len(ss[l]) /\ Len(FlattenSeq(ss)) \in Nat
    BY <1>7, LenProperties
  <2>6. PICK x \in Nat, y \in Nat, z \in Nat :
           x = Len(FlattenSeq(ss)) /\ y = Len(ss[1]) /\ z = Len(ss[l]) /\ x >= y + z /\ z >= 1
    BY <2>3, <2>4, <2>5
  <2>7. \A u, v, w \in Nat : u >= v + w /\ w >= 1 => u > v
    OBVIOUS
  <2>. QED  BY <2>4, <2>6, <2>7
<1>. HIDE DEF ss
<1>. QED  BY <1>2, <1>7, <1>8, <1>9, <1>10

-----------------------------------------------------------------------------
(* What is left of a chunk *)

LEMMA AtMostOne ==
    ASSUME NEW S, IsFiniteSet(S), Cardinality(S) <= 1, NEW i \in S, NEW j \in S
    PROVE  i = j
<1> SUFFICES ASSUME i # j PROVE FALSE
  OBVIOUS
<1>1. IsFiniteSet({i}) /\ Cardinality({i}) = 1
  BY FS_Singleton
<1>2. {i} \cup {j} \subseteq S /\ j \notin {i}
  OBVIOUS
<1>3. Cardinality({i} \cup {j}) = 2
  BY <1>1, <1>2, FS_AddElement
<1>4. Cardinality({i} \cup {j}) <= Cardinality(S) /\ Cardinality(S) \in Nat
  BY <1>2, FS_Subset, FS_CardinalityType
<1>. QED  BY <1>3, <1>4

AllSaid(s) == \A i \in DOMAIN s : Said(s[i])

(* A chunk's pieces, each said.                                               *)
LEMMA ChunkIs ==
    ASSUME NEW c, AllSaid(c), NEW lost, IsChunk(c, lost)
    PROVE  /\ c \in Seq(Pieces) /\ Len(c) \in Nat \ {0} /\ DOMAIN c = 1..Len(c)
           /\ \A i \in DOMAIN c : Said(c[i])
           /\ \A i, j \in DOMAIN c : c[i] \in Real /\ c[j] \in Real /\ i < j => Rank(c[i]) < Rank(c[j])
           /\ IsFiniteSet(Stars(c)) /\ Stars(c) \in SUBSET (1..Len(c)) /\ 1 \notin Stars(c)
<1>1. c \in Seq(Pieces) /\ Len(c) \in Nat \ {0} /\ DOMAIN c = 1..Len(c)
  BY LenProperties, EmptySeq DEF IsChunk, InLine
<1>2. \A i \in DOMAIN c : c[i] \in Pieces
  BY <1>1, ElementOfSeq
<1>3. \A i \in DOMAIN c : Said(c[i])
  BY DEF AllSaid
<1>4. Stars(c) \in SUBSET (1..Len(c)) /\ 1 \notin Stars(c)
  BY <1>1 DEF Stars, IsChunk
<1>5. IsFiniteSet(Stars(c))
  <2>1. IsFiniteSet(1..Len(c))
    BY <1>1, FS_Interval
  <2>. QED  BY <1>4, <2>1, FS_Subset
<1>6. \A i, j \in DOMAIN c : c[i] \in Real /\ c[j] \in Real /\ i < j => Rank(c[i]) < Rank(c[j])
  BY PieceSorts DEF IsChunk, InLine
<1>. QED  BY <1>1, <1>3, <1>4, <1>5, <1>6

Contents == [sentence : Nat, part : {"text", "noise"}]

LEMMA WordIs ==
    ASSUME NEW p \in Pieces
    PROVE  /\ p \in Contents <=> p.part \in {"text", "noise"}
           /\ p.part = "text" => p \in Real /\ p = Piece(p.sentence, "text") /\ p # Noise
           /\ p \in Contents /\ p # Noise => p.part = "text"
<1>1. Noise \in Contents
  BY DEF Noise, Piece, Contents
<1>2. p \in Real => p = Piece(p.sentence, p.part) /\ p.sentence \in Nat
  BY DEF Real, Piece
<1>3. p \in Real => (p \in Contents <=> p.part = "text")
  BY <1>2 DEF Real, Contents, Parts
<1>4. p = Noise => p.part = "noise"
  BY PieceSorts
<1>5. p \in Real \/ p = Noise
  BY PieceSorts
<1>6. p \in Real => p.part # "noise"
  BY PieceSorts
<1>. QED  BY <1>1, <1>2, <1>3, <1>4, <1>5, <1>6

(* cleanBack leaves texts and noise of the chunk.                             *)
LEMMA CleanedIs ==
    ASSUME NEW c, AllSaid(c), NEW lost, IsChunk(c, lost)
    PROVE  /\ Cleaned(c) \in Seq(Pieces)
           /\ \A k \in DOMAIN Cleaned(c) :
                 Said(Cleaned(c)[k]) /\ Cleaned(c)[k] \in Contents /\ Within(Cleaned(c)[k], c)
<1>. DEFINE In == {i \in Stars(c) : \A j \in DOMAIN c : j > i => c[j].part # "text"}
            d == IF In = {} THEN c ELSE SubSeq(c, 1, Min(In) - 1)
<1>1. /\ c \in Seq(Pieces) /\ Len(c) \in Nat \ {0} /\ DOMAIN c = 1..Len(c)
      /\ \A i \in DOMAIN c : Said(c[i])
      /\ Stars(c) \in SUBSET (1..Len(c)) /\ 1 \notin Stars(c)
  BY ChunkIs
<1>2. Cleaned(c) = Kept(d, Contents)
  BY DEF Cleaned, Contents
<1>3. d \in Seq(Pieces) /\ \A i \in DOMAIN d : Within(d[i], c)
  <2>1. CASE In = {}
    BY <1>1, <2>1 DEF Within
  <2>2. CASE In # {}
    <3>1. In \in SUBSET Nat
      BY <1>1
    <3>2. PICK m \in In : \A y \in In : m <= y
      BY <2>2, <3>1, Smallest
    <3>3. Min(In) \in In
      BY <3>2 DEF Min
    <3>4. PICK b \in 1..Len(c) : b = Min(In) - 1 /\ 1 \in 1..Len(c) /\ 1 <= b
      <4>1. Min(In) \in 1..Len(c) /\ Min(In) # 1
        BY <1>1, <3>3
      <4>2. Min(In) - 1 \in 1..Len(c) /\ 1 \in 1..Len(c) /\ 1 <= Min(In) - 1
        BY <1>1, <4>1
      <4>. QED  BY <4>2
    <3>5. /\ SubSeq(c, 1, b) \in Seq(Pieces) /\ DOMAIN SubSeq(c, 1, b) = 1..(b - 1 + 1)
          /\ \A i \in 1..(b - 1 + 1) : 1 + i - 1 \in 1..b /\ SubSeq(c, 1, b)[i] = c[1 + i - 1]
      BY <1>1, <3>4, SliceIs
    <3>6. \A i \in DOMAIN SubSeq(c, 1, b) : Within(SubSeq(c, 1, b)[i], c)
      BY <1>1, <3>5 DEF Within
    <3>7. d = SubSeq(c, 1, b)
      BY <2>2, <3>4
    <3>. QED  BY <3>5, <3>6, <3>7
  <2>. QED  BY <2>1, <2>2
<1>. HIDE DEF d
<1>4. PICK w \in Seq(Pieces \cap Contents) : w = Kept(d, Contents) /\ \E from : Picks(from, w, d, Contents)
  BY <1>3, KeptIs
<1>6. PICK from : Picks(from, w, d, Contents)
  BY <1>4
<1>7. DOMAIN w = 1..Len(w) /\ \A k \in DOMAIN w : w[k] \in Pieces \cap Contents
  BY LenProperties, ElementOfSeq
<1>8. ASSUME NEW k \in DOMAIN w PROVE Said(w[k]) /\ w[k] \in Contents /\ Within(w[k], c)
  <2>1. from[k] \in DOMAIN d /\ w[k] = d[from[k]]
    BY <1>6, <1>7 DEF Picks
  <2>2. Within(w[k], c)
    BY <1>3, <2>1
  <2>. QED  BY <1>1, <1>7, <2>2 DEF Within
<1>9. w \in Seq(Pieces)
  BY SeqMonotonic
<1>. QED  BY <1>2, <1>4, <1>8, <1>9

(* A chunk whose checksum holds begins with a text and its checksum, and what *)
(* is left of it with that text; more texts are left only if they came after. *)
LEMMA CheckedIs ==
    ASSUME NEW c, AllSaid(c), NEW lost, IsChunk(c, lost), Cardinality(Stars(c)) <= 1, ChecksumHolds(c)
    PROVE  \E n \in DOMAIN talk :
              /\ 3 \in DOMAIN c /\ c[3] = Piece(n, "*")
              /\ Cleaned(c) # <<>> /\ Cleaned(c)[1] = Piece(n, "text") /\ Piece(n, "text") = c[2]
              /\ \/ Len(Cleaned(c)) = 1
                 \/ \E l \in 2..Len(Cleaned(c)) : \E j \in DOMAIN c :
                       j > 3 /\ c[j].part = "text" /\ Cleaned(c)[l] = c[j]
<1>. DEFINE In == {i \in Stars(c) : \A j \in DOMAIN c : j > i => c[j].part # "text"}
            d == IF In = {} THEN c ELSE SubSeq(c, 1, Min(In) - 1)
<1>1. /\ c \in Seq(Pieces) /\ Len(c) \in Nat \ {0} /\ DOMAIN c = 1..Len(c)
      /\ \A i \in DOMAIN c : Said(c[i])
      /\ IsFiniteSet(Stars(c)) /\ Stars(c) \in SUBSET (1..Len(c)) /\ 1 \notin Stars(c)
  BY ChunkIs
<1>2. Cleaned(c) = Kept(d, Contents)
  BY DEF Cleaned, Contents
<1>3. PICK i \in Stars(c) : SubSeq(c, 2, i - 1) = <<Piece(c[i].sentence, "text")>>
  BY DEF ChecksumHolds
<1>4. i = 3 /\ c[2] = Piece(c[3].sentence, "text") /\ 2 \in DOMAIN c /\ 3 \in DOMAIN c
  <2>1. i \in 1..Len(c) /\ i # 1
    BY <1>1
  <2>2. \A k \in 2..(i - 1) : c[k] \in Pieces
    BY <1>1, <2>1 DEF Said
  <2>3. /\ Len(SubSeq(c, 2, i - 1)) = IF 2 <= i - 1 THEN i - 1 - 2 + 1 ELSE 0
        /\ \A k \in 1..(i - 1 - 2 + 1) : SubSeq(c, 2, i - 1)[k] = c[2 + k - 1]
    <3>1. 2 \in Int /\ i - 1 \in Int
      BY <2>1
    <3>. QED  BY <2>2, <3>1, SubSeqProperties
  <2>4. Len(SubSeq(c, 2, i - 1)) = 1 /\ SubSeq(c, 2, i - 1)[1] = Piece(c[i].sentence, "text")
    <3>1. \A x : Len(<<x>>) = 1 /\ <<x>>[1] = x
      OBVIOUS
    <3>. QED  BY <1>3, <3>1
  <2>5. i = 3
    BY <2>1, <2>3, <2>4
  <2>6. SubSeq(c, 2, i - 1)[1] = c[2]
    BY <2>3, <2>5
  <2>. QED  BY <1>1, <2>1, <2>4, <2>5, <2>6
<1>5. PICK n \in Nat : n = c[3].sentence /\ n \in DOMAIN talk /\ c[3] = Piece(n, "*")
  <2>1. c[3].part = "*" /\ Said(c[3])
    BY <1>1, <1>3, <1>4 DEF Stars
  <2>2. c[3] # Noise /\ c[3] \in Real
    BY <2>1, PieceSorts DEF Said
  <2>3. c[3] = Piece(c[3].sentence, "*")
    BY <2>1, <2>2 DEF Real, Piece
  <2>. QED  BY <2>1, <2>2, <2>3, PieceSorts DEF Said
<1>6. c[2] = Piece(n, "text") /\ c[2] \in Contents /\ c[2].part = "text"
  BY <1>4, <1>5 DEF Piece, Contents
<1>7. c[1] \notin Contents
  <2>1. c[1].part = "$"
    BY DEF IsChunk
  <2>. QED  BY <2>1 DEF Contents
<1>8. Stars(c) = {3}
  BY <1>1, <1>3, <1>4, AtMostOne
<1>9. CASE \A j \in DOMAIN c : j > 3 => c[j].part # "text"
  <2>1. In = {3}
    BY <1>8, <1>9
  <2>2. Min(In) = 3
    BY <2>1 DEF Min
  <2>3. d = SubSeq(c, 1, 2)
    <3>1. In # {} /\ Min(In) - 1 = 2
      BY <2>1, <2>2
    <3>. HIDE DEF In
    <3>. QED  BY <3>1
  <2>. HIDE DEF d
  <2>4. d \in Seq(Pieces) /\ DOMAIN d = 1..2 /\ d[1] = c[1] /\ d[2] = c[2]
    <3>1. 1 \in 1..Len(c) /\ 2 \in 1..Len(c)
      BY <1>1, <1>4
    <3>2. /\ SubSeq(c, 1, 2) \in Seq(Pieces) /\ DOMAIN SubSeq(c, 1, 2) = 1..(2 - 1 + 1)
          /\ \A k \in 1..(2 - 1 + 1) : 1 + k - 1 \in 1..2 /\ SubSeq(c, 1, 2)[k] = c[1 + k - 1]
      BY <1>1, <3>1, SliceIs
    <3>. QED  BY <2>3, <3>2
  <2>5. PICK w \in Seq(Pieces \cap Contents) : w = Kept(d, Contents) /\ \E from : Picks(from, w, d, Contents)
    BY <2>4, KeptIs
  <2>6. PICK from : Picks(from, w, d, Contents)
    BY <2>5
  <2>7. Len(w) \in Nat /\ \A k \in 1..Len(w) : w[k] \in Contents
    BY <2>5, LenProperties, ElementOfSeq
  <2>8. \A k \in 1..Len(w) : from[k] = 2
    <3>1. ASSUME NEW k \in 1..Len(w) PROVE from[k] = 2
      <4>1. from[k] \in 1..2 /\ w[k] = d[from[k]]
        BY <2>4, <2>6 DEF Picks
      <4>2. from[k] # 1
        BY <1>7, <2>4, <2>7, <4>1
      <4>. QED  BY <4>1, <4>2
    <3>. QED  BY <3>1
  <2>9. \E k \in 1..Len(w) : from[k] = 2
    BY <1>6, <2>4, <2>6 DEF Picks
  <2>10. Len(w) = 1
    <3>1. ~ (1 < Len(w))
      <4>1. 1 < Len(w) => 1 \in 1..Len(w) /\ 2 \in 1..Len(w) /\ 1 < 2
        BY <2>7
      <4>2. 1 < Len(w) => from[1] < from[2] /\ from[1] = 2 /\ from[2] = 2
        BY <2>6, <2>8, <4>1 DEF Picks
      <4>. QED  BY <4>2
    <3>2. Len(w) # 0
      BY <2>9
    <3>3. PICK m \in Nat : m = Len(w)
      BY <2>7
    <3>4. m = 1
      BY <3>1, <3>2, <3>3
    <3>. QED  BY <3>3, <3>4
  <2>11. w[1] = c[2] /\ w # <<>>
    <3>1. 1 \in 1..Len(w) /\ Len(w) # 0
      BY <2>10
    <3>. QED  BY <2>4, <2>6, <2>8, <3>1, EmptySeq DEF Picks
  <2>. QED  BY <1>2, <1>4, <1>5, <1>6, <2>5, <2>10, <2>11
<1>10. CASE \E j \in DOMAIN c : j > 3 /\ c[j].part = "text"
  <2>1. PICK j \in DOMAIN c : j > 3 /\ c[j].part = "text"
    BY <1>10
  <2>2. In = {}
    BY <1>8, <2>1
  <2>3. d = c
    BY <2>2
  <2>. HIDE DEF d
  <2>4. PICK w \in Seq(Pieces \cap Contents) : w = Kept(c, Contents) /\ \E from : Picks(from, w, c, Contents)
    BY <1>1, KeptIs
  <2>5. PICK from : Picks(from, w, c, Contents)
    BY <2>4
  <2>6. Len(w) \in Nat /\ \A k \in 1..Len(w) : w[k] \in Contents
    BY <2>4, LenProperties, ElementOfSeq
  <2>7. PICK k \in 1..Len(w) : from[k] = 2
    BY <1>4, <1>6, <2>5 DEF Picks
  <2>8. 1 \in 1..Len(w) /\ from[1] \in 1..Len(c) /\ from[1] # 1
    <3>1. 1 \in 1..Len(w)
      BY <2>6
    <3>2. w[1] \in Contents /\ w[1] = c[from[1]] /\ from[1] \in 1..Len(c)
      BY <1>1, <2>5, <2>6, <3>1 DEF Picks
    <3>. QED  BY <1>7, <3>1, <3>2
  <2>9. k = 1
    <3>1. 1 < k => from[1] < from[k]
      BY <2>5, <2>8 DEF Picks
    <3>. QED  BY <2>7, <2>8, <3>1
  <2>10. w[1] = c[2] /\ w # <<>>
    BY <2>5, <2>7, <2>8, <2>9, EmptySeq DEF Picks
  <2>11. c[j] \in Contents
    <3>1. c[j] \in Pieces
      BY <1>1 DEF Said
    <3>. QED  BY <2>1, <3>1, WordIs
  <2>12. PICK l \in 1..Len(w) : from[l] = j
    BY <2>5, <2>11 DEF Picks
  <2>13. l # 1
    BY <2>1, <2>7, <2>9, <2>12
  <2>14. l \in 2..Len(w) /\ w[l] = c[j]
    BY <2>5, <2>6, <2>12, <2>13 DEF Picks
  <2>. QED  BY <1>2, <1>4, <1>5, <1>6, <2>1, <2>3, <2>4, <2>10, <2>14
<1>. QED  BY <1>9, <1>10

-----------------------------------------------------------------------------
(* An entry is right *)

(* An entry that may be given: that of a sentence that fits, or one that      *)
(* another has completed.                                                     *)
Right(e) ==
    \/ Fits(e.sentence) /\ e.fields = Tail(TokensOf(Piece(e.sentence, "text")))
    \/ Completed(e.sentence)

LEMMA PieceRanks ==
    ASSUME NEW n \in Nat \ {0}, NEW m \in Nat \ {0}
    PROVE  /\ \A part \in Parts : /\ Piece(n, part) \in Real
                                  /\ Piece(n, part).sentence = n /\ Piece(n, part).part = part
           /\ n < m => Rank(Piece(n, "text")) < Rank(Piece(m, "$"))
           /\ Rank(Piece(m, "$")) < Rank(Piece(m, "text"))
           /\ Rank(Piece(m, "text")) < Rank(Piece(m, "*"))
           /\ Rank(Piece(m, "*")) < Rank(Piece(m, "CRLF"))
<1>1. \A k \in Nat \ {0} : \A part \in Parts :
         /\ Piece(k, part) \in Real
         /\ Piece(k, part).sentence = k /\ Piece(k, part).part = part
  BY DEF Piece, Real
<1>2. /\ "$" \in Parts /\ "text" \in Parts /\ "*" \in Parts /\ "CRLF" \in Parts
      /\ PlaceOf["$"] = 0 /\ PlaceOf["text"] = 1 /\ PlaceOf["*"] = 2 /\ PlaceOf["CRLF"] = 3
  BY DEF Parts, PlaceOf
<1>3. n < m => Rank(Piece(n, "text")) < Rank(Piece(m, "$"))
  BY <1>1, <1>2, RankOne
<1>4. Rank(Piece(m, "$")) < Rank(Piece(m, "text"))
  BY <1>1, <1>2, RankOne
<1>5. Rank(Piece(m, "text")) < Rank(Piece(m, "*"))
  BY <1>1, <1>2, RankOne
<1>6. Rank(Piece(m, "*")) < Rank(Piece(m, "CRLF"))
  BY <1>1, <1>2, RankOne
<1>. QED  BY <1>1, <1>3, <1>4, <1>5, <1>6

(* A text that came after the checksum of another is one whose own "$" and    *)
(* "*" are lost.                                                              *)
LEMMA Swallowed ==
    ASSUME NEW c, AllSaid(c), NEW lost, IsChunk(c, lost), Cardinality(Stars(c)) <= 1, Last(c).part = "CRLF",
           NEW n \in Nat \ {0}, 3 \in DOMAIN c, c[2] = Piece(n, "text"), c[3] = Piece(n, "*"),
           NEW j \in DOMAIN c, j > 3, c[j].part = "text"
    PROVE  /\ c[j].sentence \in DOMAIN talk /\ c[j].sentence > n
           /\ {Piece(c[j].sentence, "$"), Piece(c[j].sentence, "*")} \subseteq lost
<1>. DEFINE m == c[j].sentence
<1>1. /\ c \in Seq(Pieces) /\ Len(c) \in Nat \ {0} /\ DOMAIN c = 1..Len(c)
      /\ \A i \in DOMAIN c : Said(c[i])
      /\ \A x, y \in DOMAIN c : c[x] \in Real /\ c[y] \in Real /\ x < y => Rank(c[x]) < Rank(c[y])
      /\ IsFiniteSet(Stars(c)) /\ Stars(c) \in SUBSET (1..Len(c))
  BY ChunkIs
<1>2. 1 \in DOMAIN c /\ 2 \in DOMAIN c /\ j \in Nat /\ Len(c) \in DOMAIN c
  BY <1>1
<1>3. c[j] \in Real /\ c[j] = Piece(m, "text") /\ m \in DOMAIN talk /\ m \in Nat \ {0}
  <2>1. c[j] \in Pieces
    BY <1>1 DEF Said
  <2>2. c[j] \in Real /\ c[j] = Piece(m, "text") /\ c[j] # Noise
    BY <2>1, WordIs
  <2>. QED  BY <1>1, <2>2 DEF Said, Real
<1>. HIDE DEF m
<1>4. c[2] \in Real /\ c[2].sentence = n /\ c[3] \in Real
  BY PieceRanks DEF Parts
<1>5. Rank(c[2]) < Rank(c[j])
  BY <1>1, <1>2, <1>3, <1>4
<1>6. m > n
  <2>1. n <= m
    BY <1>3, <1>4, <1>5, PieceRanks, RankOne DEF Parts
  <2>2. n # m
    BY <1>3, <1>4, <1>5, RankNat
  <2>. QED  BY <1>3, <2>1, <2>2
<1>7. Piece(m, "$") \in lost
  <2>1. /\ Piece(m, "$") \in Real /\ Piece(m, "$").part = "$"
        /\ Rank(c[2]) < Rank(Piece(m, "$")) /\ Rank(Piece(m, "$")) < Rank(c[j])
    BY <1>3, <1>6, PieceRanks DEF Parts
  <2>2. c[2] # Noise /\ c[j] # Noise
    BY <1>3, <1>4, PieceSorts
  <2>3. ASSUME NEW k \in DOMAIN c, c[k] = Piece(m, "$") PROVE FALSE
    <3>1. k = 1
      BY <2>1, <2>3 DEF IsChunk
    <3>2. Rank(Piece(m, "$")) < Rank(c[2])
      BY <1>1, <1>2, <1>4, <2>1, <2>3, <3>1
    <3>. QED  BY <1>4, <2>1, <3>2, RankNat
  <2>. QED  BY <1>2, <2>1, <2>2, <2>3 DEF IsChunk, Whole, Within
<1>8. Piece(m, "*") \in lost
  <2>1. PICK z \in Real : z = c[Len(c)] /\ z.part = "CRLF"
    <3>1. c[Len(c)].part = "CRLF" /\ c[Len(c)] \in Pieces
      BY <1>1, <1>2 DEF Last, Said
    <3>. QED  BY <3>1, PieceSorts
  <2>2. j # Len(c) /\ j < Len(c)
    <3>1. j # Len(c)
      BY <2>1
    <3>. QED  BY <1>1, <3>1
  <2>3. Rank(c[j]) < Rank(z)
    BY <1>1, <1>2, <1>3, <2>1, <2>2
  <2>4. /\ Piece(m, "*") \in Real /\ Piece(m, "*").part = "*" /\ Piece(m, "*").sentence = m
        /\ Piece(m, "CRLF") \in Real /\ Piece(m, "CRLF").part = "CRLF" /\ Piece(m, "CRLF").sentence = m
        /\ Rank(c[j]) < Rank(Piece(m, "*")) /\ Rank(Piece(m, "*")) < Rank(Piece(m, "CRLF"))
    BY <1>3, PieceRanks DEF Parts
  <2>5. Rank(Piece(m, "*")) < Rank(z)
    <3>1. m <= z.sentence /\ z.sentence \in Nat /\ m \in Nat
      <4>1. c[j].sentence = m /\ c[j] \in Real
        BY <1>3, PieceRanks DEF Parts
      <4>2. m <= z.sentence
        BY <2>1, <2>3, <4>1, RankOne
      <4>. QED  BY <1>3, <4>2 DEF Real
    <3>2. CASE z.sentence = m
      <4>1. z = Piece(m, "CRLF")
        BY <2>1, <3>2 DEF Real, Piece
      <4>. QED  BY <2>4, <4>1
    <3>3. CASE m < z.sentence
      BY <2>4, <3>3, RankOne
    <3>. QED  BY <3>1, <3>2, <3>3
  <2>6. ASSUME NEW k \in DOMAIN c, c[k] = Piece(m, "*") PROVE FALSE
    <3>1. c[3].part = "*" /\ c[3].sentence = n
      BY PieceRanks DEF Parts
    <3>2. k \in Stars(c) /\ 3 \in Stars(c)
      BY <2>4, <2>6, <3>1 DEF Stars
    <3>3. k = 3
      BY <1>1, <3>2, AtMostOne
    <3>. QED  BY <1>3, <1>6, <2>4, <2>6, <3>1, <3>3
  <2>7. c[j] # Noise /\ z # Noise
    BY <1>3, PieceSorts
  <2>. QED  BY <1>2, <2>1, <2>4, <2>5, <2>6, <2>7 DEF IsChunk, Whole, Within
<1>. QED  BY <1>3, <1>6, <1>7, <1>8 DEF m

(* What receive makes of a chunk: an entry without error is of a sentence     *)
(* whose text is in it.                                                       *)
LEMMA EntrySound ==
    ASSUME TalkOK, NEW c, AllSaid(c), IsChunk(c, damaged), NEW tokens, tokens = Tokens(Cleaned(c)),
           NEW e, e = Entry(c, tokens), e.error = "none"
    PROVE  /\ e.sentence \in DOMAIN talk /\ e.sentence \in Nat \ {0}
           /\ Within(Piece(e.sentence, "text"), c)
           /\ e.fields # <<>> /\ e.fields \in Seq(TokenSet)
           /\ withChecksum => Right(e)
<1>. DEFINE w == Cleaned(c)
<1>1. /\ Valid(c) /\ Accepted(tokens)
      /\ e.sentence = tokens[1].sentence /\ e.fields = Tail(tokens)
  BY DEF Entry, Error
<1>2. /\ w \in Seq(Pieces)
      /\ \A k \in DOMAIN w : Said(w[k]) /\ w[k] \in Contents /\ Within(w[k], c)
  BY CleanedIs
<1>. HIDE DEF w
<1>3. w # <<>>
  <2> SUFFICES ASSUME w = <<>> PROVE FALSE
    OBVIOUS
  <2>1. DOMAIN w = {} /\ Len(w) = 0
    BY EmptySeq
  <2>2. Tokens(w) = <<>>
    <3>1. ASSUME NEW g, DOMAIN g = {}, g = [j \in {} |-> g[j]] PROVE FlattenSeq(g) = <<>>
      <4>1. g = <<>>
        BY <3>1, EmptySeq
      <4>. QED  BY <4>1, EmptySeq DEF FlattenSeq
    <3>2. PICK g : Tokens(w) = FlattenSeq(g) /\ DOMAIN g = {} /\ g = [j \in {} |-> g[j]]
      BY <2>1 DEF Tokens
    <3>. QED  BY <3>1, <3>2
  <2>. QED  BY <1>1, <2>2 DEF Accepted, w
<1>4. /\ tokens \in Seq(TokenSet) /\ tokens # <<>>
      /\ tokens[1].sentence = w[1].sentence
      /\ Len(w) = 1 => tokens = TokensOf(w[1])
      /\ w[1] # Noise => \A l \in 2..Len(w) :
            w[l] # Noise => Len(tokens) > Len(TokensOf(w[1]))
  BY <1>2, <1>3, TokensIs DEF w
<1>5. Len(w) \in Nat \ {0} /\ DOMAIN w = 1..Len(w) /\ 1 \in DOMAIN w
  BY <1>2, <1>3, LenProperties, EmptySeq
<1>6. PICK n \in Nat \ {0} : n = e.sentence /\ w[1] = Piece(n, "text") /\ w[1] \in Real /\ n \in DOMAIN talk
  <2>1. w[1] \in Pieces /\ Said(w[1]) /\ w[1] \in Contents
    BY <1>2, <1>5 DEF Said
  <2>2. w[1].sentence = e.sentence /\ e.sentence # 0
    BY <1>1, <1>4 DEF Accepted
  <2>3. w[1] # Noise
    BY <2>2, PieceSorts
  <2>4. w[1] = Piece(w[1].sentence, "text") /\ w[1] \in Real
    BY <2>1, <2>3, WordIs
  <2>. QED  BY <2>1, <2>2, <2>3, <2>4 DEF Said, Real
<1>7. Within(Piece(n, "text"), c)
  BY <1>2, <1>5, <1>6
<1>. DEFINE types == Configured[talk[n].id]
            f == talk[n].fields
<1>8. /\ talk[n].id \in DOMAIN Configured /\ Len(tokens) = Len(types) + 1
      /\ \A i \in DOMAIN types : Converts(tokens[i + 1], types[i])
  BY <1>1, <1>6 DEF Accepted
<1>9. Len(types) \in Nat \ {0} /\ DOMAIN types = 1..Len(types)
  <2>1. types \in Seq({"number", "text"}) /\ types # <<>>
    BY <1>8, NmeaAssumption
  <2>. HIDE DEF types
  <2>. QED  BY <2>1, LenProperties, EmptySeq
<1>10. e.fields # <<>> /\ e.fields \in Seq(TokenSet)
  <2>1. Len(Tail(tokens)) = Len(tokens) - 1 /\ Tail(tokens) \in Seq(TokenSet)
    BY <1>4, HeadTailProperties
  <2>2. Len(Tail(tokens)) # 0
    <3>. HIDE DEF types
    <3>. QED  BY <1>8, <1>9, <2>1
  <2>. QED  BY <1>1, <2>1, <2>2, EmptySeq
<1>11. ASSUME withChecksum PROVE Right(e)
  <2>1. /\ Cardinality(Stars(c)) <= 1 /\ ChecksumHolds(c) /\ Last(c).part = "CRLF"
    BY <1>1, <1>11 DEF Valid
  <2>2. PICK k \in DOMAIN talk :
              /\ 3 \in DOMAIN c /\ c[3] = Piece(k, "*")
              /\ w # <<>> /\ w[1] = Piece(k, "text") /\ Piece(k, "text") = c[2]
              /\ \/ Len(w) = 1
                 \/ \E l \in 2..Len(w) : \E j \in DOMAIN c :
                       j > 3 /\ c[j].part = "text" /\ w[l] = c[j]
    BY <2>1, CheckedIs DEF w
  <2>3. k = n
    BY <1>6, <2>2 DEF Piece
  <2>4. /\ Len(TokensOf(w[1])) = Len(f) + 1
        /\ \A i \in DOMAIN f : TokensOf(w[1])[i + 1].class = f[i]
    <3>1. Said(w[1]) /\ w[1] # Noise /\ w[1].sentence = n
      BY <1>2, <1>5, <1>6, PieceSorts DEF Piece
    <3>. QED  BY <3>1, TokensOfIs
  <2>5. Len(f) \in Nat /\ DOMAIN f = 1..Len(f)
    BY <1>6, TalkIs
  <2>6. CASE Len(w) = 1
    <3>1. tokens = TokensOf(w[1])
      BY <1>4, <2>6
    <3>2. Len(f) = Len(types)
      BY <1>8, <1>9, <2>4, <2>5, <3>1
    <3>3. \A i \in DOMAIN types : types[i] = "number" => f[i] # "text"
      BY <1>8, <1>9, <2>4, <2>5, <3>1, <3>2 DEF Converts
    <3>4. Fits(n)
      BY <1>8, <3>2, <3>3 DEF Fits
    <3>. QED  BY <1>1, <1>6, <3>1, <3>4 DEF Right
  <2>7. CASE \E l \in 2..Len(w) : \E j \in DOMAIN c : j > 3 /\ c[j].part = "text" /\ w[l] = c[j]
    <3>1. PICK l \in 2..Len(w), j \in DOMAIN c : j > 3 /\ c[j].part = "text" /\ w[l] = c[j]
      BY <2>7
    <3>2. /\ c[j].sentence \in DOMAIN talk /\ c[j].sentence > n
          /\ {Piece(c[j].sentence, "$"), Piece(c[j].sentence, "*")} \subseteq damaged
      BY <2>1, <2>2, <2>3, <3>1, Swallowed
    <3>3. w[l] # Noise /\ w[1] # Noise
      BY <1>6, <3>1, PieceSorts
    <3>4. Len(tokens) > Len(f) + 1
      BY <1>4, <2>4, <3>3
    <3>5. Len(f) < Len(types)
      BY <1>8, <1>9, <2>5, <3>4
    <3>. QED  BY <1>6, <3>2, <3>5 DEF Right, Completed
  <2>. QED  BY <2>2, <2>6, <2>7
<1>. QED  BY <1>6, <1>7, <1>10, <1>11

-----------------------------------------------------------------------------
(* The inductive invariant *)

Following(p) == Piece(p.sentence + (IF p.part = "CRLF" THEN 1 ELSE 0), After[p.part])

(* Where what follows a piece is not lost, it is what was heard next.         *)
Tight(s, next, lost) ==
    \A i \in DOMAIN s : s[i] # Noise /\ Following(s[i]) \notin lost =>
        IF i = Len(s) THEN next = Following(s[i]) ELSE s[i + 1] = Following(s[i])

Stream == raw \o inbox
InChunks(p) == \E k \in DOMAIN chunks : Within(p, chunks[k])
Waiting(p) == InChunks(p) \/ Within(p, Stream) \/ p = at

Result == {e \in [error : {"none", "OS", "NMEA"}, sentence : Nat, fields : Seq(TokenSet)] :
              e.error = "none" <=> e.fields # <<>>}

NmeaSorts ==
    /\ TalkOK /\ withChecksum \in BOOLEAN
    /\ at \in Real /\ at.sentence <= Len(talk) + 1
    /\ at.part # "$" => at.sentence \in DOMAIN talk
    /\ damaged \subseteq Real /\ cut \subseteq DOMAIN talk
    /\ quiet \in BOOLEAN /\ plugged \in BOOLEAN
    /\ raw \in Seq(Pieces) /\ inbox \in Seq(Pieces)
    /\ chunks \in Seq(Seq(Pieces))
    /\ entries \in Seq(Result) /\ given \in Seq(Result)

NmeaPhases ==
    /\ phase \in {"await", "read", "receive"}
    /\ phase # "read" => raw = <<>>
    /\ phase # "receive" => chunks = <<>> /\ entries = <<>>
    /\ plugged \/ inbox = <<>>

StreamInv ==
    plugged => /\ InLine(Stream) /\ AllSaid(Stream)
               /\ ReachesTo(Stream, at, damaged) /\ Tight(Stream, at, damaged)

ChunksInv ==
    /\ \A k \in DOMAIN chunks : AllSaid(chunks[k]) /\ IsChunk(chunks[k], damaged)
    /\ InTurn(chunks)
    /\ \A p, q \in Real : InChunks(p) /\ (Within(q, Stream) \/ q = at) => Rank(p) < Rank(q)

Sound(e) ==
    /\ e.sentence \in DOMAIN talk
    /\ withChecksum => Right(e)
    /\ \A p \in Real : Waiting(p) => Rank(Piece(e.sentence, "text")) < Rank(p)

EntriesInv ==
    /\ \A e \in ToSet(given) \cup ToSet(entries) : e.error = "none" => Sound(e)
    /\ \A e \in ToSet(given) : e.error = "none"
    /\ OnceInOrder
    /\ \A i, j \in DOMAIN entries :
          i < j /\ entries[i].error = "none" /\ entries[j].error = "none"
              => entries[i].sentence < entries[j].sentence
    /\ \A i \in DOMAIN given, j \in DOMAIN entries :
          entries[j].error = "none" => given[i].sentence < entries[j].sentence

WholeSentence(n) == <<Piece(n, "$"), Piece(n, "text"), Piece(n, "*"), Piece(n, "CRLF")>>

OnItsWay(n) ==
    \/ n \in Given
    \/ \E i \in DOMAIN entries : entries[i].error = "none" /\ entries[i].sentence = n
    \/ \E k \in DOMAIN chunks : chunks[k] = WholeSentence(n)
    \/ \A part \in Parts : Rank(Piece(n, part)) < Rank(at) => Within(Piece(n, part), Stream)

HeardInv ==
    /\ quiet /\ at.part # "$" => at.sentence \in cut
    /\ plugged => \A n \in DOMAIN talk : Fits(n) /\ ~ Spoiled(n) => OnItsWay(n)

NmeaInv == NmeaSorts /\ NmeaPhases /\ StreamInv /\ ChunksInv /\ EntriesInv /\ HeardInv

-----------------------------------------------------------------------------

LEMMA FollowingIs ==
    ASSUME NEW p \in Real
    PROVE  /\ Following(p) \in Real /\ Rank(Following(p)) = Rank(p) + 1
           /\ Following(p).part # "$" => Following(p).sentence = p.sentence
           /\ Following(p).sentence <= p.sentence + 1
<1>1. Following(p) \in Real /\ Rank(Following(p)) = Rank(p) + 1
  BY Onwards DEF Following
<1>2. p.sentence \in Nat /\ p.part \in Parts
  BY DEF Real
<1>3. CASE p.part = "CRLF"
  <2>1. Following(p) = [sentence |-> p.sentence + 1, part |-> "$"]
    BY <1>3 DEF Following, Piece, After, Parts
  <2>. QED  BY <1>1, <1>2, <2>1
<1>4. CASE p.part # "CRLF"
  <2>1. Following(p).sentence = p.sentence + 0
    BY <1>4 DEF Following, Piece
  <2>. QED  BY <1>1, <1>2, <2>1
<1>. QED  BY <1>1, <1>3, <1>4

LEMMA WithinAppend ==
    ASSUME NEW X, NEW s \in Seq(X), NEW x \in X
    PROVE  \A p : Within(p, Append(s, x)) <=> Within(p, s) \/ p = x
<1>1. /\ Append(s, x) \in Seq(X) /\ Len(Append(s, x)) = Len(s) + 1
      /\ \A i \in 1..Len(s) : Append(s, x)[i] = s[i]
      /\ Append(s, x)[Len(s) + 1] = x
  BY AppendProperties
<1>2. Len(s) \in Nat /\ DOMAIN s = 1..Len(s) /\ DOMAIN Append(s, x) = 1..(Len(s) + 1)
  BY <1>1, LenProperties
<1>3. 1..(Len(s) + 1) = (1..Len(s)) \cup {Len(s) + 1}
  BY <1>2
<1>. QED  BY <1>1, <1>2, <1>3 DEF Within

LEMMA ConcatAt ==
    ASSUME NEW X, NEW s \in Seq(X), NEW t \in Seq(X)
    PROVE  /\ s \o t \in Seq(X) /\ Len(s) \in Nat
           /\ \A i \in DOMAIN s : i \in DOMAIN (s \o t) /\ (s \o t)[i] = s[i]
           /\ \A i \in DOMAIN t : i + Len(s) \in DOMAIN (s \o t) /\ (s \o t)[i + Len(s)] = t[i]
           /\ \A i \in DOMAIN (s \o t) :
                 \/ i \in DOMAIN s /\ (s \o t)[i] = s[i]
                 \/ i > Len(s) /\ i - Len(s) \in DOMAIN t /\ (s \o t)[i] = t[i - Len(s)]
<1>1. /\ s \o t \in Seq(X) /\ Len(s \o t) = Len(s) + Len(t)
      /\ \A i \in 1..(Len(s) + Len(t)) : (s \o t)[i] = IF i <= Len(s) THEN s[i] ELSE t[i - Len(s)]
  BY ConcatProperties
<1>2. /\ Len(s) \in Nat /\ DOMAIN s = 1..Len(s) /\ Len(t) \in Nat /\ DOMAIN t = 1..Len(t)
      /\ DOMAIN (s \o t) = 1..(Len(s) + Len(t))
  BY <1>1, LenProperties
<1>3. \A i \in DOMAIN s : i \in DOMAIN (s \o t) /\ (s \o t)[i] = s[i]
  BY <1>1, <1>2
<1>4. \A i \in DOMAIN t : i + Len(s) \in DOMAIN (s \o t) /\ (s \o t)[i + Len(s)] = t[i]
  <2> SUFFICES ASSUME NEW i \in DOMAIN t
               PROVE  i + Len(s) \in DOMAIN (s \o t) /\ (s \o t)[i + Len(s)] = t[i]
    OBVIOUS
  <2>1. i + Len(s) \in 1..(Len(s) + Len(t)) /\ ~ (i + Len(s) <= Len(s)) /\ (i + Len(s)) - Len(s) = i
    BY <1>2
  <2>. QED  BY <1>1, <1>2, <2>1
<1>5. \A i \in DOMAIN (s \o t) :
         \/ i \in DOMAIN s /\ (s \o t)[i] = s[i]
         \/ i > Len(s) /\ i - Len(s) \in DOMAIN t /\ (s \o t)[i] = t[i - Len(s)]
  <2> SUFFICES ASSUME NEW i \in DOMAIN (s \o t)
               PROVE  \/ i \in DOMAIN s /\ (s \o t)[i] = s[i]
                      \/ i > Len(s) /\ i - Len(s) \in DOMAIN t /\ (s \o t)[i] = t[i - Len(s)]
    OBVIOUS
  <2>1. i \in 1..(Len(s) + Len(t))
    BY <1>2
  <2>2. i <= Len(s) => i \in 1..Len(s)
    BY <1>2, <2>1
  <2>3. ~ (i <= Len(s)) => i > Len(s) /\ i - Len(s) \in 1..Len(t)
    BY <1>2, <2>1
  <2>. QED  BY <1>1, <1>2, <2>1, <2>2, <2>3
<1>. QED  BY <1>1, <1>2, <1>3, <1>4, <1>5

LEMMA WithinConcat ==
    ASSUME NEW X, NEW s \in Seq(X), NEW t \in Seq(X)
    PROVE  \A p : Within(p, s \o t) <=> Within(p, s) \/ Within(p, t)
<1>1. /\ \A i \in DOMAIN s : i \in DOMAIN (s \o t) /\ (s \o t)[i] = s[i]
      /\ \A i \in DOMAIN t : i + Len(s) \in DOMAIN (s \o t) /\ (s \o t)[i + Len(s)] = t[i]
      /\ \A i \in DOMAIN (s \o t) :
            \/ i \in DOMAIN s /\ (s \o t)[i] = s[i]
            \/ i - Len(s) \in DOMAIN t /\ (s \o t)[i] = t[i - Len(s)]
  BY ConcatAt
<1>. QED  BY <1>1 DEF Within

LEMMA AppendAfter ==
    ASSUME NEW X, NEW s \in Seq(X), NEW t \in Seq(X), NEW x \in X
    PROVE  s \o Append(t, x) = Append(s \o t, x)
<1>1. PICK z \in Seq(X) : z = <<x>>
  <2>1. <<x>> \in Seq(X)
    OBVIOUS
  <2>. QED  BY <2>1
<1>2. Append(t, x) = t \o z /\ Append(s \o t, x) = (s \o t) \o z
  BY <1>1, ConcatProperties, AppendIsConcat
<1>3. (s \o t) \o z = s \o (t \o z)
  BY ConcatAssociative
<1>. QED  BY <1>2, <1>3

LEMMA ChunkMore ==
    ASSUME NEW c, NEW lost, IsChunk(c, lost), NEW more, lost \subseteq more
    PROVE  IsChunk(c, more)
BY DEF IsChunk, Whole

LEMMA NextIn == \A n \in Nat : \A i \in 1..n : i # n => i + 1 \in 1..n
OBVIOUS

LEMMA TightHeard ==
    ASSUME NEW s, InLine(s), NEW p \in Real, NEW lost, Tight(s, p, lost)
    PROVE  Tight(Append(s, p), Following(p), lost)
<1>1. /\ s \in Seq(Pieces) /\ Len(s) \in Nat /\ DOMAIN s = 1..Len(s) /\ p \in Pieces
  BY LenProperties, PieceSorts DEF InLine
<1>2. /\ Append(s, p) \in Seq(Pieces) /\ Len(Append(s, p)) = Len(s) + 1
      /\ \A i \in 1..Len(s) : Append(s, p)[i] = s[i]
      /\ Append(s, p)[Len(s) + 1] = p
  BY <1>1, AppendProperties
<1>3. DOMAIN Append(s, p) = 1..(Len(s) + 1)
  BY <1>2, LenProperties
<1>4. ASSUME NEW i \in 1..Len(s), s[i] # Noise, Following(s[i]) \notin lost
      PROVE  Append(s, p)[i + 1] = Following(s[i])
  <2>1. CASE i = Len(s)
    BY <1>1, <1>2, <1>4, <2>1 DEF Tight
  <2>2. CASE i # Len(s)
    <3>1. i + 1 \in 1..Len(s)
      BY <1>1, <2>2, NextIn
    <3>. QED  BY <1>1, <1>2, <1>4, <2>2, <3>1 DEF Tight
  <2>. QED  BY <2>1, <2>2
<1>5. ASSUME NEW i \in DOMAIN Append(s, p), Append(s, p)[i] # Noise, Following(Append(s, p)[i]) \notin lost
      PROVE  IF i = Len(Append(s, p)) THEN Following(p) = Following(Append(s, p)[i])
               ELSE Append(s, p)[i + 1] = Following(Append(s, p)[i])
  <2>1. CASE i = Len(s) + 1
    BY <1>2, <2>1
  <2>2. CASE i # Len(s) + 1
    <3>1. i \in 1..Len(s)
      BY <1>1, <1>3, <2>2
    <3>. QED  BY <1>2, <1>4, <1>5, <2>2, <3>1
  <2>. QED  BY <2>1, <2>2
<1>. QED  BY <1>5 DEF Tight

LEMMA TightMissed ==
    ASSUME NEW s, InLine(s), NEW p \in Real, NEW lost, Tight(s, p, lost), NEW next
    PROVE  Tight(s, next, lost \cup {p}) /\ Tight(Append(s, Noise), next, lost \cup {p})
<1>1. /\ s \in Seq(Pieces) /\ Len(s) \in Nat /\ DOMAIN s = 1..Len(s) /\ Noise \in Pieces
  BY LenProperties, PieceSorts DEF InLine
<1>2. /\ Append(s, Noise) \in Seq(Pieces) /\ Len(Append(s, Noise)) = Len(s) + 1
      /\ \A i \in 1..Len(s) : Append(s, Noise)[i] = s[i]
      /\ Append(s, Noise)[Len(s) + 1] = Noise
  BY <1>1, AppendProperties
<1>3. DOMAIN Append(s, Noise) = 1..(Len(s) + 1)
  BY <1>2, LenProperties
<1>4. ASSUME NEW i \in 1..Len(s), s[i] # Noise, Following(s[i]) \notin lost \cup {p}
      PROVE  i + 1 \in 1..Len(s) /\ i # Len(s) /\ s[i + 1] = Following(s[i])
  <2>1. i # Len(s)
    BY <1>1, <1>4 DEF Tight
  <2>2. i + 1 \in 1..Len(s)
    BY <1>1, <2>1, NextIn
  <2>. QED  BY <1>1, <1>4, <2>1, <2>2 DEF Tight
<1>5. Tight(s, next, lost \cup {p})
  BY <1>1, <1>4 DEF Tight
<1>6. ASSUME NEW i \in DOMAIN Append(s, Noise), Append(s, Noise)[i] # Noise,
             Following(Append(s, Noise)[i]) \notin lost \cup {p}
      PROVE  IF i = Len(Append(s, Noise)) THEN next = Following(Append(s, Noise)[i])
               ELSE Append(s, Noise)[i + 1] = Following(Append(s, Noise)[i])
  <2>1. i \in 1..Len(s) /\ Append(s, Noise)[i] = s[i]
    <3>1. i # Len(s) + 1
      BY <1>2, <1>6
    <3>2. i \in 1..Len(s)
      BY <1>1, <1>3, <3>1
    <3>. QED  BY <1>2, <3>2
  <2>2. i + 1 \in 1..Len(s) /\ i # Len(s) /\ s[i + 1] = Following(s[i])
    BY <1>4, <1>6, <2>1
  <2>3. i # Len(s) + 1
    BY <1>1, <2>1
  <2>. QED  BY <1>2, <2>1, <2>2, <2>3
<1>7. Tight(Append(s, Noise), next, lost \cup {p})
  BY <1>6 DEF Tight
<1>. QED  BY <1>5, <1>7

-----------------------------------------------------------------------------
(* The talker, the wire and the reads *)

(* An entry that was right stays so.                                          *)
LEMMA RightLater ==
    ASSUME NEW e, Right(e), talk' = talk, damaged \subseteq damaged'
    PROVE  Right(e)'
<1>1. Fits(e.sentence) => Fits(e.sentence)'
  BY DEF Fits
<1>2. TokensOf(Piece(e.sentence, "text"))' = TokensOf(Piece(e.sentence, "text"))
  BY DEF TokensOf
<1>3. Completed(e.sentence) => Completed(e.sentence)'
  BY DEF Completed
<1>. QED  BY <1>1, <1>2, <1>3 DEF Right

(* What is sound stays so when pieces are said that come after.               *)
LEMMA SoundLater ==
    ASSUME NEW e, Sound(e), talk' = talk, withChecksum' = withChecksum, damaged \subseteq damaged',
           \A p \in Real : Waiting(p)' => Rank(Piece(e.sentence, "text")) < Rank(p)
    PROVE  Sound(e)'
BY RightLater DEF Sound

LEMMA SpeaksStep ==
    ASSUME NmeaInv, Speaks,
           \/ inbox' = Append(inbox, at) /\ damaged' = damaged
           \/ inbox' \in {inbox, Append(inbox, Noise)} /\ damaged' = damaged \cup {at}
    PROVE  NmeaInv'
<1>. USE DEF NmeaInv
<1>1. /\ plugged /\ at.sentence \in DOMAIN talk /\ at' = Following(at) /\ quiet' = FALSE
      /\ talk' = talk /\ withChecksum' = withChecksum /\ cut' = cut /\ plugged' = plugged
      /\ phase' = phase /\ raw' = raw /\ chunks' = chunks /\ entries' = entries /\ given' = given
  BY DEF Speaks, Following
<1>2. /\ at \in Real /\ at \in Pieces /\ at # Noise /\ Noise \in Pieces
      /\ raw \in Seq(Pieces) /\ inbox \in Seq(Pieces)
  BY PieceSorts DEF NmeaSorts
<1>3. /\ at' \in Real /\ Rank(at') = Rank(at) + 1 /\ Rank(at) \in Nat
      /\ at'.part # "$" => at'.sentence = at.sentence
      /\ at'.sentence <= at.sentence + 1 /\ at.sentence \in Nat
  BY <1>1, <1>2, FollowingIs, RankNat DEF Real
<1>4. Stream \in Seq(Pieces)
  BY <1>2, ConcatProperties DEF Stream
<1>5. \/ Stream' = Append(Stream, at) /\ damaged' = damaged
      \/ Stream' \in {Stream, Append(Stream, Noise)} /\ damaged' = damaged \cup {at}
  <2>1. \A x \in Pieces : raw \o Append(inbox, x) = Append(raw \o inbox, x)
    BY <1>2, AppendAfter
  <2>2. \/ inbox' = Append(inbox, at) /\ damaged' = damaged
        \/ inbox' = inbox /\ damaged' = damaged \cup {at}
        \/ inbox' = Append(inbox, Noise) /\ damaged' = damaged \cup {at}
    OBVIOUS
  <2>. QED  BY <1>1, <1>2, <2>1, <2>2 DEF Stream
<1>14. /\ \A x \in Pieces : \A p : Within(p, Append(Stream, x)) <=> Within(p, Stream) \/ p = x
       /\ \A x \in Pieces : Append(inbox, x) \in Seq(Pieces)
  BY <1>2, <1>4, WithinAppend, AppendProperties
<1>6. \A p : Within(p, Stream') =>
         Within(p, Stream) \/ p = at \/ p = Noise
  BY <1>2, <1>5, <1>14
<1>7. \A p : Within(p, Stream) => Within(p, Stream')
  BY <1>2, <1>5, <1>14
<1>8. NmeaSorts'
  <2>1. at'.sentence <= Len(talk) + 1
    <3>1. Len(talk) \in Nat /\ DOMAIN talk = 1..Len(talk)
      BY TalkIs DEF NmeaSorts
    <3>. QED  BY <1>1, <1>3, <3>1 DEF Real
  <2>2. inbox' \in Seq(Pieces)
    BY <1>2, <1>14
  <2>3. damaged' \subseteq Real
    BY <1>2 DEF NmeaSorts
  <2>. QED  BY <1>1, <1>3, <2>1, <2>2, <2>3 DEF NmeaSorts, TalkOK
<1>9. NmeaPhases'
  BY <1>1 DEF NmeaPhases
<1>10. StreamInv'
  <2>1. InLine(Stream) /\ AllSaid(Stream) /\ ReachesTo(Stream, at, damaged) /\ Tight(Stream, at, damaged)
    BY <1>1 DEF StreamInv
  <2>2. InLine(Stream') /\ ReachesTo(Stream', at', damaged')
    <3>1. InLine(Append(Stream, at)) /\ ReachesTo(Append(Stream, at), at', damaged)
      BY <1>2, <1>3, <2>1, Heard1
    <3>2. /\ ReachesTo(Stream, at', damaged \cup {at})
          /\ InLine(Append(Stream, Noise)) /\ ReachesTo(Append(Stream, Noise), at', damaged \cup {at})
      BY <1>2, <1>3, <2>1, Missed
    <3>. QED  BY <1>5, <2>1, <3>1, <3>2
  <2>3. Tight(Stream', at', damaged')
    <3>1. Tight(Append(Stream, at), at', damaged)
      BY <1>1, <1>2, <2>1, TightHeard
    <3>2. Tight(Stream, at', damaged \cup {at}) /\ Tight(Append(Stream, Noise), at', damaged \cup {at})
      BY <1>2, <2>1, TightMissed
    <3>. QED  BY <1>5, <3>1, <3>2
  <2>5. AllSaid(Stream)'
    <3>1. \A p : Within(p, Stream) => Said(p)
      BY <2>1 DEF AllSaid, Within
    <3>2. Said(at) /\ Said(Noise)
      BY <1>1, <1>2 DEF Said
    <3>3. \A p : Within(p, Stream') => Said(p)
      BY <1>6, <3>1, <3>2
    <3>. QED  BY <1>1, <3>3 DEF AllSaid, Said, Within
  <2>. QED  BY <2>2, <2>3, <2>5 DEF StreamInv
<1>11. ChunksInv'
  <2>1. \A k \in DOMAIN chunks : AllSaid(chunks[k])'
    BY <1>1 DEF ChunksInv, AllSaid, Said
  <2>2. \A k \in DOMAIN chunks : IsChunk(chunks[k], damaged')
    BY <1>5, ChunkMore DEF ChunksInv
  <2>3. ASSUME NEW p \in Real, NEW q \in Real, InChunks(p)', Within(q, Stream') \/ q = at'
        PROVE  Rank(p) < Rank(q)
    <3>1. InChunks(p)
      BY <1>1, <2>3 DEF InChunks
    <3>2. Rank(p) < Rank(at)
      BY <1>2, <3>1 DEF ChunksInv
    <3>3. CASE q = at'
      BY <1>3, <3>2, <3>3, RankNat
    <3>4. CASE q # at'
      <4>1. Within(q, Stream) \/ q = at
        BY <1>6, <2>3, <3>4, PieceSorts
      <4>. QED  BY <3>1, <4>1 DEF ChunksInv
    <3>. QED  BY <3>3, <3>4
  <2>. QED  BY <1>1, <2>1, <2>2, <2>3 DEF ChunksInv
<1>12. EntriesInv'
  <2>1. ASSUME NEW e, Sound(e) PROVE Sound(e)'
    <3>1. ASSUME NEW p \in Real, Waiting(p)' PROVE Rank(Piece(e.sentence, "text")) < Rank(p)
      <4>1. Waiting(p) \/ p = at'
        BY <1>1, <1>6, <3>1, PieceSorts DEF Waiting, InChunks
      <4>2. CASE Waiting(p)
        BY <2>1, <4>2 DEF Sound
      <4>3. CASE p = at'
        <5>1. Rank(Piece(e.sentence, "text")) < Rank(at)
          BY <1>2, <2>1 DEF Sound, Waiting
        <5>2. Rank(Piece(e.sentence, "text")) \in Nat
          <6>1. e.sentence \in Nat \ {0}
            BY <2>1, TalkIs DEF Sound, NmeaSorts
          <6>2. Piece(e.sentence, "text") \in Real
            BY <6>1, PieceRanks DEF Parts
          <6>. QED  BY <6>2, RankNat
        <5>. QED  BY <1>3, <4>3, <5>1, <5>2
      <4>. QED  BY <4>1, <4>2, <4>3
    <3>2. damaged \subseteq damaged'
      BY <1>5
    <3>. QED  BY <1>1, <2>1, <3>1, <3>2, SoundLater
  <2>. QED  BY <1>1, <2>1 DEF EntriesInv, OnceInOrder
<1>13. HeardInv'
  <2>1. ASSUME NEW n \in DOMAIN talk, Fits(n)', ~ Spoiled(n)' PROVE OnItsWay(n)'
    <3>1. Fits(n)
      BY <1>1, <2>1 DEF Fits
    <3>2. ~ Spoiled(n)
      BY <1>1, <1>5, <2>1 DEF Spoiled
    <3>3. OnItsWay(n)
      BY <1>1, <3>1, <3>2 DEF HeardInv
    <3>4. CASE \A part \in Parts : Rank(Piece(n, part)) < Rank(at) => Within(Piece(n, part), Stream)
      <4>1. ASSUME NEW part \in Parts, Rank(Piece(n, part)) < Rank(at') PROVE Within(Piece(n, part), Stream')
        <5>1. n \in Nat \ {0}
          BY TalkIs DEF NmeaSorts
        <5>2. Piece(n, part) \in Real /\ Piece(n, part).sentence = n
          BY <5>1, PieceRanks
        <5>3. CASE Rank(Piece(n, part)) < Rank(at)
          BY <1>7, <3>4, <5>3
        <5>4. CASE Rank(Piece(n, part)) = Rank(at)
          <6>1. Piece(n, part) = at
            BY <1>2, <5>2, <5>4, RankOne
          <6>2. at \notin damaged'
            BY <2>1, <5>2, <6>1 DEF Spoiled
          <6>. QED  BY <1>2, <1>5, <1>14, <6>1, <6>2
        <5>. QED  BY <1>3, <4>1, <5>2, <5>3, <5>4, RankNat
      <4>. QED  BY <4>1 DEF OnItsWay
    <3>. QED  BY <1>1, <3>3, <3>4 DEF OnItsWay, Given
  <2>. QED  BY <1>1, <2>1 DEF HeardInv
<1>. QED  BY <1>8, <1>9, <1>10, <1>11, <1>12, <1>13

LEMMA ArriveStep == NmeaInv /\ Arrive => NmeaInv'
BY SpeaksStep DEF Arrive

LEMMA DamageStep == NmeaInv /\ Damage => NmeaInv'
<1> SUFFICES ASSUME NmeaInv, Damage PROVE NmeaInv'
  OBVIOUS
<1>1. inbox \in Seq(Pieces) /\ Noise \in Pieces
  BY PieceSorts DEF NmeaInv, NmeaSorts
<1>2. inbox \o <<>> = inbox /\ inbox \o <<Noise>> = Append(inbox, Noise)
  BY <1>1, ConcatEmptySeq, AppendIsConcat
<1>3. Speaks /\ inbox' \in {inbox, Append(inbox, Noise)} /\ damaged' = damaged \cup {at}
  BY <1>2 DEF Damage
<1>. QED  BY <1>3, SpeaksStep

(* What is heard, read and made of it stays as it is.                         *)
LEMMA SameStream ==
    ASSUME NmeaInv, UNCHANGED <<talk, withChecksum, at, damaged, chunks, entries, given>>,
           Stream' = Stream, plugged' => plugged, cut \subseteq cut',
           quiet' /\ at.part # "$" => at.sentence \in cut'
    PROVE  StreamInv' /\ ChunksInv' /\ EntriesInv' /\ HeardInv'
<1>. USE DEF NmeaInv
<1>1. StreamInv'
  BY DEF StreamInv, AllSaid, Said
<1>2. ChunksInv'
  BY DEF ChunksInv, AllSaid, Said, InChunks
<1>3. EntriesInv'
  <2>1. ASSUME NEW e, Sound(e) PROVE Sound(e)'
    <3>1. \A p \in Real : Waiting(p)' => Waiting(p)
      BY DEF Waiting, InChunks
    <3>2. \A p \in Real : Waiting(p)' => Rank(Piece(e.sentence, "text")) < Rank(p)
      BY <2>1, <3>1 DEF Sound
    <3>. QED  BY <2>1, <3>2, SoundLater
  <2>. QED  BY <2>1 DEF EntriesInv, OnceInOrder
<1>4. HeardInv'
  <2>1. ASSUME NEW n \in DOMAIN talk, plugged', Fits(n)', ~ Spoiled(n)' PROVE OnItsWay(n)'
    <3>1. Fits(n) /\ ~ Spoiled(n)
      BY <2>1 DEF Fits, Spoiled
    <3>2. OnItsWay(n)
      BY <2>1, <3>1 DEF HeardInv
    <3>. QED  BY <3>2 DEF OnItsWay, Given
  <2>. QED  BY <2>1 DEF HeardInv
<1>. QED  BY <1>1, <1>2, <1>3, <1>4

LEMMA PauseStep == NmeaInv /\ Pause => NmeaInv'
<1> SUFFICES ASSUME NmeaInv, Pause PROVE NmeaInv'
  OBVIOUS
<1>1. /\ UNCHANGED <<talk, withChecksum, at, damaged, chunks, entries, given>>
      /\ UNCHANGED <<plugged, inbox, phase, raw>> /\ quiet' = TRUE
      /\ cut' = IF at.part = "$" THEN cut ELSE cut \cup {at.sentence}
  BY DEF Pause
<1>2. StreamInv' /\ ChunksInv' /\ EntriesInv' /\ HeardInv'
  <2>1. Stream' = Stream
    BY <1>1 DEF Stream
  <2>. QED  BY <1>1, <2>1, SameStream
<1>3. NmeaSorts'
  BY <1>1 DEF NmeaInv, NmeaSorts, TalkOK
<1>4. NmeaPhases'
  BY <1>1 DEF NmeaInv, NmeaPhases
<1>. QED  BY <1>2, <1>3, <1>4 DEF NmeaInv

LEMMA TimeOutStep == NmeaInv /\ TimeOut => NmeaInv'
<1> SUFFICES ASSUME NmeaInv, TimeOut PROVE NmeaInv'
  OBVIOUS
<1>1. /\ UNCHANGED <<talk, withChecksum, at, damaged, chunks, entries, given>>
      /\ UNCHANGED <<cut, quiet, plugged, inbox, raw>> /\ phase = "await" /\ phase' = "receive"
  BY DEF TimeOut, wire
<1>2. StreamInv' /\ ChunksInv' /\ EntriesInv' /\ HeardInv'
  <2>1. Stream' = Stream
    BY <1>1 DEF Stream
  <2>2. quiet' /\ at.part # "$" => at.sentence \in cut'
    BY <1>1 DEF NmeaInv, HeardInv
  <2>. QED  BY <1>1, <2>1, <2>2, SameStream
<1>3. NmeaSorts'
  BY <1>1 DEF NmeaInv, NmeaSorts, TalkOK
<1>4. NmeaPhases'
  BY <1>1 DEF NmeaInv, NmeaPhases
<1>. QED  BY <1>2, <1>3, <1>4 DEF NmeaInv

LEMMA ReadStep == NmeaInv /\ Read => NmeaInv'
<1> SUFFICES ASSUME NmeaInv, Read PROVE NmeaInv'
  OBVIOUS
<1>1. /\ UNCHANGED <<talk, withChecksum, at, damaged, chunks, entries, given>>
      /\ UNCHANGED <<cut, quiet, plugged>> /\ phase \in {"await", "read"} /\ phase' = "read"
      /\ raw' = raw \o inbox /\ inbox' = <<>>
  BY DEF Read, wire
<1>2. raw \in Seq(Pieces) /\ inbox \in Seq(Pieces) /\ raw \o inbox \in Seq(Pieces)
  BY ConcatProperties DEF NmeaInv, NmeaSorts
<1>3. StreamInv' /\ ChunksInv' /\ EntriesInv' /\ HeardInv'
  <2>1. Stream' = Stream
    BY <1>1, <1>2, ConcatEmptySeq DEF Stream
  <2>2. quiet' /\ at.part # "$" => at.sentence \in cut'
    BY <1>1 DEF NmeaInv, HeardInv
  <2>. QED  BY <1>1, <2>1, <2>2, SameStream
<1>4. NmeaSorts'
  BY <1>1, <1>2 DEF NmeaInv, NmeaSorts, TalkOK
<1>5. NmeaPhases'
  BY <1>1 DEF NmeaInv, NmeaPhases
<1>. QED  BY <1>3, <1>4, <1>5 DEF NmeaInv

(* What is heard no more is not waited for.                                   *)
LEMMA UnplugStep == NmeaInv /\ Unplug => NmeaInv'
<1> SUFFICES ASSUME NmeaInv, Unplug PROVE NmeaInv'
  OBVIOUS
<1>. USE DEF NmeaInv
<1>1. /\ UNCHANGED <<talk, withChecksum, at, damaged, chunks, entries, given>>
      /\ UNCHANGED <<cut, quiet, raw, phase>> /\ plugged' = FALSE /\ inbox' = <<>>
  BY DEF Unplug, wire
<1>2. raw \in Seq(Pieces) /\ inbox \in Seq(Pieces) /\ <<>> \in Seq(Pieces)
  BY DEF NmeaSorts
<1>3. \A p : Within(p, Stream') => Within(p, Stream)
  <2>1. Stream' = raw
    BY <1>1, <1>2, ConcatEmptySeq DEF Stream
  <2>. QED  BY <1>2, <2>1, WithinConcat DEF Stream
<1>4. NmeaSorts'
  BY <1>1, <1>2 DEF NmeaSorts, TalkOK
<1>5. NmeaPhases'
  BY <1>1 DEF NmeaPhases
<1>6. StreamInv' /\ HeardInv'
  BY <1>1 DEF StreamInv, HeardInv
<1>7. ChunksInv'
  BY <1>1, <1>3 DEF ChunksInv, AllSaid, Said, InChunks
<1>8. EntriesInv'
  <2>1. ASSUME NEW e, Sound(e) PROVE Sound(e)'
    <3>1. \A p \in Real : Waiting(p)' => Waiting(p)
      BY <1>1, <1>3 DEF Waiting, InChunks
    <3>2. \A p \in Real : Waiting(p)' => Rank(Piece(e.sentence, "text")) < Rank(p)
      BY <2>1, <3>1 DEF Sound
    <3>. QED  BY <1>1, <2>1, <3>2, SoundLater
  <2>. QED  BY <1>1, <2>1 DEF EntriesInv, OnceInOrder
<1>. QED  BY <1>4, <1>5, <1>6, <1>7, <1>8

(* What was read is lost, and the entry that says so is an error.             *)
LEMMA FailStep == NmeaInv /\ Fail => NmeaInv'
<1> SUFFICES ASSUME NmeaInv, Fail PROVE NmeaInv'
  OBVIOUS
<1>. USE DEF NmeaInv
<1>1. /\ UNCHANGED <<talk, withChecksum, at, damaged, chunks, given>>
      /\ UNCHANGED <<cut, quiet, plugged, inbox>> /\ ~ plugged
      /\ phase \in {"await", "read"} /\ phase' = "receive"
      /\ raw' = <<>> /\ entries' = <<Error("OS")>>
  BY DEF Fail, wire
<1>2. chunks = <<>> /\ inbox = <<>> /\ <<>> \in Seq(Pieces) /\ DOMAIN <<>> = {}
  BY <1>1, EmptySeq DEF NmeaPhases
<1>3. Error("OS") \in Result /\ Error("OS").error # "none"
  BY EmptySeq DEF Error, Result
<1>4. /\ <<Error("OS")>> \in Seq(Result) /\ DOMAIN <<Error("OS")>> = {1}
      /\ <<Error("OS")>>[1] = Error("OS")
  BY <1>3
<1>5. \A p : ~ Within(p, Stream') /\ ~ InChunks(p)'
  <2>1. Stream' = <<>>
    BY <1>1, <1>2, ConcatEmptySeq DEF Stream
  <2>. QED  BY <1>1, <1>2, <2>1 DEF Within, InChunks
<1>6. NmeaSorts'
  BY <1>1, <1>2, <1>4 DEF NmeaSorts, TalkOK
<1>7. NmeaPhases'
  BY <1>1 DEF NmeaPhases
<1>8. StreamInv' /\ HeardInv'
  BY <1>1 DEF StreamInv, HeardInv
<1>9. ChunksInv'
  BY <1>1, <1>2, <1>5 DEF ChunksInv, InTurn
<1>10. EntriesInv'
  <2>1. ASSUME NEW e, Sound(e) PROVE Sound(e)'
    <3>1. \A p \in Real : Waiting(p)' => Waiting(p)
      BY <1>1, <1>5 DEF Waiting
    <3>2. \A p \in Real : Waiting(p)' => Rank(Piece(e.sentence, "text")) < Rank(p)
      BY <2>1, <3>1 DEF Sound
    <3>. QED  BY <1>1, <2>1, <3>2, SoundLater
  <2>2. \A e \in ToSet(entries') : e.error # "none"
    BY <1>1, <1>3, <1>4 DEF ToSet
  <2>3. \A j \in DOMAIN entries' : entries'[j].error # "none"
    BY <1>1, <1>3, <1>4
  <2>. QED  BY <1>1, <2>1, <2>2, <2>3 DEF EntriesInv, OnceInOrder
<1>. QED  BY <1>6, <1>7, <1>8, <1>9, <1>10

-----------------------------------------------------------------------------
(* A sentence heard whole is a chunk of its own *)

LEMMA FollowingOf ==
    ASSUME NEW n \in Nat \ {0}
    PROVE  /\ Following(Piece(n, "$")) = Piece(n, "text")
           /\ Following(Piece(n, "text")) = Piece(n, "*")
           /\ Following(Piece(n, "*")) = Piece(n, "CRLF")
           /\ Following(Piece(n, "CRLF")) = Piece(n + 1, "$")
BY DEF Following, Piece, After, Parts

(* A sentence without damage is a chunk.                                      *)
LEMMA SplitsWhole ==
    ASSUME NEW s, InLine(s), NEW next \in Real, NEW lost, Tight(s, next, lost),
           NEW n \in Nat \ {0}, n < next.sentence, \A part \in Parts : Piece(n, part) \notin lost,
           Piece(n + 1, "$") \notin lost, Within(Piece(n, "$"), s)
    PROVE  \E k \in DOMAIN Split(s) : Split(s)[k] = WholeSentence(n)
<1>1. s \in Seq(Pieces) /\ Len(s) \in Nat /\ DOMAIN s = 1..Len(s)
  BY LenProperties DEF InLine
<1>2. PICK i \in 1..Len(s) : s[i] = Piece(n, "$")
  BY <1>1 DEF Within
<1>3. /\ "$" \in Parts /\ "text" \in Parts /\ "*" \in Parts /\ "CRLF" \in Parts
      /\ \A part \in Parts : Piece(n, part) \in Real /\ Piece(n, part) # Noise
                             /\ Piece(n, part).part = part /\ Piece(n, part).sentence = n
  BY PieceRanks, PieceSorts DEF Parts
<1>4. \A part \in Parts : next # Piece(n, part)
  BY <1>3 DEF Real
<1>5. ASSUME NEW x \in 1..Len(s), NEW p \in Parts, NEW q \in Parts, s[x] = Piece(n, p),
             Following(Piece(n, p)) = Piece(n, q)
      PROVE  x + 1 \in 1..Len(s) /\ s[x + 1] = Piece(n, q)
  <2>1. x # Len(s)
    BY <1>1, <1>3, <1>4, <1>5 DEF Tight
  <2>. QED  BY <1>1, <1>3, <1>5, <2>1, NextIn DEF Tight
<1>6. i + 1 \in 1..Len(s) /\ s[i + 1] = Piece(n, "text")
  BY <1>2, <1>3, <1>5, FollowingOf
<1>7. (i + 1) + 1 \in 1..Len(s) /\ s[(i + 1) + 1] = Piece(n, "*")
  BY <1>3, <1>5, <1>6, FollowingOf
<1>8. ((i + 1) + 1) + 1 \in 1..Len(s) /\ s[((i + 1) + 1) + 1] = Piece(n, "CRLF")
  BY <1>3, <1>5, <1>7, FollowingOf
<1>9. i \in Nat /\ (i + 1) + 1 = i + 2 /\ ((i + 1) + 1) + 1 = i + 3
  OBVIOUS
<1>10. i + 3 # Len(s) => s[i + 4].part = "$"
  <2> SUFFICES ASSUME i + 3 # Len(s) PROVE s[i + 4].part = "$"
    OBVIOUS
  <2>1. i + 3 \in DOMAIN s /\ s[i + 3] = Piece(n, "CRLF")
    BY <1>1, <1>8, <1>9
  <2>2. s[(i + 3) + 1] = Piece(n + 1, "$")
    BY <1>3, <2>1, FollowingOf DEF Tight
  <2>3. (i + 3) + 1 = i + 4
    BY <1>9
  <2>. QED  BY <2>2, <2>3 DEF Piece
<1>11. PICK m \in Nat : \E from, to \in [1..m -> 1..Len(s)] : Cuts(s, m, from, to)
  BY <1>1, SplitIs
<1>12. PICK from \in [1..m -> 1..Len(s)], to \in [1..m -> 1..Len(s)] : Cuts(s, m, from, to)
  BY <1>11
<1>13. PICK k \in 1..m : from[k] = i
  BY <1>2, <1>3, <1>12 DEF Cuts
<1>14. PICK z \in 1..Len(s) : z = to[k]
  BY <1>12
<1>15. /\ i <= z /\ \A j \in i..z : s[j].part = "$" => j = i
       /\ z # Len(s) => z + 1 \in 1..Len(s) /\ s[z + 1].part = "$"
       /\ k \in DOMAIN Split(s) /\ Split(s)[k] = SubSeq(s, i, z)
  BY <1>12, <1>13, <1>14 DEF Cuts
<1>16. z = i + 3
  <2>1. i + 3 <= Len(s)
    BY <1>1, <1>8, <1>9
  <2>2. z # i /\ z # i + 1 /\ z # i + 2
    <3>1. s[i + 1].part # "$" /\ s[i + 2].part # "$" /\ s[i + 3].part # "$"
      BY <1>3, <1>6, <1>7, <1>8, <1>9
    <3>2. i + 1 + 1 = i + 2 /\ i + 2 + 1 = i + 3 /\ i # i + 3 /\ i + 1 # i + 3 /\ i + 2 # i + 3
      BY <1>9
    <3>3. z = i \/ z = i + 1 \/ z = i + 2 => z < Len(s)
      BY <1>1, <1>9, <2>1
    <3>4. z < Len(s) => s[z + 1].part = "$"
      <4>1. z < Len(s) => z # Len(s)
        <5>1. PICK a \in Nat, b \in Nat : a = z /\ b = Len(s)
          <6>1. z \in Nat /\ Len(s) \in Nat
            BY <1>1
          <6>. QED  BY <6>1
        <5>2. a < b => a # b
          OBVIOUS
        <5>. QED  BY <5>1, <5>2
      <4>. QED  BY <1>15, <4>1
    <3>. QED  BY <3>1, <3>2, <3>3, <3>4
  <2>3. ~ (z >= i + 4)
    <3> SUFFICES ASSUME z >= i + 4 PROVE FALSE
      OBVIOUS
    <3>1. i + 4 \in i..z /\ i + 3 # Len(s) /\ i + 4 # i
      <4>1. z \in Nat /\ z <= Len(s)
        BY <1>1, <1>14
      <4>2. i + 4 \in i..z
        BY <1>9, <4>1
      <4>3. i + 3 # Len(s) /\ i + 4 # i
        <5>1. PICK a \in Nat, b \in Nat : a = i /\ b = Len(s) /\ a + 4 <= b
          <6>1. i \in Nat /\ Len(s) \in Nat
            BY <1>1, <1>9
          <6>2. i + 4 <= Len(s)
            BY <1>1, <1>9, <4>1
          <6>. QED  BY <6>1, <6>2
        <5>2. a + 3 # b /\ a + 4 # a
          BY <5>1
        <5>. QED  BY <5>1, <5>2
      <4>. QED  BY <4>2, <4>3
    <3>. QED  BY <1>10, <1>15, <3>1
  <2>. QED  BY <1>9, <1>15, <2>2, <2>3
<1>17. SubSeq(s, i, i + 3) = WholeSentence(n)
  <2>1. i + 3 \in 1..Len(s) /\ i <= i + 3 /\ (i + 3) - i + 1 = 4
    BY <1>8, <1>9
  <2>2. /\ SubSeq(s, i, i + 3) \in Seq(Pieces) /\ DOMAIN SubSeq(s, i, i + 3) = 1..((i + 3) - i + 1)
        /\ \A j \in 1..((i + 3) - i + 1) :
              i + j - 1 \in i..(i + 3) /\ SubSeq(s, i, i + 3)[j] = s[i + j - 1]
    BY <1>1, <2>1, SliceIs
  <2>. DEFINE c == SubSeq(s, i, i + 3)
  <2>. HIDE DEF c
  <2>3. c \in Seq(Pieces) /\ DOMAIN c = 1..4 /\ \A j \in 1..4 : c[j] = s[i + j - 1]
    BY <2>1, <2>2 DEF c
  <2>4. c[1] = s[i] /\ c[2] = s[i + 1] /\ c[3] = s[i + 2] /\ c[4] = s[i + 3]
    BY <1>9, <2>3
  <2>5. Len(c) = 4
    BY <2>3, LenProperties
  <2>6. c = <<c[1], c[2], c[3], c[4]>>
    BY <2>3, <2>5
  <2>. QED  BY <1>2, <1>6, <1>7, <1>8, <1>9, <2>4, <2>6 DEF c, WholeSentence
<1>. QED  BY <1>15, <1>16, <1>17

(* What was read is cut into chunks; what of it belongs to a sentence without *)
(* damage is all there.                                                       *)
LEMMA ReturnStep == NmeaInv /\ Return => NmeaInv'
<1> SUFFICES ASSUME NmeaInv, Return PROVE NmeaInv'
  OBVIOUS
<1>. USE DEF NmeaInv
<1>1. /\ UNCHANGED <<talk, withChecksum, at, damaged, given>>
      /\ UNCHANGED <<cut, quiet, plugged, inbox>> /\ plugged /\ quiet /\ inbox = <<>>
      /\ phase = "read" /\ phase' = "receive" /\ raw' = <<>> /\ chunks' = Split(raw)
      /\ entries' \in {<<>>, <<Error("NMEA")>>}
  BY DEF Return, Nothing, wire
<1>2. chunks = <<>> /\ entries = <<>> /\ <<>> \in Seq(Pieces) /\ DOMAIN <<>> = {} /\ raw \in Seq(Pieces)
  BY <1>1, EmptySeq DEF NmeaPhases, NmeaSorts
<1>3. Stream = raw /\ Stream' = <<>>
  BY <1>1, <1>2, ConcatEmptySeq DEF Stream
<1>4. /\ InLine(raw) /\ AllSaid(raw) /\ ReachesTo(raw, at, damaged) /\ Tight(raw, at, damaged)
      /\ at \in Real
  BY <1>1, <1>3 DEF StreamInv, NmeaSorts
<1>5. /\ Split(raw) \in Seq(Seq(Pieces))
      /\ \A k \in DOMAIN Split(raw) :
            /\ IsChunk(Split(raw)[k], damaged)
            /\ \A i \in DOMAIN Split(raw)[k] : Within(Split(raw)[k][i], raw)
      /\ InTurn(Split(raw))
  <2>1. Whole(raw, damaged)
    BY <1>4, ReachesWhole
  <2>. QED  BY <1>4, <2>1, SplitChunks
<1>6. (\A p : InChunks(p)' => Within(p, raw)) /\ \A p : ~ Within(p, Stream')
  BY <1>1, <1>2, <1>3, <1>5 DEF InChunks, Within
<1>7. Error("NMEA") \in Result /\ Error("NMEA").error # "none"
  BY EmptySeq DEF Error, Result
<1>8. /\ <<Error("NMEA")>> \in Seq(Result) /\ DOMAIN <<Error("NMEA")>> = {1} /\ <<>> \in Seq(Result)
      /\ <<Error("NMEA")>>[1] = Error("NMEA")
  BY <1>7
<1>9. entries' \in Seq(Result) /\ \A j \in DOMAIN entries' : entries'[j].error # "none"
  BY <1>1, <1>2, <1>7, <1>8
<1>10. NmeaSorts'
  BY <1>1, <1>2, <1>5, <1>9 DEF NmeaSorts, TalkOK
<1>11. NmeaPhases'
  BY <1>1 DEF NmeaPhases
<1>12. StreamInv'
  <2>1. DOMAIN Stream' = {}
    BY <1>2, <1>3
  <2>2. InLine(Stream)' /\ AllSaid(Stream)'
    BY <1>2, <1>3, <2>1 DEF InLine, AllSaid
  <2>3. ReachesTo(Stream', at', damaged') /\ Tight(Stream', at', damaged')
    BY <2>1 DEF ReachesTo, Tight
  <2>. QED  BY <2>2, <2>3 DEF StreamInv
<1>13. ChunksInv'
  <2>1. \A k \in DOMAIN chunks' : AllSaid(chunks[k])'
    <3>1. \A p : Within(p, raw) => Said(p)
      BY <1>4 DEF AllSaid, Within
    <3>2. \A p : Said(p) => Said(p)'
      BY <1>1 DEF Said
    <3>3. \A k \in DOMAIN chunks' : \A i \in DOMAIN chunks'[k] : Said(chunks[k][i])'
      BY <1>1, <1>5, <3>1, <3>2 DEF Said
    <3>. QED  BY <3>3 DEF AllSaid
  <2>2. \A p \in Real : InChunks(p)' => Rank(p) < Rank(at)
    BY <1>4, <1>6, PieceSorts DEF ReachesTo, Within
  <2>. QED  BY <1>1, <1>5, <1>6, <2>1, <2>2 DEF ChunksInv
<1>14. EntriesInv'
  <2>1. ASSUME NEW e, Sound(e) PROVE Sound(e)'
    <3>1. \A p \in Real : Waiting(p)' => Waiting(p)
      BY <1>1, <1>3, <1>6 DEF Waiting
    <3>2. \A p \in Real : Waiting(p)' => Rank(Piece(e.sentence, "text")) < Rank(p)
      BY <2>1, <3>1 DEF Sound
    <3>. QED  BY <1>1, <2>1, <3>2, SoundLater
  <2>2. \A e \in ToSet(entries') : e.error # "none"
    BY <1>9 DEF ToSet
  <2>. QED  BY <1>1, <1>9, <2>1, <2>2 DEF EntriesInv, OnceInOrder
<1>15. HeardInv'
  <2>1. ASSUME NEW n \in DOMAIN talk, Fits(n)', ~ Spoiled(n)' PROVE OnItsWay(n)'
    <3>1. Fits(n) /\ ~ Spoiled(n)
      BY <1>1, <2>1 DEF Fits, Spoiled
    <3>2. OnItsWay(n)
      BY <1>1, <3>1 DEF HeardInv
    <3>3. n \in Nat \ {0} /\ at.sentence \in Nat \ {0} /\ at.part \in Parts
      BY <1>4, TalkIs DEF NmeaSorts, Real
    <3>4. CASE n \in Given
      BY <1>1, <3>4 DEF OnItsWay, Given
    <3>5. CASE n < at.sentence /\ n \notin Given
      <4>1. \A part \in Parts : Piece(n, part) \notin damaged
        BY <3>1 DEF Spoiled, Piece
      <4>2. Piece(n + 1, "$") \notin damaged
        BY <3>1 DEF Spoiled
      <4>3. Within(Piece(n, "$"), raw)
        <5>1. Rank(Piece(n, "$")) < Rank(at) /\ "$" \in Parts
          BY <1>4, <3>3, <3>5, PieceRanks, RankOne DEF Parts
        <5>. QED  BY <1>2, <1>3, <3>2, <3>5, <5>1 DEF OnItsWay
      <4>4. \E k \in DOMAIN Split(raw) : Split(raw)[k] = WholeSentence(n)
        BY <1>4, <3>3, <3>5, <4>1, <4>2, <4>3, SplitsWhole
      <4>. QED  BY <1>1, <4>4 DEF OnItsWay
    <3>6. CASE ~ (n < at.sentence)
      <4>1. at.part # "$" => n # at.sentence
        BY <1>1, <3>1 DEF HeardInv, Spoiled
      <4>2. ASSUME NEW part \in Parts PROVE ~ (Rank(Piece(n, part)) < Rank(at))
        <5>1. Piece(n, part) \in Real /\ Piece(n, part).sentence = n /\ Piece(n, part).part = part
          BY <3>3, PieceRanks
        <5>2. CASE at.sentence < n
          BY <1>4, <3>3, <5>1, <5>2, RankOne, RankNat
        <5>3. CASE at.sentence = n
          <6>1. at.part = "$" /\ PlaceOf["$"] = 0
            BY <4>1, <5>3 DEF PlaceOf, Parts
          <6>2. PlaceOf[part] \in 0..3
            BY <5>1, RankNat
          <6>. QED  BY <1>4, <5>1, <5>3, <6>1, <6>2, RankOne
        <5>. QED  BY <3>3, <3>6, <5>2, <5>3
      <4>. QED  BY <1>1, <4>2 DEF OnItsWay
    <3>. QED  BY <3>4, <3>5, <3>6
  <2>. QED  BY <1>1, <2>1 DEF HeardInv
<1>. QED  BY <1>10, <1>11, <1>12, <1>13, <1>14, <1>15

-----------------------------------------------------------------------------
(* Chunks become entries, entries are given *)

LEMMA TextOrder ==
    ASSUME NEW n \in Nat \ {0}, NEW m \in Nat \ {0}, Rank(Piece(n, "text")) < Rank(Piece(m, "text"))
    PROVE  n < m
<1>1. /\ Piece(n, "text") \in Real /\ Piece(n, "text").sentence = n
      /\ Piece(m, "text") \in Real /\ Piece(m, "text").sentence = m
  BY PieceRanks DEF Parts
<1>2. n <= m
  BY <1>1, RankOne
<1>3. n # m
  BY <1>1, RankNat
<1>. QED  BY <1>2, <1>3

(* A sentence that fits and is all there is given as it is.                   *)
LEMMA WholeEntry ==
    ASSUME TalkOK, NEW n \in DOMAIN talk, Fits(n), NEW c, c = WholeSentence(n), AllSaid(c),
           NEW lost, IsChunk(c, lost)
    PROVE  LET e == Entry(c, Tokens(Cleaned(c))) IN e.error = "none" /\ e.sentence = n
<1>1. n \in Nat \ {0}
  BY TalkIs
<1>2. /\ \A part \in Parts : Piece(n, part).part = part /\ Piece(n, part).sentence = n
                              /\ Piece(n, part) # Noise
      /\ "$" \in Parts /\ "text" \in Parts /\ "*" \in Parts /\ "CRLF" \in Parts
  BY <1>1, PieceRanks, PieceSorts DEF Parts
<1>3. /\ Len(c) = 4 /\ DOMAIN c = 1..4
      /\ c[1] = Piece(n, "$") /\ c[2] = Piece(n, "text") /\ c[3] = Piece(n, "*") /\ c[4] = Piece(n, "CRLF")
  BY DEF WholeSentence
<1>4. Stars(c) = {3}
  <2>1. \A i \in 1..4 : i = 1 \/ i = 2 \/ i = 3 \/ i = 4
    OBVIOUS
  <2>. QED  BY <1>2, <1>3, <2>1 DEF Stars
<1>5. Cardinality(Stars(c)) <= 1
  <2>1. Cardinality({3}) = 1
    BY FS_Singleton
  <2>. QED  BY <1>4, <2>1
<1>6. ChecksumHolds(c)
  <2>1. c \in Seq(Pieces)
    BY ChunkIs
  <2>2. /\ SubSeq(c, 2, 2) \in Seq(Pieces) /\ DOMAIN SubSeq(c, 2, 2) = 1..(2 - 2 + 1)
        /\ \A i \in 1..(2 - 2 + 1) : 2 + i - 1 \in 2..2 /\ SubSeq(c, 2, 2)[i] = c[2 + i - 1]
    <3>1. 2 \in 1..Len(c)
      BY <1>3
    <3>. QED  BY <2>1, <3>1, SliceIs
  <2>. DEFINE d == SubSeq(c, 2, 2)
  <2>3. d \in Seq(Pieces) /\ DOMAIN d = 1..1 /\ d[1] = c[2]
    <3>1. 2 - 2 + 1 = 1 /\ 2 + 1 - 1 = 2 /\ 1 \in 1..1
      OBVIOUS
    <3>. QED  BY <2>2, <3>1
  <2>. HIDE DEF d
  <2>4. Len(d) = 1
    BY <2>3, LenProperties
  <2>5. d = <<Piece(n, "text")>>
    <3>1. <<Piece(n, "text")>> \in Seq(Pieces) /\ Len(<<Piece(n, "text")>>) = 1
          /\ <<Piece(n, "text")>>[1] = Piece(n, "text")
      BY <1>1, <1>2, PieceRanks, PieceSorts
    <3>2. \A i \in 1..1 : i = 1
      OBVIOUS
    <3>. QED  BY <1>3, <2>3, <2>4, <3>1, <3>2, SeqEqual
  <2>6. 3 \in Stars(c) /\ SubSeq(c, 2, 3 - 1) = d /\ c[3].sentence = n
    <3>1. 3 - 1 = 2
      OBVIOUS
    <3>. QED  BY <1>2, <1>3, <1>4, <3>1 DEF d
  <2>. QED  BY <2>5, <2>6 DEF ChecksumHolds
<1>7. Valid(c)
  BY <1>2, <1>3, <1>5, <1>6 DEF Valid, Last
<1>8. Cleaned(c) \in Seq(Pieces) /\ Len(Cleaned(c)) = 1 /\ Cleaned(c)[1] = Piece(n, "text") /\ Cleaned(c) # <<>>
  <2>1. PICK k \in DOMAIN talk :
              /\ 3 \in DOMAIN c /\ c[3] = Piece(k, "*")
              /\ Cleaned(c) # <<>> /\ Cleaned(c)[1] = Piece(k, "text") /\ Piece(k, "text") = c[2]
              /\ \/ Len(Cleaned(c)) = 1
                 \/ \E l \in 2..Len(Cleaned(c)) : \E j \in DOMAIN c :
                       j > 3 /\ c[j].part = "text" /\ Cleaned(c)[l] = c[j]
    BY <1>5, <1>6, CheckedIs
  <2>2. ~ \E j \in DOMAIN c : j > 3 /\ c[j].part = "text"
    <3>1. \A j \in 1..4 : j > 3 => j = 4
      OBVIOUS
    <3>. QED  BY <1>2, <1>3, <3>1
  <2>. QED  BY <1>3, <2>1, <2>2, CleanedIs
<1>. DEFINE tokens == Tokens(Cleaned(c))
            f == talk[n].fields
            types == Configured[talk[n].id]
<1>9. Said(Piece(n, "text")) /\ 1 \in DOMAIN Cleaned(c)
  <2>1. Said(c[2])
    BY <1>3 DEF AllSaid
  <2>. QED  BY <1>3, <1>8, <2>1, LenProperties
<1>10. tokens = TokensOf(Piece(n, "text"))
  <2>1. \A i \in DOMAIN Cleaned(c) : Said(Cleaned(c)[i])
    BY CleanedIs
  <2>. QED  BY <1>8, <2>1, TokensIs
<1>11. /\ tokens # <<>> /\ tokens[1].sentence = n /\ Len(tokens) = Len(f) + 1
       /\ \A i \in DOMAIN f : tokens[i + 1].class = f[i]
  BY <1>2, <1>9, <1>10, TokensOfIs
<1>. HIDE DEF tokens
<1>12. Accepted(tokens)
  <2>1. /\ talk[n].id \in DOMAIN Configured /\ Len(f) = Len(types)
        /\ \A i \in DOMAIN types : types[i] = "number" => f[i] # "text"
    BY DEF Fits
  <2>2. types \in Seq({"number", "text"})
    BY <2>1, NmeaAssumption
  <2>3. DOMAIN types = 1..Len(types) /\ DOMAIN f = 1..Len(f)
    <3>. HIDE DEF types
    <3>. QED  BY <2>2, TalkIs, LenProperties
  <2>4. \A i \in DOMAIN types : Converts(tokens[i + 1], types[i])
    BY <1>11, <2>1, <2>3 DEF Converts
  <2>. QED  BY <1>1, <1>11, <2>1, <2>4 DEF Accepted
<1>. QED  BY <1>7, <1>11, <1>12 DEF Entry, tokens

LEMMA EntryResult ==
    ASSUME TalkOK, NEW c, AllSaid(c), IsChunk(c, damaged)
    PROVE  Entry(c, Tokens(Cleaned(c))) \in Result
<1>. DEFINE e == Entry(c, Tokens(Cleaned(c)))
<1>1. CASE e.error = "none"
  <2>1. e.sentence \in Nat /\ e.fields # <<>> /\ e.fields \in Seq(TokenSet)
    BY <1>1, EntrySound
  <2>2. e = [error |-> e.error, sentence |-> e.sentence, fields |-> e.fields]
    BY DEF Entry, Error
  <2>. HIDE DEF e
  <2>3. e.error \in {"none", "OS", "NMEA"}
    BY <1>1
  <2>4. e \in [error : {"none", "OS", "NMEA"}, sentence : Nat, fields : Seq(TokenSet)]
    BY <2>1, <2>2, <2>3
  <2>5. e \in Result
    BY <1>1, <2>1, <2>4 DEF Result
  <2>. QED  BY <2>5 DEF e
<1>2. CASE e.error # "none"
  <2>1. e = Error("NMEA")
    BY <1>2 DEF Entry
  <2>2. Error("NMEA") \in Result
    BY EmptySeq DEF Error, Result
  <2>. QED  BY <2>1, <2>2
<1>. QED  BY <1>1, <1>2

(* The entry of a chunk comes after those of the chunks before, and before    *)
(* all that is still to come.                                                 *)
LEMMA InterpretStep == NmeaInv /\ Interpret => NmeaInv'
<1> SUFFICES ASSUME NmeaInv, Interpret PROVE NmeaInv'
  OBVIOUS
<1>. USE DEF NmeaInv
<1>. DEFINE h == Head(chunks)
<1>1. PICK e : e = Entry(h, Tokens(Cleaned(h))) /\ entries' = Append(entries, e)
  BY DEF Interpret
<1>2. /\ UNCHANGED <<talk, withChecksum, at, damaged, given>>
      /\ UNCHANGED <<cut, quiet, plugged, inbox, raw, phase>> /\ phase = "receive"
      /\ chunks # <<>> /\ chunks' = Tail(chunks)
  BY DEF Interpret, wire
<1>3. /\ chunks \in Seq(Seq(Pieces)) /\ entries \in Seq(Result) /\ given \in Seq(Result) /\ TalkOK
      /\ at \in Real
  BY DEF NmeaSorts
<1>4. PICK n \in Nat : n = Len(chunks) /\ n # 0 /\ DOMAIN chunks = 1..n
  BY <1>2, <1>3, LenProperties, EmptySeq
<1>5. /\ chunks' \in Seq(Seq(Pieces)) /\ DOMAIN chunks' = 1..(n - 1)
      /\ \A k \in 1..(n - 1) : k + 1 \in 1..n /\ k + 1 # 1 /\ chunks'[k] = chunks[k + 1]
  <2>1. /\ Tail(chunks) \in Seq(Seq(Pieces)) /\ Len(Tail(chunks)) = Len(chunks) - 1
        /\ \A k \in 1..Len(Tail(chunks)) : Tail(chunks)[k] = chunks[k + 1]
    BY <1>2, <1>3, HeadTailProperties
  <2>2. DOMAIN Tail(chunks) = 1..(n - 1)
    BY <1>4, <2>1, LenProperties
  <2>3. \A k \in 1..(n - 1) : k + 1 \in 1..n /\ k + 1 # 1
    BY <1>4
  <2>. QED  BY <1>2, <1>4, <2>1, <2>2, <2>3
<1>6. 1 \in DOMAIN chunks /\ h = chunks[1]
  BY <1>2, <1>3, <1>4
<1>. HIDE DEF h
<1>7. AllSaid(h) /\ IsChunk(h, damaged)
  BY <1>6 DEF ChunksInv
<1>8. e \in Result
  BY <1>1, <1>3, <1>7, EntryResult
<1>9. ASSUME e.error = "none"
      PROVE  /\ e.sentence \in DOMAIN talk /\ e.sentence \in Nat \ {0}
             /\ Within(Piece(e.sentence, "text"), h)
             /\ withChecksum => Right(e)
  BY <1>1, <1>3, <1>7, <1>9, EntrySound
<1>10. PICK m \in Nat : m = Len(entries) /\ DOMAIN entries = 1..m
  BY <1>3, LenProperties
<1>11. /\ entries' \in Seq(Result) /\ DOMAIN entries' = 1..(m + 1)
       /\ \A i \in 1..m : i \in 1..(m + 1) /\ entries'[i] = entries[i]
       /\ entries'[m + 1] = e
       /\ \A i \in 1..(m + 1) : i \in 1..m \/ i = m + 1
  <2>1. /\ Append(entries, e) \in Seq(Result) /\ Len(Append(entries, e)) = Len(entries) + 1
        /\ \A i \in 1..Len(entries) : Append(entries, e)[i] = entries[i]
        /\ Append(entries, e)[Len(entries) + 1] = e
    BY <1>3, <1>8, AppendProperties
  <2>2. DOMAIN Append(entries, e) = 1..(m + 1)
    BY <1>10, <2>1, LenProperties
  <2>3. \A i \in 1..m : i \in 1..(m + 1)
    OBVIOUS
  <2>4. \A i \in 1..(m + 1) : i \in 1..m \/ i = m + 1
    OBVIOUS
  <2>. QED  BY <1>1, <1>10, <2>1, <2>2, <2>3, <2>4
<1>12. Stream' = Stream
  BY <1>2 DEF Stream
<1>13. \A p : InChunks(p)' => InChunks(p)
  BY <1>4, <1>5 DEF InChunks
<1>14. NmeaSorts'
  BY <1>2, <1>5, <1>11 DEF NmeaSorts, TalkOK
<1>15. NmeaPhases'
  BY <1>2 DEF NmeaPhases
<1>16. StreamInv'
  BY <1>2, <1>12 DEF StreamInv, AllSaid, Said
<1>17. ChunksInv'
  <2>1. \A k \in DOMAIN chunks' : AllSaid(chunks[k])'
    BY <1>2, <1>4, <1>5 DEF ChunksInv, AllSaid, Said
  <2>2. \A k \in DOMAIN chunks' : IsChunk(chunks'[k], damaged')
    BY <1>2, <1>4, <1>5 DEF ChunksInv
  <2>3. InTurn(chunks')
    <3> SUFFICES ASSUME NEW k \in DOMAIN chunks', NEW l \in DOMAIN chunks', k < l,
                        NEW i \in DOMAIN chunks'[k], NEW j \in DOMAIN chunks'[l],
                        chunks'[k][i] # Noise, chunks'[l][j] # Noise
                 PROVE  Rank(chunks'[k][i]) < Rank(chunks'[l][j])
      BY DEF InTurn
    <3>1. /\ k + 1 \in DOMAIN chunks /\ l + 1 \in DOMAIN chunks /\ k + 1 < l + 1
          /\ chunks'[k] = chunks[k + 1] /\ chunks'[l] = chunks[l + 1]
      BY <1>4, <1>5
    <3>2. InTurn(chunks)
      BY DEF ChunksInv
    <3>. QED  BY <3>1, <3>2 DEF InTurn
  <2>4. \A p, q \in Real : InChunks(p)' /\ (Within(q, Stream') \/ q = at') => Rank(p) < Rank(q)
    BY <1>2, <1>12, <1>13 DEF ChunksInv
  <2>. QED  BY <2>1, <2>2, <2>3, <2>4 DEF ChunksInv
<1>18. EntriesInv'
  <2>1. ASSUME NEW x, Sound(x) PROVE Sound(x)'
    <3>1. \A p \in Real : Waiting(p)' => Waiting(p)
      BY <1>2, <1>12, <1>13 DEF Waiting
    <3>2. \A p \in Real : Waiting(p)' => Rank(Piece(x.sentence, "text")) < Rank(p)
      BY <2>1, <3>1 DEF Sound
    <3>. QED  BY <1>2, <2>1, <3>2, SoundLater
  <2>2. ASSUME e.error = "none" PROVE Sound(e)'
    <3>1. PICK i \in DOMAIN chunks[1] : chunks[1][i] = Piece(e.sentence, "text")
      BY <1>6, <1>9, <2>2 DEF Within
    <3>2. Piece(e.sentence, "text") \in Real /\ Piece(e.sentence, "text") # Noise
      BY <1>9, <2>2, PieceRanks, PieceSorts DEF Parts
    <3>3. ASSUME NEW p \in Real, Waiting(p)' PROVE Rank(Piece(e.sentence, "text")) < Rank(p)
      <4>1. CASE InChunks(p)'
        <5>1. PICK k \in DOMAIN chunks' : Within(p, chunks'[k])
          BY <4>1 DEF InChunks
        <5>2. PICK j \in DOMAIN chunks[k + 1] : chunks[k + 1][j] = p
          BY <1>5, <5>1 DEF Within
        <5>3. k + 1 \in DOMAIN chunks /\ 1 < k + 1
          BY <1>4, <1>5
        <5>4. p # Noise
          BY PieceSorts
        <5>. QED  BY <1>6, <3>1, <3>2, <5>2, <5>3, <5>4 DEF ChunksInv, InTurn
      <4>2. CASE Within(p, Stream') \/ p = at'
        <5>1. InChunks(Piece(e.sentence, "text"))
          BY <1>6, <3>1 DEF InChunks, Within
        <5>. QED  BY <1>2, <1>12, <3>2, <4>2, <5>1 DEF ChunksInv
      <4>. QED  BY <3>3, <4>1, <4>2 DEF Waiting
    <3>4. Right(e) => Right(e)'
      BY <1>2, RightLater
    <3>. QED  BY <1>2, <1>9, <2>2, <3>3, <3>4 DEF Sound
  <2>3. ASSUME NEW x, Sound(x), e.error = "none" PROVE x.sentence < e.sentence
    <3>1. Waiting(Piece(e.sentence, "text")) /\ Piece(e.sentence, "text") \in Real
      BY <1>6, <1>9, <2>3, PieceRanks DEF Waiting, InChunks, Parts
    <3>2. x.sentence \in Nat \ {0}
      BY <1>3, <2>3, TalkIs DEF Sound
    <3>. QED  BY <1>9, <2>3, <3>1, <3>2, TextOrder DEF Sound
  <2>4. \A x \in ToSet(given) : Sound(x)
    BY DEF EntriesInv
  <2>5. \A i \in 1..m : entries[i].error = "none" => Sound(entries[i])
    BY <1>10 DEF EntriesInv, ToSet
  <2>6. \A x \in ToSet(given') \cup ToSet(entries') : x.error = "none" => Sound(x)'
    <3>1. \A i \in DOMAIN entries' : entries'[i].error = "none" => (entries'[i] = e \/ Sound(entries'[i]))
      BY <1>11, <2>5
    <3>2. \A x \in ToSet(entries') : x.error = "none" => x = e \/ Sound(x)
      BY <3>1 DEF ToSet
    <3>. QED  BY <1>2, <2>1, <2>2, <2>4, <3>2
  <2>7. ASSUME NEW i \in DOMAIN entries', NEW j \in DOMAIN entries', i < j,
               entries'[i].error = "none", entries'[j].error = "none"
        PROVE  entries'[i].sentence < entries'[j].sentence
    <3>1. i \in 1..m
      BY <1>11, <2>7
    <3>2. CASE j \in 1..m
      BY <1>10, <1>11, <2>7, <3>1, <3>2 DEF EntriesInv
    <3>3. CASE j = m + 1
      BY <1>11, <2>3, <2>5, <2>7, <3>1, <3>3
    <3>. QED  BY <1>11, <3>2, <3>3
  <2>8. ASSUME NEW i \in DOMAIN given, NEW j \in DOMAIN entries', entries'[j].error = "none"
        PROVE  given[i].sentence < entries'[j].sentence
    <3>1. CASE j \in 1..m
      BY <1>10, <1>11, <2>8, <3>1 DEF EntriesInv
    <3>2. CASE j = m + 1
      <4>1. given[i] \in ToSet(given)
        BY DEF ToSet
      <4>. QED  BY <1>11, <2>3, <2>4, <2>8, <3>2, <4>1
    <3>. QED  BY <1>11, <3>1, <3>2
  <2>. QED  BY <1>2, <2>6, <2>7, <2>8 DEF EntriesInv, OnceInOrder
<1>19. HeardInv'
  <2>1. ASSUME NEW l \in DOMAIN talk, plugged', Fits(l)', ~ Spoiled(l)' PROVE OnItsWay(l)'
    <3>1. Fits(l) /\ ~ Spoiled(l)
      BY <1>2, <2>1 DEF Fits, Spoiled
    <3>2. OnItsWay(l)
      BY <1>2, <2>1, <3>1 DEF HeardInv
    <3>3. CASE \E i \in DOMAIN entries : entries[i].error = "none" /\ entries[i].sentence = l
      <4>1. \E i \in DOMAIN entries' : entries'[i].error = "none" /\ entries'[i].sentence = l
        BY <1>10, <1>11, <3>3
      <4>. QED  BY <4>1 DEF OnItsWay
    <3>4. CASE \E k \in DOMAIN chunks : chunks[k] = WholeSentence(l)
      <4>1. PICK k \in DOMAIN chunks : chunks[k] = WholeSentence(l)
        BY <3>4
      <4>2. CASE k = 1
        <5>1. e.error = "none" /\ e.sentence = l
          BY <1>1, <1>3, <1>6, <1>7, <3>1, <4>1, <4>2, WholeEntry
        <5>2. m + 1 \in DOMAIN entries'
          BY <1>11
        <5>. QED  BY <1>11, <5>1, <5>2 DEF OnItsWay
      <4>3. CASE k # 1
        <5>1. k - 1 \in 1..(n - 1) /\ (k - 1) + 1 = k
          BY <1>4, <4>3
        <5>2. \E j \in DOMAIN chunks' : chunks'[j] = WholeSentence(l)
          BY <1>5, <4>1, <5>1
        <5>. QED  BY <5>2 DEF OnItsWay
      <4>. QED  BY <4>2, <4>3
    <3>5. CASE l \in Given
      BY <1>2, <3>5 DEF OnItsWay, Given
    <3>6. CASE \A part \in Parts : Rank(Piece(l, part)) < Rank(at) => Within(Piece(l, part), Stream)
      BY <1>2, <1>12, <3>6 DEF OnItsWay
    <3>. QED  BY <3>2, <3>3, <3>4, <3>5, <3>6 DEF OnItsWay
  <2>. QED  BY <1>2, <2>1 DEF HeardInv
<1>. QED  BY <1>14, <1>15, <1>16, <1>17, <1>18, <1>19

(* What is sent comes after what was sent.                                    *)
LEMMA DeliverStep == NmeaInv /\ Deliver => NmeaInv'
<1> SUFFICES ASSUME NmeaInv, Deliver PROVE NmeaInv'
  OBVIOUS
<1>. USE DEF NmeaInv
<1>. DEFINE S == {e \in ToSet(entries) : e.error = "none"}
<1>1. /\ UNCHANGED <<talk, withChecksum, at, damaged, chunks>>
      /\ UNCHANGED <<cut, quiet, plugged, inbox, raw>> /\ chunks = <<>> /\ phase = "receive"
      /\ phase' = "await" /\ entries' = <<>> /\ given' = given \o Kept(entries, S)
  BY DEF Deliver, wire
<1>2. entries \in Seq(Result) /\ given \in Seq(Result)
  BY DEF NmeaSorts
<1>3. PICK w \in Seq(Result \cap S) : w = Kept(entries, S) /\ \E from : Picks(from, w, entries, S)
  BY <1>2, KeptIs
<1>4. PICK from : Picks(from, w, entries, S)
  BY <1>3
<1>5. w \in Seq(Result) /\ DOMAIN w = 1..Len(w) /\ \A k \in DOMAIN w : w[k] \in S
  BY LenProperties, ElementOfSeq, SeqMonotonic
<1>. HIDE DEF S
<1>6. /\ given' \in Seq(Result) /\ Len(given) \in Nat
      /\ \A i \in DOMAIN given : i \in DOMAIN given' /\ given'[i] = given[i]
      /\ \A i \in DOMAIN w : i + Len(given) \in DOMAIN given' /\ given'[i + Len(given)] = w[i]
      /\ \A i \in DOMAIN given' :
            \/ i \in DOMAIN given /\ given'[i] = given[i]
            \/ i > Len(given) /\ i - Len(given) \in DOMAIN w /\ given'[i] = w[i - Len(given)]
  BY <1>1, <1>2, <1>3, <1>5, ConcatAt
<1>7. \A k \in DOMAIN w : /\ from[k] \in DOMAIN entries /\ w[k] = entries[from[k]]
                          /\ w[k].error = "none"
  BY <1>4, <1>5 DEF Picks, S
<1>8. /\ Stream' = Stream /\ <<>> \in Seq(Result)
      /\ DOMAIN given = 1..Len(given) /\ DOMAIN given' = 1..Len(given') /\ Len(given') \in Nat
  BY <1>1, <1>2, <1>6, LenProperties DEF Stream
<1>9. NmeaSorts'
  BY <1>1, <1>6, <1>8 DEF NmeaSorts, TalkOK
<1>10. NmeaPhases'
  BY <1>1 DEF NmeaPhases
<1>11. StreamInv'
  BY <1>1, <1>8 DEF StreamInv, AllSaid, Said
<1>12. ChunksInv'
  BY <1>1, <1>8 DEF ChunksInv, AllSaid, Said, InChunks
<1>13. EntriesInv'
  <2>1. ASSUME NEW x, Sound(x) PROVE Sound(x)'
    <3>1. \A p \in Real : Waiting(p)' => Waiting(p)
      BY <1>1, <1>8 DEF Waiting, InChunks
    <3>2. \A p \in Real : Waiting(p)' => Rank(Piece(x.sentence, "text")) < Rank(p)
      BY <2>1, <3>1 DEF Sound
    <3>. QED  BY <1>1, <2>1, <3>2, SoundLater
  <2>2. \A i \in DOMAIN given : Sound(given[i]) /\ given[i].error = "none"
    BY DEF EntriesInv, ToSet
  <2>3. \A k \in DOMAIN w : Sound(w[k]) /\ w[k].error = "none"
    BY <1>7 DEF EntriesInv, ToSet
  <2>4. \A x \in ToSet(given') : Sound(x) /\ x.error = "none"
    BY <1>6, <2>2, <2>3 DEF ToSet
  <2>5. ToSet(entries') = {} /\ DOMAIN entries' = {}
    BY <1>1, EmptySeq DEF ToSet
  <2>6. ASSUME NEW i \in DOMAIN given', NEW j \in DOMAIN given', i < j
        PROVE  given'[i].sentence < given'[j].sentence
    <3>1. i \in Nat /\ j \in Nat
      BY <1>8
    <3>2. CASE i \in DOMAIN given /\ j \in DOMAIN given
      BY <1>6, <2>6, <3>2 DEF EntriesInv, OnceInOrder
    <3>3. CASE i \in DOMAIN given /\ j > Len(given) /\ j - Len(given) \in DOMAIN w /\ given'[j] = w[j - Len(given)]
      <4>1. from[j - Len(given)] \in DOMAIN entries /\ given'[j] = entries[from[j - Len(given)]]
            /\ given'[j].error = "none"
        BY <1>7, <3>3
      <4>2. given'[i] = given[i]
        BY <1>6, <3>3
      <4>. QED  BY <3>3, <4>1, <4>2 DEF EntriesInv
    <3>4. CASE /\ i > Len(given) /\ i - Len(given) \in DOMAIN w /\ given'[i] = w[i - Len(given)]
               /\ j > Len(given) /\ j - Len(given) \in DOMAIN w /\ given'[j] = w[j - Len(given)]
      <4>1. PICK k \in DOMAIN w, l \in DOMAIN w : k = i - Len(given) /\ l = j - Len(given) /\ k < l
        BY <1>6, <2>6, <3>1, <3>4
      <4>2. from[k] < from[l]
        BY <1>4, <1>5, <4>1 DEF Picks
      <4>3. given'[i] = w[k] /\ given'[j] = w[l]
        BY <3>4, <4>1
      <4>. QED  BY <1>7, <4>2, <4>3 DEF EntriesInv
    <3>5. CASE i > Len(given) /\ j \in DOMAIN given
      BY <1>6, <1>8, <2>6, <3>1, <3>5
    <3>. QED  BY <1>6, <3>2, <3>3, <3>4, <3>5
  <2>. QED  BY <2>1, <2>4, <2>5, <2>6 DEF EntriesInv, OnceInOrder
<1>14. HeardInv'
  <2>1. ASSUME NEW l \in DOMAIN talk, plugged', Fits(l)', ~ Spoiled(l)' PROVE OnItsWay(l)'
    <3>1. Fits(l) /\ ~ Spoiled(l)
      BY <1>1, <2>1 DEF Fits, Spoiled
    <3>2. OnItsWay(l)
      BY <1>1, <2>1, <3>1 DEF HeardInv
    <3>3. CASE \E i \in DOMAIN entries : entries[i].error = "none" /\ entries[i].sentence = l
      <4>1. PICK i \in DOMAIN entries : entries[i].error = "none" /\ entries[i].sentence = l
        BY <3>3
      <4>2. entries[i] \in S
        BY <4>1 DEF S, ToSet
      <4>3. PICK k \in DOMAIN w : from[k] = i
        BY <1>4, <1>5, <4>2 DEF Picks
      <4>4. k + Len(given) \in DOMAIN given' /\ given'[k + Len(given)] = entries[i]
        BY <1>6, <1>7, <4>3
      <4>5. l \in Given'
        BY <4>1, <4>4 DEF Given
      <4>. QED  BY <4>5 DEF OnItsWay
    <3>4. CASE l \in Given
      <4>1. l \in Given'
        BY <1>6, <3>4 DEF Given
      <4>. QED  BY <4>1 DEF OnItsWay
    <3>5. ~ \E k \in DOMAIN chunks : chunks[k] = WholeSentence(l)
      BY <1>1, EmptySeq
    <3>6. CASE \A part \in Parts : Rank(Piece(l, part)) < Rank(at) => Within(Piece(l, part), Stream)
      BY <1>1, <1>8, <3>6 DEF OnItsWay
    <3>. QED  BY <3>2, <3>3, <3>4, <3>5, <3>6 DEF OnItsWay
  <2>. QED  BY <1>1, <2>1 DEF HeardInv
<1>. QED  BY <1>9, <1>10, <1>11, <1>12, <1>13, <1>14

-----------------------------------------------------------------------------
(* From the beginning on *)

(* Nothing has been read, heard or given.                                     *)
Fresh == /\ inbox = <<>> /\ raw = <<>> /\ phase = "await" /\ quiet = FALSE /\ cut = {} /\ plugged
         /\ chunks = <<>> /\ entries = <<>> /\ given = <<>> /\ withChecksum \in BOOLEAN

LEMMA FreshInv ==
    ASSUME Fresh, TalkOK, at \in Real, at.sentence = 1, at.part # "$" => talk # <<>>,
           damaged = IF at.part = "$" THEN {} ELSE {Piece(1, "$")}
    PROVE  NmeaInv
<1>1. Stream = <<>> /\ DOMAIN <<>> = {}
  BY EmptySeq DEF Fresh, Stream
<1>2. Len(talk) \in Nat /\ DOMAIN talk = 1..Len(talk) /\ (talk # <<>> => 1 \in DOMAIN talk)
  <2>1. Len(talk) \in Nat /\ DOMAIN talk = 1..Len(talk)
    BY TalkIs
  <2>2. CASE talk \in Talks
    <3>1. talk \in Seq(Range(talk)) /\ talk # <<>>
      BY <2>2, NmeaAssumption
    <3>2. Len(talk) # 0
      BY <3>1, EmptySeq
    <3>. QED  BY <2>1, <3>2
  <2>. QED  BY <2>1, <2>2 DEF TalkOK
<1>3. Piece(1, "$") \in Real /\ Piece(1, "$").sentence = 1
  BY PieceRanks DEF Parts
<1>4. <<>> \in Seq(Pieces) /\ <<>> \in Seq(Seq(Pieces)) /\ <<>> \in Seq(Result)
  BY EmptySeq
<1>5. NmeaSorts
  <2>1. at.sentence <= Len(talk) + 1
    BY <1>2
  <2>2. at.part # "$" => at.sentence \in DOMAIN talk
    BY <1>2
  <2>3. damaged \subseteq Real
    BY <1>3
  <2>4. cut \subseteq DOMAIN talk /\ quiet \in BOOLEAN /\ plugged \in BOOLEAN /\ withChecksum \in BOOLEAN
    BY DEF Fresh
  <2>. QED  BY <1>4, <2>1, <2>2, <2>3, <2>4 DEF NmeaSorts, Fresh
<1>6. NmeaPhases
  BY DEF NmeaPhases, Fresh
<1>7. StreamInv
  BY <1>1, <1>4 DEF StreamInv, InLine, AllSaid, ReachesTo, Tight
<1>8. ChunksInv
  BY <1>1 DEF Fresh, ChunksInv, InTurn, InChunks
<1>9. EntriesInv
  BY <1>1 DEF Fresh, EntriesInv, OnceInOrder, ToSet
<1>10. HeardInv
  <2>1. ASSUME NEW n \in DOMAIN talk, ~ Spoiled(n), NEW part \in Parts
        PROVE  ~ (Rank(Piece(n, part)) < Rank(at))
    <3>1. n \in Nat \ {0} /\ 1 \in Nat \ {0}
      BY <1>2
    <3>2. Piece(n, part) \in Real /\ Piece(n, part).sentence = n /\ Piece(n, part).part = part
      BY <3>1, PieceRanks
    <3>3. CASE at.part = "$"
      <4>1. PlaceOf["$"] = 0
        BY DEF PlaceOf, Parts
      <4>2. Rank(at) = 4 * 1 + 0
        BY <3>3, <4>1 DEF Rank
      <4>3. PICK k \in 0..3 : Rank(Piece(n, part)) = 4 * n + k
        BY <3>2, RankNat DEF Rank
      <4>. QED  BY <3>1, <4>2, <4>3
    <3>4. CASE at.part # "$"
      <4>1. n # 1
        BY <1>3, <2>1, <3>4 DEF Spoiled
      <4>2. at.sentence < Piece(n, part).sentence
        BY <3>1, <3>2, <4>1
      <4>3. Rank(at) < Rank(Piece(n, part)) /\ Rank(at) \in Nat /\ Rank(Piece(n, part)) \in Nat
        BY <3>2, <4>2, RankOne, RankNat
      <4>. QED  BY <4>3
    <3>. QED  BY <3>3, <3>4
  <2>. QED  BY <2>1 DEF Fresh, HeardInv, OnItsWay
<1>. QED  BY <1>5, <1>6, <1>7, <1>8, <1>9, <1>10 DEF NmeaInv

LEMMA NmeaInvInit == NmeaInit => NmeaInv
<1> SUFFICES ASSUME NmeaInit PROVE NmeaInv
  OBVIOUS
<1>1. Fresh /\ TalkOK
  BY DEF NmeaInit, Fresh, TalkOK
<1>2. at \in Real /\ at.sentence = 1
  BY PieceRanks DEF NmeaInit
<1>3. talk # <<>> /\ damaged = IF at.part = "$" THEN {} ELSE {Piece(1, "$")}
  BY NmeaAssumption DEF NmeaInit
<1>. QED  BY <1>1, <1>2, <1>3, FreshInv

LEMMA NobodyTalks ==
    ASSUME talk = <<>>, withChecksum = FALSE, at = Piece(1, "$"), damaged = {}, cut = {}, quiet = FALSE,
           plugged = TRUE, inbox = <<>>, raw = <<>>, phase = "await",
           chunks = <<>>, entries = <<>>, given = <<>>
    PROVE  NmeaInv
<1>1. at \in Real /\ at.sentence = 1 /\ at.part = "$"
  BY PieceRanks DEF Parts
<1>. QED  BY <1>1, FreshInv DEF Fresh, TalkOK

LEMMA NmeaInvStutter == NmeaInv /\ UNCHANGED nmeaVars => NmeaInv'
<1> SUFFICES ASSUME NmeaInv, UNCHANGED nmeaVars PROVE NmeaInv'
  OBVIOUS
<1>. USE DEF NmeaInv
<1>1. UNCHANGED <<talk, withChecksum, at, damaged, chunks, entries, given>>
      /\ UNCHANGED <<cut, quiet, plugged, inbox, raw, phase>>
  BY DEF nmeaVars, wire
<1>2. Stream' = Stream
  BY <1>1 DEF Stream
<1>3. NmeaSorts' /\ NmeaPhases'
  BY <1>1 DEF NmeaSorts, NmeaPhases, TalkOK
<1>4. quiet' /\ at.part # "$" => at.sentence \in cut'
  BY <1>1 DEF HeardInv
<1>. QED  BY <1>1, <1>2, <1>3, <1>4, SameStream

LEMMA NmeaInvStep == NmeaInv /\ [NmeaNext]_nmeaVars => NmeaInv'
BY ArriveStep, DamageStep, PauseStep, UnplugStep, ReadStep, TimeOutStep, ReturnStep, InterpretStep,
   FailStep, DeliverStep, NmeaInvStutter DEF NmeaNext, Listener

-----------------------------------------------------------------------------
LEMMA TypesFromInv == NmeaInv => NmeaTypeOK
<1> SUFFICES ASSUME NmeaInv PROVE NmeaTypeOK
  OBVIOUS
<1>1. NmeaSorts /\ phase \in {"await", "read", "receive"}
  BY DEF NmeaInv, NmeaPhases
<1>2. at \in Pieces /\ damaged \subseteq Pieces
  BY <1>1, PieceSorts DEF NmeaSorts
<1>3. \A e \in ToSet(entries) \cup ToSet(given) : e \in Result
  BY <1>1, ElementOfSeq DEF NmeaSorts, ToSet
<1>4. \A e \in Result : e.error \in {"none", "OS", "NMEA"} /\ (e.error = "none" <=> e.fields # <<>>)
  BY DEF Result
<1>. QED  BY <1>1, <1>2, <1>3, <1>4 DEF NmeaTypeOK, NmeaSorts, TalkOK

LEMMA UnmixedFromInv == NmeaInv => Unmixed
BY DEF NmeaInv, EntriesInv, Sound, Right, Unmixed

LEMMA OrderFromInv == NmeaInv => OnceInOrder
BY DEF NmeaInv, EntriesInv

LEMMA HeardFromInv == NmeaInv => Heard
<1> SUFFICES ASSUME NmeaInv, NEW n \in DOMAIN talk, Due(n) PROVE Underway(n)
  BY DEF Heard
<1>1. OnItsWay(n) /\ n \notin Given /\ n < at.sentence
  BY DEF Due, NmeaInv, HeardInv
<1>2. NmeaSorts /\ TalkOK /\ n \in Nat \ {0}
  BY TalkIs DEF NmeaInv, NmeaSorts
<1>3. Piece(n, "$") \in Real /\ Piece(n, "$").sentence = n /\ "$" \in Parts
  BY <1>2, PieceRanks DEF Parts
<1>4. CASE \E k \in DOMAIN chunks : chunks[k] = WholeSentence(n)
  <2>1. WholeSentence(n)[1] = Piece(n, "$")
    BY DEF WholeSentence
  <2>. QED  BY <1>3, <1>4, <2>1 DEF Underway
<1>5. CASE \A part \in Parts : Rank(Piece(n, part)) < Rank(at) => Within(Piece(n, part), Stream)
  <2>1. Rank(Piece(n, "$")) < Rank(at)
    BY <1>1, <1>2, <1>3, RankOne DEF NmeaSorts
  <2>2. Within(Piece(n, "$"), raw) \/ Within(Piece(n, "$"), inbox)
    BY <1>2, <1>3, <1>5, <2>1, WithinConcat DEF Stream, NmeaSorts
  <2>. QED  BY <1>3, <2>2 DEF Within, Underway
<1>. QED  BY <1>1, <1>4, <1>5 DEF OnItsWay, Underway

-----------------------------------------------------------------------------
(* Theorems *)

LEMMA NmeaInvAlways == NmeaSpec => []NmeaInv
BY NmeaInvInit, NmeaInvStep, PTL DEF NmeaSpec

(* The listener's variables keep their sorts, and an entry has fields exactly *)
(* if it reports no error.                                                    *)
THEOREM NmeaTypes == NmeaSpec => []NmeaTypeOK
BY NmeaInvAlways, TypesFromInv, PTL

(* However the reads cut up what was said, Manager::run sends no sentence     *)
(* twice and none after a later one.                                          *)
THEOREM GivenInOrder == NmeaSpec => []OnceInOrder
BY NmeaInvAlways, OrderFromInv, PTL

(* With "checksum" set, what validate and parse let through has the fields of *)
(* one sentence, whatever was lost or came as noise, save where a sentence    *)
(* too short was completed by one that lost its "$" and its checksum.         *)
THEOREM GivenUnmixed == NmeaSpec => []Unmixed
BY NmeaInvAlways, UnmixedFromInv, PTL

(* While the device is there, a sentence that arrived whole and in one breath *)
(* is given or is still in a buffer of the kernel, of getData or of receive.  *)
THEOREM HeardOrGiven == NmeaSpec => []Heard
BY NmeaInvAlways, HeardFromInv, PTL
=============================================================================
