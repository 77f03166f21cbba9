-------------------------- MODULE WagoModules_proof --------------------------
(* Where the modules of a Wago controller lie, which points a request asks    *)
(* for and what becomes of their words: for every configuration.              *)
EXTENDS WagoModules, SequenceTheorems, WellFoundedInduction, TLAPS

-----------------------------------------------------------------------------
(* Definitions by recursion on the place in a sequence *)

LEMMA Least ==
    ASSUME NEW T \in SUBSET Nat, T # {}
    PROVE  \E x \in T : \A y \in T : x <= y
<1>1. IsWellFoundedOn({ss \in Nat \X Nat : ss[1] < ss[2]}, Nat)
  BY NatLessThanWellFounded, SMT DEF OpToRel
<1>2. PICK x \in T : \A y \in T : ~ (<<y, x>> \in {ss \in Nat \X Nat : ss[1] < ss[2]})
  BY <1>1, WFMin, Zenon
<1>3. ASSUME NEW y \in T PROVE x <= y
  <2>1. x \in Nat /\ y \in Nat
    OBVIOUS
  <2>2. y < x => <<y, x>> \in {ss \in Nat \X Nat : ss[1] < ss[2]}
    BY <2>1
  <2>. QED  BY <1>2, <2>1, <2>2
<1>. QED  BY <1>3

(* A function that takes its value from v in M and from its own last value    *)
(* elsewhere exists on every interval.                                        *)
RunningSum(g, a, b, M, v, d) ==
    g = [i \in a..b |-> IF i \in M THEN v[i] ELSE g[i - 1] + d[i]]

LEMMA RunningSumExists ==
    ASSUME NEW a \in Nat, NEW b \in Nat, NEW M, a \in M, NEW v, NEW d
    PROVE  \E g : RunningSum(g, a, b, M, v, d)
<1>. USE DEF RunningSum
<1>. DEFINE Ends(n) == \E g : g = [i \in a..n |-> IF i \in M THEN v[i] ELSE g[i - 1] + d[i]]
            T == {n \in Nat : ~ Ends(n)}
<1> SUFFICES ASSUME T # {} PROVE FALSE
  OBVIOUS
<1>1. PICK n \in T : \A m \in T : n <= m
  BY Least
<1>. HIDE DEF T
<1>2. n \in Nat /\ \A m \in Nat : m < n => Ends(m)
  BY <1>1 DEF T
<1>3. CASE n <= a
  <2>1. [i \in a..n |-> v[i]] = [i \in a..n |-> IF i \in M THEN v[i] ELSE [k \in a..n |-> v[k]][i - 1] + d[i]]
    BY <1>2, <1>3
  <2>2. Ends(n)
    BY <2>1
  <2>. QED  BY <1>1, <2>2 DEF T
<1>4. CASE n > a
  <2>1. PICK g : g = [i \in a..(n - 1) |-> IF i \in M THEN v[i] ELSE g[i - 1] + d[i]]
    BY <1>2, <1>4
  <2>. DEFINE h == [i \in a..n |-> IF i = n THEN (IF n \in M THEN v[n] ELSE g[n - 1] + d[n]) ELSE g[i]]
  <2>2. \A i \in a..n : i # n => i \in a..(n - 1) /\ h[i] = g[i] /\ (i # a => h[i - 1] = g[i - 1])
    BY <1>2, <1>4
  <2>3. h[n - 1] = g[n - 1]
    BY <1>2, <1>4
  <2>4. \A i \in a..n : h[i] = IF i \in M THEN v[i] ELSE h[i - 1] + d[i]
    <3> SUFFICES ASSUME NEW i \in a..n PROVE h[i] = IF i \in M THEN v[i] ELSE h[i - 1] + d[i]
      OBVIOUS
    <3>1. CASE i = n
      BY <2>3, <3>1
    <3>2. CASE i # n
      <4>1. g[i] = IF i \in M THEN v[i] ELSE g[i - 1] + d[i]
        BY <2>1, <2>2, <3>2
      <4>. QED  BY <2>2, <3>2, <4>1
    <3>. QED  BY <3>1, <3>2
  <2>5. h = [i \in a..n |-> IF i \in M THEN v[i] ELSE h[i - 1] + d[i]]
    <3>1. h = [i \in a..n |-> h[i]]
      OBVIOUS
    <3>. HIDE DEF h
    <3>. QED  BY <2>4, <3>1
  <2>6. Ends(n)
    BY <2>5
  <2>. QED  BY <1>1, <2>6 DEF T
<1>. QED  BY <1>2, <1>3, <1>4

-----------------------------------------------------------------------------
(* Where modules lie *)

LEMMA ModuleSorts ==
    ASSUME NEW ms, AreModules(ms)
    PROVE  /\ Len(ms) \in Nat \ {0} /\ DOMAIN ms = 1..Len(ms)
           /\ \A i \in DOMAIN ms : ms[i].offset \in Nat \ {0} /\ Size(ms[i]) \in Nat \ {0}
<1>1. Len(ms) \in Nat \ {0} /\ DOMAIN ms = 1..Len(ms)
  BY EmptySeq, LenProperties DEF AreModules
<1>2. ASSUME NEW i \in DOMAIN ms
      PROVE  ms[i].offset \in Nat \ {0} /\ Size(ms[i]) \in Nat \ {0}
  <2>1. ms[i] \in Modules16 /\ Len(ms[i].instances) \in {1, 2, 4, 8}
    BY DEF AreModules, IsModule
  <2>2. \A n \in {1, 2, 4, 8} : n \in Nat \ {0}
    OBVIOUS
  <2>. QED  BY <2>1, <2>2 DEF Modules16, Size
<1>. QED  BY <1>1, <1>2

(* setOffsetValues as a recurrence.                                           *)
LEMMA FilledAt ==
    ASSUME NEW ms, AreModules(ms)
    PROVE  Filled(ms) = [i \in DOMAIN ms |->
              IF i = 1 \/ SetManually(ms[i]) THEN ms[i].offset
                ELSE Filled(ms)[i - 1] + Size(ms[i - 1])]
<1>. DEFINE n == Len(ms)
            M == {i \in 1..n : i = 1 \/ SetManually(ms[i])}
            v == [i \in 1..n |-> ms[i].offset]
            d == [i \in 1..n |-> Size(ms[i - 1])]
            Is(g) == g = [i \in DOMAIN ms |->
                            IF i = 1 \/ SetManually(ms[i]) THEN ms[i].offset
                              ELSE g[i - 1] + Size(ms[i - 1])]
<1>1. n \in Nat \ {0} /\ DOMAIN ms = 1..n
  BY ModuleSorts
<1>2. \E g : g = [i \in 1..n |-> IF i \in M THEN v[i] ELSE g[i - 1] + d[i]]
  <2>1. 1 \in M /\ 1 \in Nat /\ n \in Nat
    BY <1>1
  <2>2. \E g : RunningSum(g, 1, n, M, v, d)
    <3>. HIDE DEF n, M, v, d
    <3>. QED  BY <2>1, RunningSumExists
  <2>. QED  BY <2>2 DEF RunningSum
<1>3. \E g : Is(g)
  <2>1. PICK g : g = [i \in 1..n |-> IF i \in M THEN v[i] ELSE g[i - 1] + d[i]]
    BY <1>2
  <2>2. [i \in 1..n |-> IF i \in M THEN v[i] ELSE g[i - 1] + d[i]]
        = [i \in DOMAIN ms |-> IF i = 1 \/ SetManually(ms[i]) THEN ms[i].offset
                                    ELSE g[i - 1] + Size(ms[i - 1])]
    BY <1>1
  <2>. QED  BY <2>1, <2>2
<1>4. Filled(ms) = CHOOSE g : Is(g)
  BY DEF Filled
<1>. QED  BY <1>3, <1>4

(* The last module up to i that has been given a place.                       *)
IsBase(ms, b, i) == /\ b \in 1..i
                    /\ b = 1 \/ SetManually(ms[b])
                    /\ \A j \in (b + 1)..i : ~ SetManually(ms[j])

LEMMA BaseExists ==
    ASSUME NEW ms, NEW i \in Nat \ {0}
    PROVE  \E b : IsBase(ms, b, i)
<1>. DEFINE T == {k \in Nat : k # 0 /\ ~ \E b : IsBase(ms, b, k)}
<1> SUFFICES ASSUME T # {} PROVE FALSE
  OBVIOUS
<1>1. PICK k \in T : \A m \in T : k <= m
  BY Least
<1>2. k \in Nat /\ k # 0 /\ (~ \E b : IsBase(ms, b, k))
      /\ \A m \in Nat : m # 0 /\ m < k => \E b : IsBase(ms, b, m)
  BY <1>1
<1>. HIDE DEF T
<1>3. CASE k = 1 \/ SetManually(ms[k])
  <2>1. IsBase(ms, k, k)
    BY <1>2, <1>3 DEF IsBase
  <2>. QED  BY <1>2, <2>1
<1>4. CASE k # 1 /\ ~ SetManually(ms[k])
  <2>1. PICK b : IsBase(ms, b, k - 1)
    BY <1>2, <1>4
  <2>2. \A j \in (b + 1)..k : j = k \/ j \in (b + 1)..(k - 1)
    BY <1>2, <2>1 DEF IsBase
  <2>3. IsBase(ms, b, k)
    BY <1>2, <1>4, <2>1, <2>2 DEF IsBase
  <2>. QED  BY <1>2, <2>3
<1>. QED  BY <1>3, <1>4

LEMMA BaseUnique ==
    ASSUME NEW ms, NEW i \in Nat, NEW b, NEW c, IsBase(ms, b, i), IsBase(ms, c, i)
    PROVE  b = c
<1>1. ASSUME NEW x, NEW y, IsBase(ms, x, i), IsBase(ms, y, i), x < y PROVE FALSE
  <2>1. y \in (x + 1)..i /\ y # 1
    BY <1>1 DEF IsBase
  <2>. QED  BY <1>1, <2>1 DEF IsBase
<1>2. b \in Nat /\ c \in Nat
  BY DEF IsBase
<1>. QED  BY <1>1, <1>2

(* What lies between the base b and each module up to i.                      *)
IsPast(g, ms, b, i) == g = [j \in b..i |-> IF j = b THEN 0 ELSE g[j - 1] + Size(ms[j - 1])]

LEMMA PastExists ==
    ASSUME NEW ms, NEW b \in Nat, NEW i \in Nat
    PROVE  \E g : IsPast(g, ms, b, i)
<1>. DEFINE M == {b}
            v == [j \in b..i |-> 0]
            d == [j \in b..i |-> Size(ms[j - 1])]
<1>1. \E g : RunningSum(g, b, i, M, v, d)
  <2>1. b \in M
    OBVIOUS
  <2>. HIDE DEF M, v, d
  <2>. QED  BY <2>1, RunningSumExists
<1>2. PICK g : RunningSum(g, b, i, M, v, d)
  BY <1>1
<1>3. [j \in b..i |-> IF j \in M THEN v[j] ELSE g[j - 1] + d[j]]
      = [j \in b..i |-> IF j = b THEN 0 ELSE g[j - 1] + Size(ms[j - 1])]
  OBVIOUS
<1>4. IsPast(g, ms, b, i)
  BY <1>2, <1>3 DEF IsPast, RunningSum
<1>. QED  BY <1>4

LEMMA PastAt ==
    ASSUME NEW ms, NEW b \in Nat, NEW i \in Nat, NEW g, IsPast(g, ms, b, i), NEW j \in b..i
    PROVE  g[j] = IF j = b THEN 0 ELSE g[j - 1] + Size(ms[j - 1])
BY DEF IsPast

(* Two that reach different modules agree as far as both reach.               *)
LEMMA PastAgrees ==
    ASSUME NEW ms, NEW b \in Nat, NEW i \in Nat, NEW k \in Nat, i <= k,
           NEW g, IsPast(g, ms, b, i), NEW h, IsPast(h, ms, b, k), NEW j \in b..i
    PROVE  g[j] = h[j]
<1>. DEFINE T == {m \in Nat : m \in b..i /\ g[m] # h[m]}
<1> SUFFICES ASSUME T # {} PROVE FALSE
  OBVIOUS
<1>1. PICK m \in T : \A l \in T : m <= l
  BY Least
<1>2. m \in b..i /\ m \in b..k /\ g[m] # h[m]
  BY <1>1
<1>3. m # b => m - 1 \in b..i /\ g[m - 1] = h[m - 1]
  <2> SUFFICES ASSUME m # b PROVE m - 1 \in b..i /\ g[m - 1] = h[m - 1]
    OBVIOUS
  <2>1. m - 1 \in b..i /\ m - 1 \in Nat /\ ~ (m <= m - 1)
    BY <1>2
  <2>2. m - 1 \notin T
    BY <1>1, <2>1
  <2>. QED  BY <2>1, <2>2
<1>4. g[m] = IF m = b THEN 0 ELSE g[m - 1] + Size(ms[m - 1])
  BY <1>2, PastAt
<1>5. h[m] = IF m = b THEN 0 ELSE h[m - 1] + Size(ms[m - 1])
  BY <1>2, PastAt
<1>. QED  BY <1>2, <1>3, <1>4, <1>5

LEMMA PastNat ==
    ASSUME NEW ms, AreModules(ms), NEW b \in Nat \ {0}, NEW i \in DOMAIN ms,
           NEW g, IsPast(g, ms, b, i), NEW j \in b..i
    PROVE  g[j] \in Nat
<1>. DEFINE T == {m \in Nat : m \in b..i /\ g[m] \notin Nat}
<1> SUFFICES ASSUME T # {} PROVE FALSE
  BY ModuleSorts
<1>1. PICK m \in T : \A l \in T : m <= l
  BY Least
<1>2. m \in b..i /\ g[m] \notin Nat /\ i \in Nat
  BY <1>1, ModuleSorts
<1>3. g[m] = IF m = b THEN 0 ELSE g[m - 1] + Size(ms[m - 1])
  BY <1>2, PastAt
<1>4. CASE m # b
  <2>1. m - 1 \in b..i /\ m - 1 \in Nat /\ ~ (m <= m - 1) /\ m - 1 \in DOMAIN ms
    BY <1>2, <1>4, ModuleSorts
  <2>2. m - 1 \notin T
    BY <1>1, <2>1
  <2>3. g[m - 1] \in Nat /\ Size(ms[m - 1]) \in Nat
    BY <2>1, <2>2, ModuleSorts
  <2>. QED  BY <1>2, <1>3, <1>4, <2>3
<1>. QED  BY <1>2, <1>3, <1>4

(* The documented place of a module, told by its base and what lies between.  *)
LEMMA DocumentedIs ==
    ASSUME AreModules(Modules), NEW i \in DOMAIN Modules,
           NEW b, IsBase(Modules, b, i), NEW g, IsPast(g, Modules, b, i)
    PROVE  DocumentedPlace(i) = Modules[b].offset + g[i]
<1>. DEFINE base == CHOOSE c \in 1..i : /\ c = 1 \/ SetManually(Modules[c])
                                       /\ \A j \in (c + 1)..i : ~ SetManually(Modules[j])
            past == CHOOSE h : h = [j \in base..i |->
                                      IF j = base THEN 0 ELSE h[j - 1] + Size(Modules[j - 1])]
<1>1. i \in Nat /\ b \in Nat /\ i \in b..i
  BY ModuleSorts DEF IsBase
<1>2. base = b
  <2>1. b \in 1..i /\ (b = 1 \/ SetManually(Modules[b])) /\ \A j \in (b + 1)..i : ~ SetManually(Modules[j])
    BY DEF IsBase
  <2>2. IsBase(Modules, base, i)
    BY <2>1 DEF IsBase
  <2>. HIDE DEF base
  <2>. QED  BY <1>1, <2>2, BaseUnique
<1>3. DocumentedPlace(i) = Modules[base].offset + past[i]
  BY DEF DocumentedPlace
<1>4. IsPast(past, Modules, base, i)
  <2>. HIDE DEF base
  <2>1. \E h : IsPast(h, Modules, base, i)
    BY <1>1, <1>2, PastExists
  <2>2. \E h : h = [j \in base..i |-> IF j = base THEN 0 ELSE h[j - 1] + Size(Modules[j - 1])]
    BY <2>1 DEF IsPast
  <2>. QED  BY <2>2 DEF IsPast
<1>. HIDE DEF base, past
<1>5. past[i] = g[i]
  BY <1>1, <1>2, <1>4, PastAgrees
<1>. QED  BY <1>2, <1>3, <1>5

(* The documented places as a recurrence.                                     *)
LEMMA DocumentedAt ==
    ASSUME AreModules(Modules), NEW i \in DOMAIN Modules
    PROVE  /\ DocumentedPlace(i) \in Nat \ {0}
           /\ DocumentedPlace(i) = IF i = 1 \/ SetManually(Modules[i]) THEN Modules[i].offset
                                   ELSE DocumentedPlace(i - 1) + Size(Modules[i - 1])
<1>0. i \in Nat \ {0} /\ i <= Len(Modules) /\ DOMAIN Modules = 1..Len(Modules) /\ Len(Modules) \in Nat
  BY ModuleSorts
<1>1. PICK b : IsBase(Modules, b, i)
  BY <1>0, BaseExists
<1>2. b \in Nat \ {0} /\ b \in 1..i /\ b \in DOMAIN Modules
  BY <1>0, <1>1 DEF IsBase
<1>3. PICK g : IsPast(g, Modules, b, i)
  BY <1>0, <1>2, PastExists
<1>4. DocumentedPlace(i) = Modules[b].offset + g[i]
  BY <1>1, <1>3, DocumentedIs
<1>5. Modules[b].offset \in Nat \ {0} /\ g[i] \in Nat
  <2>1. Modules[b].offset \in Nat \ {0}
    BY <1>2, ModuleSorts
  <2>2. i \in b..i
    BY <1>0, <1>2
  <2>. QED  BY <1>0, <1>2, <1>3, <2>1, <2>2, PastNat
<1>6. CASE i = 1 \/ SetManually(Modules[i])
  <2>1. b = i
    <3>1. IsBase(Modules, i, i)
      BY <1>0, <1>6 DEF IsBase
    <3>. QED  BY <1>0, <1>1, <3>1, BaseUnique
  <2>2. g[i] = 0
    BY <1>0, <2>1, <1>3, PastAt
  <2>. QED  BY <1>4, <1>5, <1>6, <2>1, <2>2
<1>7. CASE ~ (i = 1 \/ SetManually(Modules[i]))
  <2>1. i - 1 \in DOMAIN Modules /\ i - 1 \in Nat /\ b # i /\ i - 1 \in b..(i - 1) /\ i \in b..i
       /\ i - 1 <= i
    BY <1>0, <1>1, <1>2, <1>7 DEF IsBase
  <2>2. IsBase(Modules, b, i - 1)
    BY <1>0, <1>1, <2>1 DEF IsBase
  <2>3. PICK h : IsPast(h, Modules, b, i - 1)
    BY <1>2, <2>1, PastExists
  <2>4. DocumentedPlace(i - 1) = Modules[b].offset + h[i - 1]
    BY <2>1, <2>2, <2>3, DocumentedIs
  <2>5. h[i - 1] = g[i - 1]
    <3>1. PICK k \in Nat : k = i - 1
      BY <2>1
    <3>2. IsPast(h, Modules, b, k) /\ k <= i /\ k \in b..k
      BY <2>1, <2>3, <3>1
    <3>3. h[k] = g[k]
      BY <1>0, <1>2, <1>3, <3>2, PastAgrees
    <3>. QED  BY <3>1, <3>3
  <2>6. g[i] = g[i - 1] + Size(Modules[i - 1])
    BY <1>0, <1>2, <1>3, <2>1, PastAt
  <2>7. h[i - 1] \in Nat /\ Size(Modules[i - 1]) \in Nat
    BY <1>2, <2>1, <2>3, PastNat, ModuleSorts
  <2>8. DocumentedPlace(i) = DocumentedPlace(i - 1) + Size(Modules[i - 1])
    BY <1>4, <1>5, <2>4, <2>5, <2>6, <2>7
  <2>9. DocumentedPlace(i) \in Nat \ {0}
    BY <1>4, <1>5
  <2>. QED  BY <1>7, <2>8, <2>9
<1>. QED  BY <1>6, <1>7

(* setOffsetValues places every module where the README says it lies.         *)
LEMMA FilledIsDocumented ==
    ASSUME AreModules(Modules), NEW i \in DOMAIN Modules
    PROVE  Filled(Modules)[i] = DocumentedPlace(i)
<1>. DEFINE T == {k \in Nat : k \in DOMAIN Modules /\ Filled(Modules)[k] # DocumentedPlace(k)}
<1>0. DOMAIN Modules = 1..Len(Modules) /\ Len(Modules) \in Nat
  BY ModuleSorts
<1>9. ASSUME NEW k \in T, \A m \in T : k <= m PROVE FALSE
  <2>1. k \in DOMAIN Modules /\ Filled(Modules)[k] # DocumentedPlace(k)
    BY <1>9
  <2>2. Filled(Modules)[k] = IF k = 1 \/ SetManually(Modules[k]) THEN Modules[k].offset
                          ELSE Filled(Modules)[k - 1] + Size(Modules[k - 1])
    BY <2>1, FilledAt, Zenon
  <2>3. DocumentedPlace(k) = IF k = 1 \/ SetManually(Modules[k]) THEN Modules[k].offset
                               ELSE DocumentedPlace(k - 1) + Size(Modules[k - 1])
    BY <2>1, DocumentedAt
  <2>4. k # 1 => Filled(Modules)[k - 1] = DocumentedPlace(k - 1)
    <3> SUFFICES ASSUME k # 1 PROVE Filled(Modules)[k - 1] = DocumentedPlace(k - 1)
      OBVIOUS
    <3>1. k - 1 \in DOMAIN Modules /\ k - 1 \in Nat /\ ~ (k <= k - 1)
      BY <1>0, <2>1
    <3>2. k - 1 \notin T
      BY <1>9, <3>1
    <3>. QED  BY <3>1, <3>2
  <2>. QED  BY <2>1, <2>2, <2>3, <2>4
<1>10. T = {}
  <2>1. T \in SUBSET Nat
    OBVIOUS
  <2>. HIDE DEF T
  <2>. QED  BY <1>9, <2>1, Least
<1>. QED  BY <1>0, <1>10

(* checkOverlappingOffsets refuses no configuration whose modules lie apart,  *)
(* and lets one pass whose modules do not only where a given offset follows   *)
(* a module without one.                                                      *)
LEMMA RefusedRightly ==
    ASSUME AreModules(Modules), Overlaps(Modules)
    PROVE  ~ Apart
<1>1. PICK i \in 2..Len(Modules) :
        SetManually(Modules[i]) /\ Modules[i].offset < Modules[i - 1].offset + Size(Modules[i - 1])
  BY DEF Overlaps
<1>2. PICK k : k = i - 1
  OBVIOUS
<1>3. i \in DOMAIN Modules /\ k \in DOMAIN Modules
  BY <1>2, ModuleSorts
<1>4. DocumentedPlace(i) = Modules[i].offset /\ Modules[i].offset \in Nat
  BY <1>1, <1>3, DocumentedAt, ModuleSorts
<1>5. DocumentedPlace(k) \in Nat /\ DocumentedPlace(k) >= Modules[k].offset /\ Modules[k].offset \in Nat
      /\ Size(Modules[k]) \in Nat
  <2>1. DocumentedPlace(k) \in Nat \ {0} /\ Modules[k].offset \in Nat \ {0} /\ Size(Modules[k]) \in Nat
    BY <1>3, DocumentedAt, ModuleSorts
  <2>2. SetManually(Modules[k]) => DocumentedPlace(k) = Modules[k].offset
    BY <1>3, DocumentedAt
  <2>3. ~ SetManually(Modules[k]) => Modules[k].offset = 1
    BY DEF SetManually, DefaultOffset
  <2>. QED  BY <2>1, <2>2, <2>3
<1>6. ~ (PastEnd(k) <= DocumentedPlace(i))
  BY <1>1, <1>2, <1>4, <1>5 DEF PastEnd
<1>. QED  BY <1>2, <1>6 DEF Apart

LEMMA PlacedApart ==
    ASSUME AreModules(Modules), ~ Overlaps(Modules)
    PROVE  Apart \/ Hidden
<1> SUFFICES ASSUME NEW i \in 2..Len(Modules), ~ (PastEnd(i - 1) <= DocumentedPlace(i)) PROVE Hidden
  BY DEF Apart
<1>0. Len(Modules) \in Nat /\ DOMAIN Modules = 1..Len(Modules)
  BY ModuleSorts
<1>1. PICK k : k = i - 1
  OBVIOUS
<1>2. i \in DOMAIN Modules /\ k \in DOMAIN Modules
  BY <1>0, <1>1
<1>3. /\ DocumentedPlace(i) \in Nat /\ DocumentedPlace(k) \in Nat /\ Size(Modules[k]) \in Nat
      /\ Modules[i].offset \in Nat /\ Modules[k].offset \in Nat
  BY <1>2, DocumentedAt, ModuleSorts
<1>4. DocumentedPlace(i) = IF i = 1 \/ SetManually(Modules[i]) THEN Modules[i].offset
                             ELSE DocumentedPlace(k) + Size(Modules[k])
  BY <1>1, <1>2, DocumentedAt
<1>5. ~ (DocumentedPlace(k) + Size(Modules[k]) <= DocumentedPlace(i))
  BY <1>1 DEF PastEnd
<1>6. SetManually(Modules[i]) /\ DocumentedPlace(i) = Modules[i].offset
  BY <1>3, <1>4, <1>5
<1>7. ~ (Modules[i].offset < Modules[k].offset + Size(Modules[k]))
  BY <1>1, <1>6 DEF Overlaps
<1>8. DocumentedPlace(k) # Modules[k].offset
  BY <1>3, <1>5, <1>6, <1>7
<1>9. k # 1 /\ ~ SetManually(Modules[k])
  BY <1>2, <1>8, DocumentedAt
<1>. QED  BY <1>0, <1>1, <1>2, <1>6, <1>9 DEF Hidden

-----------------------------------------------------------------------------
(* The mapping of a word *)

LEMMA SameInt16 == \A x \in Int16s : AsInt16(x) = x
<1>1. ASSUME NEW x \in Int, 0 <= x, x <= 32767 PROVE AsInt16(x) = x
  BY <1>1 DEF AsInt16
<1>2. ASSUME NEW x \in Int, -32768 <= x, x < 0 PROVE AsInt16(x) = x
  <2>1. x % 65536 = x + 65536
    BY <1>2
  <2>. QED  BY <1>2, <2>1 DEF AsInt16
<1>. QED  BY <1>1, <1>2 DEF Int16s

LEMMA AnalogOf ==
    ASSUME NEW word \in Nat, word < 32768, NEW n, n = word \div 16
    PROVE  n \in Nat /\ n <= 2047 /\ ExtractAnalog(word) = n
<1>1. n \in Nat /\ n <= 2047
  OBVIOUS
<1>2. Sign(word) = 0
  <2>1. word \div 32768 = 0
    OBVIOUS
  <2>. QED  BY <2>1 DEF Sign
<1>3. AsInt16(n) = n
  BY <1>1, SameInt16 DEF Int16s
<1>4. ExtractAnalog(word) = AsInt16(n)
  BY <1>1, <1>2 DEF ExtractAnalog
<1>. QED  BY <1>1, <1>3, <1>4

LEMMA Scaled ==
    ASSUME NEW n \in Int, 0 <= n, n <= 2047, NEW D \in Int, 0 <= D
    PROVE  LET q == (n * D) \div 2047
           IN  q \in Int /\ 0 <= q /\ q <= D /\ q * 2047 <= n * D /\ n * D < (q + 1) * 2047
<1>1. n * D \in Int /\ 0 <= n * D /\ n * D <= 2047 * D
  OBVIOUS
<1>2. ASSUME NEW p \in Int, 0 <= p, p <= 2047 * D
      PROVE  LET q == p \div 2047
             IN  q \in Int /\ 0 <= q /\ q <= D /\ q * 2047 <= p /\ p < (q + 1) * 2047
  <2>1. PICK q \in Int : q = p \div 2047
    BY <1>2
  <2>2. 0 <= q /\ q * 2047 <= p /\ p < (q + 1) * 2047
    BY <1>2, <2>1
  <2>3. q <= D
    BY <1>2, <2>2
  <2>. QED  BY <2>1, <2>2, <2>3
<1>. QED  BY <1>1, <1>2

(* For a word without the sign bit the mapping stays within the range and is  *)
(* off by less than one.                                                      *)
LEMMA MapExact ==
    ASSUME NEW word \in Nat, word < 32768, NEW r \in [min : Int16s, max : Int16s], r.min <= r.max
    PROVE  LET v == Map(ExtractAnalog(word), r)
               n == word \div 16
           IN  /\ v \in r.min..r.max
               /\ (v - r.min) * MaxAnalog <= n * (r.max - r.min)
               /\ n * (r.max - r.min) < (v - r.min + 1) * MaxAnalog
<1>10. PICK lo, hi, n, D, q : /\ lo = r.min /\ hi = r.max /\ n = word \div 16
                             /\ D = hi - lo /\ q = (n * D) \div 2047
  OBVIOUS
<1>1. lo \in Int /\ hi \in Int /\ -32768 <= lo /\ lo <= hi /\ hi <= 32767
  <2>1. r.min \in Int16s /\ r.max \in Int16s
    OBVIOUS
  <2>2. lo \in Int16s /\ hi \in Int16s /\ lo <= hi
    BY <1>10, <2>1
  <2>. QED  BY <2>2 DEF Int16s
<1>2. n \in Int /\ n = word \div 16 /\ 0 <= n /\ n <= 2047 /\ ExtractAnalog(word) = n
  <2>1. n \in Nat /\ n <= 2047 /\ ExtractAnalog(word) = n
    BY <1>10, AnalogOf
  <2>. QED  BY <1>10, <2>1
<1>3. D \in Int /\ D = hi - lo /\ 0 <= D
  BY <1>1, <1>10
<1>4. q \in Int /\ 0 <= q /\ q <= D /\ q * 2047 <= n * D /\ n * D < (q + 1) * 2047
  <2>1. \A p : p = (n * D) \div 2047 =>
               p \in Int /\ 0 <= p /\ p <= D /\ p * 2047 <= n * D /\ n * D < (p + 1) * 2047
    BY <1>2, <1>3, Scaled
  <2>. QED  BY <1>10, <2>1
<1>5. Map(n, r) = AsInt16(q + lo)
  <2>1. n - MinAnalog = n /\ MaxAnalog - MinAnalog = 2047
    BY <1>2 DEF MinAnalog, MaxAnalog
  <2>2. n * D >= 0
    BY <1>2, <1>3
  <2>3. Quotient(n * D, 2047) = q
    BY <1>10, <2>2 DEF Quotient
  <2>. QED  BY <1>10, <2>1, <2>3 DEF Map
<1>6. AsInt16(q + lo) = q + lo
  <2>1. q + lo \in Int16s
    BY <1>1, <1>3, <1>4 DEF Int16s
  <2>. QED  BY <2>1, SameInt16
<1>7. PICK v : v = q + lo /\ v = Map(ExtractAnalog(word), r)
  BY <1>2, <1>5, <1>6
<1>8. v \in lo..hi /\ v - lo = q
  BY <1>1, <1>3, <1>4, <1>7
<1>9. (v - lo) * MaxAnalog <= n * (hi - lo) /\ n * (hi - lo) < (v - lo + 1) * MaxAnalog
  BY <1>3, <1>4, <1>8 DEF MaxAnalog
<1>. QED  BY <1>10, <1>7, <1>8, <1>9

-----------------------------------------------------------------------------
(* The inductive invariant *)

(* The configuration is that of a rig, and polling begins when it has been    *)
(* placed.                                                                    *)
PlaceInv ==
    /\ AreModules(Modules)
    /\ \A w \in rig.words : w \in Nat /\ w < 65536
    /\ placing = "refused" => Overlaps(Modules)
    /\ placing = "placed" => ~ Overlaps(Modules) /\ offsets = Filled(Modules)
    /\ asking => placing = "placed"

(* The field of module m's k-th instance if its point holds w.                *)
FieldOf(r, m, k, w) ==
    [point |-> Filled(r.modules)[m] + (k - 1), word |-> w,
     value |-> Map(ExtractAnalog(w), r.modules[m].instances[k])]

FieldsOf(r, m) == {FieldOf(r, m, k, w) : k \in Nat, w \in r.words}

(* A run of fields of module m, from its first instance on.                   *)
FromModule(r, m, fields) ==
    /\ fields \in Seq(FieldsOf(r, m))
    /\ Len(fields) <= Size(r.modules[m])
    /\ \A k \in DOMAIN fields : \E w \in r.words : fields[k] = FieldOf(r, m, k, w)

RequestInv ==
    /\ turn \in DOMAIN Modules
    /\ FromModule(rig, turn, reading)
    /\ ~ asking => reading = <<>>

EntryInv ==
    /\ entry.error \/ entry.module = 0 => entry.fields = <<>>
    /\ entry.module # 0 => placing = "placed" /\ entry.module \in DOMAIN Modules
    /\ ~ entry.error /\ entry.module # 0 =>
         /\ FromModule(rig, entry.module, entry.fields)
         /\ Len(entry.fields) = Size(Modules[entry.module])

WagoInv == PlaceInv /\ RequestInv /\ EntryInv

LEMMA NothingRead ==
    ASSUME NEW r, AreModules(r.modules), NEW m \in DOMAIN r.modules
    PROVE  FromModule(r, m, <<>>)
<1>1. <<>> \in Seq(FieldsOf(r, m)) /\ Len(<<>>) = 0
  BY EmptySeq
<1>2. Size(r.modules[m]) \in Nat
  BY ModuleSorts
<1>. QED  BY <1>1, <1>2 DEF FromModule

LEMMA OneMoreRead ==
    ASSUME NEW r, NEW m \in DOMAIN r.modules, AreModules(r.modules), NEW fields, NEW w \in r.words,
           FromModule(r, m, fields), Len(fields) < Size(r.modules[m])
    PROVE  FromModule(r, m, Append(fields, FieldOf(r, m, Len(fields) + 1, w)))
<1>. DEFINE S == FieldsOf(r, m)
            f == FieldOf(r, m, Len(fields) + 1, w)
<1>1. fields \in Seq(S) /\ Len(fields) \in Nat /\ DOMAIN fields = 1..Len(fields)
  BY LenProperties DEF FromModule
<1>2. f \in S
  <2>1. PICK n \in Nat : n = Len(fields) + 1
    BY <1>1
  <2>2. FieldOf(r, m, n, w) \in FieldsOf(r, m)
    BY DEF FieldsOf
  <2>. QED  BY <2>1, <2>2
<1>3. \A k \in DOMAIN fields : \E x \in r.words : fields[k] = FieldOf(r, m, k, x)
  BY DEF FromModule
<1>. HIDE DEF S, f
<1>4. /\ Append(fields, f) \in Seq(S) /\ Len(Append(fields, f)) = Len(fields) + 1
      /\ \A k \in 1..Len(fields) : Append(fields, f)[k] = fields[k]
      /\ Append(fields, f)[Len(fields) + 1] = f
  BY <1>1, <1>2, AppendProperties
<1>5. DOMAIN Append(fields, f) = 1..(Len(fields) + 1)
  BY <1>1, <1>4, LenProperties
<1>6. ASSUME NEW k \in DOMAIN Append(fields, f)
      PROVE  \E x \in r.words : Append(fields, f)[k] = FieldOf(r, m, k, x)
  <2>1. CASE k = Len(fields) + 1
    BY <1>4, <2>1 DEF f
  <2>2. CASE k # Len(fields) + 1
    <3>1. k \in 1..Len(fields)
      BY <1>1, <1>5, <2>2
    <3>. QED  BY <1>1, <1>3, <1>4, <3>1
  <2>. QED  BY <2>1, <2>2
<1>7. Size(r.modules[m]) \in Nat
  BY ModuleSorts
<1>8. Len(Append(fields, f)) <= Size(r.modules[m])
  BY <1>1, <1>4, <1>7
<1>. QED  BY <1>4, <1>6, <1>8 DEF FromModule, S, f

LEMMA WagoInvInit == WagoInit => WagoInv
<1> SUFFICES ASSUME WagoInit PROVE WagoInv
  OBVIOUS
<1>1. AreModules(Modules) /\ \A w \in rig.words : w \in Nat /\ w < 65536
  BY RigAssumption DEF WagoInit, Modules
<1>2. PlaceInv
  BY <1>1 DEF WagoInit, PlaceInv
<1>3. turn \in DOMAIN Modules
  BY <1>1, ModuleSorts DEF WagoInit
<1>4. FromModule(rig, turn, <<>>)
  BY <1>1, <1>3, NothingRead DEF Modules
<1>. QED  BY <1>2, <1>3, <1>4 DEF WagoInit, WagoInv, RequestInv, EntryInv, NoEntry

LEMMA PlaceStep == PlaceInv /\ [WagoNext]_wagoVars => PlaceInv'
<1> SUFFICES ASSUME PlaceInv, [WagoNext]_wagoVars PROVE PlaceInv'
  OBVIOUS
<1>1. ASSUME UNCHANGED <<rig, placing, offsets, asking>> PROVE PlaceInv'
  BY <1>1 DEF PlaceInv, Modules
<1>2. CASE Refuse
  BY <1>2 DEF Refuse, PlaceInv, Modules
<1>3. CASE Place
  BY <1>3 DEF Place, PlaceInv, Modules
<1>4. CASE PollModule
  BY <1>4 DEF PollModule, PlaceInv, Modules
<1>5. CASE GetFails \/ Complete
  <2>1. UNCHANGED <<rig, placing, offsets>> /\ asking' = FALSE
    BY <1>5 DEF GetFails, Complete, ReturnEntry
  <2>. QED  BY <2>1 DEF PlaceInv, Modules
<1>6. CASE SkipModule \/ GetSingle \/ Elapse
  BY <1>1, <1>6 DEF SkipModule, GetSingle, Elapse
<1>7. CASE UNCHANGED wagoVars
  BY <1>1, <1>7 DEF wagoVars
<1>. QED  BY <1>2, <1>3, <1>4, <1>5, <1>6, <1>7 DEF WagoNext

LEMMA NextTurnInside ==
    ASSUME AreModules(Modules), rig' = rig, turn \in DOMAIN Modules, NextTurn
    PROVE  turn' \in DOMAIN Modules
<1>1. PICK n \in Nat \ {0} : n = Len(Modules) /\ DOMAIN Modules = 1..n
  BY ModuleSorts
<1>2. turn \in Nat /\ turn' = (turn % n) + 1
  BY <1>1 DEF NextTurn
<1>3. turn % n \in 0..(n - 1)
  BY <1>1, <1>2
<1>. QED  BY <1>1, <1>2, <1>3

LEMMA RequestStep == PlaceInv /\ RequestInv /\ [WagoNext]_wagoVars => RequestInv'
<1> SUFFICES ASSUME PlaceInv, RequestInv, [WagoNext]_wagoVars PROVE RequestInv'
  OBVIOUS
<1>0. rig' = rig /\ AreModules(rig.modules) /\ AreModules(Modules)
  BY DEF PlaceInv, Modules, WagoNext, Refuse, Place, PollModule, SkipModule, GetSingle,
         GetFails, Complete, ReturnEntry, Elapse, wagoVars
<1>1. ASSUME UNCHANGED <<turn, reading>>, asking' \/ ~ asking PROVE RequestInv'
  BY <1>0, <1>1 DEF RequestInv, Modules
<1>2. ASSUME NextTurn, reading' = <<>> PROVE RequestInv'
  <2>1. turn' \in DOMAIN Modules
    BY <1>0, <1>2, NextTurnInside DEF RequestInv
  <2>2. FromModule(rig, turn', <<>>)
    <3>1. PICK m \in DOMAIN rig.modules : m = turn'
      BY <2>1 DEF Modules
    <3>. QED  BY <1>0, <3>1, NothingRead
  <2>. QED  BY <1>0, <1>2, <2>1, <2>2 DEF RequestInv, Modules
<1>3. CASE Refuse \/ Place \/ Elapse
  BY <1>1, <1>3 DEF Refuse, Place, Elapse, RequestInv
<1>4. CASE PollModule
  BY <1>1, <1>4 DEF PollModule
<1>5. CASE SkipModule
  BY <1>2, <1>5 DEF SkipModule, RequestInv
<1>6. CASE GetSingle
  <2>1. asking /\ Len(reading) < Size(Modules[turn]) /\ UNCHANGED <<turn, asking>>
    BY <1>6 DEF GetSingle
  <2>2. PICK w \in rig.words :
          reading' = Append(reading, [point |-> offsets[turn] + Len(reading), word |-> w,
                                      value |-> Map(ExtractAnalog(w), Instance)])
    BY <1>6 DEF GetSingle
  <2>3. offsets[turn] = Filled(rig.modules)[turn]
    BY <2>1 DEF PlaceInv, Modules
  <2>4. Len(reading) \in Nat
    BY LenProperties DEF RequestInv, FromModule
  <2>5. reading' = Append(reading, FieldOf(rig, turn, Len(reading) + 1, w))
    <3>1. (Len(reading) + 1) - 1 = Len(reading)
      BY <2>4
    <3>. QED  BY <2>2, <2>3, <3>1 DEF FieldOf, Instance, Modules
  <2>6. FromModule(rig, turn, reading')
    BY <1>0, <2>1, <2>5, OneMoreRead DEF RequestInv, Modules
  <2>. QED  BY <1>0, <2>1, <2>6 DEF RequestInv, Modules
<1>7. CASE GetFails \/ Complete
  BY <1>2, <1>7 DEF GetFails, Complete, ReturnEntry
<1>8. CASE UNCHANGED wagoVars
  BY <1>1, <1>8 DEF wagoVars
<1>. QED  BY <1>3, <1>4, <1>5, <1>6, <1>7, <1>8 DEF WagoNext

LEMMA EntryStep == PlaceInv /\ RequestInv /\ EntryInv /\ [WagoNext]_wagoVars => EntryInv'
<1> SUFFICES ASSUME PlaceInv, RequestInv, EntryInv, [WagoNext]_wagoVars PROVE EntryInv'
  OBVIOUS
<1>1. ASSUME UNCHANGED <<rig, entry>>, placing' = placing \/ placing # "placed" PROVE EntryInv'
  BY <1>1 DEF EntryInv, Modules
<1>2. CASE GetFails
  <2>1. /\ asking /\ UNCHANGED <<rig, placing>>
        /\ entry' = [module |-> turn, error |-> TRUE, fields |-> <<>>]
    BY <1>2 DEF GetFails, ReturnEntry
  <2>. QED  BY <2>1 DEF EntryInv, PlaceInv, RequestInv, Modules
<1>3. CASE Complete
  <2>1. /\ asking /\ UNCHANGED <<rig, placing>> /\ Len(reading) = Size(Modules[turn])
        /\ entry' = [module |-> turn, error |-> FALSE, fields |-> reading]
    BY <1>3 DEF Complete, ReturnEntry
  <2>2. turn \in DOMAIN Modules /\ turn # 0
    BY ModuleSorts DEF PlaceInv, RequestInv
  <2>. QED  BY <2>1, <2>2 DEF EntryInv, PlaceInv, RequestInv, Modules
<1>4. CASE Refuse \/ Place \/ PollModule \/ SkipModule \/ GetSingle \/ Elapse
  BY <1>1, <1>4 DEF Refuse, Place, PollModule, SkipModule, GetSingle, Elapse
<1>5. CASE UNCHANGED wagoVars
  BY <1>1, <1>5 DEF wagoVars
<1>. QED  BY <1>2, <1>3, <1>4, <1>5 DEF WagoNext

LEMMA WagoInvStep == WagoInv /\ [WagoNext]_wagoVars => WagoInv'
BY PlaceStep, RequestStep, EntryStep DEF WagoInv

-----------------------------------------------------------------------------
(* The properties *)

(* The places are the documented ones.                                       *)
LEMMA OffsetsRight == WagoInv => OffsetsExact
<1> SUFFICES ASSUME PlaceInv PROVE OffsetsExact
  BY DEF WagoInv
<1>1. placing = "refused" => ~ Apart
  BY RefusedRightly DEF PlaceInv
<1>2. ASSUME placing = "placed"
      PROVE  (\A i \in DOMAIN Modules : offsets[i] = DocumentedPlace(i)) /\ (Apart \/ Hidden)
  BY <1>2, FilledIsDocumented, PlacedApart DEF PlaceInv
<1>. QED  BY <1>1, <1>2 DEF OffsetsExact

(* For every configuration: checkOverlappingOffsets and setOffsetValues       *)
(* refuse only modules that do not lie apart, place the others where the      *)
(* README says, and let modules that reach into one another pass only where a *)
(* given offset follows a module without one.                                 *)
THEOREM OffsetsDocumented == WagoSpec => []OffsetsExact
BY OffsetsRight, WagoInvInit, WagoInvStep, PTL DEF WagoSpec

(* What an entry without error holds: a field for every instance.             *)
LEMMA EntryFields ==
    ASSUME WagoInv, NEW k \in DOMAIN entry.fields
    PROVE  /\ AreModules(Modules) /\ entry.module \in DOMAIN Modules
           /\ k \in DOMAIN Modules[entry.module].instances
           /\ \E w \in rig.words : entry.fields[k] = FieldOf(rig, entry.module, k, w)
<1>1. entry.fields # <<>>
  <2>1. DOMAIN <<>> = {}
    OBVIOUS
  <2>. QED  BY <2>1, Zenon
<1>2. ~ entry.error /\ entry.module # 0
  BY <1>1 DEF WagoInv, EntryInv
<1>3. /\ AreModules(Modules) /\ entry.module \in DOMAIN Modules
      /\ FromModule(rig, entry.module, entry.fields)
      /\ Len(entry.fields) = Size(Modules[entry.module])
  BY <1>2 DEF WagoInv, EntryInv, PlaceInv
<1>4. k \in 1..Len(entry.fields)
  BY <1>3, LenProperties DEF FromModule
<1>5. DOMAIN Modules[entry.module].instances = 1..Size(Modules[entry.module])
  <2>1. Modules[entry.module] \in Modules16
    BY <1>3 DEF AreModules, IsModule
  <2>2. Modules[entry.module].instances \in Seq([min : Int16s, max : Int16s])
    BY <2>1 DEF Modules16
  <2>. QED  BY <2>2, LenProperties DEF Size
<1>. QED  BY <1>3, <1>4, <1>5 DEF FromModule

(* An entry has the points of its own module.                                 *)
LEMMA PointsRight == WagoInv => OwnPoints
<1> SUFFICES ASSUME WagoInv PROVE OwnPoints
  OBVIOUS
<1>1. entry.error => entry.fields = <<>>
  BY DEF WagoInv, EntryInv
<1>2. ASSUME ~ entry.error, entry.module # 0
      PROVE  Len(entry.fields) = Size(Modules[entry.module])
  BY <1>2 DEF WagoInv, EntryInv
<1>3. ASSUME NEW k \in DOMAIN entry.fields
      PROVE  entry.fields[k].point = DocumentedPlace(entry.module) + k - 1
  <2>1. PICK w \in rig.words : entry.fields[k] = FieldOf(rig, entry.module, k, w)
    BY EntryFields
  <2>2. PICK m \in DOMAIN Modules : m = entry.module
    BY EntryFields
  <2>3. entry.fields[k].point = Filled(Modules)[m] + (k - 1)
    BY <2>1, <2>2 DEF FieldOf, Modules
  <2>4. Filled(Modules)[m] = DocumentedPlace(m) /\ DocumentedPlace(m) \in Nat
    BY EntryFields, FilledIsDocumented, DocumentedAt
  <2>5. k \in Nat
    <3>1. Modules[m] \in Modules16
      BY EntryFields DEF AreModules, IsModule
    <3>2. Modules[m].instances \in Seq([min : Int16s, max : Int16s])
      BY <3>1 DEF Modules16
    <3>3. k \in DOMAIN Modules[m].instances
      BY <2>2, EntryFields
    <3>. QED  BY <3>2, <3>3, LenProperties
  <2>. QED  BY <2>2, <2>3, <2>4, <2>5
<1>. QED  BY <1>1, <1>2, <1>3 DEF OwnPoints

(* A request yields one word for every instance of its own module, read from  *)
(* the points the README puts them at, or an error and nothing.               *)
THEOREM PointsOwn == WagoSpec => []OwnPoints
BY PointsRight, WagoInvInit, WagoInvStep, PTL DEF WagoSpec

LEMMA RangeFits ==
    ASSUME NEW ms, AreModules(ms), NEW m \in DOMAIN ms, NEW k \in DOMAIN ms[m].instances
    PROVE  /\ ms[m].instances[k] \in [min : Int16s, max : Int16s]
           /\ ms[m].instances[k].min <= ms[m].instances[k].max
<1>. DEFINE R == [min : Int16s, max : Int16s]
<1>1. IsModule(ms[m])
  BY DEF AreModules
<1>2. ms[m].instances \in Seq(R)
  BY <1>1 DEF IsModule, Modules16
<1>3. ASSUME NEW s, NEW S, s \in Seq(S), NEW j \in DOMAIN s
      PROVE  s[j] \in S
  BY <1>3, LenProperties, ElementOfSeq
<1>4. ms[m].instances[k] \in R
  <2>. HIDE DEF R
  <2>. QED  BY <1>2, <1>3
<1>. QED  BY <1>1, <1>4 DEF IsModule

(* An entry's words are mapped into their ranges.                             *)
LEMMA ValuesRight == WagoInv => MappingExact
<1> SUFFICES ASSUME WagoInv, NEW k \in DOMAIN entry.fields, entry.fields[k].word < 32768
             PROVE  LET f == entry.fields[k]
                        r == Modules[entry.module].instances[k]
                        n == f.word \div 16
                    IN  /\ f.value \in r.min..r.max
                        /\ (f.value - r.min) * MaxAnalog <= n * (r.max - r.min)
                        /\ n * (r.max - r.min) < (f.value - r.min + 1) * MaxAnalog
  BY DEF MappingExact
<1>1. PICK w \in rig.words : entry.fields[k] = FieldOf(rig, entry.module, k, w)
  BY EntryFields
<1>2. PICK r : r = Modules[entry.module].instances[k]
  OBVIOUS
<1>3. entry.fields[k].word = w /\ entry.fields[k].value = Map(ExtractAnalog(w), r)
  BY <1>1, <1>2 DEF FieldOf, Modules
<1>4. w \in Nat /\ w < 32768
  BY <1>3 DEF WagoInv, PlaceInv
<1>5. r \in [min : Int16s, max : Int16s] /\ r.min <= r.max
  <2>1. AreModules(Modules) /\ entry.module \in DOMAIN Modules /\ k \in DOMAIN Modules[entry.module].instances
    BY EntryFields
  <2>. QED  BY <2>1, <1>2, RangeFits
<1>. QED  BY <1>2, <1>3, <1>4, <1>5, MapExact

(* Every word without the sign bit is mapped into its instance's range, in    *)
(* proportion and rounded down by less than one, for every range of 16-bit    *)
(* numbers and every word.                                                    *)
THEOREM MappedExactly == WagoSpec => []MappingExact
BY ValuesRight, WagoInvInit, WagoInvStep, PTL DEF WagoSpec
=============================================================================
