---------------------------- MODULE Protocols_proof ----------------------------
(* What is proved of a serial line's settings, of a slave's registers, of a   *)
(* listener and of a controller's modules holds in the manager made from any  *)
(* file, whose protocol decides which of them there is.                       *)
EXTENDS Protocols, NmeaLine_proof, WagoModules_proof

-----------------------------------------------------------------------------
(* The settings of a serial line *)

(* The flags are the ones the model knows, and some line is asked for.  What  *)
(* an open line must be needs no memory beyond the flags it was opened with.  *)
PortInv ==
    /\ asked \in Lines
    /\ before \subseteq Flags
    /\ LineAsAsked

(* setupIO on its own: whatever flags the line comes with, it leaves those    *)
(* that the settings name, and CSTOPB if it was there or is asked for.        *)
LEMMA SetUp ==
    ASSUME asked \in Lines, NEW f \in SUBSET Flags
    PROVE  LET g == SetupIO(f)
           IN  /\ g \subseteq Flags
               /\ {"CS8", "CREAD", "CLOCAL"} \subseteq g /\ g \cap {"CRTSCTS", "IXON"} = {}
               /\ asked.parity # "none" <=> "PARENB" \in g
               /\ asked.parity # "none" => "INPCK" \in g /\ "IGNPAR" \notin g
               /\ asked.parity # "none" => (asked.parity = "odd" <=> "PARODD" \in g)
               /\ "CSTOPB" \in g <=> asked.stopBits = 2 \/ "CSTOPB" \in f
<1>0. asked.parity \in {"none", "even", "odd"}
  BY LinesAssumption
<1>1. CASE asked.parity = "none"
  <2>1. WithParity(MakeRaw(f)) = MakeRaw(f) \ {"PARENB"}
    BY <1>1 DEF WithParity
  <2>. QED  BY <1>1, <2>1 DEF SetupIO, MakeRaw, Flags
<1>2. CASE asked.parity = "even"
  <2>1. WithParity(MakeRaw(f)) = (MakeRaw(f) \ {"PARODD", "IGNPAR"}) \cup {"PARENB", "INPCK"}
    BY <1>2 DEF WithParity
  <2>. QED  BY <1>2, <2>1 DEF SetupIO, MakeRaw, Flags
<1>3. CASE asked.parity = "odd"
  <2>1. WithParity(MakeRaw(f)) = (MakeRaw(f) \ {"IGNPAR"}) \cup {"PARODD", "PARENB", "INPCK"}
    BY <1>3 DEF WithParity
  <2>. QED  BY <1>3, <2>1 DEF SetupIO, MakeRaw, Flags
<1>. QED  BY <1>0, <1>1, <1>2, <1>3

LEMMA PortInvInit == PortInit => PortInv
BY DEF PortInit, PortInv, LineAsAsked, Flags

LEMMA PortInvStep == PortInv /\ [PortNext]_portVars => PortInv'
<1> SUFFICES ASSUME PortInv, [PortNext]_portVars PROVE PortInv'
  OBVIOUS
<1>1. CASE OpenLine
  <2>1. flags' = SetupIO(flags) /\ before' = flags /\ asked' = asked /\ speed' = asked.baudRate
    BY <1>1 DEF OpenLine
  <2>. QED  BY <2>1, SetUp DEF PortInv, LineAsAsked
<1>2. CASE OpenFails
  BY <1>2 DEF OpenFails, PortInv, LineAsAsked
<1>3. CASE Restart
  BY <1>3 DEF Restart, PortInv, LineAsAsked
<1>4. CASE UNCHANGED portVars
  BY <1>4 DEF portVars, PortInv, LineAsAsked
<1>. QED  BY <1>1, <1>2, <1>3, <1>4 DEF PortNext

(* Over any number of restarts with any settings, an open line has the speed, *)
(* the parity and the flags the constructor of Connection was asked for, and  *)
(* two stop bits if they were asked for or were left by an earlier user.      *)
THEOREM LineSetUp == PortSpec => []LineAsAsked
<1>1. PortInv => LineAsAsked
  BY DEF PortInv
<1>. QED  BY <1>1, PortInvInit, PortInvStep, PTL DEF PortSpec

-----------------------------------------------------------------------------
(* Folds *)

LEMMA Largest ==
    ASSUME NEW n \in Nat, NEW m \in SUBSET (1..n), m # {}
    PROVE  /\ Max(m) \in m /\ \A y \in m : y <= Max(m)
           /\ \A x \in m : (\A y \in m : y <= x) => x = Max(m)
<1>. DEFINE B == {b \in Nat : \A y \in m : y <= b}
<1>1. n \in B
  OBVIOUS
<1>2. PICK b \in B : \A c \in B : b <= c
  BY <1>1, Smallest
<1>3. b \in m
  <2> SUFFICES ASSUME b \notin m PROVE FALSE
    OBVIOUS
  <2>1. \A y \in m : y <= b - 1 /\ y \in Nat
    OBVIOUS
  <2>2. \E y \in m : y \in 1..n
    OBVIOUS
  <2>3. b - 1 \in Nat
    BY <2>1, <2>2
  <2>4. b - 1 \in B
    BY <2>1, <2>3
  <2>5. b \in Nat /\ b <= b - 1
    BY <1>2, <2>4
  <2>. QED  BY <2>5
<1>4. \A y \in m : b >= y
  OBVIOUS
<1>5. Max(m) \in m /\ \A y \in m : Max(m) >= y
  BY <1>3, <1>4 DEF Max
<1>6. \A y \in m : y \in Nat
  OBVIOUS
<1>7. PICK a \in m : a = Max(m)
  BY <1>5
<1>8. \A y \in m : y <= a
  BY <1>5, <1>6, <1>7
<1>9. ASSUME NEW x \in m, \A y \in m : y <= x PROVE x = a
  <2>1. a <= x /\ x <= a /\ a \in Nat /\ x \in Nat
    BY <1>6, <1>8, <1>9
  <2>. QED  BY <2>1
<1>. QED  BY <1>7, <1>8, <1>9

(* A value folded over a set of places, the last place last.                  *)
Iterates(it, n, base, step) ==
    it = [m \in SUBSET (1..n) |-> IF m = {} THEN base ELSE step[<<it[m \ {Max(m)}], Max(m)>>]]

LEMMA IteratesLonger ==
    ASSUME NEW N \in Nat, NEW A, NEW base \in A, NEW step \in [A \X (1..N) -> A],
           NEW n \in 0..(N - 1), NEW h \in [SUBSET (1..n) -> A], Iterates(h, n, base, step)
    PROVE  \E g \in [SUBSET (1..(n + 1)) -> A] : Iterates(g, n + 1, base, step)
<1>. DEFINE g == [m \in SUBSET (1..(n + 1)) |->
                     IF n + 1 \in m THEN step[<<h[m \ {n + 1}], n + 1>>] ELSE h[m]]
<1>1. /\ n \in Nat /\ n + 1 \in Nat /\ n + 1 \in 1..N
      /\ \A m \in SUBSET (1..(n + 1)) : m \ {n + 1} \in SUBSET (1..n) /\ (n + 1 \notin m => m \in SUBSET (1..n))
  OBVIOUS
<1>2. g \in [SUBSET (1..(n + 1)) -> A]
  BY <1>1
<1>3. ASSUME NEW m \in SUBSET (1..(n + 1))
      PROVE  g[m] = IF m = {} THEN base ELSE step[<<g[m \ {Max(m)}], Max(m)>>]
  <2>1. CASE m = {}
    <3>1. g[m] = h[m]
      BY <2>1
    <3>. QED  BY <1>1, <2>1, <3>1 DEF Iterates
  <2>2. CASE n + 1 \in m
    <3>1. \A y \in m : y <= n + 1
      BY <1>1
    <3>2. Max(m) = n + 1
      BY <1>1, <2>2, <3>1, Largest
    <3>3. g[m \ {n + 1}] = h[m \ {n + 1}]
      OBVIOUS
    <3>. QED  BY <2>2, <3>2, <3>3
  <2>3. CASE m # {} /\ n + 1 \notin m
    <3>1. m \in SUBSET (1..n) /\ Max(m) \in m
      BY <1>1, <2>3, Largest
    <3>2. g[m] = h[m] /\ g[m \ {Max(m)}] = h[m \ {Max(m)}]
      BY <2>3
    <3>. QED  BY <2>3, <3>1, <3>2 DEF Iterates
  <2>. QED  BY <2>1, <2>2, <2>3
<1>4. Iterates(g, n + 1, base, step)
  <2>1. g = [m \in SUBSET (1..(n + 1)) |-> g[m]]
    OBVIOUS
  <2>. HIDE DEF g
  <2>. QED  BY <1>3, <2>1 DEF Iterates
<1>. QED  BY <1>2, <1>4

LEMMA IteratesExist ==
    ASSUME NEW N \in Nat, NEW A, NEW base \in A, NEW step \in [A \X (1..N) -> A]
    PROVE  \E g \in [SUBSET (1..N) -> A] : Iterates(g, N, base, step)
<1>. DEFINE Can(n) == \E g \in [SUBSET (1..n) -> A] : Iterates(g, n, base, step)
            Bad == {n \in Nat : n <= N /\ ~ Can(n)}
<1> SUFFICES ASSUME Bad # {} PROVE FALSE
  <2>1. N \in Nat /\ N <= N
    OBVIOUS
  <2>. QED  BY <2>1
<1>1. PICK n \in Bad : \A l \in Bad : n <= l
  BY Smallest
<1>2. n \in Nat /\ n <= N /\ ~ Can(n)
  BY <1>1
<1>3. n # 0
  <2>1. SUBSET (1..0) = {{}}
    OBVIOUS
  <2>2. [m \in {{}} |-> base] \in [SUBSET (1..0) -> A]
    BY <2>1
  <2>3. Iterates([m \in {{}} |-> base], 0, base, step)
    BY <2>1 DEF Iterates
  <2>4. Can(0)
    BY <2>2, <2>3
  <2>. HIDE DEF Can
  <2>. QED  BY <1>2, <2>4
<1>4. n - 1 \in Nat /\ n - 1 \in 0..(N - 1) /\ (n - 1) + 1 = n /\ n - 1 <= N /\ ~ (n <= n - 1)
  BY <1>2, <1>3
<1>5. Can(n - 1)
  <2>. HIDE DEF Can
  <2>. QED  BY <1>1, <1>4
<1>6. Can((n - 1) + 1)
  BY <1>4, <1>5, IteratesLonger
<1>. HIDE DEF Can
<1>. QED  BY <1>2, <1>4, <1>6

(* The value at the k-th place comes from the one before.                     *)
LEMMA UpToLast ==
    ASSUME NEW n \in Nat, NEW k \in 1..n
    PROVE  1..k \in SUBSET (1..n) /\ 1..k # {} /\ Max(1..k) = k /\ (1..k) \ {k} = 1..(k - 1)
<1>1. 1..k \in SUBSET (1..n) /\ k \in 1..k /\ \A y \in 1..k : y <= k
  OBVIOUS
<1>2. (1..k) \ {k} = 1..(k - 1)
  OBVIOUS
<1>. QED  BY <1>1, <1>2, Largest

-----------------------------------------------------------------------------
(* Sums of words *)

Sums(c, s, n) ==
    /\ c \in [0..n -> Nat] /\ c[0] = 0
    /\ \A k \in 1..n : c[k] = c[k - 1] + Words(s[k])

LEMMA WordCountIs ==
    ASSUME NEW s, NEW n \in Nat, DOMAIN s = 1..n, \A k \in 1..n : Words(s[k]) \in Nat
    PROVE  \E c : Sums(c, s, n) /\ WordCount(s) = c[n]
<1>. DEFINE step == [x \in Nat \X (1..n) |-> x[1] + Words(s[x[2]])]
            Is(it) == it = [m \in SUBSET (1..n) |-> IF m = {} THEN 0
                               ELSE it[m \ {Max(m)}] + Words(s[Max(m)])]
<1>1. step \in [Nat \X (1..n) -> Nat]
  <2>1. \A x \in Nat \X (1..n) : x[1] \in Nat /\ Words(s[x[2]]) \in Nat
    OBVIOUS
  <2>2. \A x \in Nat \X (1..n) : x[1] + Words(s[x[2]]) \in Nat
    BY <2>1
  <2>. QED  BY <2>2
<1>2. PICK h \in [SUBSET (1..n) -> Nat] : Iterates(h, n, 0, step)
  <2>1. 0 \in Nat
    OBVIOUS
  <2>. HIDE DEF step
  <2>. QED  BY <1>1, <2>1, IteratesExist
<1>3. Is(h)
  <2>1. ASSUME NEW m \in SUBSET (1..n), m # {}
        PROVE  step[<<h[m \ {Max(m)}], Max(m)>>] = h[m \ {Max(m)}] + Words(s[Max(m)])
    <3>1. Max(m) \in 1..n /\ h[m \ {Max(m)}] \in Nat
      BY <2>1, Largest
    <3>. QED  BY <3>1
  <2>. HIDE DEF step
  <2>. QED  BY <1>2, <2>1 DEF Iterates
<1>4. PICK it : Is(it) /\ WordCount(s) = it[1..n]
  BY <1>3 DEF WordCount, FoldLeft, MapThenFoldSet
<1>. DEFINE c == [k \in 0..n |-> it[1..k]]
<1>5. c[0] = 0
  <2>1. 1..0 = {}
    OBVIOUS
  <2>. QED  BY <1>4, <2>1
<1>6. \A k \in 1..n : c[k] = c[k - 1] + Words(s[k])
  <2> SUFFICES ASSUME NEW k \in 1..n PROVE c[k] = c[k - 1] + Words(s[k])
    OBVIOUS
  <2>1. c[k] = it[1..k] /\ c[k - 1] = it[1..(k - 1)]
    OBVIOUS
  <2>2. 1..k \in SUBSET (1..n) /\ 1..k # {} /\ Max(1..k) = k /\ (1..k) \ {k} = 1..(k - 1)
    BY UpToLast
  <2>3. \A m \in SUBSET (1..n) : m # {} => it[m] = it[m \ {Max(m)}] + Words(s[Max(m)])
    BY <1>4
  <2>4. it[1..k] = it[(1..k) \ {Max(1..k)}] + Words(s[Max(1..k)])
    BY <2>2, <2>3
  <2>. HIDE DEF c
  <2>. QED  BY <2>1, <2>2, <2>4
<1>7. WordCount(s) = c[n]
  <2>1. c[n] = it[1..n]
    OBVIOUS
  <2>. QED  BY <1>4, <2>1
<1>. HIDE DEF c
<1>8. \A k \in 0..n : c[k] \in Nat
  <2>. DEFINE Bad == {k \in Nat : k <= n /\ c[k] \notin Nat}
  <2> SUFFICES ASSUME Bad # {} PROVE FALSE
    OBVIOUS
  <2>1. PICK k \in Bad : \A l \in Bad : k <= l
    BY Smallest
  <2>2. k # 0 /\ k \in 1..n /\ k - 1 \in Nat /\ k - 1 \notin Bad
    BY <1>5, <2>1
  <2>3. c[k - 1] \in Nat
    BY <2>2
  <2>. QED  BY <1>6, <2>1, <2>2, <2>3
<1>9. c \in [0..n -> Nat]
  <2>1. c = [k \in 0..n |-> c[k]]
    BY DEF c
  <2>. QED  BY <1>8, <2>1
<1>. QED  BY <1>5, <1>6, <1>7, <1>9 DEF Sums

-----------------------------------------------------------------------------
(* The order of registers, and whether they overlap *)

(* p puts the numbers 1..n in the order of their values.                      *)
Sorts(p, values, n) ==
    /\ p \in [1..n -> 1..n]
    /\ \A i, j \in 1..n : p[i] = p[j] => i = j
    /\ \A k \in 1..n : \E i \in 1..n : p[i] = k
    /\ \A i, j \in 1..n : i < j => values[p[i]] <= values[p[j]]

(* Insertion: the n-th goes before the first that is larger.                  *)
LEMMA Inserted ==
    ASSUME NEW n \in Nat \ {0}, NEW values \in [1..n -> Nat], NEW p, Sorts(p, values, n - 1)
    PROVE  \E q : Sorts(q, values, n)
<1>. DEFINE Larger == {k \in Nat : k \in 1..n /\ (k = n \/ values[p[k]] > values[n])}
<1>1. PICK k \in Larger : \A l \in Larger : k <= l
  <2>1. n \in Larger
    OBVIOUS
  <2>. QED  BY <2>1, Smallest
<1>2. k \in 1..n /\ (k # n => values[p[k]] > values[n])
  BY <1>1
<1>3. \A l \in 1..(n - 1) : l < k => values[p[l]] <= values[n]
  <2> SUFFICES ASSUME NEW l \in 1..(n - 1), l < k PROVE values[p[l]] <= values[n]
    OBVIOUS
  <2>1. l \notin Larger /\ l \in Nat
    BY <1>1, <1>2
  <2>2. p[l] \in 1..(n - 1)
    BY DEF Sorts
  <2>3. values[p[l]] \in Nat /\ values[n] \in Nat
    BY <2>2
  <2>. QED  BY <2>1, <2>3
<1>. HIDE DEF Larger
<1>. DEFINE q == [i \in 1..n |-> IF i = k THEN n ELSE IF i < k THEN p[i] ELSE p[i - 1]]
<1>4. p \in [1..(n - 1) -> 1..(n - 1)]
  BY DEF Sorts
<1>5. ASSUME NEW i \in 1..n, i < k
      PROVE  i \in 1..(n - 1) /\ q[i] = p[i] /\ p[i] \in 1..(n - 1)
  <2>1. i \in 1..(n - 1) /\ i # k
    BY <1>2, <1>5
  <2>. QED  BY <1>4, <1>5, <2>1
<1>6. ASSUME NEW i \in 1..n, i > k
      PROVE  i - 1 \in 1..(n - 1) /\ q[i] = p[i - 1] /\ p[i - 1] \in 1..(n - 1)
  <2>1. i - 1 \in 1..(n - 1) /\ i # k /\ ~ (i < k)
    BY <1>2, <1>6
  <2>. QED  BY <1>4, <2>1
<1>7. q[k] = n
  BY <1>2
<1>8. q \in [1..n -> 1..n]
  <2>. HIDE DEF q
  <2>1. ASSUME NEW i \in 1..n PROVE q[i] \in 1..n
    <3>1. i < k \/ i = k \/ i > k
      BY <1>2
    <3>. QED  BY <1>5, <1>6, <1>7, <3>1
  <2>2. q = [i \in 1..n |-> q[i]]
    BY DEF q
  <2>. QED  BY <2>1, <2>2
<1>. HIDE DEF q
<1>9. \A i, j \in 1..n : q[i] = q[j] => i = j
  <2>1. \A i, j \in 1..(n - 1) : p[i] = p[j] => i = j
    BY DEF Sorts
  <2>2. \A i \in 1..n : i # k => q[i] # n
    BY <1>2, <1>5, <1>6
  <2>3. ASSUME NEW i \in 1..n, NEW j \in 1..n, q[i] = q[j], i # k, j # k PROVE i = j
    <3>1. CASE i < k /\ j < k
      BY <1>5, <2>1, <2>3, <3>1
    <3>2. CASE i > k /\ j > k
      BY <1>6, <2>1, <2>3, <3>2
    <3>3. CASE i < k /\ j > k
      BY <1>2, <1>5, <1>6, <2>1, <2>3, <3>3
    <3>4. CASE i > k /\ j < k
      BY <1>2, <1>5, <1>6, <2>1, <2>3, <3>4
    <3>. QED  BY <1>2, <2>3, <3>1, <3>2, <3>3, <3>4
  <2>. QED  BY <1>7, <2>2, <2>3
<1>10. \A m \in 1..n : \E i \in 1..n : q[i] = m
  <2> SUFFICES ASSUME NEW m \in 1..n, m # n PROVE \E i \in 1..n : q[i] = m
    BY <1>2, <1>7
  <2>1. PICK i \in 1..(n - 1) : p[i] = m
    BY DEF Sorts
  <2>2. CASE i < k
    BY <1>5, <2>1, <2>2
  <2>3. CASE i >= k
    <3>1. i + 1 \in 1..n /\ i + 1 > k /\ (i + 1) - 1 = i
      BY <1>2, <2>3
    <3>. QED  BY <1>6, <2>1, <3>1
  <2>. QED  BY <1>2, <2>2, <2>3
<1>11. \A i, j \in 1..n : i < j => values[q[i]] <= values[q[j]]
  <2> SUFFICES ASSUME NEW i \in 1..n, NEW j \in 1..n, i < j PROVE values[q[i]] <= values[q[j]]
    OBVIOUS
  <2>1. \A x, y \in 1..(n - 1) : x < y => values[p[x]] <= values[p[y]]
    BY DEF Sorts
  <2>2. ASSUME NEW x \in 1..(n - 1) PROVE values[p[x]] \in Nat
    <3>1. p[x] \in 1..(n - 1)
      BY <1>4
    <3>. QED  BY <3>1
  <2>3. CASE j < k
    <3>1. i < k
      BY <1>2, <2>3
    <3>. QED  BY <1>5, <2>1, <2>3, <3>1
  <2>4. CASE j = k
    BY <1>3, <1>5, <1>7, <2>4
  <2>5. CASE i > k
    <3>1. j > k /\ i - 1 < j - 1
      BY <1>2, <2>5
    <3>. QED  BY <1>6, <2>1, <2>5, <3>1
  <2>6. CASE i < k /\ j > k
    <3>1. i \in 1..(n - 1) /\ j - 1 \in 1..(n - 1) /\ (i < j - 1 \/ i = j - 1)
      BY <1>2, <2>6
    <3>2. values[p[i]] <= values[p[j - 1]]
      BY <2>1, <2>2, <3>1
    <3>. QED  BY <1>5, <1>6, <2>6, <3>2
  <2>7. CASE i = k
    <3>1. k \in 1..(n - 1) /\ j - 1 \in 1..(n - 1) /\ (k < j - 1 \/ k = j - 1)
      BY <1>2, <2>7
    <3>2. values[p[k]] <= values[p[j - 1]] /\ values[p[k]] > values[n]
      BY <1>2, <2>1, <2>2, <3>1
    <3>3. values[p[k]] \in Nat /\ values[p[j - 1]] \in Nat /\ values[n] \in Nat
      BY <2>2, <3>1
    <3>4. values[q[i]] = values[n] /\ values[q[j]] = values[p[j - 1]]
      BY <1>6, <1>7, <2>7
    <3>. QED  BY <3>2, <3>3, <3>4
  <2>. QED  BY <1>2, <2>3, <2>4, <2>5, <2>6, <2>7
<1>. QED  BY <1>8, <1>9, <1>10, <1>11 DEF Sorts

LEMMA SortExists ==
    ASSUME NEW n \in Nat, NEW values \in [1..n -> Nat]
    PROVE  \E p : Sorts(p, values, n)
<1>. DEFINE T == {m \in Nat : m <= n /\ ~ \E p : Sorts(p, [i \in 1..m |-> values[i]], m)}
<1> SUFFICES ASSUME T # {} PROVE FALSE
  <2>1. n \notin T => \E p : Sorts(p, [i \in 1..n |-> values[i]], n)
    OBVIOUS
  <2>2. [i \in 1..n |-> values[i]] = values
    OBVIOUS
  <2>. QED  BY <2>1, <2>2
<1>1. PICK m \in T : \A l \in T : m <= l
  BY Smallest
<1>2. m \in Nat /\ m <= n /\ ~ \E p : Sorts(p, [i \in 1..m |-> values[i]], m)
  BY <1>1
<1>3. m # 0
  <2>1. Sorts([i \in 1..0 |-> i], [i \in 1..0 |-> values[i]], 0)
    BY DEF Sorts
  <2>. QED  BY <1>2, <2>1
<1>4. PICK p : Sorts(p, [i \in 1..(m - 1) |-> values[i]], m - 1)
  <2>1. m - 1 \in Nat /\ ~ (m <= m - 1) /\ m - 1 <= n
    BY <1>2, <1>3
  <2>. QED  BY <1>1, <2>1
<1>. HIDE DEF T
<1>. DEFINE v == [i \in 1..m |-> values[i]]
<1>5. v \in [1..m -> Nat]
  BY <1>2
<1>6. Sorts(p, v, m - 1)
  <2>1. p \in [1..(m - 1) -> 1..(m - 1)]
    BY <1>4 DEF Sorts
  <2>2. \A i \in 1..(m - 1) : v[i] = values[i]
    BY <1>2
  <2>3. \A i \in 1..(m - 1) : v[p[i]] = [j \in 1..(m - 1) |-> values[j]][p[i]]
    BY <2>1, <2>2
  <2>. HIDE DEF v
  <2>. QED  BY <1>4, <2>1, <2>3 DEF Sorts
<1>7. \E q : Sorts(q, v, m)
  <2>. HIDE DEF v
  <2>. QED  BY <1>2, <1>3, <1>5, <1>6, Inserted
<1>. QED  BY <1>2, <1>7

-----------------------------------------------------------------------------
(* Registers *)

IsTable(t) == /\ t \in Seq(Range(t))
              /\ \A r \in Range(t) : r.address \in Nat /\ Permutes(r.order)

LEMMA TableSorts ==
    ASSUME NEW t, IsTable(t)
    PROVE  /\ Len(t) \in Nat /\ DOMAIN t = 1..Len(t)
           /\ \A i \in DOMAIN t : t[i].address \in Nat /\ Words(t[i]) \in Nat \ {0}
<1>1. Len(t) \in Nat /\ DOMAIN t = 1..Len(t)
  BY LenProperties DEF IsTable
<1>2. ASSUME NEW i \in DOMAIN t PROVE t[i].address \in Nat /\ Words(t[i]) \in Nat \ {0}
  <2>1. t[i].address \in Nat /\ Len(t[i].order) \in {2, 4, 8}
    BY DEF IsTable, Permutes, Range
  <2>2. \A n \in {2, 4, 8} : n \div 2 \in Nat \ {0}
    OBVIOUS
  <2>. QED  BY <2>1, <2>2 DEF Words
<1>. QED  BY <1>1, <1>2

(* std::sort finds an order, and it is one of the same registers.             *)
LEMMA InOrderIs ==
    ASSUME NEW t, IsTable(t)
    PROVE  /\ DOMAIN InOrder(t) = DOMAIN t /\ Len(InOrder(t)) = Len(t)
           /\ \A i, j \in DOMAIN t : i < j => InOrder(t)[i].address <= InOrder(t)[j].address
           /\ \E p \in Bijection(DOMAIN t, DOMAIN t) :
                 /\ InOrder(t) = [i \in DOMAIN t |-> t[p[i]]]
                 /\ \A i \in DOMAIN t : InOrder(t)[i] = t[p[i]]
<1>. DEFINE n == Len(t)
            Sorted(s) == \A i, j \in DOMAIN s : i < j => s[i].address <= s[j].address
            values == [i \in 1..n |-> t[i].address]
<1>1. n \in Nat /\ DOMAIN t = 1..n /\ values \in [1..n -> Nat]
  BY TableSorts
<1>2. PICK p : Sorts(p, values, n)
  <2>. HIDE DEF values
  <2>. QED  BY <1>1, SortExists
<1>3. p \in Bijection(1..n, 1..n) /\ p \in [1..n -> 1..n]
  <2>1. p \in Injection(1..n, 1..n)
    BY <1>2 DEF Sorts, Injection, IsInjective
  <2>2. p \in Surjection(1..n, 1..n)
    BY <1>2 DEF Sorts, Surjection
  <2>. QED  BY <1>2, <2>1, <2>2 DEF Bijection, Sorts
<1>. DEFINE s == [i \in DOMAIN t |-> t[p[i]]]
<1>4. s \in Arrangements(t)
  BY <1>1, <1>3 DEF Arrangements
<1>5. Sorted(s)
  <2> SUFFICES ASSUME NEW i \in 1..n, NEW j \in 1..n, i < j PROVE s[i].address <= s[j].address
    BY <1>1
  <2>1. values[p[i]] <= values[p[j]] /\ p[i] \in 1..n /\ p[j] \in 1..n
    BY <1>2, <1>3 DEF Sorts
  <2>. QED  BY <1>1, <2>1
<1>6. InOrder(t) \in Arrangements(t) /\ Sorted(InOrder(t))
  <2>. HIDE DEF s
  <2>. QED  BY <1>4, <1>5 DEF InOrder
<1>7. PICK q \in Bijection(DOMAIN t, DOMAIN t) : InOrder(t) = [i \in DOMAIN t |-> t[q[i]]]
  BY <1>6 DEF Arrangements
<1>8. DOMAIN InOrder(t) = 1..n
  BY <1>1, <1>7
<1>9. Len(InOrder(t)) = n
  <2>1. InOrder(t) \in [1..n -> Range(InOrder(t))]
    <3>1. InOrder(t) = [i \in 1..n |-> InOrder(t)[i]]
      BY <1>1, <1>7
    <3>. QED  BY <1>8, <3>1 DEF Range
  <2>. QED  BY <1>1, <2>1
<1>. QED  BY <1>1, <1>6, <1>7, <1>8, <1>9

LEMMA Spans ==
    ASSUME NEW l, l.address \in Nat, Words(l) \in Nat \ {0},
           NEW r, r.address \in Nat, Words(r) \in Nat \ {0}, l.address <= r.address
    PROVE  Span(l) \cap Span(r) = {} <=> l.address + Words(l) <= r.address
<1>1. PICK a \in Nat, v \in Nat \ {0} : a = l.address /\ v = Words(l)
  OBVIOUS
<1>2. PICK b \in Nat, w \in Nat \ {0} : b = r.address /\ w = Words(r)
  OBVIOUS
<1>3. Span(l) = a..(a + v - 1) /\ Span(r) = b..(b + w - 1) /\ a <= b
  BY <1>1, <1>2 DEF Span
<1>4. a + v <= b => (a..(a + v - 1)) \cap (b..(b + w - 1)) = {}
  OBVIOUS
<1>5. ~ (a + v <= b) => b \in a..(a + v - 1) /\ b \in b..(b + w - 1)
  BY <1>3
<1>. QED  BY <1>1, <1>2, <1>3, <1>4, <1>5

(* Comparing neighbours finds every overlap, and no other.                    *)
LEMMA SpacingRight ==
    ASSUME NEW t, IsTable(t)
    PROVE  Spacing(t) <=> \A i, j \in DOMAIN t : i # j => Span(t[i]) \cap Span(t[j]) = {}
<1>. DEFINE s == InOrder(t)
            n == Len(t)
<1>1. /\ n \in Nat /\ DOMAIN t = 1..n /\ DOMAIN s = 1..n /\ Len(s) = n
      /\ \A i, j \in 1..n : i < j => s[i].address <= s[j].address
  BY TableSorts, InOrderIs
<1>2. PICK p \in Bijection(1..n, 1..n) : \A i \in 1..n : s[i] = t[p[i]]
  BY <1>1, InOrderIs
<1>3. /\ \A i \in 1..n : p[i] \in 1..n
      /\ \A i, j \in 1..n : p[i] = p[j] => i = j
      /\ \A k \in 1..n : \E i \in 1..n : p[i] = k
  BY <1>2 DEF Bijection, Injection, IsInjective, Surjection
<1>4. \A i \in 1..n : s[i].address \in Nat /\ Words(s[i]) \in Nat \ {0}
  <2> SUFFICES ASSUME NEW i \in 1..n PROVE s[i].address \in Nat /\ Words(s[i]) \in Nat \ {0}
    OBVIOUS
  <2>1. p[i] \in DOMAIN t /\ s[i] = t[p[i]]
    BY <1>1, <1>2, <1>3
  <2>2. t[p[i]].address \in Nat /\ Words(t[p[i]]) \in Nat \ {0}
    BY <2>1, TableSorts
  <2>. QED  BY <2>1, <2>2
<1>6. Spacing(t) <=> \A i \in 1..(n - 1) : s[i].address + Words(s[i]) <= s[i + 1].address
  BY <1>1 DEF Spacing
<1>. HIDE DEF s, n
<1>7. ASSUME Spacing(t), NEW i \in 1..n, NEW j \in 1..n, i < j
      PROVE  Span(s[i]) \cap Span(s[j]) = {}
  <2>1. i \in 1..(n - 1) /\ i + 1 \in 1..n /\ (i + 1 < j \/ i + 1 = j)
    BY <1>1, <1>7
  <2>2. s[i].address + Words(s[i]) <= s[i + 1].address
    BY <1>6, <1>7, <2>1
  <2>3. s[i].address \in Nat /\ Words(s[i]) \in Nat /\ s[j].address \in Nat /\ s[i + 1].address \in Nat
    BY <1>4, <2>1
  <2>4. s[i + 1].address <= s[j].address
    <3>1. CASE i + 1 < j
      BY <1>1, <2>1, <3>1
    <3>2. CASE i + 1 = j
      BY <2>3, <3>2
    <3>. QED  BY <2>1, <3>1, <3>2
  <2>5. s[i].address + Words(s[i]) <= s[j].address
    BY <2>2, <2>3, <2>4
  <2>6. s[i].address <= s[j].address
    BY <1>1, <1>7
  <2>. QED  BY <1>4, <2>5, <2>6, Spans
<1>8. ASSUME Spacing(t), NEW i \in 1..n, NEW j \in 1..n, i # j
      PROVE  Span(t[i]) \cap Span(t[j]) = {}
  <2>1. PICK k \in 1..n, l \in 1..n : p[k] = i /\ p[l] = j
    BY <1>3
  <2>2. t[i] = s[k] /\ t[j] = s[l] /\ (k < l \/ l < k)
    BY <1>2, <1>8, <2>1
  <2>3. Span(s[k]) \cap Span(s[l]) = {}
    BY <1>7, <1>8, <2>2
  <2>. QED  BY <2>2, <2>3
<1>9. ASSUME ~ Spacing(t) PROVE \E i, j \in 1..n : i # j /\ Span(t[i]) \cap Span(t[j]) # {}
  <2>1. PICK i \in 1..(n - 1) : ~ (s[i].address + Words(s[i]) <= s[i + 1].address)
    BY <1>6, <1>9
  <2>2. i \in 1..n /\ i + 1 \in 1..n /\ i # i + 1 /\ i < i + 1
    BY <1>1
  <2>3. s[i].address <= s[i + 1].address
    BY <1>1, <2>2
  <2>4. Span(s[i]) \cap Span(s[i + 1]) # {}
    BY <1>4, <2>1, <2>2, <2>3, Spans
  <2>5. p[i] # p[i + 1] /\ p[i] \in 1..n /\ p[i + 1] \in 1..n /\ s[i] = t[p[i]] /\ s[i + 1] = t[p[i + 1]]
    BY <1>2, <1>3, <2>2
  <2>. QED  BY <2>4, <2>5
<1>. QED  BY <1>1, <1>8, <1>9 DEF n

(* A slave has two tables of registers, and is refused when one is not        *)
(* spaced.                                                                    *)
CodecInv ==
    /\ IsTable(slave.input) /\ IsTable(slave.output)
    /\ stage # "config" => (stage = "refused" <=> ~ (Spacing(slave.input) /\ Spacing(slave.output)))

LEMMA SpacingFromInv == CodecInv => SpacingExact
<1> SUFFICES ASSUME CodecInv, stage # "config"
             PROVE  stage = "refused" <=>
                      \E t \in {"input", "output"} : \E i, j \in DOMAIN Table(t) :
                          i # j /\ Span(Table(t)[i]) \cap Span(Table(t)[j]) # {}
  BY DEF SpacingExact
<1>1. Table("input") = slave.input /\ Table("output") = slave.output
  BY DEF Table
<1>2. \A t \in {"input", "output"} : IsTable(Table(t))
  BY <1>1 DEF CodecInv
<1>3. \A t \in {"input", "output"} :
         Spacing(Table(t)) <=> ~ \E i, j \in DOMAIN Table(t) :
                                    i # j /\ Span(Table(t)[i]) \cap Span(Table(t)[j]) # {}
  BY <1>2, SpacingRight
<1>. QED  BY <1>1, <1>3 DEF CodecInv

LEMMA CodecInvInit == CodecInit => CodecInv
<1>. SUFFICES ASSUME CodecInit PROVE CodecInv
  OBVIOUS
<1>1. slave \in Slaves /\ stage = "config"
  BY DEF CodecInit
<1>. QED  BY <1>1, CodecAssumption DEF CodecInv, IsTable

LEMMA NoSlaveInv ==
    ASSUME slave = [input |-> <<>>, output |-> <<>>], stage = "none"
    PROVE  CodecInv
<1>1. IsTable(<<>>)
  BY EmptySeq DEF IsTable, Range
<1>2. Spacing(<<>>)
  <2>1. DOMAIN <<>> = {}
    BY EmptySeq
  <2>. QED  BY <1>1, <2>1, SpacingRight
<1>. QED  BY <1>1, <1>2 DEF CodecInv

LEMMA CodecInvStep == CodecInv /\ [CodecNext]_codecVars => CodecInv'
<1>. SUFFICES ASSUME CodecInv, [CodecNext]_codecVars PROVE CodecInv'
  OBVIOUS
<1>1. CASE Configure
  BY <1>1 DEF Configure, CodecInv
<1>2. CASE MakePlan
  BY <1>2 DEF MakePlan, CodecInv
<1>3. CASE Exchange
  BY <1>3 DEF Exchange, CodecInv
<1>4. CASE Finish
  BY <1>4 DEF Finish, CodecInv
<1>5. CASE UNCHANGED codecVars
  BY <1>5 DEF codecVars, CodecInv
<1>. QED  BY <1>1, <1>2, <1>3, <1>4, <1>5 DEF CodecNext

-----------------------------------------------------------------------------
(* Groups of adjacent registers *)

(* The groups gs are the first k registers of s, cut from[g]..to[g] where the *)
(* next is not adjacent and only there.                                       *)
Grouped(gs, s, k, n, from, to) ==
    /\ n \in Nat /\ from \in [1..n -> 1..k] /\ to \in [1..n -> 1..k]
    /\ Len(gs) = n
    /\ \A g \in 1..n :
          /\ from[g] <= to[g] /\ Len(gs[g]) = to[g] - from[g] + 1
          /\ \A i \in from[g]..to[g] : gs[g][i - from[g] + 1] = s[i]
          /\ \A i \in from[g]..(to[g] - 1) : Adjacent(s[i], s[i + 1])
    /\ \A g \in 1..(n - 1) : from[g + 1] = to[g] + 1 /\ ~ Adjacent(s[to[g]], s[from[g + 1]])
    /\ n = 0 <=> k = 0
    /\ n # 0 => from[1] = 1 /\ to[n] = k

LEMMA JoinSorts ==
    ASSUME NEW R, NEW gs \in Seq(Seq(R)), NEW r \in R
    PROVE  Join(gs, r) \in Seq(Seq(R))
<1>1. <<r>> \in Seq(R)
  OBVIOUS
<1>2. Append(gs, <<r>>) \in Seq(Seq(R))
  BY <1>1, AppendProperties
<1>3. CASE gs # <<>>
  <2>1. Len(gs) \in Nat \ {0}
    BY <1>3, LenProperties, EmptySeq
  <2>2. Last(gs) \in Seq(R)
    BY <2>1, ElementOfSeq DEF Last
  <2>3. Append(Last(gs), r) \in Seq(R)
    BY <2>2, AppendProperties
  <2>4. <<Append(Last(gs), r)>> \in Seq(Seq(R))
    BY <2>3
  <2>5. Front(gs) \in Seq(Seq(R))
    BY <1>3, FrontIs
  <2>6. Front(gs) \o <<Append(Last(gs), r)>> \in Seq(Seq(R))
    BY <2>4, <2>5, ConcatProperties
  <2>. QED  BY <1>2, <2>6 DEF Join
<1>4. CASE gs = <<>>
  BY <1>2, <1>4 DEF Join
<1>. QED  BY <1>3, <1>4

(* A register that is not adjacent to the last begins a group of its own.     *)
LEMMA JoinNew ==
    ASSUME NEW R, NEW s \in Seq(R), NEW k \in Nat, k + 1 \in 1..Len(s), NEW gs \in Seq(Seq(R)),
           NEW n, NEW from, NEW to, Grouped(gs, s, k, n, from, to),
           n # 0 => ~ Adjacent(s[k], s[k + 1])
    PROVE  \E f, t : Grouped(Append(gs, <<s[k + 1]>>), s, k + 1, n + 1, f, t)
<1>. DEFINE f == [g \in 1..(n + 1) |-> IF g = n + 1 THEN k + 1 ELSE from[g]]
            t == [g \in 1..(n + 1) |-> IF g = n + 1 THEN k + 1 ELSE to[g]]
            h == Append(gs, <<s[k + 1]>>)
<1>1. /\ n \in Nat /\ from \in [1..n -> 1..k] /\ to \in [1..n -> 1..k] /\ Len(gs) = n
      /\ n = 0 <=> k = 0
      /\ n # 0 => from[1] = 1 /\ to[n] = k
  BY DEF Grouped
<1>2. s[k + 1] \in R
  BY ElementOfSeq, LenProperties
<1>3. <<s[k + 1]>> \in Seq(R) /\ Len(<<s[k + 1]>>) = 1 /\ <<s[k + 1]>>[1] = s[k + 1]
  BY <1>2
<1>4. /\ Len(h) = n + 1 /\ \A g \in 1..n : h[g] = gs[g]
      /\ h[n + 1] = <<s[k + 1]>>
  BY <1>1, <1>3, AppendProperties
<1>5. \A g \in 1..(n + 1) : g # n + 1 => g \in 1..n
  BY <1>1
<1>6. f \in [1..(n + 1) -> 1..(k + 1)] /\ t \in [1..(n + 1) -> 1..(k + 1)]
  <2>1. k + 1 \in 1..(k + 1) /\ \A i \in 1..k : i \in 1..(k + 1)
    OBVIOUS
  <2>. QED  BY <1>1, <1>5, <2>1
<1>7. /\ f[n + 1] = k + 1 /\ t[n + 1] = k + 1
      /\ \A g \in 1..n : g # n + 1 /\ f[g] = from[g] /\ t[g] = to[g]
  BY <1>1
<1>. HIDE DEF f, t, h
<1>8. ASSUME NEW g \in 1..(n + 1)
      PROVE  /\ f[g] <= t[g] /\ Len(h[g]) = t[g] - f[g] + 1
             /\ \A i \in f[g]..t[g] : h[g][i - f[g] + 1] = s[i]
             /\ \A i \in f[g]..(t[g] - 1) : Adjacent(s[i], s[i + 1])
  <2>1. CASE g = n + 1
    <3>1. \A i \in (k + 1)..(k + 1) : i = k + 1 /\ i - (k + 1) + 1 = 1
      OBVIOUS
    <3>2. ~ \E i \in Nat : i \in (k + 1)..((k + 1) - 1)
      OBVIOUS
    <3>3. (k + 1) - (k + 1) + 1 = 1 /\ k + 1 <= k + 1
      OBVIOUS
    <3>4. \A i \in (k + 1)..((k + 1) - 1) : i \in Nat
      OBVIOUS
    <3>. QED  BY <1>3, <1>4, <1>7, <2>1, <3>1, <3>2, <3>3, <3>4
  <2>2. CASE g # n + 1
    <3>1. g \in 1..n /\ h[g] = gs[g] /\ f[g] = from[g] /\ t[g] = to[g]
      BY <1>4, <1>5, <1>7, <2>2
    <3>2. /\ from[g] <= to[g] /\ Len(gs[g]) = to[g] - from[g] + 1
          /\ \A i \in from[g]..to[g] : gs[g][i - from[g] + 1] = s[i]
          /\ \A i \in from[g]..(to[g] - 1) : Adjacent(s[i], s[i + 1])
      BY <3>1 DEF Grouped
    <3>. QED  BY <3>1, <3>2
  <2>. QED  BY <2>1, <2>2
<1>9. ASSUME NEW g \in 1..n PROVE f[g + 1] = t[g] + 1 /\ ~ Adjacent(s[t[g]], s[f[g + 1]])
  <2>1. CASE g = n
    BY <1>1, <1>7, <2>1
  <2>2. CASE g # n
    <3>1. g \in 1..(n - 1) /\ g + 1 \in 1..n
      BY <1>1, <2>2
    <3>. QED  BY <1>7, <3>1 DEF Grouped
  <2>. QED  BY <2>1, <2>2
<1>10. (n + 1) - 1 = n /\ n + 1 # 0 /\ k + 1 # 0 /\ n + 1 \in Nat
  BY <1>1
<1>11. f[1] = 1 /\ t[n + 1] = k + 1
  BY <1>1, <1>7
<1>12. Grouped(h, s, k + 1, n + 1, f, t)
  BY <1>4, <1>6, <1>8, <1>9, <1>10, <1>11 DEF Grouped
<1>. QED  BY <1>12 DEF h

(* One that is adjacent joins the last group.                                 *)
LEMMA JoinLast ==
    ASSUME NEW R, NEW s \in Seq(R), NEW k \in Nat, k + 1 \in 1..Len(s), NEW gs \in Seq(Seq(R)),
           NEW n, NEW from, NEW to, Grouped(gs, s, k, n, from, to),
           n # 0, Adjacent(s[k], s[k + 1])
    PROVE  \E t : Grouped(Front(gs) \o <<Append(Last(gs), s[k + 1])>>, s, k + 1, n, from, t)
<1>. DEFINE t == [g \in 1..n |-> IF g = n THEN k + 1 ELSE to[g]]
            l == Append(gs[n], s[k + 1])
            h == Front(gs) \o <<Append(Last(gs), s[k + 1])>>
<1>1. /\ n \in Nat \ {0} /\ from \in [1..n -> 1..k] /\ to \in [1..n -> 1..k] /\ Len(gs) = n
      /\ k # 0 /\ from[1] = 1 /\ to[n] = k
  BY DEF Grouped
<1>2. s[k + 1] \in R
  BY ElementOfSeq, LenProperties
<1>3. gs[n] \in Seq(R) /\ Last(gs) = gs[n]
  BY <1>1, ElementOfSeq DEF Last
<1>4. PICK a \in 1..k : a = from[n] /\ a <= k /\ Len(gs[n]) = k - a + 1
  <2>1. n \in 1..n
    BY <1>1
  <2>. QED  BY <1>1, <2>1 DEF Grouped
<1>5. /\ l \in Seq(R) /\ Len(l) = (k - a + 1) + 1
      /\ \A i \in 1..(k - a + 1) : l[i] = gs[n][i]
      /\ l[(k - a + 1) + 1] = s[k + 1]
  BY <1>2, <1>3, <1>4, AppendProperties
<1>6. Len(h) = n /\ (\A g \in 1..(n - 1) : h[g] = gs[g]) /\ h[n] = l
  <2>1. PICK fr \in Seq(Seq(R)) : fr = Front(gs) /\ Len(fr) = n - 1 /\ \A i \in 1..(n - 1) : fr[i] = gs[i]
    <3>1. gs # <<>>
      BY <1>1, EmptySeq
    <3>2. Len(gs) = n
      BY <1>1
    <3>. QED  BY <3>1, <3>2, FrontIs
  <2>2. PICK w \in Seq(Seq(R)) : w = <<l>> /\ Len(w) = 1 /\ w[1] = l
    <3>. HIDE DEF l
    <3>1. <<l>> \in Seq(Seq(R)) /\ Len(<<l>>) = 1 /\ <<l>>[1] = l
      BY <1>5
    <3>. QED  BY <3>1
  <2>3. h = fr \o w
    BY <1>3, <2>1, <2>2
  <2>4. /\ Len(fr \o w) = Len(fr) + Len(w)
        /\ \A i \in 1..(Len(fr) + Len(w)) : (fr \o w)[i] = IF i <= Len(fr) THEN fr[i] ELSE w[i - Len(fr)]
    BY ConcatProperties
  <2>5. (n - 1) + 1 = n /\ n \in 1..n /\ ~ (n <= n - 1) /\ n - (n - 1) = 1
        /\ \A g \in 1..(n - 1) : g \in 1..n /\ g <= n - 1
    BY <1>1
  <2>. HIDE DEF h, l
  <2>6. Len(h) = n /\ h[n] = w[n - (n - 1)]
    <3>1. Len(fr) + Len(w) = n
      BY <2>1, <2>2, <2>5
    <3>2. h[n] = IF n <= Len(fr) THEN fr[n] ELSE w[n - Len(fr)]
      BY <2>3, <2>4, <2>5, <3>1
    <3>. QED  BY <2>1, <2>3, <2>4, <2>5, <3>1, <3>2
  <2>7. ASSUME NEW g \in 1..(n - 1) PROVE h[g] = gs[g]
    <3>1. g \in 1..(Len(fr) + Len(w)) /\ g <= Len(fr)
      BY <2>1, <2>2, <2>5
    <3>. QED  BY <2>1, <2>3, <2>4, <3>1
  <2>. QED  BY <2>2, <2>5, <2>6, <2>7
<1>7. \A g \in 1..n : g # n => g \in 1..(n - 1)
  BY <1>1
<1>8. t \in [1..n -> 1..(k + 1)] /\ from \in [1..n -> 1..(k + 1)]
  <2>1. k + 1 \in 1..(k + 1) /\ \A i \in 1..k : i \in 1..(k + 1)
    OBVIOUS
  <2>. QED  BY <1>1, <1>7, <2>1
<1>9. t[n] = k + 1 /\ \A g \in 1..n : g # n => t[g] = to[g]
  BY <1>1
<1>. HIDE DEF t, h, l
<1>10. ASSUME NEW g \in 1..n
      PROVE  /\ from[g] <= t[g] /\ Len(h[g]) = t[g] - from[g] + 1
             /\ \A i \in from[g]..t[g] : h[g][i - from[g] + 1] = s[i]
             /\ \A i \in from[g]..(t[g] - 1) : Adjacent(s[i], s[i + 1])
  <2>1. CASE g = n
    <3>1. a <= k + 1 /\ (k - a + 1) + 1 = (k + 1) - a + 1
      OBVIOUS
    <3>2. ASSUME NEW i \in a..(k + 1) PROVE l[i - a + 1] = s[i]
      <4>1. CASE i = k + 1
        BY <1>5, <3>1, <4>1
      <4>2. CASE i # k + 1
        <5>1. i \in a..k /\ i - a + 1 \in 1..(k - a + 1)
          BY <4>2
        <5>2. gs[n][i - a + 1] = s[i]
          BY <1>1, <1>4, <2>1, <5>1 DEF Grouped
        <5>. QED  BY <1>5, <5>1, <5>2
      <4>. QED  BY <4>1, <4>2
    <3>3. ASSUME NEW i \in a..((k + 1) - 1) PROVE Adjacent(s[i], s[i + 1])
      <4>1. CASE i = k
        BY <4>1
      <4>2. CASE i # k
        <5>1. i \in a..(k - 1)
          BY <4>2
        <5>. QED  BY <1>1, <1>4, <2>1, <5>1 DEF Grouped
      <4>. QED  BY <4>1, <4>2
    <3>. QED  BY <1>4, <1>5, <1>6, <1>9, <2>1, <3>1, <3>2, <3>3
  <2>2. CASE g # n
    <3>1. h[g] = gs[g] /\ t[g] = to[g]
      BY <1>6, <1>7, <1>9, <2>2
    <3>2. /\ from[g] <= to[g] /\ Len(gs[g]) = to[g] - from[g] + 1
          /\ \A i \in from[g]..to[g] : gs[g][i - from[g] + 1] = s[i]
          /\ \A i \in from[g]..(to[g] - 1) : Adjacent(s[i], s[i + 1])
      BY DEF Grouped
    <3>. QED  BY <3>1, <3>2
  <2>. QED  BY <2>1, <2>2
<1>11. ASSUME NEW g \in 1..(n - 1) PROVE from[g + 1] = t[g] + 1 /\ ~ Adjacent(s[t[g]], s[from[g + 1]])
  <2>1. g \in 1..n /\ g # n
    BY <1>1
  <2>. QED  BY <1>9, <2>1 DEF Grouped
<1>12. Grouped(h, s, k + 1, n, from, t)
  <2>1. n # 0 /\ k + 1 # 0
    BY <1>1
  <2>. QED  BY <1>1, <1>6, <1>8, <1>9, <1>10, <1>11, <2>1 DEF Grouped
<1>. QED  BY <1>12 DEF h

LEMMA JoinGrouped ==
    ASSUME NEW R, NEW s \in Seq(R), NEW k \in Nat, k + 1 \in 1..Len(s), NEW gs \in Seq(Seq(R)),
           NEW n, NEW from, NEW to, Grouped(gs, s, k, n, from, to)
    PROVE  \E m, f, t : Grouped(Join(gs, s[k + 1]), s, k + 1, m, f, t)
<1>1. n \in Nat /\ Len(gs) = n /\ (n # 0 => gs # <<>>) /\ (n = 0 => gs = <<>>) /\ (n # 0 => to[n] = k)
  BY EmptySeq DEF Grouped
<1>2. ASSUME n # 0 PROVE Last(Last(gs)) = s[k]
  <2>1. Last(gs) = gs[n] /\ n \in 1..n
    BY <1>1, <1>2 DEF Last
  <2>2. PICK a \in 1..k : a = from[n] /\ a <= k /\ Len(gs[n]) = k - a + 1
    <3>1. from[n] \in 1..k
      BY <2>1 DEF Grouped
    <3>2. from[n] <= to[n] /\ Len(gs[n]) = to[n] - from[n] + 1
      BY <2>1 DEF Grouped
    <3>. QED  BY <1>1, <1>2, <3>1, <3>2
  <2>3. gs[n][k - a + 1] = s[k]
    <3>1. k \in a..k
      BY <2>2
    <3>. QED  BY <1>1, <1>2, <2>1, <2>2, <3>1 DEF Grouped
  <2>. QED  BY <2>1, <2>2, <2>3 DEF Last
<1>3. CASE n # 0 /\ Adjacent(s[k], s[k + 1])
  <2>1. Join(gs, s[k + 1]) = Front(gs) \o <<Append(Last(gs), s[k + 1])>>
    BY <1>1, <1>2, <1>3 DEF Join
  <2>. QED  BY <1>3, <2>1, JoinLast
<1>4. CASE ~ (n # 0 /\ Adjacent(s[k], s[k + 1]))
  <2>1. Join(gs, s[k + 1]) = Append(gs, <<s[k + 1]>>)
    BY <1>1, <1>2, <1>4 DEF Join
  <2>. QED  BY <1>4, <2>1, JoinNew
<1>. QED  BY <1>3, <1>4

LEMMA InOrderRow ==
    ASSUME NEW t, IsTable(t)
    PROVE  /\ InOrder(t) \in Seq(Range(t))
           /\ \A k \in DOMAIN t : InOrder(t)[k] \in Range(t)
           /\ \A r \in Range(t) : \E k \in DOMAIN t : InOrder(t)[k] = r
<1>1. Len(t) \in Nat /\ DOMAIN t = 1..Len(t)
  BY TableSorts
<1>2. PICK p \in Bijection(DOMAIN t, DOMAIN t) : /\ InOrder(t) = [i \in DOMAIN t |-> t[p[i]]]
                                               /\ \A i \in DOMAIN t : InOrder(t)[i] = t[p[i]]
  BY InOrderIs
<1>3. /\ \A i \in DOMAIN t : p[i] \in DOMAIN t
      /\ \A k \in DOMAIN t : \E i \in DOMAIN t : p[i] = k
  BY <1>2 DEF Bijection, Injection, Surjection
<1>4. \A k \in DOMAIN t : InOrder(t)[k] \in Range(t)
  BY <1>2, <1>3 DEF Range
<1>5. \A r \in Range(t) : \E k \in DOMAIN t : InOrder(t)[k] = r
  BY <1>2, <1>3 DEF Range
<1>6. InOrder(t) \in [1..Len(t) -> Range(t)]
  <2>1. InOrder(t) = [i \in 1..Len(t) |-> InOrder(t)[i]]
    BY <1>1, <1>2
  <2>. QED  BY <1>1, <1>4, <2>1
<1>. QED  BY <1>1, <1>4, <1>5, <1>6

LEMMA GroupsAre ==
    ASSUME NEW t, IsTable(t)
    PROVE  LET s == InOrder(t)
           IN  /\ Groups(t) \in Seq(Seq(Range(t)))
               /\ \E m, from, to : Grouped(Groups(t), s, Len(t), m, from, to)
<1>. DEFINE s == InOrder(t)
            n == Len(t)
            R == Range(t)
            A == Seq(Seq(R))
<1>1. n \in Nat /\ DOMAIN t = 1..n /\ DOMAIN s = 1..n /\ Len(s) = n
  BY TableSorts, InOrderIs
<1>2. s \in Seq(R) /\ \A k \in 1..n : s[k] \in R
  BY <1>1, InOrderRow
<1>. HIDE DEF s, R
<1>. DEFINE step == [x \in A \X (1..n) |-> Join(x[1], s[x[2]])]
            Is(it) == it = [m \in SUBSET (1..n) |-> IF m = {} THEN <<>>
                               ELSE Join(it[m \ {Max(m)}], s[Max(m)])]
<1>3. step \in [A \X (1..n) -> A]
  <2>1. \A x \in A \X (1..n) : x[1] \in A /\ s[x[2]] \in R
    BY <1>2
  <2>2. \A x \in A \X (1..n) : Join(x[1], s[x[2]]) \in A
    BY <2>1, JoinSorts
  <2>. QED  BY <2>2
<1>4. <<>> \in A
  OBVIOUS
<1>5. PICK h \in [SUBSET (1..n) -> A] : Iterates(h, n, <<>>, step)
  <2>. HIDE DEF step, A, n
  <2>. QED  BY <1>1, <1>3, <1>4, IteratesExist
<1>6. Is(h)
  <2>1. ASSUME NEW m \in SUBSET (1..n), m # {}
        PROVE  step[<<h[m \ {Max(m)}], Max(m)>>] = Join(h[m \ {Max(m)}], s[Max(m)])
    <3>1. Max(m) \in 1..n /\ h[m \ {Max(m)}] \in A
      BY <1>1, <2>1, Largest
    <3>. HIDE DEF A, n
    <3>. QED  BY <3>1
  <2>. HIDE DEF step, A
  <2>. QED  BY <1>5, <2>1 DEF Iterates
<1>7. PICK it : Is(it) /\ Groups(t) = it[1..n]
  BY <1>1, <1>6 DEF Groups, FoldLeft, MapThenFoldSet, s
<1>8. it[1..0] = <<>>
  <2>1. 1..0 = {}
    OBVIOUS
  <2>. QED  BY <1>7, <2>1
<1>9. ASSUME NEW k \in 1..n PROVE it[1..k] = Join(it[1..(k - 1)], s[k])
  <2>1. 1..k \in SUBSET (1..n) /\ 1..k # {} /\ Max(1..k) = k /\ (1..k) \ {k} = 1..(k - 1)
    BY <1>1, UpToLast
  <2>2. \A m \in SUBSET (1..n) : m # {} => it[m] = Join(it[m \ {Max(m)}], s[Max(m)])
    BY <1>7
  <2>3. it[1..k] = Join(it[(1..k) \ {Max(1..k)}], s[Max(1..k)])
    BY <2>1, <2>2
  <2>. QED  BY <2>1, <2>3
<1>. DEFINE Good(k) == it[1..k] \in A /\ \E m, from, to : Grouped(it[1..k], s, k, m, from, to)
            Bad == {k \in Nat : k <= n /\ ~ Good(k)}
<1>10. Good(0)
  <2>1. Grouped(<<>>, s, 0, 0, [g \in 1..0 |-> 1], [g \in 1..0 |-> 1])
    <3>1. \A g \in 1..0 : FALSE
      OBVIOUS
    <3>2. \A g \in 1..(0 - 1) : FALSE
      OBVIOUS
    <3>3. [g \in 1..0 |-> 1] \in [1..0 -> 1..0] /\ Len(<<>>) = 0
      BY <3>1
    <3>. QED  BY <3>1, <3>2, <3>3 DEF Grouped
  <2>. QED  BY <1>4, <1>8, <2>1
<1>11. ASSUME NEW k \in 1..n, Good(k - 1) PROVE Good(k)
  <2>1. PICK gs \in A : gs = it[1..(k - 1)]
    BY <1>11
  <2>2. PICK m, from, to : Grouped(gs, s, k - 1, m, from, to)
    BY <1>11, <2>1
  <2>3. k - 1 \in Nat /\ (k - 1) + 1 = k /\ (k - 1) + 1 \in 1..Len(s)
    BY <1>1
  <2>4. \E m2, f, g : Grouped(Join(gs, s[(k - 1) + 1]), s, (k - 1) + 1, m2, f, g)
    <3>. HIDE DEF n
    <3>. QED  BY <1>2, <2>2, <2>3, JoinGrouped
  <2>5. Join(gs, s[k]) \in A
    BY <1>2, JoinSorts
  <2>. QED  BY <1>9, <2>1, <2>3, <2>4, <2>5
<1>12. Good(n)
  <2> SUFFICES ASSUME n \in Bad PROVE FALSE
    <3>. HIDE DEF Good
    <3>. QED  BY <1>1
  <2>1. PICK k \in Bad : \A l \in Bad : k <= l
    BY Smallest
  <2>2. k \in Nat /\ k <= n /\ ~ Good(k)
    BY <2>1
  <2>3. k # 0
    BY <1>10, <2>2
  <2>4. k \in 1..n /\ k - 1 \in Nat /\ k - 1 \notin Bad /\ k - 1 <= n
    BY <1>1, <2>1, <2>2, <2>3
  <2>5. Good(k - 1)
    <3>. HIDE DEF Good
    <3>. QED  BY <2>4
  <2>. QED  BY <1>11, <2>2, <2>4, <2>5
<1>. QED  BY <1>7, <1>12 DEF s, R

IsRegister(r) == r.address \in Nat /\ Permutes(r.order)

LEMMA RegisterIs ==
    ASSUME NEW r, IsRegister(r)
    PROVE  /\ r.address \in Nat /\ Words(r) \in Nat \ {0} /\ Len(r.order) = 2 * Words(r)
           /\ r.order \in [1..(2 * Words(r)) -> 0..(2 * Words(r) - 1)]
           /\ r.order \in Bijection(1..(2 * Words(r)), 0..(2 * Words(r) - 1))
<1>1. /\ r.address \in Nat /\ r.order \in Seq(0..7) /\ Len(r.order) \in {2, 4, 8}
      /\ Range(r.order) = 0..(Len(r.order) - 1)
  BY DEF IsRegister, Permutes
<1>2. Words(r) \in Nat \ {0} /\ Len(r.order) = 2 * Words(r)
  <2>1. \A n \in {2, 4, 8} : n \div 2 \in Nat \ {0} /\ n = 2 * (n \div 2)
    OBVIOUS
  <2>. QED  BY <1>1, <2>1 DEF Words
<1>. DEFINE n == Len(r.order)
<1>3. n \in Nat \ {0} /\ DOMAIN r.order = 1..n
  <2>1. \A m \in {2, 4, 8} : m \in Nat \ {0}
    OBVIOUS
  <2>2. PICK o \in Seq(0..7) : o = r.order
    BY <1>1
  <2>3. DOMAIN o = 1..Len(o)
    BY LenProperties
  <2>4. n \in Nat \ {0}
    BY <1>1, <2>1
  <2>. QED  BY <2>2, <2>3, <2>4
<1>4. r.order \in [1..n -> 0..(n - 1)] /\ \A y \in 0..(n - 1) : \E i \in 1..n : r.order[i] = y
  <2>1. \A i \in 1..n : r.order[i] \in 0..(n - 1)
    BY <1>1, <1>3 DEF Range
  <2>2. \A y \in 0..(n - 1) : \E i \in 1..n : r.order[i] = y
    BY <1>1, <1>3 DEF Range
  <2>3. r.order = [i \in 1..n |-> r.order[i]]
    BY <1>1
  <2>. HIDE DEF n
  <2>. QED  BY <2>1, <2>2, <2>3
<1>5. r.order \in Surjection(1..n, 0..(n - 1))
  BY <1>4 DEF Surjection
<1>6. r.order \in Injection(1..n, 0..(n - 1))
  <2>. HIDE DEF n
  <2>1. IsFiniteSet(1..n) /\ Cardinality(1..n) = n /\ Cardinality(0..(n - 1)) = n
    <3>1. Cardinality(1..n) = (n - 1) + 1 /\ Cardinality(0..(n - 1)) = ((n - 1) - 0) + 1 /\ IsFiniteSet(1..n)
      BY <1>3, FS_Interval
    <3>. QED  BY <1>3, <3>1
  <2>. QED  BY <1>5, <2>1, FS_SurjSameCardinalityImpliesInj
<1>. QED  BY <1>1, <1>2, <1>4, <1>5, <1>6 DEF Bijection

(* Registers of a table, each adjacent to the next.                           *)
Chain(rs, n) ==
    /\ n \in Nat \ {0} /\ DOMAIN rs = 1..n
    /\ \A i \in 1..n : IsRegister(rs[i])
    /\ \A i \in 1..(n - 1) : Adjacent(rs[i], rs[i + 1])

LEMMA ChainPlaces ==
    ASSUME NEW rs, NEW n, Chain(rs, n)
    PROVE  /\ \A i \in 1..n : rs[i].address \in Nat /\ Words(rs[i]) \in Nat \ {0}
           /\ \A i \in 1..n : i # 1 => i - 1 \in 1..n /\ rs[i].address = rs[i - 1].address + Words(rs[i - 1])
<1>1. \A i \in 1..n : rs[i].address \in Nat /\ Words(rs[i]) \in Nat \ {0}
  BY RegisterIs DEF Chain
<1>2. ASSUME NEW i \in 1..n, i # 1
      PROVE  i - 1 \in 1..n /\ rs[i].address = rs[i - 1].address + Words(rs[i - 1])
  <2>1. i - 1 \in 1..(n - 1) /\ i - 1 \in 1..n /\ (i - 1) + 1 = i
    BY <1>2 DEF Chain
  <2>2. Adjacent(rs[i - 1], rs[(i - 1) + 1])
    BY <2>1 DEF Chain
  <2>. QED  BY <2>1, <2>2 DEF Adjacent
<1>. QED  BY <1>1, <1>2

(* The words of the first registers of a chain reach up to the next.          *)
LEMMA ChainSum ==
    ASSUME NEW rs, NEW n, Chain(rs, n), NEW k \in 0..n, NEW p, DOMAIN p = 1..k,
           \A i \in 1..k : p[i] = rs[i]
    PROVE  /\ k = 0 => WordCount(p) = 0
           /\ k # 0 => WordCount(p) = rs[k].address + Words(rs[k]) - rs[1].address
           /\ k # n => WordCount(p) = rs[k + 1].address - rs[1].address
           /\ WordCount(p) \in Nat
<1>1. /\ n \in Nat \ {0} /\ k \in Nat
      /\ \A i \in 1..n : rs[i].address \in Nat /\ Words(rs[i]) \in Nat \ {0}
      /\ \A i \in 1..n : i # 1 => i - 1 \in 1..n /\ rs[i].address = rs[i - 1].address + Words(rs[i - 1])
  <2>1. n \in Nat \ {0}
    BY DEF Chain
  <2>2. k \in Nat
    BY <2>1
  <2>. QED  BY <2>1, <2>2, ChainPlaces
<1>2. \A i \in 1..k : i \in 1..n
  BY <1>1
<1>3. \A i \in 1..k : Words(p[i]) \in Nat
  BY <1>1, <1>2
<1>4. PICK c : Sums(c, p, k) /\ WordCount(p) = c[k]
  BY <1>1, <1>3, WordCountIs
<1>5. c \in [0..k -> Nat] /\ c[0] = 0 /\ \A i \in 1..k : c[i] = c[i - 1] + Words(rs[i])
  BY <1>4 DEF Sums
<1>. DEFINE Bad == {i \in Nat : i \in 1..k /\ c[i] # rs[i].address + Words(rs[i]) - rs[1].address}
<1>6. Bad = {}
  <2> SUFFICES ASSUME Bad # {} PROVE FALSE
    OBVIOUS
  <2>1. PICK i \in Bad : \A j \in Bad : i <= j
    BY Smallest
  <2>2. i \in 1..k /\ i \in 1..n /\ c[i] # rs[i].address + Words(rs[i]) - rs[1].address
    BY <1>2, <2>1
  <2>3. PICK a \in Nat, w \in Nat : a = rs[i].address /\ w = Words(rs[i])
    BY <1>1, <2>2
  <2>4. i # 1
    <3> SUFFICES ASSUME i = 1 PROVE FALSE
      OBVIOUS
    <3>1. c[1] = c[0] + w
      BY <1>5, <2>2, <2>3
    <3>. QED  BY <1>5, <2>2, <2>3, <3>1
  <2>5. i - 1 \in 1..k /\ i - 1 \in Nat /\ i - 1 \in 1..n /\ ~ (i <= i - 1)
    BY <1>1, <2>2, <2>4
  <2>6. c[i - 1] = rs[i - 1].address + Words(rs[i - 1]) - rs[1].address
    BY <2>1, <2>5
  <2>7. PICK d \in Nat, e \in Nat, b \in Nat :
           d = rs[i - 1].address /\ e = Words(rs[i - 1]) /\ b = rs[1].address
    <3>1. 1 \in 1..n
      BY <1>1
    <3>2. rs[i - 1].address \in Nat /\ Words(rs[i - 1]) \in Nat /\ rs[1].address \in Nat
      BY <1>1, <2>5, <3>1
    <3>. QED  BY <3>2
  <2>8. a = d + e /\ c[i] = ((d + e) - b) + w
    <3>1. rs[i].address = rs[i - 1].address + Words(rs[i - 1])
      BY <1>1, <2>2, <2>4
    <3>2. c[i - 1] = (d + e) - b
      BY ONLY <2>6, <2>7
    <3>. QED  BY <1>5, <2>2, <2>3, <2>7, <3>1, <3>2
  <2>9. c[i] = rs[i].address + Words(rs[i]) - rs[1].address
    BY <2>3, <2>7, <2>8
  <2>. QED  BY <2>2, <2>9
<1>7. k # 0 => WordCount(p) = rs[k].address + Words(rs[k]) - rs[1].address
  <2>1. k # 0 => k \in 1..k /\ k \in Nat
    BY <1>1
  <2>. QED  BY <1>4, <1>6, <2>1
<1>8. k = 0 => WordCount(p) = 0
  BY <1>4, <1>5
<1>9. ASSUME k # n PROVE WordCount(p) = rs[k + 1].address - rs[1].address
  <2>1. k + 1 \in 1..n /\ (k + 1) - 1 = k
    BY <1>1, <1>9
  <2>2. CASE k = 0
    BY <1>1, <1>8, <2>1, <2>2
  <2>3. CASE k # 0
    <3>1. k + 1 # 1
      BY <1>1, <2>3
    <3>2. rs[k + 1].address = rs[k].address + Words(rs[k])
      BY <1>1, <2>1, <3>1
    <3>3. PICK d \in Nat, e \in Nat, b \in Nat, a \in Nat :
             d = rs[k].address /\ e = Words(rs[k]) /\ b = rs[1].address /\ a = rs[k + 1].address
      <4>1. k \in 1..n /\ 1 \in 1..n
        BY <1>1, <2>3
      <4>2. /\ rs[k].address \in Nat /\ Words(rs[k]) \in Nat
            /\ rs[1].address \in Nat /\ rs[k + 1].address \in Nat
        BY <1>1, <2>1, <4>1
      <4>. QED  BY <4>2
    <3>4. a = d + e /\ WordCount(p) = (d + e) - b
      BY <1>7, <2>3, <3>2, <3>3
    <3>. QED  BY <3>3, <3>4
  <2>. QED  BY <2>2, <2>3
<1>10. WordCount(p) \in Nat
  <2>1. k \in 0..k
    BY <1>1
  <2>. QED  BY <1>4, <1>5, <2>1
<1>. QED  BY <1>7, <1>8, <1>9, <1>10

(* Where the registers of a table are spaced, each ends before every later    *)
(* one.                                                                       *)
LEMMA SpacedApart ==
    ASSUME NEW t, IsTable(t), Spacing(t)
    PROVE  \A i, j \in DOMAIN t :
              i < j => InOrder(t)[i].address + Words(InOrder(t)[i]) <= InOrder(t)[j].address
<1>. DEFINE s == InOrder(t)
            n == Len(t)
<1>1. /\ n \in Nat /\ DOMAIN t = 1..n /\ DOMAIN s = 1..n /\ Len(s) = n
      /\ \A i, j \in 1..n : i < j => s[i].address <= s[j].address
  BY TableSorts, InOrderIs
<1>2. \A i \in 1..n : s[i].address \in Nat /\ Words(s[i]) \in Nat
  <2>1. PICK p \in Bijection(1..n, 1..n) : \A i \in 1..n : s[i] = t[p[i]]
    BY <1>1, InOrderIs
  <2> SUFFICES ASSUME NEW i \in 1..n PROVE s[i].address \in Nat /\ Words(s[i]) \in Nat
    OBVIOUS
  <2>2. p[i] \in DOMAIN t /\ s[i] = t[p[i]]
    BY <1>1, <2>1 DEF Bijection, Injection
  <2>3. t[p[i]].address \in Nat /\ Words(t[p[i]]) \in Nat
    BY <2>2, TableSorts
  <2>. QED  BY <2>2, <2>3
<1>3. \A i \in 1..(n - 1) : s[i].address + Words(s[i]) <= s[i + 1].address
  BY <1>1 DEF Spacing
<1>. HIDE DEF s, n
<1>4. ASSUME NEW i \in 1..n, NEW j \in 1..n, i < j
      PROVE  s[i].address + Words(s[i]) <= s[j].address
  <2>1. i \in 1..(n - 1) /\ i + 1 \in 1..n /\ (i + 1 < j \/ i + 1 = j)
    BY <1>1, <1>4
  <2>2. PICK a \in Nat, w \in Nat, b \in Nat, c \in Nat :
           a = s[i].address /\ w = Words(s[i]) /\ b = s[i + 1].address /\ c = s[j].address
    BY <1>2, <2>1
  <2>3. a + w <= b
    BY <1>3, <2>1, <2>2
  <2>4. b <= c
    <3>1. CASE i + 1 < j
      BY <1>1, <2>1, <2>2, <3>1
    <3>2. CASE i + 1 = j
      BY <2>2, <3>2
    <3>. QED  BY <2>1, <3>1, <3>2
  <2>5. a + w <= c
    BY <2>3, <2>4
  <2>. QED  BY <2>2, <2>5
<1>. QED  BY <1>1, <1>4 DEF s

(* Groups follow one another and leave none out.                              *)
LEMMA GroupsFollow ==
    ASSUME NEW gs, NEW s, NEW k \in Nat, NEW n, NEW from, NEW to, Grouped(gs, s, k, n, from, to)
    PROVE  /\ \A g, h \in 1..n : g < h => to[g] < from[h] /\ from[g + 1] <= from[h]
           /\ \A i \in 1..k : \E g \in 1..n : i \in from[g]..to[g]
<1>1. /\ n \in Nat /\ from \in [1..n -> 1..k] /\ to \in [1..n -> 1..k]
      /\ \A g \in 1..n : from[g] <= to[g]
      /\ \A g \in 1..(n - 1) : from[g + 1] = to[g] + 1
      /\ n = 0 <=> k = 0
      /\ n # 0 => from[1] = 1 /\ to[n] = k
  BY DEF Grouped
<1>0. \A g \in 1..n : from[g] \in Nat /\ to[g] \in Nat
  <2>1. \A i \in 1..k : i \in Nat
    OBVIOUS
  <2>. QED  BY <1>1, <2>1
<1>2. ASSUME NEW g \in 1..n
      PROVE  \A h \in 1..n : g < h => to[g] < from[h] /\ from[g + 1] <= from[h]
  <2>. DEFINE Bad == {h \in Nat : h \in 1..n /\ g < h /\ ~ (to[g] < from[h] /\ from[g + 1] <= from[h])}
  <2> SUFFICES ASSUME Bad # {} PROVE FALSE
    OBVIOUS
  <2>1. PICK h \in Bad : \A l \in Bad : h <= l
    BY Smallest
  <2>2. h \in 1..n /\ g < h /\ ~ (to[g] < from[h] /\ from[g + 1] <= from[h])
    BY <2>1
  <2>3. g \in 1..(n - 1) /\ g + 1 \in 1..n
    BY <1>1, <2>2
  <2>4. PICK a \in Nat, b \in Nat : a = to[g] /\ b = from[g + 1] /\ b = a + 1
    BY <1>1, <2>3
  <2>5. h # g + 1
    <3>1. a < b /\ b <= b
      BY <2>4
    <3>. QED  BY <2>2, <2>4, <3>1
  <2>6. h - 1 \in 1..n /\ h - 1 \in 1..(n - 1) /\ g < h - 1 /\ (h - 1) + 1 = h /\ h - 1 \in Nat /\ ~ (h <= h - 1)
    BY <1>1, <2>2, <2>5
  <2>7. to[g] < from[h - 1] /\ from[g + 1] <= from[h - 1]
    BY <2>1, <2>6
  <2>8. PICK c \in Nat, d \in Nat, e \in Nat : c = from[h - 1] /\ d = to[h - 1] /\ e = from[h]
    BY <1>0, <2>2, <2>6
  <2>9. c <= d /\ e = d + 1
    <3>1. from[h - 1] <= to[h - 1]
      BY <1>1, <2>6
    <3>2. from[(h - 1) + 1] = to[h - 1] + 1
      BY <1>1, <2>6
    <3>. QED  BY <2>6, <2>8, <3>1, <3>2
  <2>10. a < e /\ b <= e
    BY <2>4, <2>7, <2>8, <2>9
  <2>. QED  BY <2>2, <2>4, <2>8, <2>10
<1>3. ASSUME NEW i \in 1..k PROVE \E g \in 1..n : i \in from[g]..to[g]
  <2>. DEFINE Ending == {g \in Nat : g \in 1..n /\ i <= to[g]}
  <2>1. n \in Ending
    BY <1>1
  <2>2. PICK g \in Ending : \A l \in Ending : g <= l
    BY <2>1, Smallest
  <2>3. g \in 1..n /\ i <= to[g]
    BY <2>2
  <2>4. CASE g = 1
    BY <1>1, <2>3, <2>4
  <2>5. CASE g # 1
    <3>1. g - 1 \in 1..n /\ g - 1 \in 1..(n - 1) /\ (g - 1) + 1 = g /\ g - 1 \in Nat /\ ~ (g <= g - 1)
      BY <1>1, <2>3, <2>5
    <3>2. ~ (i <= to[g - 1])
      BY <2>2, <3>1
    <3>3. PICK a \in Nat, b \in Nat : a = to[g - 1] /\ b = from[g] /\ to[g] \in Nat
      BY <1>0, <2>3, <3>1
    <3>4. b = a + 1
      <4>1. from[(g - 1) + 1] = to[g - 1] + 1
        BY <1>1, <3>1
      <4>. QED  BY <3>1, <3>3, <4>1
    <3>5. b <= i
      BY <3>2, <3>3, <3>4
    <3>. QED  BY <2>3, <3>3, <3>5
  <2>. QED  BY <2>4, <2>5
<1>. QED  BY <1>2, <1>3

(* A group is a chain of registers; its words reach from its first register   *)
(* to the end of its last.                                                    *)
LEMMA GroupIsChain ==
    ASSUME NEW R, \A r \in R : IsRegister(r), NEW gs \in Seq(Seq(R)), NEW s, NEW k \in Nat,
           NEW n, NEW from, NEW to, Grouped(gs, s, k, n, from, to), NEW g \in 1..n
    PROVE  /\ gs[g] \in Seq(R) /\ Chain(gs[g], Len(gs[g])) /\ Len(gs[g]) = to[g] - from[g] + 1
           /\ gs[g][1] = s[from[g]]
           /\ WordCount(gs[g]) = s[to[g]].address + Words(s[to[g]]) - s[from[g]].address
<1>1. /\ n \in Nat /\ from[g] \in 1..k /\ to[g] \in 1..k /\ Len(gs) = n
      /\ from[g] <= to[g] /\ Len(gs[g]) = to[g] - from[g] + 1
      /\ \A i \in from[g]..to[g] : gs[g][i - from[g] + 1] = s[i]
      /\ \A i \in from[g]..(to[g] - 1) : Adjacent(s[i], s[i + 1])
  BY DEF Grouped
<1>2. PICK a \in Nat, b \in Nat : a = from[g] /\ b = to[g] /\ a <= b
  BY <1>1
<1>3. PICK c \in Seq(R) : c = gs[g]
  <2>1. g \in 1..Len(gs)
    BY <1>1
  <2>. QED  BY <2>1, ElementOfSeq
<1>. DEFINE m == b - a + 1
<1>4. m \in Nat \ {0} /\ Len(c) = m /\ DOMAIN c = 1..m /\ \A i \in 1..m : c[i] \in R
  <2>1. m \in Nat \ {0} /\ Len(c) = m
    BY <1>1, <1>2, <1>3
  <2>2. DOMAIN c = 1..Len(c) /\ \A i \in 1..Len(c) : c[i] \in R
    BY LenProperties, ElementOfSeq
  <2>. QED  BY <2>1, <2>2
<1>5. \A i \in 1..m : i + a - 1 \in a..b /\ c[i] = s[i + a - 1]
  <2> SUFFICES ASSUME NEW i \in 1..m PROVE i + a - 1 \in a..b /\ c[i] = s[i + a - 1]
    OBVIOUS
  <2>1. i + a - 1 \in a..b /\ (i + a - 1) - a + 1 = i
    BY <1>2
  <2>2. \A j \in a..b : c[j - a + 1] = s[j]
    BY <1>1, <1>2, <1>3
  <2>3. c[(i + a - 1) - a + 1] = s[i + a - 1]
    BY <2>1, <2>2
  <2>. QED  BY <2>1, <2>3
<1>6. \A i \in 1..(m - 1) : Adjacent(c[i], c[i + 1])
  <2> SUFFICES ASSUME NEW i \in 1..(m - 1) PROVE Adjacent(c[i], c[i + 1])
    OBVIOUS
  <2>1. i \in 1..m /\ i + 1 \in 1..m /\ i + a - 1 \in a..(b - 1) /\ (i + 1) + a - 1 = (i + a - 1) + 1
    <3>1. i \in Nat /\ i >= 1 /\ i <= b - a
      BY <1>2
    <3>2. i \in 1..(b - a + 1) /\ i + 1 \in 1..(b - a + 1)
      BY <1>2, <3>1
    <3>3. i + a - 1 \in a..(b - 1) /\ (i + 1) + a - 1 = (i + a - 1) + 1
      <4>1. \A u, v, w \in Nat : u >= 1 /\ u <= w - v => u + v - 1 \in v..(w - 1)
        OBVIOUS
      <4>2. \A u, v \in Nat : (u + 1) + v - 1 = (u + v - 1) + 1
        OBVIOUS
      <4>. QED  BY ONLY <1>2, <3>1, <4>1, <4>2
    <3>. QED  BY <3>2, <3>3
  <2>2. Adjacent(s[i + a - 1], s[(i + a - 1) + 1])
    BY <1>1, <1>2, <2>1
  <2>3. c[i] = s[i + a - 1] /\ c[i + 1] = s[(i + a - 1) + 1]
    <3>1. c[i + 1] = s[(i + 1) + a - 1]
      BY <1>5, <2>1
    <3>2. c[i] = s[i + a - 1]
      BY <1>5, <2>1
    <3>. QED  BY <2>1, <3>1, <3>2
  <2>. QED  BY <2>2, <2>3
<1>7. Chain(c, m)
  <2>. HIDE DEF m
  <2>. QED  BY <1>4, <1>6 DEF Chain
<1>8. c[1] = s[a] /\ c[m] = s[b]
  <2>1. 1 \in 1..m /\ m \in 1..m /\ 1 + a - 1 = a /\ m + a - 1 = b
    BY <1>2
  <2>. QED  BY <1>5, <2>1
<1>9. WordCount(c) = c[m].address + Words(c[m]) - c[1].address
  <2>. HIDE DEF m
  <2>1. m \in 0..m /\ m # 0
    BY <1>4
  <2>. QED  BY <1>4, <1>7, <2>1, ChainSum
<1>. QED  BY <1>1, <1>2, <1>3, <1>4, <1>7, <1>8, <1>9

-----------------------------------------------------------------------------
(* Requests *)

(* A request is for a chain of registers of a table.                          *)
IsRequest(q, T, t) ==
    /\ q.table = T /\ q.registers \in Seq(Range(t)) /\ Chain(q.registers, Len(q.registers))
    /\ q.address = q.registers[1].address /\ q.count = WordCount(q.registers)

Ahead(p, q) == p.address + p.count < q.address

(* Requests Q of a table are m in order, with a gap between any two, and each *)
(* of its registers is in one of them; c counts the registers.                *)
Covers(Q, T, t, m, c) ==
    /\ m \in Nat /\ c \in [0..m -> Nat] /\ Q = [g \in 1..m |-> Q[g]]
    /\ c[0] = 0 /\ c[m] = Len(t) /\ \A g \in 1..m : c[g] = c[g - 1] + Len(Q[g].registers)
    /\ \A g \in 1..m : IsRequest(Q[g], T, t)
    /\ \A g, h \in 1..m : g < h => Ahead(Q[g], Q[h])
    /\ \A r \in Range(t) : \E g \in 1..m : r \in Range(Q[g].registers)

LEMMA RequestsAre ==
    ASSUME NEW T, NEW t, IsTable(t), Spacing(t)
    PROVE  \E m, c : Covers(Requests(T, t), T, t, m, c)
<1>. DEFINE s == InOrder(t)
            k == Len(t)
            R == Range(t)
            gs == Groups(t)
            Q == Requests(T, t)
<1>1. /\ k \in Nat /\ DOMAIN t = 1..k /\ DOMAIN s = 1..k /\ Len(s) = k
      /\ \A i, j \in 1..k : i < j => s[i].address <= s[j].address
  BY TableSorts, InOrderIs
<1>2. \A r \in R : IsRegister(r)
  BY DEF IsTable, IsRegister
<1>3. gs \in Seq(Seq(R)) /\ \E m, from, to : Grouped(gs, s, k, m, from, to)
  BY GroupsAre
<1>4. PICK m, from, to : Grouped(gs, s, k, m, from, to)
  BY <1>3
<1>5. /\ m \in Nat /\ Len(gs) = m /\ DOMAIN gs = 1..m
      /\ \A g \in 1..m : from[g] \in 1..k /\ to[g] \in 1..k /\ from[g] <= to[g]
      /\ \A g \in 1..(m - 1) : from[g + 1] = to[g] + 1 /\ ~ Adjacent(s[to[g]], s[from[g + 1]])
      /\ m = 0 <=> k = 0
      /\ m # 0 => from[1] = 1 /\ to[m] = k
  <2>1. Len(gs) = m
    BY <1>4 DEF Grouped
  <2>2. DOMAIN gs = 1..Len(gs)
    BY <1>3, LenProperties
  <2>. QED  BY <1>4, <2>1, <2>2 DEF Grouped
<1>6. /\ Q = [g \in 1..m |-> Q[g]]
      /\ \A g \in 1..m : Q[g] = [table |-> T, address |-> gs[g][1].address,
                                 count |-> WordCount(gs[g]), registers |-> gs[g]]
  BY <1>5 DEF Requests
<1>. HIDE DEF Q, gs, R
<1>7. \A g \in 1..m :
        /\ gs[g] \in Seq(R) /\ Chain(gs[g], Len(gs[g])) /\ Len(gs[g]) = to[g] - from[g] + 1
        /\ gs[g][1] = s[from[g]]
        /\ WordCount(gs[g]) = s[to[g]].address + Words(s[to[g]]) - s[from[g]].address
  <2>1. k \in Nat /\ gs \in Seq(Seq(R))
    BY <1>1, <1>3
  <2>. HIDE DEF s, k
  <2>2. ASSUME NEW g \in 1..m
        PROVE  /\ gs[g] \in Seq(R) /\ Chain(gs[g], Len(gs[g])) /\ Len(gs[g]) = to[g] - from[g] + 1
               /\ gs[g][1] = s[from[g]]
               /\ WordCount(gs[g]) = s[to[g]].address + Words(s[to[g]]) - s[from[g]].address
    BY <1>2, <1>4, <2>1, GroupIsChain
  <2>. QED  BY <2>2
<1>8. /\ \A g, h \in 1..m : g < h => to[g] < from[h] /\ from[g + 1] <= from[h]
      /\ \A i \in 1..k : \E g \in 1..m : i \in from[g]..to[g]
  <2>1. k \in Nat
    BY <1>1
  <2>. HIDE DEF s, k
  <2>. QED  BY <1>4, <2>1, GroupsFollow
<1>9. \A i \in 1..k : s[i] \in R /\ s[i].address \in Nat /\ Words(s[i]) \in Nat \ {0}
  <2>1. \A i \in 1..k : s[i] \in R
    BY <1>1, InOrderRow DEF R
  <2>. HIDE DEF s, k
  <2>. QED  BY <1>2, <2>1, RegisterIs
<1>10. \A r \in R : \E i \in 1..k : s[i] = r
  BY <1>1, InOrderRow DEF R
<1>11. \A i, j \in 1..k : i < j => s[i].address + Words(s[i]) <= s[j].address
  BY <1>1, SpacedApart
<1>. HIDE DEF s, k
<1>12. \A g \in 1..m : IsRequest(Q[g], T, t)
  BY <1>6, <1>7 DEF IsRequest, R
<1>13. ASSUME NEW g \in 1..m, NEW h \in 1..m, g < h PROVE Ahead(Q[g], Q[h])
  <2>1. g \in 1..(m - 1) /\ g + 1 \in 1..m
    BY <1>5, <1>13
  <2>2. PICK x \in 1..k, y \in 1..k, z \in 1..k, w \in 1..k :
            x = from[g] /\ y = to[g] /\ z = from[g + 1] /\ w = from[h]
    BY <1>5, <2>1
  <2>3. y < z /\ z <= w
    <3>1. z = y + 1
      BY <1>5, <2>1, <2>2
    <3>2. z <= w
      BY <1>8, <1>13, <2>2
    <3>. QED  BY <3>1, <3>2
  <2>4. PICK a \in Nat, b \in Nat, c \in Nat, d \in Nat, e \in Nat :
            /\ a = s[x].address /\ b = s[y].address /\ c = Words(s[y])
            /\ d = s[z].address /\ e = s[w].address
    BY <1>9
  <2>5. b + c <= d /\ b + c # d
    <3>1. b + c <= d
      BY <1>11, <2>2, <2>3, <2>4
    <3>2. ~ Adjacent(s[y], s[z])
      BY <1>5, <2>1, <2>2
    <3>. QED  BY <2>4, <3>1, <3>2 DEF Adjacent
  <2>6. d <= e
    <3>1. CASE z = w
      BY <2>4, <3>1
    <3>2. CASE z # w
      BY <1>1, <2>3, <2>4, <3>2
    <3>. QED  BY <3>1, <3>2
  <2>7. Q[g].address = a /\ Q[g].count = b + c - a /\ Q[h].address = e
    <3>1. Q[g].address = gs[g][1].address /\ Q[g].count = WordCount(gs[g]) /\ Q[h].address = gs[h][1].address
      BY <1>6
    <3>2. gs[g][1] = s[x] /\ gs[h][1] = s[w] /\ WordCount(gs[g]) = s[y].address + Words(s[y]) - s[x].address
      BY <1>7, <2>2
    <3>. QED  BY <2>4, <3>1, <3>2
  <2>8. a + (b + c - a) < e
    BY <2>5, <2>6
  <2>. QED  BY <2>7, <2>8 DEF Ahead
<1>14. ASSUME NEW r \in R PROVE \E g \in 1..m : r \in Range(Q[g].registers)
  <2>1. PICK i \in 1..k : s[i] = r
    BY <1>10
  <2>2. PICK g \in 1..m : i \in from[g]..to[g]
    BY <1>8
  <2>3. PICK a \in Nat, b \in Nat : a = from[g] /\ b = to[g] /\ a <= i /\ i <= b
    BY <1>5, <2>2
  <2>4. gs[g][i - a + 1] = s[i]
    BY <1>4, <2>2, <2>3 DEF Grouped
  <2>5. i - a + 1 \in DOMAIN gs[g]
    <3>1. DOMAIN gs[g] = 1..(b - a + 1)
      <4>1. PICK q \in Seq(R) : q = gs[g]
        BY <1>7
      <4>2. DOMAIN q = 1..Len(q)
        BY LenProperties
      <4>. QED  BY <1>7, <2>3, <4>1, <4>2
    <3>. QED  BY <2>3, <3>1
  <2>6. r \in Range(gs[g])
    BY <2>1, <2>4, <2>5 DEF Range
  <2>. QED  BY <1>6, <2>6
<1>. DEFINE c == [g \in 0..m |-> IF g = 0 THEN 0 ELSE to[g]]
<1>15. c \in [0..m -> Nat] /\ c[0] = 0 /\ c[m] = k
  <2>1. \A g \in 0..m : g # 0 => g \in 1..m /\ to[g] \in Nat
    BY <1>5
  <2>. QED  BY <1>5, <2>1
<1>16. \A g \in 1..m : c[g] = c[g - 1] + Len(Q[g].registers)
  <2> SUFFICES ASSUME NEW g \in 1..m PROVE c[g] = c[g - 1] + Len(Q[g].registers)
    OBVIOUS
  <2>1. PICK a \in Nat, b \in Nat : a = from[g] /\ b = to[g]
    BY <1>5
  <2>2. c[g] = b
    BY <1>5, <2>1
  <2>3. Len(Q[g].registers) = b - a + 1
    BY <1>6, <1>7, <2>1
  <2>4. c[g - 1] = a - 1
    <3>1. CASE g = 1
      BY <1>5, <2>1, <3>1
    <3>2. CASE g # 1
      <4>1. g - 1 \in 1..(m - 1) /\ (g - 1) + 1 = g /\ g - 1 \in 1..m /\ g - 1 # 0 /\ g - 1 \in 0..m
        BY <1>5, <3>2
      <4>2. a = to[g - 1] + 1 /\ to[g - 1] \in Nat
        <5>1. from[(g - 1) + 1] = to[g - 1] + 1
          BY <1>5, <4>1
        <5>2. to[g - 1] \in 1..k
          BY <1>5, <4>1
        <5>. QED  BY <2>1, <4>1, <5>1, <5>2
      <4>3. c[g - 1] = to[g - 1]
        BY <4>1
      <4>. QED  BY <4>2, <4>3
    <3>. QED  BY <3>1, <3>2
  <2>. HIDE DEF c
  <2>. QED  BY <2>1, <2>2, <2>3, <2>4
<1>. HIDE DEF c
<1>17. Covers(Q, T, t, m, c)
  BY <1>5, <1>6, <1>12, <1>13, <1>14, <1>15, <1>16 DEF Covers, R, k
<1>. QED  BY <1>17 DEF Q

LEMMA ChainOrder ==
    ASSUME NEW rs, NEW n, Chain(rs, n), NEW i \in 1..n
    PROVE  \A j \in 1..n : i < j => rs[i].address + Words(rs[i]) <= rs[j].address
<1>1. n \in Nat \ {0}
  BY DEF Chain
<1>2. /\ \A l \in 1..n : rs[l].address \in Nat /\ Words(rs[l]) \in Nat \ {0}
      /\ \A l \in 1..n : l # 1 => l - 1 \in 1..n /\ rs[l].address = rs[l - 1].address + Words(rs[l - 1])
  BY ChainPlaces
<1>. DEFINE Bad == {j \in Nat : j \in 1..n /\ i < j /\ ~ (rs[i].address + Words(rs[i]) <= rs[j].address)}
<1> SUFFICES ASSUME Bad # {} PROVE FALSE
  OBVIOUS
<1>3. PICK j \in Bad : \A l \in Bad : j <= l
  BY Smallest
<1>4. j \in 1..n /\ i < j /\ ~ (rs[i].address + Words(rs[i]) <= rs[j].address)
  BY <1>3
<1>5. PICK h \in 1..n : h = j - 1 /\ h \in Nat /\ ~ (j <= h)
  <2>1. j - 1 \in 1..n /\ j - 1 \in Nat /\ ~ (j <= j - 1)
    BY <1>1, <1>4
  <2>. QED  BY <2>1
<1>6. rs[j].address = rs[h].address + Words(rs[h])
  <2>1. j # 1
    BY <1>4
  <2>. QED  BY <1>2, <1>4, <1>5, <2>1
<1>7. PICK a \in Nat, v \in Nat, b \in Nat, w \in Nat :
         a = rs[i].address /\ v = Words(rs[i]) /\ b = rs[h].address /\ w = Words(rs[h])
  BY <1>2
<1>8. i # h
  <2> SUFFICES ASSUME i = h PROVE FALSE
    OBVIOUS
  <2>1. rs[j].address = a + v
    BY <1>6, <1>7
  <2>2. a + v <= a + v
    BY <1>7
  <2>. QED  BY <1>4, <1>7, <2>1, <2>2
<1>9. i < h
  BY <1>4, <1>5, <1>8
<1>10. a + v <= b
  <2>1. h \notin Bad
    BY <1>3, <1>5
  <2>. QED  BY <1>5, <1>7, <1>9, <2>1
<1>11. a + v <= b + w
  BY <1>7, <1>10
<1>. QED  BY <1>4, <1>6, <1>7, <1>11

(* A chain covers its registers' words and nothing else.                      *)
LEMMA ChainSpan ==
    ASSUME NEW rs, NEW n, Chain(rs, n)
    PROVE  /\ WordCount(rs) \in Nat \ {0}
           /\ rs[1].address..(rs[1].address + WordCount(rs) - 1) = UNION {Span(rs[i]) : i \in 1..n}
<1>1. n \in Nat \ {0} /\ DOMAIN rs = 1..n /\ 1 \in 1..n /\ n \in 1..n /\ n \in 0..n
  BY DEF Chain
<1>2. /\ \A l \in 1..n : rs[l].address \in Nat /\ Words(rs[l]) \in Nat \ {0}
      /\ \A l \in 1..n : l # 1 => l - 1 \in 1..n /\ rs[l].address = rs[l - 1].address + Words(rs[l - 1])
  BY ChainPlaces
<1>3. WordCount(rs) = rs[n].address + Words(rs[n]) - rs[1].address
  BY <1>1, ChainSum
<1>4. \A i, j \in 1..n : i < j => rs[i].address + Words(rs[i]) <= rs[j].address
  BY ChainOrder
<1>5. PICK a \in Nat, e \in Nat : a = rs[1].address /\ e = rs[n].address + Words(rs[n])
  BY <1>1, <1>2
<1>6. \A i \in 1..n : a <= rs[i].address /\ rs[i].address + Words(rs[i]) <= e
  <2> SUFFICES ASSUME NEW i \in 1..n PROVE a <= rs[i].address /\ rs[i].address + Words(rs[i]) <= e
    OBVIOUS
  <2>1. PICK b \in Nat, w \in Nat \ {0} : b = rs[i].address /\ w = Words(rs[i])
    BY <1>2
  <2>2. PICK v \in Nat \ {0}, c \in Nat, u \in Nat \ {0} :
           v = Words(rs[1]) /\ c = rs[n].address /\ u = Words(rs[n])
    BY <1>1, <1>2
  <2>3. a <= b
    <3>1. CASE i = 1
      BY <1>5, <2>1, <3>1
    <3>2. CASE i # 1
      <4>1. 1 < i
        BY <3>2
      <4>2. a + v <= b
        BY <1>1, <1>4, <1>5, <2>1, <2>2, <4>1
      <4>. QED  BY <2>2, <4>2
    <3>. QED  BY <3>1, <3>2
  <2>4. b + w <= e
    <3>1. CASE i = n
      BY <1>5, <2>1, <3>1
    <3>2. CASE i # n
      <4>1. i < n
        BY <1>1, <3>2
      <4>2. b + w <= c
        BY <1>1, <1>4, <2>1, <2>2, <4>1
      <4>3. e = c + u
        BY <1>5, <2>2
      <4>. QED  BY <2>1, <2>2, <4>2, <4>3
    <3>. QED  BY <3>1, <3>2
  <2>. QED  BY <2>1, <2>3, <2>4
<1>7. a < e /\ WordCount(rs) = e - a
  <2>1. PICK b \in Nat, w \in Nat \ {0} : b = rs[1].address /\ w = Words(rs[1])
    BY <1>1, <1>2
  <2>2. b + w <= e
    BY <1>1, <1>6, <2>1
  <2>3. a < e
    BY <1>5, <2>1, <2>2
  <2>4. WordCount(rs) = e - a
    <3>1. PICK c \in Nat, u \in Nat : c = rs[n].address /\ u = Words(rs[n])
      BY <1>1, <1>2
    <3>2. WordCount(rs) = c + u - a /\ e = c + u
      BY <1>3, <1>5, <3>1
    <3>. QED  BY <3>1, <3>2
  <2>. QED  BY <2>3, <2>4
<1>8. a + WordCount(rs) - 1 = e - 1 /\ WordCount(rs) \in Nat \ {0}
  BY <1>7
<1>9. ASSUME NEW i \in 1..n, NEW x \in Span(rs[i]) PROVE x \in a..(e - 1)
  <2>1. PICK b \in Nat, w \in Nat \ {0} : b = rs[i].address /\ w = Words(rs[i])
    BY <1>2
  <2>2. a <= b /\ b + w <= e
    BY <1>6, <2>1
  <2>3. x \in b..(b + w - 1)
    BY <1>9, <2>1 DEF Span
  <2>. QED  BY <2>2, <2>3
<1>10. ASSUME NEW x \in a..(e - 1) PROVE \E i \in 1..n : x \in Span(rs[i])
  <2>. DEFINE Past == {i \in Nat : i \in 1..n /\ x < rs[i].address + Words(rs[i])}
  <2>0. x \in Nat /\ x >= a /\ x < e
    BY <1>10
  <2>1. n \in Past
    BY <1>1, <1>5, <2>0
  <2>2. PICK i \in Past : \A l \in Past : i <= l
    BY <2>1, Smallest
  <2>3. i \in 1..n /\ x < rs[i].address + Words(rs[i])
    BY <2>2
  <2>4. PICK b \in Nat, w \in Nat \ {0} : b = rs[i].address /\ w = Words(rs[i])
    BY <1>2, <2>3
  <2>5. b <= x
    <3>1. CASE i = 1
      BY <1>5, <2>0, <2>4, <3>1
    <3>2. CASE i # 1
      <4>1. PICK h \in 1..n : h = i - 1 /\ h \in Nat /\ ~ (i <= h)
        <5>1. i - 1 \in 1..n /\ i - 1 \in Nat /\ ~ (i <= i - 1)
          BY <1>1, <2>3, <3>2
        <5>. QED  BY <5>1
      <4>2. ~ (x < rs[h].address + Words(rs[h]))
        BY <2>2, <4>1
      <4>3. rs[i].address = rs[h].address + Words(rs[h])
        BY <1>2, <2>3, <3>2, <4>1
      <4>. QED  BY <2>0, <2>4, <4>2, <4>3
    <3>. QED  BY <3>1, <3>2
  <2>6. x \in b..(b + w - 1)
    BY <2>0, <2>3, <2>4, <2>5
  <2>. QED  BY <2>3, <2>4, <2>6 DEF Span
<1>11. a..(e - 1) = UNION {Span(rs[i]) : i \in 1..n}
  BY <1>9, <1>10
<1>. QED  BY <1>5, <1>8, <1>11

(* What a request asks for.                                                   *)
LEMMA RequestIs ==
    ASSUME NEW q, NEW T, NEW t, IsRequest(q, T, t)
    PROVE  /\ q.address \in Nat /\ q.count \in Nat \ {0}
           /\ q.registers \in Seq(Range(t)) /\ Len(q.registers) \in Nat \ {0}
           /\ DOMAIN q.registers = 1..Len(q.registers)
           /\ \A i \in DOMAIN q.registers : q.registers[i] \in Range(t)
           /\ q.address..(q.address + q.count - 1) = UNION {Span(r) : r \in Range(q.registers)}
<1>. DEFINE rs == q.registers
            n == Len(q.registers)
<1>1. /\ rs \in Seq(Range(t)) /\ Chain(rs, n) /\ q.address = rs[1].address /\ q.count = WordCount(rs)
  BY DEF IsRequest
<1>2. n \in Nat \ {0} /\ DOMAIN rs = 1..n /\ 1 \in 1..n
  BY <1>1 DEF Chain
<1>3. \A i \in 1..n : rs[i] \in Range(t)
  BY <1>1, ElementOfSeq
<1>4. WordCount(rs) \in Nat \ {0}
      /\ rs[1].address..(rs[1].address + WordCount(rs) - 1) = UNION {Span(rs[i]) : i \in 1..n}
  BY <1>1, ChainSpan
<1>5. rs[1].address \in Nat
  BY <1>1, <1>2, ChainPlaces
<1>6. {Span(r) : r \in Range(rs)} = {Span(rs[i]) : i \in 1..n}
  BY <1>2 DEF Range
<1>. QED  BY <1>1, <1>2, <1>3, <1>4, <1>5, <1>6

-----------------------------------------------------------------------------
(* The bytes of an answer, and what is made of them *)

(* The p-th byte of a register's words.                                       *)
ByteOf(T, r, p) == Byte(T, r.address + (p - 1) \div 2, (p - 1) % 2)

(* What the machine makes of a register's bytes has the same bytes as the     *)
(* documented order gives, and is the same if the order undoes itself.        *)
LEMMA ValueRight ==
    ASSUME NEW T, NEW r, IsRegister(r), NEW word,
           \A p \in 1..Len(r.order) : word[p] = ByteOf(T, r, p)
    PROVE  /\ Range(Value(word, r.order)) = Range(Documented(T, r))
           /\ SelfInverse(r.order) => Value(word, r.order) = Documented(T, r)
<1>. DEFINE o == r.order
            n == 2 * Words(r)
            V == Value(word, o)
            D == Documented(T, r)
<1>1. /\ n \in Nat \ {0} /\ Len(o) = n /\ o \in [1..n -> 0..(n - 1)]
      /\ \A i, j \in 1..n : o[i] = o[j] => i = j
      /\ \A y \in 0..(n - 1) : \E i \in 1..n : o[i] = y
  <2>1. /\ n \in Nat \ {0} /\ Len(o) = n /\ o \in [1..n -> 0..(n - 1)]
        /\ o \in Bijection(1..n, 0..(n - 1))
    BY RegisterIs
  <2>. HIDE DEF n, o
  <2>. QED  BY <2>1 DEF Bijection, Injection, IsInjective, Surjection
<1>. HIDE DEF n
<1>2. \A i \in 1..n : o[i] \in 0..(n - 1) /\ o[i] + 1 \in 1..n
  <2>1. \A y \in 0..(n - 1) : y + 1 \in 1..n
    BY <1>1
  <2>. QED  BY <1>1, <2>1
<1>3. V = [s \in 0..(n - 1) |-> ByteOf(T, r, o[n - s] + 1)]
  <2>. DEFINE be == BigEndian(word, o)
  <2>1. be = [i \in 1..n |-> word[o[i] + 1]]
    BY <1>1 DEF BigEndian
  <2>2. \A i \in 1..n : word[o[i] + 1] = ByteOf(T, r, o[i] + 1)
    BY <1>1, <1>2
  <2>3. be = [i \in 1..n |-> ByteOf(T, r, o[i] + 1)]
    BY <2>1, <2>2
  <2>. HIDE DEF be
  <2>4. Len(be) = n
    BY <1>1, <2>3
  <2>5. Reverse(be) = [i \in 1..n |-> be[(n - i) + 1]]
    BY <2>4 DEF Reverse
  <2>6. Len(Reverse(be)) = n
    BY <1>1, <2>5
  <2>7. V = [s \in 0..(n - 1) |-> Reverse(be)[s + 1]]
    BY <2>6 DEF Value, Number, be
  <2>8. ASSUME NEW s \in 0..(n - 1) PROVE Reverse(be)[s + 1] = ByteOf(T, r, o[n - s] + 1)
    <3>1. s + 1 \in 1..n /\ n - (s + 1) + 1 = n - s /\ n - s \in 1..n
      BY <1>1
    <3>. QED  BY <2>3, <2>5, <3>1
  <2>. QED  BY <2>7, <2>8
<1>4. D = [s \in 0..(n - 1) |-> ByteOf(T, r, CHOOSE q \in 1..n : o[q] = n - 1 - s)]
  <2>1. DOMAIN o = 1..n /\ Len(o) = n
    BY <1>1
  <2>2. D = [s \in 0..(Len(o) - 1) |-> ByteOf(T, r, CHOOSE q \in DOMAIN o : o[q] = Len(o) - 1 - s)]
    BY DEF Documented, ByteOf
  <2>. QED  BY ONLY <2>1, <2>2
<1>. HIDE DEF V, D
<1>5. ASSUME NEW i \in 1..n, NEW y, y = o[i] PROVE (CHOOSE q \in 1..n : o[q] = y) = i
  BY <1>1, <1>5
<1>6. ASSUME NEW p \in 1..n PROVE ByteOf(T, r, p) \in Range(V) /\ ByteOf(T, r, p) \in Range(D)
  <2>1. PICK i \in 1..n : o[i] = p - 1
    <3>1. p - 1 \in 0..(n - 1)
      BY <1>1
    <3>. QED  BY <1>1, <3>1
  <2>2. n - i \in 0..(n - 1) /\ n - (n - i) = i /\ (p - 1) + 1 = p
    BY <1>1
  <2>3. V[n - i] = ByteOf(T, r, p)
    BY <1>3, <2>1, <2>2
  <2>4. PICK y \in 0..(n - 1) : y = o[p]
    BY <1>2
  <2>5. n - 1 - y \in 0..(n - 1) /\ n - 1 - (n - 1 - y) = y
    BY <1>1
  <2>6. D[n - 1 - y] = ByteOf(T, r, CHOOSE q \in 1..n : o[q] = y)
    BY <1>4, <2>5
  <2>7. D[n - 1 - y] = ByteOf(T, r, p)
    BY <1>5, <2>4, <2>6
  <2>8. n - i \in DOMAIN V /\ n - 1 - y \in DOMAIN D
    BY <1>3, <1>4, <2>2, <2>5
  <2>9. V[n - i] \in Range(V) /\ D[n - 1 - y] \in Range(D)
    BY <2>8 DEF Range
  <2>. QED  BY <2>3, <2>7, <2>9
<1>7. ASSUME NEW s \in 0..(n - 1)
      PROVE  /\ \E p \in 1..n : V[s] = ByteOf(T, r, p)
             /\ \E p \in 1..n : D[s] = ByteOf(T, r, p)
  <2>1. n - s \in 1..n /\ n - 1 - s \in 0..(n - 1)
    BY <1>1
  <2>2. V[s] = ByteOf(T, r, o[n - s] + 1) /\ o[n - s] + 1 \in 1..n
    BY <1>2, <1>3, <2>1
  <2>3. PICK i \in 1..n : o[i] = n - 1 - s
    BY <1>1, <2>1
  <2>4. (CHOOSE q \in 1..n : o[q] = n - 1 - s) \in 1..n
    BY <2>3
  <2>5. D[s] = ByteOf(T, r, CHOOSE q \in 1..n : o[q] = n - 1 - s)
    BY <1>4
  <2>. QED  BY <2>2, <2>4, <2>5
<1>8. DOMAIN V = 0..(n - 1) /\ DOMAIN D = 0..(n - 1)
  BY <1>3, <1>4
<1>9. Range(V) = Range(D)
  <2>1. \A x \in Range(V) : \E p \in 1..n : x = ByteOf(T, r, p)
    BY <1>7, <1>8 DEF Range
  <2>2. \A x \in Range(D) : \E p \in 1..n : x = ByteOf(T, r, p)
    BY <1>7, <1>8 DEF Range
  <2>. QED  BY <1>6, <2>1, <2>2
<1>10. ASSUME SelfInverse(o) PROVE V = D
  <2>1. ASSUME NEW s \in 0..(n - 1) PROVE V[s] = D[s]
    <3>1. PICK i \in 1..n : i = n - s
      <4>1. n - s \in 1..n
        BY <1>1
      <4>. QED  BY <4>1
    <3>2. i - 1 = n - 1 - s
      BY <1>1, <3>1
    <3>3. o[o[i] + 1] = n - 1 - s
      <4>1. DOMAIN o = 1..n
        BY <1>1
      <4>2. o[o[i] + 1] = i - 1
        BY <1>10, <4>1 DEF SelfInverse
      <4>. QED  BY <3>2, <4>2
    <3>4. (CHOOSE q \in 1..n : o[q] = n - 1 - s) = o[i] + 1
      BY <1>2, <1>5, <3>3
    <3>5. V[s] = ByteOf(T, r, o[i] + 1)
      BY <1>3, <3>1
    <3>6. D[s] = ByteOf(T, r, CHOOSE q \in 1..n : o[q] = n - 1 - s)
      BY <1>4
    <3>. QED  BY <3>4, <3>5, <3>6
  <2>2. V = [s \in 0..(n - 1) |-> V[s]] /\ D = [s \in 0..(n - 1) |-> D[s]]
    BY <1>3, <1>4
  <2>. QED  BY <2>1, <2>2
<1>. QED  BY <1>9, <1>10 DEF V, D

LEMMA SliceOf ==
    ASSUME NEW X, NEW s, NEW m \in Nat \ {0}, NEW c \in Nat, \A i \in 1..c : s[m + i - 1] \in X
    PROVE  SubSeq(s, m, m + c - 1) = [i \in 1..c |-> s[m + i - 1]]
<1>1. m \in Int /\ m + c - 1 \in Int /\ (m + c - 1) - m + 1 = c /\ (c = 0 <=> ~ (m <= m + c - 1))
  OBVIOUS
<1>2. \A i \in m..(m + c - 1) : s[i] \in X
  <2> SUFFICES ASSUME NEW i \in m..(m + c - 1) PROVE s[i] \in X
    OBVIOUS
  <2>1. i - m + 1 \in 1..c /\ m + (i - m + 1) - 1 = i
    OBVIOUS
  <2>2. s[m + (i - m + 1) - 1] \in X
    BY <2>1
  <2>. QED  BY <2>1, <2>2
<1>. DEFINE w == SubSeq(s, m, m + c - 1)
<1>3. /\ w \in Seq(X)
      /\ Len(w) = IF m <= m + c - 1 THEN (m + c - 1) - m + 1 ELSE 0
      /\ \A i \in 1..((m + c - 1) - m + 1) : w[i] = s[m + i - 1]
  BY <1>1, <1>2, SubSeqProperties
<1>. HIDE DEF w
<1>4. Len(w) = c /\ \A i \in 1..c : w[i] = s[m + i - 1]
  BY <1>1, <1>3
<1>5. w = [i \in 1..Len(w) |-> w[i]]
  BY <1>3
<1>6. w = [i \in 1..c |-> s[m + i - 1]]
  BY <1>4, <1>5
<1>. QED  BY <1>6 DEF w

(* Pairs, flattened: the two of the j-th come at 2 * j - 1 and 2 * j.         *)
PairsIn(f, hi, lo, n) == \A j \in 1..n : f[2 * j - 1] = hi[j] /\ f[2 * j] = lo[j]

LEMMA FlattenPairs ==
    ASSUME NEW X, NEW n \in Nat \ {0}, NEW hi \in [1..n -> X], NEW lo \in [1..n -> X],
           NEW ss \in [1..n -> Seq(X)],
           \A j \in 1..n : Len(ss[j]) = 2 /\ ss[j][1] = hi[j] /\ ss[j][2] = lo[j]
    PROVE  PairsIn(FlattenSeq(ss), hi, lo, n)
<1>1. \A j \in 1..n : /\ ss[j] \in Seq(X) /\ Len(ss[j]) = 2
                      /\ ss[j][1] = hi[j] /\ ss[j][2] = lo[j]
  <2>1. \A j \in 1..n : ss[j] \in Seq(X)
    OBVIOUS
  <2>. QED  BY <2>1
<1>2. ss \in [1..n -> Seq(X)]
  OBVIOUS
<1>3. PICK f : IsFlattening(f, ss, n)
  BY <1>2, FlattenFolds
<1>4. f[1] = ss[1] /\ (\A i \in 2..n : f[i] = f[i - 1] \o ss[i]) /\ FlattenSeq(ss) = f[n]
  BY <1>3 DEF IsFlattening
<1>. DEFINE Good(m) == /\ f[m] \in Seq(X) /\ Len(f[m]) = 2 * m
                       /\ \A j \in 1..m : f[m][2 * j - 1] = hi[j] /\ f[m][2 * j] = lo[j]
            Bad == {m \in Nat : m \in 1..n /\ ~ Good(m)}
<1>5. Good(1)
  <2>1. 1 \in 1..n /\ \A j \in 1..1 : j = 1
    OBVIOUS
  <2>. QED  BY <1>1, <1>4, <2>1
<1>6. ASSUME NEW m \in 2..n, Good(m - 1) PROVE Good(m)
  <2>1. m \in 1..n /\ m - 1 \in Nat
    OBVIOUS
  <2>2. PICK a \in Seq(X) : a = f[m - 1]
    BY <1>6
  <2>3. PICK b \in Seq(X) : b = ss[m] /\ Len(b) = 2 /\ b[1] = hi[m] /\ b[2] = lo[m]
    BY <1>1, <2>1
  <2>4. f[m] = a \o b
    BY <1>4, <2>2, <2>3
  <2>5. Len(a) = 2 * m - 2 /\ \A j \in 1..(m - 1) : a[2 * j - 1] = hi[j] /\ a[2 * j] = lo[j]
    <3>1. Len(a) = 2 * (m - 1) /\ 2 * (m - 1) = 2 * m - 2
      BY <1>6, <2>1, <2>2
    <3>2. \A j \in 1..(m - 1) : a[2 * j - 1] = hi[j] /\ a[2 * j] = lo[j]
      BY <1>6, <2>2
    <3>. QED  BY <3>1, <3>2
  <2>6. /\ a \o b \in Seq(X) /\ Len(a \o b) = Len(a) + Len(b)
        /\ \A i \in 1..(Len(a) + Len(b)) : (a \o b)[i] = IF i <= Len(a) THEN a[i] ELSE b[i - Len(a)]
    BY ConcatProperties
  <2>7. Len(a) + Len(b) = 2 * m
    <3>1. (2 * m - 2) + 2 = 2 * m
      BY <2>1
    <3>. QED  BY <2>3, <2>5, <3>1
  <2>8. \A i \in 1..(2 * m) : f[m][i] = IF i <= 2 * m - 2 THEN a[i] ELSE b[i - (2 * m - 2)]
    BY <2>4, <2>5, <2>6, <2>7
  <2>9. ASSUME NEW j \in 1..m PROVE f[m][2 * j - 1] = hi[j] /\ f[m][2 * j] = lo[j]
    <3>1. 2 * j - 1 \in 1..(2 * m) /\ 2 * j \in 1..(2 * m)
      BY <2>1
    <3>2. CASE j = m
      <4>1. /\ ~ (2 * m - 1 <= 2 * m - 2) /\ ~ (2 * m <= 2 * m - 2)
            /\ (2 * m - 1) - (2 * m - 2) = 1 /\ 2 * m - (2 * m - 2) = 2
        BY <2>1
      <4>. QED  BY <2>3, <2>8, <3>1, <3>2, <4>1
    <3>3. CASE j # m
      <4>1. j \in 1..(m - 1) /\ 2 * j - 1 <= 2 * m - 2 /\ 2 * j <= 2 * m - 2
        BY <2>1, <3>3
      <4>. QED  BY <2>5, <2>8, <3>1, <4>1
    <3>. QED  BY <3>2, <3>3
  <2>. QED  BY <2>4, <2>6, <2>7, <2>9
<1>7. Good(n)
  <2> SUFFICES ASSUME n \in Bad PROVE FALSE
    <3>1. n \in Nat /\ n \in 1..n
      OBVIOUS
    <3>. HIDE DEF Good
    <3>. QED  BY <3>1
  <2>1. PICK m \in Bad : \A l \in Bad : m <= l
    BY Smallest
  <2>2. m \in 1..n /\ ~ Good(m)
    BY <2>1
  <2>3. m # 1
    BY <1>5, <2>2
  <2>4. m - 1 \in 1..n /\ m \in 2..n /\ m - 1 \notin Bad
    <3>1. m - 1 \in 1..n /\ m \in 2..n /\ m - 1 \in Nat /\ ~ (m <= m - 1)
      BY <2>2, <2>3
    <3>. HIDE DEF Bad
    <3>. QED  BY <2>1, <3>1
  <2>5. Good(m - 1)
    <3>. HIDE DEF Good
    <3>. QED  BY <2>4
  <2>. QED  BY <1>6, <2>2, <2>4, <2>5
<1>. QED  BY <1>4, <1>7 DEF PairsIn

(* Of an answer, a register is given the bytes of its own words.              *)
LEMMA MergedIs ==
    ASSUME NEW q, NEW T, NEW t, IsTable(t), IsRequest(q, T, t), NEW k \in DOMAIN q.registers
    PROVE  LET r == q.registers[k]
           IN  /\ IsRegister(r)
               /\ \A p \in 1..Len(r.order) : Merged(Registers(q), q.registers, k)[p] = ByteOf(T, r, p)
<1>. DEFINE rs == q.registers
            n == Len(rs)
            r == rs[k]
            words == Registers(q)
            prefix == SubSeq(rs, 1, k - 1)
<1>1. /\ Chain(rs, n) /\ rs \in Seq(Range(t)) /\ q.address = rs[1].address /\ q.count = WordCount(rs)
      /\ q.table = T
  BY DEF IsRequest
<1>2. n \in Nat \ {0} /\ k \in 1..n /\ 1 \in 1..n /\ n \in 1..n /\ k - 1 \in 0..n /\ k - 1 # n /\ (k - 1) + 1 = k
  <2>1. n \in Nat \ {0} /\ k \in 1..n
    BY <1>1 DEF Chain
  <2>. QED  BY <2>1
<1>3. IsRegister(r) /\ \A i \in 1..n : rs[i].address \in Nat /\ Words(rs[i]) \in Nat \ {0}
  <2>1. IsRegister(r)
    BY <1>1, <1>2 DEF Chain
  <2>. QED  BY <1>1, <2>1, ChainPlaces
<1>4. PICK a \in Nat, w \in Nat \ {0}, b \in Nat : a = r.address /\ w = Words(r) /\ b = q.address
  BY <1>1, <1>2, <1>3
<1>5. Len(r.order) = 2 * w
  BY <1>3, <1>4, RegisterIs
<1>6. WordCount(prefix) = a - b /\ a - b \in Nat
  <2>1. DOMAIN prefix = 1..(k - 1) /\ \A i \in 1..(k - 1) : prefix[i] = rs[i]
    <3>1. k - 1 \in Nat /\ 1 + (k - 1) - 1 = k - 1 /\ \A i \in 1..(k - 1) : 1 + i - 1 = i /\ i \in 1..n
      BY <1>2
    <3>2. \A i \in 1..n : rs[i] \in Range(t)
      BY <1>1, ElementOfSeq
    <3>. HIDE DEF n
    <3>3. \A i \in 1..(k - 1) : rs[1 + i - 1] \in Range(t)
      BY <3>1, <3>2
    <3>4. 1 \in Nat \ {0}
      OBVIOUS
    <3>5. SubSeq(rs, 1, 1 + (k - 1) - 1) = [i \in 1..(k - 1) |-> rs[1 + i - 1]]
      BY <3>1, <3>3, <3>4, SliceOf
    <3>. QED  BY <3>1, <3>5
  <2>. HIDE DEF n, prefix
  <2>2. WordCount(prefix) = rs[(k - 1) + 1].address - rs[1].address /\ WordCount(prefix) \in Nat
    <3>1. Chain(rs, n) /\ k - 1 \in 0..n /\ k - 1 # n
      BY <1>1, <1>2
    <3>. QED  BY <2>1, <3>1, ChainSum
  <2>. QED  BY <1>1, <1>2, <1>4, <2>2
<1>7. q.count \in Nat /\ (a - b) + w <= q.count
  <2>1. WordCount(rs) = rs[n].address + Words(rs[n]) - rs[1].address /\ WordCount(rs) \in Nat
    <3>1. DOMAIN rs = 1..n /\ n \in 0..n /\ n # 0
      BY <1>1, <1>2 DEF Chain
    <3>. HIDE DEF n
    <3>. QED  BY <1>1, <3>1, ChainSum
  <2>2. PICK c \in Nat, v \in Nat : c = rs[n].address /\ v = Words(rs[n])
    BY <1>2, <1>3
  <2>3. a + w <= c + v
    <3>1. CASE k = n
      BY <1>4, <2>2, <3>1
    <3>2. CASE k # n
      <4>1. a + w <= c
        <5>1. k < n
          BY <1>2, <3>2
        <5>. HIDE DEF n
        <5>. QED  BY <1>1, <1>2, <1>4, <2>2, <5>1, ChainOrder
      <4>. QED  BY <2>2, <4>1
    <3>. QED  BY <3>1, <3>2
  <2>4. WordCount(rs) = c + v - b
    BY <1>1, <1>4, <2>1, <2>2
  <2>5. (a - b) + w <= c + v - b
    <3>1. \A x, y, z, u, v2 \in Nat : x + y <= z + u => (x - v2) + y <= z + u - v2
      OBVIOUS
    <3>. QED  BY <2>3, <3>1
  <2>6. q.count = c + v - b
    BY <1>1, <2>4
  <2>. QED  BY <1>1, <2>1, <2>5, <2>6
<1>. DEFINE hi == [j \in 1..w |-> Byte(T, a + j - 1, 0)]
            lo == [j \in 1..w |-> Byte(T, a + j - 1, 1)]
            X == {Byte(T, d, h) : d \in Nat, h \in {0, 1}}
<1>8. hi \in [1..w -> X] /\ lo \in [1..w -> X]
  <2>1. \A j \in 1..w : a + j - 1 \in Nat
    BY <1>4
  <2>. QED  BY <2>1
<1>9. SubSeq(words, (a - b) + 1, (a - b) + w) = [j \in 1..w |-> <<hi[j], lo[j]>>]
  <2>1. ASSUME NEW j \in 1..w PROVE words[((a - b) + 1) + j - 1] = <<hi[j], lo[j]>>
    <3>1. PICK i \in 1..q.count : i = ((a - b) + 1) + j - 1 /\ b + i - 1 = a + j - 1
      <4>1. ((a - b) + 1) + j - 1 \in 1..q.count
        BY <1>4, <1>6, <1>7
      <4>2. b + (((a - b) + 1) + j - 1) - 1 = a + j - 1
        BY <1>4
      <4>. QED  BY <4>1, <4>2
    <3>2. words[i] = <<Byte(T, b + i - 1, 0), Byte(T, b + i - 1, 1)>>
      BY <1>1, <1>4 DEF Registers
    <3>. QED  BY <3>1, <3>2
  <2>2. ASSUME NEW j \in 1..w PROVE <<hi[j], lo[j]>> \in X \X X
    BY <1>8
  <2>3. (a - b) + 1 \in Nat \ {0} /\ ((a - b) + 1) + w - 1 = (a - b) + w
    BY <1>4, <1>6
  <2>. HIDE DEF words, hi, lo, X
  <2>4. \A j \in 1..w : words[((a - b) + 1) + j - 1] \in X \X X
    BY <2>1, <2>2
  <2>5. SubSeq(words, (a - b) + 1, ((a - b) + 1) + w - 1) = [j \in 1..w |-> words[((a - b) + 1) + j - 1]]
    <3>1. PICK m \in Nat \ {0} : m = (a - b) + 1
      BY <2>3
    <3>2. w \in Nat /\ \A j \in 1..w : words[m + j - 1] \in X \X X
      BY <2>4, <3>1
    <3>3. SubSeq(words, m, m + w - 1) = [j \in 1..w |-> words[m + j - 1]]
      BY <3>2, SliceOf
    <3>. QED  BY <3>1, <3>3
  <2>. QED  BY <2>1, <2>3, <2>5
<1>. DEFINE ss == [j \in 1..w |-> <<hi[j], lo[j]>>]
            F == FlattenSeq(ss)
<1>10. Merged(words, rs, k) = F
  <2>. HIDE DEF words, hi, lo
  <2>. QED  BY <1>4, <1>6, <1>9 DEF Merged
<1>11. \A j \in 1..w : F[2 * j - 1] = hi[j] /\ F[2 * j] = lo[j]
  <2>1. w \in Nat \ {0}
    BY <1>4
  <2>. HIDE DEF hi, lo, X
  <2>2. \A j \in 1..w : /\ ss[j] \in Seq(X) /\ Len(ss[j]) = 2
                        /\ ss[j][1] = hi[j] /\ ss[j][2] = lo[j]
    <3>1. \A x, y \in X : <<x, y>> \in Seq(X) /\ Len(<<x, y>>) = 2 /\ <<x, y>>[1] = x /\ <<x, y>>[2] = y
      OBVIOUS
    <3>2. \A j \in 1..w : hi[j] \in X /\ lo[j] \in X
      BY <1>8
    <3>. QED  BY <3>1, <3>2
  <2>3. ss \in [1..w -> Seq(X)]
    BY <2>2
  <2>. HIDE DEF ss
  <2>4. PairsIn(FlattenSeq(ss), hi, lo, w)
    <3>1. \A j \in 1..w : Len(ss[j]) = 2 /\ ss[j][1] = hi[j] /\ ss[j][2] = lo[j]
      BY <2>2
    <3>. HIDE DEF F
    <3>. QED  BY <1>8, <2>1, <2>3, <3>1, FlattenPairs
  <2>. QED  BY <2>4 DEF PairsIn
<1>12. ASSUME NEW p \in 1..(2 * w) PROVE F[p] = ByteOf(T, r, p)
  <2>. HIDE DEF F
  <2>1. PICK d \in Nat, h \in {0, 1} : p = 2 * d + h + 1 /\ (p - 1) \div 2 = d /\ (p - 1) % 2 = h
    <3>1. p - 1 \in Nat /\ (p - 1) \div 2 \in Nat /\ (p - 1) % 2 \in {0, 1}
          /\ p - 1 = 2 * ((p - 1) \div 2) + ((p - 1) % 2)
      BY <1>4
    <3>2. p = 2 * ((p - 1) \div 2) + ((p - 1) % 2) + 1
      BY <3>1
    <3>. QED  BY <3>1, <3>2
  <2>2. d + 1 \in 1..w
    BY <1>4, <2>1
  <2>3. ByteOf(T, r, p) = Byte(T, a + d, h)
    BY <1>4, <2>1 DEF ByteOf
  <2>4. hi[d + 1] = Byte(T, a + d, 0) /\ lo[d + 1] = Byte(T, a + d, 1)
    <3>1. a + (d + 1) - 1 = a + d
      BY <1>4
    <3>. QED  BY <2>2, <3>1
  <2>. HIDE DEF hi, lo
  <2>5. CASE h = 0
    <3>1. 2 * (d + 1) - 1 = p
      BY <2>1, <2>5
    <3>. QED  BY <1>11, <2>2, <2>3, <2>4, <2>5, <3>1
  <2>6. CASE h = 1
    <3>1. 2 * (d + 1) = p
      BY <2>1, <2>6
    <3>. QED  BY <1>11, <2>2, <2>3, <2>4, <2>6, <3>1
  <2>. QED  BY <2>1, <2>5, <2>6
<1>. HIDE DEF F, words, rs
<1>. QED  BY <1>3, <1>5, <1>10, <1>12 DEF words, rs

(* What FieldsExact asks of the field of a register.                          *)
FieldFor(f, T, r) ==
    /\ f.name = r.name
    /\ Range(f.value) = Range(Documented(T, r))
    /\ SelfInverse(r.order) => f.value = Documented(T, r)

(* An answer yields a field for each register of its request.                 *)
LEMMA ParseIs ==
    ASSUME NEW q, NEW T, NEW t, IsTable(t), IsRequest(q, T, t)
    PROVE  /\ Parse(q) \in Seq(Range(Parse(q))) /\ Len(Parse(q)) = Len(q.registers)
           /\ DOMAIN Parse(q) = 1..Len(q.registers) /\ Len(q.registers) \in Nat \ {0}
           /\ \A r \in Range(q.registers) : \E i \in DOMAIN Parse(q) : FieldFor(Parse(q)[i], T, r)
<1>. DEFINE n == Len(q.registers)
            P == Parse(q)
<1>1. n \in Nat \ {0} /\ DOMAIN q.registers = 1..n
  BY RequestIs
<1>. HIDE DEF n
<1>2. DOMAIN P = 1..n
  BY <1>1 DEF Parse
<1>3. P = [k \in 1..n |-> P[k]]
  BY <1>1 DEF Parse
<1>4. \A k \in 1..n : P[k] = [name |-> q.registers[k].name,
                              value |-> Value(Merged(Registers(q), q.registers, k), q.registers[k].order)]
  BY <1>1 DEF Parse
<1>. HIDE DEF P
<1>5. P \in Seq(Range(P)) /\ Len(P) = n
  <2>1. \A k \in 1..n : P[k] \in Range(P)
    BY <1>2 DEF Range
  <2>2. P \in [1..n -> Range(P)]
    BY <1>3, <2>1
  <2>. QED  BY <1>1, <2>2
<1>6. ASSUME NEW r \in Range(q.registers) PROVE \E i \in DOMAIN P : FieldFor(P[i], T, r)
  <2>1. PICK k \in 1..n : r = q.registers[k]
    BY <1>1 DEF Range
  <2>. DEFINE word == Merged(Registers(q), q.registers, k)
  <2>2. IsRegister(r) /\ \A p \in 1..Len(r.order) : word[p] = ByteOf(T, r, p)
    BY <1>1, <2>1, MergedIs
  <2>3. P[k].name = r.name /\ P[k].value = Value(word, r.order)
    <3>1. P[k] = [name |-> q.registers[k].name, value |-> Value(word, q.registers[k].order)]
      BY <1>4
    <3>2. P[k] = [name |-> r.name, value |-> Value(word, r.order)]
      BY <2>1, <3>1
    <3>. HIDE DEF word
    <3>. QED  BY <3>2
  <2>. HIDE DEF word
  <2>4. /\ Range(Value(word, r.order)) = Range(Documented(T, r))
        /\ SelfInverse(r.order) => Value(word, r.order) = Documented(T, r)
    BY <2>2, ValueRight
  <2>. QED  BY <1>2, <2>3, <2>4 DEF FieldFor
<1>. QED  BY <1>1, <1>2, <1>5, <1>6 DEF n, P

-----------------------------------------------------------------------------
(* The requests left of a plan and the fields read *)

TableOf(s, T) == IF T = "input" THEN s.input ELSE s.output

(* The running number of fields: those read, and those that the requests left *)
(* will bring.                                                                *)
Counts(c, p, f, total) ==
    /\ c \in [0..Len(p) -> Nat] /\ c[0] = Len(f) /\ c[Len(p)] = total
    /\ \A i \in 1..Len(p) : c[i] = c[i - 1] + Len(p[i].registers)

(* Requests p are left of a poll of slave s and fields f are read: the        *)
(* requests of a table are in order, and each register is asked for by one of *)
(* them or has its field.                                                     *)
Planned(s, p, f) ==
    /\ p \in Seq(Range(p)) /\ f \in Seq(Range(f))
    /\ \A i \in DOMAIN p : p[i].table \in Tables /\ IsRequest(p[i], p[i].table, TableOf(s, p[i].table))
    /\ \A i, j \in DOMAIN p : i < j /\ p[i].table = p[j].table => Ahead(p[i], p[j])
    /\ \A T \in Tables : \A r \in Range(TableOf(s, T)) :
          \/ \E i \in DOMAIN p : p[i].table = T /\ r \in Range(p[i].registers)
          \/ \E i \in DOMAIN f : FieldFor(f[i], T, r)
    /\ \E c : Counts(c, p, f, Len(s.input) + Len(s.output))

(* One sequence is two, one after the other.                                  *)
Joins(w, a, b, n, m) ==
    /\ n \in Nat /\ m \in Nat /\ w \in Seq(Range(w)) /\ Len(w) = n + m
    /\ DOMAIN a = 1..n /\ DOMAIN b = 1..m /\ DOMAIN w = 1..(n + m)
    /\ \A i \in 1..n : w[i] = a[i]
    /\ \A i \in 1..m : w[n + i] = b[i]
    /\ \A i \in 1..(n + m) : i > n => i - n \in 1..m /\ w[i] = b[i - n]

LEMMA JoinedIs ==
    ASSUME NEW a, a \in Seq(Range(a)), NEW b, b \in Seq(Range(b))
    PROVE  Joins(a \o b, a, b, Len(a), Len(b))
<1>. DEFINE X == Range(a) \cup Range(b)
<1>1. /\ Len(a) \in Nat /\ DOMAIN a = 1..Len(a) /\ Len(b) \in Nat /\ DOMAIN b = 1..Len(b)
      /\ a = [i \in 1..Len(a) |-> a[i]] /\ b = [i \in 1..Len(b) |-> b[i]]
  BY LenProperties
<1>2. a \in Seq(X) /\ b \in Seq(X)
  <2>1. \A i \in 1..Len(a) : a[i] \in X
    BY <1>1 DEF Range
  <2>2. \A i \in 1..Len(b) : b[i] \in X
    BY <1>1 DEF Range
  <2>3. a \in [1..Len(a) -> X] /\ b \in [1..Len(b) -> X]
    BY <1>1, <2>1, <2>2
  <2>. QED  BY <1>1, <2>3
<1>. DEFINE n == Len(a)
            m == Len(b)
            w == a \o b
<1>3. /\ w \in Seq(X) /\ Len(w) = n + m
      /\ \A i \in 1..(n + m) : w[i] = IF i <= n THEN a[i] ELSE b[i - n]
  BY <1>2, ConcatProperties
<1>. HIDE DEF w, n, m
<1>4. n \in Nat /\ m \in Nat
  BY <1>1 DEF n, m
<1>5. DOMAIN w = 1..(n + m) /\ w = [i \in 1..(n + m) |-> w[i]]
  BY <1>3, LenProperties
<1>6. w \in Seq(Range(w))
  <2>1. \A i \in 1..(n + m) : w[i] \in Range(w)
    BY <1>5 DEF Range
  <2>2. w \in [1..(n + m) -> Range(w)]
    BY <1>5, <2>1
  <2>3. n + m \in Nat
    BY <1>4
  <2>. QED  BY <2>2, <2>3
<1>7. ASSUME NEW i \in 1..n PROVE w[i] = a[i]
  <2>1. i \in 1..(n + m) /\ i <= n
    BY <1>4
  <2>. QED  BY <1>3, <2>1
<1>8. ASSUME NEW i \in 1..(n + m), i > n PROVE i - n \in 1..m /\ w[i] = b[i - n]
  <2>1. i - n \in 1..m /\ ~ (i <= n)
    BY <1>4, <1>8
  <2>. QED  BY <1>3, <2>1
<1>9. ASSUME NEW i \in 1..m PROVE w[n + i] = b[i]
  <2>1. n + i \in 1..(n + m) /\ n + i > n /\ (n + i) - n = i
    BY <1>4
  <2>. QED  BY <1>8, <2>1
<1>10. DOMAIN a = 1..n /\ DOMAIN b = 1..m
  BY <1>1 DEF n, m
<1>11. Joins(w, a, b, n, m)
  BY <1>3, <1>4, <1>5, <1>6, <1>7, <1>8, <1>9, <1>10 DEF Joins
<1>. QED  BY <1>11 DEF n, m, w

TablesOK(s) == \A T \in Tables : IsTable(TableOf(s, T))

(* A new plan is for every register.                                          *)
LEMMA PlannedFirst ==
    ASSUME NEW s, TablesOK(s), Spacing(s.input), Spacing(s.output)
    PROVE  Planned(s, Requests("output", s.output) \o Requests("input", s.input), <<>>)
<1>. DEFINE a == Requests("output", s.output)
            b == Requests("input", s.input)
            p == a \o b
            to == TableOf(s, "output")
            ti == TableOf(s, "input")
<1>1. to = s.output /\ ti = s.input /\ IsTable(to) /\ IsTable(ti) /\ {"output", "input"} = Tables
  BY DEF TableOf, TablesOK, Tables
<1>n. PICK n \in Nat : \E c : Covers(a, "output", to, n, c)
  <2>1. \E n, c : Covers(a, "output", to, n, c)
    BY <1>1, RequestsAre
  <2>. HIDE DEF a, to
  <2>. QED  BY <2>1 DEF Covers
<1>2. PICK c \in [0..n -> Nat] : Covers(a, "output", to, n, c)
  <2>. HIDE DEF a, to
  <2>. QED  BY <1>n DEF Covers
<1>m. PICK m \in Nat : \E d : Covers(b, "input", ti, m, d)
  <2>1. \E m, d : Covers(b, "input", ti, m, d)
    BY <1>1, RequestsAre
  <2>. HIDE DEF b, ti
  <2>. QED  BY <2>1 DEF Covers
<1>3. PICK d \in [0..m -> Nat] : Covers(b, "input", ti, m, d)
  <2>. HIDE DEF b, ti
  <2>. QED  BY <1>m DEF Covers
<1>. HIDE DEF a, b, to, ti
<1>4. a \in Seq(Range(a)) /\ Len(a) = n /\ b \in Seq(Range(b)) /\ Len(b) = m
  <2>1. DOMAIN a = 1..n /\ DOMAIN b = 1..m
    BY <1>2, <1>3 DEF Covers
  <2>2. (\A g \in 1..n : a[g] \in Range(a)) /\ (\A g \in 1..m : b[g] \in Range(b))
    BY <2>1 DEF Range
  <2>3. a \in [1..n -> Range(a)] /\ b \in [1..m -> Range(b)]
    BY <1>2, <1>3, <2>2 DEF Covers
  <2>. QED  BY <2>3
<1>5. /\ p \in Seq(Range(p)) /\ Len(p) = n + m /\ DOMAIN p = 1..(n + m)
      /\ \A g \in 1..n : p[g] = a[g]
      /\ \A g \in 1..m : p[n + g] = b[g]
      /\ \A g \in 1..(n + m) : g > n => g - n \in 1..m /\ p[g] = b[g - n]
  <2>1. Joins(p, a, b, n, m)
    BY <1>4, JoinedIs
  <2>. HIDE DEF p
  <2>. QED  BY <2>1 DEF Joins
<1>. HIDE DEF p
<1>6. \A g \in 1..(n + m) : g <= n => g \in 1..n
  OBVIOUS
<1>7. ASSUME NEW g \in 1..(n + m)
      PROVE  /\ g <= n => p[g] = a[g] /\ p[g].table = "output"
             /\ g > n => p[g] = b[g - n] /\ p[g].table = "input"
             /\ p[g].table \in Tables /\ IsRequest(p[g], p[g].table, TableOf(s, p[g].table))
  <2>1. CASE g <= n
    <3>1. p[g] = a[g] /\ IsRequest(a[g], "output", to) /\ ~ (g > n)
      BY <1>2, <1>5, <1>6, <2>1 DEF Covers
    <3>. QED  BY <1>1, <2>1, <3>1 DEF to, IsRequest
  <2>2. CASE g > n
    <3>1. p[g] = b[g - n] /\ IsRequest(b[g - n], "input", ti) /\ ~ (g <= n)
      <4>1. g - n \in 1..m /\ p[g] = b[g - n]
        BY <1>5, <2>2
      <4>2. \A h \in 1..m : IsRequest(b[h], "input", ti)
        BY <1>3 DEF Covers
      <4>3. ~ (g <= n)
        BY <2>2
      <4>. QED  BY <4>1, <4>2, <4>3
    <3>. QED  BY <1>1, <2>2, <3>1 DEF ti, IsRequest
  <2>. QED  BY <2>1, <2>2
<1>8. ASSUME NEW g \in 1..(n + m), NEW h \in 1..(n + m), g < h, p[g].table = p[h].table
      PROVE  Ahead(p[g], p[h])
  <2>1. CASE h <= n
    <3>1. g \in 1..n /\ h \in 1..n
      BY <1>8, <2>1
    <3>. QED  BY <1>2, <1>5, <1>8, <3>1 DEF Covers
  <2>2. CASE g > n
    <3>1. g - n \in 1..m /\ h - n \in 1..m /\ p[g] = b[g - n] /\ p[h] = b[h - n] /\ g - n < h - n
      <4>1. h > n /\ g - n < h - n
        BY <1>8, <2>2
      <4>. QED  BY <1>5, <2>2, <4>1
    <3>. QED  BY <1>3, <3>1 DEF Covers
  <2>3. CASE g <= n /\ h > n
    BY <1>7, <1>8, <2>3
  <2>. QED  BY <2>1, <2>2, <2>3
<1>9. ASSUME NEW T \in Tables, NEW r \in Range(TableOf(s, T))
      PROVE  \E g \in DOMAIN p : p[g].table = T /\ r \in Range(p[g].registers)
  <2>1. CASE T = "output"
    <3>1. PICK g \in 1..n : r \in Range(a[g].registers)
      BY <1>2, <2>1 DEF to, Covers
    <3>2. g \in 1..(n + m) /\ g <= n
      OBVIOUS
    <3>. QED  BY <1>5, <1>7, <2>1, <3>1, <3>2
  <2>2. CASE T = "input"
    <3>1. PICK g \in 1..m : r \in Range(b[g].registers)
      BY <1>3, <2>2 DEF ti, Covers
    <3>2. n + g \in 1..(n + m) /\ n + g > n
      OBVIOUS
    <3>. QED  BY <1>5, <1>7, <2>2, <3>1, <3>2
  <2>. QED  BY <2>1, <2>2 DEF Tables
<1>. DEFINE e == [g \in 0..(n + m) |-> IF g <= n THEN c[g] ELSE c[n] + d[g - n]]
<1>10. /\ e \in [0..(n + m) -> Nat] /\ e[0] = 0 /\ e[n + m] = Len(to) + Len(ti)
       /\ \A g \in 1..(n + m) : e[g] = e[g - 1] + Len(p[g].registers)
  <2>1. \A g \in 0..(n + m) : (g <= n => g \in 0..n) /\ (~ (g <= n) => g - n \in 0..m)
    OBVIOUS
  <2>2. e \in [0..(n + m) -> Nat]
    <3>1. n \in 0..n
      OBVIOUS
    <3>2. \A g \in 0..(n + m) : (IF g <= n THEN c[g] ELSE c[n] + d[g - n]) \in Nat
      BY <2>1, <3>1
    <3>. QED  BY <3>2
  <2>3. \A g \in 0..(n + m) : (g <= n => e[g] = c[g]) /\ (g >= n => e[g] = c[n] + d[g - n])
    <3> SUFFICES ASSUME NEW g \in 0..(n + m)
                 PROVE  (g <= n => e[g] = c[g]) /\ (g >= n => e[g] = c[n] + d[g - n])
      OBVIOUS
    <3>1. CASE g = n
      <4>1. e[g] = c[n] /\ g - n = 0 /\ c[n] \in Nat
        BY <3>1
      <4>. QED  BY <1>3, <3>1, <4>1 DEF Covers
    <3>2. CASE g # n
      BY <3>2
    <3>. QED  BY <3>1, <3>2
  <2>. HIDE DEF e
  <2>4. e[0] = 0 /\ e[n + m] = Len(to) + Len(ti)
    <3>1. 0 \in 0..(n + m) /\ 0 <= n /\ n + m \in 0..(n + m) /\ n + m >= n /\ (n + m) - n = m
      OBVIOUS
    <3>. QED  BY <1>2, <1>3, <2>3, <3>1 DEF Covers
  <2>5. ASSUME NEW g \in 1..(n + m) PROVE e[g] = e[g - 1] + Len(p[g].registers)
    <3>0. g \in 0..(n + m) /\ g - 1 \in 0..(n + m)
      OBVIOUS
    <3>1. CASE g <= n
      <4>1. g \in 1..n /\ g - 1 <= n
        BY <3>1
      <4>2. e[g] = c[g] /\ e[g - 1] = c[g - 1] /\ p[g] = a[g]
        BY <1>5, <2>3, <3>0, <3>1, <4>1
      <4>3. c[g] = c[g - 1] + Len(a[g].registers)
        BY <1>2, <4>1 DEF Covers
      <4>. QED  BY <4>2, <4>3
    <3>2. CASE g > n
      <4>1. PICK h \in 1..m : h = g - n /\ g >= n /\ g - 1 >= n /\ (g - 1) - n = h - 1
        <5>1. g - n \in 1..m /\ g >= n /\ g - 1 >= n /\ (g - 1) - n = (g - n) - 1
          BY <3>2
        <5>. QED  BY <5>1
      <4>2. e[g] = c[n] + d[h] /\ e[g - 1] = c[n] + d[h - 1] /\ p[g] = b[h]
        BY <1>5, <2>3, <3>0, <3>2, <4>1
      <4>3. d[h] = d[h - 1] + Len(b[h].registers)
        BY <1>3, <4>1 DEF Covers
      <4>4. PICK x \in Nat, y \in Nat, z \in Nat : x = c[n] /\ y = d[h - 1] /\ z = Len(b[h].registers)
        <5>1. n \in 0..n /\ h - 1 \in 0..m
          OBVIOUS
        <5>2. Len(b[h].registers) \in Nat
          BY <1>3, RequestIs DEF Covers
        <5>. QED  BY <5>1, <5>2
      <4>5. e[g] = x + (y + z) /\ e[g - 1] = x + y
        BY <4>2, <4>3, <4>4
      <4>6. x + (y + z) = (x + y) + z
        OBVIOUS
      <4>7. Len(p[g].registers) = z
        BY <4>2, <4>4
      <4>. QED  BY ONLY <4>5, <4>6, <4>7
    <3>. QED  BY <3>1, <3>2
  <2>. QED  BY <2>2, <2>4, <2>5
<1>11. Len(to) + Len(ti) = Len(s.input) + Len(s.output)
  <2>1. Len(to) \in Nat /\ Len(ti) \in Nat
    BY <1>1, TableSorts
  <2>2. Len(to) + Len(ti) = Len(ti) + Len(to)
    BY <2>1
  <2>. QED  BY <1>1, <2>2
<1>12. Counts(e, p, <<>>, Len(s.input) + Len(s.output))
  <2>1. Len(<<>>) = 0
    OBVIOUS
  <2>. HIDE DEF e
  <2>. QED  BY <1>5, <1>10, <1>11, <2>1 DEF Counts
<1>13. <<>> \in Seq(Range(<<>>))
  OBVIOUS
<1>14. Planned(s, p, <<>>)
  <2>. HIDE DEF e
  <2>. QED  BY <1>5, <1>7, <1>8, <1>9, <1>12, <1>13 DEF Planned
<1>. QED  BY <1>14 DEF p, a, b

(* The next answer takes a request off the plan and brings its fields.        *)
LEMMA PlannedNext ==
    ASSUME NEW s, TablesOK(s), NEW p, NEW f, Planned(s, p, f), p # <<>>
    PROVE  Planned(s, Tail(p), f \o Parse(Head(p)))
<1>. DEFINE q == Head(p)
            P == Parse(q)
            u == Tail(p)
            g == f \o P
            total == Len(s.input) + Len(s.output)
<1>1. p \in Seq(Range(p)) /\ f \in Seq(Range(f)) /\ \E c : Counts(c, p, f, total)
  BY DEF Planned
<1>2. PICK n \in Nat \ {0} : Len(p) = n /\ DOMAIN p = 1..n
  BY <1>1, LenProperties, EmptySeq
<1>3. q = p[1]
  BY <1>1
<1>4. Len(u) = n - 1 /\ DOMAIN u = 1..(n - 1) /\ u \in Seq(Range(u))
      /\ \A i \in 1..(n - 1) : i + 1 \in 1..n /\ u[i] = p[i + 1]
  <2>1. u \in Seq(Range(p)) /\ Len(u) = n - 1 /\ \A i \in 1..(n - 1) : u[i] = p[i + 1]
    BY <1>1, <1>2, HeadTailProperties
  <2>2. DOMAIN u = 1..(n - 1) /\ u = [i \in 1..(n - 1) |-> u[i]]
    BY <2>1, LenProperties
  <2>3. u \in Seq(Range(u))
    <3>1. \A i \in 1..(n - 1) : u[i] \in Range(u)
      BY <2>2 DEF Range
    <3>2. u \in [1..(n - 1) -> Range(u)]
      BY <2>2, <3>1
    <3>3. PICK m \in Nat : m = n - 1
      BY <1>2
    <3>. HIDE DEF u
    <3>. QED  BY <3>2, <3>3
  <2>4. \A i \in 1..(n - 1) : i + 1 \in 1..n
    BY <1>2
  <2>. QED  BY <2>1, <2>2, <2>3, <2>4
<1>5. q.table \in Tables /\ IsRequest(q, q.table, TableOf(s, q.table))
  <2>1. 1 \in 1..n
    BY <1>2
  <2>. QED  BY <1>2, <1>3, <2>1 DEF Planned
<1>6. /\ P \in Seq(Range(P)) /\ Len(P) = Len(q.registers)
      /\ DOMAIN P = 1..Len(q.registers) /\ Len(q.registers) \in Nat \ {0}
      /\ \A r \in Range(q.registers) : \E i \in DOMAIN P : FieldFor(P[i], q.table, r)
  BY <1>5, ParseIs DEF TablesOK
<1>. HIDE DEF P, u, q
<1>7. Joins(g, f, P, Len(f), Len(P))
  BY <1>1, <1>6, JoinedIs
<1>. HIDE DEF g
<1>8. /\ g \in Seq(Range(g)) /\ Len(g) = Len(f) + Len(P) /\ Len(f) \in Nat
      /\ \A i \in DOMAIN f : i \in DOMAIN g /\ g[i] = f[i]
      /\ \A i \in DOMAIN P : Len(f) + i \in DOMAIN g /\ g[Len(f) + i] = P[i]
  <2>1. PICK k \in Nat, m \in Nat : k = Len(f) /\ m = Len(P)
    BY <1>7 DEF Joins
  <2>2. (\A i \in 1..k : i \in 1..(k + m)) /\ (\A i \in 1..m : k + i \in 1..(k + m))
    OBVIOUS
  <2>. QED  BY <1>7, <2>1, <2>2 DEF Joins
<1>9. \A i \in 1..(n - 1) : u[i].table \in Tables /\ IsRequest(u[i], u[i].table, TableOf(s, u[i].table))
  BY <1>2, <1>4 DEF Planned
<1>10. ASSUME NEW i \in 1..(n - 1), NEW j \in 1..(n - 1), i < j, u[i].table = u[j].table
       PROVE  Ahead(u[i], u[j])
  <2>1. i + 1 < j + 1 /\ i + 1 \in 1..n /\ j + 1 \in 1..n
    BY <1>2, <1>10
  <2>2. \A x, y \in 1..n : x < y /\ p[x].table = p[y].table => Ahead(p[x], p[y])
    BY <1>2 DEF Planned
  <2>. QED  BY <1>4, <1>10, <2>1, <2>2
<1>11. ASSUME NEW T \in Tables, NEW r \in Range(TableOf(s, T))
       PROVE  \/ \E i \in DOMAIN u : u[i].table = T /\ r \in Range(u[i].registers)
              \/ \E i \in DOMAIN g : FieldFor(g[i], T, r)
  <2>1. CASE \E i \in DOMAIN f : FieldFor(f[i], T, r)
    BY <1>8, <2>1
  <2>2. CASE \E i \in DOMAIN p : p[i].table = T /\ r \in Range(p[i].registers)
    <3>1. PICK i \in 1..n : p[i].table = T /\ r \in Range(p[i].registers)
      BY <1>2, <2>2
    <3>2. CASE i = 1
      BY <1>3, <1>6, <1>8, <3>1, <3>2
    <3>3. CASE i # 1
      <4>1. i - 1 \in 1..(n - 1) /\ (i - 1) + 1 = i
        BY <3>3
      <4>. QED  BY <1>4, <3>1, <4>1
    <3>. QED  BY <3>2, <3>3
  <2>. QED  BY <2>1, <2>2 DEF Planned
<1>12. PICK c : Counts(c, p, f, total)
  BY <1>1
<1>13. /\ c \in [0..n -> Nat] /\ c[0] = Len(f) /\ c[n] = total
       /\ \A i \in 1..n : c[i] = c[i - 1] + Len(p[i].registers)
  BY <1>2, <1>12 DEF Counts
<1>. HIDE DEF total
<1>. DEFINE d == [i \in 0..(n - 1) |-> c[i + 1]]
<1>14. Counts(d, u, g, total)
  <2>1. \A i \in 0..(n - 1) : i + 1 \in 0..n /\ d[i] = c[i + 1]
    BY <1>2
  <2>2. d \in [0..(n - 1) -> Nat]
    BY <1>13, <2>1
  <2>. HIDE DEF d
  <2>3. d[0] = Len(g)
    <3>1. d[0] = c[1] /\ 0 + 1 = 1
      BY <1>2, <2>1
    <3>2. 1 \in 1..n /\ 1 - 1 = 0
      BY <1>2
    <3>3. c[1] = c[0] + Len(q.registers)
      BY <1>3, <1>13, <3>2
    <3>. QED  BY <1>6, <1>8, <1>13, <3>1, <3>3
  <2>4. d[n - 1] = total
    <3>1. n - 1 \in 0..(n - 1) /\ (n - 1) + 1 = n
      BY <1>2
    <3>. QED  BY <1>13, <2>1, <3>1
  <2>5. ASSUME NEW i \in 1..(n - 1) PROVE d[i] = d[i - 1] + Len(u[i].registers)
    <3>1. i \in 0..(n - 1) /\ i - 1 \in 0..(n - 1) /\ (i - 1) + 1 = i /\ i + 1 \in 1..n /\ (i + 1) - 1 = i
      BY <1>2
    <3>2. d[i] = c[i + 1] /\ d[i - 1] = c[i] /\ u[i] = p[i + 1]
      <4>1. d[i - 1] = c[(i - 1) + 1]
        BY <2>1, <3>1
      <4>. QED  BY <1>4, <2>1, <3>1, <4>1
    <3>3. c[i + 1] = c[(i + 1) - 1] + Len(p[i + 1].registers)
      BY <1>13, <3>1
    <3>. QED  BY <3>1, <3>2, <3>3
  <2>. QED  BY <1>4, <2>2, <2>3, <2>4, <2>5 DEF Counts
<1>. HIDE DEF d
<1>15. Planned(s, u, g)
  BY <1>4, <1>8, <1>9, <1>10, <1>11, <1>14 DEF Planned, total
<1>. QED  BY <1>15 DEF u, g, P, q

-----------------------------------------------------------------------------
(* The plan and the fields of a slave *)

(* There is no plan before one is made; from then on what is left of it and   *)
(* what has been read make up the registers of the slave.                     *)
PlanInv ==
    /\ CodecInv
    /\ stage \notin {"planned", "read"} => plan = <<>> /\ fields = <<>>
    /\ stage = "read" => plan = <<>>
    /\ stage \in {"planned", "read"} => Planned(slave, plan, fields)

LEMMA PlanInvInit == CodecInit => PlanInv
<1>1. CodecInit => stage = "config" /\ plan = <<>> /\ fields = <<>>
  BY DEF CodecInit
<1>. QED  BY <1>1, CodecInvInit DEF PlanInv

LEMMA NoPlanInv ==
    ASSUME slave = [input |-> <<>>, output |-> <<>>], stage = "none", plan = <<>>, fields = <<>>
    PROVE  PlanInv
BY NoSlaveInv DEF PlanInv

LEMMA PlanInvStep == PlanInv /\ [CodecNext]_codecVars => PlanInv'
<1>. SUFFICES ASSUME PlanInv, [CodecNext]_codecVars PROVE PlanInv'
  OBVIOUS
<1>0. CodecInv /\ CodecInv' /\ TablesOK(slave)
  <2>1. CodecInv /\ CodecInv'
    BY CodecInvStep DEF PlanInv
  <2>. QED  BY <2>1 DEF CodecInv, TablesOK, TableOf, Tables
<1>1. CASE Configure
  BY <1>0, <1>1 DEF Configure, PlanInv
<1>2. CASE MakePlan
  <2>1. /\ stage = "accepted" /\ stage' = "planned" /\ slave' = slave /\ fields' = <<>>
        /\ plan' = Requests("output", slave.output) \o Requests("input", slave.input)
    BY <1>2 DEF MakePlan, PlanInv
  <2>2. Spacing(slave.input) /\ Spacing(slave.output)
    BY <1>0, <2>1 DEF CodecInv
  <2>3. Planned(slave', plan', fields')
    BY <1>0, <2>1, <2>2, PlannedFirst
  <2>. QED  BY <1>0, <2>1, <2>3 DEF PlanInv
<1>3. CASE Exchange
  <2>1. /\ stage = "planned" /\ plan # <<>> /\ stage' = stage /\ slave' = slave
        /\ fields' = fields \o Parse(Head(plan)) /\ plan' = Tail(plan)
    BY <1>3 DEF Exchange
  <2>2. Planned(slave, plan, fields)
    BY <2>1 DEF PlanInv
  <2>3. Planned(slave', plan', fields')
    BY <1>0, <2>1, <2>2, PlannedNext
  <2>. QED  BY <1>0, <2>1, <2>3 DEF PlanInv
<1>4. CASE Finish
  BY <1>0, <1>4 DEF Finish, PlanInv
<1>5. CASE UNCHANGED codecVars
  BY <1>0, <1>5 DEF codecVars, PlanInv
<1>. QED  BY <1>1, <1>2, <1>3, <1>4, <1>5 DEF CodecNext

LEMMA TablesAre ==
    \A T \in Tables : Table(T) = TableOf(slave, T)
BY DEF Table, TableOf

LEMMA FieldsFromInv == PlanInv => FieldsExact
<1> SUFFICES ASSUME PlanInv, stage = "read" PROVE FieldsExact
  BY DEF FieldsExact
<1>1. plan = <<>> /\ Planned(slave, plan, fields)
  BY DEF PlanInv
<1>2. Len(plan) = 0 /\ DOMAIN plan = {}
  BY <1>1
<1>3. Len(fields) = Len(slave.input) + Len(slave.output)
  <2>1. PICK c : Counts(c, plan, fields, Len(slave.input) + Len(slave.output))
    BY <1>1 DEF Planned
  <2>. QED  BY <1>2, <2>1 DEF Counts
<1>4. \A T \in Tables : \A r \in Range(Table(T)) : \E i \in DOMAIN fields : FieldFor(fields[i], T, r)
  <2>1. \A T \in Tables : \A r \in Range(TableOf(slave, T)) :
           \/ \E i \in DOMAIN plan : plan[i].table = T /\ r \in Range(plan[i].registers)
           \/ \E i \in DOMAIN fields : FieldFor(fields[i], T, r)
    BY <1>1 DEF Planned
  <2>. QED  BY <1>2, <2>1, TablesAre
<1>. QED  BY <1>3, <1>4 DEF FieldsExact, FieldFor

LEMMA PlanFromInv == PlanInv => PlanExact
<1> SUFFICES ASSUME PlanInv, NEW t \in Tables
             PROVE  LET mine == {i \in DOMAIN plan : plan[i].table = t}
                        Asked(i) == plan[i].address..(plan[i].address + plan[i].count - 1)
                    IN  /\ stage = "planned" /\ fields = <<>> =>
                             UNION {Asked(i) : i \in mine} = UNION {Span(r) : r \in Range(Table(t))}
                        /\ \A i, j \in mine : i # j => /\ Asked(i) \cap Asked(j) = {}
                                                       /\ plan[i].address + plan[i].count # plan[j].address
  BY DEF PlanExact, Tables
<1>. DEFINE mine == {i \in DOMAIN plan : plan[i].table = t}
            Asked(i) == plan[i].address..(plan[i].address + plan[i].count - 1)
<1>1. CASE stage \notin {"planned", "read"}
  <2>1. DOMAIN plan = {}
    BY <1>1 DEF PlanInv
  <2>. QED  BY <1>1, <2>1
<1>2. CASE stage \in {"planned", "read"}
  <2>1. Planned(slave, plan, fields)
    BY <1>2 DEF PlanInv
  <2>2. \A i \in mine : IsRequest(plan[i], t, Table(t))
    BY <2>1, TablesAre DEF Planned
  <2>3. \A i \in mine :
           /\ plan[i].address \in Nat /\ plan[i].count \in Nat \ {0}
           /\ Asked(i) = UNION {Span(r) : r \in Range(plan[i].registers)}
           /\ Range(plan[i].registers) \subseteq Range(Table(t))
    <3> SUFFICES ASSUME NEW i \in mine
                 PROVE  /\ plan[i].address \in Nat /\ plan[i].count \in Nat \ {0}
                        /\ Asked(i) = UNION {Span(r) : r \in Range(plan[i].registers)}
                        /\ Range(plan[i].registers) \subseteq Range(Table(t))
      OBVIOUS
    <3>1. IsRequest(plan[i], t, Table(t))
      BY <2>2
    <3>2. /\ plan[i].address \in Nat /\ plan[i].count \in Nat \ {0}
          /\ \A k \in DOMAIN plan[i].registers : plan[i].registers[k] \in Range(Table(t))
          /\ plan[i].address..(plan[i].address + plan[i].count - 1)
                = UNION {Span(r) : r \in Range(plan[i].registers)}
      BY <3>1, RequestIs
    <3>3. Range(plan[i].registers) \subseteq Range(Table(t))
      BY <3>2 DEF Range
    <3>. QED  BY <3>2, <3>3
  <2>4. ASSUME stage = "planned", fields = <<>>
        PROVE  UNION {Asked(i) : i \in mine} = UNION {Span(r) : r \in Range(Table(t))}
    <3>1. \A r \in Range(Table(t)) : \E i \in mine : r \in Range(plan[i].registers)
      <4>1. \A r \in Range(TableOf(slave, t)) :
               \/ \E i \in DOMAIN plan : plan[i].table = t /\ r \in Range(plan[i].registers)
               \/ \E i \in DOMAIN fields : FieldFor(fields[i], t, r)
        BY <2>1 DEF Planned
      <4>2. DOMAIN fields = {}
        BY <2>4
      <4>. QED  BY <4>1, <4>2, TablesAre
    <3>2. ASSUME NEW x, \E i \in mine : x \in Asked(i)
          PROVE  \E r \in Range(Table(t)) : x \in Span(r)
      <4>1. PICK i \in mine : x \in Asked(i)
        BY <3>2
      <4>2. PICK r \in Range(plan[i].registers) : x \in Span(r)
        BY <2>3, <4>1
      <4>. QED  BY <2>3, <4>2
    <3>3. ASSUME NEW x, \E r \in Range(Table(t)) : x \in Span(r)
          PROVE  \E i \in mine : x \in Asked(i)
      <4>1. PICK r \in Range(Table(t)) : x \in Span(r)
        BY <3>3
      <4>2. PICK i \in mine : r \in Range(plan[i].registers)
        BY <3>1
      <4>3. x \in UNION {Span(v) : v \in Range(plan[i].registers)}
        BY <4>1, <4>2
      <4>. QED  BY <2>3, <4>3
    <3>. HIDE DEF mine, Asked
    <3>. QED  BY <3>2, <3>3
  <2>5. ASSUME NEW i \in mine, NEW j \in mine, i < j
        PROVE  /\ Asked(i) \cap Asked(j) = {} /\ Asked(j) \cap Asked(i) = {}
               /\ plan[i].address + plan[i].count # plan[j].address
               /\ plan[j].address + plan[j].count # plan[i].address
    <3>1. plan[i].address + plan[i].count < plan[j].address
      BY <2>1, <2>5 DEF Planned, Ahead
    <3>2. PICK a \in Nat, b \in Nat, c \in Nat, d \in Nat :
             a = plan[i].address /\ b = plan[i].count /\ c = plan[j].address /\ d = plan[j].count
      BY <2>3
    <3>3. a + b < c
      BY <3>1, <3>2
    <3>4. (a..(a + b - 1)) \cap (c..(c + d - 1)) = {} /\ a + b # c /\ c + d # a
      BY <3>3
    <3>. QED  BY <3>2, <3>4
  <2>6. ASSUME NEW i \in mine, NEW j \in mine, i # j
        PROVE  /\ Asked(i) \cap Asked(j) = {}
               /\ plan[i].address + plan[i].count # plan[j].address
    <3>1. i < j \/ j < i
      <4>1. i \in Nat /\ j \in Nat
        <5>1. plan \in Seq(Range(plan))
          BY <2>1 DEF Planned
        <5>2. DOMAIN plan = 1..Len(plan) /\ Len(plan) \in Nat
          BY <5>1, LenProperties
        <5>. QED  BY <5>2
      <4>. QED  BY <2>6, <4>1
    <3>. HIDE DEF mine, Asked
    <3>. QED  BY <2>5, <3>1
  <2>. QED  BY <2>4, <2>6
<1>. QED  BY <1>1, <1>2

-----------------------------------------------------------------------------
(* The parts of a manager *)

(* The modules are those of a rig, or there are none.                         *)
ModulesInv == IF protocol = "wago" THEN WagoInv ELSE NoModule

(* The line was asked for by a configuration, or nobody opens it again.       *)
SettingsInv ==
    /\ LineAsAsked /\ before \subseteq Flags
    /\ asked \in Lines \/ status # "closed"

LEMMA NothingWrong ==
    ASSUME NoModule
    PROVE  OffsetsExact /\ OwnPoints /\ MappingExact
BY DEF NoModule, NoEntry, OffsetsExact, OwnPoints, MappingExact

LEMMA PartsInit == ProtocolsInit => ModulesInv /\ SettingsInv
<1> SUFFICES ASSUME ProtocolsInit PROVE ModulesInv /\ SettingsInv
  OBVIOUS
<1>1. ASSUME NEW s \in {"open", "none"}, LineIs(s) PROVE SettingsInv
  BY <1>1 DEF LineIs, PlainLine, SettingsInv, LineAsAsked, Flags
<1>2. PortInit => SettingsInv
  BY PortInvInit DEF PortInv, SettingsInv, PortInit
<1>3. CASE protocol = "wago" /\ WagoInit /\ LineIs("none")
  BY <1>1, <1>3, WagoInvInit DEF ModulesInv
<1>4. CASE protocol # "wago" /\ NoModule /\ (LineIs("open") \/ PortInit)
  BY <1>1, <1>2, <1>4 DEF ModulesInv
<1>. QED  BY <1>3, <1>4 DEF ProtocolsInit

LEMMA PartsStep == ModulesInv /\ SettingsInv /\ [ProtocolsNext]_protocolVars => ModulesInv' /\ SettingsInv'
<1> SUFFICES ASSUME ModulesInv, SettingsInv, [ProtocolsNext]_protocolVars
             PROVE  ModulesInv' /\ SettingsInv'
  OBVIOUS
<1>1. ASSUME protocol' = protocol, UNCHANGED wagoVars PROVE ModulesInv'
  <2>1. WagoInv => WagoInv'
    BY <1>1, WagoInvStep
  <2>2. NoModule => NoModule'
    BY <1>1 DEF wagoVars, NoModule, NoEntry
  <2>. QED  BY <1>1, <2>1, <2>2 DEF ModulesInv
<1>2. ASSUME UNCHANGED portVars PROVE SettingsInv'
  BY <1>2 DEF portVars, SettingsInv, LineAsAsked
<1>3. CASE PollSlaves \/ Hear(NmeaNext) \/ Settled \/ UNCHANGED protocolVars
  BY <1>1, <1>2, <1>3 DEF PollSlaves, Hear, Settled, protocolVars
<1>4. CASE PollModules
  <2>1. protocol = "wago" /\ protocol' = protocol /\ WagoNext /\ UNCHANGED portVars
    BY <1>4 DEF PollModules
  <2>2. WagoInv'
    BY <2>1, WagoInvStep DEF ModulesInv
  <2>. QED  BY <2>1, <2>2, <1>2 DEF ModulesInv
<1>5. CASE OpenAgain
  <2>1. protocol' = protocol /\ UNCHANGED wagoVars /\ PortNext
    BY <1>5 DEF OpenAgain
  <2>2. CASE asked \in Lines
    <3>1. PortInv'
      BY <2>1, <2>2, PortInvStep DEF PortInv, SettingsInv
    <3>. QED  BY <3>1, <2>1, <1>1 DEF PortInv, SettingsInv
  <2>3. CASE asked \notin Lines
    <3>1. Restart
      BY <2>1, <2>3 DEF PortNext, OpenLine, OpenFails, SettingsInv
    <3>. QED  BY <3>1, <2>1, <1>1 DEF Restart, SettingsInv, LineAsAsked
  <2>. QED  BY <2>2, <2>3
<1>. QED  BY <1>3, <1>4, <1>5 DEF ProtocolsNext

LEMMA PartsAlways == ProtocolsSpec => [](ModulesInv /\ SettingsInv)
BY PartsInit, PartsStep, PTL DEF ProtocolsSpec

(* The slave of another protocol has no registers, its listener no talker;    *)
(* the invariants of both hold of nothing as well.                            *)
LEMMA SlaveAndTalkerInit == ProtocolsInit => PlanInv /\ NmeaInv
<1> SUFFICES ASSUME ProtocolsInit PROVE PlanInv /\ NmeaInv
  OBVIOUS
<1>1. NoSlave => PlanInv
  BY NoPlanInv DEF NoSlave
<1>2. NoTalker => NmeaInv
  BY NobodyTalks DEF NoTalker
<1>. QED  BY <1>1, <1>2, PlanInvInit, NmeaInvInit DEF ProtocolsInit

LEMMA SlaveAndTalkerStep == PlanInv /\ NmeaInv /\ [ProtocolsNext]_protocolVars => PlanInv' /\ NmeaInv'
<1> SUFFICES ASSUME PlanInv, NmeaInv, [ProtocolsNext]_protocolVars PROVE PlanInv' /\ NmeaInv'
  OBVIOUS
<1>1. CASE PollSlaves
  BY <1>1, PlanInvStep, NmeaInvStep DEF PollSlaves
<1>2. CASE Hear(NmeaNext)
  BY <1>2, PlanInvStep, NmeaInvStep DEF Hear
<1>3. CASE UNCHANGED <<codecVars, nmeaVars>>
  BY <1>3, PlanInvStep, NmeaInvStep
<1>4. CASE OpenAgain \/ PollModules \/ Settled \/ UNCHANGED protocolVars
  BY <1>3, <1>4 DEF OpenAgain, PollModules, Settled, protocolVars
<1>. QED  BY <1>1, <1>2, <1>4 DEF ProtocolsNext

LEMMA SlaveAndTalkerAlways == ProtocolsSpec => [](PlanInv /\ NmeaInv)
BY SlaveAndTalkerInit, SlaveAndTalkerStep, PTL DEF ProtocolsSpec

(* Whatever the file's protocol, and whatever settings lines are opened with  *)
(* over restarts, an open line is as its configuration asks.                  *)
THEOREM LinesSetUp == ProtocolsSpec => []LineAsAsked
<1>1. SettingsInv => LineAsAsked
  BY DEF SettingsInv
<1>. QED  BY <1>1, PartsAlways, PTL

(* Whatever the file's protocol, its modules lie where they should, an entry  *)
(* has its own module's points and words are mapped into their ranges.        *)
THEOREM ModulesCorrect == ProtocolsSpec => [](OffsetsExact /\ OwnPoints /\ MappingExact)
<1>1. WagoInv => OffsetsExact /\ OwnPoints /\ MappingExact
  BY OffsetsRight, PointsRight, ValuesRight
<1>2. ModulesInv => OffsetsExact /\ OwnPoints /\ MappingExact
  BY <1>1, NothingWrong DEF ModulesInv
<1>. QED  BY <1>2, PartsAlways, PTL

(* checkRegisterAddressSpacing looks at neighbours in the order of addresses  *)
(* only, and refuses a slave exactly if two of its registers share a word.    *)
THEOREM SpacingCorrect == ProtocolsSpec => []SpacingExact
<1>1. PlanInv => SpacingExact
  BY SpacingFromInv DEF PlanInv
<1>. QED  BY <1>1, SlaveAndTalkerAlways, PTL

(* The requests prepared for a slave ask for the words of its registers and   *)
(* for no others, for none twice, and no two requests could have been one.    *)
THEOREM PlansCorrect == ProtocolsSpec => []PlanExact
BY SlaveAndTalkerAlways, PlanFromInv, PTL

(* A poll yields one field for each register, made of the bytes of its own    *)
(* words wherever they lay in the answers; in the order documented for it, if *)
(* that order is one of those that undo themselves.                           *)
THEOREM FieldsCorrect == ProtocolsSpec => []FieldsExact
BY SlaveAndTalkerAlways, FieldsFromInv, PTL

(* What is proved of the listener holds of the manager of any file.           *)
THEOREM ListenerCorrect == ProtocolsSpec => [](NmeaTypeOK /\ OnceInOrder /\ Unmixed /\ Heard)
BY SlaveAndTalkerAlways, TypesFromInv, OrderFromInv, UnmixedFromInv, HeardFromInv, PTL
=============================================================================
