----------------------------- MODULE Limits_proof -----------------------------
(* Limits on the board are exact, follow their readings, and are one entry    *)
(* for a device, for any managers, devices, fields and window.                *)
EXTENDS Limits, WellFoundedInduction, TLAPS

-----------------------------------------------------------------------------
(* The inductive invariant *)

(* What a device may return by time now.                                      *)
Entries(d, now) ==
    {Failure(d)} \cup
    {e \in [error : {FALSE}, fields : [FieldNames[d] -> Measured]] :
        \A f \in FieldNames[d] : /\ LatestTime(d, e) <= e.fields[f].time
                                 /\ e.fields[f].time <= now}

ListInv ==
    /\ list = [m \in Managers |-> list[m]]
    /\ \A m \in Managers : /\ DOMAIN list[m] \subseteq Devices[m]
                           /\ \A d \in DOMAIN list[m] : list[m][d] \in Entries(d, clock)

StreamInv ==
    \A x \in stream : x.time \in 1..clock /\ x.value \in Values

(* What the processor of the device's manager has been given of a device: all *)
(* that was sent but for the readings it is about to process.                 *)
Pending(m) == IF phase[m] = "process" THEN ValuesIn(list[m]) ELSE {}

Known(m, d) == {x \in stream : x.device = d} \ Pending(m)

(* Of the values in S, all of one device, those of a field that are within    *)
(* the window of the last reading.                                            *)
Before(S, d) == {x.time : x \in {y \in S : y.name = First[d]}}

InWindow(S, d, f) ==
    {[time |-> x.time, value |-> x.value] :
        x \in {y \in S : y.name = f /\ \A t \in Before(S, d) : y.time + Window >= t}}

Windows(S, d) == [f \in FieldNames[d] |-> InWindow(S, d, f)]

(* Readings that were not processed yet are later than all that were.         *)
FreshInv ==
    \A m \in Managers : \A d \in DOMAIN list[m] :
        phase[m] \in {"send", "process"} =>
            \A f \in DOMAIN list[m][d].fields :
                \A x \in Known(m, d) : x.time < list[m][d].fields[f].time

PendingInv == \A m \in Managers : Pending(m) \subseteq stream

HistoryInv ==
    /\ history = [d \in AllDevices |-> history[d]]
    /\ \A d \in AllDevices : history[d] \in [FieldNames[d] -> SUBSET Measured]
    /\ \A m \in Managers : \A d \in Devices[m] \cap Watched :
            history[d] = Windows(Known(m, d), d)

OutgoingInv ==
    /\ outgoing = [m \in Managers |-> outgoing[m]]
    /\ \A m \in Managers :
        /\ Names(outgoing[m]) \subseteq Devices[m] \cap Watched
        /\ phase[m] = "publish" => Names(outgoing[m]) \subseteq Processed(list[m])
        /\ \A e1, e2 \in outgoing[m] : e1.device = e2.device => e1 = e2

(* An entry that says what the processor knows is on the board, or on its way.*)
Up(m, d) == IF phase[m] = "publish" /\ d \in Processed(list[m]) THEN outgoing[m] ELSE board

UpInv ==
    \A m \in Managers : \A d \in Devices[m] \cap Watched :
        Known(m, d) # {} => \E e \in Up(m, d) : e.device = d /\ e.limits = Extremes(history[d])

Follows(e) ==
    \A f \in FieldNames[e.device] :
        {e.limits[f].min, e.limits[f].max} \subseteq ValuesSent(e.device, f)

FollowInv ==
    /\ \A e \in board : Follows(e)
    /\ \A m \in Managers : \A e \in outgoing[m] : Follows(e)

PhaseInv == phase \in [Managers -> {"poll", "send", "process", "publish"}]

LimitsInv ==
    /\ clock \in 0..MaxTime /\ PhaseInv
    /\ ListInv /\ StreamInv /\ FreshInv /\ PendingInv /\ HistoryInv
    /\ OutgoingInv /\ UpInv /\ FollowInv
    /\ Names(board) \subseteq Watched /\ OnePerDevice

-----------------------------------------------------------------------------
(* Least and greatest values *)

LEMMA Least ==
    ASSUME NEW T \in SUBSET Nat, T # {}
    PROVE  \E x \in T : \A y \in T : x <= y
<1>1. IsWellFoundedOn({ss \in Nat \X Nat : ss[1] < ss[2]}, Nat)
  BY NatLessThanWellFounded, SMT DEF OpToRel
<1>2. PICK x \in T : \A y \in T : ~ (<<y, x>> \in {ss \in Nat \X Nat : ss[1] < ss[2]})
  BY <1>1, WFMin, Zenon
<1>3. ASSUME NEW y \in T PROVE x <= y
  <2>1. x \in Nat /\ y \in Nat
    OBVIOUS
  <2>2. y < x => <<y, x>> \in {ss \in Nat \X Nat : ss[1] < ss[2]}
    BY <2>1
  <2>. QED  BY <1>2, <2>1, <2>2
<1>. QED  BY <1>3

(* The extremes of values that were read are among them.                      *)
LEMMA ExtremesAmong ==
    ASSUME NEW T \in SUBSET Values, T # {}
    PROVE  MinMax(T).min \in T /\ MinMax(T).max \in T
<1>1. \E v \in T : \A w \in T : v <= w
  BY Least, LimitsAssumption
<1>2. \E v \in T : \A w \in T : v >= w
  <2>1. PICK top \in Nat : \A v \in T : v \in Nat /\ v <= top
    BY LimitsAssumption
  <2>. DEFINE D == {n \in Nat : \E v \in T : n = top - v}
  <2>2. \A v \in T : top - v \in D
    BY <2>1
  <2>3. PICK n \in D : \A k \in D : n <= k
    <3>1. D # {} /\ D \in SUBSET Nat
      BY <2>2
    <3>. HIDE DEF D
    <3>. QED  BY <3>1, Least
  <2>4. PICK v \in T : n = top - v
    BY <2>3
  <2>5. \A w \in T : n <= top - w
    BY <2>2, <2>3
  <2>. QED  BY <2>1, <2>3, <2>4, <2>5
<1>. QED  BY <1>1, <1>2, Zenon DEF MinMax

-----------------------------------------------------------------------------
(* Values, entries and windows *)

LEMMA Owner ==
    ASSUME NEW m \in Managers, NEW n \in Managers, m # n, NEW d \in Devices[m]
    PROVE  d \notin Devices[n]
BY LimitsAssumption

LEMMA IsDevice == ASSUME NEW m \in Managers, NEW d \in Devices[m] PROVE d \in AllDevices
BY DEF AllDevices

(* What is sent of a field that has been read.                                *)
Value(d, f, tv) == [device |-> d, name |-> f, time |-> tv.time, value |-> tv.value]

LEMMA ValueFields ==
    ASSUME NEW d, NEW f, NEW tv
    PROVE  /\ Value(d, f, tv).device = d /\ Value(d, f, tv).name = f
           /\ Value(d, f, tv).time = tv.time /\ Value(d, f, tv).value = tv.value
BY DEF Value

LEMMA InValues ==
    ASSUME NEW l, NEW x
    PROVE  x \in ValuesIn(l) <=>
             \E d \in DOMAIN l : \E f \in DOMAIN l[d].fields : x = Value(d, f, l[d].fields[f])
<1>1. x \in ValuesIn(l) <=>
        \E d \in DOMAIN l : x \in {Value(d, f, l[d].fields[f]) : f \in DOMAIN l[d].fields}
  BY DEF ValuesIn, Value
<1>. QED  BY <1>1

LEMMA EntryIs ==
    ASSUME NEW d, NEW now, NEW e \in Entries(d, now)
    PROVE  \/ /\ e.error = TRUE
              /\ DOMAIN e.fields = {}
           \/ /\ e.error = FALSE
              /\ e.fields \in [FieldNames[d] -> Measured]
              /\ \A f \in FieldNames[d] : /\ LatestTime(d, e) <= e.fields[f].time
                                          /\ e.fields[f].time <= now
<1>1. CASE e = Failure(d)
  BY <1>1 DEF Failure, Nothing
<1>2. CASE e # Failure(d)
  <2>1. /\ e \in [error : {FALSE}, fields : [FieldNames[d] -> Measured]]
        /\ \A f \in FieldNames[d] : LatestTime(d, e) <= e.fields[f].time /\ e.fields[f].time <= now
    BY <1>2, Zenon DEF Entries
  <2>. QED  BY <2>1
<1>. QED  BY <1>1, <1>2

LEMMA EntryLater ==
    ASSUME NEW d, NEW now \in Nat, NEW later \in Nat, now <= later, NEW e \in Entries(d, now)
    PROVE  e \in Entries(d, later)
<1>1. CASE e = Failure(d)
  BY <1>1 DEF Entries
<1>2. CASE e # Failure(d)
  <2>1. /\ e \in [error : {FALSE}, fields : [FieldNames[d] -> Measured]]
        /\ \A f \in FieldNames[d] : LatestTime(d, e) <= e.fields[f].time /\ e.fields[f].time <= now
    BY <1>2, Zenon DEF Entries
  <2>2. \A f \in FieldNames[d] : e.fields[f].time <= later
    <3>1. \A f \in FieldNames[d] : e.fields[f].time \in Nat
      BY <2>1 DEF Measured
    <3>. QED  BY <2>1, <3>1
  <2>. QED  BY <2>1, <2>2, Zenon DEF Entries
<1>. QED  BY <1>1, <1>2

(* The values of an entry.                                                    *)
ValuesOf(d, e) == {Value(d, f, e.fields[f]) : f \in FieldNames[d]}

(* What the processor makes of an entry that is later than what it knows is   *)
(* what is within the window, of what it then knows.                          *)
LEMMA UpdatedIs ==
    ASSUME NEW d \in AllDevices, NEW S, \A x \in S : x.time \in Nat,
           NEW e, e.fields \in [FieldNames[d] -> Measured],
           \A f \in FieldNames[d] : LatestTime(d, e) <= e.fields[f].time,
           \A f \in FieldNames[d] : \A x \in S : x.time < e.fields[f].time
    PROVE  Updated(d, Windows(S, d), e) =
             Windows(S \cup ValuesOf(d, e), d)
<1>. DEFINE V == ValuesOf(d, e)
            start == LatestTime(d, e)
<1>1. First[d] \in FieldNames[d] /\ start = e.fields[First[d]].time /\ start \in Nat
  BY LimitsAssumption DEF LatestTime, Measured
<1>2. \A x : x \in V <=> \E f \in FieldNames[d] : x = Value(d, f, e.fields[f])
  BY Zenon DEF ValuesOf
<1>. HIDE DEF V, start
<1>3. \A t : t \in Before(S \cup V, d) <=> t \in Before(S, d) \/ t = start
  <2>1. \A t : t \in Before(S \cup V, d) <=> \E x \in S \cup V : x.name = First[d] /\ t = x.time
    BY DEF Before
  <2>2. \A t : t \in Before(S, d) <=> \E x \in S : x.name = First[d] /\ t = x.time
    BY DEF Before
  <2>3. \A t : (\E x \in V : x.name = First[d] /\ t = x.time) <=> t = start
    BY <1>1, <1>2, ValueFields
  <2>4. \A t : t \in Before(S \cup V, d) <=> (\E x \in S : x.name = First[d] /\ t = x.time)
                                           \/ (\E x \in V : x.name = First[d] /\ t = x.time)
    BY <2>1
  <2>. QED  BY <2>2, <2>3, <2>4
<1>4. \A t \in Before(S, d) : t \in Nat /\ t < start
  BY <1>1 DEF Before
<1>5. ASSUME NEW f \in FieldNames[d]
      PROVE  {tv \in InWindow(S, d, f) : tv.time + Window >= start} \cup {e.fields[f]} = InWindow(S \cup V, d, f)
  <2>1. \A p : p \in InWindow(S, d, f) <=>
          \E x \in S : /\ x.name = f /\ \A t \in Before(S, d) : x.time + Window >= t
                       /\ p = [time |-> x.time, value |-> x.value]
    BY Zenon DEF InWindow
  <2>2. \A p : p \in InWindow(S \cup V, d, f) <=>
          \E x \in S \cup V : /\ x.name = f /\ \A t \in Before(S \cup V, d) : x.time + Window >= t
                              /\ p = [time |-> x.time, value |-> x.value]
    BY Zenon DEF InWindow
  <2>3. \A p : (\E x \in V : x.name = f /\ p = [time |-> x.time, value |-> x.value]) <=> p = e.fields[f]
    <3>1. e.fields[f] \in Measured
      OBVIOUS
    <3>2. e.fields[f] = [time |-> e.fields[f].time, value |-> e.fields[f].value]
      BY <3>1 DEF Measured
    <3>3. ASSUME NEW p, NEW x \in V, x.name = f, p = [time |-> x.time, value |-> x.value]
          PROVE  p = e.fields[f]
      BY <1>2, <3>2, <3>3, ValueFields
    <3>4. ASSUME NEW p, p = e.fields[f]
          PROVE  \E x \in V : x.name = f /\ p = [time |-> x.time, value |-> x.value]
      <4>1. Value(d, f, e.fields[f]) \in V
        BY <1>2
      <4>. QED  BY <4>1, <3>2, <3>4, ValueFields
    <3>. QED  BY <3>3, <3>4
  <2>4. \A x \in V : x.name = f => \A t \in Before(S \cup V, d) : x.time + Window >= t
    <3> SUFFICES ASSUME NEW x \in V, x.name = f, NEW t \in Before(S \cup V, d)
                 PROVE  x.time + Window >= t
      OBVIOUS
    <3>1. x.time = e.fields[f].time /\ x.time \in Nat
      <4>1. PICK g \in FieldNames[d] : x = Value(d, g, e.fields[g])
        BY <1>2
      <4>2. g = f /\ x.time = e.fields[g].time
        BY <4>1, ValueFields
      <4>. QED  BY <4>2 DEF Measured
    <3>2. t \in Nat /\ t <= start
      <4>1. t \in Before(S, d) \/ t = start
        BY <1>3
      <4>. QED  BY <4>1, <1>1, <1>4
    <3>3. start <= x.time
      BY <3>1 DEF start
    <3>. QED  BY <3>1, <3>2, <3>3, <1>1, LimitsAssumption
  <2>5. \A x \in S : x.name = f =>
          ((\A t \in Before(S \cup V, d) : x.time + Window >= t) <=>
           (\A t \in Before(S, d) : x.time + Window >= t) /\ x.time + Window >= start)
    BY <1>3
  <2>6. ASSUME NEW p, p \in InWindow(S, d, f), p.time + Window >= start
        PROVE  p \in InWindow(S \cup V, d, f)
    <3>1. PICK x \in S : /\ x.name = f /\ \A t \in Before(S, d) : x.time + Window >= t
                         /\ p = [time |-> x.time, value |-> x.value]
      BY <2>6, <2>1
    <3>2. p.time = x.time
      BY <3>1
    <3>3. \A t \in Before(S \cup V, d) : x.time + Window >= t
      BY <3>1, <3>2, <2>6, <2>5
    <3>. QED  BY <3>1, <3>3, <2>2
  <2>7. e.fields[f] \in InWindow(S \cup V, d, f)
    BY <2>2, <2>3, <2>4
  <2>8. ASSUME NEW p, p \in InWindow(S \cup V, d, f)
        PROVE  p = e.fields[f] \/ (p \in InWindow(S, d, f) /\ p.time + Window >= start)
    <3>1. PICK x \in S \cup V : /\ x.name = f /\ \A t \in Before(S \cup V, d) : x.time + Window >= t
                               /\ p = [time |-> x.time, value |-> x.value]
      BY <2>8, <2>2
    <3>2. CASE x \in V
      BY <3>1, <3>2, <2>3
    <3>3. CASE x \in S
      <4>1. (\A t \in Before(S, d) : x.time + Window >= t) /\ x.time + Window >= start
        BY <3>1, <3>3, <2>5
      <4>2. p.time = x.time
        BY <3>1
      <4>. QED  BY <4>1, <4>2, <3>1, <3>3, <2>1
    <3>. QED  BY <3>2, <3>3
  <2>. QED  BY <2>6, <2>7, <2>8
<1>6. Updated(d, Windows(S, d), e) =
        [f \in FieldNames[d] |-> {tv \in InWindow(S, d, f) : tv.time + Window >= start} \cup {e.fields[f]}]
  BY DEF Updated, Kept, start, Windows
<1>. QED  BY <1>5, <1>6 DEF V, Windows

-----------------------------------------------------------------------------
(* What the processors know, step by step *)

LEMMA ValuesFrom ==
    ASSUME ListInv, NEW m \in Managers, NEW x \in ValuesIn(list[m])
    PROVE  /\ x.device \in DOMAIN list[m] /\ x.device \in Devices[m]
           /\ list[m][x.device].error = FALSE
           /\ list[m][x.device].fields \in [FieldNames[x.device] -> Measured]
           /\ x.name \in FieldNames[x.device]
           /\ x = Value(x.device, x.name, list[m][x.device].fields[x.name])
           /\ x.time = list[m][x.device].fields[x.name].time
           /\ x.time <= clock /\ x.time \in 1..MaxTime /\ x.value \in Values
<1>0. PICK d \in DOMAIN list[m] : \E f \in DOMAIN list[m][d].fields : x = Value(d, f, list[m][d].fields[f])
  BY InValues
<1>1. PICK f \in DOMAIN list[m][d].fields : x = Value(d, f, list[m][d].fields[f])
  BY <1>0
<1>2. x.device = d /\ x.name = f /\ x.time = list[m][d].fields[f].time /\ x.value = list[m][d].fields[f].value
  BY <1>1, ValueFields
<1>3. list[m][d] \in Entries(d, clock) /\ d \in Devices[m]
  BY DEF ListInv
<1>4. /\ list[m][d].error = FALSE
      /\ list[m][d].fields \in [FieldNames[d] -> Measured]
      /\ \A g \in FieldNames[d] : list[m][d].fields[g].time <= clock
  BY <1>1, <1>3, EntryIs
<1>5. f \in FieldNames[d] /\ list[m][d].fields[f] \in Measured
  BY <1>1, <1>4
<1>. QED  BY <1>1, <1>2, <1>3, <1>4, <1>5 DEF Measured

LEMMA ValuesOfEntry ==
    ASSUME ListInv, NEW m \in Managers, NEW d \in DOMAIN list[m], ~ list[m][d].error
    PROVE  {x \in ValuesIn(list[m]) : x.device = d} = ValuesOf(d, list[m][d])
<1>1. list[m][d].fields \in [FieldNames[d] -> Measured]
  BY EntryIs DEF ListInv
<1>2. ASSUME NEW x \in ValuesIn(list[m]), x.device = d
      PROVE  x \in ValuesOf(d, list[m][d])
  BY <1>2, ValuesFrom DEF ValuesOf
<1>3. ASSUME NEW x \in ValuesOf(d, list[m][d])
      PROVE  x \in ValuesIn(list[m]) /\ x.device = d
  <2>1. PICK f \in FieldNames[d] : x = Value(d, f, list[m][d].fields[f])
    BY DEF ValuesOf
  <2>. QED  BY <2>1, <1>1, InValues, ValueFields
<1>. QED  BY <1>2, <1>3

LEMMA NotFromOthers ==
    ASSUME ListInv, NEW m \in Managers, NEW n \in Managers, m # n, NEW d \in Devices[n]
    PROVE  \A x \in ValuesIn(list[m]) : x.device # d
<1> SUFFICES ASSUME NEW x \in ValuesIn(list[m]) PROVE x.device # d
  OBVIOUS
<1>1. x.device \in Devices[m]
  BY ValuesFrom
<1>. QED  BY <1>1, Owner

LEMMA KnownTimes ==
    ASSUME LimitsInv, NEW m \in Managers, NEW d, NEW x \in Known(m, d)
    PROVE  x \in stream /\ x.device = d /\ x.time \in Nat /\ x.time \in 1..MaxTime /\ x.time <= clock /\ x.value \in Values
<1>1. x \in stream /\ x.device = d
  BY DEF Known
<1>. QED  BY <1>1, LimitsAssumption DEF LimitsInv, StreamInv

LEMMA KnownStays ==
    ASSUME LimitsInv, NEW m \in Managers, Poll(m) \/ SendLimits(m), NEW n \in Managers, NEW d
    PROVE  Known(n, d)' = Known(n, d) /\ Pending(n)' = Pending(n)
<1>1. stream' = stream
  BY DEF Poll, SendLimits
<1>2. CASE n = m
  BY <1>1, <1>2 DEF Poll, SendLimits, Goto, Known, Pending, LimitsInv, PhaseInv
<1>3. CASE n # m
  <2>1. phase'[n] = phase[n] /\ list'[n] = list[n]
    BY <1>3 DEF Poll, SendLimits, Goto, LimitsInv, PhaseInv, ListInv
  <2>2. Pending(n)' = Pending(n)
    BY <2>1 DEF Pending
  <2>. QED  BY <1>1, <2>2 DEF Known
<1>. QED  BY <1>2, <1>3

LEMMA KnownSent ==
    ASSUME LimitsInv, NEW m \in Managers, SendReadings(m), NEW n \in Managers, NEW d \in Devices[n]
    PROVE  Known(n, d)' = Known(n, d)
<1>. DEFINE V == ValuesIn(list[m])
<1>1. stream' = stream \cup V /\ list' = list /\ phase[m] = "send" /\ phase' = [phase EXCEPT ![m] = "process"]
  BY DEF SendReadings, Goto
<1>2. CASE n = m
  <2>1. Pending(m) = {} /\ Pending(m)' = V
    BY <1>1 DEF Pending, LimitsInv, PhaseInv
  <2>2. ASSUME NEW x \in stream, x.device = d PROVE x \notin V
    <3> SUFFICES ASSUME x \in V PROVE FALSE
      OBVIOUS
    <3>1. x \in Known(m, d)
      BY <2>1, <2>2 DEF Known
    <3>2. /\ d \in DOMAIN list[m] /\ x.name \in DOMAIN list[m][d].fields
          /\ x.time = list[m][d].fields[x.name].time
      BY <2>2, ValuesFrom DEF LimitsInv
    <3>3. x.time < list[m][d].fields[x.name].time
      BY <1>1, <3>1, <3>2 DEF LimitsInv, FreshInv
    <3>. QED  BY <3>1, <3>2, <3>3, KnownTimes
  <2>. HIDE DEF V
  <2>3. Known(m, d)' = {x \in stream \cup V : x.device = d} \ V
    BY <1>1, <2>1 DEF Known
  <2>4. Known(m, d) = {x \in stream : x.device = d}
    BY <2>1 DEF Known
  <2>. QED  BY <1>2, <2>2, <2>3, <2>4
<1>3. CASE n # m
  <2>1. \A x \in V : x.device # d
    BY <1>3, NotFromOthers DEF LimitsInv
  <2>2. Pending(n)' = Pending(n)
    BY <1>1, <1>3 DEF Pending, LimitsInv, PhaseInv
  <2>. HIDE DEF V
  <2>. QED  BY <1>1, <2>1, <2>2 DEF Known
<1>. QED  BY <1>2, <1>3

LEMMA KnownLearnt ==
    ASSUME LimitsInv, NEW m \in Managers, Process(m), NEW n \in Managers, NEW d \in Devices[n]
    PROVE  /\ n # m => Known(n, d)' = Known(n, d)
           /\ n = m /\ d \in DOMAIN list[m] /\ ~ list[m][d].error
                => Known(m, d)' = Known(m, d) \cup ValuesOf(d, list[m][d])
           /\ n = m /\ (d \in DOMAIN list[m] => list[m][d].error) => Known(m, d)' = Known(m, d)
<1>1. /\ stream' = stream /\ list' = list
      /\ phase[m] = "process" /\ phase' = [phase EXCEPT ![m] = "publish"]
  BY DEF Process, Goto
<1>2. CASE n # m
  <2>1. Pending(n)' = Pending(n)
    BY <1>1, <1>2 DEF Pending, LimitsInv, PhaseInv
  <2>. QED  BY <1>1, <1>2, <2>1 DEF Known
<1>3. CASE n = m
  <2>1. Pending(m)' = {} /\ Pending(m) = ValuesIn(list[m]) /\ ValuesIn(list[m]) \subseteq stream
    BY <1>1 DEF Pending, LimitsInv, PhaseInv, PendingInv
  <2>2. Known(m, d)' = {x \in stream : x.device = d}
    BY <1>1, <2>1 DEF Known
  <2>3. Known(m, d) = {x \in stream : x.device = d} \ ValuesIn(list[m])
    BY <2>1 DEF Known
  <2>4. Known(m, d)' = Known(m, d) \cup {x \in ValuesIn(list[m]) : x.device = d}
    BY <2>1, <2>2, <2>3
  <2>5. CASE d \in DOMAIN list[m] /\ ~ list[m][d].error
    BY <1>3, <2>4, <2>5, ValuesOfEntry DEF LimitsInv
  <2>6. CASE d \in DOMAIN list[m] => list[m][d].error
    <3>1. \A x \in ValuesIn(list[m]) : x.device # d
      BY <2>6, ValuesFrom DEF LimitsInv
    <3>. QED  BY <1>3, <2>6, <2>4, <3>1
  <2>. QED  BY <2>5, <2>6
<1>. QED  BY <1>2, <1>3

LEMMA FollowsOn ==
    ASSUME stream \subseteq stream', NEW e, Follows(e)
    PROVE  Follows(e)'
BY DEF Follows, ValuesSent, Sent

-----------------------------------------------------------------------------
(* The invariant *)

LEMMA InvInit == LimitsInit => LimitsInv
<1> SUFFICES ASSUME LimitsInit PROVE LimitsInv
  OBVIOUS
<1>. USE DEF LimitsInit
<1>1. clock \in 0..MaxTime /\ PhaseInv
  BY LimitsAssumption DEF PhaseInv
<1>2. ListInv
  BY DEF ListInv, Nothing
<1>3. StreamInv /\ FollowInv
  BY DEF StreamInv, FollowInv
<1>4. \A m \in Managers : DOMAIN list[m] = {} /\ Pending(m) = {}
  BY DEF Nothing, Pending
<1>5. FreshInv /\ PendingInv
  BY <1>4 DEF FreshInv, PendingInv
<1>6. \A m \in Managers : \A d : Known(m, d) = {}
  BY DEF Known
<1>7. HistoryInv
  <2>1. history = [d \in AllDevices |-> history[d]]
    OBVIOUS
  <2>2. \A d \in AllDevices : history[d] \in [FieldNames[d] -> SUBSET Measured]
    OBVIOUS
  <2>3. \A d, f : InWindow({}, d, f) = {}
    BY DEF InWindow
  <2>4. \A m \in Managers : \A d \in Devices[m] :
            history[d] = Windows(Known(m, d), d)
    BY <2>3, <1>6, IsDevice DEF Windows
  <2>. QED  BY <2>1, <2>2, <2>4 DEF HistoryInv
<1>8. OutgoingInv /\ UpInv
  BY <1>6 DEF OutgoingInv, UpInv, Names
<1>9. Names(board) \subseteq Watched /\ OnePerDevice
  BY DEF Names, OnePerDevice
<1>. QED  BY <1>1, <1>2, <1>3, <1>5, <1>7, <1>8, <1>9 DEF LimitsInv

LEMMA InvPoll ==
    ASSUME LimitsInv, NEW m \in Managers, Poll(m)
    PROVE  LimitsInv'
<1>1. PICK start, end, due, entry :
             /\ start \in (clock + 1)..MaxTime /\ end \in start..MaxTime
             /\ due \in SUBSET Devices[m]
             /\ entry \in [due -> UNION {{Failure(d)} \cup Readings(d, start, end) : d \in due}]
             /\ clock' = end
             /\ \A d \in due : entry[d] \in {Failure(d)} \cup Readings(d, start, end)
             /\ list' = [list EXCEPT ![m] = entry]
  BY DEF Poll
<1>2. /\ phase[m] = "poll" /\ phase' = [phase EXCEPT ![m] = "send"]
      /\ UNCHANGED <<history, outgoing, stream, board>>
  BY DEF Poll, Goto
<1>3. clock \in Nat /\ start \in Nat /\ end \in Nat /\ clock < start /\ start <= end /\ end <= MaxTime /\ MaxTime \in Nat
  BY <1>1, LimitsAssumption DEF LimitsInv
<1>4. \A n \in Managers : \A d : Known(n, d)' = Known(n, d) /\ Pending(n)' = Pending(n)
  BY KnownStays
<1>5. clock' \in 0..MaxTime /\ PhaseInv'
  BY <1>1, <1>2, <1>3 DEF LimitsInv, PhaseInv
<1>6. ASSUME NEW d \in due
      PROVE  \/ DOMAIN entry[d].fields = {} /\ entry[d] \in Entries(d, end)
             \/ entry[d] \in Entries(d, end) /\ \A f \in DOMAIN entry[d].fields : start <= entry[d].fields[f].time
  <2>1. CASE entry[d] = Failure(d)
    BY <2>1 DEF Failure, Nothing, Entries
  <2>2. CASE entry[d] \in Readings(d, start, end)
    <3>1. PICK v \in [FieldNames[d] -> Values] :
            entry[d] = [error |-> FALSE,
                        fields |-> [f \in FieldNames[d] |->
                            [time |-> IF f = First[d] THEN start ELSE end, value |-> v[f]]]]
      BY <2>2 DEF Readings
    <3>2. First[d] \in FieldNames[d]
      BY <1>1, IsDevice, LimitsAssumption
    <3>. DEFINE e == entry[d]
    <3>3. e.error = FALSE /\ DOMAIN e = {"error", "fields"} /\ DOMAIN e.fields = FieldNames[d]
      BY <3>1
    <3>4. \A f \in FieldNames[d] : e.fields[f] = [time |-> IF f = First[d] THEN start ELSE end, value |-> v[f]]
      BY <3>1
    <3>5. \A f \in FieldNames[d] : /\ e.fields[f].time = IF f = First[d] THEN start ELSE end
                                   /\ e.fields[f] \in Measured
      <4> SUFFICES ASSUME NEW f \in FieldNames[d]
                   PROVE  /\ e.fields[f].time = IF f = First[d] THEN start ELSE end
                          /\ e.fields[f] \in Measured
        OBVIOUS
      <4>1. PICK t : t = IF f = First[d] THEN start ELSE end
        OBVIOUS
      <4>2. t \in 1..MaxTime /\ v[f] \in Values
        BY <4>1, <1>3
      <4>3. e.fields[f] = [time |-> t, value |-> v[f]]
        BY <3>4, <4>1
      <4>. QED  BY <4>1, <4>2, <4>3 DEF Measured
    <3>6. LatestTime(d, e) = start
      BY <3>2, <3>5 DEF LatestTime
    <3>7. \A f \in FieldNames[d] : LatestTime(d, e) <= e.fields[f].time /\ e.fields[f].time <= end /\ start <= e.fields[f].time
      BY <3>5, <3>6, <1>3
    <3>8. e.fields = [f \in FieldNames[d] |-> e.fields[f]] /\ e = [error |-> FALSE, fields |-> e.fields]
      BY <3>1
    <3>9. e \in [error : {FALSE}, fields : [FieldNames[d] -> Measured]]
      <4>1. e.fields \in [FieldNames[d] -> Measured]
        BY <3>5, <3>3, <3>8
      <4>. HIDE DEF e
      <4>2. PICK fields : fields = e.fields
        OBVIOUS
      <4>3. e = [error |-> FALSE, fields |-> fields]
        BY <3>8, <4>2, Zenon
      <4>4. fields \in [FieldNames[d] -> Measured]
        BY <4>1, <4>2
      <4>5. [error |-> FALSE, fields |-> fields] \in [error : {FALSE}, fields : [FieldNames[d] -> Measured]]
        BY <4>4
      <4>. QED  BY <4>3, <4>5, Zenon
    <3>. HIDE DEF e
    <3>10. e \in Entries(d, end)
      BY <3>7, <3>9, Zenon DEF Entries
    <3>. QED  BY <3>3, <3>7, <3>10 DEF e
  <2>. QED  BY <1>1, <2>1, <2>2
<1>7. ListInv'
  <2>1. list' = [n \in Managers |-> list'[n]]
    BY <1>1 DEF LimitsInv, ListInv
  <2>2. ASSUME NEW n \in Managers
        PROVE  DOMAIN list'[n] \subseteq Devices[n] /\ \A d \in DOMAIN list'[n] : list'[n][d] \in Entries(d, clock')
    <3>1. CASE n = m
      <4>1. list'[n] = entry /\ DOMAIN entry = due
        BY <1>1, <3>1 DEF LimitsInv, ListInv
      <4>. QED  BY <4>1, <1>1, <1>6, <3>1
    <3>2. CASE n # m
      <4>1. list'[n] = list[n]
        BY <1>1, <3>2 DEF LimitsInv, ListInv
      <4>2. \A d \in DOMAIN list[n] : list[n][d] \in Entries(d, end)
        BY <1>3, EntryLater DEF LimitsInv, ListInv
      <4>. QED  BY <4>1, <4>2, <1>1 DEF LimitsInv, ListInv
    <3>. QED  BY <3>1, <3>2
  <2>. QED  BY <2>1, <2>2 DEF ListInv
<1>8. StreamInv'
  BY <1>1, <1>2, <1>3 DEF LimitsInv, StreamInv
<1>9. FreshInv'
  <2> SUFFICES ASSUME NEW n \in Managers, NEW d \in DOMAIN list'[n], phase'[n] \in {"send", "process"},
                      NEW f \in DOMAIN list'[n][d].fields, NEW x \in Known(n, d)
               PROVE  x.time < list'[n][d].fields[f].time
    BY <1>4 DEF FreshInv
  <2>1. CASE n = m
    <3>1. list'[n] = entry /\ DOMAIN entry = due
      BY <1>1, <2>1 DEF LimitsInv, ListInv
    <3>2. d \in due /\ start <= entry[d].fields[f].time /\ entry[d].fields[f].time \in Nat
      <4>1. d \in due /\ f \in DOMAIN entry[d].fields
        BY <3>1
      <4>2. entry[d] \in Entries(d, end) /\ start <= entry[d].fields[f].time
        BY <4>1, <1>6
      <4>3. entry[d].fields \in [FieldNames[d] -> Measured]
        BY <4>1, <4>2, EntryIs
      <4>4. entry[d].fields[f] \in Measured
        BY <4>1, <4>3
      <4>. QED  BY <4>1, <4>2, <4>4 DEF Measured
    <3>3. x.time \in Nat /\ x.time <= clock
      BY KnownTimes
    <3>. QED  BY <3>1, <3>2, <3>3, <1>3
  <2>2. CASE n # m
    <3>1. list'[n] = list[n] /\ phase'[n] = phase[n]
      BY <1>1, <1>2, <2>2 DEF LimitsInv, ListInv, PhaseInv
    <3>. QED  BY <3>1 DEF LimitsInv, FreshInv
  <2>. QED  BY <2>1, <2>2
<1>10. PendingInv'
  BY <1>2, <1>4 DEF LimitsInv, PendingInv
<1>11. HistoryInv'
  BY <1>2, <1>4 DEF LimitsInv, HistoryInv
<1>12. \A n \in Managers : phase'[n] = "publish" => phase[n] = "publish" /\ list'[n] = list[n]
  BY <1>1, <1>2 DEF LimitsInv, PhaseInv, ListInv
<1>13. OutgoingInv'
  BY <1>2, <1>12 DEF LimitsInv, OutgoingInv, Processed
<1>14. UpInv'
  <2>1. \A n \in Managers : phase[n] = "publish" => phase'[n] = "publish" /\ list'[n] = list[n]
    BY <1>1, <1>2 DEF LimitsInv, PhaseInv, ListInv
  <2>2. \A n \in Managers : \A d : Up(n, d)' = Up(n, d)
    BY <1>2, <1>12, <2>1 DEF Up, Processed
  <2>. QED  BY <1>2, <1>4, <2>2 DEF LimitsInv, UpInv
<1>15. FollowInv'
  BY <1>2, FollowsOn DEF LimitsInv, FollowInv
<1>16. Names(board)' \subseteq Watched /\ OnePerDevice'
  BY <1>2 DEF LimitsInv, Names, OnePerDevice
<1>. QED  BY <1>5, <1>7, <1>8, <1>9, <1>10, <1>11, <1>13, <1>14, <1>15, <1>16 DEF LimitsInv

LEMMA InvSendReadings ==
    ASSUME LimitsInv, NEW m \in Managers, SendReadings(m)
    PROVE  LimitsInv'
<1>1. /\ phase[m] = "send" /\ phase' = [phase EXCEPT ![m] = "process"]
      /\ stream' = stream \cup ValuesIn(list[m])
      /\ UNCHANGED <<clock, list, history, outgoing, board>>
  BY DEF SendReadings, Goto
<1>2. \A n \in Managers : \A d \in Devices[n] : Known(n, d)' = Known(n, d)
  BY KnownSent
<1>3. clock' \in 0..MaxTime /\ PhaseInv' /\ ListInv'
  BY <1>1 DEF LimitsInv, PhaseInv, ListInv
<1>4. StreamInv'
  <2> SUFFICES ASSUME NEW x \in ValuesIn(list[m]) PROVE x.time \in 1..clock /\ x.value \in Values
    BY <1>1 DEF LimitsInv, StreamInv
  <2>1. x.time <= clock /\ x.time \in 1..MaxTime /\ x.value \in Values
    BY ValuesFrom DEF LimitsInv
  <2>. QED  BY <2>1, LimitsAssumption DEF LimitsInv
<1>5. FreshInv'
  <2> SUFFICES ASSUME NEW n \in Managers, NEW d \in DOMAIN list[n], phase'[n] \in {"send", "process"},
                      NEW f \in DOMAIN list[n][d].fields, NEW x \in Known(n, d)'
               PROVE  x.time < list[n][d].fields[f].time
    BY <1>1 DEF FreshInv
  <2>1. phase[n] \in {"send", "process"}
    BY <1>1 DEF LimitsInv, PhaseInv
  <2>2. x \in Known(n, d)
    BY <1>2 DEF LimitsInv, ListInv
  <2>. QED  BY <2>1, <2>2 DEF LimitsInv, FreshInv
<1>6. PendingInv'
  <2> SUFFICES ASSUME NEW n \in Managers PROVE Pending(n)' \subseteq stream'
    BY DEF PendingInv
  <2>1. CASE n = m
    BY <1>1, <2>1 DEF Pending
  <2>2. CASE n # m
    <3>1. Pending(n)' = Pending(n)
      BY <1>1, <2>2 DEF Pending, LimitsInv, PhaseInv
    <3>. QED  BY <3>1, <1>1 DEF LimitsInv, PendingInv
  <2>. QED  BY <2>1, <2>2
<1>7. HistoryInv'
  BY <1>1, <1>2 DEF LimitsInv, HistoryInv
<1>8. \A n \in Managers : phase'[n] = "publish" <=> phase[n] = "publish"
  BY <1>1 DEF LimitsInv, PhaseInv
<1>9. OutgoingInv'
  BY <1>1, <1>8 DEF LimitsInv, OutgoingInv, Processed
<1>10. UpInv'
  <2>1. \A n \in Managers : \A d : Up(n, d)' = Up(n, d)
    BY <1>1, <1>8 DEF Up, Processed
  <2>. QED  BY <1>1, <1>2, <2>1 DEF LimitsInv, UpInv
<1>11. FollowInv'
  BY <1>1, FollowsOn DEF LimitsInv, FollowInv
<1>12. Names(board)' \subseteq Watched /\ OnePerDevice'
  BY <1>1 DEF LimitsInv, Names, OnePerDevice
<1>. QED  BY <1>3, <1>4, <1>5, <1>6, <1>7, <1>9, <1>10, <1>11, <1>12 DEF LimitsInv

(* What is worked out for a device: its past is as wide as its window, and    *)
(* what is said of it are values that were sent.                              *)
LEMMA LearntIs ==
    ASSUME LimitsInv, NEW m \in Managers, Process(m), NEW d \in Processed(list[m])
    PROVE  /\ d \in Devices[m] /\ d \in AllDevices /\ d \in Watched
           /\ Learnt(list[m])[d] = Windows(Known(m, d)', d)
           /\ \A f \in FieldNames[d] : InWindow(Known(m, d)', d, f) \in SUBSET Measured
           /\ \A f \in FieldNames[d] : InWindow(Known(m, d)', d, f) # {}
<1>1. /\ phase[m] = "process" /\ UNCHANGED <<clock, list, stream, board>>
  BY DEF Process, Goto
<1>2. d \in DOMAIN list[m] /\ ~ list[m][d].error /\ d \in Watched /\ d \in Devices[m] /\ d \in AllDevices
  BY IsDevice DEF Processed, LimitsInv, ListInv
<1>. DEFINE e == list[m][d]
<1>3. /\ e.fields \in [FieldNames[d] -> Measured]
      /\ \A f \in FieldNames[d] : LatestTime(d, e) <= e.fields[f].time
  BY <1>2, EntryIs DEF LimitsInv, ListInv
<1>4. \A x \in Known(m, d) : x.time \in Nat
  BY KnownTimes
<1>5. \A f \in FieldNames[d] : \A x \in Known(m, d) : x.time < e.fields[f].time
  BY <1>1, <1>2, <1>3 DEF LimitsInv, FreshInv
<1>6. Known(m, d)' = Known(m, d) \cup ValuesOf(d, e)
  BY <1>2, KnownLearnt
<1>7. history[d] = Windows(Known(m, d), d)
  BY <1>2 DEF LimitsInv, HistoryInv
<1>8. Learnt(list[m])[d] = Updated(d, history[d], e)
  BY <1>2 DEF Learnt
<1>. HIDE DEF e
<1>9. PICK S : S = Known(m, d)
  OBVIOUS
<1>10. Updated(d, Windows(S, d), e) =
         Windows(S \cup ValuesOf(d, e), d)
  <2>1. \A x \in S : x.time \in Nat
    BY <1>4, <1>9
  <2>2. \A f \in FieldNames[d] : \A x \in S : x.time < e.fields[f].time
    BY <1>5, <1>9
  <2>. QED  BY <1>2, <1>3, <2>1, <2>2, UpdatedIs
<1>11. Learnt(list[m])[d] = Windows(Known(m, d)', d)
  BY <1>6, <1>7, <1>8, <1>9, <1>10
<1>12. ASSUME NEW f \in FieldNames[d]
       PROVE  InWindow(Known(m, d)', d, f) \in SUBSET Measured /\ InWindow(Known(m, d)', d, f) # {}
  <2>1. DOMAIN history[d] = FieldNames[d] /\ history[d][f] \in SUBSET Measured
    BY <1>2 DEF LimitsInv, HistoryInv
  <2>2. Updated(d, history[d], e)[f] = Kept(history[d], LatestTime(d, e))[f] \cup {e.fields[f]}
    BY <2>1 DEF Updated, Kept
  <2>3. Kept(history[d], LatestTime(d, e))[f] \in SUBSET Measured
    BY <2>1 DEF Kept
  <2>4. e.fields[f] \in Measured
    BY <1>3
  <2>5. InWindow(Known(m, d)', d, f) = Updated(d, history[d], e)[f]
    BY <1>8, <1>11 DEF Windows
  <2>. QED  BY <2>2, <2>3, <2>4, <2>5
<1>. QED  BY <1>2, <1>11, <1>12

LEMMA WindowSent ==
    ASSUME NEW S, NEW d, S \subseteq {x \in stream : x.device = d}, NEW f
    PROVE  {tv.value : tv \in InWindow(S, d, f)} \subseteq ValuesSent(d, f)
BY DEF InWindow, ValuesSent, Sent

LEMMA InvProcess ==
    ASSUME LimitsInv, NEW m \in Managers, Process(m)
    PROVE  LimitsInv'
<1>1. /\ phase[m] = "process" /\ phase' = [phase EXCEPT ![m] = "publish"]
      /\ history' = Learnt(list[m])
      /\ outgoing' = [outgoing EXCEPT ![m] = Output(list[m])]
      /\ UNCHANGED <<clock, list, stream, board>>
  BY DEF Process, Goto
<1>2. \A n \in Managers : n # m => phase'[n] = phase[n] /\ outgoing'[n] = outgoing[n]
  BY <1>1 DEF LimitsInv, PhaseInv, OutgoingInv
<1>3. phase'[m] = "publish" /\ outgoing'[m] = Output(list[m])
  BY <1>1 DEF LimitsInv, PhaseInv, OutgoingInv
<1>4. clock' \in 0..MaxTime /\ PhaseInv' /\ ListInv' /\ StreamInv'
  BY <1>1 DEF LimitsInv, PhaseInv, ListInv, StreamInv
<1>5. FreshInv'
  <2> SUFFICES ASSUME NEW n \in Managers, NEW d \in DOMAIN list[n], phase'[n] \in {"send", "process"},
                      NEW f \in DOMAIN list[n][d].fields, NEW x \in Known(n, d)'
               PROVE  x.time < list[n][d].fields[f].time
    BY <1>1 DEF FreshInv
  <2>1. n # m /\ phase[n] \in {"send", "process"}
    BY <1>2, <1>3
  <2>2. x \in Known(n, d)
    BY <2>1, KnownLearnt DEF LimitsInv, ListInv
  <2>. QED  BY <2>1, <2>2 DEF LimitsInv, FreshInv
<1>6. PendingInv'
  <2> SUFFICES ASSUME NEW n \in Managers PROVE Pending(n)' \subseteq stream'
    BY DEF PendingInv
  <2>1. n = m => Pending(n)' = {}
    BY <1>3 DEF Pending
  <2>2. n # m => Pending(n)' = Pending(n)
    BY <1>1, <1>2 DEF Pending
  <2>. QED  BY <2>1, <2>2, <1>1 DEF LimitsInv, PendingInv
<1>7. ASSUME NEW n \in Managers, n # m, NEW d \in Devices[n]
      PROVE  Known(n, d)' = Known(n, d) /\ history'[d] = history[d]
  <2>1. d \notin Processed(list[m])
    BY <1>7, Owner DEF Processed, LimitsInv, ListInv
  <2>2. history'[d] = history[d]
    BY <1>1, <2>1, IsDevice DEF Learnt
  <2>. QED  BY <1>7, <2>2, KnownLearnt
<1>8. ASSUME NEW d \in Devices[m] \cap Watched, d \notin Processed(list[m])
      PROVE  Known(m, d)' = Known(m, d) /\ history'[d] = history[d]
  <2>1. history'[d] = history[d]
    BY <1>1, <1>8, IsDevice DEF Learnt
  <2>2. d \in DOMAIN list[m] => list[m][d].error
    BY <1>8 DEF Processed
  <2>. QED  BY <2>1, <2>2, KnownLearnt
<1>9. HistoryInv'
  <2>1. history' = [d \in AllDevices |-> history'[d]]
    BY <1>1 DEF Learnt
  <2>2. ASSUME NEW d \in AllDevices PROVE history'[d] \in [FieldNames[d] -> SUBSET Measured]
    <3>1. CASE d \in Processed(list[m])
      <4>1. history'[d] = Windows(Known(m, d)', d)
        BY <1>1, <3>1, LearntIs
      <4>2. \A f \in FieldNames[d] : InWindow(Known(m, d)', d, f) \in SUBSET Measured
        BY <3>1, LearntIs
      <4>. QED  BY <4>1, <4>2 DEF Windows
    <3>2. CASE d \notin Processed(list[m])
      BY <1>1, <3>2 DEF Learnt, LimitsInv, HistoryInv
    <3>. QED  BY <3>1, <3>2
  <2>3. ASSUME NEW n \in Managers, NEW d \in Devices[n] \cap Watched
        PROVE  history'[d] = Windows(Known(n, d)', d)
    <3>1. CASE n # m
      BY <3>1, <1>7 DEF LimitsInv, HistoryInv
    <3>2. CASE n = m /\ d \notin Processed(list[m])
      BY <3>2, <1>8 DEF LimitsInv, HistoryInv
    <3>3. CASE n = m /\ d \in Processed(list[m])
      BY <3>3, <1>1, LearntIs
    <3>. QED  BY <3>1, <3>2, <3>3
  <2>. QED  BY <2>1, <2>2, <2>3 DEF HistoryInv
<1>10. \A e : e \in Output(list[m]) <=> \E d \in Processed(list[m]) :
                                         e = LimitsOf(d, LatestTime(d, list[m][d]), history'[d])
  BY <1>1 DEF Output
<1>11. \A d, t, p : LimitsOf(d, t, p).device = d /\ LimitsOf(d, t, p).limits = Extremes(p)
  BY DEF LimitsOf
<1>12. OutgoingInv'
  <2>1. outgoing' = [n \in Managers |-> outgoing'[n]]
    BY <1>1 DEF LimitsInv, OutgoingInv
  <2>2. Names(Output(list[m])) \subseteq Processed(list[m])
    BY <1>10, <1>11 DEF Names
  <2>3. Processed(list[m]) \subseteq Devices[m] \cap Watched
    BY LearntIs
  <2>4. \A e1, e2 \in Output(list[m]) : e1.device = e2.device => e1 = e2
    BY <1>10, <1>11
  <2>5. ASSUME NEW n \in Managers
        PROVE  /\ Names(outgoing'[n]) \subseteq Devices[n] \cap Watched
               /\ phase'[n] = "publish" => Names(outgoing'[n]) \subseteq Processed(list[n])
               /\ \A e1, e2 \in outgoing'[n] : e1.device = e2.device => e1 = e2
    <3>1. CASE n = m
      BY <3>1, <1>3, <2>2, <2>3, <2>4
    <3>2. CASE n # m
      BY <3>2, <1>2 DEF LimitsInv, OutgoingInv
    <3>. QED  BY <3>1, <3>2
  <2>6. \A n : Processed(list[n])' = Processed(list[n])
    BY <1>1 DEF Processed
  <2>7. \A n : Names(outgoing[n])' = Names(outgoing'[n])
    BY DEF Names
  <2>. QED  BY <2>1, <2>5, <2>6, <2>7 DEF OutgoingInv
<1>13. UpInv'
  <2> SUFFICES ASSUME NEW n \in Managers, NEW d \in Devices[n] \cap Watched, Known(n, d)' # {}
               PROVE  \E e \in Up(n, d)' : e.device = d /\ e.limits = Extremes(history'[d])
    BY DEF UpInv, Extremes
  <2>1. CASE n # m
    <3>1. Up(n, d)' = Up(n, d)
      BY <1>1, <1>2, <2>1 DEF Up, Processed
    <3>. QED  BY <3>1, <2>1, <1>7 DEF LimitsInv, UpInv
  <2>2. CASE n = m /\ d \notin Processed(list[m])
    <3>1. Up(n, d)' = board /\ Up(n, d) = board
      BY <1>1, <2>2 DEF Up, Processed
    <3>. QED  BY <3>1, <2>2, <1>8 DEF LimitsInv, UpInv
  <2>3. CASE n = m /\ d \in Processed(list[m])
    <3>1. Up(n, d)' = Output(list[m])
      BY <1>1, <1>3, <2>3 DEF Up, Processed
    <3>. QED  BY <3>1, <2>3, <1>10, <1>11
  <2>. QED  BY <2>1, <2>2, <2>3
<1>14. FollowInv'
  <2>1. ASSUME NEW e \in Output(list[m]) PROVE Follows(e)
    <3>1. PICK d \in Processed(list[m]) : e = LimitsOf(d, LatestTime(d, list[m][d]), history'[d])
      BY <1>10
    <3>2. e.device = d /\ e.limits = Extremes(history'[d])
      BY <3>1, <1>11
    <3>3. /\ d \in Devices[m]
          /\ history'[d] = Windows(Known(m, d)', d)
          /\ \A f \in FieldNames[d] : InWindow(Known(m, d)', d, f) \in SUBSET Measured
          /\ \A f \in FieldNames[d] : InWindow(Known(m, d)', d, f) # {}
      BY <1>1, LearntIs
    <3>4. PICK S : S = Known(m, d)'
      OBVIOUS
    <3>5. S \subseteq {x \in stream : x.device = d}
      BY <3>4, <1>1 DEF Known
    <3>6. ASSUME NEW f \in FieldNames[d]
          PROVE  {e.limits[f].min, e.limits[f].max} \subseteq ValuesSent(d, f)
      <4>. DEFINE T == {tv.value : tv \in InWindow(S, d, f)}
      <4>1. history'[d][f] = InWindow(S, d, f) /\ DOMAIN history'[d] = FieldNames[d]
        BY <3>3, <3>4 DEF Windows
      <4>2. e.limits[f] = MinMax(T)
        BY <3>2, <4>1 DEF Extremes
      <4>3. T \in SUBSET Values /\ T # {}
        BY <3>3, <3>4 DEF Measured
      <4>4. T \subseteq ValuesSent(d, f)
        BY <3>5, WindowSent
      <4>. HIDE DEF T
      <4>. QED  BY <4>2, <4>3, <4>4, ExtremesAmong
    <3>. QED  BY <3>2, <3>6 DEF Follows
  <2>2. \A e : Follows(e) => Follows(e)'
    BY <1>1, FollowsOn
  <2>. QED  BY <1>1, <1>2, <1>3, <2>1, <2>2 DEF LimitsInv, FollowInv
<1>15. Names(board)' \subseteq Watched /\ OnePerDevice'
  BY <1>1 DEF LimitsInv, Names, OnePerDevice
<1>. QED  BY <1>4, <1>5, <1>6, <1>9, <1>12, <1>13, <1>14, <1>15 DEF LimitsInv

LEMMA InvSendLimits ==
    ASSUME LimitsInv, NEW m \in Managers, SendLimits(m)
    PROVE  LimitsInv'
<1>1. /\ phase[m] = "publish" /\ phase' = [phase EXCEPT ![m] = "poll"]
      /\ board' = Posted(outgoing[m])
      /\ list' = [list EXCEPT ![m] = Nothing]
      /\ outgoing' = [outgoing EXCEPT ![m] = {}]
      /\ UNCHANGED <<clock, history, stream>>
  BY DEF SendLimits, Goto
<1>2. \A n \in Managers : n # m => phase'[n] = phase[n] /\ list'[n] = list[n] /\ outgoing'[n] = outgoing[n]
  BY <1>1 DEF LimitsInv, PhaseInv, ListInv, OutgoingInv
<1>3. phase'[m] = "poll" /\ list'[m] = Nothing /\ outgoing'[m] = {} /\ DOMAIN list'[m] = {}
  BY <1>1 DEF LimitsInv, PhaseInv, ListInv, OutgoingInv, Nothing
<1>4. \A n \in Managers : \A d : Known(n, d)' = Known(n, d) /\ Pending(n)' = Pending(n)
  BY KnownStays
<1>5. \A e : e \in board' <=> e \in outgoing[m] \/ (e \in board /\ e.device \notin Names(outgoing[m]))
  BY <1>1 DEF Posted
<1>6. \A e \in outgoing[m] : e.device \in Names(outgoing[m])
  BY DEF Names
<1>7. clock' \in 0..MaxTime /\ PhaseInv' /\ StreamInv'
  BY <1>1 DEF LimitsInv, PhaseInv, StreamInv
<1>8. ListInv'
  <2>1. list' = [n \in Managers |-> list'[n]]
    BY <1>1 DEF LimitsInv, ListInv
  <2>2. ASSUME NEW n \in Managers
        PROVE  DOMAIN list'[n] \subseteq Devices[n] /\ \A d \in DOMAIN list'[n] : list'[n][d] \in Entries(d, clock)
    <3>1. CASE n = m
      BY <3>1, <1>3
    <3>2. CASE n # m
      BY <3>2, <1>2 DEF LimitsInv, ListInv
    <3>. QED  BY <3>1, <3>2
  <2>. QED  BY <2>1, <2>2, <1>1 DEF ListInv
<1>9. FreshInv'
  <2> SUFFICES ASSUME NEW n \in Managers, NEW d \in DOMAIN list'[n], phase'[n] \in {"send", "process"},
                      NEW f \in DOMAIN list'[n][d].fields, NEW x \in Known(n, d)
               PROVE  x.time < list'[n][d].fields[f].time
    BY <1>4 DEF FreshInv
  <2>1. n # m
    BY <1>3
  <2>. QED  BY <2>1, <1>2 DEF LimitsInv, FreshInv
<1>10. PendingInv'
  BY <1>1, <1>4 DEF LimitsInv, PendingInv
<1>11. HistoryInv'
  BY <1>1, <1>4 DEF LimitsInv, HistoryInv
<1>12. OutgoingInv'
  <2>1. outgoing' = [n \in Managers |-> outgoing'[n]]
    BY <1>1 DEF LimitsInv, OutgoingInv
  <2>2. ASSUME NEW n \in Managers
        PROVE  /\ Names(outgoing'[n]) \subseteq Devices[n] \cap Watched
               /\ phase'[n] = "publish" => Names(outgoing'[n]) \subseteq Processed(list'[n])
               /\ \A e1, e2 \in outgoing'[n] : e1.device = e2.device => e1 = e2
    <3>1. CASE n = m
      BY <3>1, <1>3 DEF Names
    <3>2. CASE n # m
      BY <3>2, <1>2 DEF LimitsInv, OutgoingInv
    <3>. QED  BY <3>1, <3>2
  <2>3. \A n : Names(outgoing[n])' = Names(outgoing'[n]) /\ Processed(list[n])' = Processed(list'[n])
    BY DEF Names, Processed
  <2>. QED  BY <2>1, <2>2, <2>3 DEF OutgoingInv
<1>13. UpInv'
  <2> SUFFICES ASSUME NEW n \in Managers, NEW d \in Devices[n] \cap Watched, Known(n, d) # {}
               PROVE  \E e \in Up(n, d)' : e.device = d /\ e.limits = Extremes(history[d])
    BY <1>1, <1>4 DEF UpInv
  <2>1. PICK e \in Up(n, d) : e.device = d /\ e.limits = Extremes(history[d])
    BY DEF LimitsInv, UpInv
  <2>2. CASE n = m
    <3>1. Up(n, d)' = board'
      BY <1>3, <2>2 DEF Up
    <3>2. CASE d \in Processed(list[m])
      BY <3>1, <3>2, <2>1, <2>2, <1>1, <1>5 DEF Up
    <3>3. CASE d \notin Processed(list[m])
      <4>1. d \notin Names(outgoing[m])
        BY <1>1, <3>3 DEF LimitsInv, OutgoingInv
      <4>. QED  BY <4>1, <3>1, <3>3, <2>1, <2>2, <1>5 DEF Up
    <3>. QED  BY <3>2, <3>3
  <2>3. CASE n # m
    <3>1. d \notin Names(outgoing[m])
      BY <2>3, Owner DEF LimitsInv, OutgoingInv
    <3>2. CASE phase[n] = "publish" /\ d \in Processed(list[n])
      BY <3>2, <2>1, <2>3, <1>2 DEF Up, Processed
    <3>3. CASE ~ (phase[n] = "publish" /\ d \in Processed(list[n]))
      <4>1. Up(n, d)' = board' /\ Up(n, d) = board
        BY <3>3, <2>3, <1>2 DEF Up, Processed
      <4>. QED  BY <4>1, <3>1, <2>1, <1>5
    <3>. QED  BY <3>2, <3>3
  <2>. QED  BY <2>2, <2>3
<1>14. FollowInv'
  <2>1. \A e : Follows(e) => Follows(e)'
    BY <1>1, FollowsOn
  <2>2. \A e \in board' : Follows(e)
    BY <1>5 DEF LimitsInv, FollowInv
  <2>3. \A n \in Managers : \A e \in outgoing'[n] : Follows(e)
    BY <1>2, <1>3 DEF LimitsInv, FollowInv
  <2>. QED  BY <2>1, <2>2, <2>3 DEF FollowInv
<1>15. Names(board)' \subseteq Watched
  BY <1>5, <1>6 DEF LimitsInv, OutgoingInv, Names
<1>16. OnePerDevice'
  BY <1>5, <1>6 DEF LimitsInv, OutgoingInv, OnePerDevice
<1>. QED  BY <1>7, <1>8, <1>9, <1>10, <1>11, <1>12, <1>13, <1>14, <1>15, <1>16 DEF LimitsInv

LEMMA InvStep == LimitsInv /\ [LimitsNext]_limitsVars => LimitsInv'
<1> SUFFICES ASSUME LimitsInv, [LimitsNext]_limitsVars PROVE LimitsInv'
  OBVIOUS
<1>1. ASSUME NEW m \in Managers, Poll(m) PROVE LimitsInv'
  BY <1>1, InvPoll
<1>2. ASSUME NEW m \in Managers, SendReadings(m) PROVE LimitsInv'
  BY <1>2, InvSendReadings
<1>3. ASSUME NEW m \in Managers, Process(m) PROVE LimitsInv'
  BY <1>3, InvProcess
<1>4. ASSUME NEW m \in Managers, SendLimits(m) PROVE LimitsInv'
  BY <1>4, InvSendLimits
<1>5. CASE UNCHANGED limitsVars
  <2>1. UNCHANGED <<clock, phase, list, history, outgoing, stream, board>>
    BY <1>5 DEF limitsVars
  <2>2. \A n \in Managers : \A d : /\ Known(n, d)' = Known(n, d) /\ Pending(n)' = Pending(n)
                              /\ Up(n, d)' = Up(n, d)
    BY <2>1 DEF Known, Pending, Up, Processed
  <2>3. clock' \in 0..MaxTime /\ PhaseInv' /\ ListInv' /\ StreamInv'
    BY <2>1 DEF LimitsInv, PhaseInv, ListInv, StreamInv
  <2>4. FreshInv' /\ PendingInv' /\ HistoryInv' /\ UpInv'
    <3>1. FreshInv'
      BY <2>1, <2>2 DEF LimitsInv, FreshInv
    <3>2. PendingInv'
      BY <2>1, <2>2 DEF LimitsInv, PendingInv
    <3>3. HistoryInv'
      BY <2>1, <2>2 DEF LimitsInv, HistoryInv
    <3>4. UpInv'
      BY <2>1, <2>2 DEF LimitsInv, UpInv
    <3>. QED  BY <3>1, <3>2, <3>3, <3>4
  <2>5. OutgoingInv' /\ Names(board)' \subseteq Watched /\ OnePerDevice'
    BY <2>1 DEF LimitsInv, OutgoingInv, Names, Processed, OnePerDevice
  <2>6. FollowInv'
    BY <2>1, FollowsOn DEF LimitsInv, FollowInv
  <2>. QED  BY <2>3, <2>4, <2>5, <2>6 DEF LimitsInv
<1>. QED  BY <1>1, <1>2, <1>3, <1>4, <1>5 DEF LimitsNext

LEMMA LimitsSafe == LimitsSpec => []LimitsInv
BY InvInit, InvStep, PTL DEF LimitsSpec

-----------------------------------------------------------------------------

(* Every variable keeps to its type, for any managers, devices and fields.    *)
THEOREM LimitsTypes == LimitsSpec => []LimitsTypeOK
<1>1. LimitsInv => LimitsTypeOK
  BY DEF LimitsInv, LimitsTypeOK, PhaseInv, ListInv, HistoryInv, OutgoingInv, Names
<1>. QED  BY <1>1, LimitsSafe, PTL

(* However the managers' sends interleave, the buffer that has no size limit  *)
(* holds one entry for a device.                                              *)
THEOREM BoardBounded == LimitsSpec => []OnePerDevice
<1>1. LimitsInv => OnePerDevice
  BY DEF LimitsInv
<1>. QED  BY <1>1, LimitsSafe, PTL

(* A client never sees limits of readings that were not sent before, though   *)
(* readings and limits are sent under separate locks.                         *)
THEOREM ReadingsFirst == LimitsSpec => []LimitsFollowReadings
<1>1. LimitsInv => LimitsFollowReadings
  BY DEF LimitsInv, FollowInv, Follows, LimitsFollowReadings
<1>. QED  BY <1>1, LimitsSafe, PTL

(* Pruning at every reading forgets nothing that counts and keeps nothing     *)
(* that does not, for any window: what is on the board between two polls is   *)
(* the minimum and maximum of all that was ever sent, within the window.      *)
THEOREM LimitsExact == LimitsSpec => []BoardExact
<1>1. LimitsInv => BoardExact
  <2> SUFFICES ASSUME LimitsInv, NEW m \in Managers, NEW d \in Devices[m] \cap Watched,
                      phase[m] = "poll", Times(d) # {}
               PROVE  \E e \in board : /\ e.device = d
                                       /\ e.limits = [f \in FieldNames[d] |-> MinMax(Recent(d, f))]
    BY DEF BoardExact
  <2>. DEFINE S == {x \in stream : x.device = d}
  <2>1. Known(m, d) = S /\ Up(m, d) = board
    BY DEF Known, Pending, Up
  <2>2. S # {}
    BY DEF Times, Sent
  <2>3. PICK e \in board : e.device = d /\ e.limits = Extremes(history[d])
    BY <2>1, <2>2 DEF LimitsInv, UpInv
  <2>4. history[d] = Windows(S, d)
    BY <2>1 DEF LimitsInv, HistoryInv
  <2>5. Before(S, d) = Times(d)
    BY DEF Before, Times, Sent
  <2>6. ASSUME NEW f \in FieldNames[d] PROVE {tv.value : tv \in InWindow(S, d, f)} = Recent(d, f)
    <3>1. \A v : v \in {tv.value : tv \in InWindow(S, d, f)} <=>
                   \E x \in stream : /\ x.device = d /\ x.name = f /\ v = x.value
                                     /\ \A t \in Times(d) : x.time + Window >= t
      <4>1. \A tv : tv \in InWindow(S, d, f) <=>
                       \E x \in S : /\ x.name = f /\ \A t \in Times(d) : x.time + Window >= t
                                   /\ tv = [time |-> x.time, value |-> x.value]
        BY <2>5, Zenon DEF InWindow
      <4>. HIDE DEF S
      <4>2. \A v : v \in {tv.value : tv \in InWindow(S, d, f)} <=>
                      \E x \in S : x.name = f /\ (\A t \in Times(d) : x.time + Window >= t) /\ v = x.value
        <5>1. ASSUME NEW tv \in InWindow(S, d, f)
              PROVE  \E x \in S : x.name = f /\ (\A t \in Times(d) : x.time + Window >= t) /\ tv.value = x.value
          BY <4>1
        <5>2. ASSUME NEW x \in S, x.name = f, \A t \in Times(d) : x.time + Window >= t
              PROVE  x.value \in {tv.value : tv \in InWindow(S, d, f)}
          <6>1. PICK tv : tv = [time |-> x.time, value |-> x.value]
            OBVIOUS
          <6>2. tv \in InWindow(S, d, f) /\ tv.value = x.value
            BY <6>1, <5>2, <4>1
          <6>. QED  BY <6>2
        <5>. QED  BY <5>1, <5>2
      <4>. QED  BY <4>2 DEF S
    <3>2. \A v : v \in Recent(d, f) <=>
                   \E x \in stream : /\ x.device = d /\ x.name = f /\ v = x.value
                                     /\ \A t \in Times(d) : x.time + Window >= t
      BY DEF Recent, Sent
    <3>. QED  BY <3>1, <3>2
  <2>. HIDE DEF S
  <2>7. Extremes(history[d]) = [f \in FieldNames[d] |-> MinMax({tv.value : tv \in InWindow(S, d, f)})]
    BY <2>4 DEF Windows, Extremes
  <2>8. \A f \in FieldNames[d] : MinMax({tv.value : tv \in InWindow(S, d, f)}) = MinMax(Recent(d, f))
    BY <2>6
  <2>. QED  BY <2>3, <2>7, <2>8
<1>. QED  BY <1>1, LimitsSafe, PTL
=============================================================================
