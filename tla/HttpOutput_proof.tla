-------------------------- MODULE HttpOutput_proof --------------------------
(* Proofs about HttpOutput, for any number of clients, any buffer size, any   *)
(* timeout and any horizon.                                                   *)
EXTENDS HttpOutput, TLAPS

(* Two critical sections never read the same time, nor the later one an       *)
(* earlier time.                                                              *)
StrictClock == \A d \in ClockSteps : d > 0

(* Time only moves forward, so nothing is stamped later than the clock.       *)
PastTimes == /\ \A k \in Buffered : stamp[k] <= clock
             /\ \A id \in Sessions : cookies[id] <= clock

(* The inductive invariant behind ReadPosition.                               *)
IInv == TypeOK /\ StampsSorted /\ PastTimes /\ ReadPosition

USE DEF Epoch, NoCookie

-----------------------------------------------------------------------------
(* What the components' operations do. *)

LEMMA BatchFits ==
    ASSUME TypeOK, NEW n \in 1..MaxBatch, NEW now \in 1..MaxTime,
           stored + n <= MaxStored, Add(n, now)
    PROVE  \E d, s \in Nat :
             /\ dropped' = d /\ stored' = s
             /\ dropped <= d /\ d <= s /\ stored < s /\ s <= MaxStored
             /\ stamp' \in [(d + 1)..s -> 1..MaxTime]
             /\ \A k \in (d + 1)..s :
                  /\ k <= stored => k \in Buffered /\ stamp'[k] = stamp[k]
                  /\ k > stored => stamp'[k] = now
<1>. DEFINE s == stored + n
            d == DroppedAfter(s)
<1>1. /\ stored \in Nat /\ dropped \in Nat /\ dropped <= stored
      /\ n \in Nat /\ n >= 1 /\ MaxStored \in Nat /\ Capacity \in Nat /\ Capacity >= 1
      /\ stamp \in [Buffered -> 1..MaxTime]
  BY CapacityAssumption, HttpAssumption DEF TypeOK
<1>2. s \in Nat /\ stored < s /\ s <= MaxStored
  BY <1>1
<1>3. d \in Nat /\ dropped <= d /\ d <= s
  BY <1>1, <1>2 DEF DroppedAfter
<1>4. /\ stored' = s /\ dropped' = d
      /\ stamp' = [k \in (d + 1)..s |-> IF k <= stored THEN stamp[k] ELSE now]
  BY DEF Add
<1>. HIDE DEF s, d
<1>5. \A k \in (d + 1)..s : k \in Nat /\ (k <= stored => k \in Buffered)
  BY <1>1, <1>2, <1>3 DEF Buffered
<1>6. stamp' \in [(d + 1)..s -> 1..MaxTime]
  BY <1>1, <1>4, <1>5
<1>7. \A k \in (d + 1)..s :
         /\ k <= stored => k \in Buffered /\ stamp'[k] = stamp[k]
         /\ k > stored => stamp'[k] = now
  BY <1>1, <1>4, <1>5
<1>. QED  BY <1>2, <1>3, <1>4, <1>6, <1>7

LEMMA FreshId ==
    ASSUME TypeOK, NEW id \in 1..MaxSession, NextId(id)
    PROVE  id \notin Sessions
BY HttpAssumption DEF TypeOK, NextId

LEMMA UnexpiredSubset == \A now : Unexpired(now) \subseteq Sessions
BY DEF Unexpired, Sessions

-----------------------------------------------------------------------------
(* Types *)

LEMMA TypeStep == TypeOK /\ [Next]_vars => TypeOK'
<1> SUFFICES ASSUME TypeOK, [Next]_vars PROVE TypeOK'
  OBVIOUS
<1> USE HttpAssumption
<1>1. CASE Publish
  <2>1. PICK n \in 1..MaxBatch : stored + n <= MaxStored /\ Add(n, clock')
    BY <1>1 DEF Publish
  <2>2. clock' \in 1..MaxTime
    BY <1>1 DEF Publish, Tick
  <2>3. PICK d, st \in Nat :
          /\ dropped' = d /\ stored' = st
          /\ dropped <= d /\ d <= st /\ stored < st /\ st <= MaxStored
          /\ stamp' \in [(d + 1)..st -> 1..MaxTime]
    BY <2>1, <2>2, BatchFits
  <2>4. served \in [Sessions -> 0..st] /\ Sessions' = Sessions /\ served' = served
    BY <1>1, <2>3 DEF TypeOK, Publish, Sessions
  <2>5. reply \in [Clients -> [status : {"none", "ok", "failed", "expired"},
                               session : 0..MaxSession,
                               entries : SUBSET (1..st)]]
    <3>1. 1..stored \subseteq 1..st
      BY <2>3 DEF TypeOK
    <3>. QED  BY <3>1 DEF TypeOK
  <2>6. st \in 0..MaxStored /\ d \in 0..st
    BY <2>3
  <2>. QED  BY <1>1, <2>2, <2>3, <2>4, <2>5, <2>6 DEF TypeOK, Publish, Buffered
<1>2. ASSUME NEW c \in Clients, ReadNew(c) PROVE TypeOK'
  <2>1. PICK id \in 1..MaxSession :
          /\ Create(id, clock')
          /\ \E from \in 1..(stored + 1) : From(from, Epoch) /\ Answer(c, id, from)
          /\ served' = [i \in DOMAIN cookies' |-> IF i = id THEN stored ELSE served[i]]
          /\ owner' = [i \in DOMAIN cookies' |-> IF i = id THEN c ELSE owner[i]]
    BY <1>2 DEF ReadNew
  <2>2. clock' \in 1..MaxTime /\ Sessions' = Sessions \cup {id}
    BY <1>2, <2>1 DEF ReadNew, Tick, Create, Sessions
  <2>3. /\ cookies' \in [Sessions' -> 1..MaxTime]
        /\ served' \in [Sessions' -> 0..stored]
        /\ owner' \in [Sessions' -> Clients]
    BY <2>1, <2>2 DEF TypeOK, Create, Sessions
  <2>4. reply' \in [Clients -> [status : {"none", "ok", "failed", "expired"},
                                session : 0..MaxSession,
                                entries : SUBSET (1..stored)]]
    BY <2>1 DEF TypeOK, Answer, Status
  <2>5. Sessions' \subseteq 1..MaxSession
    BY <2>2 DEF TypeOK
  <2>6. lastRead' \in [Clients -> 0..MaxTime]
    BY <1>2, <2>2 DEF TypeOK, ReadNew
  <2>7. UNCHANGED <<dropped, stored, stamp, jar>>
    BY <1>2 DEF ReadNew
  <2>. QED  BY <2>2, <2>3, <2>4, <2>5, <2>6, <2>7 DEF TypeOK, Buffered
<1>3. ASSUME NEW c \in Clients, ReadOn(c) PROVE TypeOK'
  <2>1. clock' \in 1..MaxTime /\ Sessions' \subseteq Sessions
    BY <1>3, UnexpiredSubset DEF ReadOn, Tick, Access, Sessions
  <2>2. /\ cookies' \in [Sessions' -> 1..MaxTime]
        /\ served' \in [Sessions' -> 0..stored]
        /\ owner' \in [Sessions' -> Clients]
    BY <1>3, <2>1, UnexpiredSubset DEF TypeOK, ReadOn, Access, Sessions
  <2>3. reply' \in [Clients -> [status : {"none", "ok", "failed", "expired"},
                                session : 0..MaxSession,
                                entries : SUBSET (1..stored)]]
    <3>1. PICK from \in 1..(stored + 1) : Answer(c, jar[c], from)
      BY <1>3 DEF ReadOn
    <3>. QED  BY <3>1 DEF TypeOK, Answer, Status
  <2>4. Sessions' \subseteq 1..MaxSession
    BY <2>1 DEF TypeOK
  <2>5. lastRead' \in [Clients -> 0..MaxTime]
    BY <1>3, <2>1 DEF TypeOK, ReadOn
  <2>6. UNCHANGED <<dropped, stored, stamp, jar>>
    BY <1>3 DEF ReadOn
  <2>. QED  BY <2>1, <2>2, <2>3, <2>4, <2>5, <2>6 DEF TypeOK, Buffered
<1>4. ASSUME NEW c \in Clients, ReadRefused(c) PROVE TypeOK'
  <2>1. clock' \in 1..MaxTime /\ Sessions' \subseteq Sessions
    BY <1>4, UnexpiredSubset DEF ReadRefused, Tick, Refuse, Sessions
  <2>2. /\ cookies' \in [Sessions' -> 1..MaxTime]
        /\ served' \in [Sessions' -> 0..stored]
        /\ owner' \in [Sessions' -> Clients]
    BY <1>4, <2>1, UnexpiredSubset DEF TypeOK, ReadRefused, Refuse, Sessions
  <2>3. Sessions' \subseteq 1..MaxSession
    BY <2>1 DEF TypeOK
  <2>. QED  BY <1>4, <2>1, <2>2, <2>3 DEF TypeOK, ReadRefused, Expired, None, Buffered
<1>5. ASSUME NEW c \in Clients, Receive(c) PROVE TypeOK'
  BY <1>5 DEF TypeOK, Receive, None, Expired, Sessions, Buffered
<1>6. ASSUME NEW c \in Clients, Lose(c) PROVE TypeOK'
  BY <1>6 DEF TypeOK, Lose, None, Sessions, Buffered
<1>7. ASSUME NEW c \in Clients, Forget(c) PROVE TypeOK'
  BY <1>7 DEF TypeOK, Forget, Sessions, Buffered
<1>8. CASE UNCHANGED vars
  BY <1>8 DEF TypeOK, vars, Sessions, Buffered
<1>. QED  BY <1>1, <1>2, <1>3, <1>4, <1>5, <1>6, <1>7, <1>8 DEF Next, Client

LEMMA TypeInit == Init => TypeOK
BY HttpAssumption DEF Init, TypeOK, SessionerInit, BufferInit, None, Sessions, Buffered

(* TypeOK holds in every state the output reaches.                            *)
THEOREM TypeCorrect == Spec => []TypeOK
BY TypeInit, TypeStep, PTL DEF Spec

-----------------------------------------------------------------------------
(* Read positions *)

LEMMA StrictTick ==
    ASSUME StrictClock, TypeOK, Tick
    PROVE  \E now \in 1..MaxTime : clock' = now /\ now > clock
<1>1. PICK d \in ClockSteps : clock' = clock + d
  BY DEF Tick
<1>2. clock + d \in 1..MaxTime
  BY <1>1 DEF Tick
<1>3. d \in Int /\ d > 0 /\ clock \in Int
  BY HttpAssumption DEF StrictClock, TypeOK
<1>. QED  BY <1>1, <1>2, <1>3

LEMMA InvInit == Init => IInv
<1> SUFFICES ASSUME Init PROVE IInv
  OBVIOUS
<1>1. Buffered = {} /\ Sessions = {}
  BY DEF Init, SessionerInit, BufferInit, Buffered, Sessions
<1>. QED  BY <1>1, TypeInit DEF IInv, StampsSorted, PastTimes, ReadPosition

(* The steps that leave the deque, the sessions and the clock alone.          *)
LEMMA InvSame ==
    ASSUME IInv, TypeOK', UNCHANGED <<cookies, dropped, stored, stamp, clock, served>>
    PROVE  IInv'
BY DEF IInv, StampsSorted, PastTimes, ReadPosition, Buffered, Sessions

(* A read brings its session's time and position up to date and leaves the    *)
(* other sessions that stay with theirs.                                      *)
LEMMA InvRead ==
    ASSUME IInv, TypeOK', NEW now \in 1..MaxTime, now > clock, clock' = now,
           NEW id, UNCHANGED <<dropped, stored, stamp>>,
           \A i \in Sessions' : i = id \/ i \in Sessions,
           \A i \in Sessions' : cookies'[i] = IF i = id THEN now ELSE cookies[i],
           \A i \in Sessions' : served'[i] = IF i = id THEN stored ELSE served[i]
    PROVE  IInv'
<1>1. /\ clock \in Int /\ now \in Int /\ stored \in Int
      /\ \A k \in Buffered : k \in Int /\ k <= stored /\ stamp[k] \in Int
      /\ \A i \in Sessions : cookies[i] \in Int /\ served[i] \in Int
  BY DEF IInv, TypeOK, Buffered
<1>2. Buffered' = Buffered
  BY DEF Buffered
<1>3. StampsSorted'
  BY <1>2 DEF IInv, StampsSorted
<1>4. /\ \A k \in Buffered : stamp[k] <= now
      /\ \A i \in Sessions : cookies[i] <= now
  BY <1>1 DEF IInv, PastTimes
<1>5. PastTimes'
  BY <1>1, <1>2, <1>4 DEF PastTimes
<1>6. ReadPosition'
  <2> SUFFICES ASSUME NEW i \in Sessions', NEW k \in Buffered
               PROVE  stamp[k] <= cookies'[i] <=> k <= served'[i]
    BY <1>2 DEF ReadPosition
  <2>1. CASE i = id
    BY <2>1, <1>1, <1>4
  <2>2. CASE i # id
    <3>1. i \in Sessions /\ cookies'[i] = cookies[i] /\ served'[i] = served[i]
      BY <2>2
    <3>. QED  BY <3>1 DEF IInv, ReadPosition
  <2>. QED  BY <2>1, <2>2
<1>. QED  BY <1>3, <1>5, <1>6 DEF IInv

(* A batch gets a time later than any kept for a session or a reading.        *)
LEMMA InvPublish ==
    ASSUME StrictClock, IInv, TypeOK', Publish
    PROVE  IInv'
<1>1. PICK now \in 1..MaxTime : clock' = now /\ now > clock
  BY StrictTick DEF IInv, Publish
<1>2. PICK d, s \in Nat :
        /\ dropped' = d /\ stored' = s
        /\ dropped <= d /\ d <= s /\ stored < s
        /\ \A k \in (d + 1)..s :
             /\ k <= stored => k \in Buffered /\ stamp'[k] = stamp[k]
             /\ k > stored => stamp'[k] = now
  BY <1>1, BatchFits DEF IInv, Publish
<1>3. /\ clock \in Int /\ now \in Int /\ stored \in Int
      /\ \A k \in Buffered : k \in Int /\ stamp[k] \in Int
      /\ \A k \in (d + 1)..s : k \in Int
      /\ \A i \in Sessions : cookies[i] \in Int /\ served[i] \in Int /\ served[i] <= stored
  BY DEF IInv, TypeOK, Buffered
<1>4. Buffered' = (d + 1)..s /\ Sessions' = Sessions
      /\ cookies' = cookies /\ served' = served
  BY <1>2 DEF Buffered, Sessions, Publish
<1>5. \A k \in (d + 1)..s : \/ k <= stored /\ k \in Buffered /\ stamp'[k] = stamp[k]
                            \/ k > stored /\ stamp'[k] = now
  BY <1>2, <1>3
<1>6. \A k \in Buffered : stamp[k] < now
  BY <1>1, <1>3 DEF IInv, PastTimes
<1>7. \A i \in Sessions : cookies[i] < now
  BY <1>1, <1>3 DEF IInv, PastTimes
<1>8. StampsSorted'
  <2> SUFFICES ASSUME NEW j \in (d + 1)..s, NEW k \in (d + 1)..s, j <= k
               PROVE  stamp'[j] <= stamp'[k]
    BY <1>4 DEF StampsSorted
  <2>1. CASE k <= stored
    <3>1. /\ stamp'[j] = stamp[j] /\ j \in Buffered
          /\ stamp'[k] = stamp[k] /\ k \in Buffered
      BY <2>1, <1>2, <1>3
    <3>. QED  BY <3>1 DEF IInv, StampsSorted
  <2>2. CASE k > stored
    BY <2>2, <1>3, <1>5, <1>6
  <2>. QED  BY <2>1, <2>2, <1>3
<1>9. PastTimes'
  <2>1. \A k \in (d + 1)..s : stamp'[k] <= now
    BY <1>3, <1>5, <1>6
  <2>2. \A i \in Sessions : cookies[i] <= now
    BY <1>3, <1>7
  <2>. QED  BY <1>1, <1>4, <2>1, <2>2 DEF PastTimes
<1>10. ReadPosition'
  <2> SUFFICES ASSUME NEW i \in Sessions, NEW k \in (d + 1)..s
               PROVE  stamp'[k] <= cookies[i] <=> k <= served[i]
    BY <1>4 DEF ReadPosition
  <2>1. CASE k <= stored
    BY <2>1, <1>2 DEF IInv, ReadPosition
  <2>2. CASE k > stored
    BY <2>2, <1>2, <1>3, <1>7
  <2>. QED  BY <2>1, <2>2, <1>3
<1>. QED  BY <1>8, <1>9, <1>10 DEF IInv

LEMMA InvStep == ASSUME StrictClock PROVE IInv /\ [Next]_vars => IInv'
<1> SUFFICES ASSUME IInv, [Next]_vars PROVE IInv'
  OBVIOUS
<1>0. TypeOK /\ TypeOK'
  BY TypeStep DEF IInv
<1>1. CASE Publish
  BY <1>0, <1>1, InvPublish
<1>2. ASSUME NEW c \in Clients, ReadNew(c) PROVE IInv'
  <2>1. PICK now \in 1..MaxTime : clock' = now /\ now > clock
    BY <1>0, <1>2, StrictTick DEF ReadNew
  <2>2. PICK id \in 1..MaxSession :
          /\ Create(id, clock')
          /\ served' = [i \in DOMAIN cookies' |-> IF i = id THEN stored ELSE served[i]]
    BY <1>2 DEF ReadNew
  <2>3. UNCHANGED <<dropped, stored, stamp>>
    BY <1>2 DEF ReadNew
  <2>4. Sessions' = Sessions \cup {id}
    BY <2>2 DEF Create, Sessions
  <2>5. \A i \in Sessions' : cookies'[i] = IF i = id THEN now ELSE cookies[i]
    BY <2>1, <2>2, <2>4 DEF Create, Sessions
  <2>6. \A i \in Sessions' : served'[i] = IF i = id THEN stored ELSE served[i]
    BY <2>2 DEF Sessions
  <2>. QED  BY <1>0, <2>1, <2>3, <2>4, <2>5, <2>6, InvRead
<1>3. ASSUME NEW c \in Clients, ReadOn(c) PROVE IInv'
  <2>1. PICK now \in 1..MaxTime : clock' = now /\ now > clock
    BY <1>0, <1>3, StrictTick DEF ReadOn
  <2>2. /\ Access(jar[c], clock')
        /\ served' = [i \in DOMAIN cookies' |-> IF i = jar[c] THEN stored ELSE served[i]]
        /\ UNCHANGED <<dropped, stored, stamp>>
    BY <1>3 DEF ReadOn
  <2>3. Sessions' \subseteq Sessions
    BY <2>2, UnexpiredSubset DEF Access, Sessions
  <2>4. \A i \in Sessions' : cookies'[i] = IF i = jar[c] THEN now ELSE cookies[i]
    BY <2>1, <2>2 DEF Access, Sessions
  <2>5. \A i \in Sessions' : served'[i] = IF i = jar[c] THEN stored ELSE served[i]
    BY <2>2 DEF Sessions
  <2>. QED  BY <1>0, <2>1, <2>2, <2>3, <2>4, <2>5, InvRead
<1>4. ASSUME NEW c \in Clients, ReadRefused(c) PROVE IInv'
  <2>1. PICK now \in 1..MaxTime : clock' = now /\ now > clock
    BY <1>0, <1>4, StrictTick DEF ReadRefused
  <2>2. /\ Refuse(jar[c], clock')
        /\ served' = [i \in DOMAIN cookies' |-> served[i]]
        /\ UNCHANGED <<dropped, stored, stamp>>
    BY <1>4 DEF ReadRefused
  <2>3. Sessions' \subseteq Sessions /\ jar[c] \notin Sessions'
    BY <2>2, UnexpiredSubset DEF Refuse, Sessions
  <2>4. \A i \in Sessions' : cookies'[i] = IF i = jar[c] THEN now ELSE cookies[i]
    BY <2>2, <2>3 DEF Refuse, Sessions
  <2>5. \A i \in Sessions' : served'[i] = IF i = jar[c] THEN stored ELSE served[i]
    BY <2>2, <2>3 DEF Sessions
  <2>. QED  BY <1>0, <2>1, <2>2, <2>3, <2>4, <2>5, InvRead
<1>5. ASSUME NEW c \in Clients, Receive(c) \/ Lose(c) \/ Forget(c) PROVE IInv'
  BY <1>0, <1>5, InvSame DEF Receive, Lose, Forget
<1>6. CASE UNCHANGED vars
  BY <1>0, <1>6, InvSame DEF vars
<1>. QED  BY <1>1, <1>2, <1>3, <1>4, <1>5, <1>6 DEF Next, Client

(* With a clock that moves between critical sections, the deque stays sorted  *)
(* and the time kept for a session is exactly its position in the readings.   *)
THEOREM PositionsExact == ASSUME StrictClock PROVE Spec => [](StampsSorted /\ ReadPosition)
<1>1. Init => IInv
  BY InvInit
<1>2. IInv /\ [Next]_vars => IInv'
  BY InvStep
<1>3. IInv => StampsSorted /\ ReadPosition
  BY DEF IInv
<1>. QED  BY <1>1, <1>2, <1>3, PTL DEF Spec
-----------------------------------------------------------------------------
(* The buffer's limit *)

LEMMA DropsStep == TypeOK /\ DropsOnlyOverflow /\ [Next]_vars => DropsOnlyOverflow'
<1> SUFFICES ASSUME TypeOK, DropsOnlyOverflow, [Next]_vars PROVE DropsOnlyOverflow'
  OBVIOUS
<1>1. CASE Publish
  <2>1. PICK n \in 1..MaxBatch : Add(n, clock')
    BY <1>1 DEF Publish
  <2>2. stored \in Nat /\ dropped \in Nat /\ n \in Nat /\ Capacity \in Nat
    BY CapacityAssumption, HttpAssumption DEF TypeOK
  <2>. QED  BY <2>1, <2>2 DEF DropsOnlyOverflow, Add, DroppedAfter
<1>2. ASSUME NEW c \in Clients, Client(c) PROVE UNCHANGED <<stored, dropped>>
  BY <1>2 DEF Client, ReadNew, ReadOn, ReadRefused, Receive, Lose, Forget
<1>3. CASE UNCHANGED <<stored, dropped>>
  BY <1>3 DEF DropsOnlyOverflow
<1>. QED  BY <1>1, <1>2, <1>3 DEF Next, vars

(* With such a clock the deque is sorted, as the binary search needs it.      *)
THEOREM DequeSorted == ASSUME StrictClock PROVE Spec => []StampsSorted
<1>. QED  BY PositionsExact, PTL

(* However batches straddle the limit, the deque holds as much as it may of   *)
(* what was stored, and no more.                                              *)
THEOREM OnlyOverflowDropped == Spec => []DropsOnlyOverflow
<1>1. Init => DropsOnlyOverflow
  BY CapacityAssumption DEF Init, BufferInit, DropsOnlyOverflow
<1>. QED  BY <1>1, DropsStep, TypeInit, TypeStep, PTL DEF Spec

-----------------------------------------------------------------------------
(* Sessions of active clients *)

(* The sessions that matter to a client: the one its cookie names and the one *)
(* an answer on its way will make it name.                                    *)
Named(c) == {jar[c], reply[c].session} \ {NoCookie}

InUse(c, id) == id \in Sessions /\ cookies[id] >= lastRead[c]

Away(c) == clock - lastRead[c] >= InactivityTimeout

(* The inductive invariant behind ActiveNeverRefused: a session that is gone, *)
(* or was given to somebody else since, is one its client had left alone.     *)
KeptInv == \A c \in Clients : \A id \in Named(c) : InUse(c, id) \/ Away(c)

LEMMA KeptOthers ==
    ASSUME TypeOK, TypeOK', clock' >= clock,
           NEW c \in Clients, NEW id, InUse(c, id) \/ Away(c), lastRead'[c] = lastRead[c],
           \A i \in Sessions : \/ i \in Sessions' /\ cookies'[i] >= cookies[i]
                              \/ clock' - cookies[i] >= InactivityTimeout
    PROVE  InUse(c, id)' \/ Away(c)'
<1>1. /\ clock \in Int /\ clock' \in Int /\ lastRead[c] \in Int /\ InactivityTimeout \in Int
      /\ \A i \in Sessions : cookies[i] \in Int
      /\ \A i \in Sessions' : cookies'[i] \in Int
  BY TimeoutAssumption DEF TypeOK
<1>2. CASE Away(c)
  BY <1>1, <1>2 DEF Away
<1>3. CASE InUse(c, id)
  BY <1>1, <1>3 DEF InUse, Away
<1>. QED  BY <1>2, <1>3

(* What the table does to the sessions it does not open or access.            *)
LEMMA TableKept ==
    ASSUME StrictClock, IInv, TypeOK', NEW c \in Clients,
           ReadNew(c) \/ ReadOn(c) \/ ReadRefused(c)
    PROVE  /\ clock' > clock
           /\ \A i \in Sessions : \/ i \in Sessions' /\ cookies'[i] >= cookies[i]
                                 \/ clock' - cookies[i] >= InactivityTimeout
<1>1. PICK now \in 1..MaxTime : clock' = now /\ now > clock
  BY StrictTick DEF IInv, ReadNew, ReadOn, ReadRefused
<1>2. /\ clock \in Int /\ now \in Int /\ InactivityTimeout \in Int
      /\ \A i \in Sessions : cookies[i] \in Int /\ cookies[i] <= now
  BY <1>1, TimeoutAssumption DEF IInv, TypeOK, PastTimes
<1>3. \A i \in Sessions : i \notin Unexpired(clock') => clock' - cookies[i] >= InactivityTimeout
  BY <1>1, <1>2 DEF Unexpired
<1>4. CASE ReadNew(c)
  <2>1. PICK id \in 1..MaxSession : Create(id, clock')
    BY <1>4 DEF ReadNew
  <2>. QED  BY <1>1, <1>2, <2>1 DEF Create, Sessions
<1>5. CASE ReadOn(c)
  BY <1>1, <1>2, <1>3, <1>5 DEF ReadOn, Access, Sessions
<1>6. CASE ReadRefused(c)
  BY <1>1, <1>2, <1>3, <1>6 DEF ReadRefused, Refuse, Sessions
<1>. QED  BY <1>1, <1>2, <1>4, <1>5, <1>6

LEMMA KeptStep == ASSUME StrictClock PROVE IInv /\ KeptInv /\ [Next]_vars => KeptInv'
<1> SUFFICES ASSUME IInv, KeptInv, [Next]_vars, NEW d \in Clients, NEW id \in Named(d)'
             PROVE  InUse(d, id)' \/ Away(d)'
  BY DEF KeptInv
<1>0. TypeOK /\ TypeOK'
  BY TypeStep DEF IInv
<1>1. CASE Publish
  <2>1. clock' >= clock
    BY <1>0, <1>1, StrictTick DEF Publish, TypeOK
  <2>2. Named(d)' = Named(d) /\ lastRead' = lastRead /\ cookies' = cookies
    BY <1>1 DEF Publish, Named
  <2>3. \A i \in Sessions : i \in Sessions' /\ cookies'[i] >= cookies[i]
    BY <1>0, <2>2 DEF Sessions, TypeOK
  <2>4. InUse(d, id) \/ Away(d)
    BY <2>2 DEF KeptInv
  <2>. QED  BY <1>0, <2>1, <2>2, <2>3, <2>4, KeptOthers
<1>2. ASSUME NEW c \in Clients, ReadNew(c) \/ ReadOn(c) \/ ReadRefused(c)
      PROVE  InUse(d, id)' \/ Away(d)'
  <2>1. /\ clock' > clock
        /\ \A i \in Sessions : \/ i \in Sessions' /\ cookies'[i] >= cookies[i]
                              \/ clock' - cookies[i] >= InactivityTimeout
    BY <1>0, <1>2, TableKept
  <2>2. clock' >= clock
    BY <1>0, <2>1 DEF TypeOK
  <2>3. ASSUME id \in Named(d), lastRead'[d] = lastRead[d] PROVE InUse(d, id)' \/ Away(d)'
    <3>1. InUse(d, id) \/ Away(d)
      BY <2>3 DEF KeptInv
    <3>. QED  BY <1>0, <2>1, <2>2, <2>3, <3>1, KeptOthers
  <2>4. CASE d # c \/ ReadRefused(c)
    <3>1. id \in Named(d) /\ lastRead'[d] = lastRead[d]
      <4>1. CASE ReadNew(c)
        BY <1>0, <2>4, <4>1 DEF ReadNew, Named, Answer, TypeOK, ReadRefused, Expired, None
      <4>2. CASE ReadOn(c)
        BY <1>0, <2>4, <4>2 DEF ReadOn, Named, Answer, TypeOK, ReadRefused, Expired, None
      <4>3. CASE ReadRefused(c)
        BY <1>0, <4>3 DEF ReadRefused, Named, Expired, None, TypeOK
      <4>. QED  BY <1>2, <4>1, <4>2, <4>3
    <3>. QED  BY <2>3, <3>1
  <2>5. CASE d = c /\ ReadNew(c)
    <3>1. PICK new \in 1..MaxSession :
            /\ Create(new, clock')
            /\ \E from \in 1..(stored + 1) : From(from, Epoch) /\ Answer(c, new, from)
      BY <2>5 DEF ReadNew
    <3>2. id = new
      BY <1>0, <2>5, <3>1 DEF Named, ReadNew, Answer, TypeOK
    <3>3. lastRead'[c] = clock' /\ new \in Sessions' /\ cookies'[new] = clock'
      BY <1>0, <2>5, <3>1 DEF ReadNew, Create, Sessions, TypeOK
    <3>. QED  BY <1>0, <2>5, <3>2, <3>3 DEF InUse, TypeOK
  <2>6. CASE d = c /\ ReadOn(c)
    <3>1. id = jar[c]
      BY <1>0, <2>6 DEF Named, ReadOn, Answer, TypeOK
    <3>2. lastRead'[c] = clock' /\ jar[c] \in Sessions' /\ cookies'[jar[c]] = clock'
      BY <1>0, <2>6 DEF ReadOn, Access, Sessions, TypeOK
    <3>. QED  BY <1>0, <2>6, <3>1, <3>2 DEF InUse, TypeOK
  <2>. QED  BY <1>2, <2>4, <2>5, <2>6
<1>3. ASSUME NEW c \in Clients, Receive(c) \/ Lose(c) \/ Forget(c)
      PROVE  InUse(d, id)' \/ Away(d)'
  <2>1. id \in Named(d)
    <3>1. DOMAIN jar = Clients /\ DOMAIN reply = Clients /\ None.session = NoCookie
      BY <1>0 DEF TypeOK, None
    <3>2. /\ jar'[d] \in {jar[d], reply[d].session, NoCookie}
          /\ reply'[d] \in {reply[d], None}
      BY <1>3, <3>1 DEF Receive, Lose, Forget
    <3>. QED  BY <3>1, <3>2 DEF Named
  <2>2. UNCHANGED <<cookies, clock, lastRead>>
    BY <1>3 DEF Receive, Lose, Forget
  <2>. QED  BY <2>1, <2>2 DEF KeptInv, InUse, Away, Sessions
<1>4. CASE UNCHANGED vars
  BY <1>4 DEF vars, KeptInv, Named, InUse, Away, Sessions
<1>. QED  BY <1>1, <1>2, <1>3, <1>4 DEF Next, Client

LEMMA ActiveStep ==
    ASSUME StrictClock, IInv, KeptInv, [Next]_vars, NEW c \in Clients,
           jar[c] # NoCookie, reply[c] = None, reply'[c] = Expired
    PROVE  clock' - lastRead[c] >= InactivityTimeout
<1>0. TypeOK /\ TypeOK'
  BY TypeStep DEF IInv
<1>1. ReadRefused(c)
  <2>1. None # Expired
    BY DEF None, Expired
  <2>2. CASE Publish
    BY <2>1, <2>2 DEF Publish
  <2>3. ASSUME NEW d \in Clients, ReadNew(d) PROVE FALSE
    <3>1. PICK new \in 1..MaxSession, from \in 1..(stored + 1) : Answer(d, new, from)
      BY <2>3 DEF ReadNew
    <3>. QED  BY <1>0, <2>1, <3>1 DEF Answer, Status, None, Expired, TypeOK
  <2>4. ASSUME NEW d \in Clients, ReadOn(d) PROVE FALSE
    <3>1. PICK from \in 1..(stored + 1) : Answer(d, jar[d], from)
      BY <2>4 DEF ReadOn
    <3>. QED  BY <1>0, <2>1, <3>1 DEF Answer, Status, None, Expired, TypeOK
  <2>5. ASSUME NEW d \in Clients, ReadRefused(d) PROVE d = c
    BY <1>0, <2>1, <2>5 DEF ReadRefused, TypeOK
  <2>6. ASSUME NEW d \in Clients, Receive(d) \/ Lose(d) \/ Forget(d) PROVE FALSE
    BY <1>0, <2>1, <2>6 DEF Receive, Lose, Forget, TypeOK
  <2>7. CASE UNCHANGED vars
    BY <2>1, <2>7 DEF vars
  <2>. QED  BY <2>2, <2>3, <2>4, <2>5, <2>6, <2>7 DEF Next, Client
<1>2. InUse(c, jar[c]) \/ Away(c)
  BY DEF KeptInv, Named
<1>3. PICK now \in 1..MaxTime : clock' = now /\ now > clock
  BY <1>0, <1>1, StrictTick DEF ReadRefused
<1>4. /\ clock \in Int /\ now \in Int /\ lastRead[c] \in Int /\ InactivityTimeout \in Int
      /\ \A i \in Sessions : cookies[i] \in Int
  BY <1>0, TimeoutAssumption DEF TypeOK
<1>5. jar[c] \in Sessions => now - cookies[jar[c]] >= InactivityTimeout
  BY <1>1, <1>3, <1>4 DEF ReadRefused, Refuse, Unexpired
<1>. QED  BY <1>2, <1>3, <1>4, <1>5 DEF InUse, Away

(* A client that comes back within the timeout is served, whatever other      *)
(* clients made of the table and however many of its answers were lost.       *)
THEOREM ActiveServed == ASSUME StrictClock PROVE Spec => ActiveNeverRefused
<1>1. Init => IInv /\ KeptInv
  <2>1. Init => KeptInv
    BY DEF Init, KeptInv, Named, None
  <2>. QED  BY <2>1, InvInit
<1>2. IInv /\ KeptInv /\ [Next]_vars => IInv' /\ KeptInv'
  BY InvStep, KeptStep
<1>3. IInv /\ KeptInv /\ [Next]_vars =>
        [\A c \in Clients :
           jar[c] # NoCookie /\ reply[c] = None /\ reply'[c] = Expired
           => clock' - lastRead[c] >= InactivityTimeout]_vars
  BY ActiveStep
<1>. QED  BY <1>1, <1>2, <1>3, PTL DEF Spec, ActiveNeverRefused

-----------------------------------------------------------------------------
(* HttpOutput implements ReadLog *)

(* What the search finds for a session's time is what the session is owed.    *)
LEMMA SearchExact ==
    ASSUME IInv, NEW id \in Sessions, NEW from \in 1..(stored + 1), From(from, cookies[id])
    PROVE  from..stored = Log!Unread(served[id])
<1>1. /\ stored \in Int /\ dropped \in Int /\ dropped >= 0
      /\ \A k \in Buffered : k \in Int /\ stamp[k] \in Int
      /\ cookies[id] \in Int /\ served[id] \in Int
  BY DEF IInv, TypeOK, Buffered
<1>2. \A k \in Buffered : k <= served[id] <=> stamp[k] <= cookies[id]
  BY DEF IInv, ReadPosition
<1>3. \A k \in Buffered : k < from => stamp[k] <= cookies[id]
  <2> SUFFICES ASSUME NEW k \in Buffered, k < from PROVE stamp[k] <= cookies[id]
    OBVIOUS
  <2>1. from - 1 \in Buffered /\ k <= from - 1 /\ from > dropped + 1
    BY <1>1 DEF Buffered, From
  <2>2. stamp[k] <= stamp[from - 1] /\ stamp[from - 1] <= cookies[id]
    BY <2>1 DEF IInv, StampsSorted, From
  <2>. QED  BY <1>1, <2>1, <2>2
<1>4. \A k \in Buffered : k >= from => stamp[k] > cookies[id]
  <2> SUFFICES ASSUME NEW k \in Buffered, k >= from PROVE stamp[k] > cookies[id]
    OBVIOUS
  <2>1. from \in Buffered /\ from <= stored
    BY <1>1 DEF Buffered, From
  <2>2. stamp[from] <= stamp[k] /\ cookies[id] < stamp[from]
    BY <2>1 DEF IInv, StampsSorted, From
  <2>. QED  BY <1>1, <2>1, <2>2
<1>5. \A k \in Buffered : k >= from <=> k > served[id]
  BY <1>1, <1>2, <1>3, <1>4
<1>6. from..stored = {k \in Buffered : k >= from}
  BY <1>1 DEF From, Buffered
<1>. QED  BY <1>5, <1>6 DEF Log!Unread, Buffered

(* A search for the epoch finds the front of the deque.                       *)
LEMMA SearchEpoch ==
    ASSUME TypeOK, NEW from \in 1..(stored + 1), From(from, Epoch)
    PROVE  from..stored = Log!Unread(0)
<1>1. /\ stored \in Int /\ dropped \in Int /\ dropped >= 0
      /\ \A k \in Buffered : k \in Int /\ stamp[k] \in Int /\ stamp[k] > 0
  BY DEF TypeOK, Buffered
<1>2. from = dropped + 1
  <2> SUFFICES ASSUME from > dropped + 1 PROVE FALSE
    BY <1>1 DEF From
  <2>1. from - 1 \in Buffered
    BY <1>1 DEF From, Buffered
  <2>. QED  BY <1>1, <2>1 DEF From
<1>. QED  BY <1>1, <1>2 DEF Log!Unread

LEMMA LogInit == Init => Log!Init
BY DEF Init, BufferInit, None, Log!Init, Log!None

LEMMA LogStep == IInv /\ IInv' /\ [Next]_vars => [Log!Next]_<<stored, dropped, served, reply>>
<1> SUFFICES ASSUME IInv, IInv', [Next]_vars
             PROVE  [Log!Next]_<<stored, dropped, served, reply>>
  OBVIOUS
<1>0. TypeOK /\ DOMAIN served = Sessions /\ DOMAIN served' = Sessions'
  BY DEF IInv, TypeOK
<1>1. CASE Publish
  <2>1. PICK n \in 1..MaxBatch : stored + n <= MaxStored /\ Add(n, clock')
    BY <1>1 DEF Publish
  <2>2. clock' \in 1..MaxTime
    BY <1>1 DEF Publish, Tick
  <2>3. PICK d, s \in Nat : dropped' = d /\ stored' = s /\ dropped <= d /\ d <= s /\ stored < s
    BY <1>0, <2>1, <2>2, BatchFits
  <2>4. stored \in Int /\ dropped \in Int
    BY <1>0 DEF TypeOK
  <2>5. s > stored /\ d \in dropped..s
    BY <2>3, <2>4
  <2>. QED  BY <1>1, <2>3, <2>5 DEF Publish, Log!Next, Log!Store
<1>2. ASSUME NEW c \in Clients, ReadNew(c) PROVE Log!Open(c)
  <2>1. PICK id \in 1..MaxSession :
          /\ Create(id, clock')
          /\ \E from \in 1..(stored + 1) : From(from, Epoch) /\ Answer(c, id, from)
          /\ served' = [i \in DOMAIN cookies' |-> IF i = id THEN stored ELSE served[i]]
    BY <1>2 DEF ReadNew
  <2>2. id \notin Sessions /\ Sessions' = Sessions \cup {id}
    BY <1>0, <2>1, FreshId DEF Create, Sessions
  <2>3. PICK from \in 1..(stored + 1) : From(from, Epoch) /\ Answer(c, id, from)
    BY <2>1
  <2>4. Log!Answers(c, id, Log!Unread(0))
    BY <1>0, <2>3, SearchEpoch DEF Answer, Status, Log!Answers
  <2>5. served' = [i \in DOMAIN served \cup {id} |-> IF i = id THEN stored ELSE served[i]]
    BY <1>0, <2>1, <2>2 DEF Sessions
  <2>6. id \in DOMAIN served' \ DOMAIN served
    BY <1>0, <2>2
  <2>7. reply[c] = None /\ UNCHANGED <<stored, dropped>>
    BY <1>2 DEF ReadNew
  <2>. QED  BY <2>4, <2>5, <2>6, <2>7 DEF Log!Open, Log!Waiting, Log!None, None
<1>3. ASSUME NEW c \in Clients, ReadOn(c) PROVE Log!Resume(c)
  <2>1. /\ Access(jar[c], clock')
        /\ served' = [i \in DOMAIN cookies' |-> IF i = jar[c] THEN stored ELSE served[i]]
        /\ reply[c] = None
        /\ UNCHANGED <<stored, dropped>>
    BY <1>3 DEF ReadOn
  <2>2. PICK from \in 1..(stored + 1) : From(from, cookies[jar[c]]) /\ Answer(c, jar[c], from)
    BY <1>3 DEF ReadOn
  <2>3. Sessions' = Unexpired(clock') /\ jar[c] \in Sessions' /\ Sessions' \subseteq Sessions
    BY <2>1, UnexpiredSubset DEF Access, Sessions
  <2>4. Log!Answers(c, jar[c], Log!Unread(served[jar[c]]))
    BY <2>2, <2>3, SearchExact DEF Answer, Status, Log!Answers
  <2>5. served' = [i \in DOMAIN served' |-> IF i = jar[c] THEN stored ELSE served[i]]
    BY <1>0, <2>1 DEF Sessions
  <2>. QED  BY <1>0, <2>1, <2>3, <2>4, <2>5 DEF Log!Resume, Log!Waiting, Log!None, None
<1>4. ASSUME NEW c \in Clients, ReadRefused(c) PROVE Log!Refused(c)
  <2>1. Sessions' \subseteq Sessions
    BY <1>4, UnexpiredSubset DEF ReadRefused, Refuse, Sessions
  <2>2. served' = [i \in DOMAIN served' |-> served[i]]
    BY <1>0, <1>4 DEF ReadRefused, Sessions
  <2>3. reply[c] = None /\ UNCHANGED <<stored, dropped>>
        /\ reply' = [reply EXCEPT ![c] = Expired]
    BY <1>4 DEF ReadRefused
  <2>4. Expired = [status |-> "expired", session |-> 0, entries |-> {}]
    BY DEF Expired, None
  <2>. QED
    BY <1>0, <2>1, <2>2, <2>3, <2>4 DEF Log!Refused, Log!Waiting, Log!None, None
<1>5. ASSUME NEW c \in Clients, Receive(c) \/ Lose(c) PROVE Log!Taken(c)
  BY <1>5 DEF Receive, Lose, None, Log!Taken, Log!Waiting, Log!None
<1>6. ASSUME NEW c \in Clients, Forget(c) PROVE UNCHANGED <<stored, dropped, served, reply>>
  BY <1>6 DEF Forget
<1>7. CASE UNCHANGED vars
  BY <1>7 DEF vars
<1>. QED  BY <1>1, <1>2, <1>3, <1>4, <1>5, <1>6, <1>7 DEF Next, Client, Log!Next

(* With a clock that moves between critical sections, GET /read gives every   *)
(* session each reading once and in order, as long as the buffer has it.      *)
THEOREM LogImplemented == ASSUME StrictClock PROVE Spec => ImplementsLog
<1>1. Init => IInv
  BY InvInit
<1>2. IInv /\ [Next]_vars => IInv'
  BY InvStep
<1>3. Init => Log!Init
  BY LogInit
<1>4. IInv /\ IInv' /\ [Next]_vars => [Log!Next]_<<stored, dropped, served, reply>>
  BY LogStep
<1>. QED  BY <1>1, <1>2, <1>3, <1>4, PTL DEF Spec, ImplementsLog, Log!Spec
=============================================================================
