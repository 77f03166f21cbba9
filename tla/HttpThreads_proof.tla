-------------------------- MODULE HttpThreads_proof --------------------------
(* Proofs about HttpThreads, for any number of clients, handlers and          *)
(* managers.                                                                  *)
EXTENDS HttpThreads, HttpOutput_proof, SequenceTheorems

-----------------------------------------------------------------------------
(* The mutex *)

Inside == {"locked", "get", "leave", "thrown"}
ManagerPlaces == {"idle", "lock", "locked", "leave"}

MutexInv ==
    /\ DOMAIN at = Threads
    /\ \A m \in Managers : at[m] \in ManagerPlaces
    /\ lock \in Threads \cup {Nobody}
    /\ Exclusion

USE DEF Inside, ManagerPlaces, Epoch, NoCookie

LEMMA MutexInit == ThreadInit => MutexInv
BY ThreadsAssumption DEF ThreadInit, MutexInv, Exclusion, Threads

(* A thread that stays inside, or stays outside.                              *)
LEMMA MutexKept ==
    ASSUME MutexInv, NEW t \in Threads, NEW from, NEW to, Goto(t, from, to), lock' = lock,
           from \in Inside <=> to \in Inside, t \in Managers => to \in ManagerPlaces
    PROVE  MutexInv'
<1>1. /\ DOMAIN at' = Threads /\ at'[t] = to /\ at[t] = from
      /\ \A u \in Threads : u # t => at'[u] = at[u]
  BY DEF Goto, MutexInv
<1>2. \A u \in Threads : at'[u] \in Inside <=> at[u] \in Inside
  BY <1>1
<1>. QED  BY <1>1, <1>2 DEF MutexInv, Exclusion, Threads

LEMMA MutexStep == MutexInv /\ [ThreadNext]_threadVars => MutexInv'
<1> SUFFICES ASSUME MutexInv, [ThreadNext]_threadVars PROVE MutexInv'
  OBVIOUS
<1>0. /\ Handlers \subseteq Threads /\ Managers \subseteq Threads
      /\ \A h \in Handlers : h \notin Managers
      /\ Nobody \notin Threads
  BY ThreadsAssumption DEF Threads
<1>1. CASE UNCHANGED <<at, lock>>
  BY <1>1 DEF MutexInv, Exclusion
<1>2. ASSUME NEW t \in Threads, Enter(t) PROVE MutexInv'
  <2>1. /\ at[t] = "lock" /\ at' = [at EXCEPT ![t] = "locked"]
        /\ lock = Nobody /\ lock' = t
    BY <1>2 DEF Enter, Goto
  <2>2. \A u \in Threads : at[u] \notin Inside
    BY <1>0, <2>1 DEF MutexInv, Exclusion
  <2>. QED  BY <1>0, <2>1, <2>2 DEF MutexInv, Exclusion
<1>3. ASSUME NEW t \in Threads, Leave(t) PROVE MutexInv'
  <2>1. /\ at[t] \in {"leave", "thrown"} /\ lock' = Nobody
        /\ \E to \in {"idle", "render"} :
             at' = [at EXCEPT ![t] = to] /\ (t \in Managers => to = "idle")
    BY <1>3 DEF Leave, Goto, MutexInv
  <2>2. \A u \in Threads : u # t => at[u] \notin Inside
    BY <2>1 DEF MutexInv, Exclusion
  <2>. QED  BY <1>0, <2>1, <2>2 DEF MutexInv, Exclusion
<1>4. ASSUME NEW h \in Handlers, Take(h) \/ Serve(h) PROVE MutexInv'
  <2>1. lock' = lock
    BY <1>4 DEF Take, Serve, OpenSession, ResumeSession, RefuseSession, CopyReadings, Render
  <2>2. \E from, to : Goto(h, from, to) /\ (from \in Inside <=> to \in Inside)
    BY <1>4 DEF Take, Serve, OpenSession, ResumeSession, RefuseSession, CopyReadings, Render
  <2>. QED  BY <1>0, <2>1, <2>2, MutexKept
<1>5. ASSUME NEW m \in Managers, Polled(m) \/ Store(m) PROVE MutexInv'
  <2>1. lock' = lock
    BY <1>5 DEF Polled, Store
  <2>2. \E from, to : Goto(m, from, to) /\ (from \in Inside <=> to \in Inside) /\ to \in ManagerPlaces
    BY <1>5 DEF Polled, Store
  <2>. QED  BY <1>0, <2>1, <2>2, MutexKept
<1>6. ASSUME NEW c \in Clients, Request(c) \/ Hears(c) PROVE UNCHANGED <<at, lock>>
  BY <1>6 DEF Request, Hears
<1>7. CASE Finished \/ UNCHANGED threadVars
  BY <1>1, <1>7 DEF Finished, threadVars
<1>. QED  BY <1>1, <1>2, <1>3, <1>4, <1>5, <1>6, <1>7 DEF ThreadNext

(* Whatever the threads do, and whether or not a session's refusal unwinds    *)
(* the stack, exactly the thread that is inside holds the mutex.              *)
THEOREM MutexExcludes == ThreadSpec => []Exclusion
<1>1. MutexInv => Exclusion
  BY DEF MutexInv
<1>. QED  BY <1>1, MutexInit, MutexStep, PTL DEF ThreadSpec

-----------------------------------------------------------------------------
(* Requests, and what the handlers have at hand *)

(* A client has one request under way at most, at one place.                  *)
OneEach ==
    /\ queue \in Seq(Clients)
    /\ job \in [Handlers -> Clients \cup {Nobody}]
    /\ \A h \in Handlers : at[h] = "idle" <=> job[h] = Nobody
    /\ \A g, h \in Handlers : job[g] = job[h] /\ job[g] # Nobody => g = h
    /\ \A i, j \in DOMAIN queue : queue[i] = queue[j] => i = j
    /\ \A i \in DOMAIN queue : \A h \in Handlers : queue[i] # job[h]
    /\ \A c \in Clients : Busy(c) => reply[c] = None

HandlersInv ==
    /\ session \in [Handlers -> 0..MaxSession]
    /\ last \in [Handlers -> 0..MaxTime]
    /\ page \in [Handlers -> SUBSET (1..stored)]
    /\ \A h \in Handlers : /\ at[h] \in {"idle", "lock", "locked", "thrown"} => session[h] = NoCookie
                           /\ at[h] \in {"get", "leave"} => session[h] # NoCookie

BatchInv ==
    /\ batch \in [Managers -> Nat]
    /\ \A m \in Managers : at[m] \in {"lock", "locked"} => batch[m] \in 1..MaxBatch

LEMMA ThreadSorts ==
    /\ Handlers \subseteq Threads /\ Managers \subseteq Threads
    /\ \A t \in Threads : (t \in Handlers /\ t \notin Managers) \/ (t \in Managers /\ t \notin Handlers)
    /\ Nobody \notin Threads \cup Clients
<1>1. \A t \in Handlers : t \notin Managers
  BY ThreadsAssumption
<1>. QED  BY <1>1, ThreadsAssumption DEF Threads

(* A move of one thread.                                                      *)
LEMMA Moved ==
    ASSUME MutexInv, NEW t \in Threads, NEW from, NEW to, Goto(t, from, to)
    PROVE  at[t] = from /\ at'[t] = to /\ \A u \in Threads : u # t => at'[u] = at[u]
BY DEF Goto, MutexInv

LEMMA OneEachSame ==
    ASSUME OneEach, UNCHANGED <<queue, job, reply>>,
           \A h \in Handlers : at'[h] = "idle" <=> at[h] = "idle"
    PROVE  OneEach'
BY DEF OneEach, Busy

LEMMA OneEachInit == ThreadInit => OneEach
<1> SUFFICES ASSUME ThreadInit PROVE OneEach
  OBVIOUS
<1>1. /\ queue = <<>> /\ DOMAIN queue = {} /\ queue \in Seq(Clients)
      /\ job = [h \in Handlers |-> Nobody] /\ at = [t \in Threads |-> "idle"]
      /\ reply = [c \in Clients |-> None]
  BY EmptySeq DEF ThreadInit, Init
<1>. QED  BY <1>1, ThreadSorts DEF OneEach, Busy

(* A request is queued, taken up and answered.                                *)
LEMMA RequestQueued ==
    ASSUME OneEach, NEW c \in Clients, Request(c)
    PROVE  OneEach'
<1>1. /\ queue' = Append(queue, c) /\ UNCHANGED <<reply, at, job>>
      /\ reply[c] = None /\ ~ Busy(c) /\ queue \in Seq(Clients)
  BY DEF Request, vars, OneEach
<1>. DEFINE n == Len(queue)
<1>2. /\ n \in Nat /\ DOMAIN queue = 1..n
      /\ queue' \in Seq(Clients) /\ DOMAIN queue' = 1..(n + 1)
      /\ \A i \in 1..n : queue'[i] = queue[i]
      /\ queue'[n + 1] = c
  BY <1>1, AppendProperties, LenProperties
<1>. HIDE DEF n
<1>3. \A i \in 1..(n + 1) : i \in 1..n \/ i = n + 1
  BY <1>2
<1>4. /\ \A i \in 1..n : queue[i] # c
      /\ \A h \in Handlers : job[h] # c
  BY <1>1, <1>2 DEF Busy
<1>5. \A i, j \in 1..(n + 1) : queue'[i] = queue'[j] => i = j
  BY <1>2, <1>3, <1>4 DEF OneEach
<1>6. \A i \in 1..(n + 1) : \A h \in Handlers : queue'[i] # job[h]
  BY <1>2, <1>3, <1>4 DEF OneEach
<1>7. ASSUME NEW d \in Clients, Busy(d)' PROVE reply[d] = None
  <2>1. d = c \/ Busy(d)
    BY <1>1, <1>2, <1>3, <1>7 DEF Busy
  <2>. QED  BY <1>1, <2>1 DEF OneEach
<1>. QED  BY <1>1, <1>2, <1>5, <1>6, <1>7 DEF OneEach

LEMMA RequestTaken ==
    ASSUME OneEach, MutexInv, NEW h \in Handlers, Take(h)
    PROVE  OneEach' /\ job'[h] \in Clients
<1>1. /\ queue # <<>> /\ queue' = Tail(queue) /\ queue \in Seq(Clients) /\ reply' = reply
      /\ job' = [job EXCEPT ![h] = Head(queue)]
  BY DEF Take, vars, OneEach
<1>2. /\ at[h] = "idle" /\ at'[h] = "lock" /\ \A g \in Handlers : g # h => at'[g] = at[g]
  BY Moved, ThreadSorts DEF Take
<1>. DEFINE n == Len(queue) - 1
<1>3. /\ n \in Nat /\ DOMAIN queue = 1..(n + 1)
      /\ queue' \in Seq(Clients) /\ DOMAIN queue' = 1..n
      /\ \A i \in 1..n : queue'[i] = queue[i + 1] /\ i + 1 \in 1..(n + 1) /\ i + 1 # 1
      /\ 1 \in 1..(n + 1) /\ Head(queue) = queue[1] /\ Head(queue) \in Clients
  <2>1. Len(queue) \in Nat \ {0}
    BY <1>1, EmptySeq
  <2>2. n \in Nat /\ 1 \in 1..(n + 1) /\ \A i \in 1..n : i + 1 \in 1..(n + 1) /\ i + 1 # 1
    BY <2>1
  <2>3. queue' \in Seq(Clients) /\ Len(queue') = n /\ Head(queue) \in Clients
        /\ \A i \in 1..n : queue'[i] = queue[i + 1]
    BY <1>1, HeadTailProperties
  <2>. QED  BY <1>1, <2>1, <2>2, <2>3, LenProperties
<1>. HIDE DEF n
<1>4. /\ job'[h] = queue[1] /\ \A g \in Handlers : g # h => job'[g] = job[g]
      /\ job[h] = Nobody /\ DOMAIN job = Handlers
  BY <1>1, <1>2, <1>3 DEF OneEach
<1>5. job' \in [Handlers -> Clients \cup {Nobody}]
  BY <1>1, <1>3 DEF OneEach
<1>6. \A g \in Handlers : at'[g] = "idle" <=> job'[g] = Nobody
  BY <1>2, <1>3, <1>4, ThreadSorts DEF OneEach
<1>7. \A f, g \in Handlers : job'[f] = job'[g] /\ job'[f] # Nobody => f = g
  BY <1>3, <1>4 DEF OneEach
<1>8. ASSUME NEW i \in 1..n, NEW j \in 1..n, queue'[i] = queue'[j] PROVE i = j
  <2>1. queue[i + 1] = queue[j + 1] /\ i + 1 \in DOMAIN queue /\ j + 1 \in DOMAIN queue
    BY <1>3, <1>8
  <2>2. i + 1 = j + 1
    BY <2>1 DEF OneEach
  <2>. QED  BY <2>2, <1>3
<1>9. ASSUME NEW i \in 1..n, NEW g \in Handlers PROVE queue'[i] # job'[g]
  <2>1. queue'[i] = queue[i + 1] /\ {i + 1, 1} \subseteq DOMAIN queue /\ i + 1 # 1
    BY <1>3
  <2>2. CASE g = h
    BY <1>4, <2>1, <2>2 DEF OneEach
  <2>3. CASE g # h
    BY <1>4, <2>1, <2>3 DEF OneEach
  <2>. QED  BY <2>2, <2>3
<1>10. ASSUME NEW d \in Clients, Busy(d)' PROVE reply[d] = None
  <2>1. Busy(d)
    BY <1>3, <1>4, <1>10 DEF Busy
  <2>. QED  BY <2>1 DEF OneEach
<1>11. queue' \in Seq(Clients) /\ DOMAIN queue' = 1..n /\ reply' = reply /\ job'[h] \in Clients
  BY <1>1, <1>3, <1>4
<1>. QED  BY <1>5, <1>6, <1>7, <1>8, <1>9, <1>10, <1>11 DEF OneEach

LEMMA RequestAnswered ==
    ASSUME OneEach, MutexInv, DOMAIN reply = Clients, NEW h \in Handlers, Render(h)
    PROVE  OneEach'
<1>1. /\ queue' = queue
      /\ reply' = [reply EXCEPT ![job[h]] = Rendered(h, page[h])]
      /\ job' = [job EXCEPT ![h] = Nobody]
  BY DEF Render
<1>2. /\ at[h] = "render" /\ at'[h] = "idle" /\ \A g \in Handlers : g # h => at'[g] = at[g]
  BY Moved, ThreadSorts DEF Render
<1>3. /\ job'[h] = Nobody /\ \A g \in Handlers : g # h => job'[g] = job[g]
      /\ job[h] \in Clients /\ job' \in [Handlers -> Clients \cup {Nobody}]
  BY <1>1, <1>2 DEF OneEach
<1>4. \A g \in Handlers : at'[g] = "idle" <=> job'[g] = Nobody
  BY <1>2, <1>3 DEF OneEach
<1>5. \A f, g \in Handlers : job'[f] = job'[g] /\ job'[f] # Nobody => f = g
  BY <1>3 DEF OneEach
<1>6. \A i \in DOMAIN queue : \A g \in Handlers : queue[i] # job'[g]
  <2>1. \A i \in DOMAIN queue : queue[i] \in Clients
    BY ElementOfSeq, LenProperties DEF OneEach
  <2>. QED  BY <1>3, <2>1, ThreadSorts DEF OneEach
<1>7. ASSUME NEW d \in Clients, Busy(d)' PROVE reply'[d] = None
  <2>1. Busy(d) /\ d # job[h]
    <3>1. ASSUME NEW i \in DOMAIN queue, queue[i] = d PROVE Busy(d) /\ d # job[h]
      BY <3>1 DEF Busy, OneEach
    <3>2. ASSUME NEW g \in Handlers, job'[g] = d PROVE Busy(d) /\ d # job[h]
      BY <1>3, <3>2, ThreadSorts DEF Busy, OneEach
    <3>. QED  BY <1>1, <1>7, <3>1, <3>2 DEF Busy
  <2>. QED  BY <1>1, <2>1 DEF OneEach
<1>. QED  BY <1>1, <1>3, <1>4, <1>5, <1>6, <1>7 DEF OneEach

(* No client whose request is under way has an answer to hear.                *)
LEMMA OneEachHeard ==
    ASSUME OneEach, DOMAIN reply = Clients, NEW c \in Clients, Hears(c)
    PROVE  OneEach'
<1>1. UNCHANGED <<queue, job, at>> /\ (reply' = reply \/ reply' = [reply EXCEPT ![c] = None])
  BY DEF Hears, Receive, Lose, Forget
<1>2. \A d \in Clients : reply[d] = None => reply'[d] = None
  BY <1>1
<1>. QED  BY <1>1, <1>2 DEF OneEach, Busy

LEMMA OneEachStep ==
    MutexInv /\ OneEach /\ DOMAIN reply = Clients /\ [ThreadNext]_threadVars => OneEach'
<1> SUFFICES ASSUME MutexInv, OneEach, DOMAIN reply = Clients, [ThreadNext]_threadVars
             PROVE  OneEach'
  OBVIOUS
<1>1. ASSUME NEW c \in Clients, Request(c) \/ Hears(c) PROVE OneEach'
  BY <1>1, RequestQueued, OneEachHeard
<1>2. ASSUME NEW t \in Threads, Enter(t) \/ Leave(t) PROVE OneEach'
  <2>1. UNCHANGED <<queue, job, reply>>
    BY <1>2 DEF Enter, Leave, vars
  <2>2. PICK from \in {"lock", "leave", "thrown"}, to \in {"locked", "idle", "render"} :
          Goto(t, from, to) /\ (t \in Handlers => to # "idle")
    BY <1>2, ThreadSorts DEF Enter, Leave
  <2>3. \A h \in Handlers : at'[h] = "idle" <=> at[h] = "idle"
    BY <2>2, Moved, ThreadSorts
  <2>. QED  BY <2>1, <2>3, OneEachSame
<1>3. ASSUME NEW h \in Handlers, Take(h) PROVE OneEach'
  BY <1>3, RequestTaken
<1>4. ASSUME NEW h \in Handlers, OpenSession(h) \/ ResumeSession(h) \/ RefuseSession(h) \/ CopyReadings(h)
      PROVE  OneEach'
  <2>1. UNCHANGED <<queue, job, reply>>
    BY <1>4 DEF OpenSession, ResumeSession, RefuseSession, CopyReadings, vars
  <2>2. PICK from \in {"locked", "get"}, to \in {"get", "thrown", "leave"} : Goto(h, from, to)
    BY <1>4 DEF OpenSession, ResumeSession, RefuseSession, CopyReadings
  <2>3. \A g \in Handlers : at'[g] = "idle" <=> at[g] = "idle"
    BY <2>2, Moved, ThreadSorts
  <2>. QED  BY <2>1, <2>3, OneEachSame
<1>5. ASSUME NEW h \in Handlers, Render(h) PROVE OneEach'
  BY <1>5, RequestAnswered
<1>6. ASSUME NEW m \in Managers, Polled(m) \/ Store(m) PROVE OneEach'
  <2>1. UNCHANGED <<queue, job, reply>>
    BY <1>6 DEF Polled, Store, vars
  <2>2. \E from, to : Goto(m, from, to)
    BY <1>6 DEF Polled, Store
  <2>3. \A h \in Handlers : at'[h] = at[h]
    BY <2>2, Moved, ThreadSorts
  <2>. QED  BY <2>1, <2>3, OneEachSame
<1>7. CASE Finished \/ UNCHANGED threadVars
  BY <1>7, OneEachSame DEF Finished, threadVars, vars
<1>. QED  BY <1>1, <1>2, <1>3, <1>4, <1>5, <1>6, <1>7 DEF ThreadNext, Serve
-----------------------------------------------------------------------------
(* What the critical sections do to the session table and the deque is what   *)
(* HttpOutput's steps do to them.                                             *)

LEMMA DataOpen ==
    ASSUME StrictClock, IInv, NEW h \in Handlers, job[h] \in Clients, OpenSession(h)
    PROVE  IInv'
<1>0. TypeOK
  BY DEF IInv
<1>1. PICK now \in 1..MaxTime : clock' = now /\ now > clock
  BY <1>0, StrictTick DEF OpenSession
<1>2. PICK id \in 1..MaxSession :
        /\ Create(id, clock')
        /\ served' = [i \in DOMAIN cookies' |-> IF i = id THEN stored ELSE served[i]]
        /\ owner' = [i \in DOMAIN cookies' |-> IF i = id THEN job[h] ELSE owner[i]]
  BY DEF OpenSession
<1>3. UNCHANGED <<dropped, stored, stamp, jar, reply>>
      /\ lastRead' = [lastRead EXCEPT ![job[h]] = clock']
  BY DEF OpenSession
<1>4. Sessions' = Sessions \cup {id} /\ Buffered' = Buffered
  BY <1>2, <1>3 DEF Create, Sessions, Buffered
<1>5. TypeOK'
  <2>1. /\ cookies' \in [Sessions' -> 1..MaxTime]
        /\ served' \in [Sessions' -> 0..stored]
        /\ owner' \in [Sessions' -> Clients]
    BY <1>0, <1>1, <1>2, <1>4 DEF TypeOK, Create, Sessions
  <2>2. Sessions' \subseteq 1..MaxSession /\ lastRead' \in [Clients -> 0..MaxTime]
    BY <1>0, <1>1, <1>3, <1>4 DEF TypeOK
  <2>. QED  BY <1>0, <1>1, <1>3, <1>4, <2>1, <2>2 DEF TypeOK
<1>6. \A i \in Sessions' : cookies'[i] = IF i = id THEN now ELSE cookies[i]
  BY <1>1, <1>2, <1>4 DEF Create, Sessions
<1>7. \A i \in Sessions' : served'[i] = IF i = id THEN stored ELSE served[i]
  BY <1>2 DEF Sessions
<1>. QED  BY <1>1, <1>3, <1>4, <1>5, <1>6, <1>7, InvRead

LEMMA DataResume ==
    ASSUME StrictClock, IInv, NEW h \in Handlers, job[h] \in Clients, ResumeSession(h)
    PROVE  IInv' /\ jar[job[h]] \in Sessions
<1>0. TypeOK
  BY DEF IInv
<1>. DEFINE id == jar[job[h]]
<1>1. PICK now \in 1..MaxTime : clock' = now /\ now > clock
  BY <1>0, StrictTick DEF ResumeSession
<1>2. /\ Access(id, clock')
      /\ served' = [i \in DOMAIN cookies' |-> IF i = id THEN stored ELSE served[i]]
      /\ owner' = [i \in DOMAIN cookies' |-> owner[i]]
  BY DEF ResumeSession
<1>3. UNCHANGED <<dropped, stored, stamp, jar, reply>>
      /\ lastRead' = [lastRead EXCEPT ![job[h]] = clock']
  BY DEF ResumeSession
<1>. HIDE DEF id
<1>4. Sessions' \subseteq Sessions /\ Buffered' = Buffered /\ id \in Sessions
  BY <1>2, <1>3, UnexpiredSubset DEF Access, Sessions, Buffered
<1>5. TypeOK'
  <2>1. /\ cookies' \in [Sessions' -> 1..MaxTime]
        /\ served' \in [Sessions' -> 0..stored]
        /\ owner' \in [Sessions' -> Clients]
    BY <1>0, <1>1, <1>2, <1>4 DEF TypeOK, Access, Sessions
  <2>2. Sessions' \subseteq 1..MaxSession /\ lastRead' \in [Clients -> 0..MaxTime]
    BY <1>0, <1>1, <1>3, <1>4 DEF TypeOK
  <2>. QED  BY <1>0, <1>1, <1>3, <1>4, <2>1, <2>2 DEF TypeOK
<1>6. \A i \in Sessions' : cookies'[i] = IF i = id THEN now ELSE cookies[i]
  BY <1>1, <1>2 DEF Access, Sessions
<1>7. \A i \in Sessions' : served'[i] = IF i = id THEN stored ELSE served[i]
  BY <1>2 DEF Sessions
<1>8. IInv'
  BY <1>1, <1>3, <1>4, <1>5, <1>6, <1>7, InvRead
<1>. QED  BY <1>4, <1>8 DEF id

LEMMA DataRefuse ==
    ASSUME StrictClock, IInv, NEW h \in Handlers, RefuseSession(h)
    PROVE  IInv'
<1>0. TypeOK
  BY DEF IInv
<1>. DEFINE id == jar[job[h]]
<1>1. PICK now \in 1..MaxTime : clock' = now /\ now > clock
  BY <1>0, StrictTick DEF RefuseSession
<1>2. /\ Refuse(id, clock')
      /\ served' = [i \in DOMAIN cookies' |-> served[i]]
      /\ owner' = [i \in DOMAIN cookies' |-> owner[i]]
  BY DEF RefuseSession
<1>3. UNCHANGED <<dropped, stored, stamp, jar, reply, lastRead>>
  BY DEF RefuseSession
<1>. HIDE DEF id
<1>4. Sessions' \subseteq Sessions /\ Buffered' = Buffered /\ id \notin Sessions'
  BY <1>2, <1>3, UnexpiredSubset DEF Refuse, Sessions, Buffered
<1>5. TypeOK'
  <2>1. /\ cookies' \in [Sessions' -> 1..MaxTime]
        /\ served' \in [Sessions' -> 0..stored]
        /\ owner' \in [Sessions' -> Clients]
    BY <1>0, <1>2, <1>4 DEF TypeOK, Refuse, Sessions
  <2>2. Sessions' \subseteq 1..MaxSession
    BY <1>0, <1>4 DEF TypeOK
  <2>. QED  BY <1>0, <1>1, <1>3, <1>4, <2>1, <2>2 DEF TypeOK
<1>6. \A i \in Sessions' : cookies'[i] = IF i = id THEN now ELSE cookies[i]
  BY <1>2, <1>4 DEF Refuse, Sessions
<1>7. \A i \in Sessions' : served'[i] = IF i = id THEN stored ELSE served[i]
  BY <1>2, <1>4 DEF Sessions
<1>. QED  BY <1>1, <1>3, <1>4, <1>5, <1>6, <1>7, InvRead

LEMMA StoreIsPublish ==
    ASSUME BatchInv, NEW m \in Managers, Store(m)
    PROVE  Publish
<1>1. batch[m] \in 1..MaxBatch
  BY DEF BatchInv, Store, Goto
<1>. QED  BY <1>1 DEF Store, Publish

(* What a handler renders is an answer.                                       *)
LEMMA RenderedType ==
    ASSUME HandlersInv, NEW h \in Handlers, NEW entries \in SUBSET (1..stored)
    PROVE  Rendered(h, entries) \in [status : {"none", "ok", "failed", "expired"},
                                     session : 0..MaxSession, entries : SUBSET (1..stored)]
           /\ Rendered(h, entries) # None
BY HttpAssumption DEF HandlersInv, Rendered, Expired, None, Status

LEMMA DataRender ==
    ASSUME IInv, HandlersInv, NEW h \in Handlers, Render(h)
    PROVE  IInv'
<1>1. /\ UNCHANGED <<cookies, dropped, stored, stamp, clock, jar, served, owner, lastRead>>
      /\ reply' = [reply EXCEPT ![job[h]] = Rendered(h, page[h])]
  BY DEF Render
<1>2. Rendered(h, page[h]) \in [status : {"none", "ok", "failed", "expired"},
                                session : 0..MaxSession, entries : SUBSET (1..stored)]
  BY RenderedType DEF HandlersInv
<1>3. reply' \in [Clients -> [status : {"none", "ok", "failed", "expired"},
                              session : 0..MaxSession, entries : SUBSET (1..stored)]]
  BY <1>1, <1>2 DEF IInv, TypeOK
<1>4. TypeOK'
  BY <1>1, <1>3 DEF IInv, TypeOK, Sessions, Buffered
<1>. QED  BY <1>1, <1>4, InvSame

LEMMA DataStep ==
    ASSUME StrictClock, IInv, OneEach, HandlersInv, BatchInv, [ThreadNext]_threadVars
    PROVE  IInv'
<1>1. CASE UNCHANGED vars
  BY <1>1, InvStep
<1>2. ASSUME NEW c \in Clients, Hears(c) PROVE IInv'
  <2>1. Client(c)
    BY <1>2 DEF Hears, Client
  <2>. QED  BY <2>1, InvStep DEF Next
<1>3. ASSUME NEW h \in Handlers, Serve(h) PROVE IInv'
  <2>1. CASE OpenSession(h) \/ ResumeSession(h)
    <3>1. job[h] \in Clients
      BY <2>1 DEF OneEach, OpenSession, ResumeSession, Goto
    <3>. QED  BY <2>1, <3>1, DataOpen, DataResume
  <2>. QED  BY <1>1, <1>3, <2>1, DataRefuse, DataRender DEF Serve, CopyReadings
<1>4. ASSUME NEW m \in Managers, Store(m) PROVE IInv'
  BY <1>4, StoreIsPublish, InvStep DEF Next
<1>. QED  BY <1>1, <1>2, <1>3, <1>4
          DEF ThreadNext, Request, Enter, Leave, Take, Polled, Finished, threadVars

-----------------------------------------------------------------------------
(* What a handler or a manager has at hand, at each place.                    *)

LEMMA HandlersServe ==
    ASSUME StrictClock, IInv, MutexInv, OneEach, HandlersInv, NEW h \in Handlers, Serve(h)
    PROVE  HandlersInv'
<1>0. /\ TypeOK /\ stored' = stored /\ MaxSession \in Nat /\ MaxTime \in Nat /\ stored \in Nat
      /\ session \in [Handlers -> 0..MaxSession] /\ last \in [Handlers -> 0..MaxTime]
      /\ page \in [Handlers -> SUBSET (1..stored)]
  <2>1. stored' = stored
    BY DEF Serve, OpenSession, ResumeSession, RefuseSession, CopyReadings, Render, vars
  <2>. QED  BY <2>1, HttpAssumption DEF IInv, TypeOK, HandlersInv
<1>1. ASSUME NEW place, at'[h] = place, \A g \in Handlers : g # h => at'[g] = at[g],
             NEW s \in 0..MaxSession, session' = [session EXCEPT ![h] = s],
             NEW l \in 0..MaxTime, last' = [last EXCEPT ![h] = l],
             NEW p \in SUBSET (1..stored), page' = [page EXCEPT ![h] = p],
             place \in {"idle", "lock", "locked", "thrown"} => s = NoCookie,
             place \in {"get", "leave"} => s # NoCookie
      PROVE  HandlersInv'
  <2>1. /\ session' \in [Handlers -> 0..MaxSession] /\ last' \in [Handlers -> 0..MaxTime]
        /\ page' \in [Handlers -> SUBSET (1..stored')]
    BY <1>0, <1>1
  <2>2. session'[h] = s /\ \A g \in Handlers : g # h => session'[g] = session[g]
    BY <1>0, <1>1
  <2>. QED  BY <1>1, <2>1, <2>2 DEF HandlersInv
<1>2. /\ session = [session EXCEPT ![h] = session[h]] /\ session[h] \in 0..MaxSession
      /\ last = [last EXCEPT ![h] = last[h]] /\ last[h] \in 0..MaxTime
      /\ page = [page EXCEPT ![h] = page[h]] /\ page[h] \in SUBSET (1..stored)
  BY <1>0
<1>3. CASE OpenSession(h)
  <2>1. PICK id \in 1..MaxSession : session' = [session EXCEPT ![h] = id]
    BY <1>3 DEF OpenSession
  <2>2. last' = [last EXCEPT ![h] = Epoch] /\ page' = page
    BY <1>3 DEF OpenSession
  <2>3. at'[h] = "get" /\ \A g \in Handlers : g # h => at'[g] = at[g]
    BY <1>3, Moved, ThreadSorts DEF OpenSession
  <2>4. id \in 0..MaxSession /\ id # NoCookie /\ Epoch \in 0..MaxTime
    BY <1>0
  <2>. QED  BY <1>1, <1>2, <2>1, <2>2, <2>3, <2>4
<1>4. CASE ResumeSession(h)
  <2>1. job[h] \in Clients
    BY <1>4 DEF OneEach, ResumeSession, Goto
  <2>2. jar[job[h]] \in 1..MaxSession /\ cookies[jar[job[h]]] \in 1..MaxTime
    BY <1>0, <1>4, <2>1, DataResume DEF TypeOK
  <2>3. /\ session' = [session EXCEPT ![h] = jar[job[h]]]
        /\ last' = [last EXCEPT ![h] = cookies[jar[job[h]]]] /\ page' = page
    BY <1>4 DEF ResumeSession
  <2>4. at'[h] = "get" /\ \A g \in Handlers : g # h => at'[g] = at[g]
    BY <1>4, Moved, ThreadSorts DEF ResumeSession
  <2>5. jar[job[h]] \in 0..MaxSession /\ jar[job[h]] # NoCookie /\ cookies[jar[job[h]]] \in 0..MaxTime
    BY <1>0, <2>2
  <2>. QED  BY <1>1, <1>2, <2>3, <2>4, <2>5
<1>5. CASE RefuseSession(h)
  <2>1. session' = [session EXCEPT ![h] = NoCookie] /\ last' = last /\ page' = page
    BY <1>5 DEF RefuseSession
  <2>2. at'[h] = "thrown" /\ \A g \in Handlers : g # h => at'[g] = at[g]
    BY <1>5, Moved, ThreadSorts DEF RefuseSession
  <2>3. NoCookie \in 0..MaxSession
    BY <1>0
  <2>. QED  BY <1>1, <1>2, <2>1, <2>2, <2>3
<1>6. CASE CopyReadings(h)
  <2>1. PICK from \in 1..(stored + 1) : page' = [page EXCEPT ![h] = from..stored]
    BY <1>6 DEF CopyReadings
  <2>2. session' = session /\ last' = last
    BY <1>6 DEF CopyReadings
  <2>3. at[h] = "get" /\ at'[h] = "leave" /\ \A g \in Handlers : g # h => at'[g] = at[g]
    BY <1>6, Moved, ThreadSorts DEF CopyReadings
  <2>4. from..stored \in SUBSET (1..stored)
    BY <1>0
  <2>5. session[h] # NoCookie
    BY <2>3 DEF HandlersInv
  <2>. QED  BY <1>1, <1>2, <2>1, <2>2, <2>3, <2>4, <2>5
<1>7. CASE Render(h)
  <2>1. /\ session' = [session EXCEPT ![h] = NoCookie] /\ last' = [last EXCEPT ![h] = Epoch]
        /\ page' = [page EXCEPT ![h] = {}]
    BY <1>7 DEF Render
  <2>2. at'[h] = "idle" /\ \A g \in Handlers : g # h => at'[g] = at[g]
    BY <1>7, Moved, ThreadSorts DEF Render
  <2>3. NoCookie \in 0..MaxSession /\ Epoch \in 0..MaxTime /\ {} \in SUBSET (1..stored)
    BY <1>0
  <2>. QED  BY <1>1, <2>1, <2>2, <2>3
<1>. QED  BY <1>3, <1>4, <1>5, <1>6, <1>7 DEF Serve

(* The others move without touching what a handler has at hand; a batch may   *)
(* only add readings.                                                         *)
LEMMA HandlersOthers ==
    ASSUME HandlersInv, TypeOK, TypeOK', UNCHANGED <<session, last, page>>, stored <= stored',
           \A h \in Handlers : \/ at'[h] = at[h]
                               \/ at[h] \in {"idle", "lock", "thrown"} /\ at'[h] \in {"lock", "locked", "render"}
                               \/ at'[h] = "render"
    PROVE  HandlersInv'
<1>1. 1..stored \subseteq 1..stored'
  BY DEF TypeOK
<1>2. page \in [Handlers -> SUBSET (1..stored')]
  BY <1>1 DEF HandlersInv
<1>. QED  BY <1>2 DEF HandlersInv

LEMMA HandlersStep ==
    ASSUME StrictClock, IInv, IInv', MutexInv, OneEach, HandlersInv, BatchInv, [ThreadNext]_threadVars
    PROVE  HandlersInv'
<1>0. TypeOK /\ TypeOK' /\ stored \in Nat
  BY DEF IInv, TypeOK
<1>1. ASSUME UNCHANGED <<session, last, page, stored, at>> PROVE HandlersInv'
  BY <1>0, <1>1, HandlersOthers
<1>2. ASSUME NEW c \in Clients, Request(c) \/ Hears(c) PROVE HandlersInv'
  BY <1>1, <1>2 DEF Request, Hears, Receive, Lose, Forget, vars
<1>3. ASSUME NEW t \in Threads, Enter(t) \/ Leave(t) PROVE HandlersInv'
  <2>1. UNCHANGED <<session, last, page, stored>>
    BY <1>3 DEF Enter, Leave, vars
  <2>2. PICK from, to : /\ Goto(t, from, to)
                        /\ \/ from = "lock" /\ to = "locked"
                           \/ to = "render"
                           \/ t \in Managers
    BY <1>3 DEF Enter, Leave
  <2>3. \A h \in Handlers : at'[h] = at[h] \/ at'[h] = "render" \/ (at[h] = "lock" /\ at'[h] = "locked")
    BY <2>2, Moved, ThreadSorts
  <2>. QED  BY <1>0, <2>1, <2>3, HandlersOthers
<1>4. ASSUME NEW h \in Handlers, Take(h) PROVE HandlersInv'
  <2>1. UNCHANGED <<session, last, page, stored>>
    BY <1>4 DEF Take, vars
  <2>2. at[h] = "idle" /\ at'[h] = "lock" /\ \A g \in Handlers : g # h => at'[g] = at[g]
    BY <1>4, Moved, ThreadSorts DEF Take
  <2>. QED  BY <1>0, <2>1, <2>2, HandlersOthers
<1>5. ASSUME NEW h \in Handlers, Serve(h) PROVE HandlersInv'
  BY <1>5, HandlersServe
<1>6. ASSUME NEW m \in Managers, Polled(m) \/ Store(m) PROVE HandlersInv'
  <2>1. UNCHANGED <<session, last, page>>
    BY <1>6 DEF Polled, Store
  <2>2. \E from, to : Goto(m, from, to)
    BY <1>6 DEF Polled, Store
  <2>3. \A h \in Handlers : at'[h] = at[h]
    BY <2>2, Moved, ThreadSorts
  <2>4. stored <= stored'
    <3>1. CASE Polled(m)
      BY <1>0, <3>1 DEF Polled, vars
    <3>2. CASE Store(m)
      <4>1. PICK n \in 1..MaxBatch : Add(n, clock')
        BY <3>2, StoreIsPublish DEF Publish
      <4>. QED  BY <1>0, <4>1, HttpAssumption DEF Add
    <3>. QED  BY <1>6, <3>1, <3>2
  <2>. QED  BY <1>0, <2>1, <2>3, <2>4, HandlersOthers
<1>7. CASE Finished \/ UNCHANGED threadVars
  BY <1>1, <1>7 DEF Finished, threadVars, vars
<1>. QED  BY <1>2, <1>3, <1>4, <1>5, <1>6, <1>7 DEF ThreadNext

LEMMA BatchStep ==
    ASSUME MutexInv, BatchInv, [ThreadNext]_threadVars
    PROVE  BatchInv'
<1>1. ASSUME batch' = batch,
             \A m \in Managers : at'[m] \in {"lock", "locked"} => at[m] \in {"lock", "locked"}
      PROVE  BatchInv'
  BY <1>1 DEF BatchInv
<1>2. ASSUME NEW c \in Clients, Request(c) \/ Hears(c) PROVE BatchInv'
  BY <1>1, <1>2 DEF Request, Hears
<1>3. ASSUME NEW t \in Threads, Enter(t) \/ Leave(t) PROVE BatchInv'
  <2>1. PICK from, to : Goto(t, from, to) /\ (from = "lock" \/ to \in {"idle", "render"})
    BY <1>3 DEF Enter, Leave
  <2>2. batch' = batch
    BY <1>3 DEF Enter, Leave
  <2>. QED  BY <1>1, <2>1, <2>2, Moved, ThreadSorts
<1>4. ASSUME NEW h \in Handlers, Take(h) \/ Serve(h) PROVE BatchInv'
  <2>1. batch' = batch /\ \E from, to : Goto(h, from, to)
    BY <1>4 DEF Take, Serve, OpenSession, ResumeSession, RefuseSession, CopyReadings, Render
  <2>2. \A m \in Managers : at'[m] = at[m]
    BY <2>1, Moved, ThreadSorts
  <2>. QED  BY <1>1, <2>1, <2>2
<1>5. ASSUME NEW m \in Managers, Polled(m) PROVE BatchInv'
  <2>1. PICK n \in 1..MaxBatch : batch' = [batch EXCEPT ![m] = n]
    BY <1>5 DEF Polled
  <2>2. \A k \in Managers : k # m => at'[k] = at[k]
    BY <1>5, Moved, ThreadSorts DEF Polled
  <2>. QED  BY <2>1, <2>2 DEF BatchInv
<1>6. ASSUME NEW m \in Managers, Store(m) PROVE BatchInv'
  <2>1. batch' = [batch EXCEPT ![m] = 0]
    BY <1>6 DEF Store
  <2>2. at'[m] = "leave" /\ \A k \in Managers : k # m => at'[k] = at[k]
    BY <1>6, Moved, ThreadSorts DEF Store
  <2>. QED  BY <2>1, <2>2 DEF BatchInv
<1>7. CASE Finished \/ UNCHANGED threadVars
  BY <1>1, <1>7 DEF Finished, threadVars
<1>. QED  BY <1>2, <1>3, <1>4, <1>5, <1>6, <1>7 DEF ThreadNext

ThreadInv == MutexInv /\ IInv /\ OneEach /\ HandlersInv /\ BatchInv

LEMMA ThreadInvInit == ThreadInit => ThreadInv
<1> SUFFICES ASSUME ThreadInit PROVE ThreadInv
  OBVIOUS
<1>1. HandlersInv /\ BatchInv
  BY HttpAssumption, ThreadSorts DEF ThreadInit, HandlersInv, BatchInv
<1>. QED  BY <1>1, MutexInit, InvInit, OneEachInit DEF ThreadInit, ThreadInv

LEMMA ThreadInvStep == ASSUME StrictClock PROVE ThreadInv /\ [ThreadNext]_threadVars => ThreadInv'
<1> SUFFICES ASSUME ThreadInv, [ThreadNext]_threadVars PROVE ThreadInv'
  OBVIOUS
<1>1. DOMAIN reply = Clients
  BY DEF ThreadInv, IInv, TypeOK
<1>2. IInv'
  BY DataStep DEF ThreadInv
<1>. QED  BY <1>1, <1>2, MutexStep, OneEachStep, HandlersStep, BatchStep DEF ThreadInv
-----------------------------------------------------------------------------
(* The answers HttpOutput has given, and the threads have yet to bring        *)

Shown == [c \in Clients |-> IF Decided(c) = {} THEN reply[c]
                            ELSE Settled(CHOOSE h \in Decided(c) : TRUE)]

Answering(h) == at[h] \in {"get", "leave", "thrown", "render"}

LEMMA SettledKept ==
    ASSUME NEW h \in Handlers, session'[h] = session[h], last'[h] = last[h], page'[h] = page[h],
           at'[h] = "get" <=> at[h] = "get",
           at[h] = "get" => UNCHANGED <<dropped, stored, stamp>>
    PROVE  Settled(h)' = Settled(h)
<1>1. CASE at[h] = "get"
  BY <1>1 DEF Settled, Rendered, Buffered
<1>2. CASE at[h] # "get"
  BY <1>2 DEF Settled, Rendered
<1>. QED  BY <1>1, <1>2

LEMMA DecidedKept ==
    ASSUME \A h \in Handlers : /\ Answering(h)' <=> Answering(h)
                               /\ Answering(h) => job'[h] = job[h]
    PROVE  \A c : Decided(c)' = Decided(c)
BY DEF Decided, Answering

(* A step that neither settles an answer nor brings one.                      *)
LEMMA ShownKept ==
    ASSUME reply' = reply,
           \A h \in Handlers :
             /\ Answering(h)' <=> Answering(h)
             /\ Answering(h) => job'[h] = job[h] /\ Settled(h)' = Settled(h)
    PROVE  Shown' = Shown
<1>1. \A c : Decided(c)' = Decided(c)
  BY DecidedKept
<1>2. \A c : \A h \in Decided(c) : Settled(h)' = Settled(h)
  BY DEF Decided, Answering
<1>3. ASSUME NEW c \in Clients, Decided(c) # {}
      PROVE  Settled(CHOOSE h \in Decided(c) : TRUE)' = Settled(CHOOSE h \in Decided(c) : TRUE)
  <2>1. (CHOOSE h \in Decided(c) : TRUE) \in Decided(c)
    BY <1>3
  <2>. QED  BY <1>1, <1>2, <2>1
<1>. QED  BY <1>1, <1>3 DEF Shown
(* A client one of whose handlers is to answer has no other.                  *)
LEMMA DecidedOne ==
    ASSUME OneEach, NEW h \in Handlers, at[h] # "idle"
    PROVE  /\ job[h] \in Clients
           /\ Decided(job[h]) = IF Answering(h) THEN {h} ELSE {}
           /\ reply[job[h]] = None
<1>1. job[h] \in Clients
  BY DEF OneEach
<1>2. \A g \in Handlers : job[g] = job[h] => g = h
  BY <1>1, ThreadSorts DEF OneEach
<1>3. Busy(job[h])
  BY DEF Busy
<1>. QED  BY <1>1, <1>2, <1>3 DEF OneEach, Decided, Answering

LEMMA ShownAt ==
    ASSUME OneEach, NEW h \in Handlers, Answering(h)
    PROVE  Shown[job[h]] = Settled(h)
<1>1. at[h] # "idle"
  BY DEF Answering
<1>2. job[h] \in Clients /\ Decided(job[h]) = {h}
  BY <1>1, DecidedOne
<1>. QED  BY <1>2 DEF Shown

(* A step that settles the answer of one handler.                             *)
LEMMA ShownSettled ==
    ASSUME OneEach, NEW h \in Handlers, at[h] = "locked", Answering(h)',
           UNCHANGED <<reply, job>>,
           \A g \in Handlers : g # h =>
             /\ Answering(g)' <=> Answering(g)
             /\ Answering(g) => Settled(g)' = Settled(g)
    PROVE  /\ Shown[job[h]] = None
           /\ Shown' = [Shown EXCEPT ![job[h]] = Settled(h)']
<1>0. PICK c \in Clients : job[h] = c
  BY DEF OneEach
<1>1. c \in Clients /\ Decided(c) = {} /\ reply[c] = None
      /\ \A g \in Handlers : job[g] = c => g = h
  <2>1. ~ Answering(h) /\ at[h] # "idle"
    BY DEF Answering
  <2>. QED  BY <1>0, <2>1, DecidedOne, ThreadSorts DEF OneEach
<1>2. Decided(c)' = {h}
  BY <1>0, <1>1 DEF Decided, Answering
<1>3. \A d \in Clients : d # c => Decided(d)' = Decided(d) /\ h \notin Decided(d)
  BY <1>0 DEF Decided, Answering
<1>4. \A d : \A g \in Decided(d) : g # h => Settled(g)' = Settled(g)
  BY DEF Decided, Answering
<1>5. Shown[c] = None
  BY <1>1 DEF Shown
<1>6. Shown'[c] = Settled(h)'
  <2>1. (CHOOSE g \in {h} : TRUE) = h
    OBVIOUS
  <2>2. Shown'[c] = IF Decided(c)' = {} THEN reply'[c] ELSE Settled(CHOOSE g \in Decided(c) : TRUE)'
    BY <1>1 DEF Shown
  <2>. QED  BY <1>2, <2>1, <2>2
<1>7. ASSUME NEW d \in Clients, d # c PROVE Shown'[d] = Shown[d]
  <2>1. CASE Decided(d) = {}
    BY <1>3, <1>7, <2>1 DEF Shown
  <2>2. CASE Decided(d) # {}
    <3>1. (CHOOSE g \in Decided(d) : TRUE) \in Decided(d)
      BY <2>2
    <3>2. Settled(CHOOSE g \in Decided(d) : TRUE)' = Settled(CHOOSE g \in Decided(d) : TRUE)
      BY <1>3, <1>4, <1>7, <3>1
    <3>. QED  BY <1>3, <1>7, <2>2, <3>2 DEF Shown
  <2>. QED  BY <2>1, <2>2
<1>8. DOMAIN Shown = Clients /\ DOMAIN Shown' = Clients
  BY DEF Shown
<1>9. Shown' = [Shown EXCEPT ![c] = Settled(h)']
  <2>. DEFINE new == Settled(h)'
  <2>1. Shown' = [d \in Clients |-> Shown'[d]] /\ Shown = [d \in Clients |-> Shown[d]]
    BY DEF Shown
  <2>2. Shown'[c] = new
    BY <1>6
  <2>. HIDE DEF new
  <2>3. Shown' = [Shown EXCEPT ![c] = new]
    BY <1>7, <1>8, <2>1, <2>2
  <2>. QED  BY <2>3 DEF new
<1>. QED  BY <1>0, <1>5, <1>9

(* An answer is brought: it is what was settled.                              *)
LEMMA ShownRendered ==
    ASSUME ThreadInv, NEW h \in Handlers, Render(h)
    PROVE  Shown' = Shown
<1>0. OneEach /\ MutexInv /\ DOMAIN reply = Clients
  BY DEF ThreadInv, IInv, TypeOK
<1>11. PICK c \in Clients : job[h] = c
  BY <1>0 DEF OneEach, Render, Goto
<1>1. /\ at[h] = "render" /\ at'[h] = "idle" /\ \A g \in Handlers : g # h => at'[g] = at[g]
  BY <1>0, Moved, ThreadSorts DEF Render
<1>2. /\ reply' = [reply EXCEPT ![c] = Rendered(h, page[h])]
      /\ job' = [job EXCEPT ![h] = Nobody] /\ session' = [session EXCEPT ![h] = NoCookie]
      /\ last' = [last EXCEPT ![h] = Epoch] /\ page' = [page EXCEPT ![h] = {}]
      /\ UNCHANGED <<dropped, stored, stamp>>
  BY <1>11 DEF Render
<1>3. c \in Clients /\ Decided(c) = {h} /\ Shown[c] = Settled(h)
      /\ \A g \in Handlers : job[g] = c => g = h
  BY <1>0, <1>11, <1>1, DecidedOne, ShownAt, ThreadSorts DEF Answering, OneEach
<1>4. \A g \in Handlers : g # h =>
        /\ job'[g] = job[g] /\ session'[g] = session[g]
        /\ last'[g] = last[g] /\ page'[g] = page[g]
  BY <1>2
<1>5. \A g \in Handlers : g # h => Settled(g)' = Settled(g)
  BY <1>1, <1>2, <1>4, SettledKept
<1>6. Settled(h) = Rendered(h, page[h])
  BY <1>1 DEF Settled
<1>7. Decided(c)' = {}
  BY <1>1, <1>3, <1>4 DEF Decided
<1>8. \A d \in Clients : d # c => Decided(d)' = Decided(d) /\ h \notin Decided(d) /\ reply'[d] = reply[d]
  <2>1. job'[h] = Nobody
    BY <1>0, <1>2 DEF OneEach
  <2>. QED  BY <1>11, <1>1, <1>2, <1>4, <2>1, ThreadSorts DEF Decided
<1>9. Shown'[c] = Shown[c]
  BY <1>0, <1>2, <1>3, <1>6, <1>7 DEF Shown
<1>10. ASSUME NEW d \in Clients, d # c PROVE Shown'[d] = Shown[d]
  <2>1. CASE Decided(d) = {}
    BY <1>8, <1>10, <2>1 DEF Shown
  <2>2. CASE Decided(d) # {}
    <3>1. (CHOOSE g \in Decided(d) : TRUE) \in Decided(d)
      BY <2>2
    <3>2. (CHOOSE g \in Decided(d) : TRUE) \in Handlers /\ (CHOOSE g \in Decided(d) : TRUE) # h
      BY <1>8, <1>10, <3>1 DEF Decided
    <3>3. Settled(CHOOSE g \in Decided(d) : TRUE)' = Settled(CHOOSE g \in Decided(d) : TRUE)
      BY <1>5, <1>8, <1>10, <3>2
    <3>. QED  BY <1>8, <1>10, <2>2, <3>3 DEF Shown
  <2>. QED  BY <2>1, <2>2
<1>. QED  BY <1>9, <1>10 DEF Shown

(* A client's own steps concern an answer that has been brought.              *)
LEMMA ShownHeard ==
    ASSUME NEW c \in Clients, ~ Busy(c), UNCHANGED <<job, session, last, page, dropped, stored, stamp, at>>,
           DOMAIN reply = Clients, NEW r, reply' = [reply EXCEPT ![c] = r]
    PROVE  /\ Shown[c] = reply[c]
           /\ Shown' = [Shown EXCEPT ![c] = r]
<1>1. Decided(c) = {}
  BY DEF Busy, Decided
<1>2. \A d : Decided(d)' = Decided(d)
  BY DEF Decided
<1>3. \A h \in Handlers : Settled(h)' = Settled(h)
  BY SettledKept
<1>4. \A d \in Clients : Decided(d) # {} =>
        /\ (CHOOSE h \in Decided(d) : TRUE) \in Handlers
        /\ Settled(CHOOSE h \in Decided(d) : TRUE)' = Settled(CHOOSE h \in Decided(d) : TRUE)
  <2> SUFFICES ASSUME NEW d \in Clients, Decided(d) # {}
               PROVE  /\ (CHOOSE h \in Decided(d) : TRUE) \in Handlers
                      /\ Settled(CHOOSE h \in Decided(d) : TRUE)' = Settled(CHOOSE h \in Decided(d) : TRUE)
    OBVIOUS
  <2>1. (CHOOSE h \in Decided(d) : TRUE) \in Decided(d)
    OBVIOUS
  <2>2. (CHOOSE h \in Decided(d) : TRUE) \in Handlers
    BY <2>1 DEF Decided
  <2>. QED  BY <1>2, <1>3, <2>2
<1>5. Shown[c] = reply[c] /\ Shown'[c] = r
  BY <1>1, <1>2 DEF Shown
<1>6. \A d \in Clients : d # c => Shown'[d] = Shown[d]
  BY <1>2, <1>4 DEF Shown
<1>7. Shown = [d \in Clients |-> Shown[d]] /\ Shown' = [d \in Clients |-> Shown'[d]]
  BY DEF Shown
<1>. QED  BY <1>5, <1>6, <1>7
-----------------------------------------------------------------------------
(* The search *)

LEMMA SearchFinds ==
    ASSUME IInv, NEW time \in Int, NEW from \in 1..(stored + 1), From(from, time)
    PROVE  from..stored = {k \in Buffered : time < stamp[k]}
<1>1. /\ stored \in Int /\ dropped \in Int /\ dropped >= 0
      /\ \A k \in Buffered : k \in Int /\ stamp[k] \in Int
  BY DEF IInv, TypeOK, Buffered
<1>2. ASSUME NEW k \in Buffered, k < from PROVE stamp[k] <= time
  <2>1. from - 1 \in Buffered /\ k <= from - 1 /\ from > dropped + 1
    BY <1>1, <1>2 DEF Buffered, From
  <2>2. stamp[k] <= stamp[from - 1] /\ stamp[from - 1] <= time
    BY <2>1 DEF IInv, StampsSorted, From
  <2>. QED  BY <1>1, <2>1, <2>2
<1>3. ASSUME NEW k \in Buffered, k >= from PROVE time < stamp[k]
  <2>1. from \in Buffered /\ from <= stored
    BY <1>1, <1>3 DEF Buffered, From
  <2>2. stamp[from] <= stamp[k] /\ time < stamp[from]
    BY <1>3, <2>1 DEF IInv, StampsSorted, From
  <2>. QED  BY <1>1, <2>1, <2>2
<1>4. \A k \in Buffered : k >= from <=> time < stamp[k]
  BY <1>1, <1>2, <1>3
<1>5. from..stored = {k \in Buffered : k >= from}
  BY <1>1 DEF From, Buffered
<1>. QED  BY <1>4, <1>5

(* There is a place for every time that a read searches for.                  *)
LEMMA SearchEnds ==
    ASSUME IInv, NEW id \in Sessions
    PROVE  \E from \in 1..(stored + 1) : From(from, cookies[id])
<1>1. /\ stored \in Nat /\ dropped \in 0..stored /\ cookies[id] \in Int /\ served[id] \in 0..stored
      /\ \A k \in Buffered : stamp[k] \in Int
      /\ \A k \in Buffered : stamp[k] <= cookies[id] <=> k <= served[id]
  BY DEF IInv, TypeOK, ReadPosition
<1>. DEFINE from == (IF served[id] < dropped THEN dropped ELSE served[id]) + 1
<1>2. from \in (dropped + 1)..(stored + 1) /\ from \in 1..(stored + 1) /\ from > served[id]
      /\ (from > dropped + 1 => from - 1 = served[id])
  BY <1>1
<1>. HIDE DEF from
<1>3. from > dropped + 1 => from - 1 \in Buffered /\ stamp[from - 1] <= cookies[id]
  BY <1>1, <1>2 DEF Buffered
<1>4. from <= stored => from \in Buffered /\ cookies[id] < stamp[from]
  BY <1>1, <1>2 DEF Buffered
<1>. QED  BY <1>2, <1>3, <1>4 DEF From

LEMMA EpochEnds ==
    ASSUME IInv
    PROVE  dropped + 1 \in 1..(stored + 1) /\ From(dropped + 1, Epoch)
<1>1. /\ stored \in Nat /\ dropped \in 0..stored
      /\ \A k \in Buffered : stamp[k] \in Int /\ stamp[k] > 0
  BY DEF IInv, TypeOK
<1>2. dropped + 1 <= stored => dropped + 1 \in Buffered
  BY <1>1 DEF Buffered
<1>. QED  BY <1>1, <1>2 DEF From

-----------------------------------------------------------------------------
(* The threads implement HttpOutput *)

LEMMA SameWords ==
    /\ Output!None = None /\ Output!NoCookie = NoCookie /\ Output!Epoch = Epoch
    /\ Output!Expired = Expired /\ Output!Tick = Tick
BY DEF Output!None, None, Output!NoCookie, Output!Epoch, Output!Expired, Expired, Output!Tick, Tick

LEMMA OutputInit == ThreadInit => Output!Init
<1> SUFFICES ASSUME ThreadInit PROVE Output!Init
  OBVIOUS
<1>1. \A c \in Clients : Decided(c) = {} /\ reply[c] = None
  BY ThreadSorts DEF ThreadInit, Init, Decided
<1>2. Shown = [c \in Clients |-> None]
  BY <1>1 DEF Shown
<1>. QED  BY <1>2 DEF ThreadInit, Init, SessionerInit, BufferInit, Shown, None, Output!Init,
          Output!SessionerInit, Output!BufferInit, Output!None, Output!NoCookie, Output!Epoch

(* While a thread other than h moves, or h stays inside, the answers of the   *)
(* others stay.                                                               *)
LEMMA OthersKept ==
    ASSUME MutexInv, NEW h \in Handlers, at[h] = "locked",
           \A g \in Handlers : g # h =>
             /\ at'[g] = at[g] /\ session'[g] = session[g]
             /\ last'[g] = last[g] /\ page'[g] = page[g]
    PROVE  \A g \in Handlers : g # h =>
             /\ Answering(g)' <=> Answering(g)
             /\ Answering(g) => Settled(g)' = Settled(g)
<1> SUFFICES ASSUME NEW g \in Handlers, g # h
             PROVE  (Answering(g)' <=> Answering(g)) /\ Settled(g)' = Settled(g)
  OBVIOUS
<1>1. lock = h /\ at[g] # "get"
  BY ThreadSorts DEF MutexInv, Exclusion
<1>2. Settled(g)' = Settled(g)
  BY <1>1, SettledKept
<1>. QED  BY <1>2 DEF Answering

LEMMA OpenIsReadNew ==
    ASSUME ThreadInv, NEW h \in Handlers, NEW c \in Clients, job[h] = c, OpenSession(h)
    PROVE  Output!ReadNew(c)
<1>0. MutexInv /\ IInv /\ OneEach /\ HandlersInv /\ TypeOK
      /\ DOMAIN session = Handlers /\ DOMAIN last = Handlers
  BY DEF ThreadInv, IInv, HandlersInv
<1>1. PICK id \in 1..MaxSession :
        /\ Create(id, clock')
        /\ session' = [session EXCEPT ![h] = id]
        /\ served' = [i \in DOMAIN cookies' |-> IF i = id THEN stored ELSE served[i]]
        /\ owner' = [i \in DOMAIN cookies' |-> IF i = id THEN job[h] ELSE owner[i]]
  BY DEF OpenSession
<1>2. /\ jar[job[h]] = NoCookie /\ Tick
      /\ last' = [last EXCEPT ![h] = Epoch] /\ lastRead' = [lastRead EXCEPT ![job[h]] = clock']
      /\ UNCHANGED <<dropped, stored, stamp, jar, reply, job, page>>
  BY DEF OpenSession
<1>3. at[h] = "locked" /\ at'[h] = "get" /\ \A g \in Handlers : g # h => at'[g] = at[g]
  BY <1>0, Moved, ThreadSorts DEF OpenSession
<1>4. \A g \in Handlers : g # h =>
        /\ at'[g] = at[g] /\ session'[g] = session[g]
        /\ last'[g] = last[g] /\ page'[g] = page[g]
  BY <1>1, <1>2, <1>3
<1>5. \A g \in Handlers : g # h =>
        /\ Answering(g)' <=> Answering(g)
        /\ Answering(g) => Settled(g)' = Settled(g)
  BY <1>0, <1>3, <1>4, OthersKept
<1>6. Shown[job[h]] = None /\ Shown' = [Shown EXCEPT ![job[h]] = Settled(h)']
  <2>1. Answering(h)' /\ UNCHANGED <<reply, job>>
    BY <1>2, <1>3 DEF Answering
  <2>. QED  BY <1>0, <1>3, <1>5, <2>1, ShownSettled
<1>7. PICK from \in 1..(stored + 1) : From(from, Epoch) /\ from..stored = {k \in Buffered : 0 < stamp[k]}
  BY <1>0, EpochEnds, SearchFinds
<1>8. Settled(h)' = [status |-> Status(from..stored), session |-> id, entries |-> from..stored]
  <2>1. session'[h] = id /\ last'[h] = 0 /\ id # NoCookie
    BY <1>0, <1>1, <1>2
  <2>2. {k \in Buffered : last[h] < stamp[k]}' = from..stored
    BY <1>2, <1>7, <2>1 DEF Buffered
  <2>. QED  BY <1>3, <2>1, <2>2 DEF Settled, Rendered, Status
<1>9. /\ Output!Create(id, clock') /\ Output!From(from, Output!Epoch)
      /\ Output!Answer(c, id, from)
  BY <1>1, <1>6, <1>7, <1>8 DEF Create, NextId, Sessions, Output!Create, Output!NextId, Output!Sessions,
     From, Output!From, Output!Epoch, Output!Answer, Status, Output!Status, Shown
<1>10. Output!Tick /\ Output!None = None /\ Output!NoCookie = NoCookie
  BY <1>2, SameWords DEF Tick
<1>11. \E i \in 1..MaxSession :
         /\ Output!Create(i, clock')
         /\ \E k \in 1..(stored + 1) : Output!From(k, Output!Epoch) /\ Output!Answer(c, i, k)
         /\ served' = [j \in DOMAIN cookies' |-> IF j = i THEN stored ELSE served[j]]
         /\ owner' = [j \in DOMAIN cookies' |-> IF j = i THEN c ELSE owner[j]]
  <2>1. \E k \in 1..(stored + 1) : Output!From(k, Output!Epoch) /\ Output!Answer(c, id, k)
    BY <1>7, <1>9
  <2>. QED  BY <1>1, <1>9, <2>1
<1>. QED  BY <1>2, <1>6, <1>10, <1>11 DEF Output!ReadNew, Shown

LEMMA ResumeIsReadOn ==
    ASSUME StrictClock, ThreadInv, NEW h \in Handlers, NEW c \in Clients, job[h] = c, ResumeSession(h)
    PROVE  Output!ReadOn(c)
<1>0. MutexInv /\ IInv /\ OneEach /\ HandlersInv /\ TypeOK
      /\ DOMAIN session = Handlers /\ DOMAIN last = Handlers
  BY DEF ThreadInv, IInv, HandlersInv
<1>01. PICK id \in Sessions : jar[job[h]] = id
  <2>0. at[h] = "locked"
    BY DEF ResumeSession, Goto
  <2>1. job[h] \in Clients
    BY <1>0, <2>0, DecidedOne
  <2>. QED  BY <1>0, <2>1, DataResume
<1>1. /\ Access(id, clock') /\ Tick
      /\ session' = [session EXCEPT ![h] = id] /\ last' = [last EXCEPT ![h] = cookies[id]]
      /\ served' = [i \in DOMAIN cookies' |-> IF i = id THEN stored ELSE served[i]]
      /\ owner' = [i \in DOMAIN cookies' |-> owner[i]]
      /\ lastRead' = [lastRead EXCEPT ![job[h]] = clock']
      /\ UNCHANGED <<dropped, stored, stamp, jar, reply, job, page>>
  BY <1>01 DEF ResumeSession
<1>2. at[h] = "locked" /\ at'[h] = "get" /\ \A g \in Handlers : g # h => at'[g] = at[g]
  BY <1>0, Moved, ThreadSorts DEF ResumeSession
<1>3. id # NoCookie /\ cookies[id] \in Int
  BY <1>0, <1>01, HttpAssumption DEF TypeOK
<1>4. \A g \in Handlers : g # h =>
        /\ at'[g] = at[g] /\ session'[g] = session[g]
        /\ last'[g] = last[g] /\ page'[g] = page[g]
  BY <1>1, <1>2
<1>5. \A g \in Handlers : g # h =>
        /\ Answering(g)' <=> Answering(g)
        /\ Answering(g) => Settled(g)' = Settled(g)
  BY <1>0, <1>2, <1>4, OthersKept
<1>6. Shown[job[h]] = None /\ Shown' = [Shown EXCEPT ![job[h]] = Settled(h)']
  <2>1. Answering(h)' /\ UNCHANGED <<reply, job>>
    BY <1>1, <1>2 DEF Answering
  <2>. QED  BY <1>0, <1>2, <1>5, <2>1, ShownSettled
<1>7. PICK from \in 1..(stored + 1) : From(from, cookies[id])
  BY <1>0, <1>3, SearchEnds
<1>8. Settled(h)' = [status |-> Status(from..stored), session |-> id, entries |-> from..stored]
  <2>1. session'[h] = id /\ last'[h] = cookies[id]
    BY <1>0, <1>1
  <2>2. {k \in Buffered : last[h] < stamp[k]}' = from..stored
    BY <1>0, <1>1, <1>3, <1>7, <2>1, SearchFinds DEF Buffered
  <2>. QED  BY <1>2, <1>3, <2>1, <2>2 DEF Settled, Rendered, Status
<1>9. /\ Output!Access(id, clock') /\ Output!From(from, cookies[id])
      /\ Output!Answer(c, id, from)
  BY <1>1, <1>6, <1>7, <1>8 DEF Access, Unexpired, Sessions, Output!Access, Output!Unexpired,
     Output!Sessions, From, Output!From, Output!Answer, Status, Output!Status, Shown
<1>10. Output!Tick /\ Output!None = None
  BY <1>1, SameWords DEF Tick
<1>11. \E k \in 1..(stored + 1) : Output!From(k, cookies[id]) /\ Output!Answer(c, id, k)
  BY <1>7, <1>9
<1>. QED  BY <1>01, <1>1, <1>6, <1>9, <1>10, <1>11 DEF Output!ReadOn, Shown

LEMMA RefuseIsReadRefused ==
    ASSUME ThreadInv, NEW h \in Handlers, NEW c \in Clients, job[h] = c, RefuseSession(h)
    PROVE  Output!ReadRefused(c)
<1>0. MutexInv /\ OneEach /\ DOMAIN session = Handlers
  BY DEF ThreadInv, HandlersInv
<1>1. /\ Refuse(jar[job[h]], clock') /\ Tick
      /\ session' = [session EXCEPT ![h] = NoCookie]
      /\ served' = [i \in DOMAIN cookies' |-> served[i]]
      /\ owner' = [i \in DOMAIN cookies' |-> owner[i]]
      /\ UNCHANGED <<dropped, stored, stamp, jar, reply, lastRead, job, last, page>>
  BY DEF RefuseSession
<1>2. at[h] = "locked" /\ at'[h] = "thrown" /\ \A g \in Handlers : g # h => at'[g] = at[g]
  BY <1>0, Moved, ThreadSorts DEF RefuseSession
<1>3. \A g \in Handlers : g # h =>
        /\ Answering(g)' <=> Answering(g)
        /\ Answering(g) => Settled(g)' = Settled(g)
  <2>1. \A g \in Handlers : g # h =>
          /\ at'[g] = at[g] /\ session'[g] = session[g]
          /\ last'[g] = last[g] /\ page'[g] = page[g]
    BY <1>1, <1>2
  <2>. QED  BY <1>0, <1>2, <2>1, OthersKept
<1>4. Shown[job[h]] = None /\ Shown' = [Shown EXCEPT ![job[h]] = Settled(h)']
  <2>1. Answering(h)' /\ UNCHANGED <<reply, job>>
    BY <1>1, <1>2 DEF Answering
  <2>. QED  BY <1>0, <1>2, <1>3, <2>1, ShownSettled
<1>5. Settled(h)' = Expired
  BY <1>0, <1>1 DEF Settled, Rendered
<1>6. Output!Refuse(jar[job[h]], clock')
  BY <1>1 DEF Refuse, Unexpired, Sessions, Output!Refuse, Output!Unexpired, Output!Sessions
<1>. QED  BY <1>1, <1>4, <1>5, <1>6 DEF Output!ReadRefused, Shown, Expired, None, Output!Expired,
          Output!None, Output!NoCookie, NoCookie, Tick, Output!Tick, Output!Epoch

-----------------------------------------------------------------------------
(* The other steps: the buffer grows, answers arrive, or nothing shows. *)

(* No handler is inside while a manager stores.                               *)
LEMMA StoreIsPublishHere ==
    ASSUME ThreadInv, NEW m \in Managers, Store(m)
    PROVE  Output!Publish
<1>0. MutexInv /\ BatchInv /\ m \in Threads
  BY ThreadSorts DEF ThreadInv
<1>1. at[m] = "locked" /\ \A h \in Handlers : at'[h] = at[h]
  BY <1>0, Moved, ThreadSorts DEF Store
<1>2. \A h \in Handlers : at[h] # "get"
  BY <1>0, <1>1, ThreadSorts DEF MutexInv, Exclusion
<1>3. UNCHANGED <<reply, job, session, last, page>>
  BY DEF Store
<1>4. \A h \in Handlers : /\ Answering(h)' <=> Answering(h)
                          /\ Answering(h) => job'[h] = job[h] /\ Settled(h)' = Settled(h)
  BY <1>1, <1>2, <1>3, SettledKept DEF Answering
<1>5. Shown' = Shown
  BY <1>3, <1>4, ShownKept
<1>6. Publish
  BY <1>0, StoreIsPublish
<1>. QED  BY <1>5, <1>6, SameWords DEF Publish, Output!Publish, Shown, Add, Output!Add,
          DroppedAfter, Output!DroppedAfter

LEMMA HearsIsHeard ==
    ASSUME ThreadInv, NEW c \in Clients, Hears(c)
    PROVE  Output!Client(c)
<1>0. OneEach /\ DOMAIN reply = Clients /\ reply = [d \in Clients |-> reply[d]]
  BY DEF ThreadInv, IInv, TypeOK
<1>1. UNCHANGED <<job, session, last, page, dropped, stored, stamp, at>>
  BY DEF Hears, Receive, Lose, Forget
<1>2. CASE Receive(c) \/ Lose(c)
  <2>1. ~ Busy(c) /\ reply' = [reply EXCEPT ![c] = None]
    BY <1>0, <1>2 DEF OneEach, Receive, Lose
  <2>2. Shown[c] = reply[c] /\ Shown' = [Shown EXCEPT ![c] = None]
    BY <1>0, <1>1, <2>1, ShownHeard
  <2>3. Receive(c) => Output!Receive(c)
    <3>1. Output!None = None /\ Output!Expired = Expired
      BY SameWords
    <3>. QED  BY <2>2, <3>1 DEF Receive, Output!Receive, Shown
  <2>4. Lose(c) => Output!Lose(c)
    BY <2>2, SameWords DEF Lose, Output!Lose, Shown
  <2>. QED  BY <1>2, <2>3, <2>4 DEF Output!Client
<1>3. CASE Forget(c) /\ ~ Busy(c)
  <2>1. reply' = [reply EXCEPT ![c] = reply[c]]
    BY <1>0, <1>3 DEF Forget
  <2>2. Shown[c] = reply[c] /\ Shown' = [Shown EXCEPT ![c] = reply[c]]
    BY <1>0, <1>1, <1>3, <2>1, ShownHeard
  <2>3. Shown' = Shown
    BY <2>2 DEF Shown
  <2>. QED  BY <1>3, <2>2, <2>3, SameWords DEF Forget, Output!Forget, Output!Client, Shown
<1>. QED  BY <1>2, <1>3 DEF Hears

(* What a handler copies is what was settled when it brought its session up   *)
(* to date.                                                                   *)
LEMMA CopiedIsSettled ==
    ASSUME ThreadInv, NEW h \in Handlers, CopyReadings(h)
    PROVE  Shown' = Shown
<1>0. MutexInv /\ IInv /\ TypeOK /\ last[h] \in Int /\ DOMAIN page = Handlers
  BY HttpAssumption DEF ThreadInv, IInv, HandlersInv
<1>1. at[h] = "get" /\ at'[h] = "leave" /\ \A g \in Handlers : g # h => at'[g] = at[g]
  BY <1>0, Moved, ThreadSorts DEF CopyReadings
<1>2. PICK from \in 1..(stored + 1) : From(from, last[h]) /\ page' = [page EXCEPT ![h] = from..stored]
  BY DEF CopyReadings
<1>3. UNCHANGED <<dropped, stored, stamp, reply, job, session, last>>
  BY DEF CopyReadings, vars
<1>4. Settled(h)' = Settled(h)
  <2>1. page'[h] = {k \in Buffered : last[h] < stamp[k]}
    BY <1>0, <1>2, SearchFinds
  <2>. QED  BY <1>1, <1>3, <2>1 DEF Settled, Rendered
<1>5. ASSUME NEW g \in Handlers, g # h PROVE Settled(g)' = Settled(g)
  BY <1>0, <1>1, <1>2, <1>3, <1>5, SettledKept
<1>6. \A g \in Handlers : /\ Answering(g)' <=> Answering(g)
                          /\ Answering(g) => job'[g] = job[g] /\ Settled(g)' = Settled(g)
  BY <1>1, <1>3, <1>4, <1>5 DEF Answering
<1>. QED  BY <1>3, <1>6, ShownKept

(* A step of a thread that has settled nothing yet, or stays settled.         *)
LEMMA MovedShows ==
    ASSUME UNCHANGED <<reply, session, last, page, dropped, stored, stamp>>,
           \A h \in Handlers :
             /\ at'[h] = "get" <=> at[h] = "get"
             /\ Answering(h)' <=> Answering(h)
             /\ Answering(h) => job'[h] = job[h]
    PROVE  Shown' = Shown
<1>1. \A h \in Handlers : Settled(h)' = Settled(h)
  BY SettledKept
<1>. QED  BY <1>1, ShownKept

LEMMA OutputStep ==
    ASSUME StrictClock, ThreadInv, [ThreadNext]_threadVars
    PROVE  [Output!Next]_(Output!vars)
<1>0. MutexInv
  BY DEF ThreadInv
<1>1. ASSUME Shown' = Shown,
             UNCHANGED <<cookies, dropped, stored, stamp, clock, jar, served, owner, lastRead>>
      PROVE  UNCHANGED Output!vars
  BY <1>1 DEF Output!vars, Shown
<1>2. ASSUME NEW c \in Clients, Request(c) PROVE UNCHANGED Output!vars
  BY <1>1, <1>2, MovedShows DEF Request, Answering, vars
<1>3. ASSUME NEW c \in Clients, Hears(c) PROVE Output!Next
  BY <1>3, HearsIsHeard DEF Output!Next
<1>4. ASSUME NEW t \in Threads, Enter(t) \/ Leave(t) PROVE UNCHANGED Output!vars
  <2>1. UNCHANGED <<vars, job, session, last, page>>
    BY <1>4 DEF Enter, Leave
  <2>2. \A h \in Handlers : (at'[h] = "get" <=> at[h] = "get") /\ (Answering(h)' <=> Answering(h))
    <3>1. CASE Goto(t, "lock", "locked")
      BY <1>0, <3>1, Moved, ThreadSorts DEF Answering
    <3>2. CASE Goto(t, "leave", IF t \in Managers THEN "idle" ELSE "render")
      BY <1>0, <3>2, Moved, ThreadSorts DEF Answering
    <3>3. CASE Goto(t, "thrown", "render")
      BY <1>0, <3>3, Moved, ThreadSorts DEF Answering
    <3>. QED  BY <1>4, <3>1, <3>2, <3>3 DEF Enter, Leave
  <2>. QED  BY <1>1, <2>1, <2>2, MovedShows DEF vars
<1>5. ASSUME NEW h \in Handlers, Take(h) PROVE UNCHANGED Output!vars
  <2>1. at[h] = "idle" /\ at'[h] = "lock" /\ \A g \in Handlers : g # h => at'[g] = at[g]
    BY <1>0, <1>5, Moved, ThreadSorts DEF Take
  <2>2. \A g \in Handlers : g # h => job'[g] = job[g]
    BY <1>5 DEF Take, ThreadInv, OneEach
  <2>. QED  BY <1>1, <1>5, <2>1, <2>2, MovedShows DEF Take, Answering, vars
<1>6. ASSUME NEW h \in Handlers, Serve(h) PROVE [Output!Next]_(Output!vars)
  <2>1. CASE OpenSession(h) \/ ResumeSession(h) \/ RefuseSession(h)
    <3>1. at[h] = "locked"
      BY <2>1 DEF OpenSession, ResumeSession, RefuseSession, Goto
    <3>2. PICK c \in Clients : job[h] = c
      BY <3>1, DecidedOne DEF ThreadInv
    <3>3. Output!Client(c)
      BY <2>1, <3>2, OpenIsReadNew, ResumeIsReadOn, RefuseIsReadRefused DEF Output!Client
    <3>. QED  BY <3>2, <3>3 DEF Output!Next
  <2>2. CASE CopyReadings(h)
    BY <1>1, <2>2, CopiedIsSettled DEF CopyReadings, vars
  <2>3. CASE Render(h)
    BY <1>1, <2>3, ShownRendered DEF Render
  <2>. QED  BY <1>6, <2>1, <2>2, <2>3 DEF Serve
<1>7. ASSUME NEW m \in Managers, Polled(m) PROVE UNCHANGED Output!vars
  <2>1. \A h \in Handlers : at'[h] = at[h]
    BY <1>0, <1>7, Moved, ThreadSorts DEF Polled
  <2>. QED  BY <1>1, <1>7, <2>1, MovedShows DEF Polled, Answering, vars
<1>8. ASSUME NEW m \in Managers, Store(m) PROVE Output!Next
  BY <1>8, StoreIsPublishHere DEF Output!Next
<1>9. CASE UNCHANGED threadVars
  BY <1>1, <1>9, MovedShows DEF Answering, threadVars, vars
<1>. QED  BY <1>2, <1>3, <1>4, <1>5, <1>6, <1>7, <1>8, <1>9 DEF ThreadNext, Finished

(* With a clock that moves between critical sections, the pool of handlers    *)
(* and the managers' threads, which wait for HTTP::mutex and take it for a    *)
(* critical section each, are indistinguishable to clients from the program   *)
(* that does a whole critical section in one step (HttpOutput): for any       *)
(* number of threads and clients.                                             *)
THEOREM OutputImplemented == ASSUME StrictClock PROVE ThreadSpec => ImplementsOutput
<1>1. ThreadInv /\ [ThreadNext]_threadVars => [Output!Next]_(Output!vars)
  BY OutputStep
<1>. QED  BY <1>1, ThreadInvInit, ThreadInvStep, OutputInit, PTL
          DEF ThreadSpec, ImplementsOutput, Output!Spec
=============================================================================
