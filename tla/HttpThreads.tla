----------------------------- MODULE HttpThreads -----------------------------
(* The threads behind HttpOutput: the server's pool of request handlers and   *)
(* the managers' threads, all of which take HTTP::mutex around what they do   *)
(* to the session table and the buffer.  A request waits in the server's      *)
(* queue for a handler (httplib, external).  An exception thrown while the    *)
(* mutex is held releases it as the stack unwinds.                            *)
EXTENDS HttpOutput, Sequences

CONSTANTS Handlers, Managers, Nobody,
          MaxTurns      \* bound: requests of a client, batches of a manager

ASSUME ThreadsAssumption == /\ Handlers \cap Managers = {}
                            /\ Nobody \notin Clients \cup Handlers \cup Managers
                            /\ MaxTurns \in Nat

VARIABLES
    lock,       \* the thread that holds HTTP::mutex, or Nobody
    at,         \* where each thread is
    queue,      \* clients whose requests no handler has taken
    job,        \* handler -> the client it serves
    session,    \* handler -> the session it reads from, NoCookie once refused
    last,       \* handler -> the time getLastAccessTime gave it
    page,       \* handler -> the readings it copied
    batch,      \* manager -> readings it is about to store
    turns       \* how often each client and manager has had its turn

threadVars == <<vars, lock, at, queue, job, session, last, page, batch, turns>>

Threads == Handlers \cup Managers

ThreadInit ==
    /\ Init
    /\ lock = Nobody
    /\ at = [t \in Threads |-> "idle"]
    /\ queue = <<>>
    /\ job = [h \in Handlers |-> Nobody]
    /\ session = [h \in Handlers |-> NoCookie]
    /\ last = [h \in Handlers |-> Epoch]
    /\ page = [h \in Handlers |-> {}]
    /\ batch = [m \in Managers |-> 0]
    /\ turns = [x \in Clients \cup Managers |-> 0]

Goto(t, from, to) == at[t] = from /\ at' = [at EXCEPT ![t] = to]

Turn(x) == turns[x] < MaxTurns /\ turns' = [turns EXCEPT ![x] = @ + 1]

Busy(c) == (\E i \in DOMAIN queue : queue[i] = c) \/ (\E h \in Handlers : job[h] = c)

-----------------------------------------------------------------------------
(* Clients *)

Request(c) ==
    /\ reply[c] = None /\ ~ Busy(c)
    /\ Turn(c)
    /\ queue' = Append(queue, c)
    /\ UNCHANGED <<vars, lock, at, job, session, last, page, batch>>

Hears(c) ==
    /\ \/ Receive(c)
       \/ Lose(c)
       \/ Forget(c) /\ ~ Busy(c)
    /\ UNCHANGED <<lock, at, queue, job, session, last, page, batch, turns>>

-----------------------------------------------------------------------------
(* The mutex *)

EnterUnlocked(t) ==         \* a bug: the lock_guard is missing
    /\ Goto(t, "lock", "locked")
    /\ UNCHANGED <<vars, lock, queue, job, session, last, page, batch, turns>>

Enter(t) ==
    /\ Goto(t, "lock", "locked")
    /\ lock = Nobody
    /\ lock' = t
    /\ UNCHANGED <<vars, queue, job, session, last, page, batch, turns>>

LeaveUnlessThrown(t) ==     \* a bug: lock and unlock by hand, not by a guard
    /\ \/ Goto(t, "leave", IF t \in Managers THEN "idle" ELSE "render")
       \/ Goto(t, "thrown", "render")
    /\ lock' = IF at[t] = "thrown" THEN lock ELSE Nobody
    /\ UNCHANGED <<vars, queue, job, session, last, page, batch, turns>>

Leave(t) ==
    /\ \/ Goto(t, "leave", IF t \in Managers THEN "idle" ELSE "render")
       \/ Goto(t, "thrown", "render")
    /\ lock' = Nobody
    /\ UNCHANGED <<vars, queue, job, session, last, page, batch, turns>>

-----------------------------------------------------------------------------
(* Handlers of GET /read *)

Take(h) ==
    /\ Goto(h, "idle", "lock")
    /\ queue # <<>>
    /\ job' = [job EXCEPT ![h] = Head(queue)]
    /\ queue' = Tail(queue)
    /\ UNCHANGED <<vars, lock, session, last, page, batch, turns>>

(* A request without a cookie opens a session and reads from the epoch.       *)
OpenSession(h) ==
    /\ Goto(h, "locked", "get")
    /\ jar[job[h]] = NoCookie
    /\ Tick
    /\ \E id \in 1..MaxSession :
         /\ Create(id, clock')
         /\ session' = [session EXCEPT ![h] = id]
         /\ served' = [i \in DOMAIN cookies' |-> IF i = id THEN stored ELSE served[i]]
         /\ owner' = [i \in DOMAIN cookies' |-> IF i = id THEN job[h] ELSE owner[i]]
    /\ last' = [last EXCEPT ![h] = Epoch]
    /\ lastRead' = [lastRead EXCEPT ![job[h]] = clock']
    /\ UNCHANGED <<dropped, stored, stamp, jar, reply, lock, queue, job, page, batch, turns>>

ResumeSession(h) ==
    /\ Goto(h, "locked", "get")
    /\ Tick
    /\ LET id == jar[job[h]]
       IN  /\ Access(id, clock')
           /\ session' = [session EXCEPT ![h] = id]
           /\ last' = [last EXCEPT ![h] = cookies[id]]
           /\ served' = [i \in DOMAIN cookies' |-> IF i = id THEN stored ELSE served[i]]
    /\ owner' = [i \in DOMAIN cookies' |-> owner[i]]
    /\ lastRead' = [lastRead EXCEPT ![job[h]] = clock']
    /\ UNCHANGED <<dropped, stored, stamp, jar, reply, lock, queue, job, page, batch, turns>>

RefuseSession(h) ==
    /\ Goto(h, "locked", "thrown")
    /\ jar[job[h]] # NoCookie
    /\ Tick
    /\ Refuse(jar[job[h]], clock')
    /\ session' = [session EXCEPT ![h] = NoCookie]
    /\ served' = [i \in DOMAIN cookies' |-> served[i]]
    /\ owner' = [i \in DOMAIN cookies' |-> owner[i]]
    /\ UNCHANGED <<dropped, stored, stamp, jar, reply, lastRead,
                   lock, queue, job, last, page, batch, turns>>

CopyReadings(h) ==
    /\ Goto(h, "get", "leave")
    /\ \E from \in 1..(stored + 1) : From(from, last[h])
                                     /\ page' = [page EXCEPT ![h] = from..stored]
    /\ UNCHANGED <<vars, lock, queue, job, session, last, batch, turns>>

(* The answer a handler gives, by the exception handler once refused.         *)
Rendered(h, entries) ==
    IF session[h] = NoCookie THEN Expired
    ELSE [status |-> Status(entries), session |-> session[h], entries |-> entries]

Render(h) ==
    /\ Goto(h, "render", "idle")
    /\ reply' = [reply EXCEPT ![job[h]] = Rendered(h, page[h])]
    /\ job' = [job EXCEPT ![h] = Nobody]
    /\ page' = [page EXCEPT ![h] = {}]
    /\ session' = [session EXCEPT ![h] = NoCookie]
    /\ last' = [last EXCEPT ![h] = Epoch]
    /\ UNCHANGED <<cookies, dropped, stored, stamp, clock, jar, served, owner, lastRead,
                   lock, queue, batch, turns>>

Serve(h) == OpenSession(h) \/ ResumeSession(h) \/ RefuseSession(h)
            \/ CopyReadings(h) \/ Render(h)

-----------------------------------------------------------------------------
(* Managers *)

Polled(m) ==
    /\ Goto(m, "idle", "lock")
    /\ Turn(m)
    /\ \E n \in 1..MaxBatch : batch' = [batch EXCEPT ![m] = n]
    /\ UNCHANGED <<vars, lock, queue, job, session, last, page>>

Store(m) ==
    /\ Goto(m, "locked", "leave")
    /\ m \in Managers
    /\ Tick
    /\ stored + batch[m] <= MaxStored
    /\ Add(batch[m], clock')
    /\ batch' = [batch EXCEPT ![m] = 0]
    /\ UNCHANGED <<cookies, jar, reply, served, owner, lastRead,
                   lock, queue, job, session, last, page, turns>>

-----------------------------------------------------------------------------

(* Nobody has a turn left and nothing is under way.                           *)
Finished ==
    /\ \A x \in Clients \cup Managers : turns[x] = MaxTurns
    /\ \A t \in Threads : at[t] = "idle"
    /\ queue = <<>>
    /\ UNCHANGED threadVars

ThreadNext ==
    \/ \E c \in Clients : Request(c) \/ Hears(c)
    \/ \E t \in Threads : Enter(t) \/ Leave(t)
    \/ \E h \in Handlers : Take(h) \/ Serve(h)
    \/ \E m \in Managers : Polled(m) \/ Store(m)
    \/ Finished

(* The system runs every thread that can run.  A mutex gives no order to      *)
(* those that wait for it, but it is held only for the time of some copying   *)
(* and the managers spend their time on their lines, so nobody waits for ever *)
(* (strong fairness).  Clients and lines owe nothing.                         *)
Fairness ==
    /\ \A h \in Handlers : WF_threadVars(Take(h)) /\ WF_threadVars(Serve(h))
    /\ \A m \in Managers : WF_threadVars(Store(m))
    /\ \A t \in Threads : SF_threadVars(Enter(t)) /\ WF_threadVars(Leave(t))

ThreadSpec == ThreadInit /\ [][ThreadNext]_threadVars /\ Fairness

-----------------------------------------------------------------------------
(* Properties *)

(* The mutex is held by the one thread that is inside, and by none otherwise. *)
Exclusion ==
    \A t \in Threads : at[t] \in {"locked", "get", "leave", "thrown"} <=> lock = t

(* Every request is answered in the end, whether or not a session has expired *)
(* or a text cannot be rendered.                                              *)
Answered == \A c \in Clients : Busy(c) ~> reply[c] # None

(* With the mutex, a whole critical section may be taken for one step: the    *)
(* threads implement HttpOutput.  A read counts when its session is brought   *)
(* up to date; what it will answer is settled from then on.                   *)
Decided(c) == {h \in Handlers : job[h] = c /\ at[h] \in {"get", "leave", "thrown", "render"}}

Settled(h) ==
    Rendered(h, IF at[h] = "get" THEN {k \in Buffered : last[h] < stamp[k]} ELSE page[h])

Output == INSTANCE HttpOutput WITH
    reply <- [c \in Clients |->
                IF Decided(c) = {} THEN reply[c]
                ELSE Settled(CHOOSE h \in Decided(c) : TRUE)]

ImplementsOutput == Output!Spec
=============================================================================
