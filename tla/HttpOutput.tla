----------------------------- MODULE HttpOutput -----------------------------
(* The HTTP output (out/http/HTTP.cpp) as its clients see it: managers store  *)
(* batches of readings, clients GET /read with or without the cookie of a     *)
(* session.  The code between taking and releasing HTTP::mutex is one step    *)
(* (HttpThreads shows why that is enough); within it the system clock is read *)
(* once.  Clients, their cookies and the network are external.                *)
EXTENDS Sessioner, StreamBuffer

CONSTANTS
    Clients,
    ClockSteps,     \* by how much two successive readings of system_clock differ
    Unprintable,    \* the readings whose JSON text cannot be rendered: dump throws
    MaxBatch,       \* bound: readings in one batch
    MaxTime,        \* bound: the model's horizon
    MaxStored,      \* bound: readings ever stored
    MaxSession      \* bound: session ids

ASSUME HttpAssumption == /\ ClockSteps \subseteq Int
                         /\ Unprintable \subseteq Nat
                         /\ {MaxBatch, MaxStored, MaxSession} \subseteq Nat
                         /\ MaxTime \in Nat \ {0}

VARIABLES
    clock,          \* system_clock at its last reading, counted from its epoch
    jar,            \* the cookie each client holds, NoCookie if none
    reply,          \* the answer on its way to each client
    served,         \* history: session -> the last reading it has been given
    owner,          \* history: session -> the client it was opened for
    lastRead        \* history: client -> when it was last served

vars == <<cookies, dropped, stored, stamp, clock, jar, reply, served, owner, lastRead>>

Epoch == 0          \* a default-constructed TimePoint
NoCookie == 0       \* also what atoi makes of a cookie that is not a number

None == [status |-> "none", session |-> NoCookie, entries |-> {}]
Expired == [None EXCEPT !.status = "expired"]

Init == /\ SessionerInit
        /\ BufferInit
        /\ clock = Epoch + 1
        /\ jar = [c \in Clients |-> NoCookie]
        /\ reply = [c \in Clients |-> None]
        /\ served = [i \in {} |-> 0]
        /\ owner = [i \in {} |-> 0]
        /\ lastRead = [c \in Clients |-> Epoch]

TickBeforeLock ==       \* a bug: the clock is read before the lock is taken
    /\ \E d \in ClockSteps : clock' = clock + d \/ clock' = clock - d
    /\ clock' \in (Epoch + 1)..MaxTime

(* Reading the clock.                                                         *)
Tick == /\ \E d \in ClockSteps : clock' = clock + d
        /\ clock' \in (Epoch + 1)..MaxTime

(* send(list): a manager's batch enters the buffer.                           *)
Publish ==
    /\ Tick
    /\ \E n \in 1..MaxBatch : stored + n <= MaxStored /\ Add(n, clock')
    /\ UNCHANGED <<cookies, jar, reply, served, owner, lastRead>>

Status(entries) == IF entries \cap Unprintable = {} THEN "ok" ELSE "failed"

AnswerPastEnd(c, id, from) ==           \* a bug: one reading past the end
    reply' = [reply EXCEPT ![c] = [status |-> Status(from..stored),
                                   session |-> id,
                                   entries |-> from..(stored + 1)]]

(* The text is produced after the lock is released and may throw; the session *)
(* has been brought up to date by then, and a Set-Cookie header stays.        *)
Answer(c, id, from) ==
    reply' = [reply EXCEPT ![c] = [status |-> Status(from..stored),
                                   session |-> id,
                                   entries |-> from..stored]]

(* GET /read without a cookie: a new session, and all the buffer holds.       *)
ReadNew(c) ==
    /\ reply[c] = None
    /\ jar[c] = NoCookie
    /\ Tick
    /\ \E id \in 1..MaxSession :
         /\ Create(id, clock')
         /\ \E from \in 1..(stored + 1) : From(from, Epoch) /\ Answer(c, id, from)
         /\ served' = [i \in DOMAIN cookies' |-> IF i = id THEN stored ELSE served[i]]
         /\ owner' = [i \in DOMAIN cookies' |-> IF i = id THEN c ELSE owner[i]]
    /\ lastRead' = [lastRead EXCEPT ![c] = clock']
    /\ UNCHANGED <<dropped, stored, stamp, jar>>

(* GET /read with the cookie of a session that has not expired: what was      *)
(* stored after that session's last access.                                   *)
ReadOn(c) ==
    /\ reply[c] = None
    /\ Tick
    /\ LET id == jar[c]
       IN  /\ Access(id, clock')
           /\ \E from \in 1..(stored + 1) : From(from, cookies[id]) /\ Answer(c, id, from)
           /\ served' = [i \in DOMAIN cookies' |-> IF i = id THEN stored ELSE served[i]]
    /\ owner' = [i \in DOMAIN cookies' |-> owner[i]]
    /\ lastRead' = [lastRead EXCEPT ![c] = clock']
    /\ UNCHANGED <<dropped, stored, stamp, jar>>

(* GET /read with the cookie of an expired session, or one that never named a *)
(* session: the exception handler answers.                                    *)
ReadRefused(c) ==
    /\ reply[c] = None
    /\ Tick
    /\ Refuse(jar[c], clock')
    /\ reply' = [reply EXCEPT ![c] = Expired]
    /\ served' = [i \in DOMAIN cookies' |-> served[i]]
    /\ owner' = [i \in DOMAIN cookies' |-> owner[i]]
    /\ UNCHANGED <<dropped, stored, stamp, jar, lastRead>>

(* The answer arrives.  A new session's cookie is kept by the client.         *)
Receive(c) ==
    /\ reply[c] # None
    /\ reply' = [reply EXCEPT ![c] = None]
    /\ jar' = [jar EXCEPT ![c] = IF reply[c] = Expired THEN @ ELSE reply[c].session]
    /\ UNCHANGED <<cookies, dropped, stored, stamp, clock, served, owner, lastRead>>

(* The connection breaks before the answer arrives.                           *)
Lose(c) ==
    /\ reply[c] # None
    /\ reply' = [reply EXCEPT ![c] = None]
    /\ UNCHANGED <<cookies, dropped, stored, stamp, clock, jar, served, owner, lastRead>>

(* The client starts over.                                                    *)
Forget(c) ==
    /\ reply[c] = None
    /\ jar[c] # NoCookie
    /\ jar' = [jar EXCEPT ![c] = NoCookie]
    /\ UNCHANGED <<cookies, dropped, stored, stamp, clock, reply, served, owner, lastRead>>

Client(c) == \/ ReadNew(c) \/ ReadOn(c) \/ ReadRefused(c)
             \/ Receive(c) \/ Lose(c) \/ Forget(c)

Next == Publish \/ \E c \in Clients : Client(c)

Spec == Init /\ [][Next]_vars

-----------------------------------------------------------------------------
(* Properties *)

(* Every variable keeps to its type; the tables about sessions speak of the   *)
(* same sessions, no time lies ahead of the clock's maximum.                  *)
TypeOK ==
    /\ stored \in 0..MaxStored
    /\ dropped \in 0..stored
    /\ stamp \in [Buffered -> 1..MaxTime]
    /\ clock \in 1..MaxTime
    /\ Sessions \subseteq 1..MaxSession
    /\ cookies \in [Sessions -> 1..MaxTime]
    /\ served \in [Sessions -> 0..stored]
    /\ owner \in [Sessions -> Clients]
    /\ jar \in [Clients -> 0..MaxSession]
    /\ lastRead \in [Clients -> 0..MaxTime]
    /\ reply \in [Clients -> [status : {"none", "ok", "failed", "expired"},
                              session : 0..MaxSession,
                              entries : SUBSET (1..stored)]]

(* Buffer.cpp promises upper_bound a deque sorted by time ("the buffer will   *)
(* always be sorted relative to the timepoints").                             *)
StampsSorted == \A j, k \in Buffered : j <= k => stamp[j] <= stamp[k]

(* The deque never exceeds its limit, and drops a reading only when newer     *)
(* ones fill it.                                                              *)
DropsOnlyOverflow == stored - dropped = IF stored < Capacity THEN stored ELSE Capacity

(* The time kept for a session separates exactly the readings it has been     *)
(* given from those it has not: the code relates the two only through the     *)
(* clock.                                                                     *)
ReadPosition ==
    \A id \in Sessions : \A k \in Buffered : stamp[k] <= cookies[id] <=> k <= served[id]

(* A client that comes back within the inactivity timeout is not refused,     *)
(* whatever sessions were opened, used or cleared meanwhile.                  *)
ActiveNeverRefused ==
    [][\A c \in Clients :
         jar[c] # NoCookie /\ reply[c] = None /\ reply'[c] = Expired
         => clock' - lastRead[c] >= InactivityTimeout]_vars

(* The session a client's cookie names is the one opened for that client, or  *)
(* none: the cookie of an expired session is dead for good.                   *)
OwnSession == \A c \in Clients : jar[c] \in Sessions => owner[jar[c]] = c

(* The sessions that expire, the clock, the deque and its search together do  *)
(* what ReadLog says.                                                         *)
Log == INSTANCE ReadLog WITH cursor <- served

ImplementsLog == Log!Spec
=============================================================================
