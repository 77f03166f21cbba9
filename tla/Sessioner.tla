------------------------------ MODULE Sessioner ------------------------------
(* The table of HTTP read sessions (class Sessioner): a session id, the value *)
(* of the cookie, and the time of the session's last read.  Sessions are      *)
(* forgotten only while some session is being accessed; opening one clears    *)
(* nothing.  Every operation runs under the table's own mutex, so each is one *)
(* step here.                                                                 *)
EXTENDS Integers, FiniteSets

CONSTANT InactivityTimeout      \* five minutes in the code

ASSUME TimeoutAssumption == InactivityTimeout \in Nat \ {0}

VARIABLE cookies                \* session id -> time of its last access

Sessions == DOMAIN cookies

SessionerInit == cookies = [i \in {} |-> 0]

NextIdByCount(id) == id = Cardinality(Sessions) + 1         \* a bug: ids reused

(* The id given to a new session: one more than the largest id in the table.  *)
NextId(id) ==
    \/ Sessions = {} /\ id = 1
    \/ \E last \in Sessions : /\ \A i \in Sessions : i <= last
                              /\ id = last + 1

Create(id, now) ==
    /\ NextId(id)
    /\ cookies' = [i \in Sessions \cup {id} |-> IF i = id THEN now ELSE cookies[i]]

UnexpiredTooSoon(now) ==                    \* a bug: off by one at the timeout
    {i \in Sessions : now - cookies[i] < InactivityTimeout - 1}

(* The sessions clearExpiredCookies leaves in the table at time now.          *)
Unexpired(now) == {i \in Sessions : now - cookies[i] < InactivityTimeout}

AccessUntimed(id, now) ==                   \* a bug: the access is not recorded
    /\ id \in Unexpired(now)
    /\ cookies' = [i \in Unexpired(now) |-> cookies[i]]

(* getLastAccessTime returns: the session's time is brought up to date.  The  *)
(* time it returns is cookies[id], the value before the step.                 *)
Access(id, now) ==
    /\ id \in Unexpired(now)
    /\ cookies' = [i \in Unexpired(now) |-> IF i = id THEN now ELSE cookies[i]]

(* getLastAccessTime throws "Expired!": the table has been cleared all the    *)
(* same.                                                                      *)
Refuse(id, now) ==
    /\ id \notin Unexpired(now)
    /\ cookies' = [i \in Unexpired(now) |-> cookies[i]]
=============================================================================
