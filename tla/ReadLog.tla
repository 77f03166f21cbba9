------------------------------- MODULE ReadLog -------------------------------
(* What GET /read promises, without clocks, cookies' times or a buffer: a log *)
(* of readings that loses readings only from its old end, and sessions that   *)
(* each get every reading still in the log once, in one piece per read.  A    *)
(* read whose answer cannot be rendered or is lost still counts as read.      *)
EXTENDS Integers

CONSTANT Clients

VARIABLES
    stored,     \* readings are numbered 1, 2, ... in the order they are stored
    dropped,    \* readings 1..dropped are gone
    cursor,     \* session -> the last reading the session has been given
    reply       \* client -> the answer on its way to it

None == [status |-> "none", session |-> 0, entries |-> {}]

Waiting(c) == reply[c] = None

(* What a session that has had everything up to reading n is still owed.      *)
Unread(n) == {k \in (dropped + 1)..stored : k > n}

Answers(c, id, entries) ==
    \E status \in {"ok", "failed"} :
        reply' = [reply EXCEPT ![c] =
                    [status |-> status, session |-> id, entries |-> entries]]

Init == /\ stored = 0
        /\ dropped = 0
        /\ cursor = [i \in {} |-> 0]
        /\ reply = [c \in Clients |-> None]

Store == /\ stored' > stored
         /\ dropped' \in dropped..stored'
         /\ UNCHANGED <<cursor, reply>>

Open(c) == /\ Waiting(c)
           /\ \E id \in DOMAIN cursor' \ DOMAIN cursor :
                /\ cursor' = [i \in DOMAIN cursor \cup {id} |->
                                IF i = id THEN stored ELSE cursor[i]]
                /\ Answers(c, id, Unread(0))
           /\ UNCHANGED <<stored, dropped>>

(* The session read from must be one of those still known; others may have    *)
(* expired.                                                                   *)
Resume(c) == /\ Waiting(c)
             /\ DOMAIN cursor' \subseteq DOMAIN cursor
             /\ \E id \in DOMAIN cursor' :
                  /\ cursor' = [i \in DOMAIN cursor' |->
                                  IF i = id THEN stored ELSE cursor[i]]
                  /\ Answers(c, id, Unread(cursor[id]))
             /\ UNCHANGED <<stored, dropped>>

Refused(c) == /\ Waiting(c)
              /\ DOMAIN cursor' \subseteq DOMAIN cursor
              /\ cursor' = [i \in DOMAIN cursor' |-> cursor[i]]
              /\ reply' = [reply EXCEPT ![c] =
                            [status |-> "expired", session |-> 0, entries |-> {}]]
              /\ UNCHANGED <<stored, dropped>>

Taken(c) == /\ ~ Waiting(c)
            /\ reply' = [reply EXCEPT ![c] = None]
            /\ UNCHANGED <<stored, dropped, cursor>>

Next == Store \/ \E c \in Clients : Open(c) \/ Resume(c) \/ Refused(c) \/ Taken(c)

Spec == Init /\ [][Next]_<<stored, dropped, cursor, reply>>
=============================================================================
