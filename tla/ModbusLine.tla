------------------------------ MODULE ModbusLine ------------------------------
(* One manager's Modbus line: the tasks that poll the slaves in turn          *)
(* (PollSlave), the communicator that sends a slave's planned requests one    *)
(* after another, the adapter, and the serial connection with the bytes the   *)
(* kernel holds for it.  The slaves and the wire are external: a slave may    *)
(* stay silent, answer with data in two pieces, with an exception or with     *)
(* noise, pieces may get lost, and the serial adapter may be unplugged.       *)
EXTENDS Naturals, Sequences

CONSTANTS
    Slaves,
    Tasks,          \* the slaves in the order of their tasks
    Plan,           \* slave -> its requests, each named by the group it asks for
    PollTime,       \* slave -> poll_time_ms
    LateAnswers,    \* whether a piece may take longer than the time-outs allow
    MaxComing       \* bound: pieces on the wire

Groups == UNION {{Plan[s][i] : i \in DOMAIN Plan[s]} : s \in Slaves}

ASSUME LineAssumption ==
    /\ Tasks \in Seq(Slaves) /\ Tasks # <<>>
    /\ Plan \in [Slaves -> Seq(Groups)]
    /\ PollTime \in [Slaves -> Nat]
    /\ LateAnswers \in BOOLEAN
    /\ MaxComing \in Nat

VARIABLES
    phase,      \* where the manager's thread is
    turn,       \* whose task is run: an index of Tasks
    step,       \* which of its requests: an index of its plan
    since,      \* slave -> time since its task last ran, up to PollTime
    plugged,    \* whether the serial device is there
    coming,     \* pieces on the wire, in order
    inbox,      \* pieces the kernel holds, unread
    data,       \* pieces getData has read
    fields,     \* answers accepted for the entry in the making
    entry       \* what the last task to poll returned

lineVars == <<phase, turn, step, since, plugged, coming, inbox, data, fields, entry>>

Slave == Tasks[turn]

(* A piece of an answer.  It is current until the next request is written.    *)
Piece(s, g, kind, part) ==
    [slave |-> s, group |-> g, kind |-> kind, part |-> part, current |-> TRUE]

Outdated(pieces) == [i \in DOMAIN pieces |-> [pieces[i] EXCEPT !.current = FALSE]]

DataFrame(s, g) == <<Piece(s, g, "data", 1), Piece(s, g, "data", 2)>>

Answers(s, g) == {<<>>, DataFrame(s, g),
                  <<Piece(s, g, "exception", 1)>>, <<Piece(s, g, "noise", 1)>>}

NoEntry == [slave |-> Tasks[1], error |-> "unset", fields |-> <<>>]

Leftovers == {<<>>} \cup {Outdated(DataFrame(s, Plan[s][1])) :
                            s \in {t \in Slaves : Plan[t] # <<>>}}

LineInit ==
    /\ phase = "open"
    /\ turn = 1 /\ step = 1
    /\ since = PollTime         \* lastRun starts at the clock's epoch
    /\ plugged = TRUE
    /\ coming = <<>>
    /\ inbox \in Leftovers
    /\ data = <<>> /\ fields = <<>>
    /\ entry = NoEntry

-----------------------------------------------------------------------------
(* The wire and the clock *)

Arrive == /\ coming # <<>>
          /\ inbox' = Append(inbox, Head(coming))
          /\ coming' = Tail(coming)
          /\ UNCHANGED <<plugged, phase, turn, step, since, data, fields, entry>>

Vanish == /\ coming # <<>>
          /\ coming' = Tail(coming)
          /\ UNCHANGED <<plugged, phase, turn, step, since, inbox, data, fields, entry>>

Elapse == /\ \E s \in Slaves : since[s] < PollTime[s]
          /\ since' = [s \in Slaves |-> IF since[s] < PollTime[s] THEN since[s] + 1
                                                                  ELSE since[s]]
          /\ UNCHANGED <<plugged, phase, turn, step, coming, inbox, data, fields, entry>>

(* For good: the device file is not opened again.                             *)
Unplug == /\ phase # "open" /\ plugged
          /\ plugged' = FALSE
          /\ inbox' = <<>> /\ coming' = <<>>
          /\ UNCHANGED <<phase, turn, step, since, data, fields, entry>>

-----------------------------------------------------------------------------
(* The connection and the adapter *)

OpenUnflushed ==        \* a bug: what came before the program started is kept
    /\ phase = "open"
    /\ phase' = "idle"
    /\ UNCHANGED <<plugged, turn, step, since, coming, inbox, data, fields, entry>>

(* The constructor discards what the kernel holds.                            *)
Open == /\ phase = "open"
        /\ phase' = "idle"
        /\ inbox' = <<>>
        /\ UNCHANGED <<plugged, turn, step, since, coming, data, fields, entry>>

(* sendData: output not yet transmitted is discarded, input is not.           *)
Send == /\ phase = "send" /\ plugged
        /\ step <= Len(Plan[Slave])
        /\ \E answer \in Answers(Slave, Plan[Slave][step]) :
             /\ coming' = Outdated(coming) \o answer
             /\ Len(coming') <= MaxComing
        /\ inbox' = Outdated(inbox)
        /\ phase' = "wait"
        /\ UNCHANGED <<plugged, turn, step, since, data, fields, entry>>

(* poll: a time-out elapses with nothing to read.                             *)
Nothing == plugged /\ inbox = <<>> /\ (LateAnswers \/ coming = <<>>)

Read == /\ phase \in {"wait", "read"}
        /\ inbox # <<>>
        /\ data' = data \o inbox
        /\ inbox' = <<>>
        /\ phase' = "read"
        /\ UNCHANGED <<plugged, turn, step, since, coming, fields, entry>>

(* fromRawCRC: one whole answer, of whatever request.                         *)
Whole(pieces) ==
    /\ Len(pieces) = 2
    /\ pieces[1].kind = "data" /\ pieces[1].part = 1
    /\ pieces[2] = [pieces[1] EXCEPT !.part = 2]

-----------------------------------------------------------------------------
(* The communicator and the tasks *)

NextTurnPastEnd ==      \* a bug: one task too many
    turn' = IF turn > Len(Tasks) THEN 1 ELSE turn + 1

NextTurn == turn' = IF turn = Len(Tasks) THEN 1 ELSE turn + 1

(* run: the slave's poll time is up, and counts anew from now.                *)
StartTask ==
    /\ phase = "idle"
    /\ since[Slave] >= PollTime[Slave]
    /\ since' = [since EXCEPT ![Slave] = 0]
    /\ phase' = "send" /\ step' = 1 /\ fields' = <<>>
    /\ UNCHANGED <<plugged, turn, coming, inbox, data, entry>>

SkipTask ==
    /\ phase = "idle"
    /\ since[Slave] < PollTime[Slave]
    /\ NextTurn
    /\ UNCHANGED <<plugged, phase, step, since, coming, inbox, data, fields, entry>>

Accept ==
    /\ phase = "read" /\ Nothing
    /\ Whole(data)
    /\ fields' = Append(fields, data[1])
    /\ step' = step + 1
    /\ data' = <<>>
    /\ phase' = "send"
    /\ UNCHANGED <<plugged, turn, since, coming, inbox, entry>>

AbandonKeepingFields(error) ==      \* a bug: what was accepted so far is returned
    /\ entry' = [slave |-> Slave, error |-> error, fields |-> fields]
    /\ fields' = <<>> /\ data' = <<>>
    /\ phase' = "idle"
    /\ NextTurn
    /\ UNCHANGED <<plugged, step, since, coming, inbox>>

(* An exception ends the slave's poll and clears what was accepted before it. *)
Abandon(error) ==
    /\ entry' = [slave |-> Slave, error |-> error, fields |-> <<>>]
    /\ fields' = <<>> /\ data' = <<>>
    /\ phase' = "idle"
    /\ NextTurn
    /\ UNCHANGED <<plugged, step, since, coming, inbox>>

TimeOut == phase = "wait" /\ Nothing /\ Abandon("OS")

(* A call on the device fails.  While an answer is awaited it need not: poll  *)
(* may keep reporting a hang-up and read keep returning nothing, and getData  *)
(* then goes round for ever.                                                  *)
FailSend == phase = "send" /\ step <= Len(Plan[Slave]) /\ ~ plugged /\ Abandon("OS")
FailRead == phase \in {"wait", "read"} /\ ~ plugged /\ Abandon("OS")

RejectEarly ==          \* a bug: the answer is judged after the first read
    phase = "read" /\ ~ Whole(data) /\ Abandon("Modbus")

Reject == phase = "read" /\ Nothing /\ ~ Whole(data) /\ Abandon("Modbus")

CompleteInPlace ==      \* a bug: the same task runs again
    /\ phase = "send" /\ step > Len(Plan[Slave])
    /\ entry' = [slave |-> Slave, error |-> "none", fields |-> fields]
    /\ fields' = <<>>
    /\ since' = [since EXCEPT ![Slave] = PollTime[Slave]]
    /\ phase' = "idle"
    /\ UNCHANGED <<plugged, turn, step, coming, inbox, data>>

Complete ==
    /\ phase = "send" /\ step > Len(Plan[Slave])
    /\ entry' = [slave |-> Slave, error |-> "none", fields |-> fields]
    /\ fields' = <<>>
    /\ phase' = "idle"
    /\ NextTurn
    /\ UNCHANGED <<plugged, step, since, coming, inbox, data>>

Program == Open \/ StartTask \/ SkipTask \/ Send \/ Read \/ TimeOut
           \/ Accept \/ Reject \/ Complete \/ FailSend

LineNext == Program \/ FailRead \/ Arrive \/ Vanish \/ Elapse \/ Unplug

(* The manager's thread runs, time passes, and what is on the wire arrives or *)
(* is lost.                                                                   *)
LineSpec == /\ LineInit
            /\ [][LineNext]_lineVars
            /\ WF_lineVars(Program) /\ WF_lineVars(Elapse) /\ WF_lineVars(Arrive \/ Vanish)

-----------------------------------------------------------------------------
(* Properties *)

Pieces == [slave : Slaves, group : Groups, kind : {"data", "exception", "noise"},
           part : {1, 2}, current : BOOLEAN]

LineTypeOK ==
    /\ phase \in {"open", "idle", "send", "wait", "read"}
    /\ turn \in DOMAIN Tasks
    /\ step \in Nat \ {0}
    /\ since \in [Slaves -> Nat]
    /\ plugged \in BOOLEAN
    /\ coming \in Seq(Pieces) /\ inbox \in Seq(Pieces) /\ data \in Seq(Pieces)
    /\ fields \in Seq(Pieces)
    /\ entry \in [slave : Slaves, error : {"unset", "none", "OS", "Modbus"}, fields : Seq(Pieces)]

(* Nothing of an earlier exchange is left when a request is written, although *)
(* nothing discards the input at that point.                                  *)
QuietLine == phase \in {"idle", "send"} => inbox = <<>> /\ coming = <<>>

(* A task returns either an error alone or an answer to every request of its  *)
(* slave's plan, in the plan's order, each given to that very request: the    *)
(* adapter compares neither slave nor function code.                          *)
Attributed ==
    IF entry.error = "none"
      THEN /\ Len(entry.fields) = Len(Plan[entry.slave])
           /\ \A i \in DOMAIN entry.fields :
                /\ entry.fields[i].slave = entry.slave
                /\ entry.fields[i].group = Plan[entry.slave][i]
      ELSE entry.fields = <<>>

(* Answers are accepted only for the request that is outstanding.             *)
CurrentOnly == [][fields' # <<>> /\ fields' # fields
                  => fields'[Len(fields')].current
                     /\ fields'[Len(fields')].slave = Slave]_lineVars

(* A slave that is silent or answers badly keeps no other from being polled,  *)
(* as long as the device stays plugged in.                                    *)
PolledForEver == \A s \in Slaves : []<>((phase = "send" /\ Slave = s) \/ ~ plugged)
=============================================================================
