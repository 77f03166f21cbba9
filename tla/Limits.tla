-------------------------------- MODULE Limits --------------------------------
(* From readings to GET /process/limits: every manager (Manager.cpp) polls    *)
(* its devices, sends the readings to the output, has its limits processor    *)
(* work out the minimum and maximum of each field over a window of time, and  *)
(* sends those to a buffer of type Single, which all managers share and which *)
(* keeps one entry for a device.  A step is what a manager does between two   *)
(* visits to the output's mutex.                                              *)
EXTENDS Naturals

CONSTANTS
    Managers,
    Devices,        \* manager -> the devices it polls
    FieldNames,     \* device -> the names of its fields
    First,          \* device -> the field that is read first
    Watched,        \* devices the limits processors are configured for
    Values,         \* what a field may read
    Window,         \* storage_duration_minutes
    MaxTime         \* bound: the model's horizon

AllDevices == UNION {Devices[m] : m \in Managers}

(* The program checks that names differ within one configuration file only.   *)
ASSUME LimitsAssumption ==
    /\ \A m, n \in Managers : m # n => Devices[m] \cap Devices[n] = {}
    /\ \A d \in AllDevices : First[d] \in FieldNames[d]
    /\ Values \subseteq Nat /\ \E top \in Values : \A v \in Values : v <= top
    /\ Window \in Nat /\ MaxTime \in Nat

VARIABLES
    clock,      \* system_clock when the last field was read
    phase,      \* where each manager is in run()
    list,       \* manager -> the entries its tasks returned: device -> entry
    history,    \* device -> field -> what the processor keeps of its past
    outgoing,   \* manager -> the limits it has worked out
    stream,     \* every value sent to the output so far
    board       \* the Single buffer

limitsVars == <<clock, phase, list, history, outgoing, stream, board>>

Nothing == [d \in {} |-> d]

LimitsInit ==
    /\ clock = 0
    /\ phase = [m \in Managers |-> "poll"]
    /\ list = [m \in Managers |-> Nothing]
    /\ history = [d \in AllDevices |-> [f \in FieldNames[d] |-> {}]]
    /\ outgoing = [m \in Managers |-> {}]
    /\ stream = {}
    /\ board = {}

Goto(m, from, to) == phase[m] = from /\ phase' = [phase EXCEPT ![m] = to]

(* What a device returns: an error, or all of its fields, read one after      *)
(* another from time start to time end.                                       *)
Failure(d) == [error |-> TRUE, fields |-> Nothing]

Readings(d, start, end) ==
    {[error |-> FALSE,
      fields |-> [f \in FieldNames[d] |->
                    [time |-> IF f = First[d] THEN start ELSE end, value |-> v[f]]]] :
        v \in [FieldNames[d] -> Values]}

(* The tasks run: some devices are not due, the others return an entry each.  *)
(* The clock moves between two polls.                                         *)
Poll(m) ==
    /\ Goto(m, "poll", "send")
    /\ \E start \in (clock + 1)..MaxTime : \E end \in start..MaxTime :
         /\ clock' = end
         /\ \E due \in SUBSET Devices[m] :
            \E entry \in [due -> UNION {{Failure(d)} \cup Readings(d, start, end) : d \in due}] :
              /\ \A d \in due : entry[d] \in {Failure(d)} \cup Readings(d, start, end)
              /\ list' = [list EXCEPT ![m] = entry]
    /\ UNCHANGED <<history, outgoing, stream, board>>

-----------------------------------------------------------------------------
(* limits::Processor::process *)

ProcessUnwatched(l) == {d \in DOMAIN l : ~ l[d].error}      \* a bug: what is not configured too

(* The devices whose entries are processed, of the entries l.                 *)
Processed(l) == {d \in DOMAIN l : ~ l[d].error /\ d \in Watched}

KeptTooShort(past, now) ==      \* a bug: <= for <
    [f \in DOMAIN past |-> {tv \in past[f] : tv.time + Window > now}]

Kept(past, now) == [f \in DOMAIN past |-> {tv \in past[f] : tv.time + Window >= now}]

(* getLatestTime.                                                             *)
LatestTime(d, entry) == entry.fields[First[d]].time

(* The device's past once an entry has been processed: values that are too    *)
(* old by the time of the entry's first field go, the entry's own come.       *)
Updated(d, past, entry) ==
    LET kept == Kept(past, LatestTime(d, entry))
    IN  [f \in DOMAIN past |-> kept[f] \cup {entry.fields[f]}]

(* What the loop over the entries makes of the devices' pasts; the entries    *)
(* are of different devices.                                                  *)
Learnt(l) ==
    [d \in AllDevices |-> IF d \in Processed(l) THEN Updated(d, history[d], l[d]) ELSE history[d]]

MinMax(values) == [min |-> CHOOSE v \in values : \A w \in values : v <= w,
                   max |-> CHOOSE v \in values : \A w \in values : v >= w]

Extremes(past) == [f \in DOMAIN past |-> MinMax({tv.value : tv \in past[f]})]

(* generateOutput.  The time of the reading, which the code leaves out, only  *)
(* keeps entries apart.                                                       *)
LimitsOf(d, time, past) == [device |-> d, time |-> time, limits |-> Extremes(past)]

Output(l) == {LimitsOf(d, LatestTime(d, l[d]), Learnt(l)[d]) : d \in Processed(l)}

Process(m) ==
    /\ Goto(m, "process", "publish")
    /\ history' = Learnt(list[m])
    /\ outgoing' = [outgoing EXCEPT ![m] = Output(list[m])]
    /\ UNCHANGED <<clock, list, stream, board>>

-----------------------------------------------------------------------------

Names(entries) == {e.device : e \in entries}

PostedTwice(entries) == board \cup entries      \* a bug: a Stream buffer

(* Buffer::add on the Single buffer: entries about the same devices go first. *)
Posted(entries) == {e \in board : e.device \notin Names(entries)} \cup entries

SendLimitsFirst(m) ==       \* a bug: limits are sent before the readings
    /\ Goto(m, "send", "process")
    /\ board' = Posted(Output(list[m]))
    /\ UNCHANGED <<clock, list, history, outgoing, stream>>

(* The values in the entries l.                                               *)
ValuesIn(l) ==
    UNION {{[device |-> d, name |-> f, time |-> l[d].fields[f].time, value |-> l[d].fields[f].value] :
                f \in DOMAIN l[d].fields} : d \in DOMAIN l}

(* Buffer::add on the Stream buffer.                                          *)
SendReadings(m) ==
    /\ Goto(m, "send", "process")
    /\ stream' = stream \cup ValuesIn(list[m])
    /\ UNCHANGED <<clock, list, history, outgoing, board>>

SendLimits(m) ==
    /\ Goto(m, "publish", "poll")
    /\ board' = Posted(outgoing[m])
    /\ list' = [list EXCEPT ![m] = Nothing]
    /\ outgoing' = [outgoing EXCEPT ![m] = {}]
    /\ UNCHANGED <<clock, history, stream>>

LimitsNext == \E m \in Managers : \/ Poll(m) \/ SendReadings(m)
                                  \/ Process(m) \/ SendLimits(m)

LimitsSpec == LimitsInit /\ [][LimitsNext]_limitsVars

-----------------------------------------------------------------------------
(* Properties *)

Measured == [time : 1..MaxTime, value : Values]

(* Every variable keeps to its type.                                          *)
LimitsTypeOK ==
    /\ clock \in 0..MaxTime
    /\ phase \in [Managers -> {"poll", "send", "process", "publish"}]
    /\ \A m \in Managers : DOMAIN list[m] \cup Names(outgoing[m]) \subseteq Devices[m]
    /\ \A d \in AllDevices : history[d] \in [FieldNames[d] -> SUBSET Measured]
    /\ Names(board) \subseteq Watched

(* Two managers that publish in any order leave one entry for a device: the   *)
(* buffer, which has no size limit, cannot grow beyond the devices.           *)
OnePerDevice == \A e1, e2 \in board : e1.device = e2.device => e1 = e2

Sent(d, f) == {x \in stream : x.device = d /\ x.name = f}

ValuesSent(d, f) == {x.value : x \in Sent(d, f)}

(* The board only speaks of values that were sent as readings before.         *)
LimitsFollowReadings ==
    \A e \in board : \A f \in FieldNames[e.device] :
        {e.limits[f].min, e.limits[f].max} \subseteq ValuesSent(e.device, f)

(* When the readings sent so far were made.                                   *)
Times(d) == {x.time : x \in Sent(d, First[d])}

(* What has been read of a field within the window of the last reading.       *)
Recent(d, f) == {x.value : x \in {y \in Sent(d, f) : \A t \in Times(d) : y.time + Window >= t}}

(* What a manager that has nothing under way has on the board is exact:       *)
(* nothing within the window of the device's last reading was forgotten, by   *)
(* pruning at earlier readings, and nothing older counts.                     *)
BoardExact ==
    \A m \in Managers : \A d \in Devices[m] \cap Watched :
        phase[m] = "poll" /\ Times(d) # {} =>
            \E e \in board : /\ e.device = d
                             /\ e.limits = [f \in FieldNames[d] |-> MinMax(Recent(d, f))]
=============================================================================
