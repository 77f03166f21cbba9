----------------------------- MODULE MCProtocols -----------------------------
(* Protocols with the slaves of MCModbusCodec, the talkers of MCNmeaLine and  *)
(* three kinds of Wago rigs: up to three modules of one or two instances      *)
(* anywhere, one instance of many ranges and words, and modules that are      *)
(* polled at different times; serial lines with all settings.                 *)
EXTENDS Protocols, MCModbusCodec, MCNmeaLine

CONSTANTS MaxOffset, MaxTime

Narrow == [min |-> 0, max |-> 1]

Module(offset, size, pollTime) ==
    [offset |-> offset, pollTime |-> pollTime, instances |-> [i \in 1..size |-> Narrow]]

Placed == {Module(o, s, 0) : o \in 1..MaxOffset, s \in {1, 2}}

LayoutRigs ==
    [modules : UNION {[1..n -> Placed] : n \in 1..3}, words : {{0}}, time : {0}]

Bounds == {-32768, -10, 0, 3, 2047, 32767}
Ranges == {r \in [min : Bounds, max : Bounds] : r.min <= r.max}
Words16 == {16 * n + d : n \in {0, 1, 2, 682, 1023, 1024, 2046, 2047, 2048, 4095}, d \in {0, 1, 15}}

RangeRigs ==
    [modules : {<<[offset |-> 7, pollTime |-> 0, instances |-> <<r>>]>> : r \in Ranges},
     words : {Words16}, time : {0}]

TimedRigs ==
    [modules : {<<Module(1, 4, 2), Module(1, 2, 1), Module(9, 1, 1)>>}, words : {{0, 32752}},
     time : {MaxTime}]

AllLines == [baudRate : {9600, 38400}, parity : {"none", "even", "odd"}, stopBits : {1, 2}]

AllRigs == LayoutRigs \cup RangeRigs \cup TimedRigs
=============================================================================
