------------------------------ MODULE Protocols ------------------------------
(* One configuration file and the manager made from it: the protocol it names *)
(* (config/Config.cpp, Initialize.cpp) decides which of the three kinds of    *)
(* devices there are and which tasks poll or hear them.  The other two parts  *)
(* of a configuration are empty.  The settings of a serial line are looked at *)
(* with nobody talking on it, over restarts of the program.                   *)
EXTENDS ModbusCodec, NmeaLine, WagoModules, SerialPort

VARIABLE protocol

protocolVars == <<protocol, codecVars, nmeaVars, wagoVars, portVars>>

NoSlave ==
    /\ slave = [input |-> <<>>, output |-> <<>>] /\ stage = "none"
    /\ plan = <<>> /\ fields = <<>>

NoTalker ==
    /\ talk = <<>> /\ withChecksum = FALSE
    /\ at = Piece(1, "$") /\ damaged = {} /\ cut = {} /\ quiet = FALSE
    /\ plugged = TRUE /\ inbox = <<>> /\ raw = <<>> /\ phase = "await"
    /\ chunks = <<>> /\ entries = <<>> /\ given = <<>>

NoModule ==
    /\ rig = [modules |-> <<>>, words |-> {}, time |-> 0] /\ placing = "none"
    /\ offsets = <<>> /\ clock = 0 /\ lastRun = <<>> /\ turn = 1
    /\ asking = FALSE /\ reading = <<>> /\ entry = NoEntry

PlainLine == [baudRate |-> 9600, parity |-> "none", stopBits |-> 1]

LineIs(s) ==
    /\ asked = PlainLine /\ status = s
    /\ flags = {"CS8", "CREAD", "CLOCAL"} /\ speed = 9600 /\ before = {}

ProtocolsInit ==
    \/ protocol = "modbus" /\ CodecInit /\ NoTalker /\ NoModule /\ LineIs("open")
    \/ protocol = "nmea" /\ NmeaInit /\ NoSlave /\ NoModule /\ LineIs("open")
    \/ protocol = "nmea" /\ NoTalker /\ NoSlave /\ NoModule /\ PortInit
    \/ protocol = "wago" /\ WagoInit /\ NoSlave /\ NoTalker /\ LineIs("none")

PollSlaves ==
    /\ protocol = "modbus"
    /\ CodecNext
    /\ UNCHANGED <<protocol, nmeaVars, wagoVars, portVars>>

(* The listener has its line open.                                            *)
Hear(step) ==
    /\ protocol = "nmea" /\ status = "open"
    /\ step
    /\ UNCHANGED <<protocol, codecVars, wagoVars, portVars>>

PollModules ==
    /\ protocol = "wago"
    /\ WagoNext
    /\ UNCHANGED <<protocol, codecVars, nmeaVars, portVars>>

(* A device that is unplugged is not opened again; a talker with sentences is *)
(* listened to until the end.                                                 *)
OpenAgain ==
    /\ protocol = "nmea" /\ talk = <<>>
    /\ plugged /\ phase = "await"
    /\ PortNext
    /\ UNCHANGED <<protocol, codecVars, nmeaVars, wagoVars>>

(* A configuration that is refused is not polled; ModbusCodec follows one     *)
(* poll only.                                                                 *)
Settled ==
    /\ \/ protocol = "modbus" /\ stage \in {"refused", "read"}
       \/ protocol = "wago" /\ placing = "refused"
    /\ UNCHANGED protocolVars

ProtocolsNext == PollSlaves \/ Hear(NmeaNext) \/ OpenAgain \/ PollModules \/ Settled

(* Fairness as in NmeaLine; nothing waits for the others.                     *)
ProtocolsSpec == /\ ProtocolsInit /\ [][ProtocolsNext]_protocolVars
                 /\ WF_protocolVars(Hear(Listener))
                 /\ WF_protocolVars(Hear(Arrive \/ Pause))
=============================================================================
