------------------------------ MODULE SerialPort ------------------------------
(* The settings of a serial line (communication/Connection.cpp).  They belong *)
(* to the device, not to the program: the constructor begins with what is     *)
(* there, changes it and stores it, and the next start of the program, maybe  *)
(* with another configuration, begins with what this one has left.  termios   *)
(* and cfmakeraw are external.                                                *)
EXTENDS Naturals

CONSTANT Lines      \* what a configuration may ask of the line

Rates == {0, 50, 75, 110, 134, 150, 200, 300, 600, 1200, 1800, 2400, 4800, 9600,
          19200, 38400, 57600, 115200, 230400}

Flags == {"CS8", "PARENB", "PARODD", "CSTOPB", "CRTSCTS", "CREAD", "CLOCAL",
          "IGNPAR", "INPCK", "IXON"}

ASSUME LinesAssumption ==
    \A l \in Lines : /\ l.parity \in {"none", "even", "odd"} /\ l.stopBits \in {1, 2}
                     /\ l.baudRate \in Nat

VARIABLES
    asked,      \* what the configuration asks for
    status,     \* whether the program has the line open
    flags,      \* the flags stored in the device ...
    speed,      \* ... and its speed
    before      \* history: the flags there were when it was opened

portVars == <<asked, status, flags, speed, before>>

(* Anyone may have used the line before.                                      *)
PortInit ==
    /\ asked \in Lines
    /\ status = "closed"
    /\ flags \in {{"CS8"}, {"IXON", "IGNPAR", "CRTSCTS"}, {"CS8", "PARENB", "PARODD"}}
    /\ speed = 9600
    /\ before = {}

MakeRaw(f) == (f \ {"IXON", "PARENB"}) \cup {"CS8"}

ParityKeepingOdd(f) ==      \* a bug: even parity after odd parity stays odd
    CASE asked.parity = "none" -> f \ {"PARENB"}
      [] asked.parity = "even" -> (f \ {"IGNPAR"}) \cup {"PARENB", "INPCK"}
      [] asked.parity = "odd" -> (f \ {"IGNPAR"}) \cup {"PARODD", "PARENB", "INPCK"}

WithParity(f) ==
    CASE asked.parity = "none" -> f \ {"PARENB"}
      [] asked.parity = "even" -> (f \ {"PARODD", "IGNPAR"}) \cup {"PARENB", "INPCK"}
      [] asked.parity = "odd" -> (f \ {"IGNPAR"}) \cup {"PARODD", "PARENB", "INPCK"}

(* setupIO: one stop bit is never asked for, only two are.                    *)
SetupIO(f) ==
    LET stop == IF asked.stopBits = 2 THEN {"CSTOPB"} ELSE {}
    IN  ((WithParity(MakeRaw(f)) \cup stop) \ {"CRTSCTS"}) \cup {"CREAD", "CLOCAL"}

OpenLine ==
    /\ status = "closed"
    /\ asked.baudRate \in Rates
    /\ flags' = SetupIO(flags) /\ speed' = asked.baudRate
    /\ status' = "open"
    /\ before' = flags
    /\ UNCHANGED asked

(* The speed is refused, or a call fails, before anything has been stored.    *)
OpenFails ==
    /\ status = "closed"
    /\ status' = "failed"
    /\ UNCHANGED <<asked, flags, speed, before>>

(* The program ends and is started again, maybe with other settings.          *)
Restart ==
    /\ status # "closed"
    /\ status' = "closed"
    /\ asked' \in Lines
    /\ UNCHANGED <<flags, speed, before>>

PortNext == OpenLine \/ OpenFails \/ Restart

PortSpec == PortInit /\ [][PortNext]_portVars

-----------------------------------------------------------------------------
(* An open line is as the configuration asks, whatever it was used for        *)
(* before, and no error of parity passes unseen - except that a second stop   *)
(* bit is never taken back: one stop bit is what it was before.               *)
LineAsAsked ==
    /\ flags \subseteq Flags
    /\ status = "open" =>
         /\ speed = asked.baudRate
         /\ {"CS8", "CREAD", "CLOCAL"} \subseteq flags /\ flags \cap {"CRTSCTS", "IXON"} = {}
         /\ asked.parity # "none" <=> "PARENB" \in flags
         /\ asked.parity # "none" => "INPCK" \in flags /\ "IGNPAR" \notin flags
         /\ asked.parity # "none" => (asked.parity = "odd" <=> "PARODD" \in flags)
         /\ "CSTOPB" \in flags <=> asked.stopBits = 2 \/ "CSTOPB" \in before
=============================================================================
