---------------------------- MODULE Program_proof ----------------------------
(* Proofs about Program, for any number of files, whatever they hold.         *)
EXTENDS Program, TLAPS

-----------------------------------------------------------------------------
(* Files: from_json and the managers' constructors together accept what the   *)
(* manual calls sound, but for Disabled.                                      *)

(* Comparing the neighbours after sorting, or every device with those before  *)
(* it, comes to the same.                                                     *)
LEMMA TwiceIsPair ==
    ASSUME NEW n \in Nat, NEW values, DOMAIN values = 1..n
    PROVE  Twice(values) <=> \E i \in 1..n : \E j \in 1..(i - 1) : values[i] = values[j]
<1>1. Twice(values) <=> \E i, j \in 1..n : i # j /\ values[i] = values[j]
  BY DEF Twice, IsInjective
<1>2. \A i, j \in 1..n : i # j => j \in 1..(i - 1) \/ i \in 1..(j - 1)
  OBVIOUS
<1>3. \A i \in 1..n : \A j \in 1..(i - 1) : j \in 1..n /\ i # j
  OBVIOUS
<1>. QED  BY <1>1, <1>2, <1>3

LEMMA DistinctDevices ==
    ASSUME NEW f, IsFile(f)
    PROVE  /\ DuplicateIDs(f) <=>
                \E i \in DOMAIN f.devices : \E j \in 1..(i - 1) : f.devices[i].id = f.devices[j].id
           /\ DuplicateNames(f) <=>
                \E i \in DOMAIN f.devices : \E j \in 1..(i - 1) : f.devices[i].name = f.devices[j].name
           /\ DuplicateParts(f) <=>
                \E i \in DOMAIN f.devices :
                \E k \in DOMAIN f.devices[i].parts : \E l \in 1..(k - 1) :
                    f.devices[i].parts[k].name = f.devices[i].parts[l].name
<1>1. PICK n \in Nat : DOMAIN f.devices = 1..n
  BY DEF IsFile
<1>2. DuplicateIDs(f) <=>
        \E i \in DOMAIN f.devices : \E j \in 1..(i - 1) : f.devices[i].id = f.devices[j].id
  <2>. DEFINE ids == [i \in DOMAIN f.devices |-> f.devices[i].id]
  <2>1. \A i \in 1..n : \A j \in 1..(i - 1) : j \in 1..n
    OBVIOUS
  <2>2. DOMAIN ids = 1..n /\ \A i \in 1..n : ids[i] = f.devices[i].id
    BY <1>1
  <2>. HIDE DEF ids
  <2>3. Twice(ids) <=> \E i \in 1..n : \E j \in 1..(i - 1) : ids[i] = ids[j]
    BY <2>2, TwiceIsPair
  <2>. QED  BY <1>1, <2>1, <2>2, <2>3 DEF DuplicateIDs, ids
<1>3. DuplicateNames(f) <=>
        \E i \in DOMAIN f.devices : \E j \in 1..(i - 1) : f.devices[i].name = f.devices[j].name
  <2>. DEFINE names == [i \in DOMAIN f.devices |-> f.devices[i].name]
  <2>1. \A i \in 1..n : \A j \in 1..(i - 1) : j \in 1..n
    OBVIOUS
  <2>2. DOMAIN names = 1..n /\ \A i \in 1..n : names[i] = f.devices[i].name
    BY <1>1
  <2>. HIDE DEF names
  <2>3. Twice(names) <=> \E i \in 1..n : \E j \in 1..(i - 1) : names[i] = names[j]
    BY <2>2, TwiceIsPair
  <2>. QED  BY <1>1, <2>1, <2>2, <2>3 DEF DuplicateNames, names
<1>4. ASSUME NEW i \in DOMAIN f.devices
      PROVE  Twice([k \in DOMAIN f.devices[i].parts |-> f.devices[i].parts[k].name]) <=>
               \E k \in DOMAIN f.devices[i].parts : \E l \in 1..(k - 1) :
                   f.devices[i].parts[k].name = f.devices[i].parts[l].name
  <2>. DEFINE p == f.devices[i].parts
              names == [k \in DOMAIN p |-> p[k].name]
  <2>0. PICK m \in Nat : DOMAIN p = 1..m
    <3>1. f.devices[i] \in ToSet(f.devices)
      BY DEF ToSet
    <3>2. p \in Seq(ToSet(p))
      BY <3>1 DEF IsFile
    <3>. QED  BY <3>2
  <2>1. \A k \in 1..m : \A l \in 1..(k - 1) : l \in 1..m
    OBVIOUS
  <2>2. DOMAIN names = 1..m /\ \A k \in 1..m : names[k] = p[k].name
    BY <2>0
  <2>. HIDE DEF names
  <2>3. Twice(names) <=> \E k \in 1..m : \E l \in 1..(k - 1) : names[k] = names[l]
    BY <2>2, TwiceIsPair
  <2>. QED  BY <2>0, <2>1, <2>2, <2>3 DEF names
<1>5. DuplicateParts(f) <=>
        \E i \in DOMAIN f.devices :
            Twice([k \in DOMAIN f.devices[i].parts |-> f.devices[i].parts[k].name])
  BY DEF DuplicateParts, ToSet
<1>. QED  BY <1>2, <1>3, <1>4, <1>5

(* A register is accepted if its type and order are right.                    *)
LEMMA RegisterRight == ASSUME NEW r PROVE ParseRegister(r) <=> RightRegister(r)
<1>1. CASE r.type = "FLOAT"
  <2>1. Len(r.order) \in {4, 8} <=> Len(r.order) \in {2, 4, 8} /\ Len(r.order) >= 4
    <3>1. \A n \in {2, 4, 8} : n \in {4, 8} <=> n >= 4
      OBVIOUS
    <3>. QED  BY <3>1, Zenon
  <2>2. r.type \in Wild /\ r.type \notin Types64 \cup Types32 \cup Types16
    BY <1>1 DEF Wild, Types64, Types32, Types16
  <2>. QED  BY <1>1, <2>1, <2>2, Zenon DEF ParseRegister, WildType, RightRegister
<1>2. CASE r.type \in {"INT", "UINT"}
  BY <1>2 DEF ParseRegister, WildType, Wild, RightRegister, Types64, Types32, Types16
<1>3. CASE r.type \notin Wild
  <2>1. r.type \in Standard <=> r.type \in Types64 \cup Types32 \cup Types16
    BY DEF Standard, Types64, Types32, Types16
  <2>. QED  BY <1>3, <2>1 DEF ParseRegister, RightRegister, Wild
<1>. QED  BY <1>1, <1>2, <1>3 DEF Wild

(* A device that is read as its protocol asks is a right one.                 *)
LEMMA DeviceRight ==
    ASSUME NEW f, NEW d
    PROVE  /\ f.protocol = "modbus" => (ParseSlave(d) <=> RightDevice(f, d))
           /\ f.protocol = "nmea" => (ParseSentence(d) <=> RightDevice(f, d))
           /\ f.protocol = "wago" => (ParseModule(d) <=> RightDevice(f, d))
<1>1. CASE f.protocol = "modbus"
  BY <1>1, RegisterRight DEF ParseSlave, RightDevice, ToSet
<1>2. CASE f.protocol = "nmea"
  BY <1>2 DEF ParseSentence, ParseField, RightDevice, ToSet
<1>3. CASE f.protocol = "wago"
  <2>1. Len(d.parts) \in {1, 2, 4, 8} => d.parts # <<>>
    <3>1. Len(<<>>) = 0 /\ \A n : n = 0 => n \notin {1, 2, 4, 8}
      BY SMT
    <3>2. d.parts = <<>> => Len(d.parts) = Len(<<>>)
      BY Zenon
    <3>. QED  BY <3>1, <3>2, Zenon
  <2>. QED  BY <1>3, <2>1 DEF ParseModule, ParseInstance, RightDevice, ToSet
<1>. QED  BY <1>1, <1>2, <1>3

LEMMA DevicesApart ==
    ASSUME NEW f, IsFile(f)
    PROVE  /\ f.protocol = "modbus" => (DevicesDiffer(f) <=> ~ DuplicateIDs(f) /\ ~ DuplicateNames(f))
           /\ f.protocol = "nmea" => (DevicesDiffer(f) <=> ~ DuplicateIDs(f))
           /\ f.protocol = "wago" => (DevicesDiffer(f) <=> ~ DuplicateNames(f))
           /\ (\A i \in DOMAIN f.devices : PartsDiffer(f.devices[i])) <=> ~ DuplicateParts(f)
BY DistinctDevices DEF DevicesDiffer, PartsDiffer

(* The limits of a file are right if each is, and if the devices of all of    *)
(* them together are the file's own.                                          *)
LEMMA LimitsRight ==
    ASSUME NEW f, f.protocol # "nmea"
    PROVE  (\A p \in f.processors : \A l \in p.limits : RightLimits(f, l)) <=>
               ParseProcessors(f) /\ WatchesOwn(f)
<1>1. Named(f) = DevicesOf(f)
  BY DEF Named, DevicesOf, ToSet
<1>2. \A n : n \in Watched(f) <=> \E p \in f.processors : \E l \in p.limits : n \in l.devices
  BY DEF Watched
<1>. QED  BY <1>1, <1>2 DEF ParseProcessors, ParseLimits, WatchesOwn, RightLimits

LEMMA PortRight ==
    ASSUME NEW f, f.protocol \in Protocol
    PROVE  RightPort(f) <=> /\ HasPort(f) /\ HasValue(f.serial) # HasValue(f.address)
                            /\ \A s \in f.serial : ParseSerial(s)
                            /\ \A a \in f.address : ParseAddress(a)
<1>1. 1..2 = {1, 2}
  OBVIOUS
<1>2. (\A s \in f.serial : ParseSerial(s)) <=> \A s \in f.serial : RightLine(s)
  BY <1>1 DEF ParseSerial, RightLine
<1>3. (\A a \in f.address : ParseAddress(a)) <=> \A a \in f.address : RightAddress(a)
  BY DEF ParseAddress, RightAddress
<1>. QED  BY <1>2, <1>3 DEF RightPort, HasPort, HasValue, Protocol

(* What the program runs with is sound.                                       *)
LEMMA ParsedIsSound ==
    ASSUME NEW f, IsFile(f), f.readable, Parses(f), HasPort(f)
    PROVE  Sound(f) /\ Watched(f) \subseteq Named(f)
<1>0. \A i \in DOMAIN f.devices : f.devices[i] \in ToSet(f.devices)
  BY DEF ToSet
<1>1. RightPort(f)
  BY PortRight DEF Parses, Protocol
<1>2. CASE f.protocol = "modbus" /\ ParseModbus(f)
  BY <1>0, <1>1, <1>2, DeviceRight, DevicesApart, LimitsRight DEF ParseModbus, Sound, WatchesOwn
<1>3. CASE f.protocol = "nmea" /\ ParseNMEA(f)
  <2>1. f.processors = {} /\ Watched(f) = {}
    BY <1>3 DEF ParseNMEA, HasLimits, HasValue, Watched
  <2>. QED  BY <1>0, <1>1, <1>3, <2>1, DeviceRight, DevicesApart DEF ParseNMEA, Sound
<1>4. CASE f.protocol = "wago" /\ ParseWago(f)
  BY <1>0, <1>1, <1>4, DeviceRight, DevicesApart, LimitsRight DEF ParseWago, Sound, WatchesOwn
<1>. QED  BY <1>2, <1>3, <1>4 DEF Parses

(* What is sound passes every check, but for the one kind that Disabled       *)
(* names.                                                                     *)
LEMMA SoundIsParsed ==
    ASSUME NEW f, IsFile(f), Sound(f)
    PROVE  f.readable /\ HasPort(f) /\ (Parses(f) \/ Disabled(f))
<1>0. \A d \in ToSet(f.devices) : RightDevice(f, d)
  BY DEF ToSet, Sound
<1>1. f.protocol \in Protocol /\ f.readable
  BY DEF Sound, RightPort, Protocol
<1>2. /\ HasPort(f) /\ HasValue(f.serial) # HasValue(f.address)
      /\ \A s \in f.serial : ParseSerial(s)
      /\ \A a \in f.address : ParseAddress(a)
  BY <1>1, PortRight DEF Sound
<1>3. CASE f.protocol = "modbus"
  BY <1>0, <1>2, <1>3, DeviceRight, DevicesApart, LimitsRight DEF Parses, ParseModbus, Sound
<1>4. CASE f.protocol = "nmea"
  BY <1>0, <1>2, <1>4, DeviceRight, DevicesApart
     DEF Parses, ParseNMEA, ParseProcessors, HasLimits, HasValue, Sound, Disabled
<1>5. CASE f.protocol = "wago"
  BY <1>0, <1>2, <1>5, DeviceRight, DevicesApart, LimitsRight DEF Parses, ParseWago, Sound
<1>. QED  BY <1>1, <1>2, <1>3, <1>4, <1>5 DEF Protocol

-----------------------------------------------------------------------------
(* The life of the program *)

Making == {"arguments", "files", "configs", "output", "managers"}
Unwinding == {"unwind", "unwinding"}
Over == {"exit", "exiting", "exited"}

NotMade == fault \in {"config", "port"}
NoThread == \A m \in Managers : thread[m] = "absent"
Caught(m) == thread[m] \in {"caught", "stopped"}

(* Threads there are only between start and the joins, and only if everything *)
(* could be made.                                                             *)
PhaseInv ==
    /\ phase \in Making => fault = "none"
    /\ phase \in Unwinding => NotMade
    /\ phase \in Making \cup Unwinding => result = 0
    /\ phase \notin Making \cup Unwinding /\ NotMade => result = 1
    /\ phase \in Making \cup Unwinding \cup {"start"} => NoThread
    /\ NotMade => NoThread /\ phase # "starting"
    /\ phase \in Over => \A m \in Managers : thread[m] \in {"absent", "done"}

(* A manager's failure is on its way to result until it has got there.        *)
FaultInv ==
    /\ result = 1 => fault # "none"
    /\ fault = "run" => result = 1 \/ \E m \in Managers : Caught(m)
    /\ \A m \in Managers : Caught(m) => fault = "run"

Given == directory \in Directories /\ Len(directory) \in Nat

LifeInv == Given /\ ProgTypeOK /\ PhaseInv /\ FaultInv

LEMMA GivenFiles ==
    ASSUME directory \in Directories
    PROVE  /\ Len(directory) \in Nat /\ Len(directory) <= MaxFiles
           /\ DOMAIN directory = 1..Len(directory)
           /\ \A i \in DOMAIN directory : IsFile(directory[i])
BY ProgramAssumption

LEMMA LifeInit == ProgInit => LifeInv
<1> SUFFICES ASSUME ProgInit PROVE LifeInv
  OBVIOUS
<1>1. Given /\ Len(directory) <= MaxFiles
  BY GivenFiles DEF ProgInit, Given
<1>2. ProgTypeOK
  BY <1>1, RenderingAssumption DEF ProgInit, ProgTypeOK, RenderInit, Given
<1>3. PhaseInv /\ FaultInv
  BY DEF ProgInit, PhaseInv, FaultInv, Making, Unwinding, Over, NotMade, NoThread, Caught
<1>. QED  BY <1>1, <1>2, <1>3 DEF LifeInv

USE DEF Making, Unwinding, Over, NotMade, NoThread, Caught

(* Steps of main that leave the threads alone.                                *)
LEMMA MainAlone ==
    ASSUME LifeInv, Main, UNCHANGED thread
    PROVE  LifeInv'
<1>0. Given /\ ProgTypeOK /\ PhaseInv /\ FaultInv
  BY DEF LifeInv
<1>1. CASE ParseArguments \/ LoadFiles \/ ParseConfigs
  BY <1>0, <1>1 DEF LifeInv, Given, ProgTypeOK, PhaseInv, FaultInv, ParseArguments, LoadFiles,
       ParseConfigs, GiveUp, GoOn, givenVars, renderVars
<1>2. CASE MakeOutput
  BY <1>0, <1>2 DEF LifeInv, Given, ProgTypeOK, PhaseInv, FaultInv, MakeOutput, MakeBoards,
       ProcessorDescriptions, givenVars, renderVars
<1>3. CASE MakeManager
  BY <1>0, <1>3 DEF LifeInv, Given, ProgTypeOK, PhaseInv, FaultInv, MakeManager, givenVars, renderVars
<1>4. CASE ManagerFails
  BY <1>0, <1>4 DEF LifeInv, Given, ProgTypeOK, PhaseInv, FaultInv, ManagerFails, givenVars, renderVars
<1>5. CASE ManagersDone
  BY <1>0, <1>5 DEF LifeInv, Given, ProgTypeOK, PhaseInv, FaultInv, ManagersDone, givenVars, renderVars
<1>6. CASE Start \/ StartDone
  <2>1. /\ UNCHANGED <<givenVars, made, boards, result, keepRunning, server, line, renderVars, fault>>
        /\ phase \in {"start", "starting"} /\ phase' \in {"starting", "join"}
        /\ phase' = "starting" => result = 0
    BY <1>6 DEF Start, StartDone
  <2>2. Given' /\ ProgTypeOK'
    BY <1>0, <2>1 DEF Given, ProgTypeOK, givenVars, renderVars
  <2>3. PhaseInv'
    BY <1>0, <2>1 DEF PhaseInv
  <2>4. FaultInv'
    BY <1>0, <2>1 DEF FaultInv
  <2>. QED  BY <2>2, <2>3, <2>4 DEF LifeInv
<1>7. CASE JoinThreads
  BY <1>0, <1>7 DEF LifeInv, Given, ProgTypeOK, PhaseInv, FaultInv, JoinThreads, givenVars, renderVars
<1>8. CASE StopServer
  BY <1>0, <1>8 DEF LifeInv, Given, ProgTypeOK, PhaseInv, FaultInv, StopServer, givenVars, renderVars
<1>9. CASE ServerJoined
  BY <1>0, <1>9 DEF LifeInv, Given, ProgTypeOK, PhaseInv, FaultInv, ServerJoined, givenVars, renderVars
<1>10. ASSUME NEW m \in Running, StartThread(m) PROVE FALSE
  <2>1. m \in Managers
    BY <1>0, <1>10, RenderingAssumption DEF Running, Managers, Given, ProgTypeOK
  <2>. QED  BY <1>0, <1>10, <2>1 DEF StartThread, ProgTypeOK
<1>. QED  BY <1>1, <1>2, <1>3, <1>4, <1>5, <1>6, <1>7, <1>8, <1>9, <1>10 DEF Main

LEMMA MainStarts ==
    ASSUME LifeInv, NEW m \in Running, StartThread(m)
    PROVE  LifeInv' /\ m \in Managers
<1>0. Given /\ ProgTypeOK /\ PhaseInv /\ FaultInv
  BY DEF LifeInv
<1>1. m \in Managers
  BY <1>0, RenderingAssumption DEF Running, Managers, Given, ProgTypeOK
<1>2. Given' /\ ProgTypeOK'
  BY <1>0, <1>1 DEF Given, ProgTypeOK, StartThread, givenVars, mainVars, renderVars
<1>3. PhaseInv' /\ FaultInv'
  BY <1>0, <1>1 DEF ProgTypeOK, PhaseInv, FaultInv, StartThread, mainVars
<1>. QED  BY <1>1, <1>2, <1>3 DEF LifeInv

(* The steps of the managers' threads.                                        *)
LEMMA ThreadLives ==
    ASSUME LifeInv, NEW m \in Managers, Thread(m)
    PROVE  LifeInv'
<1>0. Given /\ ProgTypeOK /\ PhaseInv /\ FaultInv
  BY DEF LifeInv
<1>1. Given'
  BY <1>0 DEF Given, Thread, Check, Run, Throw, Store, Convert, Format, ErrorsOnly, Write,
       Process, StopAll, SetResult, givenVars
<1>2. CASE Check(m) \/ Run(m)
  <2>1. /\ UNCHANGED <<givenVars, mainVars, keepRunning, server, renderVars, fault>>
        /\ line' = line \/ line' = [line EXCEPT ![m] = "ok"]
        /\ thread[m] \in {"check", "run"}
        /\ \E to \in {"run", "send", "process", "done"} : thread' = [thread EXCEPT ![m] = to]
    BY <1>2 DEF Check, Run, Goto
  <2>2. ProgTypeOK'
    BY <1>0, <2>1 DEF ProgTypeOK, givenVars, mainVars, renderVars
  <2>3. PhaseInv' /\ FaultInv'
    BY <1>0, <2>1 DEF ProgTypeOK, PhaseInv, FaultInv, mainVars
  <2>. QED  BY <1>1, <2>2, <2>3 DEF LifeInv
<1>3. CASE Throw(m)
  BY <1>0, <1>1, <1>3 DEF LifeInv, ProgTypeOK, PhaseInv, FaultInv, Throw, Goto, givenVars,
       mainVars, renderVars
<1>4. CASE Store(m) \/ ErrorsOnly(m)
  BY <1>0, <1>1, <1>4 DEF LifeInv, ProgTypeOK, PhaseInv, FaultInv, Store, ErrorsOnly, Goto, givenVars,
       mainVars, renderVars
<1>5. CASE Convert(m) \/ Format(m)
  <2>1. /\ UNCHANGED <<givenVars, mainVars, keepRunning, server, line, fault>>
        /\ \/ calendar' = m /\ page' = page
           \/ calendar' = calendar /\ page' = [page EXCEPT ![m] = calendar]
        /\ thread[m] \in {"send", "format"}
        /\ \E to \in {"format", "print"} : thread' = [thread EXCEPT ![m] = to]
    BY <1>5 DEF Convert, Format, LocalTime, FormatTime, Goto
  <2>2. ProgTypeOK'
    BY <1>0, <2>1 DEF ProgTypeOK, givenVars, mainVars
  <2>3. PhaseInv' /\ FaultInv'
    BY <1>0, <2>1 DEF ProgTypeOK, PhaseInv, FaultInv, mainVars
  <2>. QED  BY <1>1, <2>2, <2>3 DEF LifeInv
<1>6. CASE Write(m)
  BY <1>0, <1>1, <1>6 DEF LifeInv, ProgTypeOK, PhaseInv, FaultInv, Write, PutOut, Goto, givenVars,
       mainVars
<1>7. CASE Process(m)
  BY <1>0, <1>1, <1>7 DEF LifeInv, ProgTypeOK, PhaseInv, FaultInv, Process, Goto, givenVars,
       mainVars, renderVars
<1>8. CASE StopAll(m)
  BY <1>0, <1>1, <1>8 DEF LifeInv, ProgTypeOK, PhaseInv, FaultInv, StopAll, Goto, givenVars,
       mainVars, renderVars
<1>9. CASE SetResult(m)
  BY <1>0, <1>1, <1>9 DEF LifeInv, ProgTypeOK, PhaseInv, FaultInv, SetResult, Goto, givenVars,
       renderVars
<1>. QED  BY <1>2, <1>3, <1>4, <1>5, <1>6, <1>7, <1>8, <1>9 DEF Thread

LEMMA LifeStep == LifeInv /\ [ProgNext]_progVars => LifeInv'
<1> SUFFICES ASSUME LifeInv, [ProgNext]_progVars PROVE LifeInv'
  OBVIOUS
<1>0. Given /\ ProgTypeOK /\ PhaseInv /\ FaultInv
  BY DEF LifeInv
<1>1. CASE Main
  <2>1. UNCHANGED thread \/ \E m \in Running : StartThread(m)
    BY <1>1 DEF Main, ParseArguments, LoadFiles, ParseConfigs, MakeOutput, MakeManager, ManagerFails,
         ManagersDone, Start, StartDone, JoinThreads, StopServer, ServerJoined
  <2>. QED  BY <1>1, <2>1, MainAlone, MainStarts
<1>2. CASE Listen \/ ServerEnds \/ Interrupt
  <2>1. /\ UNCHANGED <<givenVars, mainVars, thread, line, renderVars, fault>>
        /\ keepRunning' = keepRunning \/ keepRunning' = FALSE
        /\ server' = server \/ server' = "running" \/ server' = "ended"
    BY <1>2 DEF Listen, ServerEnds, Interrupt
  <2>2. keepRunning' \in BOOLEAN
    BY <1>0, <2>1 DEF ProgTypeOK
  <2>3. Given' /\ ProgTypeOK'
    BY <1>0, <2>1, <2>2 DEF Given, ProgTypeOK, givenVars, mainVars, renderVars
  <2>4. PhaseInv' /\ FaultInv'
    BY <1>0, <2>1 DEF PhaseInv, FaultInv, mainVars
  <2>. QED  BY <2>3, <2>4 DEF LifeInv
<1>3. ASSUME NEW m \in Managers, Hang(m) \/ Calm(m) PROVE LifeInv'
  <2>1. /\ UNCHANGED <<givenVars, mainVars, keepRunning, server, thread, renderVars, fault>>
        /\ \E how \in {"endless", "calm"} : line' = [line EXCEPT ![m] = how]
    BY <1>3 DEF Hang, Calm
  <2>2. Given' /\ ProgTypeOK'
    BY <1>0, <2>1 DEF Given, ProgTypeOK, givenVars, mainVars, renderVars
  <2>3. PhaseInv' /\ FaultInv'
    BY <1>0, <2>1 DEF PhaseInv, FaultInv, mainVars
  <2>. QED  BY <2>2, <2>3 DEF LifeInv
<1>4. ASSUME NEW m \in Managers, Thread(m) PROVE LifeInv'
  BY <1>4, ThreadLives
<1>5. CASE UNCHANGED progVars
  BY <1>0, <1>5 DEF LifeInv, Given, ProgTypeOK, PhaseInv, FaultInv, progVars,
       givenVars, mainVars, renderVars
<1>. QED  BY <1>1, <1>2, <1>3, <1>4, <1>5 DEF ProgNext, Exited

(* The invariant of the program's life: where main is says which threads and  *)
(* which output there are, and its result which failures there were.          *)
THEOREM LifeCorrect == ProgSpec => []LifeInv
<1>. QED  BY LifeInit, LifeStep, PTL DEF ProgSpec

(* Of the life of the program, whatever the directory holds: the types.       *)
THEOREM ProgTypes == ProgSpec => []ProgTypeOK
<1>1. LifeInv => ProgTypeOK
  BY DEF LifeInv
<1>. QED  BY <1>1, LifeCorrect, PTL

(* The output outlives what is sent to it: main leaves its joins, and         *)
(* destroys the output, only when every thread there ever was has ended.      *)
THEOREM OutputSafe == ProgSpec => []OutputOutlivesManagers
<1>1. LifeInv => OutputOutlivesManagers
  BY DEF LifeInv, PhaseInv, OutputOutlivesManagers
<1>. QED  BY <1>1, LifeCorrect, PTL

(* The program returns 1 after a failure, of main's or of any thread's, and   *)
(* after no other.                                                            *)
THEOREM ReturnsFailure == ProgSpec => []ExitCode
<1>1. ASSUME LifeInv, phase = "exited" PROVE result = 1 <=> Failed
  <2>1. PhaseInv /\ FaultInv /\ result \in {0, 1} /\ fault \in {"none", "config", "port", "run"}
    BY <1>1 DEF LifeInv, ProgTypeOK
  <2>2. CASE NotMade
    BY <1>1, <2>1, <2>2 DEF PhaseInv, Failed
  <2>3. CASE fault = "run"
    BY <1>1, <2>1, <2>3 DEF PhaseInv, FaultInv, Failed
  <2>4. CASE fault = "none"
    BY <2>1, <2>4 DEF FaultInv, Failed
  <2>. QED  BY <2>1, <2>2, <2>3, <2>4
<1>2. LifeInv => ExitCode
  BY <1>1 DEF ExitCode
<1>. QED  BY <1>2, LifeCorrect, PTL

-----------------------------------------------------------------------------
(* What the program has found out of its files, by how far it has come        *)

Checked == {"arguments"}
Loaded == Checked \cup {"files"}
Parsed == Loaded \cup {"configs"}
Prepared == Parsed \cup {"output"}

AllSound == Configured /\ \A i \in DOMAIN directory : Sound(directory[i])

FilesInv ==
    /\ ~ NotMade /\ phase \notin Checked => arguments # "wrong"
    /\ ~ NotMade /\ phase \notin Loaded =>
          directory # <<>> /\ \A i \in DOMAIN directory : directory[i].readable
    /\ ~ NotMade /\ phase \notin Parsed => \A i \in DOMAIN directory : Parses(directory[i])
    /\ ~ NotMade /\ phase \notin Prepared /\ arguments = "server" =>
          boards = ProcessorDescriptions(directory)
    /\ \A i \in 1..made : HasPort(directory[i])
    /\ \A m \in Managers : thread[m] # "absent" => m \in Running
    /\ ~ NotMade /\ phase \notin Making => made = Len(directory)
    /\ fault = "config" => ~ AllSound \/ \E i \in DOMAIN directory : Disabled(directory[i])

LEMMA FilesInit == ProgInit => FilesInv
<1> SUFFICES ASSUME ProgInit PROVE FilesInv
  OBVIOUS
<1>1. made = 0 /\ 1..made = {} /\ phase = "arguments" /\ fault = "none" /\ NoThread
  BY DEF ProgInit
<1>. QED  BY <1>1 DEF FilesInv, Checked, Loaded, Parsed, Prepared

(* Whatever the other threads do, they leave what FilesInv is about.          *)
LEMMA FilesKept ==
    ASSUME FilesInv, UNCHANGED <<givenVars, made, boards>>,
           phase' = phase \/ (phase \notin Making /\ phase' \notin Making),
           NotMade' <=> NotMade, fault' = "config" <=> fault = "config",
           \A m \in Managers : thread[m] = "absent" => thread'[m] = "absent"
    PROVE  FilesInv'
BY DEF FilesInv, givenVars, Checked, Loaded, Parsed, Prepared, AllSound, Configured, Running

LEMMA FilesStep == LifeInv /\ FilesInv /\ [ProgNext]_progVars => FilesInv'
<1> SUFFICES ASSUME LifeInv, FilesInv, [ProgNext]_progVars PROVE FilesInv'
  OBVIOUS
<1>0. Given /\ ProgTypeOK /\ PhaseInv
  BY DEF LifeInv
<1>0a. /\ DOMAIN directory = 1..Len(directory) /\ \A i \in DOMAIN directory : IsFile(directory[i])
       /\ made \in 0..Len(directory) /\ Len(directory) \in Nat
       /\ DOMAIN thread = Managers
  BY <1>0, GivenFiles DEF Given, ProgTypeOK
<1>1. CASE ParseArguments
  <2>1. UNCHANGED <<givenVars, made, boards, thread>> /\ NoThread
    BY <1>0, <1>1 DEF ParseArguments, GiveUp, GoOn, PhaseInv
  <2>2. CASE arguments # "wrong"
    BY <1>1, <2>1, <2>2 DEF ParseArguments, GiveUp, GoOn, FilesInv, givenVars, Checked, Loaded,
         Parsed, Prepared, AllSound, Configured, Running
  <2>3. CASE arguments = "wrong"
    BY <1>1, <2>1, <2>3
          DEF ParseArguments, GiveUp, GoOn, FilesInv, givenVars, AllSound, Configured, Running
  <2>. QED  BY <2>2, <2>3
<1>2. CASE LoadFiles
  <2>. DEFINE loaded == directory # <<>> /\ \A i \in DOMAIN directory : directory[i].readable
  <2>1. UNCHANGED <<givenVars, made, boards, thread>> /\ NoThread
    BY <1>0, <1>2 DEF LoadFiles, GiveUp, GoOn, PhaseInv
  <2>2. CASE loaded
    <3>1. phase = "files" /\ phase' = "configs" /\ fault' = fault
      BY <1>2, <2>2 DEF LoadFiles, GiveUp, GoOn
    <3>. QED  BY <2>1, <2>2, <3>1
          DEF FilesInv, givenVars, Checked, Loaded, Parsed, Prepared, AllSound, Configured, Running
  <2>3. CASE ~ loaded
    <3>1. fault' = "config"
      BY <1>2, <2>3 DEF LoadFiles, GiveUp, GoOn
    <3>2. ~ AllSound
      BY <1>0a, <2>3, SoundIsParsed DEF AllSound, Configured
    <3>. QED  BY <2>1, <3>1, <3>2 DEF FilesInv, givenVars, AllSound, Configured, Running
  <2>. QED  BY <2>2, <2>3
<1>3. CASE ParseConfigs
  <2>. DEFINE accepted == \A i \in DOMAIN directory : Parses(directory[i])
  <2>1. UNCHANGED <<givenVars, made, boards, thread>> /\ NoThread
    BY <1>0, <1>3 DEF ParseConfigs, GiveUp, GoOn, PhaseInv
  <2>2. CASE accepted
    <3>1. phase = "configs" /\ phase' = "output" /\ fault' = fault
      BY <1>3, <2>2 DEF ParseConfigs, GiveUp, GoOn
    <3>. QED  BY <2>1, <2>2, <3>1
          DEF FilesInv, givenVars, Checked, Loaded, Parsed, Prepared, AllSound, Configured, Running
  <2>3. CASE ~ accepted
    <3>1. fault' = "config"
      BY <1>3, <2>3 DEF ParseConfigs, GiveUp, GoOn
    <3>2. ~ AllSound \/ \E i \in DOMAIN directory : Disabled(directory[i])
      BY <1>0a, <2>3, SoundIsParsed DEF AllSound, Configured
    <3>. QED  BY <2>1, <3>1, <3>2 DEF FilesInv, givenVars, AllSound, Configured, Running
  <2>. QED  BY <2>2, <2>3
<1>4. CASE MakeOutput
  <2>1. /\ UNCHANGED <<givenVars, made, thread, fault>> /\ phase = "output" /\ phase' = "managers"
        /\ arguments = "server" => boards' = ProcessorDescriptions(directory)
    BY <1>4 DEF MakeOutput, MakeBoards
  <2>. QED  BY <2>1
        DEF FilesInv, givenVars, Checked, Loaded, Parsed, Prepared, AllSound, Configured, Running
<1>5. CASE MakeManager
  <2>1. /\ UNCHANGED <<givenVars, boards, thread, fault, phase>> /\ NoThread
        /\ phase = "managers" /\ made' = made + 1 /\ HasPort(directory[made + 1])
    BY <1>0, <1>5 DEF MakeManager, NextFile, PhaseInv
  <2>2. \A i \in 1..made' : i \in 1..made \/ i = made + 1
    BY <1>0a, <2>1
  <2>. QED  BY <2>1, <2>2
        DEF FilesInv, givenVars, Checked, Loaded, Parsed, Prepared, AllSound, Configured, Running
<1>6. CASE ManagerFails
  <2>1. /\ UNCHANGED <<givenVars, boards, thread>> /\ NoThread
        /\ made' = 0 /\ made + 1 \in DOMAIN directory
        /\ fault' = "port" \/ (fault' = "config" /\ ~ HasPort(directory[made + 1]))
    BY <1>0, <1>0a, <1>6 DEF ManagerFails, NextFile, PhaseInv
  <2>2. fault' = "config" => ~ AllSound
    BY <1>0a, <2>1, SoundIsParsed DEF AllSound, Configured
  <2>3. 1..made' = {}
    BY <2>1
  <2>. QED  BY <2>1, <2>2, <2>3 DEF FilesInv, givenVars, AllSound, Configured, Running
<1>7. CASE ManagersDone
  <2>1. /\ UNCHANGED <<givenVars, made, boards, thread, fault>>
        /\ phase = "managers" /\ phase' = "start" /\ made = Len(directory)
    BY <1>7 DEF ManagersDone
  <2>. QED  BY <2>1
        DEF FilesInv, givenVars, Checked, Loaded, Parsed, Prepared, AllSound, Configured, Running
<1>8. ASSUME NEW m \in Running, StartThread(m) PROVE FilesInv'
  <2>1. UNCHANGED <<givenVars, made, boards, fault, phase>> /\ thread' = [thread EXCEPT ![m] = "check"]
    BY <1>8 DEF StartThread, mainVars
  <2>. QED  BY <1>0a, <1>8, <2>1 DEF FilesInv, givenVars, AllSound, Configured, Running
<1>9. CASE Start \/ StartDone \/ JoinThreads \/ StopServer
  <2>1. /\ UNCHANGED <<givenVars, made, boards, thread, fault>>
        /\ phase \notin Making /\ phase' \notin Making
    BY <1>9 DEF Start, StartDone, JoinThreads, StopServer
  <2>. QED  BY <2>1, FilesKept
<1>10. CASE ServerJoined
  <2>1. /\ UNCHANGED <<givenVars, made, boards, thread, fault>>
        /\ phase \notin Making /\ phase' \notin Making
    BY <1>10 DEF ServerJoined
  <2>. QED  BY <2>1, FilesKept
<1>11. CASE Listen \/ ServerEnds \/ Interrupt \/ \E m \in Managers : Hang(m) \/ Calm(m)
  <2>1. UNCHANGED <<givenVars, made, boards, thread, fault, phase>>
    BY <1>11 DEF Listen, ServerEnds, Interrupt, Hang, Calm, mainVars
  <2>. QED  BY <2>1, FilesKept
<1>12. ASSUME NEW m \in Managers, Thread(m) PROVE FilesInv'
  <2>1. /\ UNCHANGED <<givenVars, made, boards, phase>>
        /\ fault' = fault \/ fault' = "run"
        /\ thread[m] # "absent" /\ \E to : thread' = [thread EXCEPT ![m] = to]
    BY <1>12 DEF Thread, Check, Run, Throw, Store, Convert, Format, ErrorsOnly, Write, Process,
         StopAll, SetResult, Goto, mainVars
  <2>2. ~ NotMade
    BY <1>0, <2>1 DEF PhaseInv
  <2>3. \A k \in Managers : thread[k] = "absent" => thread'[k] = "absent"
    BY <1>0a, <2>1
  <2>. QED  BY <2>1, <2>2, <2>3, FilesKept
<1>13. CASE UNCHANGED progVars
  BY <1>13, FilesKept DEF progVars, mainVars
<1>. QED  BY <1>1, <1>2, <1>3, <1>4, <1>5, <1>6, <1>7, <1>8, <1>9, <1>10, <1>11, <1>12, <1>13
          DEF ProgNext, Main, Exited

(* The invariant of configuring: files that were parsed, checked and made into *)
(* managers one after the other passed what comes before.                     *)
THEOREM FilesCorrect == ProgSpec => [](LifeInv /\ FilesInv)
<1>. QED  BY LifeInit, LifeStep, FilesInit, FilesStep, PTL DEF ProgSpec

(* A thread runs only when every file has passed every check.                 *)
LEMMA ThreadMeansMade ==
    ASSUME LifeInv, FilesInv, NEW m \in Managers, thread[m] # "absent"
    PROVE  /\ AllSound
           /\ m \in DOMAIN directory /\ Watched(directory[m]) \subseteq Named(directory[m])
           /\ arguments = "server" => boards = ProcessorDescriptions(directory)
<1>1. /\ DOMAIN directory = 1..Len(directory) /\ \A i \in DOMAIN directory : IsFile(directory[i])
      /\ PhaseInv
  BY GivenFiles DEF LifeInv, Given
<1>2. ~ NotMade /\ phase \notin Making
  BY <1>1 DEF PhaseInv
<1>3. /\ arguments # "wrong" /\ directory # <<>> /\ made = Len(directory)
      /\ \A i \in DOMAIN directory : directory[i].readable /\ Parses(directory[i]) /\ HasPort(directory[i])
      /\ arguments = "server" => boards = ProcessorDescriptions(directory)
      /\ m \in DOMAIN directory
  BY <1>1, <1>2 DEF FilesInv, Checked, Loaded, Parsed, Prepared, Running
<1>4. \A i \in DOMAIN directory :
        Sound(directory[i]) /\ Watched(directory[i]) \subseteq Named(directory[i])
  BY <1>1, <1>3, ParsedIsSound
<1>. QED  BY <1>3, <1>4 DEF AllSound, Configured

(* However many files there are and whatever they hold, a thread runs only    *)
(* with a directory of files that the manual calls sound, and the program     *)
(* gives up over a directory of sound ones only for the one kind of file that *)
(* Disabled names.                                                            *)
THEOREM SoundRuns == ProgSpec => []RunsExactlySound
<1>1. LifeInv /\ FilesInv => RunsExactlySound
  BY ThreadMeansMade DEF RunsExactlySound, FilesInv, AllSound, AnyThread
<1>. QED  BY <1>1, FilesCorrect, PTL

(* A thread that works out limits has a buffer to put them in, and the        *)
(* devices it watches are its own.                                            *)
THEOREM BoardsThere == ProgSpec => []LimitsHaveBoard
<1>1. LifeInv /\ FilesInv => LimitsHaveBoard
  BY ThreadMeansMade DEF LimitsHaveBoard, ProcessorDescriptions
<1>. QED  BY <1>1, FilesCorrect, PTL
=============================================================================
