---------------------------- MODULE Configuration ----------------------------
(* What a configuration file must be to be accepted (config/), and what is    *)
(* made of the accepted ones (Initialize.cpp).  A file is the record of what  *)
(* the program tells apart in it: an optional section is a set of at most one *)
(* record, and "keys" says of a section that every key that is asked for is   *)
(* there and holds JSON of its type.  That registers and modules do not       *)
(* overlap ("apart") is the matter of ModbusCodec and WagoModules.            *)
EXTENDS Naturals, SequencesExt

Optional(section, S) == section \subseteq S /\ Cardinality(section) <= 1

HasValue(section) == section # {}

Protocol == {"modbus", "nmea", "wago"}

(* The devices are slaves, sentences or modules and their parts are           *)
(* registers, fields or instances, each with what its protocol needs.         *)
IsFile(f) ==
    /\ f.readable \in BOOLEAN       \* it can be opened and holds JSON
    /\ f.keys \in BOOLEAN /\ f.apart \in BOOLEAN
    /\ f.protocol \in STRING /\ f.name \in STRING       \* the name is for NMEA
    /\ Optional(f.serial, [keys : BOOLEAN, absolute : BOOLEAN, stopBits : Nat, parity : STRING])
    /\ Optional(f.address, [keys : BOOLEAN, ip : STRING])
    /\ f.devices \in Seq(ToSet(f.devices))
    /\ \A d \in ToSet(f.devices) :
          /\ d.keys \in BOOLEAN
          /\ d.parts \in Seq(ToSet(d.parts)) /\ \A p \in ToSet(d.parts) : p.keys \in BOOLEAN
    /\ Cardinality(f.processors) <= 1
    /\ \A p \in f.processors : Optional(p.limits, [keys : BOOLEAN, devices : SUBSET STRING])

-----------------------------------------------------------------------------
(* Reading a section *)

ParseSerial(s) == s.keys /\ s.absolute /\ s.stopBits \in {1, 2} /\ s.parity \in {"none", "even", "odd"}

ParseAddress(a) == a.keys /\ a.ip # ""

Standard == {"FLOAT_64A", "FLOAT_64B", "FLOAT_32A", "FLOAT_32B", "FLOAT_32C", "FLOAT_32D",
             "UINT_64A", "UINT_64B", "UINT_32A", "UINT_32B", "UINT_32C", "UINT_32D",
             "UINT_16A", "UINT_16B",
             "INT_64A", "INT_64B", "INT_32A", "INT_32B", "INT_32C", "INT_32D",
             "INT_16A", "INT_16B"}

Wild == {"FLOAT", "UINT", "INT"}

(* getWildType: letters are known by their distance from "A".                 *)
WildType(type, order) ==
    /\ Len(order) \in {2, 4, 8}
    /\ type = "FLOAT" => Len(order) >= 4
    /\ \A i \in DOMAIN order : order[i] \in 0..7

ParseRegister(r) ==
    /\ r.keys
    /\ IF r.type \in Wild THEN WildType(r.type, r.order) ELSE r.order = <<>> /\ r.type \in Standard

ParseSlave(s) == s.keys /\ s.parts # <<>> /\ \A r \in ToSet(s.parts) : ParseRegister(r)

ParseField(x) == x.keys /\ x.type \in {"FLOAT", "UINT", "INT", "STRING"}

ParseSentence(s) == s.keys /\ s.parts # <<>> /\ \A x \in ToSet(s.parts) : ParseField(x)

ParseInstance(i) == i.keys /\ i.min <= i.max

ParseModule(m) ==
    /\ m.keys /\ m.offset >= 1
    /\ Len(m.parts) \in {1, 2, 4, 8}
    /\ \A i \in ToSet(m.parts) : ParseInstance(i)

ParseLimits(l) == l.keys /\ l.devices # {}

ParseProcessors(f) == \A p \in f.processors : \A l \in p.limits : ParseLimits(l)

(* Reading "data_processors" always sets the limits, if only to watch none.   *)
HasLimits(f) == HasValue(f.processors)

Watched(f) == UNION {l.devices : l \in UNION {p.limits : p \in f.processors}}

-----------------------------------------------------------------------------
(* Checking a file *)

Named(f) == {d.name : d \in ToSet(f.devices)}

(* Neighbours are compared after sorting: two of the same in a sequence.      *)
Twice(values) == ~ IsInjective(values)

(* checkDuplicateSlaveIDs, checkDuplicateSentenceIDs.                         *)
DuplicateIDs(f) == Twice([i \in DOMAIN f.devices |-> f.devices[i].id])

(* checkDuplicateSlaveNames, checkDuplicateModuleNames.                       *)
DuplicateNames(f) == Twice([i \in DOMAIN f.devices |-> f.devices[i].name])

(* checkDuplicateRegisterNames, checkDuplicateInstanceNames: within a device. *)
DuplicateParts(f) ==
    \E d \in ToSet(f.devices) : Twice([i \in DOMAIN d.parts |-> d.parts[i].name])

(* validateLimitsProcessor, for Modbus and for Wago.                          *)
WatchesOwn(f) == Watched(f) \subseteq Named(f)

ParseModbus(f) ==
    /\ f.keys /\ f.devices # <<>>
    /\ \A d \in ToSet(f.devices) : ParseSlave(d)
    /\ f.apart
    /\ ~ DuplicateParts(f) /\ ~ DuplicateIDs(f) /\ ~ DuplicateNames(f)
    /\ ParseProcessors(f) /\ WatchesOwn(f)

(* Limits are refused, and so is an empty section for processors.             *)
ParseNMEA(f) ==
    /\ f.keys
    /\ \A d \in ToSet(f.devices) : ParseSentence(d)
    /\ ~ DuplicateIDs(f)
    /\ ParseProcessors(f) /\ ~ HasLimits(f)

ParseWago(f) ==
    /\ f.keys
    /\ \A d \in ToSet(f.devices) : ParseModule(d)
    /\ ~ DuplicateNames(f) /\ ~ DuplicateParts(f)
    /\ f.apart
    /\ ParseProcessors(f) /\ WatchesOwn(f)

(* from_json for one file.                                                    *)
Parses(f) ==
    /\ HasValue(f.serial) # HasValue(f.address)
    /\ \A s \in f.serial : ParseSerial(s)
    /\ \A a \in f.address : ParseAddress(a)
    /\ \/ f.protocol = "modbus" /\ ParseModbus(f)
       \/ f.protocol = "nmea" /\ ParseNMEA(f)
       \/ f.protocol = "wago" /\ ParseWago(f)

-----------------------------------------------------------------------------
(* Making the parts *)

(* Which processors have a buffer of their own in the output.                 *)
ProcessorDescriptions(configs) ==
    IF \E i \in DOMAIN configs : HasLimits(configs[i]) THEN {"limits"} ELSE {}

(* initializeTasks asks for the section that the protocol needs; from_json    *)
(* does not.                                                                  *)
HasPort(c) == HasValue(IF c.protocol = "wago" THEN c.address ELSE c.serial)

(* A communicator for a serial line opens it; one for Wago opens nothing.     *)
OpensPort(c) == c.protocol # "wago"

=============================================================================
