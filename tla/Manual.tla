-------------------------------- MODULE Manual --------------------------------
(* What a file of configuration has to be by the README, chapter              *)
(* "Configuration", and by the tests of the files' readers                    *)
(* (tests/serializers) where the README is silent.  It says what a right      *)
(* section is, and nothing of how one is read: of Configuration it uses the   *)
(* shape of a file only.                                                      *)
EXTENDS Configuration

(* "serial" (README.md:394, SerialTests.cpp): parity, stop bits and the path  *)
(* of a device file.                                                          *)
RightLine(s) == s.keys /\ s.absolute /\ s.stopBits \in 1..2 /\ s.parity \in {"none", "even", "odd"}

RightAddress(a) == a.keys /\ a.ip # ""

(* README.md:374: one port, serial for Modbus and NMEA, an address for Wago.  *)
RightPort(f) ==
    \/ /\ f.protocol \in {"modbus", "nmea"}
       /\ f.address = {} /\ f.serial # {} /\ \A s \in f.serial : RightLine(s)
    \/ /\ f.protocol = "wago"
       /\ f.serial = {} /\ f.address # {} /\ \A a \in f.address : RightAddress(a)

-----------------------------------------------------------------------------
(* Devices *)

(* The standard types (README.md:133), by the size of the number.             *)
Types64 == {"FLOAT_64A", "FLOAT_64B", "UINT_64A", "UINT_64B", "INT_64A", "INT_64B"}
Types32 == {"FLOAT_32A", "FLOAT_32B", "FLOAT_32C", "FLOAT_32D",
            "UINT_32A", "UINT_32B", "UINT_32C", "UINT_32D",
            "INT_32A", "INT_32B", "INT_32C", "INT_32D"}
Types16 == {"UINT_16A", "UINT_16B", "INT_16A", "INT_16B"}

(* A wild type has an order for a number of a size that its standard types    *)
(* have, in whatever letters from A to H (README.md:126, :131); a standard    *)
(* one has none.                                                              *)
RightRegister(r) ==
    /\ r.keys
    /\ \/ r.type \in Types64 \cup Types32 \cup Types16 /\ r.order = <<>>
       \/ r.type = "FLOAT" /\ Len(r.order) \in {4, 8} /\ \A i \in DOMAIN r.order : r.order[i] \in 0..7
       \/ r.type \in {"INT", "UINT"} /\ Len(r.order) \in {2, 4, 8}
            /\ \A i \in DOMAIN r.order : r.order[i] \in 0..7

(* A device has something to be read; the modules there are have 1, 2, 4 or 8 *)
(* instances (ModuleTests.cpp).                                               *)
RightDevice(f, d) ==
    /\ d.keys /\ d.parts # <<>>
    /\ \A i \in DOMAIN d.parts :
          LET p == d.parts[i]
          IN  \/ f.protocol = "modbus" /\ RightRegister(p)
              \/ f.protocol = "nmea" /\ p.keys /\ p.type \in {"INT", "UINT", "FLOAT", "STRING"}
              \/ f.protocol = "wago" /\ p.keys /\ p.min <= p.max
    /\ f.protocol = "wago" => d.offset >= 1 /\ Len(d.parts) \in {1, 2, 4, 8}

(* What is read of a device is found in the output by names, and a slave or a *)
(* sentence on the line by its id.                                            *)
PartsDiffer(d) ==
    \A i \in DOMAIN d.parts : \A j \in 1..(i - 1) : d.parts[i].name # d.parts[j].name

DevicesDiffer(f) ==
    \A i \in DOMAIN f.devices : \A j \in 1..(i - 1) :
        /\ f.protocol # "wago" => f.devices[i].id # f.devices[j].id
        /\ f.protocol # "nmea" => f.devices[i].name # f.devices[j].name

-----------------------------------------------------------------------------
(* Files *)

(* README.md:456: the "device" of the file's entries in the output, which for *)
(* NMEA is the file's own name.                                               *)
DevicesOf(f) == IF f.protocol = "nmea" THEN {f.name}
                                       ELSE {f.devices[i].name : i \in DOMAIN f.devices}

RightLimits(f, l) == l.keys /\ l.devices # {} /\ l.devices \subseteq DevicesOf(f)

(* That the fields of a sentence have different names is not asked here: the  *)
(* README does not, and no code does, but SentenceTests.cpp:61 means to.      *)
Sound(f) ==
    /\ f.readable /\ f.keys
    /\ RightPort(f)
    /\ f.protocol = "modbus" => f.devices # <<>>
    /\ \A i \in DOMAIN f.devices : RightDevice(f, f.devices[i])
    /\ DevicesDiffer(f)
    /\ f.protocol # "nmea" => f.apart /\ \A i \in DOMAIN f.devices : PartsDiffer(f.devices[i])
    /\ \A p \in f.processors : \A l \in p.limits : RightLimits(f, l)

(* The kind of sound file that is refused all the same against README.md:456: *)
(* by Config.cpp:257 one for NMEA must not have a section for processors.     *)
Disabled(f) == f.protocol = "nmea" /\ f.processors # {}
=============================================================================
