------------------------------ MODULE MCProgram ------------------------------
(* Program with up to two files: sound ones of every kind, and for every      *)
(* check of the program at least one that it refuses.                         *)
EXTENDS Program

Line == [keys |-> TRUE, absolute |-> TRUE, stopBits |-> 1, parity |-> "none"]
PLC == [keys |-> TRUE, ip |-> "plc"]

Register(name) == [keys |-> TRUE, name |-> name, type |-> "UINT_16A", order |-> <<>>]
Slave(name, id) == [keys |-> TRUE, name |-> name, id |-> id, parts |-> <<Register("p"), Register("q")>>]
Field(name, type) == [keys |-> TRUE, name |-> name, type |-> type]
Sentence(id) == [keys |-> TRUE, id |-> id, parts |-> <<Field("p", "FLOAT"), Field("q", "STRING")>>]
Instance(name) == [keys |-> TRUE, name |-> name, min |-> 0, max |-> 9]
Module(name) == [keys |-> TRUE, name |-> name, offset |-> 1, parts |-> <<Instance("p"), Instance("q")>>]

Watch(devices) == {[limits |-> {[keys |-> TRUE, devices |-> devices]}]}
Unlimited == {[limits |-> {}]}

Reader == [readable |-> TRUE, keys |-> TRUE, apart |-> TRUE, protocol |-> "modbus", name |-> "n",
           serial |-> {Line}, address |-> {}, devices |-> <<Slave("a", 1), Slave("b", 2)>>,
           processors |-> {}]
Talker == [Reader EXCEPT !.protocol = "nmea", !.devices = <<Sentence(1), Sentence(2)>>]
Controller == [Reader EXCEPT !.protocol = "wago", !.serial = {}, !.address = {PLC},
                             !.devices = <<Module("a"), Module("b")>>, !.processors = Unlimited]

Typed(type, order) == [Reader EXCEPT !.devices[1].parts[1].type = type,
                                     !.devices[1].parts[1].order = order]

(* Two files run side by side in every combination of these ...               *)
Good == {Reader, [Reader EXCEPT !.processors = Watch({"a"})], Controller}

(* A sentence with two fields of one name, and limits of a device for NMEA.   *)
Echo == [Talker EXCEPT !.devices[1].parts[2].name = "p"]
WatchedTalker == [Talker EXCEPT !.processors = Watch({"n"})]

(* ... and these by themselves.                                               *)
Also == {Talker, [Controller EXCEPT !.processors = Watch({"b"})],
         Typed("FLOAT", <<1, 0, 3, 2>>), Typed("INT", <<1, 0>>),
         Typed("INT", <<1, 1>>), Typed("UINT", <<4, 5, 6, 7>>), Echo}

Bad == {[Reader EXCEPT !.readable = FALSE],
        [Reader EXCEPT !.keys = FALSE],
        [Reader EXCEPT !.protocol = "other"],
        [Reader EXCEPT !.address = {PLC}],
        [Reader EXCEPT !.serial = {}],
        [Reader EXCEPT !.serial = {}, !.address = {PLC}],
        [Reader EXCEPT !.serial = {[Line EXCEPT !.keys = FALSE]}],
        [Reader EXCEPT !.serial = {[Line EXCEPT !.absolute = FALSE]}],
        [Reader EXCEPT !.serial = {[Line EXCEPT !.stopBits = 3]}],
        [Reader EXCEPT !.serial = {[Line EXCEPT !.parity = "mark"]}],
        [Reader EXCEPT !.devices = <<>>],
        [Reader EXCEPT !.devices[1].keys = FALSE],
        [Reader EXCEPT !.devices[1].parts = <<>>],
        [Reader EXCEPT !.devices[1].parts[1].keys = FALSE],
        Typed("UINT_16A", <<1, 0>>), Typed("UINT_16C", <<>>), Typed("UINT", <<>>),
        Typed("FLOAT", <<1, 0>>), Typed("INT", <<2, 1, 0>>), Typed("INT", <<9, 0>>),
        [Reader EXCEPT !.apart = FALSE],
        [Reader EXCEPT !.devices[2].id = 1],
        [Reader EXCEPT !.devices[2].name = "a"],
        [Reader EXCEPT !.devices[2].parts[2].name = "p"],
        [Reader EXCEPT !.processors = Watch({})],
        [Reader EXCEPT !.processors = Watch({"a", "c"})],
        [Reader EXCEPT !.processors = {[limits |-> {[keys |-> FALSE, devices |-> {"a"}]}]}],
        [Talker EXCEPT !.serial = {}, !.address = {PLC}],
        [Talker EXCEPT !.keys = FALSE],
        [Talker EXCEPT !.devices[1].keys = FALSE],
        [Talker EXCEPT !.devices[1].parts = <<>>],
        [Talker EXCEPT !.devices[1].parts[1].type = "UINT_16A"],
        [Talker EXCEPT !.devices[2].id = 1],
        [Talker EXCEPT !.processors = Unlimited],
        [Talker EXCEPT !.processors = Watch({"a"})], WatchedTalker,
        [Controller EXCEPT !.serial = {Line}, !.address = {}],
        [Controller EXCEPT !.address = {[PLC EXCEPT !.ip = ""]}],
        [Controller EXCEPT !.keys = FALSE],
        [Controller EXCEPT !.apart = FALSE],
        [Controller EXCEPT !.devices[1].offset = 0],
        [Controller EXCEPT !.devices[1].parts[1].max = -1],
        [Controller EXCEPT !.devices[1].parts = @ \o <<Instance("r")>>],
        [Controller EXCEPT !.devices[2].name = "a"],
        [Controller EXCEPT !.devices[2].parts[2].name = "p"],
        [Controller EXCEPT !.processors = Watch({"c"})]}

SmallDirectories ==
    {<<>>} \cup {<<f>> : f \in Good \cup Also \cup Bad}
        \cup {<<f, g>> : f, g \in Good}
        \cup {<<f, g>> : f \in Good, g \in Bad} \cup {<<g, f>> : f \in Good, g \in Bad}

OneDirectory == {<<Reader, Reader>>}
=============================================================================
