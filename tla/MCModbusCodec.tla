---------------------------- MODULE MCModbusCodec ----------------------------
(* ModbusCodec with up to three output registers and one input register.      *)
EXTENDS ModbusCodec

CONSTANTS MaxAddress, Orders

Register(name) == [name : {name}, address : 0..MaxAddress, order : Orders]

Tuples(names) ==        \* one register for each name, in the order of the names
    {t \in [DOMAIN names -> UNION {Register(names[i]) : i \in DOMAIN names}] :
        \A i \in DOMAIN names : t[i].name = names[i]}

SmallSlaves ==
    [output : UNION {Tuples(n) : n \in {<<>>, <<"a">>, <<"a", "b">>, <<"a", "b", "c">>}},
     input : UNION {Tuples(n) : n \in {<<>>, <<"x">>}}]

AB == <<0, 1>>
BA == <<1, 0>>
ABCD == <<0, 1, 2, 3>>
CDAB == <<2, 3, 0, 1>>
BCDA == <<1, 2, 3, 0>>
Pairs == {BA, CDAB, BCDA}
Rotation == {AB, BCDA}
=============================================================================
