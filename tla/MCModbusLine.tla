---------------------------- MODULE MCModbusLine ----------------------------
(* ModbusLine with a slave of two requests and one of one request.            *)
EXTENDS ModbusLine, TLC

CONSTANTS s1, s2, g1, g2, g3

TwoTasks == <<s1, s2>>
Requests == s1 :> <<g1, g2>> @@ s2 :> <<g3>>
Times == s1 :> 1 @@ s2 :> 2
=============================================================================
