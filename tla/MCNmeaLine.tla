----------------------------- MODULE MCNmeaLine -----------------------------
(* NmeaLine with a talker of three sentences, the last of which has a field   *)
(* too many, one of two sentences that the configuration does not fit, and    *)
(* one whose first sentence has a field too few.                              *)
EXTENDS NmeaLine

Sentence(id, fields) == [id |-> id, fields |-> fields]

Known == [GLL |-> <<"number", "text">>, HDT |-> <<"number">>]

Good == Sentence("GLL", <<"number", "empty">>)
Short == Sentence("HDT", <<"number">>)
Long == Sentence("HDT", <<"number", "text">>)
Unknown == Sentence("ZDA", <<"text">>)
Garbled == Sentence("HDT", <<"text">>)
Half == Sentence("GLL", <<"number">>)

ThreeTalks == {<<Good, Short, Long>>, <<Garbled, Unknown>>, <<Half, Short>>}
=============================================================================
