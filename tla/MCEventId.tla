------------------------------ MODULE MCEventId ------------------------------
(***************************************************************************)
(* Inputs for EventId: strings that are prefixes of each other or contain  *)
(* the bytes of a length, and an int of eight bits.                        *)
(***************************************************************************)
EXTENDS EventId

MCMinInt == -128

MCText == {<<>>, <<1>>, <<1, 1>>}

MCInput ==
    [path : {"id"}, id : MCText \cup {<<0, 0, 0, 1, 1>>}]
    \cup [path : {"fields"}, type : {<<1>>}, room : MCText \cup {<<0, 0, 0, 1, 1>>},
          identity : MCText, sid : {<<>>, <<1>>}, track : {<<>>, <<1>>},
          at : {1, 11}, ordinal : {0, 1, 11, -1, -128}]
=============================================================================
