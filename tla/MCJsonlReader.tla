---------------------------- MODULE MCJsonlReader ----------------------------
(* One kind of text: a record is one or two text bytes, or one and a CR,   *)
(* which is white space at the end of a record.                            *)
EXTENDS JsonlReader

MCText == {"x"}
MCDecodable == {<<"x">>, <<"x", "x">>, <<"x", CR>>}
=============================================================================
