------------------------------ MODULE MCFraming ------------------------------
(***************************************************************************)
(* Texts of no, one, three and nine bytes, the longest with a length of    *)
(* two digits, in an alphabet of seven letters.                            *)
(***************************************************************************)
EXTENDS Framing

MCText == {<<>>, <<1>>, <<2, 3, 4>>, <<5, 4, 3, 2, 1, 2, 3, 4, 5>>}
MCShutdown == <<6, 7>>
==============================================================================
