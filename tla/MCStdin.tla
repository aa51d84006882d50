------------------------------- MODULE MCStdin -------------------------------
(***************************************************************************)
(* A subscriber's standard input, as tight as in the program: the 65 bytes *)
(* of its buffer are the longest word, the longest message and three more. *)
(***************************************************************************)
EXTENDS StdinReader

MCLine == {<<"exit">>, <<>>, <<"t", "t", "/", "t", "t", "t">>, <<"subscribe", " ", "t", "/", "t">>,
           <<"t", "t", "t", "/", "t", "t", "t", "exit">>,
           <<"subscribe", " ", "t", "t", "t", "t", "t">>}
MCJunk == {<<>>, <<"exit", "t">>}
==============================================================================
