---------------------------- MODULE MCPublishing -----------------------------
(***************************************************************************)
(* Two publishers: "one" is started with every kind of command line, "two" *)
(* with a few, to compete for ports and for room in the server's queue.    *)
(***************************************************************************)
EXTENDS Publishing

Bytes(topic, rest) == [topic |-> topic, rest |-> rest]
Good(datagram) == [datagram |-> datagram, described |-> TRUE, sendable |-> TRUE]

\* 10, 2.30, -0.042 and a text, as in sample_payloads.json; an INT that was
\* cut short, one whose sign is none, and a datagram without a type.
Ten == Good(Bytes("a", <<0, 0, 0, 0, 0, 10>>))
TwoThirty == Good(Bytes("a", <<1, 0, 230>>))
Small == Good(Bytes("b", <<2, 1, 0, 0, 0, 42, 3>>))
Ana == Good(Bytes("b", <<3, 65, 110, 97, 32, 97, 114, 101>>))
Cut == Good(Bytes("a", <<0, 1, 1>>))
NoSign == Good(Bytes("a", <<0, 2, 0, 0, 0, 1>>))
NoType == Good(Bytes("b", <<>>))
Bare == [Ten EXCEPT !.described = FALSE]
Spoilt == [Ten EXCEPT !.sendable = FALSE]

MCPayload == {Ten, TwoThirty, Small, Ana, Cut, NoSign, NoType, Bare, Spoilt}

MCContent ==
  [f \in FileName |->
     CASE f = "sample_payloads.json" -> <<Ana, Cut>>
       [] f = "odd"     -> <<NoType, TwoThirty>>
       [] f = "signs"   -> <<NoSign, Small, Cut>>
       [] f = "bare"    -> <<Bare, Small>>
       [] f = "spoilt"  -> <<Ten, Spoilt>>
       [] f = "single"  -> <<Ten>>
       [] f = "empty"   -> <<>>
       [] f = "notJson" -> NotJson
       [] OTHER         -> NoFile]

-----------------------------------------------------------------------------
Plain == [input_file |-> NotGiven, server_ip |-> "127.0.0.1", server_port |-> 8080,
          source_address |-> NotGiven, source_port |-> NotGiven,
          mode |-> NotGiven, count |-> NotGiven, delay |-> NotGiven]

Odd == {[Plain EXCEPT !.server_port = 1023], [Plain EXCEPT !.server_port = 9000],
        [Plain EXCEPT !.server_port = NotGiven], [Plain EXCEPT !.server_port = Word],
        [Plain EXCEPT !.server_ip = "::1"], [Plain EXCEPT !.server_ip = Word],
        [Plain EXCEPT !.source_address = "::1"], [Plain EXCEPT !.source_port = 8080],
        [Plain EXCEPT !.source_port = 65536], [Plain EXCEPT !.source_port = 0],
        [Plain EXCEPT !.mode = Word], [Plain EXCEPT !.count = Word],
        [Plain EXCEPT !.delay = -1], [Plain EXCEPT !.delay = Word]}

InFiles == {[Plain EXCEPT !.input_file = f] : f \in FileName}

Manuals == {[Plain EXCEPT !.mode = "manual", !.input_file = f] :
              f \in {NotGiven, "spoilt", "bare"}}

Randoms == {[Plain EXCEPT !.mode = "random", !.count = n] : n \in {NotGiven, -1, 0, 2}}
           \cup {[Plain EXCEPT !.mode = "random", !.input_file = "empty", !.count = n] :
                   n \in {NotGiven, 0}}
           \cup {[Plain EXCEPT !.mode = "random", !.input_file = "spoilt", !.count = 2]}

OwnPort == [Plain EXCEPT !.source_port = 5000]
OwnAddress == [OwnPort EXCEPT !.source_address = "127.0.0.1", !.input_file = "single"]

MCCommandLines ==
  [p \in Publisher |->
     IF p = "one" THEN {Plain, OwnPort} \cup Odd \cup InFiles \cup Manuals \cup Randoms
     ELSE {OwnAddress}]

MCLine == {-1, 0, 1, Word, Exit, EndOfFile}
==============================================================================
