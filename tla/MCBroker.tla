------------------------------ MODULE MCBroker -------------------------------
(***************************************************************************)
(* Small populations of the whole system, and the properties that are only *)
(* model-checked.                                                          *)
(***************************************************************************)
EXTENDS Broker, FiniteSets

\* "a" and "c" are processes started with the same id, one of them maybe to
\* reconnect; "b" is another user; "x" gives an id with a space.
MCIdOf == [p \in Proc |-> CASE p \in {"a", "c"} -> "alice"
                            [] p = "b"          -> "bob"
                            [] OTHER            -> BadId]

MCTopic == {<<"t">>}
MCPattern == {<<"t">>}
\* A validated topic has no spaces, but it may have tabs, or be one.
MCTabbed == {<<"t\tu">>, <<"\t">>}
MCFirstWord ==
  [t \in Pattern |-> CASE t = <<"t\tu">> -> <<"t">>
                      [] t = <<"\t">>   -> EmptyString
                      [] OTHER         -> t]

-----------------------------------------------------------------------------
(***************************************************************************)
(* What the documentation, the comments and the tests say of the program,  *)
(* and the program does not do.                                            *)
(***************************************************************************)

\* "in applicationProtocol when we receive EOF or error we can't close the
\* server": subscribers that go away never bring it down.
SurvivesDepartures == pc # "crashed"

\* "I needed all my clients to shutdown gracefully when the server stopped":
\* every subscriber that is connected when the server exits ends.
StopReachesAll ==
  \A p \in Proc : pc = "exited" ~> client[p] \in {"idle", "exited", "crashed"}
=============================================================================
