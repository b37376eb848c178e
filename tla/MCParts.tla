------------------------------ MODULE MCParts -------------------------------
(***************************************************************************)
(* The parts of Parts on the smallest instances in which the interesting   *)
(* cases happen.                                                           *)
(***************************************************************************)
EXTENDS Parts

\* A command, one that begins like it, and one of the text box.
MCNames == << <<"a">>, <<"a", "b">>, <<"b">> >>

\* What makes names hard: one that another begins with, one of two scopes, a global one.
Command(n, s) == [name |-> n, valid_scope |-> s]
MCCommands ==
    <<Command(<<"c">>, "textbox"), Command(<<"g">>, "playlist"),
      Command(<<"g">>, "textbox"), Command(<<"h">>, "playlist"),
      Command(<<"l">>, "playlist"), Command(<<"l", "-">>, "playlist"),
      Command(<<"p">>, "global")>>
MCWords ==
    {<<"c">>, <<"g", " ", "1">>, <<"h">>, <<"l">>, <<"l", "-">>, <<"p", "x">>, <<"x">>}

\* One user publishes more tracks than the other.
MCTracks == <<3, 1>>
=============================================================================
