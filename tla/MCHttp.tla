------------------------------- MODULE MCHttp -------------------------------
(* A small instance of HttpMessages for TLC. *)
EXTENDS HttpMessages

MCValues == {<<"0">>, <<"1", "2">>}
MCFiles == {<<"index.html">>, <<"img", "a.jpg">>}
MCPages == MCFiles \cup {<<>>, <<"missing.html">>, <<"login">>, <<"logout">>, <<"signup">>,
                         <<"bulletin">>, <<"bulletin", "2">>, <<"..", "a.html">>}
=============================================================================
