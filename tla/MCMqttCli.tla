----------------------------- MODULE MCMqttCli -----------------------------
(***************************************************************************)
(* MqttCli for TLC: which lines the user types.  What Lexer assumes of the *)
(* text behind a line is checked along with it.                            *)
(***************************************************************************)
EXTENDS MqttCli, Lexer, TLC

\* Everything that is not internal.
UserLines == Connects \cup Anytime \cup WhenConnected

\* One line of each kind: publish -q 2 stands for all that wait with retries,
\* and the keep-alive threads queue pings.
SomeLines == Connects \cup {"exit", "exit all", "disconnect", "publish -q 2"}
=============================================================================
