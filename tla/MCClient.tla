------------------------------ MODULE MCClient ------------------------------
(* Small instances of Client for TLC.                                      *)
EXTENDS Client

CONSTANTS e1, s1, s2, daemon, request, foreign, connect

OneSession == [e \in Events |-> s1]

(* awp daemon; awp permissions request, for a session of the daemon and    *)
(* for another one; awp connect --once.                                    *)
DaemonOptions ==
  [handle |-> TRUE, concurrent |-> TRUE, once |-> FALSE, stop |-> FALSE,
   sessions |-> <<s1>>, reconnect |-> TRUE, initial |-> 2, max |-> 3]
RequestOptions(s) ==
  [handle |-> FALSE, concurrent |-> FALSE, once |-> FALSE, stop |-> TRUE,
   sessions |-> <<s>>, reconnect |-> FALSE, initial |-> 0, max |-> 0]
ConnectOptions ==
  [handle |-> FALSE, concurrent |-> FALSE, once |-> TRUE, stop |-> FALSE,
   sessions |-> << >>, reconnect |-> FALSE, initial |-> 0, max |-> 0]

CommandOptions ==
  [c \in Clients |->
     CASE c = daemon -> DaemonOptions
       [] c = request -> RequestOptions(s1)
       [] c = foreign -> RequestOptions(s2)
       [] c = connect -> ConnectOptions]
=============================================================================
