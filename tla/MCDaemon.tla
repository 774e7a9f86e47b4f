------------------------------ MODULE MCDaemon ------------------------------
(***************************************************************************)
(* TLC instances of Daemon: the connections and the main thread are model  *)
(* values; connections are interchangeable.                                *)
(***************************************************************************)
EXTENDS DaemonProps, TLC

Symmetry == Permutations(Conn)

ExecOnly  == {"exec"}
ExecStop  == {"exec", "stop"}
ExecStopTool == {"exec", "stop", "tool"}
AllKinds  == {"exec", "stop", "tool", "badtool", "ping", "malformed"}
NoSignals == {}
BothSignals == {"TERM", "KILL"}

=============================================================================
