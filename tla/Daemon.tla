------------------------------- MODULE Daemon --------------------------------
(***************************************************************************)
(* The daemon: its main thread (startup, accept loop, shutdown), the       *)
(* signals it may receive, and Vivado beside it.                           *)
(***************************************************************************)
EXTENDS DaemonWorkers

-----------------------------------------------------------------------------
(* Plausible bugs of this module's operators, to see that a property       *)
(* notices each of them.                                                   *)

(* The result of open_project is dropped. *)
OpenErrorsIgnored == Goto(Main, "opened", "setready")

(* The loop looks at the signal flag only. *)
PollSignalOnly == Goto(Main, "poll", IF sigterm THEN "leave" ELSE "check")

(* Vivado's death is left to the command in flight. *)
CheckWhenIdle ==
  Goto(Main, "check", IF died /\ inflight = None THEN "setcrashed" ELSE "accept")

-----------------------------------------------------------------------------
(* The main thread: startup. *)
MainGoto(from, to) ==
  /\ Step(Main, from, to)
  /\ UNCHANGED <<vivado, reader, clients, res, inflight, meta, flags, artifacts>>

PublishMarker ==
  /\ Step(Main, "pubmarker", "waitprompt")
  /\ SaveResult(Marker)
  /\ UNCHANGED <<vivado, reader, clients, res, inflight, meta, flags, dmeta>>

(* wait_prompt returns Collector.done: the prompt, Vivado's death or the   *)
(* startup timeout ends the wait.                                          *)
WaitPrompt ==
  \/ done /\ MainGoto("waitprompt", IF Project THEN "mark" ELSE "setready")
  \/ ~done /\ MainGoto("waitprompt", "setcrashed")

OpenProjectDone ==
  MainGoto("opened", IF res[Main].errors THEN "setcrashed" ELSE "setready")

(* The first half of set_state; PublishMeta is the other. *)
SetState(from, to, state) ==
  /\ Step(Main, from, to)
  /\ meta' = [meta EXCEPT !.state = state]
  /\ UNCHANGED <<vivado, reader, clients, res, inflight, flags, artifacts>>

(* The process ends, with every thread in it; the socket file is removed.  *)
Exit(label, how) ==
  /\ Step(Main, label, label)
  /\ fate' = how
  /\ sock' = FALSE
  /\ UNCHANGED <<vivado, reader, clients, res, inflight, meta, shutdown, sigterm,
                 artifacts>>

(* Install the SIGTERM handler and bind the control socket. *)
Bind ==
  /\ Step(Main, "bind", "poll")
  /\ sock' = TRUE
  /\ UNCHANGED <<vivado, reader, clients, res, inflight, meta, shutdown, sigterm,
                 fate, artifacts>>

(* The socket cannot be bound: the daemon exits, and metadata.json stays   *)
(* as it is.                                                               *)
BindFails == Exit("bind", "failed")

Startup ==
  \/ PublishMeta(Main, "publish", "pubmarker")
  \/ PublishMarker
  \/ WaitPrompt
  \/ ExecuteTcl(Main)
  \/ OpenProjectDone
  \/ SetState("setready", "pubready", "idle")
  \/ PublishMeta(Main, "pubready", "bind")
  \/ Bind \/ BindFails

(* The accept loop. *)
PollFlags ==
  MainGoto("poll", IF sigterm \/ shutdown THEN "leave" ELSE "check")

CheckVivado ==
  MainGoto("check", IF died THEN "setcrashed" ELSE "accept")

(* accept() hands one connection to a new worker, or finds none. *)
Accept ==
  \/ \E c \in Conn :
       /\ pc[c] = "pending"
       /\ Alive /\ pc[Main] = "accept"
       /\ pc' = [pc EXCEPT ![Main] = "poll", ![c] = "read"]
       /\ UNCHANGED <<vivado, reader, clients, res, inflight, meta, flags, artifacts>>
  \/ (\A c \in Conn : pc[c] # "pending") /\ MainGoto("accept", "poll")

(* Graceful shutdown: ask Vivado to exit, wait at most 15 s for it, send   *)
(* it SIGTERM if it is still there.  The wait for a worker's write to end, *)
(* and for room for "exit" on the terminal, comes before the 15 s.         *)
AskVivadoToExit ==
  /\ Step(Main, "drain", "grace")
  /\ stdin' = IF interp = "dead" THEN stdin ELSE Append(stdin, None)
  /\ UNCHANGED <<interp, running, printed, pty, reader, clients, res, inflight,
                 meta, flags, artifacts>>

(* kill(pid, 0) fails once the reader has reaped the child.  SIGTERM may   *)
(* be handled by Vivado, or end it.                                        *)
EndGrace ==
  /\ Step(Main, "grace", "setstopped")
  /\ \/ UNCHANGED <<interp, running, printed, stdin>>
     \/ /\ interp # "dead"
        /\ interp' = "dead"
        /\ running' = None
        /\ printed' = 0
        /\ stdin' = <<>>
  /\ UNCHANGED <<pty, reader, clients, res, inflight, meta, flags, artifacts>>

Serve ==
  \/ PollFlags \/ CheckVivado \/ Accept

Shutdown ==
  \/ LockWriter(Main, "leave", "drain")
  \/ AskVivadoToExit \/ EndGrace
  \/ SetState("setstopped", "pubstopped", "stopped")
  \/ PublishMeta(Main, "pubstopped", "stopped")
  \/ Exit("stopped", "stopped")

Crash ==
  \/ SetState("setcrashed", "pubcrashed", "crashed")
  \/ PublishMeta(Main, "pubcrashed", "crashed")
  \/ Exit("crashed", "failed")

MainThread == Startup \/ Serve \/ Shutdown \/ Crash

-----------------------------------------------------------------------------
(* SIGTERM ends the process until install_sigterm_handler has run, just    *)
(* before the socket is bound.                                             *)
Terminate ==
  /\ "TERM" \in Signals
  /\ Alive
  /\ IF sock
       THEN sigterm' = TRUE /\ UNCHANGED fate
       ELSE fate' = "killed" /\ UNCHANGED sigterm
  /\ UNCHANGED <<vivado, reader, pc, clients, res, inflight, meta, shutdown, sock,
                 artifacts>>

(* SIGKILL (docker kill, dv stop --force). *)
Kill ==
  /\ "KILL" \in Signals
  /\ Alive
  /\ fate' = "killed"
  /\ UNCHANGED <<vivado, reader, pc, clients, res, inflight, meta, shutdown, sigterm,
                 sock, artifacts>>

(* Vivado runs beside the daemon; the PTY closes with it. *)
Vivado ==
  /\ Alive
  /\ InterpreterNext
  /\ UNCHANGED <<reader, pc, clients, res, inflight, meta, flags, artifacts>>

(* What Vivado does unless it hangs. *)
VivadoProgress ==
  /\ Alive
  /\ Boot \/ ReadCommand \/ ReadExit \/ Finish
  /\ UNCHANGED <<reader, pc, clients, res, inflight, meta, flags, artifacts>>

(* The process has ended: nothing more happens. *)
Ended == ~Alive /\ UNCHANGED vars

Next ==
  \/ Reader
  \/ \E c \in Conn : Connect(c) \/ Worker(c) \/ ToolExits(c)
  \/ MainThread
  \/ Terminate \/ Kill
  \/ Vivado
  \/ Ended

Spec == Init /\ [][Next]_vars

-----------------------------------------------------------------------------
(* A write to the terminal waits for Vivado to make room for it: a request *)
(* of up to 4 MiB may always have to, the short lines of the main thread   *)
(* only behind input that nobody has read.                                 *)
MayStall(t) ==
  /\ Typing(t) /\ ~died
  /\ t = Main => stdin # <<>> \/ interp = "dead"

(* The daemon's own threads are scheduled; nothing is promised of Vivado,  *)
(* of tools or of clients, nor that a write to the PTY ends, nor that      *)
(* read(2) reports the end of the PTY when Vivado is gone.                 *)
DaemonFairness ==
  /\ WF_vars(ReadChunk \/ Feed)
  /\ WF_vars(MainThread /\ ~MayStall(Main))
  /\ \A c \in Conn : WF_vars(Worker(c) /\ ~MayStall(c))

(* Vivado's side of the terminal takes, or refuses, what is written to it. *)
TerminalFairness == WF_vars(AskVivadoToExit \/ \E t \in Thread : SendCommand(t))

(* Vivado boots, reads what is written to it and finishes every command,   *)
(* and every tool exits.                                                   *)
VivadoFairness ==
  /\ WF_vars(VivadoProgress)
  /\ \A c \in Conn : WF_vars(ToolExits(c))

(* Nothing that Vivado has started keeps the PTY open after it: the reader *)
(* sees the end of file.                                                   *)
PtyFairness == WF_vars(ReaderEof)

DaemonSpec == Spec /\ DaemonFairness

=============================================================================
