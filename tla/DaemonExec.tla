----------------------------- MODULE DaemonExec ------------------------------
(***************************************************************************)
(* The PTY reader thread, and execute_tcl: one TCL command from the        *)
(* no-result marker to the latched result, run by the workers, and once by *)
(* the main thread to open the project.                                    *)
(***************************************************************************)
EXTENDS DaemonState

(* A step of thread t that changes nothing the model keeps. *)
Goto(t, from, to) ==
  /\ Step(t, from, to)
  /\ UNCHANGED <<vivado, reader, clients, res, inflight, meta, flags, artifacts>>

-----------------------------------------------------------------------------
(* Plausible bugs of this module's operators, to see that a property       *)
(* notices each of them.                                                   *)

(* Any output at all is taken for the prompt. *)
FeedAnyChunk ==
  /\ Alive
  /\ hand # <<>>
  /\ hand' = <<>>
  /\ buf' = IF collecting THEN buf \union TextOf(hand) ELSE buf
  /\ done' = TRUE
  /\ UNCHANGED <<vivado, collecting, died, pc, clients, res, inflight, meta,
                 flags, artifacts>>

(* The matcher compares one read only with the prompt, not the tail of the *)
(* stream: a read that brings output before the prompt does not match.     *)
FeedWholeReadOnly ==
  /\ Alive
  /\ hand # <<>>
  /\ hand' = <<>>
  /\ buf' = IF collecting THEN buf \union TextOf(hand) ELSE buf
  /\ done' = (done \/ (Len(hand) = 1 /\ EndsWithPrompt(hand)))
  /\ UNCHANGED <<vivado, collecting, died, pc, clients, res, inflight, meta,
                 flags, artifacts>>

(* The project's thread is sent where workers go. *)
AfterExecAlwaysRelease(t) == "release"

(* The marker is not written: the previous result stays readable. *)
NoMarker(t) == Goto(t, "mark", "setbusy")

(* Busy is announced without its state. *)
BusyCommandOnly(t) ==
  /\ Step(t, "setbusy", "pubbusy")
  /\ meta' = [meta EXCEPT !.cmd = t]
  /\ UNCHANGED <<vivado, reader, clients, res, inflight, flags, artifacts>>

(* The completion flag of the previous command is not cleared. *)
ArmKeepsDone(t) ==
  /\ Step(t, "arm", "writer")
  /\ collecting' = TRUE
  /\ buf' = {}
  /\ UNCHANGED <<vivado, hand, done, died, clients, res, inflight, meta, flags,
                 artifacts>>

(* The slot is free as soon as the output has been taken. *)
TakeOutputFreesSlot(t) ==
  /\ Step(t, "wait", "latch")
  /\ done \/ died
  /\ res' = [res EXCEPT ![t] = ResultOf(t)]
  /\ inflight' = None
  /\ UNCHANGED <<vivado, reader, clients, meta, flags, artifacts>>

(* A result with errors is returned early, before it is latched. *)
LatchOnlySuccess(t) ==
  /\ Step(t, "latch", "setidle")
  /\ IF res[t].errors THEN dresult' = dresult ELSE SaveResult(res[t])
  /\ UNCHANGED <<vivado, reader, clients, res, inflight, meta, flags, dmeta>>

-----------------------------------------------------------------------------
(* The PTY reader thread.  read(2) returns any non-empty prefix of what    *)
(* Vivado has written; the chunk is appended to the collector, and matched *)
(* for the prompt, in a later critical section.                            *)
ReadChunk ==
  /\ Alive
  /\ hand = <<>>
  /\ \E n \in 1..Len(pty) :
       /\ hand' = SubSeq(pty, 1, n)
       /\ pty' = SubSeq(pty, n + 1, Len(pty))
  /\ UNCHANGED <<interp, running, printed, stdin, collecting, buf, done, died,
                 pc, clients, res, inflight, meta, flags, artifacts>>

Feed ==
  /\ Alive
  /\ hand # <<>>
  /\ hand' = <<>>
  /\ buf' = IF collecting THEN buf \union TextOf(hand) ELSE buf
  /\ done' = (done \/ EndsWithPrompt(hand))
  /\ UNCHANGED <<vivado, collecting, died, pc, clients, res, inflight, meta,
                 flags, artifacts>>

(* End of file: Vivado is gone, its child process is reaped. *)
ReaderEof ==
  /\ Alive
  /\ interp = "dead"
  /\ pty = <<>> /\ hand = <<>>
  /\ ~died
  /\ died' = TRUE
  /\ UNCHANGED <<vivado, hand, collecting, buf, done, pc, clients, res, inflight,
                 meta, flags, artifacts>>

Reader == ReadChunk \/ Feed \/ ReaderEof

-----------------------------------------------------------------------------
(* execute_tcl, for any thread t. *)
AfterExec(t) == IF t = Main THEN "opened" ELSE "release"

(* Latch the no-result marker, before anything is dispatched. *)
LatchMarker(t) ==
  /\ Step(t, "mark", "setbusy")
  /\ SaveResult(Marker)
  /\ UNCHANGED <<vivado, reader, clients, res, inflight, meta, flags, dmeta>>

SetBusy(t) ==
  /\ Step(t, "setbusy", "pubbusy")
  /\ meta' = [meta EXCEPT !.state = "busy", !.cmd = t]
  /\ UNCHANGED <<vivado, reader, clients, res, inflight, flags, artifacts>>

(* write_meta, from any of the labels that stand before it. *)
PublishMeta(t, from, to) ==
  /\ Step(t, from, to)
  /\ SaveMeta
  /\ UNCHANGED <<vivado, reader, clients, res, inflight, meta, flags, dresult>>

ArmCollector(t) ==
  /\ Step(t, "arm", "writer")
  /\ collecting' = TRUE
  /\ buf' = {}
  /\ done' = FALSE
  /\ UNCHANGED <<vivado, hand, died, clients, res, inflight, meta, flags, artifacts>>

(* Lock pty_writer: one thread at a time writes to the terminal. *)
LockWriter(t, from, to) ==
  /\ \A s \in Thread : ~Typing(s)
  /\ Goto(t, from, to)

(* The command has been written, up to its last line.  This may take as    *)
(* long as Vivado likes; the write fails, and is ignored, once Vivado and  *)
(* its terminal are gone.                                                  *)
SendCommand(t) ==
  /\ Step(t, "send", "wait")
  /\ stdin' = IF interp = "dead" THEN stdin ELSE Append(stdin, t)
  /\ UNCHANGED <<interp, running, printed, pty, reader, clients, res, inflight,
                 meta, flags, artifacts>>

(* The command is over when the prompt is back or Vivado is gone. *)
TakeOutput(t) ==
  /\ Step(t, "wait", "latch")
  /\ done \/ died
  /\ res' = [res EXCEPT ![t] = ResultOf(t)]
  /\ collecting' = FALSE
  /\ buf' = {}
  /\ UNCHANGED <<vivado, hand, done, died, clients, inflight, meta, flags, artifacts>>

LatchResult(t) ==
  /\ Step(t, "latch", "setidle")
  /\ SaveResult(res[t])
  /\ UNCHANGED <<vivado, reader, clients, res, inflight, meta, flags, dmeta>>

SetIdle(t) ==
  /\ Step(t, "setidle", "pubidle")
  /\ meta' = [meta EXCEPT !.state = IF res[t].died THEN "crashed" ELSE "idle",
                          !.cmd = None]
  /\ UNCHANGED <<vivado, reader, clients, res, inflight, flags, artifacts>>

ExecuteTcl(t) ==
  \/ LatchMarker(t) \/ SetBusy(t)
  \/ PublishMeta(t, "pubbusy", "arm")
  \/ ArmCollector(t) \/ LockWriter(t, "writer", "send")
  \/ SendCommand(t) \/ TakeOutput(t)
  \/ LatchResult(t) \/ SetIdle(t)
  \/ PublishMeta(t, "pubidle", AfterExec(t))

=============================================================================
