---------------------------- MODULE Conversation -----------------------------
(***************************************************************************)
(* Clients and the daemon over the control socket: the verbs exec, run and *)
(* stop of davit/src/client.rs, each a process that sends one request and  *)
(* reads frames, beside the worker that serves it in davit/src/daemon.rs.  *)
(* Clients may be slow, be killed, or stop waiting; the daemon may shut    *)
(* down under them.  Of the session there is only what a client can tell:  *)
(* Daemon has its threads, Vivado and the other artifacts.                 *)
(***************************************************************************)
EXTENDS ToolStream

CONSTANT Verbs   \* what clients are started for
ASSUME VerbsAreKnown == Verbs \subseteq {"exec", "run", "stop"}

VARIABLES
  slot,     \* Shared.inflight: the client whose operation is in flight
  lock,     \* the worker that writes its answer with the slot locked
  latch,    \* whose result is in result.json, None for the marker
  verb,     \* what each client was started for
  code,     \* the exit code of each client
  shown,    \* what each client has printed of a tool's pipes
  pc,       \* what the worker of each client does next
  out       \* the final frame each worker writes

client == <<verb, code, shown>>
session == <<slot, lock, latch>>
tool == <<process, copying>>
vars == <<daemon, cpc, wire, client, session, pc, out, tool>>

Nothing == [type |-> "none"]
NothingShown == [fd \in Fd |-> <<>>]

Init ==
  /\ daemon = "serving"
  /\ slot = None /\ lock = None /\ latch = None
  /\ cpc = [c \in Client |-> "start"]
  /\ pc = [c \in Client |-> "none"]
  /\ verb = [c \in Client |-> "none"]
  /\ code = [c \in Client |-> None]
  /\ out = [c \in Client |-> Nothing]
  /\ shown = [c \in Client |-> NothingShown]
  /\ wire = [c \in Client |-> <<>>]
  /\ NoTool

-----------------------------------------------------------------------------
(* Plausible bugs, to see that a property notices each of them. *)

(* The slot of a refused tool is given back before the answer and after.   *)
AnsweredReleasesAgain(c) ==
  /\ pc' = [pc EXCEPT ![c] = CASE out[c].type \in {"internal", "usage"} -> "release"
                               [] out[c].type = "ok" -> "store"
                               [] OTHER -> "end"]
  /\ lock' = IF lock = c THEN None ELSE lock

(* The command of a client that no longer waits is given up. *)
AbandonCommand(c) == latch' = IF Closed(c) THEN latch ELSE c

(* A connection that was closed is read again. *)
EofRetries(c) == UNCHANGED vars

(* An answer that cannot be written keeps the slot locked. *)
UnlockIfWritten(c) == IF lock = c /\ ~Closed(c) THEN None ELSE lock

-----------------------------------------------------------------------------
(* The client: connect, and send the request. *)
ReportUnreachable(c) ==
  /\ daemon = "gone"
  /\ cpc' = [cpc EXCEPT ![c] = "done"]
  /\ code' = [code EXCEPT ![c] = 1]
  /\ UNCHANGED pc

Connect(c) ==
  /\ cpc[c] = "start"
  /\ \E v \in Verbs : verb' = [verb EXCEPT ![c] = v]
  /\ \/ ReportUnreachable(c)
     \/ /\ daemon # "gone"
        /\ cpc' = [cpc EXCEPT ![c] = "len"]
        /\ pc' = [pc EXCEPT ![c] = "queued"]
        /\ UNCHANGED code
  /\ UNCHANGED <<daemon, wire, shown, session, out, tool>>

(* The process ends, and its end of the socket closes. *)
Leave(c, how) ==
  /\ cpc' = [cpc EXCEPT ![c] = how]
  /\ wire' = [wire EXCEPT ![c] = <<>>]
  /\ shown' = [shown EXCEPT ![c] = NothingShown]
  /\ UNCHANGED <<daemon, verb, session, pc, out, tool>>

Return(c, n) == Leave(c, "done") /\ code' = [code EXCEPT ![c] = n]

Reading(c) == cpc[c] \in {"len", "body"}

(* read_frame, its first half and its second. *)
Consume(c, half) ==
  /\ cpc[c] = half
  /\ wire[c] # <<>>

ReadLength(c) ==
  /\ Consume(c, "len")
  /\ cpc' = [cpc EXCEPT ![c] = "body"]
  /\ wire' = [wire EXCEPT ![c] = Tail(@)]
  /\ UNCHANGED <<daemon, client, session, pc, out, tool>>

ReadStream(c) ==
  /\ Consume(c, "body")
  /\ LET frame == Head(wire[c]).frame
     IN  /\ frame.type = "stream"
         /\ shown' = [shown EXCEPT ![c][frame.fd] = @ \o frame.text]
  /\ cpc' = [cpc EXCEPT ![c] = "len"]
  /\ wire' = [wire EXCEPT ![c] = Tail(@)]
  /\ UNCHANGED <<daemon, verb, code, session, pc, out, tool>>

(* The exit code for a final frame; std::process::exit keeps the low byte  *)
(* of a tool's status.                                                     *)
ExitByte(n) == n % 256
ResultCode(frame) == IF frame.kind = "errors" THEN 1 ELSE 0
ExecCode(frame) == IF frame.type = "result" THEN ResultCode(frame) ELSE 1
StopCode(frame) == IF frame.type = "ok" THEN 0 ELSE 1
ToolCode(frame) ==
  CASE frame.type = "exit" -> ExitByte(frame.status)
    [] frame.type = "usage" -> 2
    [] OTHER -> 1
CodeFor(v, frame) ==
  CASE v = "exec" -> ExecCode(frame)
    [] v = "stop" -> StopCode(frame)
    [] v = "run" -> ToolCode(frame)

ReadFinal(c) ==
  /\ Consume(c, "body")
  /\ LET frame == Head(wire[c]).frame
     IN  /\ frame.type # "stream"
         /\ Return(c, CodeFor(verb[c], frame))

(* The daemon's end is closed and nothing is left: "protocol failure". *)
ReadEof(c) ==
  /\ Reading(c)
  /\ wire[c] = <<>>
  /\ pc[c] = "end" \/ daemon = "gone"
  /\ Return(c, 1)

ReadSocket(c) == ReadLength(c) \/ ReadStream(c) \/ ReadFinal(c) \/ ReadEof(c)

(* An exec may have a --timeout: a read waits for that many seconds.  The  *)
(* daemon's own steps are faster; what may take longer is a shutdown, a    *)
(* worker that waits for the slot's lock, before the command or after it,  *)
(* and the command.                                                        *)
DaemonIsSlow(c) ==
  \/ pc[c] = "queued" /\ daemon = "draining"
  \/ pc[c] \in {"acquire", "release"} /\ lock # None
  \/ pc[c] = "running"

TimeOut(c) ==
  /\ verb[c] = "exec"
  /\ Reading(c) /\ wire[c] = <<>>
  /\ daemon # "gone" /\ DaemonIsSlow(c)
  /\ Return(c, 3)

(* Ctrl-C, a closed terminal, a container that is removed. *)
Killed(c) ==
  /\ Reading(c)
  /\ Leave(c, "left")
  /\ UNCHANGED code

-----------------------------------------------------------------------------
(* The worker of client c. *)
At(c, from) == Running /\ pc[c] = from
Goto(c, to) == pc' = [pc EXCEPT ![c] = to]
Prepare(c, frame) == out' = [out EXCEPT ![c] = frame]

(* The main thread accepts only while nobody has asked it to stop. *)
Accept(c) ==
  /\ At(c, "queued")
  /\ daemon = "serving"
  /\ Goto(c, IF verb[c] = "stop" THEN "stop" ELSE "acquire")
  /\ UNCHANGED <<daemon, cpc, wire, client, session, out, tool>>

Busy(c) == Goto(c, "len") /\ Prepare(c, [type |-> "busy"]) /\ lock' = c

(* acquire_slot; the busy answer is written before the lock is released.   *)
Acquire(c) ==
  /\ At(c, "acquire")
  /\ lock = None
  /\ \/ /\ slot = None
        /\ slot' = c
        /\ Goto(c, IF verb[c] = "run" THEN "spawn" ELSE "dispatch")
        /\ UNCHANGED <<out, lock>>
     \/ /\ slot # None
        /\ Busy(c)
        /\ UNCHANGED slot
  /\ UNCHANGED <<daemon, cpc, wire, client, latch, tool>>

(* handle_stop; accepted, it answers without the lock. *)
HandleStop(c) ==
  /\ At(c, "stop")
  /\ lock = None
  /\ \/ /\ slot = None
        /\ Goto(c, "len") /\ Prepare(c, [type |-> "ok"])
        /\ UNCHANGED lock
     \/ slot # None /\ Busy(c)
  /\ UNCHANGED <<daemon, cpc, wire, client, slot, latch, tool>>

(* execute_tcl: the marker and the command line; later, the result. *)
Dispatch(c) ==
  /\ At(c, "dispatch")
  /\ Goto(c, "running")
  /\ latch' = None
  /\ UNCHANGED <<daemon, cpc, wire, client, slot, lock, out, tool>>

LatchResult(c) == latch' = c
CommandEnds(c) ==
  /\ At(c, "running")
  /\ Goto(c, "release")
  /\ \E kind \in {"clean", "errors", "large"} :
       Prepare(c, [type |-> "result", kind |-> kind])
  /\ LatchResult(c)
  /\ UNCHANGED <<daemon, cpc, wire, client, slot, lock, tool>>

(* handle_tool.  A file that is missing is answered after the release, a   *)
(* failed spawn before it.                                                 *)
SpawnTool(c) ==
  /\ At(c, "spawn")
  /\ \/ Goto(c, "join") /\ Spawn(c) /\ UNCHANGED out
     \/ Goto(c, "release") /\ Prepare(c, [type |-> "usage"]) /\ UNCHANGED tool
     \/ Goto(c, "len") /\ Prepare(c, [type |-> "internal"]) /\ UNCHANGED tool
  /\ UNCHANGED <<daemon, cpc, wire, client, session>>

JoinTool(c) ==
  /\ At(c, "join")
  /\ Joined
  /\ Goto(c, "release")
  /\ Prepare(c, [type |-> "exit", status |-> status, total |-> wrote])
  /\ UNCHANGED <<daemon, cpc, wire, client, session, tool>>

Release(c) ==
  /\ At(c, "release")
  /\ lock = None
  /\ slot' = None
  /\ Goto(c, IF out[c].type = "internal" THEN "end" ELSE "len")
  /\ ForgetTool
  /\ UNCHANGED <<daemon, cpc, wire, client, lock, latch, out>>

(* The final frame is written, or it is over MAX_FRAME, or the client is   *)
(* gone: errors are dropped.                                               *)
Unlock(c) == IF lock = c THEN None ELSE lock
Answered(c) ==
  /\ Goto(c, CASE out[c].type = "internal" -> "release"
               [] out[c].type = "ok" -> "store"
               [] OTHER -> "end")
  /\ lock' = Unlock(c)

TooLarge(frame) == frame.type = "result" /\ frame.kind = "large"

WriteAnswer(c) ==
  /\ \/ /\ At(c, "len") /\ ~TooLarge(out[c])
        /\ Put(c, Part("worker", "len", out[c]))
        /\ Goto(c, "body") /\ UNCHANGED lock
     \/ /\ At(c, "body")
        /\ Put(c, Part("worker", "body", out[c]))
        /\ Answered(c)
     \/ /\ At(c, "len") \/ At(c, "body")
        /\ Closed(c) \/ TooLarge(out[c])
        /\ Answered(c) /\ UNCHANGED wire
  /\ UNCHANGED <<daemon, cpc, client, slot, latch, out, tool>>

StoreShutdown(c) ==
  /\ At(c, "store")
  /\ Goto(c, "end")
  /\ daemon' = "draining"
  /\ UNCHANGED <<cpc, wire, client, session, out, tool>>

Worker(c) ==
  \/ Accept(c) \/ Acquire(c) \/ HandleStop(c) \/ Dispatch(c)
  \/ SpawnTool(c) \/ JoinTool(c) \/ Release(c)
  \/ WriteAnswer(c) \/ StoreShutdown(c)

-----------------------------------------------------------------------------
(* SIGTERM or the death of Vivado; then, or by a kill, the end: of the     *)
(* process and its workers, and of the container with its tools.           *)
Drain ==
  /\ daemon = "serving"
  /\ daemon' = "draining"
  /\ UNCHANGED <<cpc, wire, client, session, pc, out, tool>>

End ==
  /\ Running
  /\ daemon' = "gone"
  /\ slot' = None /\ lock' = None
  /\ pc' = [c \in Client |-> IF pc[c] \in {"none", "queued"} THEN pc[c] ELSE "end"]
  /\ out' = [c \in Client |-> Nothing]
  /\ ForgetTool
  /\ UNCHANGED <<cpc, wire, client, latch>>

Outside == UNCHANGED <<daemon, cpc, client, session, pc, out>>

Next ==
  \/ \E c \in Client :
       Connect(c) \/ ReadSocket(c) \/ TimeOut(c) \/ Killed(c) \/ Worker(c) \/ CommandEnds(c)
  \/ (Tool \/ ToolEnds) /\ Outside
  \/ \E fd \in Fd : PipeThread(fd) /\ Outside
  \/ Drain \/ End

Spec == Init /\ [][Next]_vars

(* The daemon's threads run and a shutdown ends (StopEnds of DaemonProps); *)
(* clients that are not killed read their socket; commands and tools, with *)
(* what they leave behind, end.                                            *)
DaemonFairness ==
  /\ \A c \in Client : WF_vars(Worker(c))
  /\ \A fd \in Fd : WF_vars(PipeThread(fd) /\ Outside)
  /\ WF_vars(daemon = "draining" /\ End)
ClientFairness == \A c \in Client : WF_vars(ReadSocket(c))
OperationFairness ==
  /\ \A c \in Client : WF_vars(CommandEnds(c))
  /\ \A h \in {"tool", "heir"} : WF_vars(HolderExits(h) /\ Outside)

FairSpec == Spec /\ DaemonFairness /\ ClientFairness /\ OperationFairness

-----------------------------------------------------------------------------
(* TypeOK: the values each variable takes; slot and lock name a worker     *)
(* that is in the code of acquire_slot, or between it and release_slot.    *)
Halves == {"len", "body"}
OwnsSlot(c) == pc[c] \in {"dispatch", "running", "spawn", "join", "release"}
TypeOK ==
  /\ daemon \in {"serving", "draining", "gone"}
  /\ latch \in Client \union {None}
  /\ \A c \in Client :
       /\ code[c] \in {None} \union 0..255
       /\ Len(wire[c]) <= Room
       /\ OwnsSlot(c) => slot = c
       /\ lock = c => pc[c] \in Halves /\ out[c].type = "busy"
  /\ \A fd \in Fd : sent[fd] <= taken[fd] /\ taken[fd] <= wrote[fd]

(* write_frame and the mutex around it: what is in a socket are the halves *)
(* of whole frames in turn, although two pipe threads and the worker write *)
(* to it; a client never takes one frame's body for another's length.      *)
FramesAreWhole ==
  \A c \in Client : \A i \in DOMAIN wire[c] :
    /\ (i = 1 /\ Reading(c)) => wire[c][i].half = cpc[c]
    /\ (i > 1 /\ wire[c][i].half = "body") =>
         wire[c][i - 1] = [wire[c][i] EXCEPT !.half = "len"]
    /\ (i > 1 /\ wire[c][i].half = "len") => wire[c][i - 1].half = "body"

(* "stdio ... preserved": of each pipe the client of run prints a prefix,  *)
(* in order, with nothing repeated, left out or from the other pipe; a     *)
(* character may have been replaced (0).                                   *)
StdioInOrder ==
  \A c \in Client : \A fd \in Fd : \A i \in DOMAIN shown[c][fd] :
    /\ shown[c][fd][i] \in {i, 0}
    /\ i <= taken[fd] \/ peer # c

(* "Stream frames until Exit": a client that has its exit frame has all of *)
(* the output, and returns the low byte of the status.  With its exit or   *)
(* result it may send the next request: its own holds the slot no longer.  *)
AnswerIsLast ==
  [][\A c \in Client : ReadFinal(c) =>
       LET frame == Head(wire[c]).frame
       IN  /\ frame.type \in {"exit", "result"} => slot # c
           /\ frame.type = "exit" =>
                /\ \A fd \in Fd : Len(shown[c][fd]) = frame.total[fd]
                /\ code'[c] = frame.status % 256]_vars

(* "client gone; keep draining for the log": when the slot is given back,  *)
(* everything the tool and its heirs wrote is in the raw log, as long as   *)
(* writes to it succeed.                                                   *)
LogIsComplete ==
  \A c \in Client :
    pc[c] = "release" /\ out[c].type = "exit" =>
      holders = {} /\ \A fd \in Fd : logged[fd] = 1..wrote[fd]

(* No client that stalls for a while, leaves, or times out keeps the slot. *)
OperationEnds ==
  \A c \in Client : slot = c ~> (slot # c \/ daemon = "gone")

(* A client that is not killed comes back with an exit code, whatever      *)
(* happens to its request: served, refused, too large an answer, or left   *)
(* in the backlog of a daemon that shuts down.                             *)
ClientReturns ==
  \A c \in Client : Reading(c) ~> Closed(c)

(* "the daemon runs the command to completion; the result will be latched" *)
(* for a client that timed out while its command ran.                      *)
TimedOutIsLatched ==
  \A c \in Client :
    (code[c] = 3 /\ slot = c) ~> (latch = c \/ daemon = "gone")

-----------------------------------------------------------------------------
(* Statements of the repository that the code does not meet. *)

(* "Tool argv, stdio, and exit status SHALL be preserved verbatim." *)
StdioVerbatim ==
  \A c \in Client : \A fd \in Fd : \A i \in DOMAIN shown[c][fd] :
    shown[c][fd][i] = i

(* "3  client wait timed out; the command continues in the session": what  *)
(* was not started is not refused, and not left in the backlog.            *)
ThreeMeansContinues ==
  \A c \in Client : code[c] = 3 =>
    /\ out[c].type # "busy"
    /\ daemon = "gone" => pc[c] # "queued"

=============================================================================
