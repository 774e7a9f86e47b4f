---------------------------- MODULE DaemonWorkers ----------------------------
(***************************************************************************)
(* The worker threads, one per accepted connection: the scheduler slot, the *)
(* handlers of exec, stop and the managed tools, and the frames that answer *)
(* the clients.                                                            *)
(***************************************************************************)
EXTENDS DaemonExec

-----------------------------------------------------------------------------
(* Plausible bugs of this module's operators, to see that a property       *)
(* notices each of them.                                                   *)

(* The slot is taken whoever has it. *)
AcquireUnchecked(c) ==
  /\ Step(c, "acquire", IF req[c] = "exec" THEN "mark" ELSE "resolve")
  /\ inflight' = c
  /\ UNCHANGED <<vivado, reader, clients, res, meta, flags, artifacts>>

(* The busy reply is not followed by a return. *)
AcquireFallsThrough(c) ==
  /\ Step(c, "acquire", IF req[c] = "exec" THEN "mark" ELSE "resolve")
  /\ IF inflight = None
       THEN inflight' = c /\ UNCHANGED reply
       ELSE reply' = [reply EXCEPT ![c] = "busy"] /\ UNCHANGED inflight
  /\ UNCHANGED <<vivado, reader, req, res, meta, flags, artifacts>>

(* The early return of a failed spawn forgets the slot. *)
SpawnErrorKeepsSlot(c) ==
  \/ /\ reply[c] = "none"
     /\ Step(c, "release", "answer")
     /\ inflight' = None
     /\ UNCHANGED <<vivado, reader, clients, res, meta, flags, artifacts>>
  \/ reply[c] # "none" /\ Goto(c, "release", "end")

-----------------------------------------------------------------------------
(* A client connects; its request is on the socket. *)
Connect(c) ==
  /\ sock
  /\ Step(c, "none", "pending")
  /\ \E r \in Requests : req' = [req EXCEPT ![c] = r]
  /\ UNCHANGED <<vivado, reader, res, reply, inflight, meta, flags, artifacts>>

(* A step of a worker that sends the final frame. *)
ReplyAnd(c, from, to, r) ==
  /\ Step(c, from, to)
  /\ reply' = [reply EXCEPT ![c] = r]
  /\ UNCHANGED <<vivado, reader, req, res, inflight, meta, flags, artifacts>>

(* handle_connection, and handle_tool's checks of the tool's name and      *)
(* arguments: requests answered without touching the session.              *)
ReadRequest(c) ==
  \/ req[c] = "exec" /\ Goto(c, "read", "exec")
  \/ req[c] = "stop" /\ Goto(c, "read", "stop")
  \/ req[c] = "tool" /\ Goto(c, "read", "acquire")
  \/ req[c] = "badtool" /\ ReplyAnd(c, "read", "end", "usage")
  \/ req[c] = "ping" /\ ReplyAnd(c, "read", "end", "ok")
  \/ req[c] = "malformed" /\ ReplyAnd(c, "read", "end", "protocol")

(* handle_exec refuses at once when Vivado is known to be dead. *)
CheckDied(c) ==
  \/ ~died /\ Goto(c, "exec", "acquire")
  \/ died /\ ReplyAnd(c, "exec", "end", "crashed")

(* acquire_slot: the slot is taken, or the client is told "busy". *)
AcquireSlot(c) ==
  \/ /\ inflight = None
     /\ Step(c, "acquire", IF req[c] = "exec" THEN "mark" ELSE "resolve")
     /\ inflight' = c
     /\ UNCHANGED <<vivado, reader, clients, res, meta, flags, artifacts>>
  \/ inflight # None /\ ReplyAnd(c, "acquire", "end", "busy")

ReleaseSlot(c, from, to) ==
  /\ Step(c, from, to)
  /\ inflight' = None
  /\ UNCHANGED <<vivado, reader, clients, res, meta, flags, artifacts>>

Answer(c) ==
  ReplyAnd(c, "answer", "end", IF req[c] = "exec" THEN "result" ELSE "exit")

(* The operation is over.  A tool that could not be spawned has already    *)
(* been answered.                                                          *)
FinishOperation(c) ==
  ReleaseSlot(c, "release", IF reply[c] = "none" THEN "answer" ELSE "end")

HandleStop(c) ==
  \/ inflight = None /\ ReplyAnd(c, "stop", "stopflag", "ok")
  \/ inflight # None /\ ReplyAnd(c, "stop", "end", "busy")

StoreShutdown(c) ==
  /\ Step(c, "stopflag", "end")
  /\ shutdown' = TRUE
  /\ UNCHANGED <<vivado, reader, clients, res, inflight, meta, sigterm, sock, fate,
                 artifacts>>

-----------------------------------------------------------------------------
(* handle_tool, once it owns the slot.  xsct's TCL file may be missing. *)
ResolveTool(c) ==
  \/ Goto(c, "resolve", "toolbusy")
  \/ Goto(c, "resolve", "refuse")

RefuseTool(c) ==
  \/ ReleaseSlot(c, "refuse", "usage")
  \/ ReplyAnd(c, "usage", "end", "usage")

SetToolBusy(c) ==
  /\ Step(c, "toolbusy", "pubtool")
  /\ meta' = [meta EXCEPT !.state = "busy", !.tool = c]
  /\ UNCHANGED <<vivado, reader, clients, res, inflight, flags, artifacts>>

(* A failed spawn is answered before the operation is closed. *)
SpawnTool(c) ==
  \/ Goto(c, "spawn", "tooling")
  \/ ReplyAnd(c, "spawn", "toolfin", "internal")

(* The tool exits and both of its pipes are drained. *)
ToolExits(c) == Goto(c, "tooling", "toolfin")

(* finish_tool. *)
FinishTool(c) ==
  /\ Step(c, "toolfin", "pubfin")
  /\ meta' = [meta EXCEPT !.state = "idle", !.tool = None, !.last = c]
  /\ UNCHANGED <<vivado, reader, clients, res, inflight, flags, artifacts>>

HandleTool(c) ==
  \/ ResolveTool(c) \/ RefuseTool(c)
  \/ SetToolBusy(c)
  \/ PublishMeta(c, "pubtool", "spawn")
  \/ SpawnTool(c)
  \/ FinishTool(c)
  \/ PublishMeta(c, "pubfin", "release")

Worker(c) ==
  \/ ReadRequest(c) \/ CheckDied(c) \/ AcquireSlot(c)
  \/ ExecuteTcl(c)
  \/ HandleTool(c)
  \/ FinishOperation(c) \/ Answer(c)
  \/ HandleStop(c) \/ StoreShutdown(c)

=============================================================================
