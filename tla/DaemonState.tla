----------------------------- MODULE DaemonState -----------------------------
(***************************************************************************)
(* The state of the headless session daemon (davit/src/daemon.rs): the     *)
(* main thread, the PTY reader thread and one worker thread per accepted   *)
(* connection, the mutex-protected fields of Shared they exchange, and the *)
(* two artifacts they latch for other processes, metadata.json and         *)
(* result.json.                                                            *)
(*                                                                         *)
(* A step of a thread is a stretch of code that no other thread can        *)
(* observe halfway: one critical section, one file write, one socket       *)
(* write.  Everything the code does under two separate lock acquisitions   *)
(* is two steps.                                                           *)
(***************************************************************************)
EXTENDS Interpreter

CONSTANTS
  Requests,     \* the kinds of request the clients of this instance send
  Project,      \* TRUE: the daemon was started with --project
  DiskMayFail,  \* TRUE: write_json may fail (full disk, removed directory)
  Signals       \* signals the container may receive: "TERM", "KILL"

ASSUME RequestsAreKnown ==
  Requests \subseteq {"exec", "stop", "tool", "badtool", "ping", "malformed"}
ASSUME DaemonSwitches ==
  /\ Project \in BOOLEAN
  /\ DiskMayFail \in BOOLEAN
  /\ Signals \subseteq {"TERM", "KILL"}

VARIABLES
  (* The reader thread and Shared.collector. *)
  hand,         \* the chunk the reader has read and not yet handed over
  collecting,   \* Collector.buf is Some
  buf,          \* Collector.buf: the output collected so far
  done,         \* Collector.done
  died,         \* Collector.died
  (* Threads. *)
  pc,           \* what each thread does next
  req,          \* the request of each connection
  res,          \* the result each thread has built, Marker before that
  reply,        \* the final frame each client was sent
  (* The rest of Shared, and the process. *)
  inflight,     \* Shared.inflight: the owner of the one scheduler slot
  meta,         \* Shared.meta
  shutdown,     \* Shared.shutdown
  sigterm,      \* the SIGTERM flag
  sock,         \* the control socket is bound
  fate,         \* how the process ended: "alive", "stopped", "failed", "killed"
  (* Artifacts on disk. *)
  dmeta,        \* metadata.json
  dresult       \* result.json

reader    == <<hand, collecting, buf, done, died>>
clients   == <<req, reply>>
flags     == <<shutdown, sigterm, sock, fate>>
artifacts == <<dmeta, dresult>>
vars == <<vivado, reader, pc, clients, res, inflight, meta, flags, artifacts>>

-----------------------------------------------------------------------------
ExecLabels ==
  {"mark", "setbusy", "pubbusy", "arm", "writer", "send", "wait", "latch", "setidle",
   "pubidle"}
WorkerLabels ==
  ExecLabels \union
  {"none", "pending", "read", "exec", "acquire", "resolve", "refuse", "usage",
   "toolbusy", "pubtool", "spawn", "tooling", "toolfin", "pubfin",
   "release", "answer", "stop", "stopflag", "end"}
StartLabels ==
  ExecLabels \union
  {"publish", "pubmarker", "waitprompt", "opened", "setready", "pubready", "bind"}
LoopLabels ==
  {"poll", "check", "accept", "leave", "drain", "grace", "setstopped", "pubstopped",
   "stopped"}
CrashLabels == {"setcrashed", "pubcrashed", "crashed"}
MainLabels == StartLabels \union LoopLabels \union CrashLabels

States == {"none", "starting", "idle", "busy", "stopped", "crashed"}
Metadata == [state : States, cmd : Source, tool : Source, last : Source]
Results  == [cmd : Source, out : SUBSET Source, errors : BOOLEAN, died : BOOLEAN]
Replies  == {"none", "result", "exit", "busy", "usage", "crashed",
             "internal", "protocol", "ok"}

(* CommandResult::no_completed_command(): the no-result marker. *)
Marker == [cmd |-> None, out |-> {}, errors |-> FALSE, died |-> FALSE]

TypeOK ==
  /\ InterpreterTypeOK
  /\ hand \in Seq(Token)
  /\ collecting \in BOOLEAN
  /\ buf \in SUBSET Token
  /\ done \in BOOLEAN
  /\ died \in BOOLEAN
  /\ pc \in [Thread -> WorkerLabels \union MainLabels]
  /\ pc[Main] \in MainLabels
  /\ \A c \in Conn : pc[c] \in WorkerLabels
  /\ req \in [Conn -> Requests \union {"none"}]
  /\ res \in [Thread -> Results]
  /\ reply \in [Conn -> Replies]
  /\ inflight \in Conn \union {None}
  /\ meta \in Metadata
  /\ shutdown \in BOOLEAN
  /\ sigterm \in BOOLEAN
  /\ sock \in BOOLEAN
  /\ fate \in {"alive", "stopped", "failed", "killed"}
  /\ dmeta \in Metadata
  /\ dresult \in Results

Init ==
  /\ InterpreterInit
  /\ hand = <<>>
  /\ collecting = TRUE
  /\ buf = {}
  /\ done = FALSE
  /\ died = FALSE
  /\ pc = [t \in Thread |-> IF t = Main THEN "publish" ELSE "none"]
  /\ req = [c \in Conn |-> "none"]
  /\ res = [t \in Thread |-> Marker]
  /\ reply = [c \in Conn |-> "none"]
  /\ inflight = None
  /\ meta = [state |-> "starting", cmd |-> None, tool |-> None, last |-> None]
  /\ shutdown = FALSE
  /\ sigterm = FALSE
  /\ sock = FALSE
  /\ fate = "alive"
  /\ dmeta = [state |-> "none", cmd |-> None, tool |-> None, last |-> None]
  /\ dresult = Marker

-----------------------------------------------------------------------------
Alive == fate = "alive"

(* Thread t takes one step, from one label to another. *)
Step(t, from, to) ==
  /\ Alive
  /\ pc[t] = from
  /\ pc' = [pc EXCEPT ![t] = to]

(* A thread is writing to the terminal, with Shared.pty_writer locked: the *)
(* write waits for as long as Vivado leaves no room in the terminal.       *)
Typing(t) == pc[t] \in {"send", "drain"}

(* write_json drops its error: a failed write leaves the old file. *)
SaveMeta   == dmeta' \in {meta} \union (IF DiskMayFail THEN {dmeta} ELSE {})
SaveResult(r) == dresult' \in {r} \union (IF DiskMayFail THEN {dresult} ELSE {})

(* The bytes of a chunk that are not the prompt. *)
TextOf(chunk) == {chunk[i] : i \in {j \in DOMAIN chunk : chunk[j].kind # "prompt"}}

(* PromptMatcher: the stream now ends with the prompt. *)
EndsWithPrompt(chunk) == chunk[Len(chunk)].kind = "prompt"

(* What execute_tcl makes of the collected output. *)
ResultOf(t) ==
  LET dead == died /\ ~done
  IN  [cmd    |-> t,
       out    |-> {tok.src : tok \in buf},
       errors |-> dead \/ \E tok \in buf : tok.kind = "err",
       died   |-> dead]

=============================================================================
