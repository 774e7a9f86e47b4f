----------------------------- MODULE DaemonProps -----------------------------
(***************************************************************************)
(* The properties of the daemon, and its refinement of OneAtATime.         *)
(***************************************************************************)
EXTENDS Daemon

(* The commands Vivado has been sent and has not finished. *)
Dispatched ==
  ({stdin[i] : i \in DOMAIN stdin} \union {running}) \ {None}

(* Labels between the dispatch of a command and its latched result. *)
DispatchLabels == {"setbusy", "pubbusy", "arm", "writer", "send", "wait", "latch"}
(* Labels between the arming of the collector and the dispatch. *)
ArmedLabels == {"writer", "send"}
(* Labels up to the wait for the end of a command. *)
EarlyLabels ==
  {"publish", "pubmarker", "waitprompt", "none", "pending", "read", "exec", "acquire",
   "mark", "setbusy", "pubbusy", "arm", "writer", "send", "wait"}
(* Labels at which a connection's worker owns the scheduler slot. *)
SlotLabels ==
  ExecLabels \union {"resolve", "refuse", "toolbusy", "pubtool", "spawn", "tooling",
                     "toolfin", "pubfin", "release"}

-----------------------------------------------------------------------------
(* "The daemon SHALL ... execute at most one operation at a time": the     *)
(* interpreter is never sent a command while it has another one, running   *)
(* or typed ahead, and no tool runs beside a command.                      *)
OneOperation ==
  /\ \A s, t \in Dispatched : s = t
  /\ \A i, j \in DOMAIN stdin : stdin[i] # None /\ stdin[j] # None => i = j
  /\ running # None => \A i \in DOMAIN stdin : stdin[i] = None
  /\ \A c \in Conn : pc[c] = "tooling" => Dispatched = {}

(* execute_tcl executes "one TCL operation to completion": once a thread   *)
(* has taken the output and not found Vivado dead, the interpreter no      *)
(* longer has its command.                                                 *)
CompletionIsReal ==
  \A t \in Thread : res[t].cmd = t /\ ~res[t].died => t \notin Dispatched

(* A result holds only what its own command printed (or Vivado printed     *)
(* outside any command), never the output of another command.              *)
ResultIsOwnOutput ==
  \A t \in Thread : res[t].cmd = t => res[t].out \subseteq {t, None}

(* "Latch the no-result marker first so stale output can never leak":      *)
(* as long as a command is dispatched and unfinished, result.json is the   *)
(* marker, not an older result.                                            *)
NoStaleResult ==
  Dispatched # {} => dresult = Marker

(* "Write `data` to `path` via temp file + atomic rename": the temporary   *)
(* file is named for the process, so two threads that write result.json at *)
(* once would mix their bytes in it.  metadata.json has a lock for that;   *)
(* for result.json, only the order of the operations keeps them apart.     *)
ResultWriters == {t \in Thread : pc[t] \in {"pubmarker", "mark", "latch"}}
OneResultWriter == Alive => \A s, t \in ResultWriters : s = t

(* metadata.json says "idle" only when nothing is in flight: no command    *)
(* in the interpreter, no tool running.  Pollers of `dv show status` take  *)
(* idle for the end of their command.                                      *)
IdleMeansQuiet ==
  dmeta.state = "idle" =>
    /\ Dispatched = {}
    /\ \A c \in Conn : pc[c] # "tooling"

(* The step that publishes the end of command t in metadata.json finds     *)
(* t's result already in result.json: "poll `dv show status` and fetch the *)
(* outcome with `dv show result` when idle again".                         *)
IdlePublishesResult ==
  [][dmeta.cmd # None /\ dmeta'.cmd = None => dresult.cmd = dmeta.cmd]_vars

(* "healthy only when the session is ready": idle or busy only once        *)
(* startup, with the project, is over.                                     *)
HealthyMeansReady ==
  dmeta.state \in {"idle", "busy"} =>
    pc[Main] \notin StartLabels \ {"pubready", "bind"}

(* Clients can reach the daemon only if the project it was started with    *)
(* was opened without errors.                                              *)
SocketMeansProjectOpen ==
  sock /\ Project => res[Main].cmd = Main /\ ~res[Main].errors

(* A client told "busy" has had no effect: nothing of its request reaches  *)
(* the interpreter, the collector or the latched result.                   *)
BusyHasNoEffect ==
  \A c \in Conn : reply[c] \in {"busy", "crashed", "usage"} =>
    /\ c \notin Dispatched
    /\ \A tok \in buf : tok.src # c
    /\ dresult.cmd # c /\ dmeta.cmd # c /\ meta.tool # c

(* Labels of the main thread once it has typed "exit". *)
LeavingLabels == {"grace", "setstopped", "pubstopped", "stopped"}

(* A prompt is recognised only at the end of a read, and what is missed is *)
(* never looked at again: the read that holds the prompt of a command      *)
(* completes it.  Only the "exit" of a shutdown, typed behind a command    *)
(* that still runs, may bring a read that goes on behind the prompt; that  *)
(* command is then reported as one in which Vivado died.                   *)
ReadHoldsPrompt == hand' = <<>> /\ \E i \in DOMAIN hand : hand[i].kind = "prompt"

PromptIsNotMissed ==
  [][ReadHoldsPrompt => done' \/ pc[Main] \in LeavingLabels]_vars

-----------------------------------------------------------------------------
(* Why the safety properties hold: an inductive invariant in parts.        *)

(* The slot belongs to the worker that is in the code it protects; there   *)
(* are workers only behind a bound socket, hence none while the main       *)
(* thread starts up and opens the project without taking the slot.         *)
SlotInv ==
  /\ \A c \in Conn : pc[c] \in SlotLabels <=> inflight = c
  /\ pc[Main] \in StartLabels => ~sock /\ \A c \in Conn : pc[c] = "none"
  /\ pc[Main] \in LoopLabels /\ Alive => sock
  /\ Alive /\ ~sock => \A c \in Conn : pc[c] = "none"

NoPromptIn(s)  == \A i \in DOMAIN s : s[i].kind # "prompt"
OnePromptIn(s) == \A i, j \in DOMAIN s : s[i].kind = "prompt" /\ s[j].kind = "prompt" => i = j
NoPrompt == NoPromptIn(hand) /\ NoPromptIn(pty)

(* The first prompt has been consumed: commands may be dispatched. *)
Ready == sock \/ pc[Main] \in ExecLabels \union {"opened", "setready", "pubready", "bind"}

(* One prompt is expected for each command, and it is consumed before the  *)
(* next command is sent: a prompt under way means that the interpreter has *)
(* nothing left to do and that nobody has been told yet.                   *)
PromptInv ==
  /\ interp = "running" <=> running # None
  /\ interp \in {"booting", "dead"} => stdin = <<>>
  /\ interp = "booting" => ~done /\ NoPrompt
  /\ OnePromptIn(hand) /\ OnePromptIn(pty)
  /\ NoPromptIn(hand) \/ NoPromptIn(pty)
  /\ ~NoPrompt => Dispatched = {} /\ ~done
  /\ died => interp = "dead" /\ pty = <<>> /\ hand = <<>>
  /\ Alive /\ Ready => interp # "booting"
  /\ Alive /\ Ready /\ (\A t \in Thread : pc[t] # "wait") => NoPrompt
  /\ \A t \in Thread : pc[t] \in ArmedLabels => ~done

(* A command is in the interpreter only while its thread waits for it, and *)
(* once; its thread has no result yet, and the marker has been written.    *)
CommandInv ==
  /\ \A t \in Dispatched : pc[t] = "wait" /\ ~done
  /\ \A i, j \in DOMAIN stdin : stdin[i] # None /\ stdin[j] # None => i = j
  /\ running # None => \A i \in DOMAIN stdin : stdin[i] = None
  /\ \A t \in Thread : pc[t] \in EarlyLabels => res[t].cmd = None
  /\ \A t \in Thread : pc[t] \in DispatchLabels => dresult = Marker \/ DiskMayFail

CoreInv == SlotInv /\ PromptInv /\ CommandInv

(* Labels between the announcement of a command, or of a tool, in memory   *)
(* and the step that takes it back.                                        *)
BusyLabels == {"pubbusy", "arm", "writer", "send", "wait", "latch", "setidle"}
ToolBusyLabels == {"pubtool", "spawn", "tooling", "toolfin"}

(* Who asked for a command runs one, who asked for a tool does not. *)
RequestInv ==
  \A c \in Conn :
    /\ pc[c] \in ExecLabels => req[c] = "exec"
    /\ pc[c] \in SlotLabels \ (ExecLabels \union {"release"}) => req[c] # "exec"

(* A thread that has taken the output has the result of its own command,   *)
(* and startup goes on only from a project that opened without errors.     *)
OwnInv ==
  /\ \A t \in Thread : res[t].cmd \in {None, t}
  /\ \A t \in Thread : pc[t] \in {"latch", "setidle", "pubidle", "opened"} => res[t].cmd = t
  /\ pc[Main] \in {"publish", "pubmarker"} => dresult.cmd = None
  /\ Project /\ (sock \/ pc[Main] \in {"setready", "pubready", "bind"}) =>
       res[Main].cmd = Main /\ ~res[Main].errors

(* What memory and metadata.json say of the command or tool under way, and *)
(* that its result is in result.json before either forgets it.             *)
RecordInv ==
  /\ \A t \in Thread : meta.cmd = t <=> pc[t] \in BusyLabels
  /\ \A t \in Thread : dmeta.cmd = t => pc[t] \in BusyLabels \union {"pubidle"}
  /\ \A t \in Thread :
       /\ pc[t] \in BusyLabels \union ToolBusyLabels => meta.state # "idle"
       /\ pc[t] \in (BusyLabels \union ToolBusyLabels) \ {"pubbusy", "pubtool"} =>
            dmeta.state # "idle"
       /\ pc[t] \in {"setidle", "pubidle"} => dresult.cmd = t

(* Nothing but the farewell of Vivado follows a prompt, and what the       *)
(* threads have not taken yet comes from the one that is waiting.          *)
NothingAfterPrompt(s) ==
  \A i, j \in DOMAIN s : i < j /\ s[i].kind = "prompt" => s[j].src = None
Awaited(src) == src # None => pc[src] = "wait"

OutputInv ==
  /\ NothingAfterPrompt(hand) /\ NothingAfterPrompt(pty)
  /\ ~NoPromptIn(hand) \/ done =>
       \A i \in DOMAIN pty : pty[i].src = None
  /\ done => \A i \in DOMAIN hand : hand[i].src = None
  /\ \A i \in DOMAIN hand : Awaited(hand[i].src)
  /\ \A i \in DOMAIN pty : Awaited(pty[i].src)
  /\ \A tok \in buf : Awaited(tok.src)
  /\ ResultIsOwnOutput

(* Vivado says goodbye only to the "exit" of a shutdown. *)
Leaving == pc[Main] \in LeavingLabels
FarewellIn(s) == \E i \in DOMAIN s : s[i].src = None /\ s[i].kind # "prompt"

FarewellInv ==
  /\ (\E i \in DOMAIN stdin : stdin[i] = None) => Leaving
  /\ FarewellIn(pty) \/ FarewellIn(hand) => Leaving

(* Nothing shows a trace of a connection that is told no, neither after    *)
(* the reply nor on the way to it.                                         *)
Refused(c) == reply[c] \in {"busy", "crashed", "usage"}
FreshLabels == {"none", "pending", "read", "exec", "acquire", "resolve", "refuse",
                "usage", "stop"}
Untouched(c) ==
  /\ c \notin Dispatched
  /\ \A i \in DOMAIN hand : hand[i].src # c
  /\ \A i \in DOMAIN pty : pty[i].src # c
  /\ \A tok \in buf : tok.src # c
  /\ dresult.cmd # c /\ dmeta.cmd # c
  /\ meta.cmd # c /\ meta.tool # c

UntouchedInv ==
  \A c \in Conn :
    /\ Refused(c) => pc[c] = "end"
    /\ Refused(c) \/ pc[c] \in FreshLabels => Untouched(c)

(* What memory and metadata.json say in each phase of the main thread: the *)
(* startup alone moves from starting over busy to idle, and a project that *)
(* Vivado died of is not ready; workers announce no more than idle, busy   *)
(* and crashed.                                                            *)
StateInv ==
  LET at == pc[Main]
      outcome == IF res[Main].died THEN "crashed" ELSE "idle"
  IN  /\ at \in ExecLabels \union {"opened"} => Project
      /\ res[Main].died => res[Main].errors
      /\ at \in {"publish", "pubmarker", "waitprompt", "mark", "setbusy"} =>
           meta.state = "starting"
      /\ at \in BusyLabels => meta.state = "busy"
      /\ at = "pubidle" => meta.state = outcome
      /\ at = "pubready" => meta.state = "idle"
      /\ at = "publish" => dmeta.state = "none"
      /\ at \in {"pubmarker", "waitprompt", "mark", "setbusy", "pubbusy"} =>
           dmeta.state = "starting"
      /\ at \in (BusyLabels \ {"pubbusy"}) \union {"pubidle"} => dmeta.state = "busy"
      /\ at = "opened" => dmeta.state = outcome
      /\ at \in {"setready", "pubready"} =>
           dmeta.state = IF Project THEN "idle" ELSE "starting"
      /\ Alive /\ at \in {"setcrashed", "pubcrashed"} /\ ~sock =>
           /\ dmeta.state \in {"starting", "idle", "crashed"}
           /\ at = "pubcrashed" => meta.state = "crashed"
      /\ at = "bind" \/ (Alive /\ sock) =>
           meta.state \in {"idle", "busy", "crashed", "stopped"}
      /\ meta.state = "stopped" => at \in {"pubstopped", "stopped"}

IInv ==
  /\ TypeOK /\ CoreInv /\ RequestInv /\ OwnInv /\ RecordInv
  /\ StateInv /\ OutputInv /\ FarewellInv /\ UntouchedInv

-----------------------------------------------------------------------------
(* Liveness.  Every request sent to the socket is answered and gives the   *)
(* slot back, or the daemon ends: no path, and no early return, loses the  *)
(* slot or a reply, if Vivado takes its input and finishes its commands,   *)
(* and tools exit; the daemon has no timeout of its own.                   *)
EveryRequestAnswered ==
  VivadoFairness /\ PtyFairness /\ TerminalFairness =>
    \A c \in Conn :
      pc[c] = "pending" ~> ((reply[c] # "none" /\ inflight # c) \/ ~Alive)

(* SIGTERM, or an accepted stop, ends the process whatever becomes of the  *)
(* commands and tools in flight: if Vivado never finishes its command, if  *)
(* it never acts on "exit" and if its PTY is never closed.  What it must   *)
(* do is take its input, without which the daemon does not come to the     *)
(* bounded part of its wait (StopAlwaysEnds).                              *)
StopEnds == TerminalFairness => ((sigterm \/ shutdown) ~> ~Alive)

(* The lifetimes are coupled: the daemon ends when Vivado has died, and    *)
(* with it the last process that has the PTY open: then nothing is left    *)
(* to hold up a write to it, or its end of file.                           *)
DeathEnds ==
  PtyFairness /\ TerminalFairness => (interp = "dead" ~> ~Alive)

-----------------------------------------------------------------------------
(* The daemon implements OneAtATime: the slot is held by the main thread   *)
(* while it opens the project, and by the owner of inflight afterwards.    *)
Holder == IF pc[Main] \in ExecLabels THEN Main ELSE inflight

HasLatched(t) ==
  \/ pc[t] \in {"setidle", "pubidle"}
  \/ pc[t] = "release" /\ req[t] = "exec"

Phase ==
  CASE Holder = None -> "free"
    [] Holder # None /\ pc[Holder] \in DispatchLabels -> "dispatched"
    [] Holder # None /\ pc[Holder] \notin DispatchLabels /\ HasLatched(Holder) -> "latched"
    [] OTHER -> "held"

Scheduler == INSTANCE OneAtATime
  WITH Op <- Thread, Nobody <- None,
       holder <- Holder, phase <- Phase, latch <- dresult.cmd

ImplementsOneAtATime == Scheduler!Spec

-----------------------------------------------------------------------------
(* The daemon implements SessionLife: its phase is read off the main       *)
(* thread, and in the startup off what metadata.json has come to say.      *)
StartupPhase ==
  IF dmeta.state = "none" THEN "published"
  ELSE IF dmeta.state = "starting" THEN "starting" ELSE "opening"

ServicePhase ==
  IF pc[Main] \in {"leave", "drain", "grace", "setstopped", "pubstopped"} THEN "draining"
  ELSE IF pc[Main] \in {"stopped", "crashed"} THEN "ending" ELSE "ready"

LifePhase ==
  IF ~Alive THEN "none"
  ELSE IF sock \/ pc[Main] = "bind" THEN ServicePhase
  ELSE IF pc[Main] = "crashed" THEN "failed" ELSE StartupPhase

LifeWord == IF dmeta.state \in {"idle", "busy"} THEN "ready" ELSE dmeta.state

Life == INSTANCE SessionLife WITH Abrupt <- TRUE, phase <- LifePhase, said <- LifeWord

ImplementsSessionLife == Life!LifeSpec

-----------------------------------------------------------------------------
(* Statements of the repository that the code does not meet. *)

(* "Graceful daemon shutdown; refused while a command is in flight."       *)
StopExcludesCommands == shutdown => inflight = None

(* "Vivado death outside a command: coupled lifetime." *)
CrashPathOutsideCommands == pc[Main] = "crashed" => inflight = None

(* A command whose prompt is back has ended, whatever comes behind it.     *)
EveryPromptCompletes == [][ReadHoldsPrompt => done']_vars

(* "Graceful shutdown: ask Vivado to exit, wait bounded": however Vivado   *)
(* treats its terminal.                                                    *)
StopAlwaysEnds == (sigterm \/ shutdown) ~> ~Alive

(* metadata.json keeps the state in which the daemon ended. *)
FinalStateIsKept ==
  /\ fate = "stopped" => dmeta.state = "stopped"
  /\ fate = "failed" => dmeta.state = "crashed"

=============================================================================
