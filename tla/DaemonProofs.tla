----------------------------- MODULE DaemonProofs -----------------------------
(***************************************************************************)
(* The daemon's safety properties, for every set of connections.  The      *)
(* theorems assume what the properties themselves need: that Vivado's      *)
(* output never looks like its prompt at the end of a chunk, and, for the  *)
(* one about result.json, that it can be written.  TLC refutes each        *)
(* statement without its assumption.                                       *)
(***************************************************************************)
EXTENDS DaemonProps, DaemonTypeProofs

-----------------------------------------------------------------------------
(* Part one: the slot. *)

(* A worker moves without taking or leaving the slot. *)
LEMMA SlotMove ==
  ASSUME TypeOK, SlotInv, NEW c \in Conn, NEW from, NEW to, Step(c, from, to),
         from # "none" \/ sock,
         from \in SlotLabels <=> to \in SlotLabels,
         UNCHANGED <<inflight, sock, fate>>
  PROVE  SlotInv'
BY ThreadsAreDistinct DEF SlotInv, Step, Alive, TypeOK, Thread

(* The main thread moves, within startup or within the loop. *)
LEMMA SlotMainMove ==
  ASSUME TypeOK, SlotInv, NEW from, NEW to, Step(Main, from, to),
         to \in StartLabels => from \in StartLabels,
         to \in LoopLabels => from \in LoopLabels,
         UNCHANGED <<inflight, sock, fate>>
  PROVE  SlotInv'
BY ThreadsAreDistinct DEF SlotInv, Step, Alive, TypeOK, Thread

(* execute_tcl runs entirely inside the slot, or inside startup. *)
LEMMA SlotExecute ==
  ASSUME TypeOK, SlotInv, NEW t \in Thread, ExecuteTcl(t)
  PROVE  SlotInv'
<1>1. PICK from \in ExecLabels, to \in ExecLabels \union {AfterExec(t)} :
        Step(t, from, to) /\ UNCHANGED <<inflight, sock, fate>>
  BY DEF ExecuteTcl, LatchMarker, SetBusy, PublishMeta, ArmCollector, LockWriter, Goto,
         SendCommand, TakeOutput, LatchResult, SetIdle, ExecLabels, flags
<1>2. CASE t = Main
  BY <1>1, <1>2, SlotMainMove DEF AfterExec, StartLabels, LoopLabels, ExecLabels
<1>3. CASE t \in Conn
  BY <1>1, <1>3, SlotMove, ThreadsAreDistinct DEF AfterExec, SlotLabels, ExecLabels
<1> QED BY <1>2, <1>3 DEF Thread

(* No step of a worker gives the slot to two, or leaves it behind.         *)
LEMMA SlotWorker ==
  ASSUME TypeOK, SlotInv, NEW c \in Conn, Worker(c)
  PROVE  SlotInv'
<1> USE DEF flags
<1>g. ASSUME NEW from, NEW to, Goto(c, from, to), from # "none",
             from \in SlotLabels <=> to \in SlotLabels
      PROVE  SlotInv'
  BY <1>g, SlotMove DEF Goto
<1>r. ASSUME NEW from, NEW to, NEW r, ReplyAnd(c, from, to, r), from # "none",
             from \in SlotLabels <=> to \in SlotLabels
      PROVE  SlotInv'
  BY <1>r, SlotMove DEF ReplyAnd
<1>s. ASSUME NEW from \in SlotLabels \ {"none"}, NEW to, ReleaseSlot(c, from, to),
             to \notin SlotLabels
      PROVE  SlotInv'
  BY <1>s, ThreadsAreDistinct
  DEF ReleaseSlot, SlotInv, Step, Alive, TypeOK, Thread
<1>1. CASE ReadRequest(c)
  BY <1>1, <1>g, <1>r DEF ReadRequest, SlotLabels, ExecLabels
<1>2. CASE CheckDied(c)
  BY <1>2, <1>g, <1>r DEF CheckDied, SlotLabels, ExecLabels
<1>3. CASE AcquireSlot(c)
  <2>1. CASE inflight # None /\ ReplyAnd(c, "acquire", "end", "busy")
    BY <2>1, <1>r DEF SlotLabels, ExecLabels
  <2>2. CASE inflight = None /\ inflight' = c
             /\ Step(c, "acquire", IF req[c] = "exec" THEN "mark" ELSE "resolve")
             /\ UNCHANGED <<vivado, reader, clients, res, meta, flags, artifacts>>
    BY <2>2, ThreadsAreDistinct
    DEF SlotInv, Step, Alive, TypeOK, Thread, SlotLabels, ExecLabels
  <2> QED BY <1>3, <2>1, <2>2 DEF AcquireSlot
<1>4. CASE ExecuteTcl(c)
  BY <1>4, SlotExecute DEF Thread
<1>5. CASE HandleTool(c)
  <2>1. CASE ResolveTool(c) \/ SpawnTool(c)
    BY <2>1, <1>g, <1>r DEF ResolveTool, SpawnTool, SlotLabels
  <2>2. CASE RefuseTool(c)
    BY <2>2, <1>r, <1>s DEF RefuseTool, SlotLabels, ExecLabels
  <2>3. CASE SetToolBusy(c) \/ FinishTool(c)
    BY <2>3, SlotMove DEF SetToolBusy, FinishTool, SlotLabels
  <2>4. CASE PublishMeta(c, "pubtool", "spawn") \/ PublishMeta(c, "pubfin", "release")
    BY <2>4, SlotMove DEF PublishMeta, SlotLabels
  <2> QED BY <1>5, <2>1, <2>2, <2>3, <2>4 DEF HandleTool
<1>6. CASE FinishOperation(c)
  BY <1>6, <1>s DEF FinishOperation, SlotLabels, ExecLabels
<1>7. CASE Answer(c) \/ HandleStop(c)
  BY <1>7, <1>r DEF Answer, HandleStop, SlotLabels, ExecLabels
<1>8. CASE StoreShutdown(c)
  BY <1>8, SlotMove DEF StoreShutdown, SlotLabels, ExecLabels
<1> QED
  BY <1>1, <1>2, <1>3, <1>4, <1>5, <1>6, <1>7, <1>8 DEF Worker

(* The main thread leaves the slot alone, and opens the project before     *)
(* there are workers.                                                      *)
LEMMA SlotMain ==
  ASSUME TypeOK, SlotInv, MainThread
  PROVE  SlotInv'
<1> USE DEF flags
<1>g. ASSUME NEW from, NEW to, MainGoto(from, to),
             to \in StartLabels => from \in StartLabels,
             to \in LoopLabels => from \in LoopLabels
      PROVE  SlotInv'
  BY <1>g, SlotMainMove DEF MainGoto
<1>e. ASSUME NEW label \in {"bind", "stopped", "crashed"}, NEW how \in {"stopped", "failed"},
             Exit(label, how)
      PROVE  SlotInv'
  BY <1>e, ThreadsAreDistinct
  DEF Exit, SlotInv, Step, Alive, TypeOK, Thread, StartLabels, LoopLabels, ExecLabels
<1>1. CASE Startup
  <2>1. CASE ExecuteTcl(Main)
    BY <2>1, SlotExecute DEF Thread
  <2>2. CASE Bind
    BY <2>2, ThreadsAreDistinct
    DEF Bind, SlotInv, Step, Alive, TypeOK, Thread, StartLabels, LoopLabels, ExecLabels
  <2>3. CASE WaitPrompt \/ OpenProjectDone
    BY <2>3, <1>g DEF WaitPrompt, OpenProjectDone, StartLabels, LoopLabels, ExecLabels
  <2>4. CASE PublishMarker \/ SetState("setready", "pubready", "idle")
             \/ PublishMeta(Main, "publish", "pubmarker")
             \/ PublishMeta(Main, "pubready", "bind")
    BY <2>4, SlotMainMove
    DEF PublishMarker, SetState, PublishMeta, StartLabels, LoopLabels, ExecLabels
  <2>5. CASE BindFails
    BY <2>5, <1>e DEF BindFails
  <2> QED BY <1>1, <2>1, <2>2, <2>3, <2>4, <2>5 DEF Startup
<1>2. CASE Serve
  <2>1. CASE PollFlags \/ CheckVivado
    BY <2>1, <1>g DEF PollFlags, CheckVivado, StartLabels, LoopLabels, ExecLabels
  <2>2. ASSUME NEW c \in Conn, pc[c] = "pending", pc[Main] = "accept",
               pc' = [pc EXCEPT ![Main] = "poll", ![c] = "read"],
               UNCHANGED <<inflight, flags>>
        PROVE  SlotInv'
    BY <2>2, ThreadsAreDistinct
    DEF SlotInv, Alive, TypeOK, Thread, StartLabels, LoopLabels, ExecLabels, SlotLabels
  <2>3. CASE MainGoto("accept", "poll")
    BY <2>3, <1>g DEF StartLabels, LoopLabels, ExecLabels
  <2> QED BY <1>2, <2>1, <2>2, <2>3 DEF Serve, Accept
<1>3. CASE Shutdown
  <2>1. CASE \/ LockWriter(Main, "leave", "drain") \/ AskVivadoToExit \/ EndGrace
             \/ SetState("setstopped", "pubstopped", "stopped")
             \/ PublishMeta(Main, "pubstopped", "stopped")
    BY <2>1, SlotMainMove
    DEF LockWriter, Goto, AskVivadoToExit, EndGrace, SetState, PublishMeta, StartLabels, LoopLabels, ExecLabels
  <2>2. CASE Exit("stopped", "stopped")
    BY <2>2, <1>e
  <2> QED BY <1>3, <2>1, <2>2 DEF Shutdown
<1>4. CASE Crash
  <2>1. CASE SetState("setcrashed", "pubcrashed", "crashed")
             \/ PublishMeta(Main, "pubcrashed", "crashed")
    BY <2>1, SlotMainMove
    DEF SetState, PublishMeta, StartLabels, LoopLabels, ExecLabels
  <2>2. CASE Exit("crashed", "failed")
    BY <2>2, <1>e
  <2> QED BY <1>4, <2>1, <2>2 DEF Crash
<1> QED BY <1>1, <1>2, <1>3, <1>4 DEF MainThread

(* The slot part is inductive on its own. *)
LEMMA SlotInductive ==
  ASSUME TypeOK, SlotInv, [Next]_vars
  PROVE  SlotInv'
<1> USE DEF flags
<1>1. CASE Reader
  BY <1>1 DEF Reader, ReadChunk, Feed, ReaderEof, SlotInv, Alive
<1>2. ASSUME NEW c \in Conn, Connect(c)
      PROVE  SlotInv'
  BY <1>2, SlotMove DEF Connect, SlotLabels, ExecLabels
<1>3. ASSUME NEW c \in Conn, Worker(c)
      PROVE  SlotInv'
  BY <1>3, SlotWorker
<1>4. ASSUME NEW c \in Conn, ToolExits(c)
      PROVE  SlotInv'
  BY <1>4, SlotMove DEF ToolExits, Goto, SlotLabels
<1>5. CASE MainThread
  BY <1>5, SlotMain
<1>6. CASE Terminate \/ Kill
  BY <1>6 DEF Terminate, Kill, SlotInv, Alive
<1>7. CASE Vivado
  BY <1>7 DEF Vivado, SlotInv, Alive
<1>8. CASE UNCHANGED vars
  BY <1>8 DEF vars, SlotInv, Alive
<1> QED
  BY <1>1, <1>2, <1>3, <1>4, <1>5, <1>6, <1>7, <1>8 DEF Next, Ended

-----------------------------------------------------------------------------
(* Part two: prompts and commands. *)

(* Threads exclude each other inside execute_tcl. *)
LEMMA OneExecutor ==
  ASSUME TypeOK, SlotInv, Alive, NEW s \in Thread, NEW t \in Thread,
         pc[s] \in ExecLabels, pc[t] \in ExecLabels
  PROVE  s = t
<1>1. ASSUME NEW c \in Conn, pc[c] \in ExecLabels
      PROVE  inflight = c /\ pc[Main] \notin ExecLabels
  <2>1. inflight = c
    BY <1>1 DEF SlotInv, SlotLabels
  <2>2. sock
    BY <1>1 DEF SlotInv, ExecLabels
  <2> QED BY <2>1, <2>2 DEF SlotInv, StartLabels
<1> QED BY <1>1 DEF Thread

(* A thread inside execute_tcl runs after the first prompt. *)
LEMMA ExecutorReady ==
  ASSUME SlotInv, Alive, NEW t \in Thread, pc[t] \in ExecLabels
  PROVE  Ready
BY DEF SlotInv, Ready, Thread, ExecLabels

(* Nothing is dispatched exactly when the interpreter runs nothing and its *)
(* input holds no command.                                                 *)
LEMMA DispatchedIsEmpty ==
  ASSUME TypeOK
  PROVE  /\ Dispatched \subseteq Thread
         /\ stdin = <<>> /\ running = None => Dispatched = {}
         /\ Dispatched = {} => running = None /\ \A i \in DOMAIN stdin : stdin[i] = None
<1>1. \A i \in DOMAIN stdin : stdin[i] \in Source
  BY ElementOfSeq DEF TypeOK, InterpreterTypeOK
<1>2. running \in Source
  BY DEF TypeOK, InterpreterTypeOK
<1>3. Dispatched \subseteq Thread
  BY <1>1, <1>2 DEF Dispatched, Source
<1>4. stdin = <<>> /\ running = None => Dispatched = {}
  BY DEF Dispatched
<1>5. Dispatched = {} => running = None /\ \A i \in DOMAIN stdin : stdin[i] = None
  BY DEF Dispatched
<1> QED BY <1>3, <1>4, <1>5

(* The two labels of an armed collector are written out wherever they matter. *)
USE DEF ArmedLabels

(* Steps that leave the interpreter and the collector alone. *)
LEMMA PromptQuiet ==
  ASSUME PromptInv, Alive' => Alive, Ready' /\ Alive => Ready,
         UNCHANGED <<interp, running, stdin, pty, hand, done, died>>,
         \A t \in Thread : pc[t] = "wait" => pc'[t] = "wait",
         \A t \in Thread : pc'[t] \in ArmedLabels => pc[t] \in ArmedLabels
  PROVE  PromptInv'
BY DEF PromptInv, NoPrompt, NoPromptIn, OnePromptIn, Dispatched

(* A step that leaves the interpreter, its input and `done` alone keeps    *)
(* CommandInv, if who waits goes on waiting and who is to dispatch finds   *)
(* the marker in result.json.                                              *)
LEMMA CommandQuiet ==
  ASSUME TypeOK, CommandInv,
         UNCHANGED <<running, stdin, done>>,
         \A t \in Thread : pc[t] = "wait" => pc'[t] = "wait",
         \A t \in Thread : pc'[t] \in EarlyLabels => pc[t] \in EarlyLabels /\ res'[t] = res[t],
         \A t \in Thread : pc'[t] \in DispatchLabels =>
           dresult' = Marker \/ DiskMayFail \/ (pc[t] \in DispatchLabels /\ dresult' = dresult)
  PROVE  CommandInv'
<1>1. Dispatched' = Dispatched
  BY DEF Dispatched
<1>2. Dispatched \subseteq Thread
  BY DispatchedIsEmpty
<1> QED BY <1>1, <1>2 DEF CommandInv

(* A thread moves between labels where nothing is sent or awaited. *)
LEMMA QuietMove ==
  ASSUME TypeOK, PromptInv, CommandInv, NEW t \in Thread, NEW from, NEW to,
         Step(t, from, to), from # "wait",
         to \in ArmedLabels => from \in ArmedLabels,
         to \in EarlyLabels => from \in EarlyLabels,
         to \in DispatchLabels => from \in DispatchLabels,
         Ready' => Ready,
         UNCHANGED <<vivado, reader, res, fate, dresult>>
  PROVE  PromptInv' /\ CommandInv'
<1>1. /\ \A s \in Thread : pc'[s] = IF s = t THEN to ELSE pc[s]
      /\ pc[t] = from
  BY DEF Step, TypeOK
<1>2. PromptInv'
  BY <1>1, PromptQuiet DEF vivado, reader, Alive
<1>3. CommandInv'
  BY <1>1, CommandQuiet DEF vivado, reader
<1> QED BY <1>2, <1>3

(* Only the main thread makes the daemon ready for commands.               *)
LEMMA WorkerNotReady ==
  ASSUME TypeOK, NEW c \in Conn, NEW from, NEW to, Step(c, from, to), sock' = sock
  PROVE  Ready' => Ready
BY ThreadsAreDistinct DEF Ready, Step, TypeOK, Thread

(* execute_tcl: the collector is armed when no prompt can be under way,    *)
(* the command is sent to an interpreter that has nothing left to do, and  *)
(* the wait ends when it has nothing left to do again.                     *)
LEMMA ExecuteInv ==
  ASSUME TypeOK, SlotInv, PromptInv, CommandInv, NEW t \in Thread, ExecuteTcl(t)
  PROVE  PromptInv' /\ CommandInv'
<1> USE DEF vivado, reader, flags, artifacts
<1>a. Alive /\ pc[t] \in ExecLabels /\ fate' = fate /\ sock' = sock
  BY DEF ExecuteTcl, LatchMarker, SetBusy, PublishMeta, ArmCollector, LockWriter, Goto,
         SendCommand, TakeOutput, LatchResult, SetIdle, ExecLabels, Step
<1>b. Ready /\ interp # "booting"
  BY <1>a, ExecutorReady DEF PromptInv
<1>c. ASSUME pc[t] # "wait"
      PROVE  NoPrompt /\ Dispatched = {}
  <2>1. \A s \in Thread : pc[s] # "wait"
    BY <1>a, <1>c, OneExecutor DEF ExecLabels
  <2> QED BY <1>a, <1>b, <2>1, DispatchedIsEmpty DEF PromptInv, CommandInv
<1>d. \A s \in Thread : s # t => pc[s] \notin DispatchLabels
  BY <1>a, OneExecutor DEF ExecLabels, DispatchLabels
<1>s. ASSUME NEW from, NEW to, Step(t, from, to)
      PROVE  /\ \A s \in Thread : pc'[s] = IF s = t THEN to ELSE pc[s]
             /\ pc[t] = from
  BY <1>s DEF Step, TypeOK
<1>1. CASE LatchMarker(t)
  <2>1. dresult' = Marker \/ DiskMayFail
    BY <1>1 DEF LatchMarker, SaveResult
  <2>2. \A s \in Thread : pc'[s] = IF s = t THEN "setbusy" ELSE pc[s]
    BY <1>1, <1>s DEF LatchMarker
  <2>3. pc[t] = "mark" /\ UNCHANGED <<vivado, reader, res, fate>>
    BY <1>1, <1>s DEF LatchMarker
  <2>4. PromptInv'
    BY <1>a, <1>b, <2>2, <2>3, PromptQuiet DEF Alive
  <2>5. CommandInv'
    BY <2>1, <2>2, <2>3, CommandQuiet DEF EarlyLabels
  <2> QED BY <2>4, <2>5
<1>2. CASE \/ SetBusy(t) \/ PublishMeta(t, "pubbusy", "arm") \/ SetIdle(t)
           \/ LockWriter(t, "writer", "send")
  <2>1. PICK from \in ExecLabels, to \in ExecLabels :
          /\ Step(t, from, to)
          /\ from # "wait" /\ (to \in ArmedLabels => from \in ArmedLabels)
          /\ to \in EarlyLabels => from \in EarlyLabels
          /\ to \in DispatchLabels => from \in DispatchLabels
          /\ UNCHANGED <<vivado, reader, res, fate, dresult>>
    BY <1>2
    DEF SetBusy, PublishMeta, SetIdle, LockWriter, Goto, ExecLabels, EarlyLabels,
        DispatchLabels, ArmedLabels
  <2> QED BY <1>b, <2>1, QuietMove
<1>3. CASE PublishMeta(t, "pubidle", AfterExec(t))
  BY <1>3, <1>b, QuietMove
  DEF PublishMeta, AfterExec, EarlyLabels, DispatchLabels
<1>4. CASE ArmCollector(t)
  <2>1. /\ \A s \in Thread : pc'[s] = IF s = t THEN "writer" ELSE pc[s]
        /\ pc[t] = "arm"
    BY <1>4, <1>s DEF ArmCollector
  <2>2. ~done' /\ UNCHANGED <<interp, running, stdin, pty, hand, died, res, fate, dresult>>
    BY <1>4 DEF ArmCollector
  <2>3. NoPrompt /\ Dispatched = {} /\ Dispatched' = Dispatched
    BY <1>c, <2>1, <2>2 DEF Dispatched
  <2>4. NoPrompt'
    BY <2>2, <2>3 DEF NoPrompt
  <2>5. PromptInv'
    BY <1>b, <2>1, <2>2, <2>3, <2>4 DEF PromptInv
  <2>6. CommandInv'
    BY <2>1, <2>2, <2>3 DEF CommandInv, EarlyLabels, DispatchLabels
  <2> QED BY <2>5, <2>6
<1>5. CASE SendCommand(t)
  <2>1. /\ \A s \in Thread : pc'[s] = IF s = t THEN "wait" ELSE pc[s]
        /\ pc[t] = "send"
    BY <1>5, <1>s DEF SendCommand
  <2>2. UNCHANGED <<interp, running, pty, hand, done, died, res, fate, dresult>>
    BY <1>5 DEF SendCommand
  <2>3. NoPrompt /\ Dispatched = {} /\ ~done
    BY <1>c, <2>1 DEF PromptInv
  <2>4. NoPrompt'
    BY <2>2, <2>3 DEF NoPrompt
  <2>5. running = None /\ \A i \in DOMAIN stdin : stdin[i] = None
    BY <2>3, DispatchedIsEmpty
  <2>6. interp = "dead" => stdin' = stdin
    BY <1>5 DEF SendCommand
  <2>7. interp # "dead" =>
          /\ DOMAIN stdin' = 1..(Len(stdin) + 1)
          /\ DOMAIN stdin = 1..Len(stdin)
          /\ \A i \in 1..Len(stdin) : stdin'[i] = stdin[i]
          /\ stdin'[Len(stdin) + 1] = t
    BY <1>5, AppendProperties, LenProperties DEF SendCommand, TypeOK, InterpreterTypeOK, Source
  <2>8. Len(stdin) \in Nat
    BY LenProperties DEF TypeOK, InterpreterTypeOK
  <2>9. \A i \in DOMAIN stdin' : stdin'[i] = None \/ (i = Len(stdin) + 1 /\ stdin'[i] = t)
    BY <2>5, <2>6, <2>7, <2>8
  <2>10. Dispatched' \subseteq {t}
    BY <2>2, <2>5, <2>9 DEF Dispatched
  <2>11. PromptInv'
    BY <1>b, <2>1, <2>2, <2>3, <2>4, <2>6 DEF PromptInv
  <2>12. CommandInv'
    BY <2>1, <2>2, <2>3, <2>5, <2>9, <2>10 DEF CommandInv, EarlyLabels, DispatchLabels
  <2> QED BY <2>11, <2>12
<1>6. CASE TakeOutput(t)
  <2>1. /\ \A s \in Thread : pc'[s] = IF s = t THEN "latch" ELSE pc[s]
        /\ pc[t] = "wait"
    BY <1>6, <1>s DEF TakeOutput
  <2>2. /\ UNCHANGED <<interp, running, stdin, pty, hand, done, died, fate, dresult>>
        /\ \A s \in Thread : s # t => res'[s] = res[s]
        /\ done \/ died
    BY <1>6 DEF TakeOutput, TypeOK
  <2>3. Dispatched = {} /\ Dispatched' = Dispatched
    <3>1. CASE done
      BY <2>2, <3>1, DispatchedIsEmpty DEF CommandInv, Dispatched
    <3>2. CASE died
      <4>1. stdin = <<>> /\ running = None
        BY <3>2 DEF PromptInv, TypeOK, InterpreterTypeOK
      <4> QED BY <2>2, <4>1, DispatchedIsEmpty DEF Dispatched
    <3> QED BY <2>2, <3>1, <3>2
  <2>4. NoPrompt /\ NoPrompt'
    <3>1. NoPrompt
      BY <2>2 DEF PromptInv, NoPrompt, NoPromptIn
    <3> QED BY <2>2, <3>1 DEF NoPrompt
  <2>5. PromptInv'
    BY <1>b, <2>1, <2>2, <2>3, <2>4 DEF PromptInv
  <2>6. CommandInv'
    BY <2>1, <2>2, <2>3 DEF CommandInv, EarlyLabels, DispatchLabels
  <2> QED BY <2>5, <2>6
<1>7. CASE LatchResult(t)
  <2>1. /\ \A s \in Thread : pc'[s] = IF s = t THEN "setidle" ELSE pc[s]
        /\ pc[t] = "latch"
    BY <1>7, <1>s DEF LatchResult
  <2>2. UNCHANGED <<vivado, reader, res, fate>>
    BY <1>7 DEF LatchResult
  <2>3. PromptInv'
    BY <1>a, <1>b, <2>1, <2>2, PromptQuiet DEF Alive
  <2>4. CommandInv'
    BY <1>d, <2>1, <2>2, CommandQuiet DEF EarlyLabels, DispatchLabels
  <2> QED BY <2>3, <2>4
<1> QED
  BY <1>1, <1>2, <1>3, <1>4, <1>5, <1>6, <1>7 DEF ExecuteTcl

(* The rest of a worker neither sends nor waits. *)
LEMMA WorkerInv ==
  ASSUME TypeOK, SlotInv, PromptInv, CommandInv, NEW c \in Conn, Worker(c)
  PROVE  PromptInv' /\ CommandInv'
<1> USE DEF flags, artifacts
<1>c. c \in Thread
  BY DEF Thread
<1>q. ASSUME NEW from, NEW to, Step(c, from, to), from # "wait",
             to \in ArmedLabels => from \in ArmedLabels,
             to \in EarlyLabels => from \in EarlyLabels,
             to \notin DispatchLabels,
             UNCHANGED <<vivado, reader, res, sock, fate, dresult>>
      PROVE  PromptInv' /\ CommandInv'
  <2>1. Ready' => Ready
    BY <1>q, WorkerNotReady
  <2> QED BY <1>c, <1>q, <2>1, QuietMove
<1>1. CASE ReadRequest(c)
  BY <1>1, <1>q DEF ReadRequest, Goto, ReplyAnd, EarlyLabels, DispatchLabels
<1>2. CASE CheckDied(c)
  BY <1>2, <1>q DEF CheckDied, Goto, ReplyAnd, EarlyLabels, DispatchLabels
<1>3. CASE AcquireSlot(c)
  BY <1>3, <1>q DEF AcquireSlot, ReplyAnd, EarlyLabels, DispatchLabels
<1>4. CASE ExecuteTcl(c)
  BY <1>c, <1>4, ExecuteInv
<1>5. CASE HandleTool(c)
  <2>1. CASE ResolveTool(c) \/ SpawnTool(c) \/ RefuseTool(c)
    BY <2>1, <1>q
    DEF ResolveTool, SpawnTool, RefuseTool, Goto, ReplyAnd, ReleaseSlot, EarlyLabels,
        DispatchLabels
  <2>2. CASE SetToolBusy(c) \/ FinishTool(c)
    BY <2>2, <1>q DEF SetToolBusy, FinishTool, EarlyLabels, DispatchLabels
  <2>3. CASE PublishMeta(c, "pubtool", "spawn") \/ PublishMeta(c, "pubfin", "release")
    BY <2>3, <1>q DEF PublishMeta, EarlyLabels, DispatchLabels
  <2> QED BY <1>5, <2>1, <2>2, <2>3 DEF HandleTool
<1>6. CASE FinishOperation(c) \/ Answer(c) \/ HandleStop(c) \/ StoreShutdown(c)
  BY <1>6, <1>q
  DEF FinishOperation, Answer, HandleStop, StoreShutdown, ReplyAnd, ReleaseSlot,
      EarlyLabels, DispatchLabels
<1> QED BY <1>1, <1>2, <1>3, <1>4, <1>5, <1>6 DEF Worker

(* When Vivado dies every unread line is lost with the running command. *)
LEMMA DeathInv ==
  ASSUME TypeOK, PromptInv, CommandInv,
         interp' = "dead", running' = None, stdin' = <<>>,
         UNCHANGED <<pty, hand, done, died>>,
         Alive' => Alive, Ready' /\ Alive => Ready,
         \A t \in Thread : pc'[t] = "wait" <=> pc[t] = "wait",
         \A t \in Thread : pc'[t] \in ArmedLabels <=> pc[t] \in ArmedLabels,
         \A t \in Thread : pc'[t] \in EarlyLabels => pc[t] \in EarlyLabels,
         \A t \in Thread : pc'[t] \in DispatchLabels => pc[t] \in DispatchLabels,
         UNCHANGED <<res, dresult>>
  PROVE  PromptInv' /\ CommandInv'
<1>1. Dispatched' = {}
  BY DEF Dispatched
<1>2. NoPrompt' = NoPrompt
  BY DEF NoPrompt
<1>3. PromptInv'
  BY <1>1, <1>2 DEF PromptInv, OnePromptIn, NoPromptIn
<1>4. CommandInv'
  BY <1>1 DEF CommandInv
<1> QED BY <1>3, <1>4

(* The main thread becomes ready only once the prompt has been seen, and   *)
(* types "exit" only to an interpreter that has booted.                    *)
LEMMA MainInv ==
  ASSUME TypeOK, SlotInv, PromptInv, CommandInv, MainThread
  PROVE  PromptInv' /\ CommandInv'
<1> USE DEF vivado, reader, flags, artifacts
<1>m. Main \in Thread
  BY DEF Thread
<1>s. ASSUME NEW from, NEW to, Step(Main, from, to)
      PROVE  /\ \A s \in Thread : pc'[s] = IF s = Main THEN to ELSE pc[s]
             /\ pc[Main] = from /\ pc'[Main] = to
  BY <1>m, <1>s DEF Step, TypeOK
<1>q. ASSUME NEW from, NEW to, Step(Main, from, to), from # "wait",
             to \in ArmedLabels => from \in ArmedLabels,
             to \in EarlyLabels => from \in EarlyLabels,
             to \in DispatchLabels => from \in DispatchLabels,
             to \in ExecLabels \union {"opened", "setready", "pubready", "bind"} =>
               from \in ExecLabels \union {"opened", "setready", "pubready", "bind"},
             sock' => sock,
             UNCHANGED <<vivado, reader, res, fate, dresult>>
      PROVE  PromptInv' /\ CommandInv'
  <2>1. Ready' => Ready
    BY <1>q, <1>s DEF Ready
  <2> QED BY <1>m, <1>q, <2>1, QuietMove
<1>e. ASSUME NEW label, NEW how \in {"stopped", "failed"}, Exit(label, how)
      PROVE  PromptInv' /\ CommandInv'
  <2>1. ~Alive' /\ ~sock' /\ pc' = pc /\ UNCHANGED <<vivado, reader, res, dresult>>
    BY <1>e DEF Exit, Step, Alive, TypeOK
  <2>2. Ready' => Ready
    BY <2>1 DEF Ready
  <2> QED BY <2>1, <2>2, PromptQuiet, CommandQuiet
<1>1. CASE Startup
  <2>1. CASE PublishMarker
    <3>1. /\ dresult' = Marker \/ DiskMayFail
          /\ UNCHANGED <<vivado, reader, res, fate, sock>>
      BY <2>1 DEF PublishMarker, SaveResult
    <3>2. /\ \A s \in Thread : pc'[s] = IF s = Main THEN "waitprompt" ELSE pc[s]
          /\ pc[Main] = "pubmarker" /\ pc'[Main] = "waitprompt"
      BY <2>1, <1>s DEF PublishMarker
    <3>3. Ready' => Ready
      BY <3>1, <3>2 DEF Ready, ExecLabels
    <3>4. PromptInv'
      BY <3>1, <3>2, <3>3, PromptQuiet DEF Alive
    <3>5. CommandInv'
      BY <3>1, <3>2, CommandQuiet DEF EarlyLabels
    <3> QED BY <3>4, <3>5
  <2>2. CASE WaitPrompt
    <3>1. CASE ~done /\ MainGoto("waitprompt", "setcrashed")
      BY <3>1, <1>q DEF MainGoto, EarlyLabels, DispatchLabels, ExecLabels
    <3>2. CASE done /\ MainGoto("waitprompt", IF Project THEN "mark" ELSE "setready")
      <4>1. PICK to \in {"mark", "setready"} : Step(Main, "waitprompt", to)
        BY <3>2 DEF MainGoto
      <4>2. /\ \A s \in Thread : pc'[s] = IF s = Main THEN to ELSE pc[s]
            /\ pc[Main] = "waitprompt" /\ pc'[Main] = to
        BY <4>1, <1>s
      <4>3. done /\ UNCHANGED <<vivado, reader, res, fate, sock, dresult>>
        BY <3>2 DEF MainGoto
      <4>4. NoPrompt /\ interp # "booting"
        BY <4>3 DEF PromptInv
      <4>5. NoPrompt' = NoPrompt /\ Dispatched' = Dispatched
        BY <4>3 DEF NoPrompt, Dispatched
      <4>6. PromptInv'
        BY <4>2, <4>3, <4>4, <4>5 DEF PromptInv
      <4>7. CommandInv'
        BY <4>2, <4>3, CommandQuiet DEF EarlyLabels, DispatchLabels
      <4> QED BY <4>6, <4>7
    <3> QED BY <2>2, <3>1, <3>2 DEF WaitPrompt
  <2>3. CASE ExecuteTcl(Main)
    BY <1>m, <2>3, ExecuteInv
  <2>4. CASE OpenProjectDone
    BY <2>4, <1>q DEF OpenProjectDone, MainGoto, EarlyLabels, DispatchLabels, ExecLabels
  <2>5. CASE \/ PublishMeta(Main, "publish", "pubmarker")
             \/ SetState("setready", "pubready", "idle")
             \/ PublishMeta(Main, "pubready", "bind")
    BY <2>5, <1>q DEF PublishMeta, SetState, EarlyLabels, DispatchLabels, ExecLabels
  <2>6. CASE Bind
    <3>1. /\ \A s \in Thread : pc'[s] = IF s = Main THEN "poll" ELSE pc[s]
          /\ pc[Main] = "bind"
      BY <2>6, <1>s DEF Bind
    <3>2. Ready /\ UNCHANGED <<vivado, reader, res, fate, dresult>>
      BY <2>6, <3>1 DEF Bind, Ready
    <3>3. PromptInv'
      BY <3>1, <3>2, PromptQuiet DEF Alive
    <3>4. CommandInv'
      BY <3>1, <3>2, CommandQuiet DEF EarlyLabels, DispatchLabels
    <3> QED BY <3>3, <3>4
  <2>7. CASE BindFails
    BY <2>7, <1>e DEF BindFails
  <2> QED BY <1>1, <2>1, <2>2, <2>3, <2>4, <2>5, <2>6, <2>7 DEF Startup
<1>2. CASE Serve
  <2>1. CASE PollFlags \/ CheckVivado \/ MainGoto("accept", "poll")
    BY <2>1, <1>q
    DEF PollFlags, CheckVivado, MainGoto, EarlyLabels, DispatchLabels, ExecLabels
  <2>2. ASSUME NEW c \in Conn, pc[c] = "pending", pc[Main] = "accept", Alive,
               pc' = [pc EXCEPT ![Main] = "poll", ![c] = "read"],
               UNCHANGED <<vivado, reader, clients, res, inflight, meta, flags, artifacts>>
        PROVE  PromptInv' /\ CommandInv'
    <3>1. \A s \in Thread : pc'[s] = IF s = c THEN "read" ELSE
                                     IF s = Main THEN "poll" ELSE pc[s]
      BY <2>2, ThreadsAreDistinct DEF TypeOK, Thread
    <3>2. Ready' => Ready
      BY <2>2, <3>1, <1>m, ThreadsAreDistinct DEF Ready, ExecLabels
    <3>0. pc[c] = "pending" /\ pc[Main] = "accept"
      BY <2>2
    <3>3. \A s \in Thread :
            /\ pc[s] = "wait" => pc'[s] = "wait"
            /\ pc'[s] \in ArmedLabels => pc[s] \in ArmedLabels
            /\ pc'[s] \in EarlyLabels => pc[s] \in EarlyLabels
            /\ pc'[s] \notin DispatchLabels \/ pc[s] \in DispatchLabels
      BY <3>0, <3>1 DEF EarlyLabels, DispatchLabels
    <3>4. UNCHANGED <<interp, running, stdin, pty, hand, done, died, res, fate, dresult>>
      BY <2>2
    <3>5. PromptInv'
      BY <3>2, <3>3, <3>4, PromptQuiet DEF Alive
    <3>6. CommandInv'
      BY <3>3, <3>4, CommandQuiet
    <3> QED BY <3>5, <3>6
  <2> QED BY <1>2, <2>1, <2>2 DEF Serve, Accept
<1>3. CASE Shutdown
  <2>1. CASE AskVivadoToExit
    <3>1. /\ \A s \in Thread : pc'[s] = IF s = Main THEN "grace" ELSE pc[s]
          /\ pc[Main] = "drain" /\ pc'[Main] = "grace" /\ Alive
      BY <2>1, <1>s DEF AskVivadoToExit, Step
    <3>2. UNCHANGED <<interp, running, pty, hand, done, died, res, fate, sock, dresult>>
      BY <2>1 DEF AskVivadoToExit
    <3>3. sock /\ Ready /\ interp # "booting"
      BY <3>1 DEF SlotInv, LoopLabels, Ready, PromptInv
    <3>4. interp = "dead" => stdin' = stdin
      BY <2>1 DEF AskVivadoToExit
    <3>5. interp # "dead" =>
            /\ DOMAIN stdin' = 1..(Len(stdin) + 1)
            /\ DOMAIN stdin = 1..Len(stdin)
            /\ \A i \in 1..Len(stdin) : stdin'[i] = stdin[i]
            /\ stdin'[Len(stdin) + 1] = None
      BY <2>1, AppendProperties, LenProperties
      DEF AskVivadoToExit, TypeOK, InterpreterTypeOK, Source
    <3>6. Len(stdin) \in Nat
      BY LenProperties DEF TypeOK, InterpreterTypeOK
    <3>7. \A i \in DOMAIN stdin' : stdin'[i] = None \/ (i \in DOMAIN stdin /\ stdin'[i] = stdin[i])
      BY <3>4, <3>5, <3>6
    <3>8. Dispatched' \subseteq Dispatched
      BY <3>2, <3>7 DEF Dispatched
    <3>9. NoPrompt' = NoPrompt
      BY <3>2 DEF NoPrompt
    <3>10. PromptInv'
      BY <3>1, <3>2, <3>3, <3>4, <3>8, <3>9 DEF PromptInv, Alive
    <3>11. CommandInv'
      BY <3>1, <3>2, <3>7, <3>8, DispatchedIsEmpty DEF CommandInv, EarlyLabels, DispatchLabels
    <3> QED BY <3>10, <3>11
  <2>2. CASE EndGrace
    <3>1. CASE UNCHANGED <<interp, running, printed, stdin>>
      BY <2>2, <3>1, <1>q DEF EndGrace, EarlyLabels, DispatchLabels, ExecLabels
    <3>2. CASE interp' = "dead" /\ running' = None /\ stdin' = <<>>
      <4>1. /\ \A s \in Thread : pc'[s] = IF s = Main THEN "setstopped" ELSE pc[s]
            /\ pc[Main] = "grace" /\ pc'[Main] = "setstopped"
        BY <2>2, <1>s DEF EndGrace
      <4>2. UNCHANGED <<pty, hand, done, died, res, fate, sock, dresult>>
        BY <2>2 DEF EndGrace
      <4>3. Ready' => Ready
        BY <4>1, <4>2 DEF Ready, ExecLabels
      <4> QED BY <3>2, <4>1, <4>2, <4>3, DeathInv DEF Alive, EarlyLabels, DispatchLabels
    <3> QED BY <2>2, <3>1, <3>2 DEF EndGrace
  <2>3. CASE \/ LockWriter(Main, "leave", "drain")
             \/ SetState("setstopped", "pubstopped", "stopped")
             \/ PublishMeta(Main, "pubstopped", "stopped")
    BY <2>3, <1>q
    DEF LockWriter, Goto, SetState, PublishMeta, ArmedLabels, EarlyLabels, DispatchLabels, ExecLabels
  <2>4. CASE Exit("stopped", "stopped")
    BY <2>4, <1>e
  <2> QED BY <1>3, <2>1, <2>2, <2>3, <2>4 DEF Shutdown
<1>4. CASE Crash
  <2>1. CASE \/ SetState("setcrashed", "pubcrashed", "crashed")
             \/ PublishMeta(Main, "pubcrashed", "crashed")
    BY <2>1, <1>q DEF SetState, PublishMeta, EarlyLabels, DispatchLabels, ExecLabels
  <2>2. CASE Exit("crashed", "failed")
    BY <2>2, <1>e
  <2> QED BY <1>4, <2>1, <2>2 DEF Crash
<1> QED BY <1>1, <1>2, <1>3, <1>4 DEF MainThread

(* read(2) splits what is on the PTY in two, in order. *)
LEMMA SplitPrompts ==
  ASSUME NEW s \in Seq(Token), NEW n \in 1..Len(s)
  PROVE  LET a == SubSeq(s, 1, n)
             b == SubSeq(s, n + 1, Len(s))
         IN  /\ NoPromptIn(s) <=> NoPromptIn(a) /\ NoPromptIn(b)
             /\ OnePromptIn(s) => OnePromptIn(a) /\ OnePromptIn(b)
             /\ OnePromptIn(s) => NoPromptIn(a) \/ NoPromptIn(b)
<1> DEFINE a == SubSeq(s, 1, n)
           b == SubSeq(s, n + 1, Len(s))
<1>0. Len(s) \in Nat /\ DOMAIN s = 1..Len(s)
  BY LenProperties
<1>1. DOMAIN a = 1..n /\ \A i \in 1..n : a[i] = s[i]
  BY <1>0
<1>2. DOMAIN b = 1..(Len(s) - n) /\ \A i \in 1..(Len(s) - n) : b[i] = s[n + i]
  BY <1>0
<1>3. \A i \in 1..n : i \in DOMAIN s
  BY <1>0
<1>4. \A i \in 1..(Len(s) - n) : n + i \in DOMAIN s
  BY <1>0
<1>5. \A i \in DOMAIN s : i \in 1..n \/ (i - n \in 1..(Len(s) - n) /\ s[i] = b[i - n])
  BY <1>0, <1>2
<1> HIDE DEF a, b
<1>6. NoPromptIn(s) <=> NoPromptIn(a) /\ NoPromptIn(b)
  <2>1. ASSUME NoPromptIn(s)
        PROVE  NoPromptIn(a) /\ NoPromptIn(b)
    BY <1>1, <1>2, <1>3, <1>4, <2>1 DEF NoPromptIn
  <2>2. ASSUME NoPromptIn(a), NoPromptIn(b), NEW i \in DOMAIN s
        PROVE  s[i].kind # "prompt"
    BY <1>1, <1>2, <1>5, <2>2 DEF NoPromptIn
  <2> QED BY <2>1, <2>2 DEF NoPromptIn
<1>7. ASSUME OnePromptIn(s)
      PROVE  OnePromptIn(a) /\ OnePromptIn(b)
  <2>1. OnePromptIn(a)
    BY <1>1, <1>3, <1>7 DEF OnePromptIn
  <2>2. ASSUME NEW i \in DOMAIN b, NEW j \in DOMAIN b, b[i].kind = "prompt", b[j].kind = "prompt"
        PROVE  i = j
    <3>1. n + i = n + j
      BY <1>2, <1>4, <1>7, <2>2 DEF OnePromptIn
    <3> QED BY <1>0, <1>2, <3>1
  <2> QED BY <2>1, <2>2 DEF OnePromptIn
<1>8. ASSUME OnePromptIn(s)
      PROVE  NoPromptIn(a) \/ NoPromptIn(b)
  <2>1. ASSUME NEW i \in DOMAIN a, NEW j \in DOMAIN b, a[i].kind = "prompt", b[j].kind = "prompt"
        PROVE  FALSE
    <3>1. i = n + j
      BY <1>1, <1>2, <1>3, <1>4, <1>8, <2>1 DEF OnePromptIn
    <3> QED BY <1>0, <1>1, <1>2, <2>1, <3>1
  <2> QED BY <2>1 DEF NoPromptIn
<1> QED BY <1>6, <1>7, <1>8 DEF a, b

(* Appending a token other than the prompt adds no prompt. *)
LEMMA AppendPrompts ==
  ASSUME NEW s \in Seq(Token), NEW tok \in Token, NEW r, r = Append(s, tok)
  PROVE  /\ tok.kind # "prompt" =>
              (NoPromptIn(s) <=> NoPromptIn(r)) /\ (OnePromptIn(s) => OnePromptIn(r))
         /\ NoPromptIn(s) => OnePromptIn(r)
<1>0. Len(s) \in Nat /\ DOMAIN s = 1..Len(s)
  BY LenProperties
<1>1. /\ DOMAIN r = 1..(Len(s) + 1)
      /\ \A i \in 1..Len(s) : r[i] = s[i]
      /\ r[Len(s) + 1] = tok
  BY <1>0, AppendProperties, LenProperties
<1>2. \A i \in DOMAIN r : i \in DOMAIN s \/ i = Len(s) + 1
  BY <1>0, <1>1
<1>3. \A i \in DOMAIN s : i \in DOMAIN r /\ r[i] = s[i]
  BY <1>0, <1>1
<1>4. ASSUME tok.kind # "prompt"
      PROVE  (NoPromptIn(s) <=> NoPromptIn(r)) /\ (OnePromptIn(s) => OnePromptIn(r))
  BY <1>1, <1>2, <1>3, <1>4 DEF NoPromptIn, OnePromptIn
<1>5. NoPromptIn(s) => OnePromptIn(r)
  BY <1>1, <1>2, <1>3 DEF NoPromptIn, OnePromptIn
<1> QED BY <1>4, <1>5

(* The reader tells nobody of a prompt before it has handed it over. *)
LEMMA ReaderInv ==
  ASSUME TypeOK, SlotInv, PromptInv, CommandInv, Reader
  PROVE  PromptInv' /\ CommandInv'
<1> USE DEF vivado, flags, artifacts
<1>1. CASE ReadChunk
  <2>1. PICK n \in 1..Len(pty) : hand' = SubSeq(pty, 1, n)
                               /\ pty' = SubSeq(pty, n + 1, Len(pty))
    BY <1>1 DEF ReadChunk
  <2>2. pty \in Seq(Token) /\ pty # <<>> /\ hand = <<>>
    <3>1. pty \in Seq(Token)
      BY DEF TypeOK, InterpreterTypeOK
    <3>2. pty # <<>>
      BY <2>1
    <3> QED BY <1>1, <3>1, <3>2 DEF ReadChunk
  <2>3. UNCHANGED <<interp, running, stdin, done, died, pc, res, sock, fate, dresult>>
    BY <1>1 DEF ReadChunk
  <2>4. NoPromptIn(hand) /\ OnePromptIn(hand)
    BY <2>2 DEF NoPromptIn, OnePromptIn
  <2>5. NoPrompt <=> NoPrompt'
    <3>1. NoPromptIn(pty) <=> NoPromptIn(hand') /\ NoPromptIn(pty')
      BY <2>1, <2>2, SplitPrompts
    <3>2. NoPrompt' <=> NoPromptIn(hand') /\ NoPromptIn(pty')
      BY DEF NoPrompt, NoPromptIn
    <3> QED BY <2>4, <3>1, <3>2 DEF NoPrompt
  <2>6. OnePromptIn(hand)' /\ OnePromptIn(pty)' /\ (NoPromptIn(hand) \/ NoPromptIn(pty))'
    <3>1. OnePromptIn(pty)
      BY DEF PromptInv
    <3>2. OnePromptIn(hand') /\ OnePromptIn(pty') /\ (NoPromptIn(hand') \/ NoPromptIn(pty'))
      BY <2>1, <2>2, <3>1, SplitPrompts
    <3> QED BY <3>2 DEF NoPromptIn, OnePromptIn
  <2>7. ~died
    BY <2>2 DEF PromptInv
  <2>8. PromptInv'
    BY <2>3, <2>5, <2>6, <2>7 DEF PromptInv, Dispatched, Alive, Ready
  <2>9. CommandInv'
    BY <2>3, CommandQuiet
  <2> QED BY <2>8, <2>9
<1>2. CASE Feed
  <2>1. /\ UNCHANGED <<interp, running, stdin, pty, died, pc, res, sock, fate, dresult>>
        /\ hand # <<>> /\ hand' = <<>> /\ Alive
        /\ done' = (done \/ hand[Len(hand)].kind = "prompt")
    BY <1>2 DEF Feed, EndsWithPrompt
  <2>2. hand \in Seq(Token) /\ Len(hand) \in DOMAIN hand
    <3>1. hand \in Seq(Token)
      BY DEF TypeOK
    <3> QED BY <2>1, <3>1, LenProperties, EmptySeq
  <2>3. ~died
    BY <2>1 DEF PromptInv
  <2>4. (NoPromptIn(hand) /\ OnePromptIn(hand))'
    BY <2>1 DEF NoPromptIn, OnePromptIn
  <2>5. done' # done => ~NoPromptIn(hand)
    BY <2>1, <2>2 DEF NoPromptIn, TypeOK
  <2>6. NoPrompt => NoPrompt' /\ done' = done
    BY <2>1, <2>4, <2>5 DEF NoPrompt, NoPromptIn
  <2>7. Dispatched # {} => NoPrompt
    BY DEF PromptInv
  <2>8. ~NoPrompt' => ~done' /\ ~NoPrompt
    <3>1. ASSUME ~NoPrompt'
          PROVE  ~NoPromptIn(pty)
      BY <2>1, <2>4, <3>1 DEF NoPrompt, NoPromptIn
    <3>2. ASSUME ~NoPrompt'
          PROVE  NoPromptIn(hand) /\ ~NoPrompt /\ ~done
      BY <3>1, <3>2 DEF PromptInv, NoPrompt
    <3> QED BY <2>5, <3>2
  <2>9. ASSUME NEW t \in Thread, pc[t] \in ArmedLabels
        PROVE  NoPrompt
    BY <2>1, <2>9, OneExecutor, ExecutorReady DEF PromptInv, ExecLabels
  <2>10. PromptInv'
    BY <2>1, <2>3, <2>4, <2>6, <2>8, <2>9
    DEF PromptInv, Dispatched, OnePromptIn, NoPromptIn, Alive, Ready
  <2>11. CommandInv'
    BY <2>1, <2>6, <2>7 DEF CommandInv, Dispatched
  <2> QED BY <2>10, <2>11
<1>3. CASE ReaderEof
  <2>1. /\ UNCHANGED <<interp, running, stdin, pty, hand, done, pc, res, sock, fate, dresult>>
        /\ interp = "dead" /\ pty = <<>> /\ hand = <<>>
    BY <1>3 DEF ReaderEof
  <2>2. PromptInv'
    BY <2>1 DEF PromptInv, NoPrompt, NoPromptIn, OnePromptIn, Dispatched, Alive, Ready
  <2>3. CommandInv'
    BY <2>1, CommandQuiet
  <2> QED BY <2>2, <2>3
<1> QED BY <1>1, <1>2, <1>3 DEF Reader

(* Vivado prints a prompt only when it has booted or finished the one      *)
(* command it was given.                                                   *)
LEMMA VivadoInv ==
  ASSUME ~Lookalike, TypeOK, SlotInv, PromptInv, CommandInv, Vivado
  PROVE  PromptInv' /\ CommandInv'
<1> USE DEF reader, flags, artifacts
<1>u. /\ Alive /\ InterpreterNext
      /\ UNCHANGED <<hand, done, died, pc, res, sock, fate, dresult>>
  BY DEF Vivado
<1>t. /\ pty \in Seq(Token) /\ stdin \in Seq(Source) /\ running \in Source
      /\ Dispatched \subseteq Thread
  BY DispatchedIsEmpty DEF TypeOK, InterpreterTypeOK
<1>r. Ready' = Ready /\ Alive' = Alive
  BY <1>u DEF Ready, Alive
<1>n. NoPrompt' <=> NoPromptIn(hand) /\ NoPromptIn(pty')
  BY <1>u DEF NoPrompt, NoPromptIn
<1>o. OnePromptIn(pty)' <=> OnePromptIn(pty')
  BY DEF OnePromptIn
<1>p. NoPromptIn(pty)' <=> NoPromptIn(pty')
  BY DEF NoPromptIn
<1>h. /\ NoPromptIn(hand)' <=> NoPromptIn(hand)
      /\ OnePromptIn(hand)' <=> OnePromptIn(hand)
  BY <1>u DEF NoPromptIn, OnePromptIn
<1>w. running # None => NoPrompt /\ ~done /\ pc[running] = "wait" /\ running \in Thread
                        /\ \A i \in DOMAIN stdin : stdin[i] = None
  BY <1>t DEF PromptInv, CommandInv, Dispatched
<1>1. CASE Boot
  <2>1. /\ interp = "booting" /\ interp' = "prompt"
        /\ pty' = Append(pty, [src |-> None, kind |-> "prompt"])
        /\ UNCHANGED <<running, stdin>>
    BY <1>1 DEF Boot, Emit
  <2>2. /\ ~done /\ NoPrompt /\ running = None /\ stdin = <<>> /\ Dispatched = {}
        /\ Dispatched' = Dispatched
    BY <2>1, DispatchedIsEmpty DEF PromptInv, Dispatched
  <2>3. OnePromptIn(pty')
    BY <1>t, <2>1, <2>2, AppendPrompts DEF Token, Source, NoPrompt
  <2>4. ~Ready
    BY <1>u, <2>1 DEF PromptInv
  <2>5. PromptInv'
    BY <1>u, <1>r, <1>n, <1>o, <1>p, <1>h, <2>1, <2>2, <2>3, <2>4 DEF PromptInv, NoPrompt
  <2>6. CommandInv'
    BY <1>u, <2>1, CommandQuiet
  <2> QED BY <2>5, <2>6
<1>2. CASE ReadCommand
  <2>1. /\ interp = "prompt" /\ interp' = "running" /\ pty' = pty
        /\ stdin # <<>> /\ Head(stdin) # None /\ running' = Head(stdin)
        /\ stdin' = Tail(stdin) /\ running = None
    BY <1>2 DEF ReadCommand, PromptInv
  <2>2. /\ Len(stdin) \in Nat /\ DOMAIN stdin = 1..Len(stdin) /\ 1 \in DOMAIN stdin
        /\ Head(stdin) = stdin[1]
    BY <1>t, <2>1, LenProperties, EmptySeq
  <2>3. /\ DOMAIN stdin' = 1..(Len(stdin) - 1)
        /\ \A i \in DOMAIN stdin' : i + 1 \in DOMAIN stdin /\ i + 1 # 1
                                    /\ stdin'[i] = stdin[i + 1]
    BY <1>t, <2>1, <2>2, HeadTailProperties
  <2>4. \A i \in DOMAIN stdin' : stdin'[i] = None
    BY <2>1, <2>2, <2>3 DEF CommandInv
  <2>5. Head(stdin) \in Dispatched
    BY <2>1, <2>2 DEF Dispatched
  <2>6. Dispatched' \subseteq Dispatched
    BY <2>1, <2>4, <2>5 DEF Dispatched
  <2>7. NoPrompt /\ NoPrompt'
    BY <1>u, <2>1, <2>5 DEF PromptInv, NoPrompt, NoPromptIn
  <2>8. ~died
    BY <2>1 DEF PromptInv
  <2>9. PromptInv'
    BY <1>u, <1>r, <1>o, <1>p, <1>h, <2>1, <2>7, <2>8 DEF PromptInv
  <2>10. CommandInv'
    BY <1>u, <1>t, <2>4, <2>6 DEF CommandInv
  <2> QED BY <2>9, <2>10
<1>3. CASE ReadExit
  <2>1. /\ interp = "prompt" /\ interp' = "dead" /\ running' = running /\ running = None
        /\ stdin' = <<>> /\ pty' = Append(pty, [src |-> None, kind |-> "out"])
    BY <1>3 DEF ReadExit, Emit, PromptInv
  <2>2. /\ NoPromptIn(pty) <=> NoPromptIn(pty')
        /\ OnePromptIn(pty) => OnePromptIn(pty')
    <3> DEFINE tok == [src |-> None, kind |-> "out"]
    <3>1. tok \in Token /\ tok.kind # "prompt" /\ pty' = Append(pty, tok)
      BY <2>1 DEF Token, Source
    <3> HIDE DEF tok
    <3> QED BY <1>t, <3>1, AppendPrompts
  <2>3. Dispatched' = {}
    BY <2>1 DEF Dispatched
  <2>4. NoPrompt' <=> NoPrompt
    BY <1>n, <2>2 DEF NoPrompt
  <2>5. ~died
    BY <2>1 DEF PromptInv
  <2>6. PromptInv'
    BY <1>u, <1>r, <1>o, <1>p, <1>h, <2>1, <2>2, <2>3, <2>4, <2>5 DEF PromptInv
  <2>7. CommandInv'
    BY <1>u, <2>1, <2>3 DEF CommandInv
  <2> QED BY <2>6, <2>7
<1>4. CASE WriteOutput
  <2>1. PICK kind \in {"out", "err"} : PrintOutput(kind)
    BY <1>4 DEF WriteOutput
  <2>2. /\ UNCHANGED <<interp, running, stdin>> /\ interp = "running"
        /\ pty' = Append(pty, [src |-> running, kind |-> kind])
    BY <2>1 DEF PrintOutput, Emit
  <2>3. /\ NoPromptIn(pty) <=> NoPromptIn(pty')
        /\ OnePromptIn(pty) => OnePromptIn(pty')
    <3> DEFINE tok == [src |-> running, kind |-> kind]
    <3>1. tok \in Token /\ tok.kind # "prompt" /\ pty' = Append(pty, tok)
      BY <1>t, <2>2 DEF Token
    <3> HIDE DEF tok
    <3> QED BY <1>t, <3>1, AppendPrompts
  <2>4. NoPrompt' <=> NoPrompt
    BY <1>n, <2>3 DEF NoPrompt
  <2>5. Dispatched' = Dispatched /\ ~died
    BY <2>2 DEF Dispatched, PromptInv
  <2>6. PromptInv'
    BY <1>u, <1>r, <1>o, <1>p, <1>h, <2>2, <2>3, <2>4, <2>5 DEF PromptInv
  <2>7. CommandInv'
    BY <1>u, <2>2, CommandQuiet
  <2> QED BY <2>6, <2>7
<1>5. CASE Finish
  <2>1. /\ interp = "running" /\ interp' = "prompt" /\ running' = None /\ stdin' = stdin
        /\ pty' = Append(pty, [src |-> running, kind |-> "prompt"])
        /\ running # None
    BY <1>5 DEF Finish, Emit, PromptInv
  <2>2. OnePromptIn(pty')
    BY <1>t, <1>w, <2>1, AppendPrompts DEF Token, NoPrompt
  <2>3. Dispatched' = {}
    BY <1>w, <2>1 DEF Dispatched
  <2>4. NoPromptIn(hand)
    BY <1>w, <2>1 DEF NoPrompt
  <2>5. \E t \in Thread : pc'[t] = "wait"
    BY <1>u, <1>w, <2>1
  <2>6. ~died
    BY <2>1 DEF PromptInv
  <2>7. PromptInv'
    BY <1>u, <1>r, <1>o, <1>p, <1>h, <1>w, <2>1, <2>2, <2>3, <2>4, <2>5, <2>6 DEF PromptInv
  <2>8. CommandInv'
    BY <1>u, <2>1, <2>3 DEF CommandInv
  <2> QED BY <2>7, <2>8
<1>6. CASE Die
  BY <1>6, <1>u, <1>r, DeathInv DEF Die
<1> QED
  BY <1>u, <1>1, <1>2, <1>3, <1>4, <1>5, <1>6 DEF InterpreterNext

(* All three parts are inductive, together with the types. *)
LEMMA CoreInductive ==
  ASSUME ~Lookalike, TypeOK, CoreInv, [Next]_vars
  PROVE  CoreInv'
<1> USE DEF vivado, reader, flags, artifacts
<1>0. SlotInv /\ PromptInv /\ CommandInv
  BY DEF CoreInv
<1>s. SlotInv'
  BY <1>0, SlotInductive
<1> SUFFICES PromptInv' /\ CommandInv'
  BY <1>s DEF CoreInv
<1>1. CASE Reader
  BY <1>0, <1>1, ReaderInv
<1>2. ASSUME NEW c \in Conn, Connect(c)
      PROVE  PromptInv' /\ CommandInv'
  <2>1. Step(c, "none", "pending") /\ UNCHANGED <<vivado, reader, res, sock, fate, dresult>>
    BY <1>2 DEF Connect
  <2>2. Ready' => Ready
    BY <2>1, WorkerNotReady
  <2> QED BY <1>0, <2>1, <2>2, QuietMove DEF Thread, EarlyLabels, DispatchLabels
<1>3. ASSUME NEW c \in Conn, Worker(c)
      PROVE  PromptInv' /\ CommandInv'
  BY <1>0, <1>3, WorkerInv
<1>4. ASSUME NEW c \in Conn, ToolExits(c)
      PROVE  PromptInv' /\ CommandInv'
  <2>1. Step(c, "tooling", "toolfin") /\ UNCHANGED <<vivado, reader, res, sock, fate, dresult>>
    BY <1>4 DEF ToolExits, Goto
  <2>2. Ready' => Ready
    BY <2>1, WorkerNotReady
  <2> QED BY <1>0, <2>1, <2>2, QuietMove DEF Thread, EarlyLabels, DispatchLabels
<1>5. CASE MainThread
  BY <1>0, <1>5, MainInv
<1>6. CASE Terminate \/ Kill \/ UNCHANGED vars
  <2>1. /\ UNCHANGED <<vivado, reader, pc, res, sock, dresult>>
        /\ Alive' => Alive
    BY <1>6 DEF Terminate, Kill, vars, Alive
  <2>2. Ready' = Ready
    BY <2>1 DEF Ready
  <2> QED BY <1>0, <2>1, <2>2, PromptQuiet, CommandQuiet
<1>7. CASE Vivado
  BY <1>0, <1>7, VivadoInv
<1> QED
  BY <1>1, <1>2, <1>3, <1>4, <1>5, <1>6, <1>7 DEF Next, Ended

(* The first three parts hold when the daemon starts.                      *)
LEMMA CoreInitial ==
  ASSUME Init
  PROVE  CoreInv
<1>1. /\ pc = [t \in Thread |-> IF t = Main THEN "publish" ELSE "none"]
      /\ \A t \in Thread : pc[t] \in {"publish", "none"}
  BY DEF Init
<1>2. Dispatched = {}
  BY DEF Init, InterpreterInit, Dispatched
<1>3. SlotInv
  BY <1>1, ThreadsAreDistinct
  DEF Init, SlotInv, Thread, SlotLabels, ExecLabels, StartLabels, LoopLabels
<1>4. PromptInv
  BY <1>1, <1>2
  DEF Init, InterpreterInit, PromptInv, NoPrompt, NoPromptIn, OnePromptIn, Ready, Thread,
      ExecLabels
<1>5. CommandInv
  BY <1>1, <1>2 DEF Init, InterpreterInit, CommandInv, Marker, DispatchLabels
<1> QED BY <1>3, <1>4, <1>5 DEF CoreInv

-----------------------------------------------------------------------------
(* The inductive invariant holds of the daemon as long as no output of a   *)
(* command looks like the prompt, whatever becomes of the artifacts.       *)
THEOREM CoreHolds == ~Lookalike => (Spec => []CoreInv)
<1> SUFFICES ASSUME ~Lookalike
             PROVE  Spec => []CoreInv
  OBVIOUS
<1>1. Init => TypeOK /\ CoreInv
  <2>1. Init => TypeOK
    BY TypeInitial
  <2> QED BY <2>1, CoreInitial
<1>2. TypeOK /\ CoreInv /\ [Next]_vars => CoreInv'
  BY CoreInductive
<1>3. Spec => []TypeOK
  BY TypeCorrect
<1> QED BY <1>1, <1>2, <1>3, PTL DEF Spec

(* The interpreter is never sent a command while it has another one, and   *)
(* never has a command while a tool runs.                                  *)
THEOREM OneOperationHolds == ~Lookalike => (Spec => []OneOperation)
<1>1. TypeOK /\ CoreInv => OneOperation
  <2> SUFFICES ASSUME TypeOK, CoreInv
               PROVE  OneOperation
    OBVIOUS
  <2>0. SlotInv /\ PromptInv /\ CommandInv /\ Dispatched \subseteq Thread
    BY DispatchedIsEmpty DEF CoreInv
  <2>1. \A s, t \in Dispatched : s = t
    BY <2>0 DEF CommandInv, Dispatched
  <2>2. ASSUME NEW c \in Conn, pc[c] = "tooling", NEW t \in Dispatched
        PROVE  FALSE
    <3>1. pc[t] = "wait" /\ t \in Thread
      BY <2>0 DEF CommandInv
    <3>2. inflight = c /\ pc[c] # "wait"
      BY <2>0, <2>2 DEF SlotInv, SlotLabels
    <3>3. CASE t \in Conn
      BY <2>0, <3>1, <3>2, <3>3 DEF SlotInv, SlotLabels, ExecLabels
    <3>4. CASE t = Main
      BY <2>0, <2>2, <3>1, <3>2, <3>4 DEF SlotInv, StartLabels, ExecLabels
    <3> QED BY <3>1, <3>3, <3>4 DEF Thread
  <2> QED BY <2>0, <2>1, <2>2 DEF CommandInv, OneOperation
<1> QED BY <1>1, CoreHolds, TypeCorrect, PTL

(* No thread holds a result for a command that Vivado still has.           *)
THEOREM CompletionIsRealHolds == ~Lookalike => (Spec => []CompletionIsReal)
<1>1. TypeOK /\ CoreInv => CompletionIsReal
  BY ThreadsAreDistinct DEF CoreInv, CommandInv, CompletionIsReal, EarlyLabels, Thread
<1> QED BY <1>1, CoreHolds, TypeCorrect, PTL

(* While a command is dispatched and unfinished, result.json is the        *)
(* no-result marker, if it could be written.                               *)
THEOREM NoStaleResultHolds == ~Lookalike /\ ~DiskMayFail => (Spec => []NoStaleResult)
<1> SUFFICES ASSUME ~Lookalike, ~DiskMayFail
             PROVE  Spec => []NoStaleResult
  OBVIOUS
<1>1. TypeOK /\ CoreInv => NoStaleResult
  BY DispatchedIsEmpty DEF CoreInv, CommandInv, NoStaleResult, DispatchLabels
<1> QED BY <1>1, CoreHolds, TypeCorrect, PTL

=============================================================================
