-------------------------- MODULE DaemonResultProofs --------------------------
(***************************************************************************)
(* What the daemon tells the world: the rest of the inductive invariant    *)
(* IInv, and the properties of result.json, metadata.json and the replies  *)
(* that follow from it.  Each part of the invariant assumes only what it   *)
(* needs: OwnInv and UntouchedInv nothing, RecordInv that the artifacts    *)
(* can be written, OutputInv also that no output looks like the prompt.    *)
(***************************************************************************)
EXTENDS DaemonProofs

-----------------------------------------------------------------------------
(* Steps that concern neither results, metadata nor output. *)

(* One thread moves, and the rest is as before. *)
LEMMA StepMoves ==
  ASSUME TypeOK, NEW t \in Thread, NEW from, NEW to, Step(t, from, to)
  PROVE  /\ \A s \in Thread : pc'[s] = IF s = t THEN to ELSE pc[s]
         /\ pc[t] = from /\ pc'[t] = to /\ Alive
BY DEF Step, TypeOK

(* A worker that is not executing TCL moves between labels outside         *)
(* execute_tcl, or enters it with the slot.                                *)
LEMMA WorkerMoves ==
  ASSUME NEW c \in Conn, Worker(c), ~ExecuteTcl(c)
  PROVE  /\ UNCHANGED <<vivado, reader, res, req, sock, fate, dresult>>
         /\ \E from \in WorkerLabels \ (ExecLabels \union {"none", "pending", "end"}),
               to \in WorkerLabels \ ((ExecLabels \ {"mark"}) \union {"none", "pending", "read"}) :
              Step(c, from, to)
<1> USE DEF WorkerLabels, ExecLabels, flags, clients, artifacts
<1>1. CASE ReadRequest(c)
  BY <1>1 DEF ReadRequest, Goto, ReplyAnd
<1>2. CASE CheckDied(c)
  BY <1>2 DEF CheckDied, Goto, ReplyAnd
<1>3. CASE AcquireSlot(c)
  BY <1>3 DEF AcquireSlot, ReplyAnd
<1>4. CASE ResolveTool(c) \/ SpawnTool(c) \/ RefuseTool(c)
  BY <1>4 DEF ResolveTool, SpawnTool, RefuseTool, Goto, ReplyAnd, ReleaseSlot
<1>5. CASE SetToolBusy(c) \/ FinishTool(c)
  BY <1>5 DEF SetToolBusy, FinishTool
<1>6. CASE PublishMeta(c, "pubtool", "spawn") \/ PublishMeta(c, "pubfin", "release")
  BY <1>6 DEF PublishMeta
<1>7. CASE FinishOperation(c)
  BY <1>7 DEF FinishOperation, ReleaseSlot
<1>8. CASE Answer(c) \/ HandleStop(c) \/ StoreShutdown(c)
  BY <1>8 DEF Answer, HandleStop, StoreShutdown, ReplyAnd, Goto
<1> QED
  BY <1>1, <1>2, <1>3, <1>4, <1>5, <1>6, <1>7, <1>8 DEF Worker, HandleTool

-----------------------------------------------------------------------------
(* Requests. *)

(* The handler a worker runs is the one its request asks for. *)
LEMMA RequestInductive ==
  ASSUME TypeOK, RequestInv, [Next]_vars
  PROVE  RequestInv'
<1> USE DEF flags, clients, artifacts
<1> DEFINE Held == SlotLabels \ (ExecLabels \union {"release"})
<1>m. ASSUME NEW t \in Thread, NEW from, NEW to, Step(t, from, to), req' = req,
             t \in Conn => /\ to \in ExecLabels => from \in ExecLabels \/ req[t] = "exec"
                           /\ to \in Held => from \in Held \/ req[t] # "exec"
      PROVE  RequestInv'
  BY <1>m, StepMoves DEF RequestInv, Thread
<1> HIDE DEF Held
<1>q. ASSUME UNCHANGED <<pc, req>>
      PROVE  RequestInv'
  BY <1>q DEF RequestInv
<1>x. ASSUME NEW t \in Thread, ExecuteTcl(t)
      PROVE  RequestInv'
  <2>1. PICK from \in ExecLabels, to \in ExecLabels \union {AfterExec(t)} :
          Step(t, from, to) /\ req' = req
    BY <1>x DEF ExecuteTcl, LatchMarker, SetBusy, PublishMeta, ArmCollector, LockWriter, Goto,
           SendCommand, TakeOutput, LatchResult, SetIdle, ExecLabels
  <2>2. t \in Conn => AfterExec(t) = "release"
    BY ThreadsAreDistinct DEF AfterExec
  <2> QED BY <2>1, <2>2, <1>m DEF Held, SlotLabels, ExecLabels
<1>1. ASSUME NEW c \in Conn, Worker(c)
      PROVE  RequestInv'
  <2>c. c \in Thread
    BY DEF Thread
  <2>1. CASE ExecuteTcl(c)
    BY <1>x, <2>1, <2>c
  <2>2. CASE RefuseTool(c)
    BY <1>m, <2>c, <2>2 DEF RefuseTool, ReleaseSlot, ReplyAnd, Held, SlotLabels, ExecLabels
  <2>6. CASE HandleTool(c) /\ ~RefuseTool(c)
    <3>1. PICK from \in Held, to \in Held \union {"release"} : Step(c, from, to) /\ req' = req
      BY <2>6
      DEF HandleTool, ResolveTool, SetToolBusy, SpawnTool, FinishTool, PublishMeta, Goto,
          ReplyAnd, Held, SlotLabels, ExecLabels
    <3> QED BY <1>m, <2>c, <3>1 DEF Held, SlotLabels, ExecLabels
  <2>3. CASE AcquireSlot(c)
    BY <1>m, <2>c, <2>3 DEF AcquireSlot, ReplyAnd, Held, SlotLabels, ExecLabels
  <2>4. CASE ReadRequest(c) \/ CheckDied(c)
    BY <1>m, <2>c, <2>4
    DEF ReadRequest, CheckDied, Goto, ReplyAnd, Held, SlotLabels, ExecLabels
  <2>5. CASE FinishOperation(c) \/ Answer(c) \/ HandleStop(c) \/ StoreShutdown(c)
    BY <1>m, <2>c, <2>5
    DEF FinishOperation, Answer, HandleStop, StoreShutdown, ReplyAnd, ReleaseSlot, Held,
        SlotLabels, ExecLabels
  <2> QED BY <1>1, <2>1, <2>2, <2>3, <2>4, <2>5, <2>6 DEF Worker
<1>2. ASSUME NEW c \in Conn, Connect(c)
      PROVE  RequestInv'
  <2>1. Step(c, "none", "pending") /\ \A d \in Conn : d # c => req'[d] = req[d]
    BY <1>2 DEF Connect, TypeOK
  <2> QED BY <2>1, StepMoves DEF RequestInv, Thread, SlotLabels, ExecLabels
<1>3. ASSUME NEW c \in Conn, ToolExits(c)
      PROVE  RequestInv'
  BY <1>3, <1>m DEF ToolExits, Goto, Thread, Held, SlotLabels, ExecLabels
<1>4. CASE MainThread
  <2>1. CASE ExecuteTcl(Main)
    BY <1>x, <2>1 DEF Thread
  <2>2. ASSUME NEW c \in Conn, pc' = [pc EXCEPT ![Main] = "poll", ![c] = "read"], req' = req
        PROVE  RequestInv'
    BY <2>2, ThreadsAreDistinct DEF RequestInv, TypeOK, Thread, SlotLabels, ExecLabels
  <2>3. CASE \E from, to : Step(Main, from, to) /\ req' = req
    BY <2>3, <1>m, ThreadsAreDistinct DEF Thread
  <2>4. \/ ExecuteTcl(Main)
        \/ \E from, to : Step(Main, from, to) /\ req' = req
        \/ \E c \in Conn : pc' = [pc EXCEPT ![Main] = "poll", ![c] = "read"] /\ req' = req
    BY <1>4
    DEF MainThread, Startup, Serve, Shutdown, Crash, PublishMeta, PublishMarker, WaitPrompt,
        OpenProjectDone, SetState, Bind, BindFails, PollFlags, CheckVivado, Accept,
        AskVivadoToExit, EndGrace, Exit, MainGoto, LockWriter, Goto
  <2> QED BY <2>1, <2>2, <2>3, <2>4
<1>5. CASE Reader \/ Vivado \/ Terminate \/ Kill \/ UNCHANGED vars
  BY <1>5, <1>q
  DEF Reader, ReadChunk, Feed, ReaderEof, Vivado, Terminate, Kill, vars
<1> QED BY <1>1, <1>2, <1>3, <1>4, <1>5 DEF Next, Ended

-----------------------------------------------------------------------------
(* Results. *)

(* Steps that leave the results alone, and go on with startup only where   *)
(* it may go on.                                                           *)
LEMMA OwnMove ==
  ASSUME TypeOK, SlotInv, OwnInv, NEW t \in Thread, NEW from, NEW to, Step(t, from, to),
         res' = res, sock' => sock,
         to \notin {"latch", "setidle", "pubidle", "opened", "publish"},
         t = Main => /\ to = "pubmarker" => from = "publish" /\ dresult' = dresult
                     /\ Project /\ to \in {"setready", "pubready", "bind"} =>
                          \/ from \in {"setready", "pubready"}
                          \/ from = "opened" /\ ~res[Main].errors,
         dresult' # dresult => dresult'.cmd = None \/ t = Main \/ sock
  PROVE  OwnInv'
<1>1. \A s \in Thread : pc'[s] = IF s = t THEN to ELSE pc[s]
  BY StepMoves
<1>2. pc[t] = from
  BY StepMoves
<1>3. Main \in Thread
  BY DEF Thread
<1>4. \A s \in Thread : res'[s].cmd \in {None, s}
  BY DEF OwnInv
<1>5. \A s \in Thread : pc'[s] \in {"latch", "setidle", "pubidle", "opened"} => res'[s].cmd = s
  BY <1>1 DEF OwnInv
<1>6. pc'[Main] \in {"publish", "pubmarker"} => dresult'.cmd = None
  BY <1>1, <1>2, <1>3 DEF OwnInv, SlotInv, StartLabels
<1>7. Project /\ (sock' \/ pc'[Main] \in {"setready", "pubready", "bind"}) =>
        res'[Main].cmd = Main /\ ~res'[Main].errors
  BY <1>1, <1>2, <1>3 DEF OwnInv
<1> QED BY <1>4, <1>5, <1>6, <1>7 DEF OwnInv

(* execute_tcl builds the result of its own command. *)
LEMMA OwnExecute ==
  ASSUME TypeOK, SlotInv, OwnInv, NEW t \in Thread, ExecuteTcl(t)
  PROVE  OwnInv'
<1> USE DEF flags, artifacts
<1>e. ASSUME NEW s \in Thread, Alive, pc[s] \in ExecLabels
      PROVE  pc[Main] \notin {"publish", "pubmarker"}
  BY <1>e DEF SlotInv, Thread, StartLabels, ExecLabels
<1>s. ASSUME Alive, NEW s \in Conn, pc[s] # "none"
      PROVE  sock
  BY <1>s DEF SlotInv
<1>m. ASSUME NEW from \in ExecLabels, NEW to, Step(t, from, to), UNCHANGED <<res, sock>>,
             to \notin {"latch", "publish", "pubmarker", "setready", "pubready", "bind"},
             to \in {"setidle", "pubidle", "opened"} => from \in {"latch", "setidle", "pubidle"}
      PROVE  OwnInv'
  <2>1. /\ \A s \in Thread : pc'[s] = IF s = t THEN to ELSE pc[s]
        /\ pc[t] = from /\ Alive
    BY <1>m, StepMoves
  <2>2. Main \in Thread /\ pc[Main] \notin {"publish", "pubmarker"}
    BY <1>e, <2>1 DEF Thread
  <2> QED BY <1>m, <2>1, <2>2 DEF OwnInv
<1>1. CASE LatchMarker(t) \/ SetBusy(t) \/ PublishMeta(t, "pubbusy", "arm")
  BY <1>1, <1>m DEF LatchMarker, SetBusy, PublishMeta, ExecLabels
<1>2. CASE \/ ArmCollector(t) \/ LockWriter(t, "writer", "send") \/ SendCommand(t)
           \/ LatchResult(t) \/ SetIdle(t)
  BY <1>2, <1>m DEF ArmCollector, LockWriter, Goto,
SendCommand, LatchResult, SetIdle, ExecLabels <1>3. CASE PublishMeta(t, "pubidle", AfterExec(t))
  BY <1>3, <1>m DEF PublishMeta, AfterExec, ExecLabels
<1>4. CASE TakeOutput(t)
  <2>1. /\ \A s \in Thread : pc'[s] = IF s = t THEN "latch" ELSE pc[s]
        /\ pc[t] = "wait" /\ Alive
    BY <1>4, StepMoves DEF TakeOutput
  <2>2. /\ \A s \in Thread : res'[s] = IF s = t THEN ResultOf(t) ELSE res[s]
        /\ UNCHANGED <<sock, dresult>>
    BY <1>4 DEF TakeOutput, TypeOK
  <2>3. ResultOf(t).cmd = t
    BY DEF ResultOf
  <2>4. Main \in Thread /\ (t = Main => ~sock)
    BY <2>1 DEF SlotInv, StartLabels, ExecLabels, Thread
  <2> QED BY <2>1, <2>2, <2>3, <2>4 DEF OwnInv
<1> QED BY <1>1, <1>2, <1>3, <1>4 DEF ExecuteTcl

(* A thread's result stays its own in every step.                          *)
LEMMA OwnInductive ==
  ASSUME TypeOK, SlotInv, OwnInv, [Next]_vars
  PROVE  OwnInv'
<1> USE DEF flags, artifacts
<1>m. Main \in Thread
  BY DEF Thread
<1>q. ASSUME UNCHANGED <<pc, res, dresult>>, sock' => sock
      PROVE  OwnInv'
  BY <1>q DEF OwnInv
<1>1. ASSUME NEW c \in Conn, Worker(c)
      PROVE  OwnInv'
  <2>1. CASE ExecuteTcl(c)
    BY <2>1, OwnExecute DEF Thread
  <2>2. CASE ~ExecuteTcl(c)
    <3>1. PICK from, to \in WorkerLabels \ ((ExecLabels \ {"mark"}) \union {"none"}) :
            Step(c, from, to) /\ UNCHANGED <<res, sock, dresult>>
      BY <1>1, <2>2, WorkerMoves
    <3> QED BY <3>1, OwnMove, ThreadsAreDistinct DEF Thread, WorkerLabels, ExecLabels
  <2> QED BY <2>1, <2>2
<1>2. ASSUME NEW c \in Conn, Connect(c) \/ ToolExits(c)
      PROVE  OwnInv'
  BY <1>2, OwnMove, ThreadsAreDistinct DEF Connect, ToolExits, Goto, Thread
<1>3. CASE Startup
  <2>1. CASE ExecuteTcl(Main)
    BY <1>m, <2>1, OwnExecute
  <2>2. CASE Bind
    <3>1. /\ \A s \in Thread : pc'[s] = IF s = Main THEN "poll" ELSE pc[s]
          /\ pc[Main] = "bind" /\ UNCHANGED <<res, dresult>>
      BY <1>m, <2>2, StepMoves DEF Bind
    <3> QED BY <1>m, <3>1 DEF OwnInv
  <2>3. CASE PublishMarker
    <3>1. Step(Main, "pubmarker", "waitprompt") /\ UNCHANGED <<res, sock>>
      BY <2>3 DEF PublishMarker
    <3> QED BY <1>m, <3>1, OwnMove
  <2>4. CASE WaitPrompt \/ OpenProjectDone
    BY <1>m, <2>4, OwnMove DEF WaitPrompt, OpenProjectDone, MainGoto
  <2>5. CASE \/ PublishMeta(Main, "publish", "pubmarker")
             \/ SetState("setready", "pubready", "idle")
             \/ PublishMeta(Main, "pubready", "bind")
    BY <1>m, <2>5, OwnMove DEF PublishMeta, SetState
  <2>6. CASE BindFails
    BY <1>q, <2>6 DEF BindFails, Exit, Step, TypeOK
  <2> QED BY <1>3, <2>1, <2>2, <2>3, <2>4, <2>5, <2>6 DEF Startup
<1>4. CASE Serve
  <2>1. CASE PollFlags \/ CheckVivado \/ MainGoto("accept", "poll")
    BY <1>m, <2>1, OwnMove DEF PollFlags, CheckVivado, MainGoto
  <2>2. ASSUME NEW c \in Conn, pc[Main] = "accept",
               pc' = [pc EXCEPT ![Main] = "poll", ![c] = "read"], UNCHANGED <<res, flags, artifacts>>
        PROVE  OwnInv'
    <3>1. \A s \in Thread : pc'[s] = IF s = c THEN "read" ELSE
                                     IF s = Main THEN "poll" ELSE pc[s]
      BY <2>2, ThreadsAreDistinct DEF TypeOK, Thread
    <3>2. pc[Main] = "accept" /\ UNCHANGED <<res, sock, dresult>>
      BY <2>2
    <3> QED BY <1>m, <3>1, <3>2 DEF OwnInv
  <2> QED BY <1>4, <2>1, <2>2 DEF Serve, Accept
<1>5. CASE Shutdown \/ Crash
  <2>1. CASE Exit("stopped", "stopped") \/ Exit("crashed", "failed")
    BY <1>q, <2>1 DEF Exit, Step, TypeOK
  <2>2. CASE LockWriter(Main, "leave", "drain") \/ AskVivadoToExit \/ EndGrace
    BY <1>m, <2>2, OwnMove DEF LockWriter, Goto, AskVivadoToExit, EndGrace
  <2>3. CASE \/ SetState("setstopped", "pubstopped", "stopped")
             \/ SetState("setcrashed", "pubcrashed", "crashed")
             \/ PublishMeta(Main, "pubstopped", "stopped")
             \/ PublishMeta(Main, "pubcrashed", "crashed")
    BY <1>m, <2>3, OwnMove DEF SetState, PublishMeta
  <2> QED BY <1>5, <2>1, <2>2, <2>3 DEF Shutdown, Crash
<1>6. CASE Reader \/ Vivado \/ Terminate \/ Kill \/ UNCHANGED vars
  BY <1>6, <1>q DEF Reader, ReadChunk, Feed, ReaderEof, Vivado, Terminate, Kill, vars
<1> QED BY <1>1, <1>2, <1>3, <1>4, <1>5, <1>6 DEF Next, Ended, MainThread

-----------------------------------------------------------------------------
(* Metadata. *)

(* The slot excludes tools and commands alike. *)
LEMMA OneHolder ==
  ASSUME TypeOK, SlotInv, Alive, NEW s \in Thread, NEW t \in Thread,
         pc[s] \in SlotLabels, pc[t] \in SlotLabels
  PROVE  s = t
<1>1. pc[Main] \in SlotLabels => pc[Main] \in StartLabels
  BY DEF TypeOK, MainLabels, LoopLabels, CrashLabels, StartLabels, SlotLabels, ExecLabels
<1>2. ASSUME NEW c \in Conn, pc[c] \in SlotLabels
      PROVE  inflight = c /\ pc[Main] \notin SlotLabels
  <2>1. inflight = c
    BY <1>2 DEF SlotInv
  <2>2. pc[c] # "none"
    BY <1>2 DEF SlotLabels, ExecLabels
  <2> QED BY <1>1, <2>1, <2>2 DEF SlotInv
<1> QED BY <1>2 DEF Thread

Announced == BusyLabels \union ToolBusyLabels

(* Operations that metadata.json announces are in code the slot protects.  *)
LEMMA AnnouncedHolds ==
  /\ Announced \subseteq SlotLabels /\ BusyLabels \subseteq ExecLabels
  /\ ExecLabels \subseteq SlotLabels
BY DEF Announced, BusyLabels, ToolBusyLabels, SlotLabels, ExecLabels

(* Steps that announce nothing and withdraw nothing. *)
LEMMA RecordMove ==
  ASSUME TypeOK, RecordInv, NEW t \in Thread, NEW from, NEW to, Step(t, from, to),
         UNCHANGED <<meta, artifacts>>,
         to \in BusyLabels <=> from \in BusyLabels, from # "pubidle",
         to \in Announced => from \in Announced \ {"pubbusy", "pubtool"},
         to \notin {"setidle", "pubidle"}
  PROVE  RecordInv'
BY StepMoves DEF RecordInv, Announced, artifacts

(* Whoever writes metadata.json writes what is in memory. *)
LEMMA RecordPublish ==
  ASSUME ~DiskMayFail, TypeOK, RecordInv, NEW t \in Thread, NEW from, NEW to,
         PublishMeta(t, from, to),
         to \in BusyLabels <=> from \in BusyLabels,
         to \in Announced => from \in Announced,
         to \notin {"setidle", "pubidle"}
  PROVE  RecordInv'
<1>1. /\ \A s \in Thread : pc'[s] = IF s = t THEN to ELSE pc[s]
      /\ pc[t] = from
  BY StepMoves DEF PublishMeta
<1>2. dmeta' = meta /\ UNCHANGED <<meta, dresult>>
  BY DEF PublishMeta, SaveMeta
<1> QED BY <1>1, <1>2 DEF RecordInv, Announced

(* A new state is announced by the thread that has the slot, or when       *)
(* nothing is announced.                                                   *)
LEMMA RecordAnnounce ==
  ASSUME TypeOK, RecordInv, NEW t \in Thread, NEW from, NEW to, Step(t, from, to),
         UNCHANGED artifacts,
         \A s \in Thread : s # t => pc[s] \notin Announced \/
                                    (meta'.state # "idle" /\ meta'.cmd = meta.cmd),
         to \in BusyLabels => meta'.cmd = t,
         to \notin BusyLabels /\ from \in BusyLabels => meta'.cmd = None,
         to \notin BusyLabels /\ from \notin BusyLabels => meta'.cmd = meta.cmd,
         to \in Announced => to \in {"pubbusy", "pubtool"} /\ meta'.state # "idle",
         from # "pubidle", to # "setidle", to = "pubidle" <=> from = "setidle",
         from \in BusyLabels => from = "setidle"
  PROVE  RecordInv'
<1>1. /\ \A s \in Thread : pc'[s] = IF s = t THEN to ELSE pc[s]
      /\ pc[t] = from
  BY StepMoves
<1>2. \A s \in Thread : s # None
  BY ThreadsAreDistinct DEF Thread
<1>3. \A s \in Thread : meta'.cmd = s <=> pc'[s] \in BusyLabels
  <2>1. CASE to \in BusyLabels
    BY <1>1, <2>1 DEF RecordInv, Announced
  <2>2. CASE to \notin BusyLabels /\ from \in BusyLabels
    BY <1>1, <1>2, <2>2 DEF RecordInv, Announced
  <2>3. CASE to \notin BusyLabels /\ from \notin BusyLabels
    BY <1>1, <2>3 DEF RecordInv
  <2> QED BY <2>1, <2>2, <2>3
<1>4. dmeta' = dmeta /\ dresult' = dresult
  BY DEF artifacts
<1>5. \A s \in Thread : dmeta'.cmd = s => pc'[s] \in BusyLabels \union {"pubidle"}
  BY <1>1, <1>4 DEF RecordInv, BusyLabels
<1>6. \A s \in Thread : pc'[s] \in Announced => meta'.state # "idle"
  BY <1>1 DEF RecordInv
<1>7. \A s \in Thread : pc'[s] \in Announced \ {"pubbusy", "pubtool"} => dmeta'.state # "idle"
  BY <1>1, <1>4 DEF RecordInv, Announced
<1>8. \A s \in Thread : pc'[s] \in {"setidle", "pubidle"} => dresult'.cmd = s
  BY <1>1, <1>4 DEF RecordInv
<1> QED BY <1>3, <1>5, <1>6, <1>7, <1>8 DEF RecordInv, Announced

(* execute_tcl keeps the artifacts in step with its command.               *)
LEMMA RecordExecute ==
  ASSUME ~DiskMayFail, TypeOK, SlotInv, OwnInv, RecordInv, NEW t \in Thread, ExecuteTcl(t)
  PROVE  RecordInv'
<1> USE DEF artifacts
<1>a. Alive /\ pc[t] \in ExecLabels
  BY DEF ExecuteTcl, LatchMarker, SetBusy, PublishMeta, ArmCollector, LockWriter, Goto,
         SendCommand, TakeOutput, LatchResult, SetIdle, ExecLabels, Step
<1>o. \A s \in Thread : s # t => pc[s] \notin SlotLabels
  BY <1>a, OneHolder, AnnouncedHolds
<1>n. \A s \in Thread : s # t => pc[s] \notin Announced /\ pc[s] \notin {"setidle", "pubidle"}
  BY <1>o, AnnouncedHolds DEF ExecLabels
<1>1. CASE LatchMarker(t) \/ LatchResult(t)
  <2>1. PICK from, to :
          /\ Step(t, from, to) /\ UNCHANGED <<meta, dmeta>>
          /\ <<from, to>> \in {<<"mark", "setbusy">>, <<"latch", "setidle">>}
          /\ from = "latch" => dresult' = res[t]
    BY <1>1 DEF LatchMarker, LatchResult, SaveResult
  <2>2. /\ \A s \in Thread : pc'[s] = IF s = t THEN to ELSE pc[s]
        /\ pc[t] = from
    BY <2>1, StepMoves
  <2>3. pc[t] = "latch" => dresult'.cmd = t
    BY <2>1, <2>2 DEF OwnInv
  <2> QED BY <1>n, <2>1, <2>2, <2>3 DEF RecordInv, Announced, BusyLabels, ToolBusyLabels
<1>2. CASE SetBusy(t)
  <2>1. Step(t, "setbusy", "pubbusy") /\ UNCHANGED artifacts
        /\ meta'.state = "busy" /\ meta'.cmd = t
    BY <1>2 DEF SetBusy, TypeOK, Metadata
  <2> QED BY <1>n, <2>1, RecordAnnounce DEF Announced, BusyLabels, ToolBusyLabels
<1>3. CASE PublishMeta(t, "pubbusy", "arm")
  BY <1>3, RecordPublish DEF Announced, BusyLabels, ToolBusyLabels
<1>4. CASE \/ ArmCollector(t) \/ LockWriter(t, "writer", "send")
           \/ SendCommand(t) \/ TakeOutput(t)
  BY <1>4, RecordMove
  DEF ArmCollector, LockWriter, Goto, SendCommand, TakeOutput, Announced, BusyLabels,
      ToolBusyLabels
<1>5. CASE SetIdle(t)
  <2>1. Step(t, "setidle", "pubidle") /\ UNCHANGED artifacts /\ meta'.cmd = None
    BY <1>5 DEF SetIdle, TypeOK, Metadata
  <2> QED BY <1>n, <2>1, RecordAnnounce DEF Announced, BusyLabels, ToolBusyLabels
<1>6. CASE PublishMeta(t, "pubidle", AfterExec(t))
  BY <1>6, RecordPublish DEF AfterExec, Announced, BusyLabels, ToolBusyLabels
<1> QED BY <1>1, <1>2, <1>3, <1>4, <1>5, <1>6 DEF ExecuteTcl

(* The handlers keep the artifacts in step with the operation.             *)
LEMMA RecordWorker ==
  ASSUME ~DiskMayFail, TypeOK, SlotInv, OwnInv, RecordInv, NEW c \in Conn, Worker(c)
  PROVE  RecordInv'
<1> USE DEF artifacts, Announced, BusyLabels, ToolBusyLabels
<1>c. c \in Thread
  BY DEF Thread
<1>o. ASSUME Alive, pc[c] \in {"toolbusy", "toolfin"}
      PROVE  \A s \in Thread : s # c => pc[s] \notin Announced
  BY <1>c, <1>o, OneHolder, AnnouncedHolds DEF SlotLabels
<1>1. CASE ExecuteTcl(c)
  BY <1>c, <1>1, RecordExecute
<1>2. CASE ReadRequest(c) \/ CheckDied(c) \/ AcquireSlot(c)
  BY <1>c, <1>2, RecordMove DEF ReadRequest, CheckDied, AcquireSlot, Goto, ReplyAnd
<1>3. CASE ResolveTool(c) \/ RefuseTool(c) \/ SpawnTool(c)
  BY <1>c, <1>3, RecordMove
  DEF ResolveTool, RefuseTool, SpawnTool, Goto, ReplyAnd, ReleaseSlot
<1>4. CASE SetToolBusy(c)
  <2>1. Step(c, "toolbusy", "pubtool") /\ UNCHANGED artifacts
        /\ meta'.state = "busy" /\ meta'.cmd = meta.cmd
    BY <1>4 DEF SetToolBusy, TypeOK, Metadata
  <2>2. Alive /\ pc[c] = "toolbusy"
    BY <2>1 DEF Step
  <2> QED BY <1>c, <1>o, <2>1, <2>2, RecordAnnounce
<1>5. CASE FinishTool(c)
  <2>1. Step(c, "toolfin", "pubfin") /\ UNCHANGED artifacts /\ meta'.cmd = meta.cmd
    BY <1>5 DEF FinishTool, TypeOK, Metadata
  <2>2. Alive /\ pc[c] = "toolfin"
    BY <2>1 DEF Step
  <2> QED BY <1>c, <1>o, <2>1, <2>2, RecordAnnounce
<1>6. CASE PublishMeta(c, "pubtool", "spawn") \/ PublishMeta(c, "pubfin", "release")
  BY <1>c, <1>6, RecordPublish
<1>7. CASE FinishOperation(c) \/ Answer(c) \/ HandleStop(c) \/ StoreShutdown(c)
  BY <1>c, <1>7, RecordMove
  DEF FinishOperation, Answer, HandleStop, StoreShutdown, ReplyAnd, ReleaseSlot
<1> QED BY <1>1, <1>2, <1>3, <1>4, <1>5, <1>6, <1>7 DEF Worker, HandleTool

(* The main thread keeps the artifacts in step, at startup and in the      *)
(* shutdown.                                                               *)
LEMMA RecordMain ==
  ASSUME ~DiskMayFail, TypeOK, SlotInv, OwnInv, RecordInv, MainThread
  PROVE  RecordInv'
<1> USE DEF artifacts, Announced, BusyLabels, ToolBusyLabels
<1>m. Main \in Thread
  BY DEF Thread
<1>w. ASSUME pc[Main] \in StartLabels
      PROVE  \A s \in Thread : s # Main => pc[s] = "none"
  BY <1>w DEF SlotInv, Thread
<1>1. CASE Startup
  <2>1. CASE ExecuteTcl(Main)
    BY <1>m, <2>1, RecordExecute
  <2>2. CASE PublishMarker
    <3>1. /\ \A s \in Thread : pc'[s] = IF s = Main THEN "waitprompt" ELSE pc[s]
          /\ pc[Main] = "pubmarker"
      BY <1>m, <2>2, StepMoves DEF PublishMarker
    <3>2. UNCHANGED <<meta, dmeta>>
      BY <2>2 DEF PublishMarker
    <3> QED BY <1>w, <3>1, <3>2 DEF RecordInv, StartLabels
  <2>3. CASE WaitPrompt \/ OpenProjectDone \/ Bind
    BY <1>m, <2>3, RecordMove DEF WaitPrompt, OpenProjectDone, Bind, MainGoto
  <2>4. CASE SetState("setready", "pubready", "idle")
    <3>1. Step(Main, "setready", "pubready") /\ UNCHANGED artifacts /\ meta'.cmd = meta.cmd
      BY <2>4 DEF SetState, TypeOK, Metadata
    <3>2. \A s \in Thread : s # Main => pc[s] \notin Announced
      BY <1>m, <1>w, <3>1, StepMoves DEF StartLabels
    <3> QED BY <1>m, <3>1, <3>2, RecordAnnounce
  <2>5. CASE PublishMeta(Main, "publish", "pubmarker") \/ PublishMeta(Main, "pubready", "bind")
    BY <1>m, <2>5, RecordPublish
  <2>6. CASE BindFails
    BY <2>6 DEF BindFails, Exit, Step, TypeOK, RecordInv
  <2> QED BY <1>1, <2>1, <2>2, <2>3, <2>4, <2>5, <2>6 DEF Startup
<1>2. CASE Serve
  <2>1. CASE PollFlags \/ CheckVivado \/ MainGoto("accept", "poll")
    BY <1>m, <2>1, RecordMove DEF PollFlags, CheckVivado, MainGoto
  <2>2. ASSUME NEW c \in Conn, pc[c] = "pending", pc[Main] = "accept",
               pc' = [pc EXCEPT ![Main] = "poll", ![c] = "read"], UNCHANGED <<meta, artifacts>>
        PROVE  RecordInv'
    <3>1. \A s \in Thread : pc'[s] = IF s = c THEN "read" ELSE
                                     IF s = Main THEN "poll" ELSE pc[s]
      BY <2>2, ThreadsAreDistinct DEF TypeOK, Thread
    <3>2. pc[c] = "pending" /\ pc[Main] = "accept" /\ UNCHANGED <<meta, dmeta, dresult>>
      BY <2>2
    <3> QED BY <1>m, <3>1, <3>2 DEF RecordInv
  <2> QED BY <1>2, <2>1, <2>2 DEF Serve, Accept
<1>3. CASE Shutdown \/ Crash
  <2>1. CASE Exit("stopped", "stopped") \/ Exit("crashed", "failed")
    BY <2>1 DEF Exit, Step, TypeOK, RecordInv
  <2>2. CASE LockWriter(Main, "leave", "drain") \/ AskVivadoToExit \/ EndGrace
    BY <1>m, <2>2, RecordMove DEF LockWriter, Goto, AskVivadoToExit, EndGrace
  <2>3. ASSUME NEW from \in {"setstopped", "setcrashed"}, NEW to \in {"pubstopped", "pubcrashed"},
               NEW state \in {"stopped", "crashed"}, SetState(from, to, state)
        PROVE  RecordInv'
    <3>1. Step(Main, from, to) /\ UNCHANGED artifacts
          /\ meta'.state = state /\ meta'.cmd = meta.cmd
      BY <2>3 DEF SetState, TypeOK, Metadata
    <3> QED BY <1>m, <3>1, RecordAnnounce
  <2>4. CASE \/ PublishMeta(Main, "pubstopped", "stopped")
             \/ PublishMeta(Main, "pubcrashed", "crashed")
    BY <1>m, <2>4, RecordPublish
  <2> QED BY <1>3, <2>1, <2>2, <2>3, <2>4 DEF Shutdown, Crash
<1> QED BY <1>1, <1>2, <1>3 DEF MainThread

(* Every step keeps RecordInv when writes succeed.                         *)
LEMMA RecordInductive ==
  ASSUME ~DiskMayFail, TypeOK, SlotInv, OwnInv, RecordInv, [Next]_vars
  PROVE  RecordInv'
<1> USE DEF artifacts
<1>1. ASSUME NEW c \in Conn, Worker(c)
      PROVE  RecordInv'
  BY <1>1, RecordWorker
<1>2. ASSUME NEW c \in Conn, Connect(c) \/ ToolExits(c)
      PROVE  RecordInv'
  BY <1>2, RecordMove
  DEF Connect, ToolExits, Goto, Thread, Announced, BusyLabels, ToolBusyLabels
<1>3. CASE MainThread
  BY <1>3, RecordMain
<1>4. CASE Reader \/ Vivado \/ Terminate \/ Kill \/ UNCHANGED vars
  <2>1. UNCHANGED <<pc, meta, artifacts>>
    BY <1>4 DEF Reader, ReadChunk, Feed, ReaderEof, Vivado, Terminate, Kill, vars
  <2> QED BY <2>1 DEF RecordInv
<1> QED BY <1>1, <1>2, <1>3, <1>4 DEF Next, Ended

-----------------------------------------------------------------------------
(* What a sequence holds after an element is appended, or cut off. *)
LEMMA AppendElements ==
  ASSUME NEW S, NEW s \in Seq(S), NEW e \in S, NEW r, r = Append(s, e)
  PROVE  /\ DOMAIN r = 1..(Len(s) + 1) /\ DOMAIN s = 1..Len(s) /\ Len(s) \in Nat
         /\ r[Len(s) + 1] = e /\ \A i \in DOMAIN s : i \in DOMAIN r /\ r[i] = s[i]
         /\ \A i \in DOMAIN r : (i = Len(s) + 1 /\ r[i] = e) \/ (i \in DOMAIN s /\ r[i] = s[i])
<1>1. Len(s) \in Nat /\ DOMAIN s = 1..Len(s)
  BY LenProperties
<1>2. /\ DOMAIN r = 1..(Len(s) + 1)
      /\ \A i \in 1..Len(s) : r[i] = s[i]
      /\ r[Len(s) + 1] = e
  BY <1>1, AppendProperties, LenProperties
<1> QED BY <1>1, <1>2

(* The elements of the two parts of a sequence that is cut.                *)
LEMMA SplitElements ==
  ASSUME NEW S, NEW s \in Seq(S), NEW n \in 1..Len(s), NEW a, NEW b,
         a = SubSeq(s, 1, n), b = SubSeq(s, n + 1, Len(s))
  PROVE  /\ DOMAIN a = 1..n /\ \A i \in DOMAIN a : i \in DOMAIN s /\ a[i] = s[i]
         /\ DOMAIN b = 1..(Len(s) - n)
         /\ \A i \in DOMAIN b : i + n \in DOMAIN s /\ b[i] = s[i + n]
<1>1. Len(s) \in Nat /\ DOMAIN s = 1..Len(s)
  BY LenProperties
<1>2. DOMAIN a = 1..n /\ \A i \in 1..n : a[i] = s[i]
  BY <1>1
<1>3. DOMAIN b = 1..(Len(s) - n) /\ \A i \in 1..(Len(s) - n) : b[i] = s[i + n]
  BY <1>1
<1> QED BY <1>1, <1>2, <1>3

(* The elements of what is left when the first one is taken.               *)
LEMMA TailElements ==
  ASSUME NEW S, NEW s \in Seq(S), s # <<>>
  PROVE  /\ Head(s) = s[1] /\ 1 \in DOMAIN s
         /\ \A i \in DOMAIN Tail(s) : i + 1 \in DOMAIN s /\ Tail(s)[i] = s[i + 1]
<1>1. Len(s) \in Nat /\ DOMAIN s = 1..Len(s) /\ Len(s) > 0
  BY LenProperties, EmptySeq
<1>2. /\ DOMAIN Tail(s) = 1..(Len(s) - 1)
      /\ \A i \in 1..(Len(s) - 1) : Tail(s)[i] = s[i + 1]
  BY <1>1, HeadTailProperties, LenProperties
<1> QED BY <1>1, <1>2

-----------------------------------------------------------------------------
(* Refusals. *)

(* Vivado prints for the command it runs, and runs what it was sent. *)
LEMMA VivadoAddsNothing ==
  ASSUME TypeOK, InterpreterNext
  PROVE  /\ Dispatched' \subseteq Dispatched
         /\ \A i \in DOMAIN pty' :
              \/ pty'[i].src \in {None, running}
              \/ \E j \in DOMAIN pty : pty'[i] = pty[j]
<1>0. pty \in Seq(Token) /\ stdin \in Seq(Source) /\ running \in Source
  BY DEF TypeOK, InterpreterTypeOK
<1>e. ASSUME NEW src \in Source, NEW kind \in {"out", "err", "prompt"}, Emit(src, kind)
      PROVE  \A i \in DOMAIN pty' : pty'[i].src = src \/ \E j \in DOMAIN pty : pty'[i] = pty[j]
  <2> DEFINE tok == [src |-> src, kind |-> kind]
  <2>1. tok \in Token /\ tok.src = src /\ pty' = Append(pty, tok)
    BY <1>e DEF Token, Emit
  <2> HIDE DEF tok
  <2>2. \A i \in DOMAIN pty' : pty'[i] = tok \/ (i \in DOMAIN pty /\ pty'[i] = pty[i])
    BY <1>0, <2>1, AppendElements
  <2> QED BY <2>1, <2>2
<1>n. None \in Source
  BY DEF Source
<1>1. CASE Boot
  BY <1>1, <1>n, <1>e DEF Boot, Dispatched
<1>2. CASE ReadCommand
  <2>1. stdin # <<>> /\ running' = Head(stdin) /\ stdin' = Tail(stdin) /\ pty' = pty
    BY <1>2 DEF ReadCommand
  <2>2. /\ running' \in {stdin[i] : i \in DOMAIN stdin}
        /\ \A i \in DOMAIN stdin' : stdin'[i] \in {stdin[j] : j \in DOMAIN stdin}
    BY <1>0, <2>1, TailElements
  <2> QED BY <2>1, <2>2 DEF Dispatched
<1>3. CASE ReadExit
  BY <1>3, <1>n, <1>e DEF ReadExit, Dispatched
<1>4. CASE WriteOutput
  <2>1. PICK kind \in {"out", "err", "prompt"} : PrintOutput(kind)
    BY <1>4 DEF WriteOutput
  <2> QED BY <1>0, <1>e, <2>1 DEF PrintOutput, Dispatched
<1>5. CASE Finish
  BY <1>0, <1>5, <1>e DEF Finish, Dispatched
<1>6. CASE Die
  BY <1>6 DEF Die, Dispatched
<1> QED BY <1>1, <1>2, <1>3, <1>4, <1>5, <1>6 DEF InterpreterNext

(* What a thread sends is its own. *)
LEMMA SendAddsOwn ==
  ASSUME TypeOK, NEW t \in Source, stdin' = Append(stdin, t), running' = running
  PROVE  Dispatched' \subseteq Dispatched \union {t}
<1>1. stdin \in Seq(Source)
  BY DEF TypeOK, InterpreterTypeOK
<1>2. \A i \in DOMAIN stdin' : stdin'[i] = t \/ (i \in DOMAIN stdin /\ stdin'[i] = stdin[i])
  BY <1>1, AppendElements
<1> QED BY <1>2 DEF Dispatched

(* Only a connection's own worker, past the point of refusal, leaves a     *)
(* trace of it anywhere.                                                   *)
LEMMA UntouchedKept ==
  ASSUME TypeOK, OwnInv, [Next]_vars,
         NEW c \in Conn, Untouched(c), pc[c] \in FreshLabels \union {"end"}
  PROVE  Untouched(c)'
<1> USE DEF vivado, reader, artifacts
<1>0. c # None /\ c # Main /\ c \in Thread
  BY ThreadsAreDistinct DEF Thread
<1>q. ASSUME UNCHANGED <<stdin, running, pty, hand, buf>>,
             dresult'.cmd # c, dmeta'.cmd # c, meta'.cmd # c, meta'.tool # c
      PROVE  Untouched(c)'
  BY <1>q DEF Untouched, Dispatched
<1>u. ASSUME UNCHANGED <<stdin, running, pty, hand, buf, dresult, dmeta, meta>>
      PROVE  Untouched(c)'
  BY <1>u, <1>q DEF Untouched
<1>p. ASSUME NEW t, NEW from, NEW to, PublishMeta(t, from, to)
      PROVE  Untouched(c)'
  BY <1>p, <1>q DEF PublishMeta, SaveMeta, Untouched
<1>x. ASSUME NEW t \in Thread, ExecuteTcl(t)
      PROVE  Untouched(c)'
  <2>1. t # c /\ pc[t] \in ExecLabels
    BY <1>x
    DEF ExecuteTcl, LatchMarker, SetBusy, PublishMeta, ArmCollector, LockWriter, Goto,
        SendCommand, TakeOutput, LatchResult, SetIdle, ExecLabels, Step, FreshLabels
  <2>2. CASE LatchMarker(t)
    BY <1>0, <1>q, <2>2 DEF LatchMarker, SaveResult, Marker, Untouched
  <2>3. CASE LatchResult(t)
    <3>1. res[t].cmd # c
      BY <1>0, <2>1 DEF OwnInv
    <3> QED BY <1>q, <2>3, <3>1 DEF LatchResult, SaveResult, Untouched
  <2>4. CASE SetBusy(t) \/ SetIdle(t)
    <3>1. meta'.cmd \in {t, None} /\ meta'.tool = meta.tool
      BY <2>4 DEF SetBusy, SetIdle, TypeOK, Metadata
    <3> QED BY <1>0, <1>q, <2>1, <2>4, <3>1 DEF SetBusy, SetIdle, Untouched
  <2>5. CASE PublishMeta(t, "pubbusy", "arm") \/ PublishMeta(t, "pubidle", AfterExec(t))
    BY <1>p, <2>5
  <2>6. CASE ArmCollector(t) \/ TakeOutput(t)
    BY <2>6 DEF ArmCollector, TakeOutput, Untouched, Dispatched
  <2>7. CASE SendCommand(t)
    <3>1. /\ stdin' = stdin \/ stdin' = Append(stdin, t)
          /\ UNCHANGED <<running, pty, hand, buf, dresult, dmeta, meta>>
      BY <2>7 DEF SendCommand
    <3>2. Dispatched' \subseteq Dispatched \union {t}
      BY <3>1, SendAddsOwn DEF Source, Dispatched
    <3> QED BY <2>1, <3>1, <3>2 DEF Untouched
  <2>8. CASE LockWriter(t, "writer", "send")
    BY <1>u, <2>8 DEF LockWriter, Goto
  <2> QED BY <1>x, <2>2, <2>3, <2>4, <2>5, <2>6, <2>7, <2>8 DEF ExecuteTcl
<1>1. CASE Reader
  <2>1. CASE ReadChunk
    <3>1. PICK n \in 1..Len(pty) : hand' = SubSeq(pty, 1, n)
                                 /\ pty' = SubSeq(pty, n + 1, Len(pty))
      BY <2>1 DEF ReadChunk
    <3>2. /\ \A i \in DOMAIN hand' : hand'[i] \in {pty[j] : j \in DOMAIN pty}
          /\ \A i \in DOMAIN pty' : pty'[i] \in {pty[j] : j \in DOMAIN pty}
      <4>1. pty \in Seq(Token)
        BY DEF TypeOK, InterpreterTypeOK
      <4> QED BY <3>1, <4>1, SplitElements
    <3> QED BY <2>1, <3>2 DEF ReadChunk, Untouched, Dispatched
  <2>2. CASE Feed
    <3>1. UNCHANGED <<stdin, running, pty, dresult, dmeta, meta>> /\ hand' = <<>>
      BY <2>2 DEF Feed
    <3>2. \A tok \in buf' : tok \in buf \/ \E i \in DOMAIN hand : tok = hand[i]
      BY <2>2 DEF Feed, TextOf
    <3> QED BY <3>1, <3>2 DEF Untouched, Dispatched
  <2>3. CASE ReaderEof
    BY <1>u, <2>3 DEF ReaderEof
  <2> QED BY <1>1, <2>1, <2>2, <2>3 DEF Reader
<1>2. CASE Vivado
  <2>1. InterpreterNext /\ UNCHANGED <<hand, buf, dresult, dmeta, meta>>
    BY <1>2 DEF Vivado
  <2>2. running # c
    BY <1>0 DEF Untouched, Dispatched
  <2>3. \A i \in DOMAIN pty' : pty'[i].src # c
    BY <1>0, <2>1, <2>2, VivadoAddsNothing DEF Untouched
  <2>4. c \notin Dispatched'
    BY <2>1, VivadoAddsNothing DEF Untouched
  <2> QED BY <2>1, <2>3, <2>4 DEF Untouched
<1>3. ASSUME NEW d \in Conn, Worker(d)
      PROVE  Untouched(c)'
  <2>1. CASE ExecuteTcl(d)
    BY <1>x, <2>1 DEF Thread
  <2>2. CASE SetToolBusy(d)
    <3>1. d # c
      BY <2>2 DEF SetToolBusy, Step, FreshLabels
    <3>2. meta'.cmd = meta.cmd /\ meta'.tool = d
      BY <2>2 DEF SetToolBusy, TypeOK, Metadata
    <3> QED BY <1>q, <2>2, <3>1, <3>2 DEF SetToolBusy, Untouched
  <2>3. CASE FinishTool(d)
    <3>1. meta'.cmd = meta.cmd /\ meta'.tool = None
      BY <2>3 DEF FinishTool, TypeOK, Metadata
    <3> QED BY <1>0, <1>q, <2>3, <3>1 DEF FinishTool, Untouched
  <2>4. CASE PublishMeta(d, "pubtool", "spawn") \/ PublishMeta(d, "pubfin", "release")
    BY <1>p, <2>4
  <2>5. CASE ReadRequest(d) \/ CheckDied(d) \/ AcquireSlot(d)
    BY <1>u, <2>5 DEF ReadRequest, CheckDied, AcquireSlot, Goto, ReplyAnd
  <2>6. CASE ResolveTool(d) \/ RefuseTool(d) \/ SpawnTool(d)
    BY <1>u, <2>6 DEF ResolveTool, RefuseTool, SpawnTool, Goto, ReplyAnd, ReleaseSlot
  <2>7. CASE FinishOperation(d) \/ Answer(d) \/ HandleStop(d) \/ StoreShutdown(d)
    BY <1>u, <2>7
    DEF FinishOperation, Answer, HandleStop, StoreShutdown, ReplyAnd, ReleaseSlot
  <2> QED BY <1>3, <2>1, <2>2, <2>3, <2>4, <2>5, <2>6, <2>7 DEF Worker, HandleTool
<1>4. ASSUME NEW d \in Conn, Connect(d) \/ ToolExits(d)
      PROVE  Untouched(c)'
  BY <1>u, <1>4 DEF Connect, ToolExits, Goto
<1>5. CASE MainThread
  <2>1. CASE ExecuteTcl(Main)
    BY <1>x, <2>1 DEF Thread
  <2>2. CASE \E from, to : PublishMeta(Main, from, to)
    BY <1>p, <2>2
  <2>3. CASE PublishMarker
    BY <1>0, <1>q, <2>3 DEF PublishMarker, SaveResult, Marker, Untouched
  <2>4. CASE AskVivadoToExit
    <3>1. /\ stdin' = stdin \/ stdin' = Append(stdin, None)
          /\ UNCHANGED <<running, pty, hand, buf, dresult, dmeta, meta>>
      BY <2>4 DEF AskVivadoToExit
    <3>2. Dispatched' \subseteq Dispatched \union {None}
      BY <3>1, SendAddsOwn DEF Source, Dispatched
    <3> QED BY <1>0, <3>1, <3>2 DEF Untouched
  <2>5. CASE EndGrace
    <3>1. /\ (stdin' = stdin /\ running' = running) \/ (stdin' = <<>> /\ running' = None)
          /\ UNCHANGED <<pty, hand, buf, dresult, dmeta, meta>>
      BY <2>5 DEF EndGrace
    <3>2. Dispatched' \subseteq Dispatched
      BY <3>1 DEF Dispatched
    <3> QED BY <3>1, <3>2 DEF Untouched
  <2>6. CASE \E from, to, state : SetState(from, to, state)
    <3>1. meta'.cmd = meta.cmd /\ meta'.tool = meta.tool
      BY <2>6 DEF SetState, TypeOK, Metadata
    <3> QED BY <1>q, <2>6, <3>1 DEF SetState, Untouched
  <2>7. CASE WaitPrompt \/ OpenProjectDone \/ Bind \/ Serve \/ LockWriter(Main, "leave", "drain")
    BY <1>u, <2>7
    DEF WaitPrompt, OpenProjectDone, Bind, Serve, PollFlags, CheckVivado, Accept, MainGoto,
        LockWriter, Goto
  <2>8. CASE BindFails \/ Exit("stopped", "stopped") \/ Exit("crashed", "failed")
    BY <1>u, <2>8 DEF BindFails, Exit
  <2> QED
    BY <1>5, <2>1, <2>2, <2>3, <2>4, <2>5, <2>6, <2>7, <2>8
    DEF MainThread, Startup, Shutdown, Crash
<1>6. CASE Terminate \/ Kill \/ UNCHANGED vars
  BY <1>u, <1>6 DEF Terminate, Kill, vars
<1> QED BY <1>1, <1>2, <1>3, <1>4, <1>5, <1>6 DEF Next, Ended

(* A refusal is the last thing a worker does, and it comes before the      *)
(* worker has done anything else.                                          *)
LEMMA RefusalIsLast ==
  ASSUME TypeOK, NEW c \in Conn, Refused(c) => pc[c] = "end", [Next]_vars
  PROVE  /\ Refused(c)' => pc'[c] = "end"
         /\ Refused(c)' \/ pc'[c] \in FreshLabels => Refused(c) \/ pc[c] \in FreshLabels
<1> USE DEF clients
<1>0. c \in Thread /\ c # Main
  BY ThreadsAreDistinct DEF Thread
<1>g. ASSUME NEW from \in WorkerLabels, NEW to, Step(c, from, to), reply' = reply, from # "end",
             to \in FreshLabels => from \in FreshLabels
      PROVE  /\ Refused(c)' => pc'[c] = "end"
             /\ Refused(c)' \/ pc'[c] \in FreshLabels => Refused(c) \/ pc[c] \in FreshLabels
  BY <1>0, <1>g, StepMoves DEF Refused
<1>r. ASSUME NEW from \in WorkerLabels, NEW to, NEW r, ReplyAnd(c, from, to, r), from # "end",
             to \notin FreshLabels,
             r \in {"busy", "crashed", "usage"} => from \in FreshLabels /\ to = "end"
      PROVE  /\ Refused(c)' => pc'[c] = "end"
             /\ Refused(c)' \/ pc'[c] \in FreshLabels => Refused(c) \/ pc[c] \in FreshLabels
  <2>1. Step(c, from, to) /\ reply'[c] = r
    BY <1>r DEF ReplyAnd, TypeOK
  <2> QED BY <1>0, <1>r, <2>1, StepMoves DEF Refused
<1>o. ASSUME NEW t \in Thread, t # c, NEW from, NEW to, Step(t, from, to), reply'[c] = reply[c]
      PROVE  pc'[c] = pc[c] /\ reply'[c] = reply[c]
  BY <1>0, <1>o, StepMoves
<1>x. ASSUME NEW t \in Thread, ExecuteTcl(t)
      PROVE  \E from \in ExecLabels, to \in ExecLabels \union {AfterExec(t)} :
               Step(t, from, to) /\ reply' = reply
  BY <1>x
  DEF ExecuteTcl, LatchMarker, SetBusy, PublishMeta, ArmCollector, LockWriter, Goto,
      SendCommand, TakeOutput, LatchResult, SetIdle, ExecLabels
<1>1. CASE Worker(c)
  <2> USE DEF FreshLabels, WorkerLabels, ExecLabels
  <2>1. CASE ExecuteTcl(c)
    BY <1>0, <1>x, <1>g, <2>1 DEF AfterExec
  <2>2. CASE ReadRequest(c) \/ CheckDied(c) \/ HandleStop(c) \/ Answer(c)
    BY <1>g, <1>r, <2>2 DEF ReadRequest, CheckDied, HandleStop, Answer, Goto
  <2>3. CASE AcquireSlot(c)
    BY <1>g, <1>r, <2>3 DEF AcquireSlot
  <2>4. CASE ResolveTool(c) \/ RefuseTool(c) \/ SpawnTool(c)
    BY <1>g, <1>r, <2>4 DEF ResolveTool, RefuseTool, SpawnTool, Goto, ReleaseSlot
  <2>5. CASE \/ SetToolBusy(c) \/ FinishTool(c)
             \/ PublishMeta(c, "pubtool", "spawn") \/ PublishMeta(c, "pubfin", "release")
    BY <1>g, <2>5 DEF SetToolBusy, FinishTool, PublishMeta
  <2>6. CASE FinishOperation(c) \/ StoreShutdown(c)
    BY <1>g, <2>6 DEF FinishOperation, ReleaseSlot, StoreShutdown
  <2> QED BY <1>1, <2>1, <2>2, <2>3, <2>4, <2>5, <2>6 DEF Worker, HandleTool
<1>2. CASE Connect(c) \/ ToolExits(c)
  BY <1>g, <1>2 DEF Connect, ToolExits, Goto, FreshLabels, WorkerLabels
<1>3. ASSUME NEW d \in Conn, d # c, Worker(d) \/ Connect(d) \/ ToolExits(d)
      PROVE  pc'[c] = pc[c] /\ reply'[c] = reply[c]
  <2>1. CASE ExecuteTcl(d)
    <3>1. PICK from, to : Step(d, from, to) /\ reply' = reply
      BY <1>x, <2>1 DEF Thread
    <3> QED BY <1>3, <1>o, <3>1 DEF Thread
  <2>2. ASSUME NEW from, NEW to, NEW r, ReplyAnd(d, from, to, r)
        PROVE  pc'[c] = pc[c] /\ reply'[c] = reply[c]
    BY <1>3, <1>o, <2>2 DEF ReplyAnd, TypeOK, Thread
  <2>3. ASSUME NEW from, NEW to, Step(d, from, to), reply' = reply
        PROVE  pc'[c] = pc[c] /\ reply'[c] = reply[c]
    BY <1>3, <1>o, <2>3 DEF Thread
  <2>4. CASE HandleTool(d)
    BY <2>2, <2>3, <2>4
    DEF HandleTool, ResolveTool, RefuseTool, SetToolBusy, SpawnTool, FinishTool, PublishMeta,
        Goto, ReleaseSlot
  <2>5. CASE ReadRequest(d) \/ CheckDied(d) \/ AcquireSlot(d)
    BY <2>2, <2>3, <2>5 DEF ReadRequest, CheckDied, AcquireSlot, Goto
  <2>6. CASE FinishOperation(d) \/ Answer(d) \/ HandleStop(d) \/ StoreShutdown(d)
    BY <2>2, <2>3, <2>6
    DEF FinishOperation, Answer, HandleStop, StoreShutdown, ReleaseSlot
  <2>7. CASE Connect(d) \/ ToolExits(d)
    BY <2>3, <2>7 DEF Connect, ToolExits, Goto
  <2> QED BY <1>3, <2>1, <2>4, <2>5, <2>6, <2>7 DEF Worker
<1>4. CASE MainThread
  <2>1. ASSUME ExecuteTcl(Main)
        PROVE  pc'[c] = pc[c] /\ reply'[c] = reply[c]
    BY <1>0, <1>x, <1>o, <2>1 DEF Thread
  <2>2. ASSUME NEW from, NEW to, Step(Main, from, to), reply' = reply
        PROVE  pc'[c] = pc[c] /\ reply'[c] = reply[c]
    BY <1>0, <1>o, <2>2 DEF Thread
  <2>3. ASSUME NEW d \in Conn, pc[d] = "pending", reply' = reply,
               pc' = [pc EXCEPT ![Main] = "poll", ![d] = "read"]
        PROVE  pc'[c] = pc[c] \/ (pc[c] = "pending" /\ pc'[c] = "read" /\ reply' = reply)
    BY <1>0, <2>3 DEF TypeOK
  <2>4. \/ ExecuteTcl(Main)
        \/ \E from, to : Step(Main, from, to) /\ reply' = reply
        \/ \E d \in Conn : /\ pc[d] = "pending" /\ reply' = reply
                          /\ pc' = [pc EXCEPT ![Main] = "poll", ![d] = "read"]
    BY <1>4
    DEF MainThread, Startup, Serve, Shutdown, Crash, PublishMeta, PublishMarker, WaitPrompt,
        OpenProjectDone, SetState, Bind, BindFails, PollFlags, CheckVivado, Accept,
        AskVivadoToExit, EndGrace, Exit, MainGoto, LockWriter, Goto
  <2>5. \/ pc'[c] = pc[c] /\ reply'[c] = reply[c]
        \/ pc[c] = "pending" /\ pc'[c] = "read" /\ reply' = reply
    BY <2>1, <2>2, <2>3, <2>4
  <2> QED BY <2>5 DEF Refused, FreshLabels
<1>5. CASE Reader \/ Vivado \/ Terminate \/ Kill \/ UNCHANGED vars
  <2>1. UNCHANGED <<pc, reply>>
    BY <1>5 DEF Reader, ReadChunk, Feed, ReaderEof, Vivado, Terminate, Kill, vars
  <2> QED BY <2>1 DEF Refused
<1>6. ASSUME pc'[c] = pc[c], reply'[c] = reply[c]
      PROVE  /\ Refused(c)' => pc'[c] = "end"
             /\ Refused(c)' \/ pc'[c] \in FreshLabels => Refused(c) \/ pc[c] \in FreshLabels
  BY <1>6 DEF Refused
<1> QED BY <1>1, <1>2, <1>3, <1>4, <1>5, <1>6 DEF Next, Ended

(* A refused connection leaves no trace in any step.                       *)
LEMMA UntouchedInductive ==
  ASSUME TypeOK, OwnInv, UntouchedInv, [Next]_vars
  PROVE  UntouchedInv'
<1> SUFFICES ASSUME NEW c \in Conn
             PROVE  /\ Refused(c)' => pc'[c] = "end"
                    /\ Refused(c)' \/ pc'[c] \in FreshLabels => Untouched(c)'
  BY DEF UntouchedInv
<1>1. Refused(c) => pc[c] = "end"
  BY DEF UntouchedInv
<1>2. Refused(c)' => pc'[c] = "end"
  BY <1>1, RefusalIsLast
<1>3. ASSUME Refused(c)' \/ pc'[c] \in FreshLabels
      PROVE  Untouched(c)'
  <2>1. Refused(c) \/ pc[c] \in FreshLabels
    BY <1>1, <1>3, RefusalIsLast
  <2>2. Untouched(c) /\ pc[c] \in FreshLabels \union {"end"}
    BY <1>1, <2>1 DEF UntouchedInv
  <2> QED BY <2>2, UntouchedKept
<1> QED BY <1>2, <1>3

-----------------------------------------------------------------------------
(* Output. *)

AllSilent(s) == \A i \in DOMAIN s : s[i].src = None

(* Everything on its way to the collector was printed by somebody.         *)
LEMMA TokensHaveSources ==
  ASSUME TypeOK
  PROVE  /\ \A i \in DOMAIN hand : hand[i].src \in Source
         /\ \A i \in DOMAIN pty : pty[i].src \in Source
         /\ \A tok \in buf : tok.src \in Source
<1>1. hand \in Seq(Token) /\ pty \in Seq(Token) /\ buf \subseteq Token
  BY DEF TypeOK, InterpreterTypeOK
<1>2. /\ \A i \in DOMAIN hand : hand[i] \in Token
      /\ \A i \in DOMAIN pty : pty[i] \in Token
  BY <1>1, ElementOfSeq
<1> QED BY <1>1, <1>2 DEF Token

(* Steps that neither read, print, collect nor end a wait. *)
LEMMA OutputQuiet ==
  ASSUME TypeOK, OutputInv, UNCHANGED <<pty, hand, buf, res>>, done' => done,
         \A t \in Thread : pc[t] = "wait" => pc'[t] = "wait"
  PROVE  OutputInv'
<1>1. \A src \in Source : Awaited(src) => Awaited(src)'
  BY DEF Awaited, Source
<1>2. /\ \A i \in DOMAIN hand : Awaited(hand[i].src)'
      /\ \A i \in DOMAIN pty : Awaited(pty[i].src)'
      /\ \A tok \in buf : Awaited(tok.src)'
  BY <1>1, TokensHaveSources DEF OutputInv, Awaited
<1> QED
  BY <1>2 DEF OutputInv, NothingAfterPrompt, NoPromptIn, Awaited, ResultIsOwnOutput

(* A chunk splits what Vivado wrote without changing its order. *)
LEMMA OutputReader ==
  ASSUME TypeOK, OutputInv, Reader
  PROVE  OutputInv'
<1>1. CASE ReadChunk
  <2>1. PICK n \in 1..Len(pty) : hand' = SubSeq(pty, 1, n)
                               /\ pty' = SubSeq(pty, n + 1, Len(pty))
    BY <1>1 DEF ReadChunk
  <2>2. pty \in Seq(Token) /\ Len(pty) \in Nat
    BY LenProperties DEF TypeOK, InterpreterTypeOK
  <2>3. /\ DOMAIN hand' = 1..n /\ \A i \in DOMAIN hand' : i \in DOMAIN pty /\ hand'[i] = pty[i]
        /\ DOMAIN pty' = 1..(Len(pty) - n)
        /\ \A i \in DOMAIN pty' : i + n \in DOMAIN pty /\ pty'[i] = pty[i + n]
    BY <2>1, <2>2, SplitElements
  <2>4. UNCHANGED <<done, buf, res, pc>>
    BY <1>1 DEF ReadChunk
  <2>5. NothingAfterPrompt(hand')
    BY <2>3 DEF OutputInv, NothingAfterPrompt
  <2>6. NothingAfterPrompt(pty')
    <3> SUFFICES ASSUME NEW i \in DOMAIN pty', NEW j \in DOMAIN pty', i < j,
                        pty'[i].kind = "prompt"
                 PROVE  pty'[j].src = None
      BY DEF NothingAfterPrompt
    <3>1. i + n < j + n
      BY <2>2, <2>3
    <3> QED BY <2>3, <3>1 DEF OutputInv, NothingAfterPrompt
  <2>7. ASSUME ~NoPromptIn(hand')
        PROVE  AllSilent(pty')
    <3>1. PICK i \in DOMAIN hand' : hand'[i].kind = "prompt"
      BY <2>7 DEF NoPromptIn
    <3>2. \A j \in DOMAIN pty' : i < j + n
      BY <2>2, <2>3
    <3> QED BY <2>3, <3>1, <3>2 DEF OutputInv, NothingAfterPrompt, AllSilent
  <2>8. done => AllSilent(hand') /\ AllSilent(pty')
    BY <2>3 DEF OutputInv, AllSilent
  <2>9. /\ \A i \in DOMAIN hand' : Awaited(hand'[i].src)
        /\ \A i \in DOMAIN pty' : Awaited(pty'[i].src)
    BY <2>3 DEF OutputInv
  <2> QED
    BY <2>4, <2>5, <2>6, <2>7, <2>8, <2>9
    DEF OutputInv, NothingAfterPrompt, NoPromptIn, AllSilent, Awaited, ResultIsOwnOutput
<1>2. CASE Feed
  <2>1. /\ hand' = <<>> /\ UNCHANGED <<pty, res, pc>>
        /\ hand # <<>> /\ done' = (done \/ hand[Len(hand)].kind = "prompt")
    BY <1>2 DEF Feed, EndsWithPrompt, vivado
  <2>2. hand \in Seq(Token) /\ Len(hand) \in DOMAIN hand
    <3>1. hand \in Seq(Token)
      BY DEF TypeOK
    <3> QED BY <2>1, <3>1, LenProperties, EmptySeq
  <2>3. done' => AllSilent(pty)
    BY <2>1, <2>2 DEF OutputInv, NoPromptIn, AllSilent, TypeOK
  <2>4. \A tok \in buf' : tok \in buf \/ \E i \in DOMAIN hand : tok = hand[i]
    BY <1>2 DEF Feed, TextOf
  <2>5. \A tok \in buf' : Awaited(tok.src)
    BY <2>4 DEF OutputInv
  <2> QED
    BY <2>1, <2>3, <2>5
    DEF OutputInv, NothingAfterPrompt, NoPromptIn, AllSilent, Awaited, ResultIsOwnOutput
<1>3. CASE ReaderEof
  BY <1>3, OutputQuiet DEF ReaderEof, vivado
<1> QED BY <1>1, <1>2, <1>3 DEF Reader

(* Vivado prints for a command only while nobody has been told that it     *)
(* ended, and no prompt is under way.                                      *)
LEMMA OutputVivado ==
  ASSUME TypeOK, CoreInv, OutputInv, Vivado
  PROVE  OutputInv'
<1>u. InterpreterNext /\ UNCHANGED <<hand, done, buf, res, pc>>
  BY DEF Vivado, reader
<1>t. pty \in Seq(Token) /\ running \in Source /\ None \in Source
  BY DEF TypeOK, InterpreterTypeOK, Source
<1>e. ASSUME NEW src \in Source, NEW kind \in {"out", "err", "prompt"}, Emit(src, kind),
             src # None => NoPrompt /\ ~done /\ pc[src] = "wait"
      PROVE  OutputInv'
  <2> DEFINE tok == [src |-> src, kind |-> kind]
  <2>1. tok \in Token /\ tok.src = src /\ pty' = Append(pty, tok)
    BY <1>e DEF Token, Emit
  <2> HIDE DEF tok
  <2>2. /\ DOMAIN pty' = 1..(Len(pty) + 1) /\ DOMAIN pty = 1..Len(pty) /\ Len(pty) \in Nat
        /\ pty'[Len(pty) + 1] = tok /\ \A i \in DOMAIN pty : i \in DOMAIN pty' /\ pty'[i] = pty[i]
        /\ \A i \in DOMAIN pty' : (i = Len(pty) + 1 /\ pty'[i] = tok)
                                  \/ (i \in DOMAIN pty /\ pty'[i] = pty[i])
    BY <1>t, <2>1, AppendElements
  <2>3. NothingAfterPrompt(pty')
    <3> SUFFICES ASSUME NEW i \in DOMAIN pty', NEW j \in DOMAIN pty', i < j,
                        pty'[i].kind = "prompt"
                 PROVE  pty'[j].src = None
      BY DEF NothingAfterPrompt
    <3>1. i \in DOMAIN pty /\ pty'[i] = pty[i]
      BY <2>2
    <3>2. CASE j \in DOMAIN pty
      BY <2>2, <3>1, <3>2 DEF OutputInv, NothingAfterPrompt
    <3>3. CASE j = Len(pty) + 1
      BY <1>e, <2>1, <2>2, <3>1, <3>3 DEF NoPrompt, NoPromptIn
    <3> QED BY <2>2, <3>2, <3>3
  <2>4. ~NoPromptIn(hand) \/ done => AllSilent(pty')
    BY <1>e, <2>1, <2>2 DEF OutputInv, AllSilent, NoPrompt
  <2>5. \A i \in DOMAIN pty' : Awaited(pty'[i].src)
    BY <1>e, <2>1, <2>2 DEF OutputInv, Awaited
  <2> QED
    BY <1>u, <2>3, <2>4, <2>5
    DEF OutputInv, NothingAfterPrompt, NoPromptIn, AllSilent, Awaited, ResultIsOwnOutput
<1>w. running # None => NoPrompt /\ ~done /\ pc[running] = "wait"
  BY <1>t DEF CoreInv, PromptInv, CommandInv, Dispatched
<1>1. CASE Boot \/ ReadExit
  BY <1>1, <1>t, <1>e DEF Boot, ReadExit
<1>2. CASE WriteOutput
  <2>1. PICK kind \in {"out", "err", "prompt"} : PrintOutput(kind)
    BY <1>2 DEF WriteOutput
  <2> QED BY <1>t, <1>w, <1>e, <2>1 DEF PrintOutput
<1>3. CASE Finish
  BY <1>3, <1>t, <1>w, <1>e DEF Finish
<1>4. CASE ReadCommand \/ Die
  BY <1>4, <1>u, OutputQuiet DEF ReadCommand, Die
<1> QED BY <1>u, <1>1, <1>2, <1>3, <1>4 DEF InterpreterNext

(* When a wait ends, all its command printed has been collected. *)
LEMMA OutputExecute ==
  ASSUME TypeOK, CoreInv, OutputInv, NEW t \in Thread, ExecuteTcl(t)
  PROVE  OutputInv'
<1> USE DEF vivado, reader
<1>1. CASE TakeOutput(t)
  <2>1. /\ \A s \in Thread : pc'[s] = IF s = t THEN "latch" ELSE pc[s]
        /\ pc[t] = "wait" /\ Alive
    BY <1>1, StepMoves DEF TakeOutput
  <2>2. /\ \A s \in Thread : res'[s] = IF s = t THEN ResultOf(t) ELSE res[s]
        /\ UNCHANGED <<pty, hand, done, died>> /\ buf' = {}
        /\ done \/ died
    BY <1>1 DEF TakeOutput, TypeOK
  <2>3. AllSilent(hand) /\ AllSilent(pty)
    <3>1. CASE done
      BY <3>1 DEF OutputInv, AllSilent
    <3>2. CASE died
      BY <3>2 DEF CoreInv, PromptInv, AllSilent
    <3> QED BY <2>2, <3>1, <3>2
  <2>4. \A tok \in buf : tok.src \in {t, None}
    <3> SUFFICES ASSUME NEW tok \in buf, tok.src # None
                 PROVE  tok.src = t
      OBVIOUS
    <3>1. tok.src \in Thread /\ pc[tok.src] = "wait"
      BY DEF OutputInv, Awaited, TypeOK, Token, Source
    <3> QED BY <2>1, <3>1, OneExecutor DEF CoreInv, ExecLabels
  <2>5. ResultOf(t).out \subseteq {t, None}
    BY <2>4 DEF ResultOf
  <2>6. ResultIsOwnOutput'
    BY <2>2, <2>5 DEF OutputInv, ResultIsOwnOutput
  <2>7. /\ NothingAfterPrompt(hand)' /\ NothingAfterPrompt(pty)'
        /\ \A i \in DOMAIN hand : Awaited(hand[i].src)'
        /\ \A i \in DOMAIN pty : Awaited(pty[i].src)'
    BY <2>2, <2>3 DEF NothingAfterPrompt, AllSilent, Awaited
  <2>8. \A tok \in buf' : Awaited(tok.src)'
    BY <2>2
  <2> QED
    BY <2>2, <2>3, <2>6, <2>7, <2>8 DEF OutputInv, AllSilent, Awaited
<1>2. CASE ArmCollector(t)
  <2>1. /\ \A s \in Thread : pc'[s] = IF s = t THEN "writer" ELSE pc[s]
        /\ pc[t] = "arm"
    BY <1>2, StepMoves DEF ArmCollector
  <2>2. UNCHANGED <<pty, hand, res>> /\ ~done' /\ buf' = {}
    BY <1>2 DEF ArmCollector
  <2>3. \A src \in Source : Awaited(src) => Awaited(src)'
    BY <2>1 DEF Awaited, Source
  <2>4. /\ \A i \in DOMAIN hand : Awaited(hand[i].src)'
        /\ \A i \in DOMAIN pty : Awaited(pty[i].src)'
    BY <2>2, <2>3, TokensHaveSources DEF OutputInv, Awaited
  <2> QED
    BY <2>2, <2>4
    DEF OutputInv, NothingAfterPrompt, NoPromptIn, Awaited, ResultIsOwnOutput
<1>3. CASE ~TakeOutput(t) /\ ~ArmCollector(t)
  <2>1. PICK from, to :
          from # "wait" /\ Step(t, from, to) /\ UNCHANGED <<pty, hand, done, buf, res>>
    BY <1>3
    DEF ExecuteTcl, LatchMarker, SetBusy, PublishMeta, LockWriter, Goto, SendCommand,
        LatchResult, SetIdle, ExecLabels
  <2> QED BY <2>1, StepMoves, OutputQuiet
<1> QED BY <1>1, <1>2, <1>3

(* Every step keeps output apart from the output of other commands.        *)
LEMMA OutputInductive ==
  ASSUME TypeOK, CoreInv, OutputInv, [Next]_vars
  PROVE  OutputInv'
<1> USE DEF vivado, reader
<1>m. ASSUME NEW t \in Thread, NEW from, NEW to, Step(t, from, to), from # "wait",
             UNCHANGED <<pty, hand, done, buf, res>>
      PROVE  OutputInv'
  BY <1>m, StepMoves, OutputQuiet
<1>1. ASSUME NEW c \in Conn, Worker(c)
      PROVE  OutputInv'
  <2>1. CASE ExecuteTcl(c)
    BY <2>1, OutputExecute DEF Thread
  <2>2. CASE ~ExecuteTcl(c)
    <3>1. PICK from, to :
            from \notin ExecLabels /\ Step(c, from, to) /\ UNCHANGED <<pty, hand, done, buf, res>>
      BY <1>1, <2>2, WorkerMoves
    <3> QED BY <1>m, <3>1 DEF Thread, ExecLabels
  <2> QED BY <2>1, <2>2
<1>2. ASSUME NEW c \in Conn, Connect(c) \/ ToolExits(c)
      PROVE  OutputInv'
  BY <1>2, <1>m DEF Connect, ToolExits, Goto, Thread
<1>3. CASE MainThread
  <2>1. CASE ExecuteTcl(Main)
    BY <2>1, OutputExecute DEF Thread
  <2>2. ASSUME NEW from, NEW to, Step(Main, from, to), from # "wait",
               UNCHANGED <<pty, hand, done, buf, res>>
        PROVE  OutputInv'
    BY <1>m, <2>2 DEF Thread
  <2>3. ASSUME NEW c \in Conn, pc[c] = "pending", pc[Main] = "accept",
               pc' = [pc EXCEPT ![Main] = "poll", ![c] = "read"],
               UNCHANGED <<pty, hand, done, buf, res>>
        PROVE  OutputInv'
    <3>1. \A s \in Thread : pc'[s] = IF s = c THEN "read" ELSE
                                     IF s = Main THEN "poll" ELSE pc[s]
      BY <2>3, ThreadsAreDistinct DEF TypeOK, Thread
    <3>2. pc[c] = "pending" /\ pc[Main] = "accept" /\ UNCHANGED <<pty, hand, done, buf, res>>
      BY <2>3
    <3> QED BY <3>1, <3>2, OutputQuiet
  <2>4. CASE Serve
    BY <2>2, <2>3, <2>4 DEF Serve, PollFlags, CheckVivado, Accept, MainGoto
  <2>5. CASE Startup /\ ~ExecuteTcl(Main)
    BY <2>2, <2>5
    DEF Startup, PublishMeta, PublishMarker, WaitPrompt, OpenProjectDone, SetState, Bind,
        BindFails, Exit, MainGoto
  <2>6. CASE Shutdown \/ Crash
    BY <2>2, <2>6
    DEF Shutdown, LockWriter, Goto, Crash, AskVivadoToExit, EndGrace, SetState, PublishMeta,
        Exit
  <2> QED BY <1>3, <2>1, <2>4, <2>5, <2>6 DEF MainThread
<1>4. CASE Reader
  BY <1>4, OutputReader
<1>5. CASE Vivado
  BY <1>5, OutputVivado
<1>6. CASE Terminate \/ Kill \/ UNCHANGED vars
  BY <1>6, OutputQuiet DEF Terminate, Kill, vars
<1> QED BY <1>1, <1>2, <1>3, <1>4, <1>5, <1>6 DEF Next, Ended

-----------------------------------------------------------------------------
(* The farewell. *)

(* Nothing is typed, printed or read that Vivado's farewell needs. *)
LEMMA FarewellMove ==
  ASSUME FarewellInv, Leaving => Leaving',
         (\E i \in DOMAIN stdin' : stdin'[i] = None) =>
           Leaving' \/ \E i \in DOMAIN stdin : stdin[i] = None,
         FarewellIn(pty') \/ FarewellIn(hand') =>
           Leaving' \/ FarewellIn(pty) \/ FarewellIn(hand)
  PROVE  FarewellInv'
BY DEF FarewellInv, FarewellIn

(* The main thread types "exit" once, and does not come back. *)
LEMMA FarewellMain ==
  ASSUME TypeOK, CoreInv, FarewellInv, MainThread
  PROVE  FarewellInv'
<1> USE DEF vivado, reader
<1>m. Main \in Thread
  BY DEF Thread
<1>q. ASSUME NEW from, NEW to, Step(Main, from, to),
             from \in LeavingLabels => to \in LeavingLabels,
             UNCHANGED <<pty, hand>>, stdin' = stdin \/ stdin' = <<>>
      PROVE  FarewellInv'
  <2>1. Leaving => Leaving'
    BY <1>m, <1>q, StepMoves DEF Leaving
  <2> QED BY <1>q, <2>1, FarewellMove
<1>1. CASE ExecuteTcl(Main)
  <2>1. CASE SendCommand(Main)
    <3>1. /\ stdin' = stdin \/ stdin' = Append(stdin, Main)
          /\ pc[Main] = "send" /\ UNCHANGED <<pty, hand>>
      BY <1>m, <2>1, StepMoves DEF SendCommand
    <3>2. stdin \in Seq(Source) /\ Main \in Source
      BY <1>m DEF TypeOK, InterpreterTypeOK, Source
    <3>3. \A i \in DOMAIN stdin' : stdin'[i] = Main \/ (i \in DOMAIN stdin /\ stdin'[i] = stdin[i])
      BY <3>1, <3>2, AppendElements
    <3> QED BY <3>1, <3>3, FarewellMove, ThreadsAreDistinct DEF Leaving, LeavingLabels
  <2>2. CASE ~SendCommand(Main)
    <3>1. PICK from, to :
            from \in ExecLabels /\ Step(Main, from, to) /\ UNCHANGED <<stdin, pty, hand>>
      BY <1>1, <2>2
      DEF ExecuteTcl, LatchMarker, SetBusy, PublishMeta, ArmCollector, LockWriter, Goto,
          TakeOutput, LatchResult, SetIdle, ExecLabels
    <3> QED BY <1>q, <3>1 DEF LeavingLabels, ExecLabels
  <2> QED BY <2>1, <2>2
<1>2. CASE Startup /\ ~ExecuteTcl(Main)
  BY <1>q, <1>2
  DEF Startup, PublishMeta, PublishMarker, WaitPrompt, OpenProjectDone, SetState, Bind,
      BindFails, Exit, MainGoto, LeavingLabels
<1>3. CASE Serve
  <2>1. ASSUME NEW c \in Conn, pc[Main] = "accept", UNCHANGED <<stdin, pty, hand>>
        PROVE  FarewellInv'
    BY <2>1, FarewellMove DEF Leaving, LeavingLabels
  <2> QED BY <1>q, <1>3, <2>1 DEF Serve, PollFlags, CheckVivado, Accept, MainGoto, LeavingLabels
<1>4. CASE Shutdown
  <2>1. CASE AskVivadoToExit
    <3>1. pc'[Main] = "grace" /\ UNCHANGED <<pty, hand>>
      BY <1>m, <2>1, StepMoves DEF AskVivadoToExit
    <3> QED BY <3>1, FarewellMove DEF Leaving, LeavingLabels
  <2>2. CASE ~AskVivadoToExit
    BY <1>q, <1>4, <2>2
    DEF Shutdown, LockWriter, Goto, EndGrace, SetState, PublishMeta, Exit, LeavingLabels
  <2> QED BY <2>1, <2>2
<1>5. CASE Crash
  BY <1>q, <1>5 DEF Crash, SetState, PublishMeta, Exit, LeavingLabels
<1> QED BY <1>1, <1>2, <1>3, <1>4, <1>5 DEF MainThread

(* Workers type commands only. *)
LEMMA FarewellWorker ==
  ASSUME TypeOK, FarewellInv, NEW c \in Conn, Worker(c)
  PROVE  FarewellInv'
<1> USE DEF vivado, reader
<1>c. c \in Thread /\ c # Main /\ c # None /\ Main \in Thread
  BY ThreadsAreDistinct DEF Thread
<1>1. PICK from, to : Step(c, from, to) /\ UNCHANGED <<pty, hand>>
                      /\ (stdin' = stdin \/ stdin' = Append(stdin, c))
  <2>1. CASE ExecuteTcl(c)
    BY <2>1
    DEF ExecuteTcl, LatchMarker, SetBusy, PublishMeta, ArmCollector, LockWriter, Goto,
        SendCommand, TakeOutput, LatchResult, SetIdle
  <2>2. CASE ~ExecuteTcl(c)
    BY <2>2, WorkerMoves
  <2> QED BY <2>1, <2>2
<1>2. Leaving' = Leaving
  BY <1>c, <1>1, StepMoves DEF Leaving
<1>3. stdin \in Seq(Source) /\ c \in Source
  BY <1>c DEF TypeOK, InterpreterTypeOK, Source
<1>4. \A i \in DOMAIN stdin' : stdin'[i] = c \/ (i \in DOMAIN stdin /\ stdin'[i] = stdin[i])
  BY <1>1, <1>3, AppendElements
<1> QED BY <1>c, <1>1, <1>2, <1>4, FarewellMove

(* Vivado says goodbye when it has read "exit", and at no other time.      *)
LEMMA FarewellVivado ==
  ASSUME TypeOK, CoreInv, FarewellInv, Vivado
  PROVE  FarewellInv'
<1>u. InterpreterNext /\ UNCHANGED <<hand, pc>>
  BY DEF Vivado, reader
<1>t. pty \in Seq(Token) /\ stdin \in Seq(Source) /\ running \in Source /\ None \in Source
  BY DEF TypeOK, InterpreterTypeOK, Source
<1>e. ASSUME NEW src \in Source, NEW kind \in {"out", "err", "prompt"}, Emit(src, kind),
             src = None /\ kind # "prompt" => Leaving, stdin' = stdin \/ stdin' = <<>>
      PROVE  FarewellInv'
  <2> DEFINE tok == [src |-> src, kind |-> kind]
  <2>1. tok \in Token /\ tok.src = src /\ tok.kind = kind /\ pty' = Append(pty, tok)
    BY <1>e DEF Token, Emit
  <2> HIDE DEF tok
  <2>2. \A i \in DOMAIN pty' : pty'[i] = tok \/ (i \in DOMAIN pty /\ pty'[i] = pty[i])
    BY <1>t, <2>1, AppendElements
  <2>3. FarewellIn(pty') => Leaving \/ FarewellIn(pty)
    BY <1>e, <2>1, <2>2 DEF FarewellIn
  <2> QED BY <1>u, <1>e, <2>3, FarewellMove DEF Leaving
<1>w. interp = "running" => running # None
  BY DEF CoreInv, PromptInv
<1>1. CASE Boot
  BY <1>1, <1>t, <1>e DEF Boot
<1>2. CASE ReadExit
  <2>1. stdin[1] = None /\ 1 \in DOMAIN stdin
    BY <1>2, <1>t DEF ReadExit
  <2>2. Leaving
    BY <2>1 DEF FarewellInv
  <2> QED BY <1>2, <1>t, <1>e, <2>2 DEF ReadExit
<1>3. CASE WriteOutput
  <2>1. PICK kind \in {"out", "err", "prompt"} : PrintOutput(kind)
    BY <1>3 DEF WriteOutput
  <2> QED BY <1>t, <1>w, <1>e, <2>1 DEF PrintOutput
<1>4. CASE Finish
  BY <1>4, <1>t, <1>w, <1>e DEF Finish
<1>5. CASE ReadCommand
  <2>1. stdin' = Tail(stdin) /\ stdin # <<>> /\ pty' = pty
    BY <1>5 DEF ReadCommand
  <2>2. \A i \in DOMAIN stdin' : \E j \in DOMAIN stdin : stdin'[i] = stdin[j]
    BY <1>t, <2>1, TailElements
  <2> QED BY <1>u, <2>1, <2>2, FarewellMove DEF Leaving
<1>6. CASE Die
  BY <1>6, <1>u, FarewellMove DEF Die, Leaving
<1> QED BY <1>u, <1>1, <1>2, <1>3, <1>4, <1>5, <1>6 DEF InterpreterNext

(* A read moves the farewell, and the collector takes it. *)
LEMMA FarewellReader ==
  ASSUME TypeOK, FarewellInv, Reader
  PROVE  FarewellInv'
<1>1. CASE ReadChunk
  <2>1. PICK n \in 1..Len(pty) : hand' = SubSeq(pty, 1, n)
                               /\ pty' = SubSeq(pty, n + 1, Len(pty))
    BY <1>1 DEF ReadChunk
  <2>2. pty \in Seq(Token)
    BY DEF TypeOK, InterpreterTypeOK
  <2>3. /\ \A i \in DOMAIN hand' : i \in DOMAIN pty /\ hand'[i] = pty[i]
        /\ \A i \in DOMAIN pty' : i + n \in DOMAIN pty /\ pty'[i] = pty[i + n]
    BY <2>1, <2>2, SplitElements
  <2>4. FarewellIn(pty') \/ FarewellIn(hand') => FarewellIn(pty)
    BY <2>3 DEF FarewellIn
  <2>5. UNCHANGED <<stdin, pc>>
    BY <1>1 DEF ReadChunk
  <2> QED BY <2>4, <2>5, FarewellMove DEF Leaving
<1>2. CASE Feed \/ ReaderEof
  BY <1>2, FarewellMove DEF Feed, ReaderEof, vivado, Leaving, FarewellIn
<1> QED BY <1>1, <1>2 DEF Reader

(* Every step keeps the farewell to the end.                               *)
LEMMA FarewellInductive ==
  ASSUME TypeOK, CoreInv, FarewellInv, [Next]_vars
  PROVE  FarewellInv'
<1>1. ASSUME NEW c \in Conn, Connect(c) \/ ToolExits(c)
      PROVE  FarewellInv'
  <2>1. PICK from, to : Step(c, from, to) /\ UNCHANGED <<stdin, pty, hand>>
    BY <1>1 DEF Connect, ToolExits, Goto, vivado, reader
  <2>2. c \in Thread /\ c # Main /\ Main \in Thread
    BY ThreadsAreDistinct DEF Thread
  <2>3. Leaving' = Leaving
    BY <2>1, <2>2, StepMoves DEF Leaving
  <2> QED BY <2>1, <2>3, FarewellMove
<1>2. CASE Terminate \/ Kill \/ UNCHANGED vars
  BY <1>2, FarewellMove DEF Terminate, Kill, vars, vivado, reader, Leaving
<1> QED
  BY <1>1, <1>2, FarewellMain, FarewellWorker, FarewellVivado, FarewellReader DEF Next, Ended

-----------------------------------------------------------------------------
(* What metadata.json says of the session. *)

(* A step of a worker, or next to the workers, seen from the main thread:  *)
(* memory says idle, busy or crashed, or what it has said, and the file    *)
(* says what memory does, or what it has said.                             *)
Aside ==
  /\ UNCHANGED <<sock, fate>>
  /\ pc'[Main] = pc[Main] /\ res'[Main] = res[Main]
  /\ meta'.state \in {meta.state, "idle", "busy", "crashed"}
  /\ dmeta' = dmeta \/ dmeta' = meta

(* A worker runs only in a daemon that serves.                             *)
LEMMA WorkerAside ==
  ASSUME ~DiskMayFail, TypeOK, SlotInv, NEW c \in Conn, Worker(c)
  PROVE  Alive /\ sock /\ Aside
<1> USE DEF flags, artifacts
<1>1. c \in Thread /\ c # Main /\ Main \in Thread
  BY ThreadsAreDistinct DEF Thread
<1>2. CASE ExecuteTcl(c)
  <2>1. PICK from, to : from \in ExecLabels /\ Step(c, from, to)
    BY <1>2 DEF ExecuteTcl, LatchMarker, SetBusy, PublishMeta, ArmCollector, LockWriter, Goto,
                SendCommand, TakeOutput, LatchResult, SetIdle, ExecLabels
  <2>2. Alive /\ sock /\ pc'[Main] = pc[Main]
    BY <1>1, <2>1, StepMoves DEF SlotInv, ExecLabels
  <2>3. UNCHANGED <<sock, fate>>
    BY <1>2 DEF ExecuteTcl, LatchMarker, SetBusy, PublishMeta, ArmCollector, LockWriter, Goto,
                SendCommand, TakeOutput, LatchResult, SetIdle
  <2>4. res'[Main] = res[Main]
    BY <1>1, <1>2
    DEF ExecuteTcl, LatchMarker, SetBusy, PublishMeta, ArmCollector, LockWriter, Goto,
        SendCommand, TakeOutput, LatchResult, SetIdle, TypeOK
  <2>5. meta'.state \in {meta.state, "idle", "busy", "crashed"}
    BY <1>2
    DEF ExecuteTcl, LatchMarker, SetBusy, PublishMeta, ArmCollector, LockWriter, Goto,
        SendCommand, TakeOutput, LatchResult, SetIdle, TypeOK, Metadata
  <2>6. dmeta' = dmeta \/ dmeta' = meta
    BY <1>2
    DEF ExecuteTcl, LatchMarker, SetBusy, PublishMeta, ArmCollector, LockWriter, Goto,
        SendCommand, TakeOutput, LatchResult, SetIdle, SaveMeta
  <2> QED BY <2>2, <2>3, <2>4, <2>5, <2>6 DEF Aside
<1>3. CASE ~ExecuteTcl(c)
  <2>1. PICK from, to : from \in WorkerLabels \ {"none"} /\ Step(c, from, to)
    BY <1>3, WorkerMoves
  <2>2. Alive /\ sock /\ pc'[Main] = pc[Main]
    BY <1>1, <2>1, StepMoves DEF SlotInv
  <2>3. UNCHANGED <<sock, fate, res>>
    BY <1>3, WorkerMoves
  <2>4. /\ meta'.state \in {meta.state, "idle", "busy", "crashed"}
        /\ dmeta' = dmeta \/ dmeta' = meta
    <3>1. CASE SetToolBusy(c) \/ FinishTool(c)
      BY <3>1 DEF SetToolBusy, FinishTool, TypeOK, Metadata
    <3>2. CASE PublishMeta(c, "pubtool", "spawn") \/ PublishMeta(c, "pubfin", "release")
      BY <3>2 DEF PublishMeta, SaveMeta
    <3>3. CASE ReadRequest(c) \/ CheckDied(c) \/ AcquireSlot(c)
      BY <3>3 DEF ReadRequest, CheckDied, AcquireSlot, Goto, ReplyAnd
    <3>4. CASE ResolveTool(c) \/ RefuseTool(c) \/ SpawnTool(c)
      BY <3>4 DEF ResolveTool, RefuseTool, SpawnTool, Goto, ReplyAnd, ReleaseSlot
    <3>5. CASE FinishOperation(c) \/ Answer(c) \/ HandleStop(c) \/ StoreShutdown(c)
      BY <3>5 DEF FinishOperation, Answer, HandleStop, StoreShutdown, Goto, ReplyAnd,
                  ReleaseSlot
    <3> QED BY <1>3, <3>1, <3>2, <3>3, <3>4, <3>5 DEF Worker, HandleTool
  <2> QED BY <2>2, <2>3, <2>4 DEF Aside
<1> QED BY <1>2, <1>3

(* Clients that connect, tools that exit, Vivado and its reader change     *)
(* nothing that the main thread looks at for the state.                    *)
LEMMA NeighbourAside ==
  ASSUME TypeOK,
         (\E c \in Conn : Connect(c) \/ ToolExits(c)) \/ Reader \/ Vivado \/ UNCHANGED vars
  PROVE  Aside /\ UNCHANGED <<meta, dmeta>>
<1>1. ASSUME NEW c \in Conn, Connect(c) \/ ToolExits(c)
      PROVE  Aside /\ UNCHANGED <<meta, dmeta>>
  BY <1>1, ThreadsAreDistinct
  DEF Connect, ToolExits, Goto, Step, TypeOK, Thread, Aside, flags, artifacts
<1>2. CASE Reader \/ Vivado \/ UNCHANGED vars
  BY <1>2 DEF Reader, ReadChunk, Feed, ReaderEof, Vivado, vars, Aside, flags, artifacts
<1> QED BY <1>1, <1>2

(* Nothing that happens beside the main thread changes what it relies on.  *)
LEMMA StateAside ==
  ASSUME TypeOK, SlotInv, StateInv, Aside,
         (Alive /\ sock) \/ UNCHANGED <<meta, dmeta>>
  PROVE  StateInv'
<1>1. Alive' = Alive
  BY DEF Aside, Alive
<1>2. CASE UNCHANGED <<meta, dmeta>>
  BY <1>1, <1>2 DEF Aside, StateInv
<1>3. CASE Alive /\ sock
  <2>1. pc[Main] \in LoopLabels \union CrashLabels
    BY <1>3 DEF SlotInv, TypeOK, MainLabels
  <2> QED
    BY <1>1, <1>3, <2>1
    DEF Aside, StateInv, LoopLabels, CrashLabels, ExecLabels, BusyLabels
<1> QED BY <1>2, <1>3

(* Every step of the main thread.                                          *)
LEMMA StateMain ==
  ASSUME ~DiskMayFail, TypeOK, SlotInv, StateInv, MainThread
  PROVE  StateInv'
<1> USE DEF flags, artifacts, ExecLabels, BusyLabels
<1>m. Main \in Thread
  BY DEF Thread
<1>a. ASSUME NEW from, NEW to, Step(Main, from, to)
      PROVE  pc[Main] = from /\ pc'[Main] = to /\ Alive
  BY <1>m, <1>a, StepMoves
<1>s. pc[Main] \in StartLabels => ~sock
  BY DEF SlotInv
<1>1. CASE Startup
  <2>1. CASE \/ LatchMarker(Main) \/ ArmCollector(Main) \/ LockWriter(Main, "writer", "send")
             \/ SendCommand(Main) \/ LatchResult(Main)
    BY <1>m, <2>1, StepMoves
    DEF LatchMarker, ArmCollector, LockWriter, Goto, SendCommand, LatchResult, StateInv, Alive
  <2>2. CASE SetBusy(Main) \/ SetIdle(Main)
    <3>1. CASE SetBusy(Main)
      <4>1. meta'.state = "busy" /\ Step(Main, "setbusy", "pubbusy")
            /\ UNCHANGED <<res, flags, dmeta>>
        BY <3>1 DEF SetBusy, TypeOK, Metadata
      <4> QED BY <1>m, <4>1, StepMoves DEF StateInv, Alive
    <3>2. CASE SetIdle(Main)
      <4>1. meta'.state = IF res[Main].died THEN "crashed" ELSE "idle"
        BY <3>2 DEF SetIdle, TypeOK, Metadata
      <4>2. Step(Main, "setidle", "pubidle") /\ UNCHANGED <<res, flags, dmeta>>
        BY <3>2 DEF SetIdle
      <4> QED BY <1>m, <4>1, <4>2, StepMoves DEF StateInv, Alive
    <3> QED BY <2>2, <3>1, <3>2
  <2>3. CASE TakeOutput(Main)
    <3>1. res'[Main] = ResultOf(Main)
      BY <1>m, <2>3 DEF TakeOutput, TypeOK
    <3>2. ResultOf(Main).died => ResultOf(Main).errors
      BY DEF ResultOf
    <3> QED BY <1>m, <2>3, <3>1, <3>2, StepMoves DEF TakeOutput, StateInv, Alive
  <2>4. CASE \/ PublishMeta(Main, "pubbusy", "arm")
             \/ PublishMeta(Main, "pubidle", AfterExec(Main))
             \/ PublishMeta(Main, "publish", "pubmarker")
             \/ PublishMeta(Main, "pubready", "bind")
    BY <1>m, <2>4, StepMoves DEF PublishMeta, SaveMeta, AfterExec, StateInv, Alive
  <2>5. CASE PublishMarker \/ WaitPrompt \/ OpenProjectDone
    BY <1>m, <1>s, <2>5, StepMoves
    DEF PublishMarker, WaitPrompt, OpenProjectDone, MainGoto, StateInv, Alive
  <2>6. CASE SetState("setready", "pubready", "idle")
    BY <1>m, <2>6, StepMoves DEF SetState, StateInv, Alive, TypeOK, Metadata
  <2>7. CASE Bind \/ BindFails
    BY <1>m, <2>7, StepMoves DEF Bind, BindFails, Exit, StateInv, Alive
  <2> QED
    BY <1>1, <2>1, <2>2, <2>3, <2>4, <2>5, <2>6, <2>7 DEF Startup, ExecuteTcl
<1>2. CASE Serve
  <2>1. CASE PollFlags \/ CheckVivado \/ MainGoto("accept", "poll")
    <3>1. sock
      BY <1>m, <2>1, StepMoves
      DEF PollFlags, CheckVivado, MainGoto, SlotInv, LoopLabels
    <3> QED
      BY <1>m, <2>1, <3>1, StepMoves
      DEF PollFlags, CheckVivado, MainGoto, StateInv, Alive
  <2>2. ASSUME NEW c \in Conn, pc[Main] = "accept",
               pc' = [pc EXCEPT ![Main] = "poll", ![c] = "read"],
               UNCHANGED <<res, meta, flags, artifacts>>
        PROVE  StateInv'
    <3>1. pc'[Main] = "poll"
      BY <1>m, <2>2, ThreadsAreDistinct DEF TypeOK, Thread
    <3> QED BY <2>2, <3>1 DEF StateInv, Alive
  <2> QED BY <1>2, <2>1, <2>2 DEF Serve, Accept
<1>3. CASE Shutdown \/ Crash
  <2>1. CASE Exit("stopped", "stopped") \/ Exit("crashed", "failed")
    BY <1>m, <2>1, StepMoves DEF Exit, StateInv, Alive
  <2>2. CASE LockWriter(Main, "leave", "drain") \/ AskVivadoToExit \/ EndGrace
    BY <1>m, <2>2, StepMoves DEF LockWriter, Goto, AskVivadoToExit, EndGrace, StateInv, Alive
  <2>3. CASE \/ SetState("setstopped", "pubstopped", "stopped")
             \/ SetState("setcrashed", "pubcrashed", "crashed")
    BY <1>m, <2>3, StepMoves DEF SetState, StateInv, Alive, TypeOK, Metadata
  <2>4. CASE \/ PublishMeta(Main, "pubstopped", "stopped")
             \/ PublishMeta(Main, "pubcrashed", "crashed")
    BY <1>m, <2>4, StepMoves DEF PublishMeta, SaveMeta, StateInv, Alive
  <2> QED BY <1>3, <2>1, <2>2, <2>3, <2>4 DEF Shutdown, Crash
<1> QED BY <1>1, <1>2, <1>3 DEF MainThread

(* Every step keeps StateInv when writes succeed.                          *)
LEMMA StateInductive ==
  ASSUME ~DiskMayFail, TypeOK, SlotInv, StateInv, [Next]_vars
  PROVE  StateInv'
<1>1. ASSUME NEW c \in Conn, Worker(c)
      PROVE  StateInv'
  BY <1>1, WorkerAside, StateAside
<1>2. CASE (\E c \in Conn : Connect(c) \/ ToolExits(c)) \/ Reader \/ Vivado \/ UNCHANGED vars
  BY <1>2, NeighbourAside, StateAside
<1>3. CASE Terminate \/ Kill
  BY <1>3 DEF Terminate, Kill, StateInv, Alive, artifacts
<1> QED BY <1>1, <1>2, <1>3, StateMain DEF Next, Ended

-----------------------------------------------------------------------------
(* The other parts hold when the daemon starts.                            *)
LEMMA ResultInitial ==
  ASSUME Init
  PROVE  RequestInv /\ OwnInv /\ RecordInv /\ OutputInv /\ UntouchedInv
<1>1. /\ \A t \in Thread : pc[t] = IF t = Main THEN "publish" ELSE "none"
      /\ \A t \in Thread : res[t] = Marker
      /\ \A c \in Conn : reply[c] = "none"
      /\ Main \in Thread /\ \A c \in Conn : c \in Thread /\ c # Main /\ c # None
  BY ThreadsAreDistinct DEF Init, Thread
<1>2. /\ stdin = <<>> /\ running = None /\ pty = <<>> /\ hand = <<>> /\ buf = {}
      /\ ~done /\ ~sock /\ dresult = Marker
      /\ meta = [state |-> "starting", cmd |-> None, tool |-> None, last |-> None]
      /\ dmeta = [state |-> "none", cmd |-> None, tool |-> None, last |-> None]
  BY DEF Init, InterpreterInit
<1>3. RequestInv
  BY <1>1 DEF RequestInv, SlotLabels, ExecLabels
<1>4. OwnInv
  BY <1>1, <1>2 DEF OwnInv, Marker
<1>5. RecordInv
  BY <1>1, <1>2, ThreadsAreDistinct DEF RecordInv, BusyLabels, ToolBusyLabels, Thread
<1>6. OutputInv
  BY <1>1, <1>2, ThreadsAreDistinct
  DEF OutputInv, NothingAfterPrompt, NoPromptIn, ResultIsOwnOutput, Marker, Thread
<1>7. UntouchedInv
  BY <1>1, <1>2 DEF UntouchedInv, Untouched, Refused, Dispatched, Marker
<1> QED BY <1>3, <1>4, <1>5, <1>6, <1>7

(* What holds whatever Vivado prints and whether or not the disk is full:  *)
(* who holds the slot, whose result a thread has, and that a refused       *)
(* connection has left no trace.                                           *)
THEOREM OwnershipHolds == Spec => [](SlotInv /\ RequestInv /\ OwnInv /\ UntouchedInv)
<1>1. Init => SlotInv /\ RequestInv /\ OwnInv /\ UntouchedInv
  BY ResultInitial, CoreInitial DEF CoreInv
<1>2. TypeOK /\ SlotInv /\ RequestInv /\ OwnInv /\ UntouchedInv /\ [Next]_vars
        => (SlotInv /\ RequestInv /\ OwnInv /\ UntouchedInv)'
  BY SlotInductive, RequestInductive, OwnInductive, UntouchedInductive
<1> QED BY <1>1, <1>2, TypeCorrect, PTL DEF Spec

(* With a disk that takes every write, the artifacts are in step with the  *)
(* operation under way.                                                    *)
THEOREM RecordHolds == ~DiskMayFail => (Spec => []RecordInv)
<1> SUFFICES ASSUME ~DiskMayFail
             PROVE  Spec => []RecordInv
  OBVIOUS
<1>1. Init => RecordInv
  BY ResultInitial
<1>2. TypeOK /\ SlotInv /\ OwnInv /\ RecordInv /\ [Next]_vars => RecordInv'
  BY RecordInductive
<1>3. Spec => [](SlotInv /\ OwnInv)
  BY OwnershipHolds, PTL
<1> QED BY <1>1, <1>2, <1>3, TypeCorrect, PTL DEF Spec

(* What metadata.json says follows the startup, if writes succeed. *)
LEMMA StateHolds == ~DiskMayFail => (Spec => []StateInv)
<1> SUFFICES ASSUME ~DiskMayFail
             PROVE  Spec => []StateInv
  OBVIOUS
<1>1. Init => StateInv
  <2>1. Init => pc[Main] = "publish" /\ res[Main] = Marker
    BY DEF Init, Thread
  <2> QED BY <2>1 DEF Init, StateInv, Marker, ExecLabels, BusyLabels
<1>2. TypeOK /\ SlotInv /\ StateInv /\ [Next]_vars => StateInv'
  BY StateInductive
<1>3. Spec => []SlotInv
  BY OwnershipHolds, PTL
<1> QED BY <1>1, <1>2, <1>3, TypeCorrect, PTL DEF Spec

(* The output is accounted for, as long as the prompt is not imitated. *)
LEMMA OutputHolds == ~Lookalike => (Spec => []OutputInv)
<1> SUFFICES ASSUME ~Lookalike
             PROVE  Spec => []OutputInv
  OBVIOUS
<1>1. Init => OutputInv
  BY ResultInitial
<1>2. TypeOK /\ CoreInv /\ OutputInv /\ [Next]_vars => OutputInv'
  BY OutputInductive
<1> QED BY <1>1, <1>2, CoreHolds, TypeCorrect, PTL DEF Spec

(* Vivado says goodbye only to a shutdown. *)
LEMMA FarewellHolds == ~Lookalike => (Spec => []FarewellInv)
<1> SUFFICES ASSUME ~Lookalike
             PROVE  Spec => []FarewellInv
  OBVIOUS
<1>1. Init => FarewellInv
  BY DEF Init, InterpreterInit, FarewellInv, FarewellIn
<1>2. TypeOK /\ CoreInv /\ FarewellInv /\ [Next]_vars => FarewellInv'
  BY FarewellInductive
<1> QED BY <1>1, <1>2, CoreHolds, TypeCorrect, PTL DEF Spec

(* The whole inductive invariant of the daemon. *)
THEOREM InvariantHolds == ~Lookalike /\ ~DiskMayFail => (Spec => []IInv)
<1> SUFFICES ASSUME ~Lookalike, ~DiskMayFail
             PROVE  Spec => []IInv
  OBVIOUS
<1>1. Spec => []CoreInv
  BY CoreHolds
<1>2. Spec => []RecordInv
  BY RecordHolds
<1>3. Spec => []OutputInv
  BY OutputHolds
<1>4. Spec => []FarewellInv
  BY FarewellHolds
<1>5. Spec => []StateInv
  BY StateHolds
<1>6. /\ TypeOK /\ CoreInv /\ RequestInv /\ OwnInv /\ RecordInv
      /\ StateInv /\ OutputInv /\ FarewellInv /\ UntouchedInv
      => IInv
  BY DEF IInv
<1> QED BY <1>1, <1>2, <1>3, <1>4, <1>5, <1>6, TypeCorrect, OwnershipHolds, PTL

(* Clients reach the daemon only if its project opened without errors.     *)
THEOREM SocketMeansProjectOpenHolds == Spec => []SocketMeansProjectOpen
<1>1. OwnInv => SocketMeansProjectOpen
  BY DEF OwnInv, SocketMeansProjectOpen
<1> QED BY <1>1, OwnershipHolds, PTL

(* At most one thread is about to write result.json.                       *)
THEOREM OneResultWriterHolds == Spec => []OneResultWriter
<1>1. TypeOK /\ SlotInv => OneResultWriter
  <2> SUFFICES ASSUME TypeOK, SlotInv, Alive, NEW s \in ResultWriters, NEW t \in ResultWriters
               PROVE  s = t
    BY DEF OneResultWriter
  <2>1. /\ s \in Thread /\ pc[s] \in ExecLabels \union {"pubmarker"}
        /\ t \in Thread /\ pc[t] \in ExecLabels \union {"pubmarker"}
    BY DEF ResultWriters, ExecLabels
  <2>2. CASE pc[Main] = "pubmarker"
    BY <2>1, <2>2 DEF SlotInv, StartLabels, ExecLabels, Thread
  <2>3. CASE pc[Main] # "pubmarker"
    <3>1. \A c \in Conn : pc[c] # "pubmarker"
      BY DEF TypeOK, WorkerLabels, ExecLabels
    <3> QED BY <2>1, <2>3, <3>1, OneExecutor DEF Thread
  <2> QED BY <2>2, <2>3
<1> QED BY <1>1, OwnershipHolds, TypeCorrect, PTL

(* A client that is told "busy", "crashed" or a usage error has had no     *)
(* effect on the interpreter, the collector or the artifacts.              *)
THEOREM BusyHasNoEffectHolds == Spec => []BusyHasNoEffect
<1>1. UntouchedInv => BusyHasNoEffect
  BY DEF UntouchedInv, Untouched, Refused, BusyHasNoEffect
<1> QED BY <1>1, OwnershipHolds, PTL

(* A result holds what its own command printed and nothing of another's.   *)
THEOREM ResultIsOwnOutputHolds == ~Lookalike => (Spec => []ResultIsOwnOutput)
<1>1. OutputInv => ResultIsOwnOutput
  BY DEF OutputInv
<1> QED BY <1>1, OutputHolds, PTL

(* metadata.json says "idle" only when no command is in the interpreter    *)
(* and no tool runs.                                                       *)
THEOREM IdleMeansQuietHolds == ~Lookalike /\ ~DiskMayFail => (Spec => []IdleMeansQuiet)
<1>1. IInv => IdleMeansQuiet
  <2> SUFFICES ASSUME IInv, dmeta.state = "idle"
               PROVE  Dispatched = {} /\ \A c \in Conn : pc[c] # "tooling"
    BY DEF IdleMeansQuiet
  <2>1. \A t \in Thread : pc[t] # "wait" /\ pc[t] # "tooling"
    BY DEF IInv, RecordInv, BusyLabels, ToolBusyLabels
  <2> QED BY <2>1, DispatchedIsEmpty DEF IInv, CoreInv, CommandInv, Thread
<1> QED BY <1>1, InvariantHolds, PTL

(* The write that withdraws a command from metadata.json comes after the   *)
(* write of that command's result.                                         *)
THEOREM IdlePublishesResultHolds == ~DiskMayFail => (Spec => IdlePublishesResult)
<1> SUFFICES ASSUME ~DiskMayFail
             PROVE  Spec => IdlePublishesResult
  OBVIOUS
<1>1. TypeOK /\ RecordInv /\ [Next]_vars =>
        [dmeta.cmd # None /\ dmeta'.cmd = None => dresult.cmd = dmeta.cmd]_vars
  <2> SUFFICES ASSUME TypeOK, RecordInv, Next, dmeta.cmd # None, dmeta'.cmd = None
               PROVE  dresult.cmd = dmeta.cmd
    OBVIOUS
  <2>1. dmeta.cmd \in Thread
    BY DEF TypeOK, Metadata, Source
  <2>2. dmeta' = meta
    <3>1. dmeta' # dmeta
      OBVIOUS
    <3>2. dmeta' = dmeta \/ \E t, from, to : PublishMeta(t, from, to)
      <4> USE DEF artifacts
      <4>1. ASSUME NEW t, ExecuteTcl(t)
            PROVE  dmeta' = dmeta \/ \E from, to : PublishMeta(t, from, to)
        BY <4>1
        DEF ExecuteTcl, LatchMarker, SetBusy, ArmCollector, LockWriter, Goto,
            SendCommand, TakeOutput, LatchResult, SetIdle
      <4>2. ASSUME NEW c \in Conn, Worker(c)
            PROVE  dmeta' = dmeta \/ \E from, to : PublishMeta(c, from, to)
        BY <4>1, <4>2
        DEF Worker, ReadRequest, CheckDied, AcquireSlot, HandleTool, ResolveTool, RefuseTool,
            SetToolBusy, SpawnTool, FinishTool, FinishOperation, Answer, HandleStop,
            StoreShutdown, Goto, ReplyAnd, ReleaseSlot
      <4>3. ASSUME MainThread
            PROVE  dmeta' = dmeta \/ \E t, from, to : PublishMeta(t, from, to)
        BY <4>1, <4>3
        DEF MainThread, Startup, Serve, Shutdown, Crash, PublishMarker, WaitPrompt,
            OpenProjectDone, SetState, Bind, BindFails, PollFlags, CheckVivado, Accept,
            AskVivadoToExit, EndGrace, Exit, MainGoto, LockWriter, Goto
      <4>4. ASSUME \/ Reader \/ Vivado \/ Terminate \/ Kill \/ Ended
                   \/ \E c \in Conn : Connect(c) \/ ToolExits(c)
            PROVE  dmeta' = dmeta
        BY <4>4
        DEF Reader, ReadChunk, Feed, ReaderEof, Vivado, Terminate, Kill, Ended, vars, Connect,
            ToolExits, Goto
      <4> QED BY <4>2, <4>3, <4>4 DEF Next
    <3> QED BY <3>1, <3>2 DEF PublishMeta, SaveMeta
  <2>3. pc[dmeta.cmd] \in BusyLabels \union {"pubidle"}
    BY <2>1 DEF RecordInv
  <2>4. pc[dmeta.cmd] \notin BusyLabels
    BY <2>1, <2>2, ThreadsAreDistinct DEF RecordInv, Thread
  <2> QED BY <2>1, <2>3, <2>4 DEF RecordInv
<1>2. Spec => []RecordInv
  BY RecordHolds
<1> QED BY <1>1, <1>2, TypeCorrect, PTL DEF Spec, IdlePublishesResult

(* The read that brings a prompt marks the command as done, unless a       *)
(* shutdown has typed "exit" behind the command.                           *)
THEOREM PromptIsNotMissedHolds == ~Lookalike => (Spec => PromptIsNotMissed)
<1> SUFFICES ASSUME ~Lookalike
             PROVE  Spec => PromptIsNotMissed
  OBVIOUS
<1>1. ASSUME TypeOK, CoreInv, OutputInv, FarewellInv, Next, hand' = <<>>,
             NEW i \in DOMAIN hand, hand[i].kind = "prompt"
      PROVE  done' \/ pc[Main] \in LeavingLabels
  <2>1. hand \in Seq(Token)
    BY <1>1 DEF TypeOK
  <2>2. Len(hand) \in DOMAIN hand /\ i <= Len(hand) /\ hand # <<>>
    BY <1>1, <2>1, LenProperties
  <2>3. Feed
    <3>1. hand' # hand
      BY <1>1, <2>2
    <3>2. ASSUME NEW t, ExecuteTcl(t)
          PROVE  hand' = hand
      BY <3>2
      DEF ExecuteTcl, LatchMarker, SetBusy, PublishMeta, ArmCollector, LockWriter, Goto,
          SendCommand, TakeOutput, LatchResult, SetIdle, reader
    <3>3. ASSUME NEW c \in Conn, Worker(c)
          PROVE  hand' = hand
      BY <3>2, <3>3, WorkerMoves DEF reader
    <3>4. ASSUME MainThread
          PROVE  hand' = hand
      BY <3>2, <3>4
      DEF MainThread, Startup, Serve, Shutdown, Crash, PublishMeta, PublishMarker, WaitPrompt,
          OpenProjectDone, SetState, Bind, BindFails, PollFlags, CheckVivado, Accept,
          AskVivadoToExit, EndGrace, Exit, MainGoto, LockWriter, Goto, reader
    <3>5. ASSUME \/ ReaderEof \/ Vivado \/ Terminate \/ Kill \/ Ended
                 \/ \E c \in Conn : Connect(c) \/ ToolExits(c)
          PROVE  hand' = hand
      BY <3>5
      DEF ReaderEof, Vivado, Terminate, Kill, Ended, vars, Connect, ToolExits, Goto, reader
    <3>6. ~ReadChunk
      BY <2>2 DEF ReadChunk
    <3> QED BY <1>1, <3>1, <3>3, <3>4, <3>5, <3>6 DEF Next, Reader
  <2>4. CASE i = Len(hand)
    BY <1>1, <2>3, <2>4 DEF Feed, EndsWithPrompt
  <2>5. CASE i < Len(hand)
    <3>1. hand[Len(hand)].src = None
      BY <1>1, <2>2, <2>5 DEF OutputInv, NothingAfterPrompt
    <3>2. hand[Len(hand)].kind # "prompt"
      BY <1>1, <2>2, <2>5 DEF CoreInv, PromptInv, OnePromptIn
    <3> QED BY <1>1, <2>2, <3>1, <3>2 DEF FarewellInv, FarewellIn, Leaving
  <2> QED BY <2>1, <2>2, <2>4, <2>5, LenProperties
<1>2. TypeOK /\ CoreInv /\ OutputInv /\ FarewellInv /\ [Next]_vars =>
        [ReadHoldsPrompt => done' \/ pc[Main] \in LeavingLabels]_vars
  BY <1>1 DEF ReadHoldsPrompt
<1> QED
  BY <1>2, CoreHolds, OutputHolds, FarewellHolds, TypeCorrect, PTL DEF Spec, PromptIsNotMissed

=============================================================================
