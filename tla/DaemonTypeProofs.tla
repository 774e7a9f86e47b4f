----------------------------- MODULE DaemonTypeProofs ---------------------------
(***************************************************************************)
(* The type invariant of Daemon, for every set of connections and every    *)
(* value of the other constants.                                           *)
(***************************************************************************)
EXTENDS Daemon, SequenceTheorems, TLAPS

-----------------------------------------------------------------------------
(* The interpreter keeps the types of its own variables. *)
LEMMA InterpreterType ==
  ASSUME InterpreterTypeOK, InterpreterNext
  PROVE  InterpreterTypeOK'
<1> USE DEF Token, Source, Emit
<1>1. CASE Boot
  BY <1>1 DEF InterpreterTypeOK, Boot
<1>2. CASE ReadCommand
  <2>1. stdin' \in Seq(Source) /\ running' \in Source
    BY <1>2, HeadTailProperties DEF InterpreterTypeOK, ReadCommand
  <2> QED BY <1>2, <2>1 DEF InterpreterTypeOK, ReadCommand
<1>3. CASE ReadExit
  BY <1>3 DEF InterpreterTypeOK, ReadExit
<1>4. CASE WriteOutput
  <2>1. PICK kind \in {"out", "err", "prompt"} : PrintOutput(kind)
    BY <1>4 DEF WriteOutput
  <2> QED BY <2>1, MaxOutIsNatural DEF InterpreterTypeOK, PrintOutput
<1>5. CASE Finish
  BY <1>5, MaxOutIsNatural DEF InterpreterTypeOK, Finish
<1>6. CASE Die
  BY <1>6, MaxOutIsNatural DEF InterpreterTypeOK, Die
<1> QED BY <1>1, <1>2, <1>3, <1>4, <1>5, <1>6 DEF InterpreterNext

(* A step moves one thread, to a label of its own kind. *)
PcType ==
  /\ pc \in [Thread -> WorkerLabels \union MainLabels]
  /\ pc[Main] \in MainLabels
  /\ \A c \in Conn : pc[c] \in WorkerLabels

(* A thread that goes from label to label stays among its own labels.      *)
LEMMA StepType ==
  ASSUME PcType, NEW t \in Thread, NEW from, NEW to, Step(t, from, to),
         t = Main => to \in MainLabels,
         t # Main => to \in WorkerLabels
  PROVE  PcType'
BY ThreadsAreDistinct DEF PcType, Step, Thread

(* The no-result marker is a result.                                       *)
LEMMA MarkerType == Marker \in Results
BY DEF Marker, Results, Source

(* What execute_tcl makes of the collector is a result.                    *)
LEMMA ResultType ==
  ASSUME TypeOK, NEW t \in Thread
  PROVE  ResultOf(t) \in Results
BY DEF TypeOK, ResultOf, Results, Source, Token

(* execute_tcl keeps every type, whichever thread runs it. *)
LEMMA ExecuteType ==
  ASSUME TypeOK, NEW t \in Thread, ExecuteTcl(t)
  PROVE  TypeOK'
<1> USE DEF vivado, reader, clients, flags, artifacts
<1>p. PcType
  BY DEF TypeOK, PcType
<1>l. ExecLabels \subseteq MainLabels /\ ExecLabels \subseteq WorkerLabels
  BY DEF MainLabels, StartLabels, WorkerLabels
<1>1. CASE LatchMarker(t)
  <2>1. PcType'
    BY <1>1, <1>p, <1>l, StepType DEF LatchMarker, ExecLabels
  <2>2. dresult' \in Results
    BY <1>1, MarkerType DEF LatchMarker, SaveResult, TypeOK
  <2> QED BY <1>1, <2>1, <2>2 DEF LatchMarker, TypeOK, PcType, InterpreterTypeOK
<1>2. CASE SetBusy(t)
  <2>1. PcType'
    BY <1>2, <1>p, <1>l, StepType DEF SetBusy, ExecLabels
  <2>2. meta' \in Metadata
    BY <1>2 DEF SetBusy, TypeOK, Metadata, States, Source
  <2> QED BY <1>2, <2>1, <2>2 DEF SetBusy, TypeOK, PcType, InterpreterTypeOK
<1>3. CASE PublishMeta(t, "pubbusy", "arm")
  <2>1. PcType'
    BY <1>3, <1>p, <1>l, StepType DEF PublishMeta, ExecLabels
  <2>2. dmeta' \in Metadata
    BY <1>3 DEF PublishMeta, SaveMeta, TypeOK
  <2> QED BY <1>3, <2>1, <2>2 DEF PublishMeta, TypeOK, PcType, InterpreterTypeOK
<1>4. CASE ArmCollector(t)
  <2>1. PcType'
    BY <1>4, <1>p, <1>l, StepType DEF ArmCollector, ExecLabels
  <2> QED BY <1>4, <2>1 DEF ArmCollector, TypeOK, PcType, InterpreterTypeOK
<1>5. CASE SendCommand(t)
  <2>1. PcType'
    BY <1>5, <1>p, <1>l, StepType DEF SendCommand, ExecLabels
  <2>2. stdin' \in Seq(Source)
    BY <1>5 DEF SendCommand, TypeOK, InterpreterTypeOK, Source
  <2> QED BY <1>5, <2>1, <2>2 DEF SendCommand, TypeOK, PcType, InterpreterTypeOK
<1>10. CASE LockWriter(t, "writer", "send")
  <2>1. PcType'
    BY <1>10, <1>p, <1>l, StepType DEF LockWriter, Goto, ExecLabels
  <2> QED BY <1>10, <2>1 DEF LockWriter, Goto, TypeOK, PcType, InterpreterTypeOK
<1>6. CASE TakeOutput(t)
  <2>1. PcType'
    BY <1>6, <1>p, <1>l, StepType DEF TakeOutput, ExecLabels
  <2>2. res' \in [Thread -> Results]
    BY <1>6, ResultType DEF TakeOutput, TypeOK
  <2> QED BY <1>6, <2>1, <2>2 DEF TakeOutput, TypeOK, PcType, InterpreterTypeOK
<1>7. CASE LatchResult(t)
  <2>1. PcType'
    BY <1>7, <1>p, <1>l, StepType DEF LatchResult, ExecLabels
  <2>2. dresult' \in Results
    BY <1>7 DEF LatchResult, SaveResult, TypeOK
  <2> QED BY <1>7, <2>1, <2>2 DEF LatchResult, TypeOK, PcType, InterpreterTypeOK
<1>8. CASE SetIdle(t)
  <2>1. PcType'
    BY <1>8, <1>p, <1>l, StepType DEF SetIdle, ExecLabels
  <2>2. meta' \in Metadata
    BY <1>8 DEF SetIdle, TypeOK, Metadata, States, Source
  <2> QED BY <1>8, <2>1, <2>2 DEF SetIdle, TypeOK, PcType, InterpreterTypeOK
<1>9. CASE PublishMeta(t, "pubidle", AfterExec(t))
  <2>1. PcType'
    BY <1>9, <1>p, StepType
    DEF PublishMeta, AfterExec, MainLabels, StartLabels, WorkerLabels
  <2>2. dmeta' \in Metadata
    BY <1>9 DEF PublishMeta, SaveMeta, TypeOK
  <2> QED BY <1>9, <2>1, <2>2 DEF PublishMeta, TypeOK, PcType, InterpreterTypeOK
<1> QED
  BY <1>1, <1>2, <1>3, <1>4, <1>5, <1>6, <1>7, <1>8, <1>9, <1>10 DEF ExecuteTcl

(* A worker's own steps keep every type. *)
LEMMA WorkerType ==
  ASSUME TypeOK, NEW c \in Conn, Worker(c)
  PROVE  TypeOK'
<1> USE DEF vivado, reader, clients, flags, artifacts
<1>p. PcType /\ c \in Thread /\ c # Main
  BY ThreadsAreDistinct DEF TypeOK, PcType, Thread
<1>g. ASSUME NEW from, NEW to \in WorkerLabels, Goto(c, from, to)
      PROVE  TypeOK'
  <2>1. PcType'
    BY <1>g, <1>p, StepType DEF Goto
  <2> QED BY <1>g, <2>1 DEF Goto, TypeOK, PcType, InterpreterTypeOK
<1>r. ASSUME NEW from, NEW to \in WorkerLabels, NEW r \in Replies, ReplyAnd(c, from, to, r)
      PROVE  TypeOK'
  <2>1. PcType'
    BY <1>r, <1>p, StepType DEF ReplyAnd
  <2> QED BY <1>r, <2>1 DEF ReplyAnd, TypeOK, PcType, InterpreterTypeOK
<1>s. ASSUME NEW from, NEW to \in WorkerLabels, ReleaseSlot(c, from, to)
      PROVE  TypeOK'
  <2>1. PcType'
    BY <1>s, <1>p, StepType DEF ReleaseSlot
  <2> QED BY <1>s, <2>1 DEF ReleaseSlot, TypeOK, PcType, InterpreterTypeOK
<1>m. ASSUME NEW from, NEW to \in WorkerLabels, PublishMeta(c, from, to)
      PROVE  TypeOK'
  <2>1. PcType'
    BY <1>m, <1>p, StepType DEF PublishMeta
  <2>2. dmeta' \in Metadata
    BY <1>m DEF PublishMeta, SaveMeta, TypeOK
  <2> QED BY <1>m, <2>1, <2>2 DEF PublishMeta, TypeOK, PcType, InterpreterTypeOK
<1>1. CASE ReadRequest(c)
  BY <1>1, <1>g, <1>r DEF ReadRequest, WorkerLabels, Replies
<1>2. CASE CheckDied(c)
  BY <1>2, <1>g, <1>r DEF CheckDied, WorkerLabels, Replies
<1>3. CASE AcquireSlot(c)
  <2>1. CASE inflight # None /\ ReplyAnd(c, "acquire", "end", "busy")
    BY <2>1, <1>r DEF WorkerLabels, Replies
  <2>2. CASE inflight = None /\ inflight' = c
             /\ Step(c, "acquire", IF req[c] = "exec" THEN "mark" ELSE "resolve")
             /\ UNCHANGED <<vivado, reader, clients, res, meta, flags, artifacts>>
    <3>1. PcType'
      BY <2>2, <1>p, StepType DEF WorkerLabels, ExecLabels
    <3> QED BY <2>2, <3>1 DEF TypeOK, PcType, InterpreterTypeOK
  <2> QED BY <1>3, <2>1, <2>2 DEF AcquireSlot
<1>4. CASE ExecuteTcl(c)
  BY <1>4, <1>p, ExecuteType
<1>5. CASE HandleTool(c)
  <2>1. CASE ResolveTool(c)
    BY <2>1, <1>g DEF ResolveTool, WorkerLabels
  <2>2. CASE RefuseTool(c)
    BY <2>2, <1>r, <1>s DEF RefuseTool, WorkerLabels, Replies
  <2>3. CASE SetToolBusy(c)
    <3>1. PcType'
      BY <2>3, <1>p, StepType DEF SetToolBusy, WorkerLabels
    <3>2. meta' \in Metadata
      BY <2>3 DEF SetToolBusy, TypeOK, Metadata, States, Source, Thread
    <3> QED BY <2>3, <3>1, <3>2 DEF SetToolBusy, TypeOK, PcType, InterpreterTypeOK
  <2>4. CASE PublishMeta(c, "pubtool", "spawn") \/ PublishMeta(c, "pubfin", "release")
    BY <2>4, <1>m DEF WorkerLabels
  <2>5. CASE SpawnTool(c)
    BY <2>5, <1>g, <1>r DEF SpawnTool, WorkerLabels, Replies
  <2>6. CASE FinishTool(c)
    <3>1. PcType'
      BY <2>6, <1>p, StepType DEF FinishTool, WorkerLabels
    <3>2. meta' \in Metadata
      BY <2>6 DEF FinishTool, TypeOK, Metadata, States, Source, Thread
    <3> QED BY <2>6, <3>1, <3>2 DEF FinishTool, TypeOK, PcType, InterpreterTypeOK
  <2> QED BY <1>5, <2>1, <2>2, <2>3, <2>4, <2>5, <2>6 DEF HandleTool
<1>6. CASE FinishOperation(c)
  BY <1>6, <1>s DEF FinishOperation, WorkerLabels
<1>7. CASE Answer(c)
  BY <1>7, <1>r DEF Answer, WorkerLabels, Replies
<1>8. CASE HandleStop(c)
  BY <1>8, <1>r DEF HandleStop, WorkerLabels, Replies
<1>9. CASE StoreShutdown(c)
  <2>1. PcType'
    BY <1>9, <1>p, StepType DEF StoreShutdown, WorkerLabels
  <2> QED BY <1>9, <2>1 DEF StoreShutdown, TypeOK, PcType, InterpreterTypeOK
<1> QED
  BY <1>1, <1>2, <1>3, <1>4, <1>5, <1>6, <1>7, <1>8, <1>9 DEF Worker

(* The main thread's steps keep every type. *)
LEMMA MainType ==
  ASSUME TypeOK, MainThread
  PROVE  TypeOK'
<1> USE DEF vivado, reader, clients, flags, artifacts
<1>p. PcType /\ Main \in Thread
  BY DEF TypeOK, PcType, Thread
<1>l. /\ StartLabels \subseteq MainLabels
      /\ LoopLabels \subseteq MainLabels
      /\ CrashLabels \subseteq MainLabels
  BY DEF MainLabels
<1>g. ASSUME NEW from, NEW to \in MainLabels, MainGoto(from, to)
      PROVE  TypeOK'
  <2>1. PcType'
    BY <1>g, <1>p, StepType DEF MainGoto
  <2> QED BY <1>g, <2>1 DEF MainGoto, TypeOK, PcType, InterpreterTypeOK
<1>m. ASSUME NEW from, NEW to \in MainLabels, PublishMeta(Main, from, to)
      PROVE  TypeOK'
  <2>1. PcType'
    BY <1>m, <1>p, StepType DEF PublishMeta
  <2>2. dmeta' \in Metadata
    BY <1>m DEF PublishMeta, SaveMeta, TypeOK
  <2> QED BY <1>m, <2>1, <2>2 DEF PublishMeta, TypeOK, PcType, InterpreterTypeOK
<1>s. ASSUME NEW from, NEW to \in MainLabels, NEW st \in States, SetState(from, to, st)
      PROVE  TypeOK'
  <2>1. PcType'
    BY <1>s, <1>p, StepType DEF SetState
  <2>2. meta' \in Metadata
    BY <1>s DEF SetState, TypeOK, Metadata
  <2> QED BY <1>s, <2>1, <2>2 DEF SetState, TypeOK, PcType, InterpreterTypeOK
<1>e. ASSUME NEW label \in MainLabels, NEW how \in {"stopped", "failed"}, Exit(label, how)
      PROVE  TypeOK'
  <2>1. PcType'
    BY <1>e, <1>p, StepType DEF Exit
  <2> QED BY <1>e, <2>1 DEF Exit, TypeOK, PcType, InterpreterTypeOK
<1>1. CASE Startup
  <2>1. CASE PublishMarker
    <3>1. PcType'
      BY <2>1, <1>p, StepType DEF PublishMarker, MainLabels, StartLabels
    <3>2. dresult' \in Results
      BY <2>1, MarkerType DEF PublishMarker, SaveResult, TypeOK
    <3> QED BY <2>1, <3>1, <3>2 DEF PublishMarker, TypeOK, PcType, InterpreterTypeOK
  <2>2. CASE PublishMeta(Main, "publish", "pubmarker") \/ PublishMeta(Main, "pubready", "bind")
    BY <2>2, <1>m, <1>l DEF StartLabels
  <2>3. CASE WaitPrompt \/ OpenProjectDone
    BY <2>3, <1>g, <1>l DEF WaitPrompt, OpenProjectDone, StartLabels, CrashLabels, ExecLabels
  <2>4. CASE ExecuteTcl(Main)
    BY <2>4, <1>p, ExecuteType
  <2>5. CASE SetState("setready", "pubready", "idle")
    BY <2>5, <1>s, <1>l DEF StartLabels, States
  <2>6. CASE Bind
    <3>1. PcType'
      BY <2>6, <1>p, <1>l, StepType DEF Bind, LoopLabels
    <3> QED BY <2>6, <3>1 DEF Bind, TypeOK, PcType, InterpreterTypeOK
  <2>7. CASE BindFails
    BY <2>7, <1>e, <1>l DEF BindFails, StartLabels
  <2> QED BY <1>1, <2>1, <2>2, <2>3, <2>4, <2>5, <2>6, <2>7 DEF Startup
<1>2. CASE Serve
  <2>1. CASE PollFlags \/ CheckVivado
    BY <2>1, <1>g, <1>l DEF PollFlags, CheckVivado, LoopLabels, CrashLabels
  <2>2. CASE Accept
    <3>1. CASE MainGoto("accept", "poll")
      BY <3>1, <1>g, <1>l DEF LoopLabels
    <3>2. ASSUME NEW c \in Conn,
                 pc' = [pc EXCEPT ![Main] = "poll", ![c] = "read"],
                 UNCHANGED <<vivado, reader, clients, res, inflight, meta, flags, artifacts>>
          PROVE  TypeOK'
      <4>1. PcType'
        BY <3>2, <1>p, <1>l, ThreadsAreDistinct
        DEF PcType, Thread, LoopLabels, WorkerLabels
      <4>2. /\ TypeOK
            /\ UNCHANGED <<vivado, reader, clients, res, inflight, meta, flags, artifacts>>
        BY <3>2
      <4> QED
        BY ONLY <4>1, <4>2
        DEF TypeOK, PcType, InterpreterTypeOK, vivado, reader, clients, flags, artifacts
    <3> QED BY <2>2, <3>1, <3>2 DEF Accept
  <2> QED BY <1>2, <2>1, <2>2 DEF Serve
<1>3. CASE Shutdown
  <2>1. CASE AskVivadoToExit
    <3>1. PcType'
      BY <2>1, <1>p, <1>l, StepType DEF AskVivadoToExit, LoopLabels
    <3>2. stdin' \in Seq(Source)
      BY <2>1 DEF AskVivadoToExit, TypeOK, InterpreterTypeOK, Source
    <3> QED BY <2>1, <3>1, <3>2 DEF AskVivadoToExit, TypeOK, PcType, InterpreterTypeOK
  <2>2. CASE EndGrace
    <3>1. PcType'
      BY <2>2, <1>p, <1>l, StepType DEF EndGrace, LoopLabels
    <3>2. interp' \in {"booting", "prompt", "running", "dead"} /\ pty' \in Seq(Token)
      BY <2>2 DEF EndGrace, TypeOK, InterpreterTypeOK
    <3>3. running' \in Source /\ printed' \in 0..MaxOut
      BY <2>2, MaxOutIsNatural DEF EndGrace, TypeOK, InterpreterTypeOK, Source
    <3>4. stdin' \in Seq(Source)
      <4>1. stdin' = stdin \/ stdin' = <<>>
        BY <2>2 DEF EndGrace
      <4> QED BY <4>1, EmptySeq DEF TypeOK, InterpreterTypeOK
    <3>5. InterpreterTypeOK'
      BY <3>2, <3>3, <3>4 DEF InterpreterTypeOK
    <3> QED BY <2>2, <3>1, <3>5 DEF EndGrace, TypeOK, PcType
  <2>3. CASE SetState("setstopped", "pubstopped", "stopped")
    BY <2>3, <1>s, <1>l DEF LoopLabels, States
  <2>4. CASE PublishMeta(Main, "pubstopped", "stopped")
    BY <2>4, <1>m, <1>l DEF LoopLabels
  <2>5. CASE Exit("stopped", "stopped")
    BY <2>5, <1>e, <1>l DEF LoopLabels
  <2>6. CASE LockWriter(Main, "leave", "drain")
    <3>1. PcType'
      BY <2>6, <1>p, <1>l, StepType DEF LockWriter, Goto, LoopLabels
    <3> QED BY <2>6, <3>1 DEF LockWriter, Goto, TypeOK, PcType, InterpreterTypeOK
  <2> QED BY <1>3, <2>1, <2>2, <2>3, <2>4, <2>5, <2>6 DEF Shutdown
<1>4. CASE Crash
  BY <1>4, <1>s, <1>m, <1>e, <1>l DEF Crash, CrashLabels, States
<1> QED BY <1>1, <1>2, <1>3, <1>4 DEF MainThread

(* The reader's steps keep every type. *)
LEMMA ReaderType ==
  ASSUME TypeOK, Reader
  PROVE  TypeOK'
<1> USE DEF vivado, clients, flags, artifacts
<1>1. CASE ReadChunk
  <2>1. PICK n \in 1..Len(pty) : hand' = SubSeq(pty, 1, n)
                               /\ pty' = SubSeq(pty, n + 1, Len(pty))
    BY <1>1 DEF ReadChunk
  <2>2. pty \in Seq(Token)
    BY DEF TypeOK, InterpreterTypeOK
  <2>3. hand' \in Seq(Token) /\ pty' \in Seq(Token)
    BY <2>1, <2>2, SubSeqProperties, LenProperties
  <2> QED BY <1>1, <2>3 DEF ReadChunk, TypeOK, InterpreterTypeOK
<1>2. CASE Feed
  <2>1. TextOf(hand) \subseteq Token
    BY ElementOfSeq DEF TextOf, TypeOK
  <2>2. hand' \in Seq(Token) /\ done' \in BOOLEAN /\ buf' \in SUBSET Token
    BY <1>2, <2>1 DEF Feed, TypeOK, EndsWithPrompt
  <2> QED BY <1>2, <2>2 DEF Feed, TypeOK, InterpreterTypeOK
<1>3. CASE ReaderEof
  BY <1>3 DEF ReaderEof, TypeOK, InterpreterTypeOK
<1> QED BY <1>1, <1>2, <1>3 DEF Reader

(* The types hold when the daemon starts.                                  *)
LEMMA TypeInitial == Init => TypeOK
<1> SUFFICES ASSUME Init
             PROVE  TypeOK
  OBVIOUS
<1>1. InterpreterTypeOK
  BY MaxOutIsNatural DEF Init, InterpreterInit, InterpreterTypeOK, Source
<1>2. PcType
  BY ThreadsAreDistinct
  DEF Init, PcType, Thread, WorkerLabels, MainLabels, StartLabels
<1>3. /\ hand \in Seq(Token) /\ buf \in SUBSET Token
      /\ req \in [Conn -> Requests \union {"none"}]
      /\ reply \in [Conn -> Replies]
  BY DEF Init, Replies
<1>4. res \in [Thread -> Results] /\ dresult \in Results
  BY MarkerType DEF Init
<1>5. meta \in Metadata /\ dmeta \in Metadata
  BY DEF Init, Metadata, States, Source
<1> QED BY <1>1, <1>2, <1>3, <1>4, <1>5 DEF Init, TypeOK, PcType

(* The type invariant: every variable always has its type, whatever the    *)
(* number of connections and whatever Vivado, the disk and the signals do. *)
THEOREM TypeCorrect == Spec => []TypeOK
<1>1. Init => TypeOK
  BY TypeInitial
<1>2. TypeOK /\ [Next]_vars => TypeOK'
  <2> SUFFICES ASSUME TypeOK, [Next]_vars
               PROVE  TypeOK'
    OBVIOUS
  <2> USE DEF vivado, reader, clients, flags, artifacts
  <2>1. CASE Reader
    BY <2>1, ReaderType
  <2>2. ASSUME NEW c \in Conn, Connect(c)
        PROVE  TypeOK'
    <3>1. PcType'
      BY <2>2, ThreadsAreDistinct, StepType
      DEF Connect, TypeOK, PcType, Thread, WorkerLabels
    <3>2. req' \in [Conn -> Requests \union {"none"}]
      BY <2>2 DEF Connect, TypeOK
    <3> QED BY <2>2, <3>1, <3>2 DEF Connect, TypeOK, PcType, InterpreterTypeOK
  <2>3. ASSUME NEW c \in Conn, Worker(c)
        PROVE  TypeOK'
    BY <2>3, WorkerType
  <2>4. ASSUME NEW c \in Conn, ToolExits(c)
        PROVE  TypeOK'
    <3>1. PcType'
      BY <2>4, ThreadsAreDistinct, StepType
      DEF ToolExits, Goto, TypeOK, PcType, Thread, WorkerLabels
    <3> QED BY <2>4, <3>1 DEF ToolExits, Goto, TypeOK, PcType, InterpreterTypeOK
  <2>5. CASE MainThread
    BY <2>5, MainType
  <2>6. CASE Terminate
    BY <2>6 DEF Terminate, TypeOK, InterpreterTypeOK
  <2>7. CASE Kill
    BY <2>7 DEF Kill, TypeOK, InterpreterTypeOK
  <2>8. CASE Vivado
    BY <2>8, InterpreterType DEF Vivado, TypeOK
  <2>9. CASE UNCHANGED vars
    BY <2>9 DEF vars, TypeOK, InterpreterTypeOK
  <2> QED
    BY <2>1, <2>2, <2>3, <2>4, <2>5, <2>6, <2>7, <2>8, <2>9 DEF Next, Ended
<1> QED BY <1>1, <1>2, PTL DEF Spec

=============================================================================
