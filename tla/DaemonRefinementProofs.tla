------------------------ MODULE DaemonRefinementProofs ------------------------
(***************************************************************************)
(* The daemon implements OneAtATime, whatever Vivado prints, as long as    *)
(* result.json can be written.  The abstract slot, phase and latch are     *)
(* functions of the labels of the threads and of result.json; every step   *)
(* of the daemon is one step of the scheduler or none.  And it implements  *)
(* SessionLife, the life of a session that Lifecycle is built from.        *)
(***************************************************************************)
EXTENDS DaemonResultProofs

-----------------------------------------------------------------------------
(* The refinement mapping, read off the thread that is inside the slot. *)
PhaseOf(t) ==
  IF pc[t] \in DispatchLabels THEN "dispatched"
  ELSE IF HasLatched(t) THEN "latched" ELSE "held"

Mapped ==
  /\ \A t \in Thread : pc[t] \in SlotLabels => Holder = t /\ Phase = PhaseOf(t)
  /\ (\A t \in Thread : pc[t] \notin SlotLabels) => Holder = None /\ Phase = "free"

(* The holder and the phase of the one-slot scheduler are those of the     *)
(* daemon's owner.                                                         *)
LEMMA MappingHolds == TypeOK /\ SlotInv => Mapped
<1> SUFFICES ASSUME TypeOK, SlotInv
             PROVE  Mapped
  OBVIOUS
<1>1. pc[Main] \in SlotLabels <=> pc[Main] \in ExecLabels
  BY DEF TypeOK, MainLabels, LoopLabels, CrashLabels, StartLabels, SlotLabels, ExecLabels
<1>2. pc[Main] \in ExecLabels => inflight = None
  BY DEF SlotInv, StartLabels, TypeOK, SlotLabels, ExecLabels
<1>3. ASSUME NEW t \in Thread, pc[t] \in SlotLabels
      PROVE  Holder = t /\ Phase = PhaseOf(t)
  <2>1. Holder = t
    BY <1>1, <1>2, <1>3, ThreadsAreDistinct DEF Holder, SlotInv, Thread
  <2>2. t # None
    BY ThreadsAreDistinct DEF Thread
  <2> QED BY <2>1, <2>2 DEF Phase, PhaseOf
<1>4. ASSUME \A t \in Thread : pc[t] \notin SlotLabels
      PROVE  Holder = None /\ Phase = "free"
  <2>1. Holder = None
    BY <1>1, <1>4 DEF Holder, SlotInv, Thread, TypeOK
  <2> QED BY <2>1 DEF Phase
<1> QED BY <1>3, <1>4 DEF Mapped

(* The same after a step.                                                  *)
LEMMA MappingHoldsNext == TypeOK' /\ SlotInv' => Mapped'
BY MappingHolds, PTL

-----------------------------------------------------------------------------
(* A step that no thread's part in the scheduler notices is a stutter. *)
LEMMA Stutters ==
  ASSUME Mapped, Mapped', dresult'.cmd = dresult.cmd,
         \A t \in Thread : pc'[t] \in SlotLabels <=> pc[t] \in SlotLabels,
         \A t \in Thread : pc[t] \in SlotLabels => PhaseOf(t)' = PhaseOf(t)
  PROVE  UNCHANGED <<Holder, Phase, dresult.cmd>>
<1>1. CASE \E t \in Thread : pc[t] \in SlotLabels
  BY <1>1 DEF Mapped
<1>2. CASE \A t \in Thread : pc[t] \notin SlotLabels
  BY <1>2 DEF Mapped
<1> QED BY <1>1, <1>2

SchedulerStep == Scheduler!Next \/ UNCHANGED <<Holder, Phase, dresult.cmd>>

(* One thread moves without touching its part in the scheduler. *)
LEMMA QuietStutters ==
  ASSUME TypeOK, Mapped, Mapped', NEW t \in Thread, NEW from, NEW to, Step(t, from, to),
         dresult'.cmd = dresult.cmd, req' = req,
         to \in SlotLabels <=> from \in SlotLabels,
         to \in DispatchLabels <=> from \in DispatchLabels,
         to \in {"setidle", "pubidle"} <=> from \in {"setidle", "pubidle"},
         to # "release", from # "release"
  PROVE  SchedulerStep
<1>1. /\ \A s \in Thread : pc'[s] = IF s = t THEN to ELSE pc[s]
      /\ pc[t] = from
  BY StepMoves
<1>2. \A s \in Thread : PhaseOf(s)' = PhaseOf(s)
  BY <1>1 DEF PhaseOf, HasLatched
<1> QED BY <1>1, <1>2, Stutters DEF SchedulerStep

(* The slot is taken by a thread that starts its operation. *)
LEMMA Takes ==
  ASSUME TypeOK, SlotInv, Mapped, Mapped', NEW t \in Thread, NEW from, NEW to,
         Step(t, from, to), dresult' = dresult,
         \A s \in Thread : pc[s] \notin SlotLabels,
         to \in {"mark", "resolve"}
  PROVE  SchedulerStep
<1>1. \A s \in Thread : pc'[s] = IF s = t THEN to ELSE pc[s]
  BY StepMoves
<1>2. Holder = None /\ Phase = "free"
  BY DEF Mapped
<1>3. Holder' = t /\ Phase' = PhaseOf(t)'
  BY <1>1 DEF Mapped, SlotLabels, ExecLabels
<1>4. PhaseOf(t)' = "held"
  BY <1>1 DEF PhaseOf, HasLatched, DispatchLabels
<1> QED BY <1>2, <1>3, <1>4 DEF SchedulerStep, Scheduler!Next, Scheduler!Take

(* The slot is given back by a thread that has no command dispatched. *)
LEMMA Drops ==
  ASSUME TypeOK, SlotInv, Mapped, Mapped', Alive, NEW t \in Thread, NEW from, NEW to,
         Step(t, from, to), dresult' = dresult,
         from \in SlotLabels \ DispatchLabels, to \notin SlotLabels
  PROVE  SchedulerStep
<1>1. /\ \A s \in Thread : pc'[s] = IF s = t THEN to ELSE pc[s]
      /\ pc[t] = from
  BY StepMoves
<1>2. Phase \in {"held", "latched"}
  BY <1>1 DEF Mapped, PhaseOf
<1>3. \A s \in Thread : pc'[s] \notin SlotLabels
  BY <1>1, OneHolder
<1>4. Holder' = None /\ Phase' = "free"
  BY <1>3 DEF Mapped
<1> QED BY <1>2, <1>4 DEF SchedulerStep, Scheduler!Next, Scheduler!Drop

-----------------------------------------------------------------------------
(* execute_tcl dispatches once, completes once, and then gives the slot    *)
(* back or leaves that to the worker.                                      *)
LEMMA ExecuteRefines ==
  ASSUME ~DiskMayFail, TypeOK, SlotInv, RequestInv, OwnInv, Mapped, Mapped',
         NEW t \in Thread, ExecuteTcl(t)
  PROVE  SchedulerStep
<1> USE DEF artifacts, clients
<1>1. CASE LatchMarker(t)
  <2>1. /\ \A s \in Thread : pc'[s] = IF s = t THEN "setbusy" ELSE pc[s]
        /\ pc[t] = "mark" /\ dresult' = Marker
    BY <1>1, StepMoves DEF LatchMarker, SaveResult
  <2>2. Holder = t /\ Phase = "held"
    BY <2>1 DEF Mapped, PhaseOf, HasLatched, SlotLabels, ExecLabels, DispatchLabels
  <2>3. Holder' = t /\ Phase' = "dispatched"
    BY <2>1 DEF Mapped, PhaseOf, SlotLabels, ExecLabels, DispatchLabels
  <2> QED
    BY <2>1, <2>2, <2>3 DEF SchedulerStep, Scheduler!Next, Scheduler!Dispatch, Marker
<1>2. CASE LatchResult(t)
  <2>1. /\ \A s \in Thread : pc'[s] = IF s = t THEN "setidle" ELSE pc[s]
        /\ pc[t] = "latch" /\ dresult' = res[t]
    BY <1>2, StepMoves DEF LatchResult, SaveResult
  <2>2. Holder = t /\ Phase = "dispatched"
    BY <2>1 DEF Mapped, PhaseOf, SlotLabels, ExecLabels, DispatchLabels
  <2>3. Holder' = t /\ Phase' = "latched"
    BY <2>1 DEF Mapped, PhaseOf, HasLatched, SlotLabels, ExecLabels, DispatchLabels
  <2>4. dresult'.cmd = t
    BY <2>1 DEF OwnInv
  <2> QED
    BY <2>2, <2>3, <2>4 DEF SchedulerStep, Scheduler!Next, Scheduler!Complete
<1>3. CASE PublishMeta(t, "pubidle", AfterExec(t))
  <2>1. /\ \A s \in Thread : pc'[s] = IF s = t THEN AfterExec(t) ELSE pc[s]
        /\ pc[t] = "pubidle" /\ Alive
        /\ Step(t, "pubidle", AfterExec(t)) /\ UNCHANGED <<dresult, req>>
    BY <1>3, StepMoves DEF PublishMeta
  <2>2. CASE t = Main
    BY <2>1, <2>2, Drops DEF AfterExec, SlotLabels, ExecLabels, DispatchLabels
  <2>3. CASE t \in Conn
    <3>1. AfterExec(t) = "release" /\ req[t] = "exec"
      BY <2>1, <2>3, ThreadsAreDistinct DEF AfterExec, RequestInv, ExecLabels
    <3>2. \A s \in Thread : PhaseOf(s)' = PhaseOf(s)
      BY <2>1, <3>1 DEF PhaseOf, HasLatched, DispatchLabels
    <3>3. \A s \in Thread : pc'[s] \in SlotLabels <=> pc[s] \in SlotLabels
      BY <2>1, <3>1 DEF SlotLabels, ExecLabels
    <3> QED BY <2>1, <3>2, <3>3, Stutters DEF SchedulerStep
  <2> QED BY <2>2, <2>3 DEF Thread
<1>4. CASE SetBusy(t) \/ SetIdle(t) \/ PublishMeta(t, "pubbusy", "arm")
  BY <1>4, QuietStutters
  DEF SetBusy, SetIdle, PublishMeta, SlotLabels, ExecLabels, DispatchLabels
<1>5. CASE \/ ArmCollector(t) \/ LockWriter(t, "writer", "send")
           \/ SendCommand(t) \/ TakeOutput(t)
  BY <1>5, QuietStutters
  DEF ArmCollector, LockWriter, Goto, SendCommand, TakeOutput, SlotLabels, ExecLabels,
      DispatchLabels
<1> QED BY <1>1, <1>2, <1>3, <1>4, <1>5 DEF ExecuteTcl

(* A worker takes the slot only if it is free, and gives it back on every  *)
(* way out of an operation.                                                *)
LEMMA WorkerRefines ==
  ASSUME ~DiskMayFail, TypeOK, SlotInv, RequestInv, OwnInv, Mapped, Mapped',
         NEW c \in Conn, Worker(c)
  PROVE  SchedulerStep
<1> USE DEF artifacts, clients, SlotLabels, ExecLabels, DispatchLabels
<1>c. c \in Thread
  BY DEF Thread
<1>g. ASSUME NEW from, NEW to, Goto(c, from, to), to \in SlotLabels <=> from \in SlotLabels,
             from \notin ExecLabels \union {"release"}, to \notin ExecLabels \union {"release"}
      PROVE  SchedulerStep
  BY <1>c, <1>g, QuietStutters DEF Goto
<1>r. ASSUME NEW from, NEW to, NEW r, ReplyAnd(c, from, to, r),
             to \in SlotLabels <=> from \in SlotLabels,
             from \notin ExecLabels \union {"release"}, to \notin ExecLabels \union {"release"}
      PROVE  SchedulerStep
  BY <1>c, <1>r, QuietStutters DEF ReplyAnd
<1>d. ASSUME NEW from \in {"refuse", "release"}, NEW to, ReleaseSlot(c, from, to),
             to \notin SlotLabels
      PROVE  SchedulerStep
  BY <1>c, <1>d, Drops DEF ReleaseSlot, Step
<1>1. CASE ExecuteTcl(c)
  BY <1>c, <1>1, ExecuteRefines
<1>2. CASE AcquireSlot(c)
  <2>1. CASE inflight = None /\ inflight' = c
             /\ Step(c, "acquire", IF req[c] = "exec" THEN "mark" ELSE "resolve")
             /\ UNCHANGED <<vivado, reader, clients, res, meta, flags, artifacts>>
    <3>1. \A d \in Conn : pc[d] \notin SlotLabels
      BY <2>1 , ThreadsAreDistinct DEF SlotInv
    <3>2. pc[Main] \notin SlotLabels
      <4>1. Alive /\ pc[c] = "acquire"
        BY <2>1 DEF Step
      <4>2. pc[Main] \notin StartLabels
        BY <4>1 DEF SlotInv
      <4> QED BY <4>2 DEF TypeOK, MainLabels, LoopLabels, CrashLabels, StartLabels
    <3>3. PICK to \in {"mark", "resolve"} : Step(c, "acquire", to) /\ dresult' = dresult
      BY <2>1
    <3>4. \A s \in Thread : pc[s] \notin SlotLabels
      BY <3>1, <3>2 DEF Thread
    <3> HIDE DEF SlotLabels, ExecLabels, DispatchLabels
    <3> QED BY <1>c, <3>3, <3>4, Takes
  <2>2. CASE ReplyAnd(c, "acquire", "end", "busy")
    BY <1>r, <2>2
  <2> QED BY <1>2, <2>1, <2>2 DEF AcquireSlot
<1>3. CASE ReadRequest(c) \/ CheckDied(c) \/ Answer(c) \/ HandleStop(c)
  BY <1>g, <1>r, <1>3 DEF ReadRequest, CheckDied, Answer, HandleStop
<1>4. CASE ResolveTool(c) \/ RefuseTool(c) \/ SpawnTool(c)
  BY <1>g, <1>r, <1>d, <1>4 DEF ResolveTool, RefuseTool, SpawnTool
<1>5. CASE SetToolBusy(c) \/ FinishTool(c) \/ PublishMeta(c, "pubtool", "spawn")
  BY <1>c, <1>5, QuietStutters DEF SetToolBusy, FinishTool, PublishMeta
<1>6. CASE PublishMeta(c, "pubfin", "release")
  <2>1. /\ \A s \in Thread : pc'[s] = IF s = c THEN "release" ELSE pc[s]
        /\ pc[c] = "pubfin" /\ UNCHANGED <<dresult, req>>
    BY <1>c, <1>6, StepMoves DEF PublishMeta
  <2>2. req[c] # "exec"
    BY <2>1 DEF RequestInv
  <2>3. \A s \in Thread : PhaseOf(s)' = PhaseOf(s)
    BY <2>1, <2>2 DEF PhaseOf, HasLatched
  <2>4. \A s \in Thread : pc'[s] \in SlotLabels <=> pc[s] \in SlotLabels
    BY <2>1
  <2> QED BY <2>1, <2>3, <2>4, Stutters DEF SchedulerStep
<1>7. CASE FinishOperation(c)
  BY <1>d, <1>7 DEF FinishOperation
<1>8. CASE StoreShutdown(c)
  BY <1>c, <1>8, QuietStutters DEF StoreShutdown
<1> QED BY <1>1, <1>2, <1>3, <1>4, <1>5, <1>6, <1>7, <1>8 DEF Worker, HandleTool

(* The main thread takes part only while it opens the project. *)
LEMMA MainRefines ==
  ASSUME ~DiskMayFail, TypeOK, SlotInv, RequestInv, OwnInv, Mapped, Mapped', MainThread
  PROVE  SchedulerStep
<1> USE DEF artifacts, clients, SlotLabels, ExecLabels, DispatchLabels
<1>m. Main \in Thread
  BY DEF Thread
<1>q. ASSUME NEW from, NEW to, Step(Main, from, to), UNCHANGED <<req, dresult>>,
             from \notin SlotLabels, to \notin SlotLabels
      PROVE  SchedulerStep
  BY <1>m, <1>q, QuietStutters
<1>1. CASE Startup
  <2>1. CASE ExecuteTcl(Main)
    BY <1>m, <2>1, ExecuteRefines
  <2>2. CASE PublishMarker
    <3>1. Step(Main, "pubmarker", "waitprompt") /\ dresult' = Marker /\ req' = req
      BY <2>2 DEF PublishMarker, SaveResult
    <3>2. dresult'.cmd = dresult.cmd
      BY <1>m, <3>1, StepMoves DEF OwnInv, Marker
    <3> QED BY <1>m, <3>1, <3>2, QuietStutters
  <2>3. CASE WaitPrompt
    <3>1. CASE done /\ MainGoto("waitprompt", IF Project THEN "mark" ELSE "setready")
      <4>1. CASE Project
        <5>1. Step(Main, "waitprompt", "mark") /\ dresult' = dresult
          BY <3>1, <4>1 DEF MainGoto
        <5>2. \A s \in Thread : pc[s] \notin SlotLabels
          <6>1. pc[Main] = "waitprompt"
            BY <5>1 DEF Step
          <6> QED BY <6>1 DEF SlotInv, StartLabels, Thread
        <5> HIDE DEF SlotLabels, ExecLabels, DispatchLabels
        <5> QED BY <1>m, <5>1, <5>2, Takes
      <4>2. CASE ~Project
        BY <1>q, <3>1, <4>2 DEF MainGoto
      <4> QED BY <4>1, <4>2
    <3>2. CASE MainGoto("waitprompt", "setcrashed")
      BY <1>q, <3>2 DEF MainGoto
    <3> QED BY <2>3, <3>1, <3>2 DEF WaitPrompt
  <2>4. CASE OpenProjectDone \/ Bind \/ BindFails
    BY <1>q, <2>4 DEF OpenProjectDone, Bind, BindFails, Exit, MainGoto
  <2>5. CASE \/ SetState("setready", "pubready", "idle")
             \/ PublishMeta(Main, "publish", "pubmarker")
             \/ PublishMeta(Main, "pubready", "bind")
    BY <1>q, <2>5 DEF SetState, PublishMeta
  <2> QED BY <1>1, <2>1, <2>2, <2>3, <2>4, <2>5 DEF Startup
<1>2. CASE Serve
  <2>1. CASE PollFlags \/ CheckVivado \/ MainGoto("accept", "poll")
    BY <1>q, <2>1 DEF PollFlags, CheckVivado, MainGoto
  <2>2. ASSUME NEW c \in Conn, pc[c] = "pending", pc[Main] = "accept",
               pc' = [pc EXCEPT ![Main] = "poll", ![c] = "read"], UNCHANGED <<clients, artifacts>>
        PROVE  SchedulerStep
    <3>1. \A s \in Thread : pc'[s] = IF s = c THEN "read" ELSE
                                     IF s = Main THEN "poll" ELSE pc[s]
      BY <2>2, ThreadsAreDistinct DEF TypeOK, Thread
    <3>2. pc[c] = "pending" /\ pc[Main] = "accept" /\ UNCHANGED <<req, dresult>>
      BY <2>2
    <3>3. \A s \in Thread : pc'[s] \in SlotLabels <=> pc[s] \in SlotLabels
      BY <3>1, <3>2
    <3>4. \A s \in Thread : pc[s] \in SlotLabels => pc'[s] = pc[s]
      BY <3>1, <3>2
    <3>5. \A s \in Thread : pc[s] \in SlotLabels => PhaseOf(s)' = PhaseOf(s)
      BY <3>2, <3>4 DEF PhaseOf, HasLatched
    <3> QED BY <3>2, <3>3, <3>5, Stutters DEF SchedulerStep
  <2> QED BY <1>2, <2>1, <2>2 DEF Serve, Accept
<1>3. CASE Shutdown
  BY <1>q, <1>3
  DEF Shutdown, LockWriter, Goto, AskVivadoToExit, EndGrace, SetState, PublishMeta, Exit
<1>4. CASE Crash
  BY <1>q, <1>4 DEF Crash, SetState, PublishMeta, Exit
<1> QED BY <1>1, <1>2, <1>3, <1>4 DEF MainThread

-----------------------------------------------------------------------------
(* The daemon's threads take one slot in turn; a dispatch empties the      *)
(* latch, the slot is kept until the command's own result is latched, and  *)
(* nothing else writes result.json.                                        *)
THEOREM RefinementHolds == ~DiskMayFail => (Spec => ImplementsOneAtATime)
<1> SUFFICES ASSUME ~DiskMayFail
             PROVE  Spec => ImplementsOneAtATime
  OBVIOUS
<1>1. Init => Scheduler!Init
  <2> SUFFICES ASSUME Init
               PROVE  Scheduler!Init
    OBVIOUS
  <2>1. pc[Main] = "publish" /\ inflight = None /\ dresult = Marker
    BY DEF Init, Thread
  <2>2. Holder = None
    BY <2>1 DEF Holder, ExecLabels
  <2>3. Phase = "free"
    BY <2>2 DEF Phase
  <2> QED BY <2>1, <2>2, <2>3 DEF Scheduler!Init, Marker
<1>2. /\ TypeOK /\ SlotInv /\ RequestInv /\ OwnInv
      /\ TypeOK' /\ SlotInv'
      /\ [Next]_vars
      => [Scheduler!Next]_<<Holder, Phase, dresult.cmd>>
  <2> SUFFICES ASSUME TypeOK, SlotInv, RequestInv, OwnInv, TypeOK', SlotInv', [Next]_vars
               PROVE  SchedulerStep
    BY DEF SchedulerStep
  <2>0. Mapped /\ Mapped'
    BY MappingHolds, MappingHoldsNext
  <2>q. ASSUME UNCHANGED <<pc, req, dresult>>
        PROVE  SchedulerStep
    BY <2>0, <2>q, Stutters DEF SchedulerStep, PhaseOf, HasLatched
  <2>1. ASSUME NEW c \in Conn, Worker(c)
        PROVE  SchedulerStep
    BY <2>0, <2>1, WorkerRefines
  <2>2. ASSUME NEW c \in Conn, Connect(c)
        PROVE  SchedulerStep
    <3>1. /\ \A s \in Thread : pc'[s] = IF s = c THEN "pending" ELSE pc[s]
          /\ pc[c] = "none" /\ dresult' = dresult
          /\ \A d \in Conn : d # c => req'[d] = req[d]
      BY <2>2, StepMoves DEF Connect, TypeOK, Thread, artifacts
    <3>2. \A s \in Thread : pc'[s] \in SlotLabels <=> pc[s] \in SlotLabels
      BY <3>1 DEF SlotLabels, ExecLabels
    <3>3. ASSUME NEW s \in Thread, pc[s] \in SlotLabels
          PROVE  PhaseOf(s)' = PhaseOf(s)
      <4>1. s # c
        BY <3>1, <3>3 DEF SlotLabels, ExecLabels
      <4>2. pc[s] # "release" \/ req'[s] = req[s]
        BY <3>1, <4>1
        DEF Thread, TypeOK, MainLabels, StartLabels, LoopLabels, CrashLabels, ExecLabels
      <4> QED BY <3>1, <4>1, <4>2 DEF PhaseOf, HasLatched
    <3> QED BY <2>0, <3>1, <3>2, <3>3, Stutters DEF SchedulerStep
  <2>3. ASSUME NEW c \in Conn, ToolExits(c)
        PROVE  SchedulerStep
    BY <2>0, <2>3, QuietStutters
    DEF ToolExits, Goto, Thread, SlotLabels, ExecLabels, DispatchLabels, clients, artifacts
  <2>4. CASE MainThread
    BY <2>0, <2>4, MainRefines
  <2>5. CASE Reader \/ Vivado \/ Terminate \/ Kill \/ UNCHANGED vars
    BY <2>q, <2>5
    DEF Reader, ReadChunk, Feed, ReaderEof, Vivado, Terminate, Kill, vars, clients, artifacts
  <2> QED BY <2>1, <2>2, <2>3, <2>4, <2>5 DEF Next, Ended
<1>3. Spec => [](SlotInv /\ RequestInv /\ OwnInv)
  BY OwnershipHolds, PTL
<1> QED
  BY <1>1, <1>2, <1>3, TypeCorrect, PTL DEF Spec, ImplementsOneAtATime, Scheduler!Spec

-----------------------------------------------------------------------------
(* The daemon's life. *)
LifeStep == Life!LifeNext \/ UNCHANGED <<LifePhase, LifeWord>>

(* The phases of a daemon that runs, by the label of its main thread.      *)
LEMMA PhaseOfLabel ==
  Alive => /\ pc[Main] = "bind" => LifePhase = "ready"
           /\ sock => LifePhase = ServicePhase
           /\ ~sock /\ pc[Main] = "crashed" => LifePhase = "failed"
           /\ ~sock /\ pc[Main] \notin {"bind", "crashed"} => LifePhase = StartupPhase
BY DEF LifePhase, ServicePhase

(* The same after a step.                                                  *)
LEMMA PhaseOfLabelNext ==
  Alive' => /\ pc'[Main] = "bind" => LifePhase' = "ready"
            /\ sock' => LifePhase' = ServicePhase'
            /\ ~sock' /\ pc'[Main] = "crashed" => LifePhase' = "failed"
            /\ ~sock' /\ pc'[Main] \notin {"bind", "crashed"} => LifePhase' = StartupPhase'
BY DEF LifePhase, ServicePhase

(* What happens beside the main thread is a word of a worker, or nothing.  *)
LEMMA AsideLives ==
  ASSUME TypeOK, SlotInv, StateInv, Aside,
         (Alive /\ sock) \/ UNCHANGED <<meta, dmeta>>
  PROVE  LifeStep
<1>1. Alive' = Alive
  BY DEF Aside, Alive
<1>2. CASE dmeta' = dmeta
  BY <1>1, <1>2 DEF Aside, LifePhase, ServicePhase, StartupPhase, LifeWord, LifeStep
<1>3. CASE dmeta' = meta /\ Alive /\ sock
  <2>1. LifePhase = ServicePhase /\ LifePhase' = ServicePhase
    BY <1>1, <1>3, PhaseOfLabel, PhaseOfLabelNext DEF Aside, ServicePhase
  <2>2. LifeWord' \in {"ready", "crashed", "stopped"}
        /\ (LifeWord' = "stopped" => pc[Main] \in {"pubstopped", "stopped"})
    BY <1>3 DEF StateInv, LifeWord
  <2>3. CASE pc[Main] \in {"leave", "drain", "grace", "setstopped", "pubstopped"}
    <3>1. LifePhase = "draining" /\ LifePhase' = "draining"
      BY <2>1, <2>3 DEF ServicePhase
    <3> QED BY <2>2, <3>1 DEF LifeStep, Life!LifeNext, Life!GoesOn, Life!WorkerWrites, Life!Enter
  <2>4. CASE pc[Main] \in {"stopped", "crashed"}
    <3>1. LifePhase = "ending" /\ LifePhase' = "ending"
      BY <2>1, <2>4 DEF ServicePhase
    <3> QED BY <2>2, <3>1 DEF LifeStep, Life!LifeNext, Life!GoesOn, Life!Overwrites, Life!Enter
  <2>5. CASE pc[Main] \notin {"leave", "drain", "grace", "setstopped", "pubstopped",
                              "stopped", "crashed"}
    <3>1. LifePhase = "ready" /\ LifePhase' = "ready"
      BY <2>1, <2>5 DEF ServicePhase
    <3>2. LifeWord' \in {"ready", "crashed"}
      BY <2>2, <2>5
    <3> QED BY <3>1, <3>2 DEF LifeStep, Life!LifeNext, Life!GoesOn, Life!WorkerWrites, Life!Enter
  <2> QED BY <2>3, <2>4, <2>5
<1> QED BY <1>2, <1>3 DEF Aside

(* An end of the process that nothing has announced.                       *)
LEMMA AbruptEnd ==
  ASSUME Alive, ~Alive', dmeta' = dmeta
  PROVE  LifeStep
<1>1. LifePhase' = "none" /\ LifeWord' = LifeWord
  BY DEF LifePhase, LifeWord
<1>2. LifePhase # "none"
  BY DEF LifePhase, ServicePhase, StartupPhase
<1> QED
  BY <1>1, <1>2
  DEF LifeStep, Life!LifeNext, Life!Ends, Life!EndsAbruptly, Life!Alive, Life!Silently,
      Life!Enter

(* The steps of the startup. *)
LEMMA StartupLives ==
  ASSUME ~DiskMayFail, TypeOK, SlotInv, StateInv, Startup
  PROVE  LifeStep
<1> USE DEF flags, artifacts
<1>m. Main \in Thread
  BY DEF Thread
<1>s. pc[Main] \in StartLabels /\ Alive /\ ~sock
  BY DEF Startup, PublishMeta, PublishMarker, WaitPrompt, ExecuteTcl, OpenProjectDone,
         SetState, Bind, BindFails, Exit, MainGoto, LatchMarker, SetBusy, ArmCollector,
         LockWriter, Goto, SendCommand, TakeOutput, LatchResult, SetIdle, Step,
         StartLabels, ExecLabels, SlotInv
<1>q. ASSUME NEW from, NEW to, Step(Main, from, to), UNCHANGED <<fate, sock, dmeta>>,
             from # "bind", to \notin {"bind", "crashed"}
      PROVE  LifeStep
  <2>1. pc[Main] = from /\ pc'[Main] = to /\ Alive'
    BY <1>m, <1>q, <1>s, StepMoves DEF Alive
  <2>2. LifePhase = StartupPhase /\ LifePhase' = StartupPhase'
    BY <1>q, <1>s, <2>1, PhaseOfLabel, PhaseOfLabelNext DEF StartLabels, ExecLabels
  <2> QED BY <1>q, <2>2 DEF StartupPhase, LifeWord, LifeStep
<1>p. ASSUME NEW from, NEW to, PublishMeta(Main, from, to)
      PROVE  /\ pc[Main] = from /\ pc'[Main] = to /\ Alive' /\ ~sock'
             /\ dmeta'.state = meta.state
  BY <1>m, <1>p, <1>s, StepMoves DEF PublishMeta, SaveMeta, Alive
<1>1. CASE \/ LatchMarker(Main) \/ SetBusy(Main) \/ ArmCollector(Main)
           \/ LockWriter(Main, "writer", "send") \/ SendCommand(Main) \/ TakeOutput(Main)
           \/ LatchResult(Main) \/ SetIdle(Main)
  BY <1>q, <1>1
  DEF LatchMarker, SetBusy, ArmCollector, LockWriter, Goto, SendCommand, TakeOutput,
      LatchResult, SetIdle
<1>2. CASE PublishMarker \/ WaitPrompt \/ OpenProjectDone
           \/ SetState("setready", "pubready", "idle")
  BY <1>q, <1>2 DEF PublishMarker, WaitPrompt, OpenProjectDone, MainGoto, SetState
<1>3. CASE PublishMeta(Main, "publish", "pubmarker")
  <2>1. LifePhase = "published" /\ LifePhase' = "starting" /\ LifeWord' = "starting"
    BY <1>p, <1>s, <1>3, PhaseOfLabel, PhaseOfLabelNext DEF StateInv, StartupPhase, LifeWord
  <2> QED BY <2>1 DEF LifeStep, Life!LifeNext, Life!FirstWord, Life!Enter
<1>4. CASE PublishMeta(Main, "pubbusy", "arm")
  <2>1. Project /\ meta.state = "busy" /\ dmeta.state = "starting"
    BY <1>p, <1>4 DEF StateInv, ExecLabels, BusyLabels
  <2>2. LifePhase = "starting" /\ LifePhase' = "opening" /\ LifeWord' = "ready"
    BY <1>p, <1>s, <1>4, <2>1, PhaseOfLabel, PhaseOfLabelNext DEF StartupPhase, LifeWord
  <2> QED
    BY <2>1, <2>2 DEF LifeStep, Life!LifeNext, Life!GoesOn, Life!OpenProject, Life!Enter
<1>5. CASE PublishMeta(Main, "pubidle", AfterExec(Main))
  <2>1. meta.state \in {"idle", "crashed"} /\ dmeta.state = "busy"
    BY <1>p, <1>5 DEF StateInv
  <2>2. LifePhase = "opening" /\ LifePhase' = "opening" /\ LifeWord' \in {"ready", "crashed"}
    BY <1>p, <1>s, <1>5, <2>1, PhaseOfLabel, PhaseOfLabelNext
    DEF StartupPhase, LifeWord, AfterExec
  <2> QED
    BY <2>2 DEF LifeStep, Life!LifeNext, Life!GoesOn, Life!OpenEnds, Life!Enter
<1>6. CASE PublishMeta(Main, "pubready", "bind")
  <2>1. meta.state = "idle" /\ dmeta.state = IF Project THEN "idle" ELSE "starting"
    BY <1>p, <1>6 DEF StateInv
  <2>2. LifePhase = (IF Project THEN "opening" ELSE "starting") /\ LifePhase' = "ready"
    BY <1>p, <1>s, <1>6, <2>1, PhaseOfLabel, PhaseOfLabelNext DEF StartupPhase
  <2>3. LifeWord' = "ready" /\ (Project => LifeWord = "ready")
    BY <1>p, <1>6, <2>1 DEF LifeWord
  <2> QED
    BY <2>2, <2>3 DEF LifeStep, Life!LifeNext, Life!GoesOn, Life!BecomesReady, Life!Enter
<1>7. CASE Bind
  <2>1. pc[Main] = "bind" /\ pc'[Main] = "poll" /\ Alive' /\ sock' /\ dmeta' = dmeta
    BY <1>m, <1>7, StepMoves DEF Bind, Alive
  <2>2. LifePhase = "ready" /\ LifePhase' = "ready"
    BY <1>s, <2>1, PhaseOfLabel, PhaseOfLabelNext DEF ServicePhase
  <2> QED BY <2>1, <2>2 DEF LifeWord, LifeStep
<1>8. CASE BindFails
  BY <1>s, <1>8, AbruptEnd DEF BindFails, Exit, Alive
<1> QED
  BY <1>1, <1>2, <1>3, <1>4, <1>5, <1>6, <1>7, <1>8 DEF Startup, ExecuteTcl

(* The accept loop, the two ways out of it, and the way out of a startup   *)
(* that failed.                                                            *)
LEMMA ServiceLives ==
  ASSUME ~DiskMayFail, TypeOK, SlotInv, StateInv, Serve \/ Shutdown \/ Crash
  PROVE  LifeStep
<1> USE DEF flags, artifacts
<1>m. Main \in Thread
  BY DEF Thread
<1>a. ASSUME NEW from, NEW to, Step(Main, from, to)
      PROVE  /\ pc[Main] = from /\ pc'[Main] = to /\ Alive
             /\ from \in LoopLabels => sock
  BY <1>m, <1>a, StepMoves DEF SlotInv
<1>q. ASSUME NEW from, NEW to, Step(Main, from, to), UNCHANGED <<fate, sock, dmeta>>, sock,
             from \in {"leave", "drain", "grace", "setstopped", "pubstopped"}
               <=> to \in {"leave", "drain", "grace", "setstopped", "pubstopped"},
             from \notin {"stopped", "crashed"}, to \notin {"stopped", "crashed"}
      PROVE  LifeStep
  <2>1. Alive /\ Alive' /\ LifePhase' = LifePhase
    BY <1>a, <1>q, PhaseOfLabel, PhaseOfLabelNext DEF ServicePhase, Alive
  <2> QED BY <1>q, <2>1 DEF LifeWord, LifeStep
<1>1. CASE Serve
  <2>1. CASE CheckVivado \/ MainGoto("accept", "poll")
    BY <1>a, <1>q, <2>1 DEF CheckVivado, MainGoto, LoopLabels
  <2>2. CASE PollFlags
    <3>1. CASE ~(sigterm \/ shutdown)
      BY <1>a, <1>q, <2>2, <3>1 DEF PollFlags, MainGoto, LoopLabels
    <3>2. CASE sigterm \/ shutdown
      <4>1. Step(Main, "poll", "leave") /\ UNCHANGED <<fate, sock, dmeta>>
        BY <2>2, <3>2 DEF PollFlags, MainGoto
      <4>2. LifePhase = "ready" /\ LifePhase' = "draining" /\ LifeWord' = LifeWord
        BY <1>a, <4>1, PhaseOfLabel, PhaseOfLabelNext
        DEF ServicePhase, LifeWord, Alive, LoopLabels
      <4> QED
        BY <4>2 DEF LifeStep, Life!LifeNext, Life!GoesOn, Life!Drain, Life!Silently, Life!Enter
    <3> QED BY <3>1, <3>2
  <2>3. ASSUME NEW c \in Conn, Alive, pc[Main] = "accept",
               pc' = [pc EXCEPT ![Main] = "poll", ![c] = "read"],
               UNCHANGED <<flags, artifacts>>
        PROVE  LifeStep
    <3>1. pc'[Main] = "poll" /\ sock
      BY <1>m, <2>3, ThreadsAreDistinct DEF TypeOK, Thread, SlotInv, LoopLabels
    <3>2. LifePhase' = LifePhase
      BY <2>3, <3>1, PhaseOfLabel, PhaseOfLabelNext DEF ServicePhase, Alive
    <3> QED BY <2>3, <3>2 DEF LifeWord, LifeStep
  <2> QED BY <1>1, <2>1, <2>2, <2>3 DEF Serve, Accept
<1>2. CASE \/ LockWriter(Main, "leave", "drain") \/ AskVivadoToExit \/ EndGrace
           \/ SetState("setstopped", "pubstopped", "stopped")
  BY <1>a, <1>q, <1>2 DEF LockWriter, Goto, AskVivadoToExit, EndGrace, SetState, LoopLabels
<1>3. CASE PublishMeta(Main, "pubstopped", "stopped")
  <2>1. Step(Main, "pubstopped", "stopped") /\ UNCHANGED <<fate, sock>> /\ dmeta' = meta
    BY <1>3 DEF PublishMeta, SaveMeta
  <2>2. LifePhase = "draining" /\ LifePhase' = "ending"
    BY <1>a, <2>1, PhaseOfLabel, PhaseOfLabelNext DEF ServicePhase, Alive, LoopLabels
  <2>3. LifeWord' \in {"ready", "crashed", "stopped"}
    BY <1>a, <2>1 DEF StateInv, LifeWord, LoopLabels
  <2> QED
    BY <2>2, <2>3
    DEF LifeStep, Life!LifeNext, Life!GoesOn, Life!Stopped, Life!LastWords, Life!Enter
<1>4. CASE SetState("setcrashed", "pubcrashed", "crashed")
  <2>1. Step(Main, "setcrashed", "pubcrashed") /\ UNCHANGED <<fate, sock, dmeta>>
    BY <1>4 DEF SetState
  <2>2. LifePhase' = LifePhase
    BY <1>a, <2>1, PhaseOfLabel, PhaseOfLabelNext DEF ServicePhase, StartupPhase, Alive
  <2> QED BY <2>1, <2>2 DEF LifeWord, LifeStep
<1>5. CASE PublishMeta(Main, "pubcrashed", "crashed")
  <2>1. Step(Main, "pubcrashed", "crashed") /\ UNCHANGED <<fate, sock>> /\ dmeta' = meta
    BY <1>5 DEF PublishMeta, SaveMeta
  <2>2. CASE sock
    <3>1. LifePhase = "ready" /\ LifePhase' = "ending"
      BY <1>a, <2>1, <2>2, PhaseOfLabel, PhaseOfLabelNext DEF ServicePhase, Alive
    <3>2. LifeWord' \in {"ready", "crashed"}
      BY <1>a, <2>1, <2>2 DEF StateInv, LifeWord
    <3> QED
      BY <3>1, <3>2
      DEF LifeStep, Life!LifeNext, Life!GoesOn, Life!VivadoDies, Life!LastWords, Life!Enter
  <2>3. CASE ~sock
    <3>1. meta.state = "crashed" /\ dmeta.state \in {"starting", "idle", "crashed"}
      BY <1>a, <2>1, <2>3 DEF StateInv
    <3>2. LifePhase \in {"starting", "opening"} /\ LifePhase' = "failed" /\ LifeWord' = "crashed"
      BY <1>a, <2>1, <2>3, <3>1, PhaseOfLabel, PhaseOfLabelNext
      DEF StartupPhase, LifeWord, Alive
    <3> QED
      BY <3>2 DEF LifeStep, Life!LifeNext, Life!GoesOn, Life!StartupFails, Life!Enter
  <2> QED BY <2>2, <2>3
<1>6. ASSUME NEW how \in {"stopped", "failed"},
             Exit("stopped", how) \/ Exit("crashed", how)
      PROVE  LifeStep
  BY <1>a, <1>6, AbruptEnd DEF Exit, Alive
<1> QED BY <1>1, <1>2, <1>3, <1>4, <1>5, <1>6 DEF Shutdown, Crash

(* What others see of the daemon, its phase and the state in               *)
(* metadata.json, is the life of a session, whatever Vivado prints and     *)
(* whatever signals come, as long as writes succeed: the workspace's       *)
(* lifecycle is stated, and proved, about the daemon's own steps.          *)
THEOREM LifeHolds == ~DiskMayFail => (Spec => ImplementsSessionLife)
<1> SUFFICES ASSUME ~DiskMayFail
             PROVE  Spec => ImplementsSessionLife
  OBVIOUS
<1>1. Init => Life!LifeInit
  BY DEF Init, Thread, Life!LifeInit, LifePhase, StartupPhase, Alive
<1>2. TypeOK /\ SlotInv /\ StateInv /\ [Next]_vars => [Life!LifeNext]_<<LifePhase, LifeWord>>
  <2> SUFFICES ASSUME TypeOK, SlotInv, StateInv, [Next]_vars
               PROVE  LifeStep
    BY DEF LifeStep
  <2>1. ASSUME NEW c \in Conn, Worker(c)
        PROVE  LifeStep
    BY <2>1, WorkerAside, AsideLives
  <2>2. ASSUME NEW c \in Conn, Connect(c) \/ ToolExits(c)
        PROVE  LifeStep
    BY <2>2, NeighbourAside, AsideLives
  <2>3. CASE Reader \/ Vivado \/ UNCHANGED vars
    BY <2>3, NeighbourAside, AsideLives
  <2>4. CASE MainThread
    BY <2>4, StartupLives, ServiceLives DEF MainThread
  <2>5. CASE Terminate \/ Kill
    <3>1. CASE fate' = "killed"
      BY <2>5, <3>1, AbruptEnd DEF Terminate, Kill, Alive, artifacts
    <3>2. CASE fate' # "killed"
      <4>1. UNCHANGED <<pc, fate, sock, dmeta>>
        BY <2>5, <3>2 DEF Terminate, Kill, artifacts
      <4> QED BY <4>1 DEF LifePhase, ServicePhase, StartupPhase, LifeWord, Alive, LifeStep
    <3> QED BY <3>1, <3>2
  <2> QED BY <2>1, <2>2, <2>3, <2>4, <2>5 DEF Next, Ended
<1>3. Spec => []SlotInv
  BY OwnershipHolds, PTL
<1>4. Spec => []StateInv
  BY StateHolds
<1> QED
  BY <1>1, <1>2, <1>3, <1>4, TypeCorrect, PTL
  DEF Spec, ImplementsSessionLife, Life!LifeSpec, Life!life

=============================================================================
