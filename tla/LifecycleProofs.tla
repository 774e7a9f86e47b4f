--------------------------- MODULE LifecycleProofs ---------------------------
(***************************************************************************)
(* Proofs about Lifecycle: the type invariant for every number of          *)
(* launchers, with forced stops and abrupt ends; and, for one launcher     *)
(* without forced stops and abrupt ends, the promises that the run         *)
(* lifecycle_serial checks.                                                *)
(***************************************************************************)
EXTENDS Lifecycle, TLAPS

(* Two launchers may each take the container of the other for a stale one. *)
OneLauncher == \A s, t \in Starts : s = t

(* A forced stop may remove a container that was started since, and an     *)
(* abrupt end publishes nothing: then metadata.json says ready of nobody.  *)
Serial == ~Forced /\ ~Abrupt /\ OneLauncher

(* The container runs as long as its daemon, and it is of the session that *)
(* was created last.                                                       *)
ContainerInv ==
  /\ container.status = "running" => Alive
  /\ container.session = IF container.status = "none" THEN 0 ELSE born
  /\ container.status # "none" => born > 0

(* What metadata.json says in each phase of the daemon; a daemon that has  *)
(* not yet written finds the last word of an earlier one.                  *)
MetaInv ==
  /\ author <= born
  /\ said = "none" <=> author = 0
  /\ phase \in {"none", "entry", "published"} => said \in {"none", "stopped", "crashed"}
  /\ phase \in {"entry", "published"} \/ container.status = "created" => author < born
  /\ phase = "starting" => said = "starting"
  /\ phase = "failed" => said = "crashed"
  /\ phase = "ending" => said \in {"stopped", "crashed"}
  /\ said = "ready" => Up
  /\ phase \in {"starting", "failed"} \/ Up => author = born

(* Where a launcher is tells what has become of the container.             *)
LauncherInv ==
  \A s \in Starts :
    /\ pc[s] = "remove" => ~Alive
    /\ pc[s] = "create" => container.status = "none"
    /\ pc[s] = "run" => container.status = "created" /\ mine[s] = born

SerialInv == ContainerInv /\ MetaInv /\ LauncherInv

-----------------------------------------------------------------------------
(* The type invariant. *)

(* What a daemon does on its way keeps it alive.                           *)
LEMMA LivesOnTyped == LifeTypeOK /\ GoesOn => LifeTypeOK' /\ Alive /\ Alive'
<1> SUFFICES ASSUME LifeTypeOK, GoesOn PROVE LifeTypeOK' /\ Alive /\ Alive'
  OBVIOUS
<1> USE DEF LifeTypeOK, Alive, Enter
<1>1. CASE OpenProject \/ OpenEnds \/ StartupFails \/ BecomesReady
  BY <1>1 DEF OpenProject, OpenEnds, StartupFails, BecomesReady
<1>2. CASE WorkerWrites \/ Drain \/ Overwrites
  BY <1>2 DEF WorkerWrites, Drain, Silently, Overwrites
<1>3. CASE VivadoDies \/ Stopped
  BY <1>3 DEF VivadoDies, Stopped, LastWords
<1> QED
  BY <1>1, <1>2, <1>3 DEF GoesOn

(* Whatever ends a daemon leaves metadata.json as it is.                   *)
LEMMA EndsTyped == LifeTypeOK /\ Ends => Alive /\ phase' = "none" /\ said' = said
  BY DEF Ends, FailsEarly, Exits, EndsAbruptly, Silently, Enter, Alive

(* Every number of launchers, forced stops and abrupt ends: the variables  *)
(* keep their types, and no daemon outlives its container.                 *)
LEMMA TypeInductive == TypeOK /\ [Next]_vars => TypeOK'
<1> SUFFICES ASSUME TypeOK, [Next]_vars PROVE TypeOK'
  OBVIOUS
<1> USE MaxSessionsIsPositive DEF TypeOK, LifeTypeOK, Sessions, Alive, launchers, life
<1>1. ASSUME NEW s \in Starts, Inspect(s) PROVE TypeOK'
  BY <1>1 DEF Inspect
<1>2. ASSUME NEW s \in Starts, Remove(s) PROVE TypeOK'
  BY <1>2 DEF Remove, Gone
<1>3. ASSUME NEW s \in Starts, Create(s) PROVE TypeOK'
  BY <1>3 DEF Create
<1>4. ASSUME NEW s \in Starts, Run(s) PROVE TypeOK'
  BY <1>4 DEF Run
<1>5. ASSUME NEW s \in Starts, Poll(s) PROVE TypeOK'
  BY <1>5 DEF Poll
<1>6. ASSUME NEW s \in Starts, Check(s) PROVE TypeOK'
  BY <1>6 DEF Check
<1>7. ASSUME NEW s \in Starts, DeadlinePasses(s) PROVE TypeOK'
  BY <1>7 DEF DeadlinePasses
<1>8. CASE DaemonSteps
  <2>1. CASE Published
    BY <2>1 DEF Published, PublishSelf, Silently, Enter
  <2>2. CASE Speaks
    BY <2>2 DEF Speaks, FirstWord, Enter
  <2>3. CASE LivesOn
    BY <2>3, LivesOnTyped DEF LivesOn
  <2>4. CASE Dies
    BY <2>4, EndsTyped DEF Dies
  <2> QED
    BY <1>8, <2>1, <2>2, <2>3, <2>4 DEF DaemonSteps
<1>9. CASE Sample \/ HeartbeatAges
  BY <1>9 DEF Sample, HeartbeatAges, Expire
<1>10. CASE ForceInspect
  BY <1>10 DEF ForceInspect
<1>11. CASE ForceTerm
  BY <1>11 DEF ForceTerm, Drain, Silently, Enter
<1>12. CASE ForceKill
  BY <1>12, EndsTyped DEF ForceKill, Ends
<1>13. CASE ForceRemove
  BY <1>13 DEF ForceRemove, Gone
<1>14. CASE UNCHANGED vars
  BY <1>14 DEF vars
<1> QED
  BY <1>1, <1>2, <1>3, <1>4, <1>5, <1>6, <1>7, <1>8, <1>9, <1>10, <1>11, <1>12,
     <1>13, <1>14
  DEF Next, Start, StopForced

(* In every behaviour of the workspace the types hold, and a daemon that   *)
(* runs is in a running container.                                         *)
THEOREM TypesHold == Spec => []TypeOK
<1>1. ASSUME Init PROVE TypeOK
  <2>1. 0 \in Sessions
    BY MaxSessionsIsPositive DEF Sessions
  <2>2. ~Alive
    BY <1>1 DEF Init, Alive
  <2>3. /\ pc \in [Starts -> {"begin", "remove", "create", "run", "poll", "check"}]
        /\ mine \in [Starts -> Sessions]
        /\ late \in [Starts -> BOOLEAN]
        /\ outcome \in [Starts -> {"none", "already", "ready", "failed"}]
    BY <1>1, <2>1 DEF Init
  <2> QED
    BY <1>1, <2>1, <2>2, <2>3 DEF Init, TypeOK, LifeTypeOK
<1> QED
  BY <1>1, TypeInductive, PTL DEF Spec

-----------------------------------------------------------------------------
(* One launcher, no forced stop, no abrupt end. *)

(* The invariant holds in a workspace with no session yet.                 *)
LEMMA SerialInitial == Init => SerialInv
  BY DEF Init, SerialInv, ContainerInv, MetaInv, LauncherInv, Alive, Up

(* The steps of the launcher: it removes what has ended and creates when   *)
(* there is nothing, so a new session follows the last word of the old.    *)
LEMMA LauncherKeeps ==
  ASSUME Serial, TypeOK, SerialInv, NEW s \in Starts, Start(s) \/ DeadlinePasses(s)
  PROVE  SerialInv'
<1> USE DEF Serial, OneLauncher, TypeOK, LifeTypeOK, Sessions, Alive, Up, SerialInv,
            ContainerInv, MetaInv, LauncherInv, launchers, life
<1>1. CASE Inspect(s)
  BY <1>1 DEF Inspect
<1>2. CASE Remove(s)
  BY <1>2 DEF Remove, Gone
<1>3. CASE Create(s)
  BY <1>3 DEF Create
<1>4. CASE Run(s)
  BY <1>4 DEF Run
<1>5. CASE Poll(s) \/ Check(s) \/ DeadlinePasses(s)
  BY <1>5 DEF Poll, Check, DeadlinePasses
<1> QED
  BY <1>1, <1>2, <1>3, <1>4, <1>5 DEF Start

(* The steps of the daemon: whatever it publishes names its own session.   *)
LEMMA DaemonKeeps ==
  ASSUME Serial, TypeOK, SerialInv, DaemonSteps
  PROVE  SerialInv'
<1> USE DEF Serial, OneLauncher, TypeOK, LifeTypeOK, Sessions, Alive, Up, SerialInv,
            ContainerInv, MetaInv, LauncherInv, launchers, life
<1>1. CASE Published
  BY <1>1 DEF Published, PublishSelf, Silently, Enter
<1>2. CASE Speaks
  BY <1>2 DEF Speaks, FirstWord, Enter
<1>3. CASE LivesOn
  <2> USE DEF Enter
  <2>1. CASE OpenProject \/ OpenEnds
    BY <1>3, <2>1 DEF LivesOn, OpenProject, OpenEnds
  <2>2. CASE StartupFails \/ BecomesReady
    BY <1>3, <2>2 DEF LivesOn, StartupFails, BecomesReady
  <2>3. CASE WorkerWrites \/ Drain
    BY <1>3, <2>3 DEF LivesOn, WorkerWrites, Drain, Silently
  <2>4. CASE VivadoDies \/ Stopped
    BY <1>3, <2>4 DEF LivesOn, VivadoDies, Stopped, LastWords
  <2> QED
    BY <1>3, <2>1, <2>2, <2>3, <2>4 DEF LivesOn, GoesOn, Overwrites
<1>4. CASE Dies
  BY <1>4 DEF Dies, Ends, FailsEarly, Exits, EndsAbruptly, Silently, Enter
<1> QED
  BY <1>1, <1>2, <1>3, <1>4 DEF DaemonSteps

(* Every step of one launcher and its daemons keeps the invariant.         *)
LEMMA SerialInductive ==
  ASSUME Serial
  PROVE  TypeOK /\ force = "idle" /\ SerialInv /\ [Next]_vars
           => force' = "idle" /\ SerialInv'
<1> SUFFICES ASSUME TypeOK, force = "idle", SerialInv, [Next]_vars
             PROVE  force' = "idle" /\ SerialInv'
  OBVIOUS
<1>1. force' = "idle"
  BY DEF Serial, Next, Start, Inspect, Remove, Create, Run, Poll, Check, DeadlinePasses,
         DaemonSteps, Published, Speaks, LivesOn, Dies, Sample, HeartbeatAges,
         StopForced, ForceInspect, ForceTerm, ForceKill, ForceRemove, vars
<1>2. CASE Sample \/ HeartbeatAges \/ UNCHANGED vars
  BY <1>2 DEF Sample, HeartbeatAges, vars, SerialInv, ContainerInv, MetaInv, LauncherInv,
              Alive, Up, launchers, life
<1>3. ~StopForced
  BY DEF Serial, StopForced, ForceInspect, ForceTerm, ForceKill, ForceRemove
<1> QED
  BY <1>1, <1>2, <1>3, LauncherKeeps, DaemonKeeps DEF Next

(* What one launcher, the daemon and metadata.json agree on.               *)
THEOREM SerialHolds == Serial => (Spec => []SerialInv)
<1> SUFFICES ASSUME Serial PROVE Spec => []SerialInv
  OBVIOUS
<1> DEFINE Kept == force = "idle" /\ SerialInv
<1>1. Init => Kept
  BY SerialInitial DEF Init
<1>2. TypeOK /\ Kept /\ [Next]_vars => Kept'
  BY SerialInductive
<1>3. Kept => SerialInv
  OBVIOUS
<1> HIDE DEF Kept
<1> QED
  BY <1>1, <1>2, <1>3, TypesHold, PTL DEF Spec

(* The health check of the image passes only for the session that became   *)
(* ready in this container, and a session that ended on its own is seen in *)
(* its final state, although metadata.json and health.json outlive it.     *)
THEOREM ReportHolds == Serial => (Spec => []ReportIsOfThisSession)
<1> SUFFICES ASSUME Serial PROVE Spec => []ReportIsOfThisSession
  OBVIOUS
<1>1. TypeOK /\ SerialInv => ReportIsOfThisSession
  BY DEF TypeOK, Sessions, SerialInv, ContainerInv, MetaInv, ReportIsOfThisSession, Healthy,
         ContainerView, HostView, Reported, Alive, Up
<1> QED
  BY <1>1, TypesHold, SerialHolds, PTL

(* `dv start` reports a ready session only while the daemon of this        *)
(* session runs and has reached its prompt.                                *)
THEOREM ReadyMeansReadyHolds == Serial => (Spec => ReadyMeansReady)
<1> SUFFICES ASSUME Serial PROVE Spec => ReadyMeansReady
  OBVIOUS
<1>1. ASSUME TypeOK, SerialInv, [Next]_vars, NEW s \in Starts, ReportsReady(s)
      PROVE  Up /\ author = container.session
  <2>1. Poll(s) /\ Healthy(HostView)
    BY <1>1
    DEF ReportsReady, Next, Start, Inspect, Remove, Create, Run, Poll, Check,
        DeadlinePasses, DaemonSteps, Published, Speaks, LivesOn, Dies, Sample,
        HeartbeatAges, StopForced, ForceInspect, ForceTerm, ForceKill, ForceRemove, vars,
        launchers, TypeOK
  <2>2. said = "ready"
    BY <2>1 DEF Healthy, HostView, Reported
  <2> QED
    BY <1>1, <2>2 DEF TypeOK, SerialInv, ContainerInv, MetaInv, Up, Alive
<1>2. TypeOK /\ SerialInv /\ [Next]_vars =>
        [\A s \in Starts : ReportsReady(s) => Up /\ author = container.session]_vars
  BY <1>1
<1> QED
  BY <1>2, TypesHold, SerialHolds, PTL DEF Spec, ReadyMeansReady

=============================================================================
