------------------------------ MODULE Lifecycle ------------------------------
(***************************************************************************)
(* Sessions of one workspace, one after the other: the host launcher       *)
(* (scripts/dv: start, stop --force), the session container, the daemon's  *)
(* life seen from outside, the artifacts under .dv/ that outlive it, and   *)
(* the state that clients derive from them (client.rs: effective_state,    *)
(* healthcheck).                                                           *)
(*                                                                         *)
(* Each session lives the life that SessionLife describes.                 *)
(***************************************************************************)
EXTENDS SessionLife, Naturals

CONSTANTS
  Starts,       \* the `dv start` processes of this workspace
  MaxSessions,  \* bound: containers created in one behaviour
  Forced        \* TRUE: someone may run `dv stop --force`

ASSUME MaxSessionsIsPositive == MaxSessions \in Nat \ {0}
ASSUME ForcedIsASwitch == Forced \in BOOLEAN

VARIABLES
  container,  \* the container of this workspace's name: its session and status
  born,       \* containers created so far
  author,     \* the session that has written metadata.json
  fresh,      \* health.json was written less than three sampler periods ago
  cli,        \* .dv/bin/dv has been published
  pc,         \* what each `dv start` does next
  mine,       \* the session each `dv start` created
  late,       \* the readiness deadline of each `dv start` has passed
  outcome,    \* how the last run of each `dv start` ended
  force       \* the phase of `dv stop --force`

launchers == <<pc, mine, late, outcome>>
vars == <<life, container, born, author, fresh, cli, launchers, force>>

Sessions == 0..MaxSessions          \* 0: no session yet

(* Types; and the daemon is the main process of its container: the one     *)
(* runs exactly as long as the other.                                      *)
TypeOK ==
  /\ LifeTypeOK
  /\ container \in [session : Sessions,
                    status : {"none", "created", "running", "exited"}]
  /\ born \in Sessions
  /\ author \in Sessions
  /\ fresh \in BOOLEAN
  /\ cli \in BOOLEAN
  /\ pc \in [Starts -> {"begin", "remove", "create", "run", "poll", "check"}]
  /\ mine \in [Starts -> Sessions]
  /\ late \in [Starts -> BOOLEAN]
  /\ outcome \in [Starts -> {"none", "already", "ready", "failed"}]
  /\ force \in {"idle", "stop", "wait", "remove"}
  /\ Alive <=> container.status = "running"

Init ==
  /\ container = [session |-> 0, status |-> "none"]
  /\ born = 0
  /\ phase = "none"
  /\ said = "none"
  /\ author = 0
  /\ fresh = FALSE
  /\ cli = FALSE
  /\ pc = [s \in Starts |-> "begin"]
  /\ mine = [s \in Starts |-> 0]
  /\ late = [s \in Starts |-> FALSE]
  /\ outcome = [s \in Starts |-> "none"]
  /\ force = "idle"

-----------------------------------------------------------------------------
(* Plausible bugs, to see that a property notices each of them. *)

(* The container outlives its daemon. *)
DiesAlone ==
  /\ Exits
  /\ UNCHANGED <<container, born, author, fresh, cli, launchers, force>>

(* The wait has no deadline. *)
CheckNoDeadline(s) ==
  /\ pc[s] = "check"
  /\ IF container.status # "running"
       THEN /\ pc' = [pc EXCEPT ![s] = "begin"]
            /\ outcome' = [outcome EXCEPT ![s] = "failed"]
       ELSE pc' = [pc EXCEPT ![s] = "poll"] /\ UNCHANGED outcome
  /\ UNCHANGED <<life, container, born, author, fresh, cli, mine, late, force>>

(* A health.json of any age is a heartbeat. *)
NeverExpires == UNCHANGED fresh

-----------------------------------------------------------------------------
(* effective_state: final states are believed, others need a sign of life, *)
(* the daemon's pid (in its own PID namespace only) or the heartbeat.      *)
Reported(pidAlive) ==
  IF said = "none" THEN "unknown"
  ELSE IF said \in {"stopped", "crashed"} THEN said
  ELSE IF pidAlive \/ fresh THEN said
  ELSE "unreachable"

(* On the host and in sidecars the daemon's pid means nothing.  In the     *)
(* session container every daemon has the same pid, and the name "dv".     *)
HostView == Reported(FALSE)
ContainerView == Reported(Alive)

Healthy(view) == view = "ready"

-----------------------------------------------------------------------------
(* `dv start`. *)

(* container_state: what is there decides. *)
Inspect(s) ==
  /\ pc[s] = "begin"
  /\ IF container.status = "running"
       THEN outcome' = [outcome EXCEPT ![s] = "already"] /\ UNCHANGED pc
       ELSE /\ pc' = [pc EXCEPT ![s] =
                        IF container.status = "none" THEN "create" ELSE "remove"]
            /\ outcome' = [outcome EXCEPT ![s] = "none"]
  /\ late' = [late EXCEPT ![s] = FALSE]
  /\ UNCHANGED <<life, container, born, author, fresh, cli, mine, force>>

(* docker rm -f removes whatever has the name by now, running or not. *)
Gone ==
  /\ container' = [session |-> 0, status |-> "none"]
  /\ phase' = "none"
  /\ UNCHANGED said

Remove(s) ==
  /\ pc[s] = "remove"
  /\ Gone
  /\ pc' = [pc EXCEPT ![s] = "create"]
  /\ UNCHANGED <<born, author, fresh, cli, mine, late, outcome, force>>

(* docker run -d creates the container, unless the name is taken, and then *)
(* starts it, unless it was removed in between.                            *)
Create(s) ==
  /\ pc[s] = "create"
  /\ IF container.status = "none"
       THEN /\ born < MaxSessions
            /\ born' = born + 1
            /\ container' = [session |-> born', status |-> "created"]
            /\ mine' = [mine EXCEPT ![s] = born']
            /\ pc' = [pc EXCEPT ![s] = "run"]
            /\ UNCHANGED outcome
       ELSE /\ pc' = [pc EXCEPT ![s] = "begin"]
            /\ outcome' = [outcome EXCEPT ![s] = "failed"]
            /\ UNCHANGED <<born, container, mine>>
  /\ UNCHANGED <<life, author, fresh, cli, late, force>>

Run(s) ==
  /\ pc[s] = "run"
  /\ IF container.session = mine[s]
       THEN /\ container' = [container EXCEPT !.status = "running"]
            /\ phase' = "entry"
            /\ pc' = [pc EXCEPT ![s] = "poll"]
            /\ UNCHANGED outcome
       ELSE /\ pc' = [pc EXCEPT ![s] = "begin"]
            /\ outcome' = [outcome EXCEPT ![s] = "failed"]
            /\ UNCHANGED <<container, phase>>
  /\ UNCHANGED <<said, born, author, fresh, cli, mine, late, force>>

(* The wait for readiness: the published binary's health check, run on the *)
(* host, then the container's state, then the deadline.                    *)
Poll(s) ==
  /\ pc[s] = "poll"
  /\ IF cli /\ Healthy(HostView)
       THEN /\ pc' = [pc EXCEPT ![s] = "begin"]
            /\ outcome' = [outcome EXCEPT ![s] = "ready"]
       ELSE pc' = [pc EXCEPT ![s] = "check"] /\ UNCHANGED outcome
  /\ UNCHANGED <<life, container, born, author, fresh, cli, mine, late, force>>

Check(s) ==
  /\ pc[s] = "check"
  /\ IF container.status # "running" \/ late[s]
       THEN /\ pc' = [pc EXCEPT ![s] = "begin"]
            /\ outcome' = [outcome EXCEPT ![s] = "failed"]
       ELSE pc' = [pc EXCEPT ![s] = "poll"] /\ UNCHANGED outcome
  /\ UNCHANGED <<life, container, born, author, fresh, cli, mine, late, force>>

DeadlinePasses(s) ==
  /\ pc[s] \in {"poll", "check"}
  /\ ~late[s]
  /\ late' = [late EXCEPT ![s] = TRUE]
  /\ UNCHANGED <<life, container, born, author, fresh, cli, pc, mine, outcome, force>>

Start(s) ==
  Inspect(s) \/ Remove(s) \/ Create(s) \/ Run(s) \/ Poll(s) \/ Check(s)

-----------------------------------------------------------------------------
(* The daemon: what it does to metadata.json is its author's, and its      *)
(* container ends with it.                                                 *)
Published ==
  /\ PublishSelf
  /\ cli' = TRUE
  /\ UNCHANGED <<container, born, author, fresh, launchers, force>>

Speaks ==
  /\ FirstWord
  /\ author' = container.session
  /\ UNCHANGED <<container, born, fresh, cli, launchers, force>>

LivesOn ==
  /\ GoesOn
  /\ UNCHANGED <<container, born, author, fresh, cli, launchers, force>>

Dies ==
  /\ Ends
  /\ container' = [container EXCEPT !.status = "exited"]
  /\ UNCHANGED <<born, author, fresh, cli, launchers, force>>

DaemonSteps == Published \/ Speaks \/ LivesOn \/ Dies

(* spawn_health_sampler rewrites health.json until the process ends, more  *)
(* often than the heartbeat ages.                                          *)
Sample ==
  /\ Sampling
  /\ fresh' = TRUE
  /\ UNCHANGED <<life, container, born, author, cli, launchers, force>>

(* heartbeat_fresh: thirty seconds without a sample. *)
Expire == fresh' = FALSE
HeartbeatAges ==
  /\ fresh
  /\ ~Sampling
  /\ Expire
  /\ UNCHANGED <<life, container, born, author, cli, launchers, force>>

-----------------------------------------------------------------------------
(* `dv stop --force`: docker stop (SIGTERM, SIGKILL after 15 s), rm -f. *)
ForceInspect ==
  /\ Forced
  /\ force = "idle"
  /\ container.status # "none"
  /\ force' = "stop"
  /\ UNCHANGED <<life, container, born, author, fresh, cli, launchers>>

(* SIGTERM: a graceful end once the handler is installed, the end before. *)
ForceTerm ==
  /\ force = "stop"
  /\ force' = "wait"
  /\ \/ Drain /\ UNCHANGED container
     \/ /\ phase \in {"entry", "published", "starting", "opening", "failed"}
        /\ Silently(phase, "none")
        /\ container' = [container EXCEPT !.status = "exited"]
     \/ phase \in {"none", "draining", "ending"} /\ UNCHANGED <<life, container>>
  /\ UNCHANGED <<born, author, fresh, cli, launchers>>

(* The 15 s of docker stop are those the daemon gives Vivado to exit. *)
ForceKill ==
  /\ force = "wait"
  /\ force' = "remove"
  /\ \/ ~Alive /\ UNCHANGED <<life, container>>
     \/ EndsAbruptly /\ container' = [container EXCEPT !.status = "exited"]
  /\ UNCHANGED <<born, author, fresh, cli, launchers>>

ForceRemove ==
  /\ force = "remove"
  /\ force' = "idle"
  /\ Gone
  /\ UNCHANGED <<born, author, fresh, cli, launchers>>

StopForced == ForceInspect \/ ForceTerm \/ ForceKill \/ ForceRemove

Next ==
  \/ \E s \in Starts : Start(s) \/ DeadlinePasses(s)
  \/ DaemonSteps \/ Sample \/ HeartbeatAges
  \/ StopForced

Spec == Init /\ [][Next]_vars

(* Launchers run, their clocks advance, and health.json ages; nothing is   *)
(* assumed of the daemon.                                                  *)
Fairness ==
  /\ \A s \in Starts : WF_vars(Start(s)) /\ WF_vars(DeadlinePasses(s))
  /\ WF_vars(HeartbeatAges)

FairSpec == Spec /\ Fairness

-----------------------------------------------------------------------------
ReportsReady(s) == outcome[s] # "ready" /\ outcome'[s] = "ready"

(* `dv start` reports a ready session only when the daemon of this session *)
(* has reached its prompt and still runs, whatever earlier sessions left   *)
(* in .dv/.                                                                *)
ReadyMeansReady ==
  [][\A s \in Starts : ReportsReady(s) => Up /\ author = container.session]_vars

(* What is reported is about this session.  The image's HEALTHCHECK passes *)
(* only for a session whose Vivado came up in this container, never for    *)
(* the metadata of an earlier one; and a session that ended on its own is  *)
(* not seen as live again: until the next daemon writes, all see a final   *)
(* state.                                                                  *)
ReportIsOfThisSession ==
  /\ Alive /\ Healthy(ContainerView) => Up /\ author = container.session
  /\ ~Alive /\ born > 0 /\ author = container.session
       /\ container.status = "exited" => HostView \in {"stopped", "crashed"}

(* `dv start` always returns: readiness, the end of the container or the   *)
(* deadline ends the wait.                                                 *)
StartReturns == \A s \in Starts : pc[s] = "run" ~> pc[s] = "begin"

(* However a session ended, clients stop seeing it as live: a dead daemon  *)
(* is noticed by its heartbeat, unless another daemon runs by then.        *)
DeathIsNoticed ==
  ~Alive ~> (Alive \/ HostView \notin {"starting", "ready"})

(* "Liveness must work across PID namespaces": a daemon that has published *)
(* its metadata and runs is not reported unreachable.                      *)
AliveIsReachable ==
  phase \in {"starting", "opening", "ready"} => HostView # "unreachable"

(* "The headless session SHALL be ready only after Vivado emits its prompt *)
(* and any requested project [...] has opened successfully": `dv start`    *)
(* does not report a session ready that is still opening its project.      *)
ReadyMeansProjectOpen ==
  [][\A s \in Starts : ReportsReady(s) => phase # "opening"]_vars

(* "Stale stopped container": `dv start` never removes one in which a      *)
(* daemon runs.  Two starts of a workspace do: what the first has seen as  *)
(* stopped, the second may have replaced by the time the first removes it. *)
RemovesOnlyStopped ==
  [][\A s \in Starts : pc[s] = "remove" /\ pc'[s] = "create" => ~Alive]_vars

=============================================================================
