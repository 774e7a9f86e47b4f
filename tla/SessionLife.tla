----------------------------- MODULE SessionLife -----------------------------
(***************************************************************************)
(* The life of one session as the rest of the world can see it: the phase  *)
(* its daemon is in, and the state that metadata.json gives.  Daemon       *)
(* implements it; Lifecycle puts one session after the other.              *)
(*                                                                         *)
(* "ready" stands for the states idle and busy, which tell the same to the *)
(* health check.  The phase "ready" begins with the write that ends the    *)
(* startup; in "ending" and "failed" the last word is said and the process *)
(* still runs.                                                             *)
(***************************************************************************)
CONSTANTS
  Project,  \* TRUE: the session opens a project before it is ready
  Abrupt    \* TRUE: the daemon may end without publishing its end, and a
            \* worker may overwrite the state that it ends with

ASSUME LifeSwitches == Project \in BOOLEAN /\ Abrupt \in BOOLEAN

VARIABLES
  phase,    \* the phase of the daemon
  said      \* metadata.json: the state

life == <<phase, said>>

LifeTypeOK ==
  /\ phase \in {"none", "entry", "published", "starting", "opening", "failed",
                "ready", "draining", "ending"}
  /\ said \in {"none", "starting", "ready", "stopped", "crashed"}

Alive == phase # "none"
(* The prompt has been reached, and Vivado's death not been noticed. *)
Up == phase \in {"opening", "ready", "draining", "ending"}
(* The sampler thread is started behind the write that ends the startup. *)
Sampling == phase \in {"ready", "draining", "ending"}

-----------------------------------------------------------------------------
(* Plausible bugs of this module's operators, to see that a property       *)
(* notices each of them.                                                   *)

(* The first metadata.json of a session already says idle. *)
StartingAsIdle ==
  /\ phase = "published"
  /\ phase' = "starting"
  /\ said' = "ready"

(* The crash exit does not publish its state. *)
CrashUnpublished ==
  /\ phase = "ready"
  /\ phase' = "ending"
  /\ UNCHANGED said

-----------------------------------------------------------------------------
(* The daemon moves on and says so. *)
Enter(from, to, word) ==
  /\ phase = from
  /\ phase' = to
  /\ said' = word

(* The daemon moves on silently. *)
Silently(from, to) == Enter(from, to, said)

(* publish_self, before anything about this session is written. *)
PublishSelf == Silently("entry", "published")

(* The first write_meta. *)
FirstWord == Enter("published", "starting", "starting")

(* execute_tcl announces open_project like any command: busy, and then     *)
(* idle, or crashed if Vivado died of it.                                  *)
OpenProject == Project /\ Enter("starting", "opening", "ready")
OpenEnds    == \E w \in {"ready", "crashed"} : Enter("opening", "opening", w)

StartupFails == \E p \in {"starting", "opening"} : Enter(p, "failed", "crashed")

BecomesReady ==
  \/ ~Project /\ Enter("starting", "ready", "ready")
  \/ said # "crashed" /\ Enter("opening", "ready", "ready")

(* The workers announce their operations, up to the end of the process. *)
WorkerWrites ==
  \/ \E w \in {"ready", "crashed"} : Enter("ready", "ready", w)
  \/ \E w \in {"ready", "crashed", "stopped"} : Enter("draining", "draining", w)

(* An accepted `dv stop`, or SIGTERM. *)
Drain == Silently("ready", "draining")

(* The state is set in one critical section and written in another; a      *)
(* worker may set it in between, and write it once more afterwards.        *)
LastWords(word) == {word} \union (IF Abrupt THEN {"ready", "crashed"} ELSE {})
VivadoDies == \E w \in LastWords("crashed") : Enter("ready", "ending", w)
Stopped    == \E w \in LastWords("stopped") : Enter("draining", "ending", w)
Overwrites ==
  Abrupt /\ \E w \in {"ready", "stopped", "crashed"} : Enter("ending", "ending", w)

(* The end of the process: fail() in front of the first write_meta (a bad  *)
(* project, no Vivado), the two exits behind a last word, and an end that  *)
(* publishes nothing (a signal, a socket that cannot be bound).            *)
FailsEarly == \E p \in {"entry", "published"} : Silently(p, "none")
Exits      == \E p \in {"failed", "ending"} : Silently(p, "none")
EndsAbruptly == Abrupt /\ Alive /\ Silently(phase, "none")

GoesOn ==
  \/ OpenProject \/ OpenEnds \/ StartupFails \/ BecomesReady
  \/ WorkerWrites \/ Drain \/ VivadoDies \/ Stopped \/ Overwrites
Ends == FailsEarly \/ Exits \/ EndsAbruptly

LifeNext == PublishSelf \/ FirstWord \/ GoesOn \/ Ends

(* A session begins with whatever an earlier one left in metadata.json. *)
LifeInit == phase \in {"entry", "published"}
LifeSpec == LifeInit /\ [][LifeNext]_life

=============================================================================
