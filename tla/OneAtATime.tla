----------------------------- MODULE OneAtATime -----------------------------
(***************************************************************************)
(* What the daemon's scheduler promises: operations take one slot in turn. *)
(* An operation that holds the slot may dispatch a command, which first    *)
(* empties the latch; a dispatched command keeps the slot until its own    *)
(* result is in the latch; and nothing but a dispatch empties or replaces  *)
(* what is latched.                                                        *)
(***************************************************************************)
CONSTANTS Op, Nobody

VARIABLES
  holder,   \* the operation that has the slot, or Nobody
  phase,    \* "free", "held", "dispatched" or "latched"
  latch     \* the operation whose result is latched, or Nobody

Init ==
  /\ holder = Nobody
  /\ phase = "free"
  /\ latch = Nobody

Take(o) ==
  /\ phase = "free"
  /\ holder' = o
  /\ phase' = "held"
  /\ UNCHANGED latch

Dispatch ==
  /\ phase = "held"
  /\ phase' = "dispatched"
  /\ latch' = Nobody
  /\ UNCHANGED holder

Complete ==
  /\ phase = "dispatched"
  /\ phase' = "latched"
  /\ latch' = holder
  /\ UNCHANGED holder

Drop ==
  /\ phase \in {"held", "latched"}
  /\ holder' = Nobody
  /\ phase' = "free"
  /\ UNCHANGED latch

Next == (\E o \in Op : Take(o)) \/ Dispatch \/ Complete \/ Drop

Spec == Init /\ [][Next]_<<holder, phase, latch>>

=============================================================================
