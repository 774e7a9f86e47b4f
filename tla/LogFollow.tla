------------------------------ MODULE LogFollow ------------------------------
(***************************************************************************)
(* `dv logs --follow` (davit/src/client.rs: logs) beside a daemon that     *)
(* appends to the raw log.  The log is a number of bytes of two-byte       *)
(* characters; text that begins or ends inside one is not valid UTF-8.     *)
(***************************************************************************)
EXTENDS Integers

CONSTANT MaxLog  \* bound: bytes in the log
ASSUME LogBounds == MaxLog \in Nat

VARIABLES
  size,      \* bytes in the log
  printed,   \* the bytes the follower has printed, or left out for --tail
  pos,       \* its position
  found,     \* the length it has read from the metadata
  step,      \* what it does next: "first", "length", "read"
  lost       \* history: the bytes it passed with a read it could not decode

follow == <<size, printed, pos, found, step, lost>>

FollowInit ==
  size = 0 /\ printed = {} /\ pos = 0 /\ found = 0 /\ step = "first" /\ lost = {}

(* File::read_to_string from an offset to the end: all or nothing. *)
Whole(i) == i % 2 = 0
CanDecode(from) == Whole(from) /\ Whole(size)
Decoded(from) == IF CanDecode(from) THEN (from + 1)..size ELSE {}

(* A plausible bug: the position is where the file ends after the read of  *)
(* the length that was found.                                              *)
ReadFoundLength ==
  /\ step = "read"
  /\ printed' = printed \union (pos + 1)..found
  /\ pos' = size
  /\ step' = "length"
  /\ UNCHANGED <<size, found, lost>>

(* Bytes as they come from the terminal and from pipes, cut anywhere.      *)
LogGrows ==
  /\ size' \in (size + 1)..MaxLog
  /\ UNCHANGED <<printed, pos, found, step, lost>>

(* The snapshot; the position is the length of what could be decoded.      *)
ReadSnapshot ==
  /\ step = "first"
  /\ printed' = Decoded(0)
  /\ pos' = IF CanDecode(0) THEN size ELSE 0
  /\ step' = "length"
  /\ UNCHANGED <<size, found, lost>>

TakeLength ==
  /\ step = "length"
  /\ size > pos
  /\ found' = size
  /\ step' = "read"
  /\ UNCHANGED <<size, printed, pos, lost>>

(* What has been appended since the length was taken is read as well, and  *)
(* again the next time.  A read that begins or ends inside a character     *)
(* prints nothing, and the position moves on.                              *)
ReadAppended ==
  /\ step = "read"
  /\ printed' = printed \union Decoded(pos)
  /\ lost' = IF CanDecode(pos) THEN lost ELSE lost \union (pos + 1)..found
  /\ pos' = found
  /\ step' = "length"
  /\ UNCHANGED <<size, found>>

FollowNext == LogGrows \/ ReadSnapshot \/ TakeLength \/ ReadAppended

-----------------------------------------------------------------------------
(* Whenever the daemon appends and wherever that cuts a character: of what *)
(* the follower has passed, the reads it could not decode are all that is  *)
(* missing from what it printed.  The rest may be there twice.             *)
FollowMissesNothing == 1..pos \ printed \subseteq lost

(* "Raw session log": what the code does not do.  A read that begins or    *)
(* ends inside a character is passed and never printed.                    *)
FollowShowsAll == 1..pos \subseteq printed

=============================================================================
