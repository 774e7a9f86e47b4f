----------------------------- MODULE Interpreter -----------------------------
(***************************************************************************)
(* The program at the other end of the daemon's PTY: Vivado in "-mode tcl" *)
(* (a REPL that prints a prompt, reads one line, evaluates it and prints   *)
(* the prompt again), with the PTY's two directions.  It is external to    *)
(* the repository; it is modelled from how davit/src/daemon.rs and         *)
(* davit/src/pty.rs use it.                                                *)
(*                                                                         *)
(* A dispatched TCL command is identified with the thread that dispatched  *)
(* it: a worker of the connection c dispatches at most one command, and    *)
(* the main thread dispatches at most the open_project one.                *)
(***************************************************************************)
EXTENDS Naturals, Sequences, FiniteSets

CONSTANTS
  Conn,        \* the client connections of one session
  Main,        \* the daemon's main thread
  None,        \* no thread; on stdin: the daemon's own "exit" line
  MaxOut,      \* bound: pieces of output one command may print
  Lookalike,   \* TRUE: a command may print the very bytes of the prompt
  MayDie       \* TRUE: Vivado may crash, or be made to exit, at any time

ASSUME ThreadsAreDistinct == Main \notin Conn /\ None \notin Conn /\ None # Main
ASSUME MaxOutIsNatural == MaxOut \in Nat
ASSUME InterpreterSwitches == Lookalike \in BOOLEAN /\ MayDie \in BOOLEAN

Thread == Conn \union {Main}
Source == Thread \union {None}

(* What one write of Vivado puts on the PTY: ordinary output, a line that  *)
(* the output filter classifies as an error, or the prompt.                *)
Token == [src : Source, kind : {"out", "err", "prompt"}]

VARIABLES
  interp,    \* "booting", "prompt", "running" or "dead"
  running,   \* the command being evaluated, None when there is none
  printed,   \* pieces of output printed by the running command
  stdin,     \* lines written to the PTY and not yet read by Vivado
  pty        \* tokens Vivado wrote and the daemon has not read yet

vivado == <<interp, running, printed, stdin, pty>>

InterpreterTypeOK ==
  /\ interp \in {"booting", "prompt", "running", "dead"}
  /\ running \in Source
  /\ printed \in 0..MaxOut
  /\ stdin \in Seq(Source)
  /\ pty \in Seq(Token)

InterpreterInit ==
  /\ interp = "booting"
  /\ running = None
  /\ printed = 0
  /\ stdin = <<>>
  /\ pty = <<>>

Emit(src, kind) == pty' = Append(pty, [src |-> src, kind |-> kind])

-----------------------------------------------------------------------------
(* Startup ends with the first prompt. *)
Boot ==
  /\ interp = "booting"
  /\ interp' = "prompt"
  /\ Emit(None, "prompt")
  /\ UNCHANGED <<running, printed, stdin>>

(* At its prompt Vivado reads the next command line. *)
ReadCommand ==
  /\ interp = "prompt"
  /\ stdin # <<>>
  /\ Head(stdin) # None
  /\ interp' = "running"
  /\ running' = Head(stdin)
  /\ stdin' = Tail(stdin)
  /\ UNCHANGED <<printed, pty>>

(* The daemon's "exit" line makes Vivado say goodbye and exit. *)
ReadExit ==
  /\ interp = "prompt"
  /\ stdin # <<>>
  /\ Head(stdin) = None
  /\ interp' = "dead"
  /\ stdin' = <<>>
  /\ Emit(None, "out")
  /\ UNCHANGED <<running, printed>>

PrintOutput(kind) ==
  /\ interp = "running"
  /\ printed < MaxOut
  /\ printed' = printed + 1
  /\ Emit(running, kind)
  /\ UNCHANGED <<interp, running, stdin>>

(* A running command prints; with Lookalike its text may be the prompt's.  *)
WriteOutput ==
  \E kind \in {"out", "err"} \union (IF Lookalike THEN {"prompt"} ELSE {}) :
    PrintOutput(kind)

(* The command is evaluated: Vivado prints the prompt again. *)
Finish ==
  /\ interp = "running"
  /\ interp' = "prompt"
  /\ running' = None
  /\ printed' = 0
  /\ Emit(running, "prompt")
  /\ UNCHANGED stdin

(* Vivado crashes, is killed, or runs a TCL "exit"; unread lines are lost. *)
Die ==
  /\ MayDie
  /\ interp # "dead"
  /\ interp' = "dead"
  /\ running' = None
  /\ printed' = 0
  /\ stdin' = <<>>
  /\ UNCHANGED pty

InterpreterNext ==
  Boot \/ ReadCommand \/ ReadExit \/ WriteOutput \/ Finish \/ Die

=============================================================================
