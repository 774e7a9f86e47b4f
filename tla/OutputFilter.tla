----------------------------- MODULE OutputFilter -----------------------------
(***************************************************************************)
(* What a client is shown of a command's output: execute_tcl drops the     *)
(* REPL's echo of the wrapped command, takes out the lines of the error    *)
(* sentinel, and feeds the others to the stateful filter of                *)
(* davit/src/filter.rs.                                                    *)
(*                                                                         *)
(* A line is reduced to what the code looks at: its message class, its     *)
(* indentation, and which line of the wrapped command it is equal to.      *)
(* Lines are identified by their positions.                                *)
(***************************************************************************)
EXTENDS Naturals, Sequences, FiniteSets

CONSTANTS
  EchoLines,  \* lines of the wrapped command
  MaxLines    \* bound: lines the command itself prints

ASSUME LineBounds == EchoLines \in Nat \ {0} /\ MaxLines \in Nat

VARIABLES
  file,      \* elfws.yaml in the workspace: "absent", "invalid", "valid"
  fed,       \* the lines of the command's raw output seen so far
  echoed,    \* echo_idx
  last,      \* Filter.last: "retain", "suppress", "error"
  output,    \* Filter.output
  errors,    \* Filter.errors
  current,   \* Filter.current_error; <<>> is None
  tcl,       \* tcl_errors, and 0 for the error of Vivado's death
  died,      \* Vivado exited during the command
  closed,    \* the command is over, finish() has been called
  skipped    \* history: the lines taken for the echo

filter == <<file, fed, echoed, last, output, errors, current, tcl, died, closed, skipped>>

Files == {"absent", "invalid", "valid"}
Classes == {"error", "info", "listed", "unlisted", "anonymous", "resolution",
            "plain", "sentinel"}

(* same: the line of the wrapper with the same text, 0 if there is none;   *)
(* own: printed by the command, not the REPL's echo; caught: the wrapper's *)
(* `puts` of a caught error printed on this line.                          *)
Printed(class, indented, same, caught) ==
  [class |-> class, indented |-> indented, same |-> same, own |-> TRUE, caught |-> caught]
Echo(same) ==
  [class |-> "plain", indented |-> FALSE, same |-> same, own |-> FALSE, caught |-> FALSE]

(* Any line may have the text of a line of the user's script; the first    *)
(* and the last line of the wrapper are ordinary text.  The wrapper puts   *)
(* no newline before the sentinel: after output that ends within a line    *)
(* it stands at that line's end, and the line is ordinary text.            *)
OwnLines ==
  {Printed(c, i, 0, FALSE) : c \in Classes \ {"sentinel"}, i \in BOOLEAN}
    \union {Printed(c, FALSE, s, FALSE) : c \in Classes \ {"sentinel"}, s \in 2..(EchoLines - 1)}
    \union {Printed("plain", FALSE, s, FALSE) : s \in {1, EchoLines}}
    \union {Printed(c, FALSE, 0, TRUE) : c \in {"sentinel", "plain"}}

FilterInit ==
  /\ file \in Files
  /\ fed = <<>>
  /\ echoed = 0
  /\ last = "retain"
  /\ output = <<>>
  /\ errors = <<>>
  /\ current = <<>>
  /\ tcl = <<>>
  /\ died = FALSE
  /\ closed = FALSE
  /\ skipped = {}

-----------------------------------------------------------------------------
(* Plausible bugs, to see that a property notices each of them. *)

ClassifyForgets(line) ==
  CASE line.class = "error" -> "error"
    [] line.class \in {"info", "listed", "anonymous"} -> "suppress"
    [] line.class = "unlisted" -> IF file = "valid" THEN "retain" ELSE "suppress"
    [] OTHER -> "retain"

NoFlush(errs, cur) == errs

MatchesAnyEcho(line) == line.same > echoed

FinishForgetsDeath ==
  /\ ~closed
  /\ closed' = TRUE
  /\ died' \in BOOLEAN
  /\ errors' = IF current = <<>> THEN errors ELSE Append(errors, current)
  /\ current' = <<>>
  /\ UNCHANGED <<file, fed, echoed, last, output, tcl, skipped>>

-----------------------------------------------------------------------------
(* load_policy: a file that does not parse counts as none. *)
ByList(f) == f = "valid"

IsContinuation(line) == line.indented \/ line.class = "resolution"

Classify(line) ==
  CASE line.class = "error" -> "error"
    [] line.class \in {"info", "listed", "anonymous"} -> "suppress"
    [] line.class = "unlisted" -> IF ByList(file) THEN "retain" ELSE "suppress"
    [] OTHER -> IF IsContinuation(line) THEN last ELSE "retain"

(* The error being collected, if any, is complete. *)
Flush(errs, cur) == IF cur = <<>> THEN errs ELSE Append(errs, cur)

(* Filter::feed_line, for the line at position n. *)
FeedLine(line, n) ==
  LET decision == Classify(line)
      joins == current # <<>> /\ last = "error" /\ IsContinuation(line)
  IN  /\ last' = decision
      /\ output' = IF decision = "suppress" THEN output ELSE Append(output, n)
      /\ IF decision # "error"
           THEN UNCHANGED <<errors, current>>
           ELSE IF joins
             THEN current' = Append(current, n) /\ UNCHANGED errors
             ELSE errors' = Flush(errors, current) /\ current' = <<n>>

(* The next line of the echo that execute_tcl still expects. *)
IsExpectedEcho(line) == echoed < EchoLines /\ line.same = echoed + 1

(* The loop body of execute_tcl. *)
TakeLine(line) ==
  /\ ~closed
  /\ fed' = Append(fed, line)
  /\ \/ /\ IsExpectedEcho(line)
        /\ echoed' = echoed + 1
        /\ skipped' = skipped \union {Len(fed')}
        /\ UNCHANGED <<last, output, errors, current, tcl>>
     \/ /\ ~IsExpectedEcho(line) /\ line.class = "sentinel"
        /\ tcl' = Append(tcl, Len(fed'))
        /\ UNCHANGED <<echoed, last, output, errors, current, skipped>>
     \/ /\ ~IsExpectedEcho(line) /\ line.class # "sentinel"
        /\ FeedLine(line, Len(fed'))
        /\ UNCHANGED <<echoed, tcl, skipped>>
  /\ UNCHANGED <<file, died, closed>>

(* The REPL echoes the wrapper's lines in order, and then the command is   *)
(* evaluated and prints.  A line of the user's script comes back changed   *)
(* when it has a %% in it (TCL_ERROR_SENTINEL's comment); the first and    *)
(* the last line have none.                                                *)
EchoLine ==
  /\ Len(fed) < EchoLines
  /\ \E same \in {0, Len(fed) + 1} :
       /\ same = 0 => Len(fed) + 1 \in 2..(EchoLines - 1)
       /\ TakeLine(Echo(same))

PrintedLine ==
  /\ Len(fed) \in EchoLines..(EchoLines + MaxLines - 1)
  /\ \E line \in OwnLines : TakeLine(line)

(* Filter::finish, and the errors that execute_tcl adds.  Vivado may have  *)
(* died wherever the output ends.                                          *)
Finish ==
  /\ ~closed
  /\ closed' = TRUE
  /\ died' \in BOOLEAN
  /\ errors' = Flush(errors, current)
  /\ current' = <<>>
  /\ tcl' = IF died' THEN Append(tcl, 0) ELSE tcl
  /\ UNCHANGED <<file, fed, echoed, last, output, skipped>>

(* The next command has a filter of its own and reloads the policy. *)
NextCommand ==
  /\ closed
  /\ file' \in Files
  /\ fed' = <<>> /\ echoed' = 0 /\ last' = "retain" /\ closed' = FALSE
  /\ output' = <<>> /\ errors' = <<>> /\ current' = <<>> /\ tcl' = <<>>
  /\ died' = FALSE /\ skipped' = {}

FilterNext == EchoLine \/ PrintedLine \/ Finish \/ NextCommand

=============================================================================
