--------------------------- MODULE OutputFilterProps ---------------------------
(***************************************************************************)
(* What the filter promises, stated over the whole list of lines: which    *)
(* message governs a line, whether the line is shown, and which lines make *)
(* up one error.                                                           *)
(***************************************************************************)
EXTENDS OutputFilter, SequencesExt

(* The lines that are neither taken for the echo nor a sentinel. *)
Text == {i \in DOMAIN fed \ skipped : fed[i].class # "sentinel"}

(* A line that stands for itself: a message, or ordinary output at the     *)
(* margin.                                                                 *)
Leads(line) ==
  \/ line.class \in {"error", "info", "listed", "unlisted", "anonymous"}
  \/ line.class = "plain" /\ ~line.indented

(* The class of the line whose fate line i shares: the last leading line   *)
(* up to i; ordinary output when there is none.                            *)
Governing(i) ==
  LET leaders == {j \in Text : j <= i /\ Leads(fed[j])}
  IN  IF leaders = {} THEN "plain" ELSE fed[Max(leaders)].class

Shown(i) ==
  \/ Governing(i) \in {"plain", "error"}
  \/ Governing(i) = "unlisted" /\ file = "valid"

(* Line i begins an error: it is one, and does not continue another.       *)
BeginsError(i) ==
  /\ Governing(i) = "error"
  /\ \/ ~fed[i].indented /\ fed[i].class # "resolution"
     \/ ~\E j \in Text : j < i /\ Governing(j) = "error"
                              /\ \A k \in Text : k < i => k <= j

(* The lines of the error that begins at i: those up to the next line that *)
(* is not part of it.                                                      *)
ErrorAt(i) ==
  {j \in Text : j >= i /\ \A k \in Text : i < k /\ k <= j =>
     Governing(k) = "error" /\ ~BeginsError(k)}

(* The elements of S in order, each of them once. *)
Lists(seq, S) ==
  /\ \A i, j \in DOMAIN seq : i < j => seq[i] < seq[j]
  /\ Range(seq) = S

-----------------------------------------------------------------------------
(* "INFO: suppressed with continuations ... ERROR retained", warnings by   *)
(* the workspace's list: of the lines not taken for the echo, the output   *)
(* is exactly the shown ones, in order.                                    *)
OutputIsWhatIsShown ==
  Lists(output, {i \in Text : Shown(i)})

(* Errors are "surfaced": every error message is in exactly one entry of   *)
(* errors, with its continuation lines and no others, in order.            *)
ErrorsAreComplete ==
  closed =>
    /\ Lists([k \in DOMAIN errors |-> errors[k][1]], {i \in Text : BeginsError(i)})
    /\ \A k \in DOMAIN errors : Lists(errors[k], ErrorAt(errors[k][1]))

(* had_errors, and with it the exit status of `dv exec`, is set exactly    *)
(* when Vivado died, or a line not taken for the echo is an error message  *)
(* or begins with the sentinel.                                            *)
FailureIsReported ==
  closed =>
    (errors # <<>> \/ tcl # <<>>
       <=> died \/ \E i \in DOMAIN fed \ skipped : fed[i].class \in {"error", "sentinel"})

(* The echo is consumed in send order up to the first line of it that      *)
(* comes back changed, and from there on all of it is output.  A line of   *)
(* the command's own is mistaken for echo only after such a line, and only *)
(* if its text is that line's or a later one's of the wrapper.             *)
EchoIsTaken ==
  /\ \A i \in DOMAIN fed : ~fed[i].own =>
       (i \in skipped <=> \A j \in 1..i : fed[j].same = j)
  /\ \A i \in skipped : fed[i].own =>
       \E j \in 1..EchoLines : j <= fed[i].same /\ fed[j].same # j

-----------------------------------------------------------------------------
(* What the repository says of the echo and of errors, and the code does   *)
(* not do.                                                                 *)

(* "Consume that echo in send order so it never pollutes command output":  *)
(* not after a line with a %% in it.                                       *)
EchoNeverPollutes ==
  \A k \in DOMAIN output : fed[output[k]].own

(* "the sentinel is the only reliable failure signal": an error the        *)
(* interpreter caught, and a message of class ERROR, make the command      *)
(* fail.  Not when the command left a line unfinished before the sentinel, *)
(* nor when its message has the text of an echo line still expected.       *)
EveryFailureIsReported ==
  closed =>
    ((\E i \in DOMAIN fed : fed[i].own /\ (fed[i].class = "error" \/ fed[i].caught))
       => errors # <<>> \/ tcl # <<>>)

=============================================================================
