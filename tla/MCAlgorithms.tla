---------------------------- MODULE MCAlgorithms -----------------------------
(***************************************************************************)
(* TLC instance of the sequential algorithms, each beside its reference:   *)
(* the output filter, the calendar, the prompt matcher, the follower of    *)
(* the log, and the command line.  They share nothing; `machine` says      *)
(* which of them a behaviour is of.                                        *)
(***************************************************************************)
EXTENDS OutputFilterProps, Calendar, PromptMatcher, LogFollow, CliArgs

VARIABLE machine

vars == <<machine, filter, calendar, matcher, follow, reading>>

Init ==
  /\ machine \in {"filter", "calendar", "matcher", "follow", "words"}
  /\ FilterInit /\ Epoch /\ MatcherInit /\ FollowInit /\ LineInit
  /\ machine # "filter" => file = "absent"

Next ==
  /\ UNCHANGED machine
  /\ \/ /\ machine = "filter" /\ FilterNext
        /\ UNCHANGED <<calendar, matcher, follow, reading>>
     \/ /\ machine = "calendar" /\ NextDay
        /\ UNCHANGED <<filter, matcher, follow, reading>>
     \/ /\ machine = "matcher" /\ MatcherNext
        /\ UNCHANGED <<filter, calendar, follow, reading>>
     \/ /\ machine = "follow" /\ FollowNext
        /\ UNCHANGED <<filter, calendar, matcher, reading>>
     \/ /\ machine = "words" /\ ReadWord
        /\ UNCHANGED <<filter, calendar, matcher, follow>>

Spec == Init /\ [][Next]_vars

CycleDays == 146097
Boundaries == {0, 59, 3600, 86399}
ShortPrompt == <<"V", "%", " ">>
CommandWords ==
  {"exec", "stop", "show", "logs", "diagnose", "run", "start", "puts", "-h", "--",
   "--timeout", "--file", "--tail", "--json", "--force", "--follow", "-V", "5", "health",
   "xsct", "dtc", "_daemon", "_healthcheck", "--project", "--workspace"}

=============================================================================
