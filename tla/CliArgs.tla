------------------------------- MODULE CliArgs -------------------------------
(***************************************************************************)
(* The command line of dv (davit/src/main.rs: dispatch; the checks at the  *)
(* head of exec, stop, show, diagnose and run_tool in davit/src/client.rs):*)
(* one pass over the words, which become one operation or a usage error.   *)
(***************************************************************************)
EXTENDS Integers, Sequences, FiniteSets

CONSTANTS
  Words,      \* the words tried
  Numbers,    \* those that are numbers
  Objects,    \* the objects of show
  Probes,     \* the probes of diagnose
  Tools,      \* the tools of run, xsct among them
  MaxWords    \* bound: words of a command line

(* The None of an option that was not given. *)
Unset == "unset"

ASSUME WordSets ==
  /\ Numbers \union Objects \union Probes \union Tools \subseteq Words
  /\ Unset \notin Words /\ MaxWords \in Nat

VARIABLES
  words,    \* std::env::args().skip(1), as far as it has been read
  parsed    \* the local variables of the loop over the options of its verb

reading == <<words, parsed>>

(* What a command line comes to, besides an operation. *)
UsageError == [verb |-> "usage"]
Help == [verb |-> "help"]
Version == [verb |-> "version"]

NoOptions == [want |-> Unset, bad |-> FALSE, timeout |-> Unset, file |-> Unset,
              inline |-> <<>>, raw |-> FALSE, tail |-> Unset, follow |-> FALSE,
              force |-> FALSE, project |-> Unset, workspace |-> Unset]

(* An option that has been read and waits for its value. *)
Waits(p) == p.want # Unset
Wait(p, opt) == [p EXCEPT !.want = opt]
Bad(p) == [p EXCEPT !.bad = TRUE]

-----------------------------------------------------------------------------
(* A plausible bug: options are still options after "--". *)
ExecWordNoDash(p, a) ==
  CASE p.want = "--timeout" -> [p EXCEPT !.want = Unset, !.timeout = a, !.bad = @ \/ a \notin Numbers]
    [] p.want = "--file" -> [p EXCEPT !.want = Unset, !.file = a]
    [] ~Waits(p) /\ a = "--" -> [p EXCEPT !.raw = TRUE]
    [] ~Waits(p) /\ a \in {"--timeout", "--file"} -> Wait(p, a)
    [] OTHER -> [p EXCEPT !.inline = Append(@, a)]

-----------------------------------------------------------------------------
(* The bodies of the loops over the options of each verb. *)
ExecWord(p, a) ==
  CASE p.want = "--timeout" -> [p EXCEPT !.want = Unset, !.timeout = a, !.bad = @ \/ a \notin Numbers]
    [] p.want = "--file" -> [p EXCEPT !.want = Unset, !.file = a]
    [] ~Waits(p) /\ ~p.raw /\ a = "--" -> [p EXCEPT !.raw = TRUE]
    [] ~Waits(p) /\ ~p.raw /\ a \in {"--timeout", "--file"} -> Wait(p, a)
    [] OTHER -> [p EXCEPT !.inline = Append(@, a)]

(* The hidden verb of the container's entrypoint.                          *)
DaemonWord(p, a) ==
  CASE p.want = "--project" -> [p EXCEPT !.want = Unset, !.project = a]
    [] p.want = "--workspace" -> [p EXCEPT !.want = Unset, !.workspace = a]
    [] ~Waits(p) /\ a \in {"--project", "--workspace"} -> Wait(p, a)
    [] OTHER -> Bad(p)

LogsWord(p, a) ==
  CASE Waits(p) -> [p EXCEPT !.want = Unset, !.tail = a, !.bad = @ \/ a \notin Numbers]
    [] ~Waits(p) /\ a = "--tail" -> Wait(p, a)
    [] ~Waits(p) /\ a \in {"--follow", "-f"} -> [p EXCEPT !.follow = TRUE]
    [] OTHER -> Bad(p)

DiagnoseWord(p, a) ==
  CASE Waits(p) -> [p EXCEPT !.want = Unset, !.tail = a, !.bad = @ \/ a \notin Numbers]
    [] ~Waits(p) /\ a = "--tail" -> Wait(p, a)
    [] OTHER -> p

StopWord(p, a) ==
  CASE a = "--force" -> [p EXCEPT !.force = TRUE]
    [] a = "--timeout" \/ a \in Numbers -> p
    [] OTHER -> Bad(p)

OptionWord(verb, p, a) ==
  CASE verb = "exec" -> ExecWord(p, a)
    [] verb = "_daemon" -> DaemonWord(p, a)
    [] verb = "logs" -> LogsWord(p, a)
    [] verb = "diagnose" -> DiagnoseWord(p, a)
    [] verb = "stop" -> StopWord(p, a)
    [] OTHER -> p

(* required, usage_err: a value that is missing or no value ends it all.   *)
Refused(p) == p.bad \/ Waits(p)

Has(rest, a) == \E i \in DOMAIN rest : rest[i] = a

(* What each verb does once its options have been read. *)
Exec(p) ==
  IF Refused(p) \/ (p.file = Unset <=> p.inline = <<>>)
    THEN UsageError
    ELSE [verb |-> "exec", timeout |-> p.timeout, file |-> p.file, inline |-> p.inline]

RunDaemon(p) ==
  IF Refused(p)
    THEN UsageError
    ELSE [verb |-> "_daemon", project |-> p.project, workspace |-> p.workspace]

Logs(p) ==
  IF Refused(p) THEN UsageError ELSE [verb |-> "logs", tail |-> p.tail, follow |-> p.follow]

Diagnose(p, rest) ==
  IF rest = <<>> \/ Refused(p) \/ Head(rest) \notin Probes
    THEN UsageError
    ELSE [verb |-> "diagnose", probe |-> Head(rest), tail |-> p.tail, json |-> Has(rest, "--json")]

(* `stop --force` is refused too: it is for the host launcher. *)
Stop(p) == IF Refused(p) \/ p.force THEN UsageError ELSE [verb |-> "stop"]

Show(rest) ==
  IF rest = <<>> \/ Head(rest) \notin Objects
    THEN UsageError
    ELSE [verb |-> "show", object |-> Head(rest), json |-> Has(rest, "--json")]

Run(rest) ==
  IF rest = <<>> \/ Head(rest) \notin Tools \/ rest = <<"xsct">>
    THEN UsageError
    ELSE [verb |-> "run", tool |-> Head(rest), argv |-> Tail(rest)]

WantsHelp(rest) == Has(rest, "--help") \/ Has(rest, "-h")

Operation(verb, rest) ==
  CASE verb = "exec" -> Exec(parsed)
    [] verb = "_daemon" -> RunDaemon(parsed)
    [] verb = "_healthcheck" -> [verb |-> "_healthcheck"]
    [] verb = "logs" -> Logs(parsed)
    [] verb = "diagnose" -> Diagnose(parsed, rest)
    [] verb = "stop" -> Stop(parsed)
    [] verb = "show" -> Show(rest)
    [] verb = "run" -> Run(rest)
    [] OTHER -> UsageError     \* start, and every unknown verb

(* What the words mean if the line ends with them. *)
Dispatch ==
  IF words = <<>> THEN UsageError
  ELSE IF Head(words) \in {"--help", "-h", "help"} THEN Help
  ELSE IF Head(words) \in {"--version", "-V"} THEN Version
  ELSE IF WantsHelp(Tail(words)) THEN Help
  ELSE Operation(Head(words), Tail(words))

(* The command line is any sequence of words, read one by one: the first   *)
(* is the verb, the others go through its loop.                            *)
LineInit == words = <<>> /\ parsed = NoOptions

ReadWord ==
  /\ Len(words) < MaxWords
  /\ \E a \in Words :
       /\ words' = Append(words, a)
       /\ parsed' = IF words = <<>> THEN parsed ELSE OptionWord(Head(words), parsed, a)

-----------------------------------------------------------------------------
(* The reference reads the line of an exec by positions, the verb being 1. *)
ExecOptions == {"--timeout", "--file"}

(* In a row of words that look like options, and that starts at r, every   *)
(* second one is the value of the one before it; so is what follows.       *)
IsValue(w, i) ==
  \E r \in 2..(i - 1) :
    /\ w[r - 1] \notin ExecOptions /\ \A j \in r..(i - 1) : w[j] \in ExecOptions
    /\ (i - r) % 2 = 1

(* Word i comes after a "--" that is no value. *)
AfterDashes(w, i) == \E d \in 2..(i - 1) : w[d] = "--" /\ ~IsValue(w, d)

IsOption(w, i) == w[i] \in ExecOptions /\ ~IsValue(w, i) /\ ~AfterDashes(w, i)

(* The positions of the TCL given on the line. *)
Free(w) ==
  {i \in 2..Len(w) :
     AfterDashes(w, i) \/ (w[i] \notin ExecOptions \union {"--"} /\ ~IsValue(w, i))}

(* v is the word after the last `opt` that has a word after it, if any. *)
Gives(w, opt, v) ==
  LET at == {i \in 2..(Len(w) - 1) : w[i] = opt /\ IsOption(w, i)}
  IN  \/ at = {} /\ v = Unset
      \/ \E i \in at : v = w[i + 1] /\ \A j \in at : j <= i

(* s has the words at these positions, in their order. *)
TakesInOrder(w, at, s) ==
  /\ Len(s) = Cardinality(at)
  /\ \A i \in at : s[Cardinality({j \in at : j <= i})] = w[i]

MissesValue(w) == Len(w) > 1 /\ IsOption(w, Len(w))
HasBadTimeout(w) ==
  \E i \in 2..(Len(w) - 1) :
    w[i] = "--timeout" /\ IsOption(w, i) /\ w[i + 1] \notin Numbers

ExecMeans(w, meant) ==
  IF MissesValue(w) \/ HasBadTimeout(w) \/ (Gives(w, "--file", Unset) <=> Free(w) = {})
    THEN meant = UsageError
    ELSE /\ meant.verb = "exec"
         /\ Gives(w, "--timeout", meant.timeout) /\ Gives(w, "--file", meant.file)
         /\ TakesInOrder(w, Free(w), meant.inline)

(* "Arguments are parsed as an argv array": an exec with --help or -h      *)
(* anywhere, after "--" too, means help; any other is what its words say   *)
(* by position, each used once, in order, and neither --timeout nor --file *)
(* is an option after "--".  "No wildcard fallback": what reaches or makes *)
(* a session is what the first word names, has neither --help nor -h in    *)
(* any place, and gives a tool every word behind its name.                 *)
LineMeansOneThing ==
  /\ words # <<>> /\ Head(words) = "exec" =>
       IF WantsHelp(words) THEN Dispatch = Help ELSE ExecMeans(words, Dispatch)
  /\ Dispatch.verb \in {"exec", "run", "stop", "_daemon"} =>
       /\ Dispatch.verb = Head(words) /\ ~WantsHelp(words)
       /\ Dispatch.verb = "run" => <<"run", Dispatch.tool>> \o Dispatch.argv = words

(* "Tool argv ... SHALL be preserved verbatim": what the code does not do. *)
(* A --help or -h among a tool's own arguments, or in TCL after "--", asks *)
(* dv for help instead.                                                    *)
ArgumentsAreVerbatim ==
  words # <<>> /\ Head(words) \in {"exec", "run"} /\ Dispatch = Help =>
    \E i \in 2..Len(words) :
      /\ words[i] \in {"--help", "-h"}
      /\ IF Head(words) = "run" THEN i = 2 ELSE ~AfterDashes(words, i)

=============================================================================
