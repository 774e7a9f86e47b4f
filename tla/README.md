# Verification of the daVit session

daVit runs one Vivado per workspace inside a container. A daemon keeps Vivado's
TCL interpreter on a PTY, serves commands and tools to any number of clients
over a Unix socket, one operation at a time, and leaves its state in plain
files under `<workspace>/.dv/` for everybody who cannot or need not use the
socket. This directory holds TLA+ models of that system, the TLC instances
that check them, and TLAPS proofs that carry every safety property a run checks
over to all values of the constants.

`PROJECT.json` lists, for every definition that models code, the lines it
stands for, and for every run what it checks.

## The system

| component | state it keeps | operations | modelled in |
|---|---|---|---|
| session daemon: scheduler, handlers (`daemon.rs`) | the slot `inflight`, `meta`, `shutdown`, one worker thread per connection | exec, run, stop, ping, refusals | DaemonState, DaemonWorkers, Daemon |
| session daemon: `execute_tcl` and the PTY reader | the collector (`buf`, `done`, `died`) and its condition variable, the latched artifacts | arm, send, wait, latch | DaemonExec |
| session daemon: main thread | socket, SIGTERM flag, how the process ends | startup, project open, accept loop, shutdown, crash exit | Daemon, SessionLife |
| session daemon: tools (`handle_tool`, `stream_pipe`) | a child, two pipes, two threads, the raw log, their share of the client's socket | spawn, copy, join | ToolStream |
| Vivado and the PTY (external, `pty.rs`) | the running command, unread input and output; the tail of the prompt matcher | prompt, read a line, print, die; feed, reset, strip | Interpreter, PromptMatcher |
| client verbs exec, run, stop (`client.rs`) | where in a frame it is, what it has printed, its exit code | send, read frames, time out, leave | Conversation |
| command line (`main.rs`, heads of the verbs in `client.rs`) | none | dispatch | CliArgs |
| `dv logs --follow` (`client.rs`) | its position in the log | snapshot, length, read | LogFollow |
| artifacts (`artifacts.rs`, `util.rs`) | metadata.json, result.json, health.json | atomic replace | DaemonState, SessionLife, Lifecycle |
| host launcher (`scripts/dv`) | the container of a workspace | start, stop --force | Lifecycle |
| client view (`client.rs`) | none; reads the artifacts | effective_state, healthcheck | Lifecycle |
| output filter (`filter.rs`, part of `execute_tcl`) | last decision, open error, echo position | feed a line, finish | OutputFilter |
| health sampler (`procfs.rs`) | two readings of /proc | descendants, sample_tree | ProcTree |
| calendar (`util.rs`, `client.rs`) | none | civil_from_unix, parse_iso_secs, human_duration | Calendar |
| protocol (`protocol.rs`) | none; a frame is a length and a body | write, read, refuse what is too large | ToolStream, Conversation |
| `dv diagnose`, `dv show`, images, scripts | none of their own | | left out, see below |

How they interact: a client connects to the socket, sends one request and
reads frames until the final one. Its worker thread takes the slot under a
mutex, writes the command to the PTY under another, and sleeps on a condition
variable. The reader thread appends what Vivado prints to the collector and
wakes the sleeper when a read ends with the prompt or the PTY closes. Workers
and the main thread publish state by changing `meta` and then writing the file,
under two acquisitions of the lock. While a tool runs, two more threads copy its
pipes to the raw log and to the client's socket, and the worker joins them before
it gives the slot back and writes the exit status. The launcher and clients on the host know
the daemon only by its container, its files and the age of its heartbeat.

What makes it hard: a check and the act that depends on it are often two
critical sections (stop, the crash exit, publishing state); every write error
is dropped by design; completion is recognised in a byte stream that the
command itself writes to; an answer, too, is written in two halves to a socket that
may be full or gone, at times under the lock everybody needs; the process may be killed anywhere and the files it
leaves are read by its successor; the host cannot see the daemon's process.

What makes it correct, in one line each: at most one operation at a time; a
result is the outcome of the command it names, and is latched before anyone is
told that the session is idle; no older result is readable while a command
runs; every request is answered and every operation gives the slot back; the
daemon ends when Vivado does, and on request; every client comes back, with all of
a tool's output before its exit status, and nobody who leaves takes the slot or
the log with him; a session is called ready only
when it is; and what the user sees of the output is what the filter's rules say.

## Modules and the code

* **Interpreter** is Vivado in `-mode tcl` as the daemon relies on it. A
  command is identified with the thread that sent it. What it prints are
  tokens tagged with their command: output, a line that counts as an error, or
  the prompt. The echo of the input is left out here and treated in
  OutputFilter. That the PTY reaches its end of
  file when Vivado dies is assumed only where a property names `PtyFairness`.
* **DaemonState** declares the daemon's variables, one per field of `Shared`,
  the two artifacts, and the labels of the threads. `pc[t]` says which critical
  section, file write or socket write thread `t` does next; `Main` is the main
  thread and each element of `Conn` a connection with its worker.
* **DaemonExec** has the reader and `execute_tcl`, **DaemonWorkers** the
  connection handlers, **Daemon** the main thread, signals, `Next`, and the
  fairness. Each action is one line or block of the code that no other thread
  can see halfway; code under two lock acquisitions is two actions, in the
  order of the code. A file write replaces the file atomically
  (`atomic_write`) and may fail if `DiskMayFail`, in which case, as in the
  code, the error is dropped.
* **DaemonProps** states the daemon's properties, the inductive invariant, and
  the refinement mapping to **OneAtATime**, which says what a one-slot
  scheduler with a result latch promises: take, dispatch (which empties the
  latch), complete (which fills it with the operation's own result), drop. The
  holder is the owner of `inflight`, or the main thread while it opens the
  project without taking the slot; a phase is a set of labels. A second mapping
  reads the phase of **SessionLife** off the main thread's label and, in the startup,
  off what metadata.json says by then.
* **SessionLife** is the life of one session as the rest of the world can see it: the
  phase of its daemon and the state in metadata.json. The daemon implements it.
* **Lifecycle** puts the sessions of one workspace in sequence. Each of them lives
  the life of SessionLife, so what Lifecycle assumes of a daemon is what Daemon
  does; `dv start` and `dv stop --force` take one step per runtime command. What
  outlives a daemon is what it said (`said`), the session that wrote it
  (`author`), and a heartbeat that ages (`fresh`).
  `Reported` is `effective_state`, evaluated on the host (`HostView`), where
  the pid check always fails, and in the container (`ContainerView`).
* **ToolStream** is a tool with its two pipes, a process it may leave behind that
  has them open, and `stream_pipe`: read, log, lock the socket, write the length,
  write the body; a write that fails gives the socket up and the copying goes on.
  Bytes are positions in a pipe, and every two of them a character, so that a
  read may cut one. **Conversation** extends it with the client processes (one
  request each: exec with or without a timeout, run, stop) and the worker that
  serves each of them. A socket holds a bounded number of halves of frames, so a
  write blocks on a client that does not read; answers under the lock of the
  slot (`Busy`) keep that lock until they are written.
* **OutputFilter** feeds a command's output to the echo matching, the sentinel
  test and the filter, line by line. **OutputFilterProps** defines the same
  result over the whole output at once, and compares.
* **ProcTree** puts `sample_tree` beside a process tree that changes under it;
  each read of one /proc entry is a step.
* **Calendar** counts days by the Gregorian rules and compares the two
  conversion functions with the count on every day.
* **PromptMatcher** cuts a stream of bytes into reads in every way and compares
  the matcher's tail with the whole stream, and `strip_prompt` with what came
  before the prompt. **LogFollow** puts the follower beside a log that grows.
  **CliArgs** reads a command line a word at a time, one operator per option
  loop, and compares the operation it comes to with a reading of the whole line by
  positions.
* **MCDaemon**, **MCConversation**, **MCLifecycle**, **MCProcTree** hold what the
  instances need; **MCAlgorithms** is one instance of the five sequential
  modules (OutputFilter, Calendar, PromptMatcher, LogFollow, CliArgs), which share
  nothing and take no step in each other's behaviours.
* The theorems are in modules of their own: **DaemonTypeProofs**, **DaemonProofs**,
  **DaemonResultProofs** and **DaemonRefinementProofs** about the daemon,
  **LifecycleProofs**, **ConversationProofs**, **ProcTreeProofs**, and
  **AlgorithmProofs** about OutputFilter, PromptMatcher, LogFollow, Calendar and
  CliArgs, each with a specification made of its own actions.

Each module that models code ends its declarations with a few *plausible
bugs*, variants of a definition with a dropped guard, a swapped order or an
off-by-one. They are not part of the specification; `PROJECT.json` pairs each
with the property that it must break.

## Runs

Passing runs:

| run | instance | shows |
|---|---|---|
| daemon_serial | 3 connections, every kind of request, a project, Vivado may die | one operation at a time, as OneAtATime promises; a completed command has left the interpreter; results hold their own output; result before idle; the phases and words of SessionLife; one writer of result.json; no prompt is missed; busy answers have no effect; no socket before the project is open; the inductive invariant, with the types |
| daemon_live | 2 connections, exec, stop, tools, SIGTERM and SIGKILL anywhere | provided the terminal takes or refuses what is written to it, a stop, a SIGTERM and, once the PTY closes, Vivado's death end the process; if Vivado also finishes what it reads, every request is answered and gives the slot back |
| conversation | 2 clients of every verb, 2 bytes on one pipe and 1 on the other, a socket that takes 1 half of a frame, heirs, clients that stall, leave or time out | frames are never torn by their three writers; output in order, complete before the exit status; the log, whose writes succeed, complete when the slot is free; nobody is busy with his own finished operation |
| conversation_live | the same with 1 byte on one pipe, writes to the log that may fail, FairSpec | no operation keeps the slot, every client returns, a result is latched for a client that timed out |
| lifecycle_serial | 1 launcher, 4 sessions that open a project, daemons publish their end | ready means that this session's own Vivado is up, health checks pass only for this container's session, a final state is seen |
| lifecycle_live | 2 launchers, 2 sessions without a project, forced stops, abrupt ends, FairSpec | start returns; a death is noticed |
| proc_sample | 4 processes, a hop bound of 3 | a sample lists what is there throughout and nothing foreign, and counts work that was done |
| algorithms | filter: a 3-line wrapper whose middle line may come back changed, up to 3 lines of output, Vivado may die, 3 kinds of elfws.yaml, several commands; calendar: 146 098 days, four times of day; matcher: streams of 6 of 3 bytes, a 3-byte prompt; follower: a log of 8 bytes; command lines of 4 of 25 words | output and errors are those of the definition over the whole output; the echo is taken as far as it comes back unchanged; timestamps are right and invert each other; the prompt is seen wherever reads cut it; the follower misses only what it could not decode; a line means one operation |

### Deviations

Four runs show the code differing from a statement of the repository; each is
a finding in `PROJECT.json` with the quotation:

| run | what happens |
|---|---|
| stop_races_exec | an exec takes the slot after `dv stop` looked at it and before the shutdown flag is stored |
| healthy_before_open | metadata.json goes busy, then idle, while the project is being opened |
| stale_ready | after a kill, the next `dv start` takes the old metadata and heartbeat for its own session |
| stdio_mangled | a character that a read of a tool's pipe cuts reaches the client as replacement characters |

Others are one edit of a passing run away, and TLC finds each:

| edit | what happens |
|---|---|
| daemon_serial with INVARIANT `FinalStateIsKept` | a worker that finishes during the shutdown writes idle over stopped or crashed (`daemon.rs:449`) |
| daemon_serial with INVARIANT `CrashPathOutsideCommands` | the crash exit, commented as "outside a command", is taken while a command owns the slot (`daemon.rs:235`) |
| daemon_serial with `DiskMayFail = TRUE` | the marker cannot be written, and the older result stays readable during the command (`daemon.rs:351`) |
| daemon_serial with `Lookalike = TRUE` | a read that ends with the prompt's bytes, printed by the command, completes it (`daemon.rs:321`) |
| daemon_serial with PROPERTY `EveryPromptCompletes` | the "exit" of a shutdown is typed behind a command that still runs; the prompt and the farewell come in one read, the prompt is not seen, and the command that ended is reported as one in which Vivado died (`daemon.rs:257`, `daemon.rs:321`) |
| daemon_live with PROPERTY `StopAlwaysEnds` | "Graceful shutdown: ask Vivado to exit, wait bounded" (`daemon.rs:253`): Vivado has stopped reading its terminal, the main thread blocks on the write of "exit", or on the lock of a worker that is blocked in its command, and the bounded wait never starts (`daemon.rs:257`) |
| algorithms with INVARIANT `EchoNeverPollutes` | "Consume that echo in send order so it never pollutes command output" (`daemon.rs:400`): a line of the script with `%%` in it comes back with `%` (`daemon.rs:27`), and it and the rest of the echo become output (`daemon.rs:406`) |
| algorithms with INVARIANT `EveryFailureIsReported` | "the sentinel is the only reliable failure signal" (`daemon.rs:362`): after `puts -nonewline` the sentinel is not at the start of its line, and an error that was caught leaves the command a success (`daemon.rs:410`); so does an error message that has the text of an echo line still expected |
| algorithms with INVARIANT `FollowShowsAll` | a read of the follower that begins or ends inside a character prints nothing and is not repeated, of a file `src/README.md:238` calls the "Raw session log" (`client.rs:409`) |
| algorithms with INVARIANT `ArgumentsAreVerbatim` | "Tool argv [...] SHALL be preserved verbatim" (`openspec/specs/vivado-session/spec.md:155`, `daemon.rs:556`): with `--help` or `-h` among the arguments of a tool, or in TCL after `--`, dv prints its own help and runs nothing (`main.rs:78`) |
| conversation with `LogMayFail = TRUE` | a write to the raw log fails, its error is dropped, and `LogIsComplete` does not hold (`daemon.rs:703`) |
| conversation with INVARIANT `ThreeMeansContinues` | `--timeout` expires while the request waits in the backlog of a daemon that shuts down, or behind the slot's lock: the client says that "the daemon runs the command to completion", and it never starts (`client.rs:169`, `main.rs:48`) |
| lifecycle_serial with PROPERTY `ReadyMeansProjectOpen` | what follows from healthy_before_open for the launcher: a start within 30 s of the end of the previous session finds the old heartbeat fresh and returns "ready" while `--project` is still being opened (`scripts/dv:193`) |
| lifecycle_serial with two launchers and PROPERTY `RemovesOnlyStopped` | "Stale stopped container" (`scripts/dv:153`): a start removes by name what it has seen as stopped, and with it the container that a concurrent start has just created (`scripts/dv:154`) |
| lifecycle_serial with INVARIANT `AliveIsReachable` | on the host, a session is reported unreachable during its whole startup (`client.rs:86`) |

Seen while modelling, without a statement of the repository to hold against it:
`--timeout 0` is refused by the socket, the
refusal is ignored, and the client waits for ever (`client.rs:145`); a tool that
cannot be spawned is answered before its slot is released, so a client that asks
again at once may be told busy (`daemon.rs:643`); the name of the process and its
pid are all that `daemon_pid_alive` compares, so a `dv` client in a sidecar may
pass for the daemon (`client.rs:96`).

### Bounds, and why they are enough

A connection makes one request, as in the protocol. Two connections are needed
for any race about the slot; the third adds a party that is neither the owner
nor the one whose next step matters, which the refinement and the ownership
properties need. A command prints at most one piece of output (`MaxOut = 1`)
because the properties only ask whose output it is and whether it is an error;
prompts travel beside it, so reads still return one or several pieces in every
split. In daemon_live it prints nothing, since whether an answer comes does not
depend on content. Four serial sessions, or three with kills, let a session see artifacts
of a predecessor whose own predecessor left some. In conversation one pipe carries a whole
character and the other half of one, so that reads can cut one, and a process that
ends may leave one cut; a socket that takes a single half blocks its writer in
every place it can block; two clients are one that owns the slot and one that is
refused. In conversation_live a single byte on one pipe keeps the graph small: what
a stream carries decides nothing about who waits for whom. In OutputFilter three wrapper
lines are a first, one of the user's script, which may come back changed, and a
last; a line depends on the one that leads it, so three lines give a message, a
continuation and a change. Longer wrappers and outputs are left to the proofs,
which have no bound.
In ProcTree the longest chain has exactly the length of the hop bound.
The
calendar repeats after the 400 years checked. In PromptMatcher the bytes kept (4)
are one more than the prompt and the stream is longer than both, as with 64 bytes
and `Vivado% `. Four words are a verb, an option, its value and one more, or two
options in a row whose values look like options. Connections are symmetric
wherever no liveness is checked. `CHECK_DEADLOCK FALSE` is set where the
bounded supply of containers, days or samples ends the behaviour.

### Fairness

`DaemonFairness` is weak fairness of the reader (but for the end of file), the main
thread and every worker: they are kernel threads, and none of them can be disabled
for ever by another except through the waits that are modelled. `VivadoFairness`,
that Vivado reads what is typed and finishes its commands and that tools exit, is
an antecedent of EveryRequestAnswered: the daemon has no timeout
on commands, so without it no answer can be expected. `PtyFairness`, that the
reader sees the end of file after Vivado's death, is another, and the one of DeathEnds:
a process that Vivado has started may keep the PTY open, and the daemon then takes
Vivado for alive. `StopEnds` needs neither. `TerminalFairness` is an antecedent of
all three. Both the command line of a worker and the "exit" of the shutdown are
written to the PTY in blocking writes under the lock `pty_writer` (labels `send` and
`drain`), and such a write ends when the other side of the terminal takes it or is
closed. `DaemonFairness` leaves out the writes that may block (`MayStall`): a
request, of up to 4 MiB, always, and the line "exit" while earlier input has not been
read. Without `TerminalFairness` not even a stop is sure to end (`StopAlwaysEnds`
under Deviations). Nothing is assumed of clients,
signals or the disk. In Conversation the daemon's threads are fair likewise
(`DaemonFairness`, with the end of a shutdown that StopEnds shows in Daemon), clients
that are not killed go on reading (`ClientFairness`), and commands, tools and what
they leave behind end (`OperationFairness`). The last two are needed: a client that
is stopped with a full socket, or a process that keeps a pipe open, holds the slot
for as long as it likes, and no timeout of the daemon ends that. In Lifecycle the
launchers run, their deadline passes (`date +%s`) and a heartbeat nobody renews
ages; nothing is assumed of the daemon.

## Proofs

Every theorem is for every value of the constants that the assumptions of the
modules allow: any number of connections, clients, launchers, sessions and
processes, output, pipes, logs and streams of any length. Some hold with no
further condition; where one has a condition, TLC refutes the property without
it (see Deviations), or the condition is a bound of the code itself.

| theorem | condition | what it needs |
|---|---|---|
| DaemonTypeProofs `TypeCorrect` | none | |
| DaemonResultProofs `OwnershipHolds`, `SocketMeansProjectOpenHolds`, `BusyHasNoEffectHolds`, `OneResultWriterHolds` | none | SlotInv, RequestInv, OwnInv, UntouchedInv |
| DaemonProofs `OneOperationHolds`, `CompletionIsRealHolds` | `~Lookalike` | CoreInv |
| DaemonProofs `NoStaleResultHolds` | `~Lookalike`, `~DiskMayFail` | CoreInv |
| DaemonResultProofs `ResultIsOwnOutputHolds` | `~Lookalike` | CoreInv, OutputInv |
| DaemonResultProofs `PromptIsNotMissedHolds` | `~Lookalike` | CoreInv, OutputInv, FarewellInv |
| DaemonResultProofs `IdlePublishesResultHolds` | `~DiskMayFail` | RecordInv |
| DaemonResultProofs `InvariantHolds`, `IdleMeansQuietHolds` | `~Lookalike`, `~DiskMayFail` | IInv |
| DaemonRefinementProofs `RefinementHolds` | `~DiskMayFail` | SlotInv, RequestInv, OwnInv |
| DaemonRefinementProofs `LifeHolds` | `~DiskMayFail` | SlotInv, StateInv |
| LifecycleProofs `TypesHold` | none | |
| LifecycleProofs `SerialHolds`, `ReportHolds`, `ReadyMeansReadyHolds` | `Serial` | SerialInv |
| ConversationProofs `ConversationHolds`, `TypesHold`, `FramesAreWholeHolds`, `StdioInOrderHolds`, `AnswerIsLastHolds` | none | ConversationInv |
| ConversationProofs `LogIsCompleteHolds` | `~LogMayFail` | ConversationInv, LogInv |
| ProcTreeProofs `SampleHolds`, `TypesHold`, `WorkHolds` | none | SampleInv |
| ProcTreeProofs `ListHolds`, `LiveHolds`, `TruthHolds` | `WithinReach`, in the state at hand | SampleInv |
| AlgorithmProofs `FollowHolds` | none | FollowInv |
| AlgorithmProofs `FailureHolds` | none | VerdictInv |
| AlgorithmProofs `ShownHolds`, `ErrorsHold` | none | FilterInv |
| AlgorithmProofs `EchoHolds` | none | EchoInv |
| AlgorithmProofs `PromptHolds` | none | TailInv |
| AlgorithmProofs `TimesHold` | none | CalendarInv |
| AlgorithmProofs `LineHolds` | none | LineInv |

* `~Lookalike`: the command does not print the prompt's bytes at the end of a
  read. `~DiskMayFail`: writes to the disk succeed. `Lookalike` is a
  property of a command's output that the daemon cannot check; a write error is
  dropped by the code.
* `Serial == ~Forced /\ ~Abrupt /\ OneLauncher`: one `dv start` at a time, no
  `dv stop --force`, and every daemon writes its last word. Two launchers remove
  each other's container, and an abrupt end leaves the old word standing.
* `WithinReach`: in the tree as it is, no process is deeper below Vivado than
  `descendants` climbs (128 rounds). Only the state in which the list is judged
  matters; earlier ones may have been deeper. `FewNeverGoDeeper`
  adds that it is always so with fewer processes than rounds, as in
  proc_sample. That the list has nothing foreign needs no such bound.
* `~LogMayFail`: writes to the raw log succeed; their errors are dropped too.

### The daemon

None of the properties is inductive: that the interpreter has one command depends
on the owner of the slot not believing that its command is over too early,
hence on where prompts are. `IInv` has, beside the types, these parts.

* `SlotInv`: a worker is in code that the slot protects exactly when it owns the
  slot, and there are no workers before the socket is bound, so the main thread may
  open the project without the slot. `PromptInv`: at most one prompt is under way
  between Vivado and the collector; while one is, no command is dispatched and
  `done` is not set; and none is under way when nobody waits for one, so the
  next command cannot be completed by an old prompt. `CommandInv`: a dispatched
  command is there once, its thread waits, `done` is false, and the marker is in
  result.json if it could be written. The three are `CoreInv`.
* `RequestInv` and `OwnInv`: a worker runs what its client asked for, and the
  result it carries is its own. `RecordInv`: `meta` and metadata.json name the
  command of exactly those workers that have announced it and not yet taken it
  back, and result.json has its result before either forgets it. `StateInv`: what
  memory and metadata.json say at each label of the main thread. Its heart is that
  workers only ever announce idle, busy and crashed, and only once the socket is
  bound, so the startup alone moves from starting over busy to idle.
* `OutputInv`: what lies in the PTY, in the reader's hand and in the collector
  is of the thread that waits, and nothing but Vivado's farewell follows a
  prompt. `FarewellInv`: Vivado says goodbye, and "exit" waits to be read, only once
  the main thread is past the step that types it; with `OutputInv`, a read goes on
  behind a prompt in a shutdown only. `UntouchedInv`: a connection that was refused, or may still be, has left
  no trace anywhere.

The proofs take the actions of the threads one group at a time; `SlotInv`,
`OwnInv` and `UntouchedInv` do not depend on prompts or the disk, which is why the
theorems from them alone have no condition. The refinement needs no prompt
either: a command that is completed too early breaks `CompletionIsReal`, but the
slot still goes from hand to hand as OneAtATime says. Every action maps to one
of its steps or to a stutter, under the mapping of DaemonProps. TLC checks `IInv` in
daemon_serial.

`LifeHolds` is the second refinement, of SessionLife, and joins the daemon to
Lifecycle: whatever the threads do, what can be seen from outside is one of a
few steps from phase to phase. It is about a session whose end is not always
published (`Abrupt`): a signal may end the process at any label, and a worker that
finishes in the shutdown writes its own state over the last word, which is the
deviation `FinalStateIsKept` seen from outside. Lifecycle without `Abrupt`, which
`Serial` asks for, restricts the daemon further, and its theorems are about the
sessions that end as the code means them to.

### Lifecycle

`SerialInv` says what metadata.json holds in each phase of the daemon and who wrote
it, that the container runs as long as its daemon, and what has become of it where
the launcher stands. The heart is `author < born` while a container has been
created and its daemon has not written: a health check there reads
an older session, and `Serial` makes it a final state.

### Conversation

`ConversationInv` relates slot and lock to the place of each worker, threads to
their pipes (`CopyInv`, `PeerInv`, `JoinInv`), what is in a socket to who is in
the middle of a frame (`Framed`), and what has been printed to what has been
written. For the last, `OffsetsInv` has a witness: with each part in the socket
go the positions in the two pipes that the reader will have reached behind it.
The first offsets are what the client has printed, the last ones what the threads
have sent; so an exit frame, which holds the totals, is reached only after all of
the output. No step needs the socket's capacity or fairness, and clients may
stall or leave anywhere.

### ProcTree

`WorkIsReal` is about a sum over processes that start and end under the sampler.
`WorkInv` has as a witness the running sums of the ticks really spent: what the
sampler has added up is at most the sum over the processes it has passed. The
count of live processes is the size of a set that holds all those passed and
still running (`CountInv`). `Descendants` and `Below` are recursive functions: `Iterate`
shows that they exist, and `IntervalInduction` is the induction over them. Both rest
on a least element of a set of naturals (`WFMin`), because the induction
theorems of the library take a predicate, which the provers cannot instantiate.
One attempt failed for a good reason: the types do not hold when `MaxTicks` is
zero, for a running process starts with a tick; the assumption on the
constants is now `TicksArePositive`.

### The algorithms

The bounds on length are constants, so the proofs are about outputs, logs, streams
and days without end. In OutputFilter the invariant says, of the lines fed so far,
what governs the last one (`LastInv`), which are shown (`ShownInv`), and that the
errors with the one under way are entries of the definition, the last line
belonging to it when the filter is in an error (`EntriesInv`). The lemmas say what
one more line changes of the definition over the whole output: nothing before it
(`EarlierGoverning`, `EarlierBegins`), and of the error under way only its end
(`LatestError`). `Lists`, a sequence with given elements in increasing order,
stands where an earlier form had a sorted sequence, about which nothing could be
proved; it says the same. In PromptMatcher `TailInv` says that the tail is
the end of the stream, as long as it may be. In Calendar the day count is an
affine function of year, month and day in the March calendar of `civil_from_unix`;
`YearIsFound` and `MonthIsFound` prove that its divisions invert it,
and `CalendarInductive` that the Gregorian rules of the next day follow it.
In CliArgs the parser knows only the words it has read, while what they mean is said
by their positions: `ExecInv` ties the two for each prefix of the line (the parser
wants a value exactly when the last word is an option in front of any `--`, what it
holds of each option is what its last occurrence gives, the command has as many
words as stand free), and `LineInv` adds the verb. The lemmas say that a word
more changes nothing of what the earlier ones mean.

### Only model-checked

* Liveness and fairness: EveryRequestAnswered and the other temporal properties of
  daemon_live, conversation_live and lifecycle_live. They need ENABLED, which is
  beyond the prover.
* The statements behind Deviations, which are false.

## What is abstracted, and what is not modelled

* A workspace is fresh when the daemon of `Daemon` starts: the `result.json` of an
  earlier session is replaced at the first label that matters to a client of
  this one; files that outlive a session are the subject of Lifecycle.
* `install_sigterm_handler` and `bind` are one step; a signal between them is
  one just before or just after.
* The temporary file and the rename of `atomic_write` are one step. metadata.json is
  written under the lock of `meta`, and `OneResultWriter` shows that result.json
  never has two writers.
* In Daemon `accept` and socket writes succeed; clients that leave or do
  not read, and the pipes of a tool, are the subject of Conversation. There in turn
  Vivado is reduced to a command that ends with a result, the answers `crashed`
  and `pong` are left out, and a `--timeout` expires only where the daemon may take
  longer than seconds (`DaemonIsSlow`): a shutdown, which may take the 15 s of its
  grace period, a wait for the slot's lock, and the command.
* A frame is a length and a body; its JSON, the bytes of the length and the cast
  of the length to `u32` are left out. A socket write may take part of a half: what a
  reader can tell is whether it is complete.
* LogFollow leaves out `--tail`, which only shortens the first print, and which of
  several raw logs is the latest.
* In SessionLife and Lifecycle idle and busy are one state, `ready`, and whether a
  project is opened is the same for all sessions of a behaviour; the sampler renews the
  heartbeat well within the 30 s; the daemon has the same pid in every
  container, as it has with the same image and entrypoint; GUI sessions, JTAG
  and the check that a workspace's label matches are left out.
* The condition variable of the collector is a guard on the two flags: the code
  tests them in a loop, under the mutex they are set under. That the reader notifies
  is not part of the model.
* In Daemon a write to the PTY is two steps: to take `pty_writer`, and to be done
  with the write. How much of it Vivado has read in between is left out; what it has
  read of a command before the last line it does not act on.
* In OutputFilter, elfws.yaml is absent, invalid or valid, and a message is on
  the list or not; truncation at RESULT_CAP is left out. The lines of the wrapper
  differ from each other, and a line of it that comes back changed has the text of no
  other. When Vivado dies its output may end anywhere, but at the end of a line.
* In ProcTree process ids are not reused during a sample. Memory is left out.
* In Calendar a time is split into a day and a second of the day, as both
  functions do; times before 1970 are clamped by the code and not modelled.
* Not modelled: images, entrypoint and scripts (no state), the udev stub, the
  diagnose probes and `dv show` (readers that format; their options are in CliArgs).

## Plan

Built in this order, because the rest depends on what the daemon promises:
Interpreter, DaemonState, DaemonExec, DaemonWorkers, Daemon, DaemonProps with
OneAtATime; then Lifecycle, OutputFilter, ProcTree, Calendar; then ToolStream and
Conversation, and with PromptMatcher, LogFollow and CliArgs the rest of the
sequential code; the proofs about the daemon first, then about the other modules
in the order of the table above. Next:

1. Sessions with and without a project in one behaviour of Lifecycle, and GUI sessions
   among them.
2. Truncation at RESULT_CAP in OutputFilter.
3. `dv diagnose`, beside the process tree of ProcTree.
