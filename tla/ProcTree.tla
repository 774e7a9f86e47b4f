------------------------------- MODULE ProcTree -------------------------------
(***************************************************************************)
(* The sampling of Vivado's process tree (davit/src/procfs.rs) beside the  *)
(* tree itself. A sample reads /proc one process at a time, twice, while   *)
(* processes start, work, exit and are reaped under it.                    *)
(*                                                                         *)
(* Process 1 is the container's init, which adopts and reaps orphans.      *)
(* Process ids grow and are not reused during a sample.                    *)
(***************************************************************************)
EXTENDS Integers, FiniteSets

CONSTANTS
  MaxPid,    \* bound: the processes there can be
  Root,      \* Vivado
  Hops,      \* the 128 of descendants()
  MaxTicks   \* bound: clock ticks a process works

ASSUME PidBound == MaxPid \in Nat
ASSUME RootIsPid == Root \in 2..MaxPid
ASSUME HopsAreNat == Hops \in Nat \ {0}
ASSUME TicksArePositive == MaxTicks \in Nat \ {0}

VARIABLES
  status,   \* [Pids -> "none", "running", "zombie", "gone"]
  parent,   \* [Pids -> the parent; 0 for init and before the start]
  ticks,    \* [Pids -> the CPU time used]
  phase,    \* where sample_tree is, see Phases
  at,       \* the process it looks at
  ppids,    \* ppid_map, a function on the processes read
  before,   \* a function on the processes of the first look
  delta, live,
  kin,      \* history: Root and the processes born below it
  elder,    \* history: the processes that were there when the scan began
  spent     \* history: ticks all of kin used since the sample began

tree == <<status, parent, ticks>>
sample == <<phase, at, ppids, before, delta, live>>
vars == <<tree, sample, kin, elder, spent>>

Pids == 1..MaxPid
Entries == {p \in Pids : status[p] \in {"running", "zombie"}}
Phases == {"scan1", "before", "scan2", "state", "ticks", "done"}
NoMap == [p \in {} |-> 0]
Fresh == {p \in Pids : status[p] = "none"}

TypeOK ==
  /\ status \in [Pids -> {"none", "running", "zombie", "gone"}]
  /\ parent \in [Pids -> 0..MaxPid]
  /\ ticks \in [Pids -> 0..MaxTicks]
  /\ phase \in Phases
  /\ at \in 1..(MaxPid + 1)
  /\ DOMAIN ppids \subseteq Pids /\ \A p \in DOMAIN ppids : ppids[p] \in 0..MaxPid
  /\ DOMAIN before \subseteq Pids /\ \A p \in DOMAIN before : before[p] \in 0..MaxTicks
  /\ delta \in Nat /\ live \in Nat /\ spent \in Nat
  /\ kin \subseteq Pids /\ elder \subseteq Pids

(* The tree as it is now: Root and the processes below it.                 *)
Below ==
  {p \in Entries :
     LET up[n \in 0..MaxPid] ==
           IF n = 0 THEN p ELSE IF up[n - 1] = 0 THEN 0 ELSE parent[up[n - 1]]
     IN  \E n \in 0..MaxPid : up[n] = Root}

(* Any tree may be there when the sample begins, with some CPU time used.  *)
Init ==
  /\ \E n \in Root..MaxPid :
       /\ status = [p \in Pids |-> IF p <= n THEN "running" ELSE "none"]
       /\ parent \in [Pids -> 0..MaxPid]
       /\ \A p \in Pids : IF p \in 2..n THEN parent[p] \in 1..(p - 1) ELSE parent[p] = 0
       /\ ticks = [p \in Pids |-> IF p <= n THEN 1 ELSE 0]
  /\ phase = "scan1" /\ at = 1 /\ ppids = NoMap /\ before = NoMap
  /\ delta = 0 /\ live = 0 /\ spent = 0
  /\ kin = Below
  /\ elder = Entries

-----------------------------------------------------------------------------
(* Plausible bugs, to see that a property notices each of them. *)

ReachedOneShort(map, p) ==
  LET after[n \in 0..Hops] ==
        IF n = 0 THEN p
        ELSE IF after[n - 1] \in DOMAIN map /\ map[after[n - 1]] # 0
               THEN map[after[n - 1]] ELSE after[n - 1]
  IN  {after[n] : n \in 0..(Hops - 2)}

SinceStart(p) == IF p \in DOMAIN before THEN ticks[p] ELSE 0
SinceUnsaturated(p) ==
  IF p \in DOMAIN before
    THEN (IF p \in Entries THEN ticks[p] ELSE 0) - before[p]
    ELSE 0

-----------------------------------------------------------------------------
(* The processes. *)

Fork(p) ==
  /\ status[p] = "running" /\ Fresh # {}
  /\ LET c == CHOOSE q \in Fresh : \A r \in Fresh : q <= r
     IN  /\ status' = [status EXCEPT ![c] = "running"]
         /\ parent' = [parent EXCEPT ![c] = p]
         /\ kin' = IF p \in kin THEN kin \union {c} ELSE kin
  /\ UNCHANGED <<ticks, elder, spent, sample>>

Work(p) ==
  /\ status[p] = "running" /\ ticks[p] < MaxTicks
  /\ ticks' = [ticks EXCEPT ![p] = @ + 1]
  /\ spent' = IF p \in kin THEN spent + 1 ELSE spent
  /\ UNCHANGED <<status, parent, kin, elder, sample>>

(* The kernel gives the children of an exiting process to init. *)
Orphaned(p) == [c \in Pids |-> IF parent[c] = p THEN 1 ELSE parent[c]]

Exit(p) ==
  /\ p # 1 /\ status[p] = "running"
  /\ status' = [status EXCEPT ![p] = "zombie"]
  /\ parent' = Orphaned(p)
  /\ UNCHANGED <<ticks, kin, elder, spent, sample>>

Reap(p) ==
  /\ status[p] = "zombie"
  /\ status' = [status EXCEPT ![p] = "gone"]
  /\ UNCHANGED <<parent, ticks, kin, elder, spent, sample>>

-----------------------------------------------------------------------------
(* descendants() *)

(* stat_field(pid, Ppid): an entry that is gone is skipped. *)
Readable(p) == p \in Entries

(* One round of the while loop, from p. *)
Climb(map, p) ==
  IF p \in DOMAIN map /\ map[p] \notin {0, p} THEN map[p] ELSE p

Reached(map, p) ==
  LET after[n \in 0..Hops] == IF n = 0 THEN p ELSE Climb(map, after[n - 1])
  IN  {after[n] : n \in 0..(Hops - 1)}

Descendants(map) == {p \in DOMAIN map : Root \in Reached(map, p)}

Scan ==
  /\ phase \in {"scan1", "scan2"} /\ at <= MaxPid
  /\ at' = at + 1
  /\ ppids' = IF Readable(at)
                THEN [p \in DOMAIN ppids \union {at} |-> IF p = at THEN parent[at] ELSE ppids[p]]
                ELSE ppids
  /\ UNCHANGED <<tree, phase, before, delta, live, kin, elder, spent>>

EndScan ==
  /\ phase \in {"scan1", "scan2"} /\ at > MaxPid
  /\ phase' = IF phase = "scan1" THEN "before" ELSE "state"
  /\ at' = 1
  /\ UNCHANGED <<tree, ppids, before, delta, live, kin, elder, spent>>

-----------------------------------------------------------------------------
(* sample_tree() *)

(* cpu_ticks: 0 for a process that is gone. *)
CpuTicks(p) == IF p \in Entries THEN ticks[p] ELSE 0

(* Between two readings of one process: saturating, and nothing for a      *)
(* process the first look did not see.                                     *)
Since(p) ==
  IF p \in DOMAIN before /\ CpuTicks(p) > before[p] THEN CpuTicks(p) - before[p] ELSE 0

(* proc_state is neither 'Z' nor '?'. *)
Counts(p) == status[p] = "running"

Before ==
  /\ phase = "before" /\ at <= MaxPid
  /\ at' = at + 1
  /\ before' = IF at \in Descendants(ppids)
                 THEN [p \in DOMAIN before \union {at} |->
                         IF p = at THEN CpuTicks(at) ELSE before[p]]
                 ELSE before
  /\ UNCHANGED <<tree, phase, ppids, delta, live, kin, elder, spent>>

(* The second look begins after a sleep. *)
ScanAgain ==
  /\ phase = "before" /\ at > MaxPid
  /\ phase' = "scan2" /\ at' = 1 /\ ppids' = NoMap
  /\ elder' = Entries
  /\ UNCHANGED <<tree, before, delta, live, kin, spent>>

(* The state is read first and the CPU time after it.                      *)
ReadState ==
  /\ phase = "state" /\ at <= MaxPid
  /\ IF at \in Descendants(ppids) /\ Counts(at)
       THEN live' = live + 1 /\ phase' = "ticks" /\ UNCHANGED at
       ELSE at' = at + 1 /\ UNCHANGED <<live, phase>>
  /\ UNCHANGED <<tree, ppids, before, delta, kin, elder, spent>>

ReadTicks ==
  /\ phase = "ticks"
  /\ delta' = delta + Since(at)
  /\ phase' = "state" /\ at' = at + 1
  /\ UNCHANGED <<tree, ppids, before, live, kin, elder, spent>>

Publish ==
  /\ phase = "state" /\ at > MaxPid
  /\ phase' = "done"
  /\ UNCHANGED <<tree, at, ppids, before, delta, live, kin, elder, spent>>

Sampler == Scan \/ EndScan \/ Before \/ ScanAgain \/ ReadState \/ ReadTicks \/ Publish

Next == Sampler \/ \E p \in Pids : Fork(p) \/ Work(p) \/ Exit(p) \/ Reap(p)

Spec == Init /\ [][Next]_vars

-----------------------------------------------------------------------------
(* "All live PIDs whose ancestry includes root": a process that was there  *)
(* before the scan and is still below Root after it is in the list,        *)
(* whatever started or exited in between, and nothing is ever listed but   *)
(* Root and processes that were born below it.                             *)
ListIsOfTheTree ==
  /\ phase \in {"before", "state"} /\ at = 1 =>
       Below \intersect elder \subseteq Descendants(ppids)
  /\ Descendants(ppids) \subseteq kin

(* The CPU time of a sample is time that Root's processes used during it,  *)
(* although the two readings of a process are taken at different times and *)
(* the second one may find the process gone.                               *)
WorkIsReal ==
  delta <= spent

(* The live count of a published sample counts every process that has been *)
(* below Root and running since before the second look.                    *)
LiveAreCounted ==
  phase = "done" =>
    live >= Cardinality({p \in Below \intersect elder : status[p] = "running"})

(* A sample tells the truth about the tree: its list, and its live count.  *)
SampleIsOfTheTree == ListIsOfTheTree /\ LiveAreCounted

=============================================================================
