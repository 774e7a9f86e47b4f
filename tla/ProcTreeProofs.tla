---------------------------- MODULE ProcTreeProofs ----------------------------
(***************************************************************************)
(* What holds of a sample of any process tree, however many processes      *)
(* there are and however they fork, work and exit under the sampler.       *)
(*                                                                         *)
(* Two of the functions of ProcTree are recursive: the climb of            *)
(* descendants() and the ancestors of Below.  Iterate shows that such a    *)
(* function exists, and IntervalInduction is the induction over its        *)
(* arguments; both rest on the least element of a set of naturals, which   *)
(* the library states for sets (WFMin) and not for a predicate.            *)
(***************************************************************************)
EXTENDS ProcTree, FiniteSetTheorems, WellFoundedInduction, TLAPS

PidsAndNone == 0..MaxPid

(* The ancestors of p, in the tree as it is.                               *)
Line(p, u) ==
  /\ u \in [0..MaxPid -> PidsAndNone]
  /\ u[0] = p
  /\ \A n \in 1..MaxPid : u[n] = IF u[n - 1] = 0 THEN 0 ELSE parent[u[n - 1]]

(* Root is found at the n-th generation above p.                           *)
Generation(p, n) == \E u \in [0..MaxPid -> PidsAndNone] : Line(p, u) /\ u[n] = Root

(* The climb gives up after Hops rounds: in the tree as it is, nothing is  *)
(* further below Root than that.                                           *)
WithinReach == \A p \in Below : \E n \in 0..MaxPid : n < Hops /\ Generation(p, n)

(* So it is, in any case, with fewer processes than rounds.                *)
Few == MaxPid - Root < Hops

(* The sampler reads the times of a process, and ends after the last one.  *)
PlaceInv ==
  /\ phase = "ticks" => at \in Pids
  /\ phase = "done" => at = MaxPid + 1

(* A process has its parent's entry to itself: an exiting parent hands its *)
(* children to init in the same step.                                      *)
TreeInv ==
  /\ status[1] = "running" /\ parent[1] = 0
  /\ status[Root] # "none"
  /\ \A p \in Pids :
       /\ parent[p] # 0 => status[parent[p]] = "running" /\ parent[p] < p
       /\ status[p] = "none" => parent[p] = 0
       /\ status[p] = "none" => \A q \in Pids : q > p => status[q] = "none"

KinInv ==
  /\ Root \in kin /\ 1 \notin kin
  /\ \A p \in Pids : /\ p \in kin => status[p] # "none"
                     /\ parent[p] \in kin => p \in kin

(* What the map says of the processes it has, and of those that were there *)
(* when the scan began.                                                    *)
Scanned(p) == phase \in {"scan1", "scan2"} => p < at

MapInv ==
  /\ \A p \in DOMAIN ppids :
       /\ status[p] # "none"
       /\ ppids[p] # 0 => status[ppids[p]] # "none"
       /\ ppids[p] \in kin => p \in kin
  /\ \A p \in elder :
       /\ status[p] # "none"
       /\ p \in Entries /\ parent[p] \notin {0, 1} => parent[p] \in elder
       /\ p \in Entries /\ Scanned(p) =>
            /\ p \in DOMAIN ppids
            /\ parent[p] \notin {0, 1} => ppids[p] = parent[p]

(* The ticks that Root's processes have used, added up process by process: *)
(* what the sampler has added up so far is at most that of the processes   *)
(* it has passed.                                                          *)
Accounts(sum) ==
  /\ sum[0] = 0 /\ sum[MaxPid] = spent
  /\ \A p \in Pids : sum[p - 1] <= sum[p]
  /\ \A i \in 0..MaxPid : sum[i] <= spent
  /\ \A p \in DOMAIN before \intersect Entries : ticks[p] - before[p] <= sum[p] - sum[p - 1]
  /\ delta <= sum[at - 1]

WorkInv ==
  /\ phase \in {"scan1", "before", "scan2"} => delta = 0
  /\ \A p \in DOMAIN before : p \in kin /\ status[p] # "none"
  /\ \E sum \in [0..MaxPid -> Nat] : Accounts(sum)

(* The count is the size of a set that holds every process of the list the *)
(* sampler has passed and that still runs.                                 *)
Passed(p) == p < at \/ (p = at /\ phase = "ticks")

CountInv ==
  /\ phase \in {"scan1", "before", "scan2"} => live = 0
  /\ phase \in {"state", "ticks", "done"} =>
       \E counted \in SUBSET Pids :
          /\ Cardinality(counted) = live
          /\ \A p \in counted : Passed(p)
          /\ \A p \in Descendants(ppids) : Passed(p) /\ status[p] = "running" => p \in counted

SampleInv == TypeOK /\ PlaceInv /\ TreeInv /\ KinInv /\ MapInv /\ WorkInv /\ CountInv

-----------------------------------------------------------------------------
(* Induction and recursion over an interval. *)

(* A set of naturals that is not empty has a least element.                *)
LEMMA LeastElement ==
  ASSUME NEW T \in SUBSET Nat, T # {}
  PROVE  \E x \in T : \A y \in T : x <= y
<1>1. PICK R : R = {ss \in Nat \X Nat : ss[1] < ss[2]}
  OBVIOUS
<1>2. IsWellFoundedOn(R, Nat)
  BY <1>1, NatLessThanWellFounded DEF OpToRel
<1>3. PICK x \in T : \A y \in T : <<y, x>> \notin R
  <2>1. T \subseteq Nat
    OBVIOUS
  <2> QED
    BY ONLY <1>2, <2>1, T # {}, WFMin
<1>4. ASSUME NEW y \in T PROVE x <= y
  <2>1. x \in Nat /\ y \in Nat
    OBVIOUS
  <2>2. y < x => <<y, x>> \in R
    BY <1>1, <2>1
  <2> QED
    BY <1>3, <2>1, <2>2
<1> QED
  BY <1>3, <1>4

(* What holds of 0, and of a number when it holds of the one before, holds *)
(* up to N.                                                                *)
LEMMA IntervalInduction ==
  ASSUME NEW N \in Nat, NEW S, 0 \in S, \A n \in 1..N : n - 1 \in S => n \in S
  PROVE  0..N \subseteq S
<1> SUFFICES ASSUME ~(0..N \subseteq S) PROVE FALSE
  OBVIOUS
<1>1. PICK T : T = {n \in 0..N : n \notin S}
  OBVIOUS
<1>2. T \in SUBSET Nat /\ T # {}
  BY <1>1
<1>3. PICK x \in T : \A y \in T : x <= y
  BY <1>2, LeastElement
<1>4. x \in 1..N /\ x \notin S /\ x - 1 \in 0..N
  BY <1>1, <1>3
<1>5. x - 1 \in S
  BY <1>1, <1>3, <1>4
<1> QED
  BY <1>4, <1>5

(* The value at n is g of the value at n - 1.                              *)
Iterates(f, N, V, p, g) ==
  f \in [0..N -> V] /\ f[0] = p /\ \A n \in 1..N : f[n] = g[f[n - 1]]

(* Such a function exists.                                                 *)
LEMMA Iterate ==
  ASSUME NEW N \in Nat, NEW V, NEW p \in V, NEW g \in [V -> V]
  PROVE  \E f : Iterates(f, N, V, p, g)
<1>1. PICK S : S = {m \in 0..N : \E f \in [0..m -> V] :
                                   f[0] = p /\ \A n \in 1..m : f[n] = g[f[n - 1]]}
  OBVIOUS
<1>2. 0 \in S
  <2>1. PICK f : f = [n \in 0..0 |-> p]
    OBVIOUS
  <2>2. f \in [0..0 -> V] /\ f[0] = p /\ \A n \in 1..0 : f[n] = g[f[n - 1]]
    BY <2>1
  <2> QED
    BY <1>1, <2>2
<1>3. ASSUME NEW m \in 1..N, m - 1 \in S PROVE m \in S
  <2>1. PICK f \in [0..(m - 1) -> V] :
          f[0] = p /\ \A n \in 1..(m - 1) : f[n] = g[f[n - 1]]
    BY <1>1, <1>3
  <2>2. PICK h : h = [n \in 0..m |-> IF n = m THEN g[f[m - 1]] ELSE f[n]]
    OBVIOUS
  <2>3. h \in [0..m -> V] /\ h[0] = p
    BY <2>1, <2>2
  <2>4. ASSUME NEW n \in 1..m PROVE h[n] = g[h[n - 1]]
    <3>1. CASE n = m
      BY <3>1, <2>2
    <3>2. CASE n # m
      <4>1. n \in 1..(m - 1) /\ h[n] = f[n] /\ h[n - 1] = f[n - 1]
        BY <3>2, <2>2
      <4> QED
        BY <4>1, <2>1
    <3> QED
      BY <3>1, <3>2
  <2> QED
    BY <1>1, <2>3, <2>4
<1>4. 0..N \subseteq S
  BY <1>2, <1>3, IntervalInduction
<1>5. N \in S
  BY <1>4
<1> QED
  BY <1>1, <1>5 DEF Iterates

-----------------------------------------------------------------------------
(* The two climbs. *)

(* What descendants() visits from p are the values of a function that      *)
(* climbs one step of the map at a time.                                   *)
LEMMA ReachedIs ==
  ASSUME TypeOK, NEW p \in Pids
  PROVE  \E f \in [0..Hops -> PidsAndNone] :
           /\ f[0] = p
           /\ \A n \in 1..Hops : f[n] = Climb(ppids, f[n - 1])
           /\ \A q : q \in Reached(ppids, p) <=> \E n \in 0..(Hops - 1) : f[n] = q
<1>h. Hops \in Nat /\ Hops # 0
  BY HopsAreNat
<1>0. /\ p \in PidsAndNone /\ DOMAIN ppids \subseteq Pids
      /\ \A q \in DOMAIN ppids : ppids[q] \in PidsAndNone
  BY PidBound DEF TypeOK, Pids, PidsAndNone
<1>1. PICK g : g = [q \in PidsAndNone |-> Climb(ppids, q)]
  OBVIOUS
<1>2. g \in [PidsAndNone -> PidsAndNone]
  BY <1>0, <1>1 DEF Climb
<1>3. PICK f : Iterates(f, Hops, PidsAndNone, p, g)
  BY <1>0, <1>2, <1>h, Iterate
<1>4. f = [n \in 0..Hops |-> IF n = 0 THEN p ELSE Climb(ppids, f[n - 1])]
  <2>1. \A n \in 1..Hops : n - 1 \in 0..Hops /\ f[n - 1] \in PidsAndNone
    BY <1>3, <1>h DEF Iterates
  <2>2. \A n \in 0..Hops : f[n] = IF n = 0 THEN p ELSE Climb(ppids, f[n - 1])
    BY <1>1, <1>3, <1>h, <2>1 DEF Iterates
  <2> QED
    BY <1>3, <2>2 DEF Iterates
<1> DEFINE a == CHOOSE a : a = [n \in 0..Hops |-> IF n = 0 THEN p ELSE Climb(ppids, a[n - 1])]
<1>5. a = [n \in 0..Hops |-> IF n = 0 THEN p ELSE Climb(ppids, a[n - 1])]
  BY <1>4
<1>6. Reached(ppids, p) = {a[n] : n \in 0..(Hops - 1)}
  BY DEF Reached
<1> HIDE DEF a
<1>7. \A n \in 0..Hops : a[n] \in PidsAndNone
  <2>1. PICK S : S = {n \in 0..Hops : a[n] \in PidsAndNone}
    OBVIOUS
  <2>2. 0 \in S
    BY <2>1, <1>0, <1>5, <1>h
  <2>3. ASSUME NEW n \in 1..Hops, n - 1 \in S PROVE n \in S
    <3>1. a[n] = Climb(ppids, a[n - 1]) /\ a[n - 1] \in PidsAndNone
      BY <2>3, <2>1, <1>5, <1>h
    <3> QED
      BY <1>0, <3>1, <2>1 DEF Climb
  <2>4. 0..Hops \subseteq S
    BY <2>2, <2>3, <1>h, IntervalInduction
  <2> QED
    BY <2>1, <2>4
<1>8. a \in [0..Hops -> PidsAndNone]
  BY <1>5, <1>7
<1>9. a[0] = p /\ \A n \in 1..Hops : a[n] = Climb(ppids, a[n - 1])
  BY <1>5, <1>h
<1> QED
  BY <1>6, <1>8, <1>9

(* Below is the processes that have Root among their ancestors.            *)
LEMMA BelowIs ==
  ASSUME TypeOK, NEW p \in Entries
  PROVE  \E u : Line(p, u) /\ (p \in Below <=> \E n \in 0..MaxPid : u[n] = Root)
<1>h. MaxPid \in Nat /\ p \in PidsAndNone /\ p \in Pids
  BY PidBound DEF Entries, Pids, PidsAndNone
<1>0. \A q \in PidsAndNone : q # 0 => parent[q] \in PidsAndNone
  BY <1>h DEF TypeOK, Pids, PidsAndNone
<1>1. PICK g : g = [q \in PidsAndNone |-> IF q = 0 THEN 0 ELSE parent[q]]
  OBVIOUS
<1>2. g \in [PidsAndNone -> PidsAndNone]
  <2>1. 0 \in PidsAndNone
    BY <1>h DEF PidsAndNone
  <2> QED
    BY <1>0, <1>1, <2>1
<1>3. PICK f : Iterates(f, MaxPid, PidsAndNone, p, g)
  BY <1>2, <1>h, Iterate
<1>4. f = [n \in 0..MaxPid |->
             IF n = 0 THEN p ELSE IF f[n - 1] = 0 THEN 0 ELSE parent[f[n - 1]]]
  <2>1. \A n \in 1..MaxPid : n - 1 \in 0..MaxPid /\ f[n - 1] \in PidsAndNone
    BY <1>3, <1>h DEF Iterates
  <2>2. \A n \in 0..MaxPid :
          f[n] = IF n = 0 THEN p ELSE IF f[n - 1] = 0 THEN 0 ELSE parent[f[n - 1]]
    BY <1>1, <1>3, <1>h, <2>1 DEF Iterates
  <2> QED
    BY <1>3, <2>2 DEF Iterates
<1> DEFINE a == CHOOSE a : a = [n \in 0..MaxPid |->
             IF n = 0 THEN p ELSE IF a[n - 1] = 0 THEN 0 ELSE parent[a[n - 1]]]
<1>5. a = [n \in 0..MaxPid |->
             IF n = 0 THEN p ELSE IF a[n - 1] = 0 THEN 0 ELSE parent[a[n - 1]]]
  BY <1>4
<1>6. p \in Below <=> \E n \in 0..MaxPid : a[n] = Root
  BY DEF Below
<1> HIDE DEF a
<1>7. \A n \in 0..MaxPid : a[n] \in PidsAndNone
  <2>1. PICK S : S = {n \in 0..MaxPid : a[n] \in PidsAndNone}
    OBVIOUS
  <2>2. 0 \in S
    BY <2>1, <1>5, <1>h
  <2>3. ASSUME NEW n \in 1..MaxPid, n - 1 \in S PROVE n \in S
    <3>1. /\ a[n] = IF a[n - 1] = 0 THEN 0 ELSE parent[a[n - 1]]
          /\ a[n - 1] \in PidsAndNone
      BY <2>3, <2>1, <1>5, <1>h
    <3>2. a[n] \in PidsAndNone
      BY <3>1, <1>0, <1>h DEF PidsAndNone
    <3> QED
      BY <3>2, <2>1, <1>h
  <2>4. 0..MaxPid \subseteq S
    BY <2>2, <2>3, <1>h, IntervalInduction
  <2> QED
    BY <2>1, <2>4
<1>8. a[0] = p /\ \A n \in 1..MaxPid : a[n] = IF a[n - 1] = 0 THEN 0 ELSE parent[a[n - 1]]
  BY <1>5, <1>h
<1>9. Line(p, a)
  BY <1>5, <1>7, <1>8 DEF Line
<1> QED
  BY <1>6, <1>9

(* Nothing is listed but Root and processes that were born below it.       *)
LEMMA ListedAreKin ==
  ASSUME TypeOK, KinInv, MapInv
  PROVE  Descendants(ppids) \subseteq kin
<1> SUFFICES ASSUME NEW p \in DOMAIN ppids, Root \in Reached(ppids, p) PROVE p \in kin
  BY DEF Descendants
<1>1. /\ MaxPid \in Nat /\ Hops \in Nat /\ p \in PidsAndNone /\ p \in Pids
      /\ DOMAIN ppids \subseteq Pids /\ \A q \in DOMAIN ppids : ppids[q] \in PidsAndNone
  BY PidBound, HopsAreNat DEF TypeOK, Pids, PidsAndNone
<1>2. PICK f \in [0..Hops -> PidsAndNone] :
        /\ f[0] = p
        /\ \A n \in 1..Hops : f[n] = Climb(ppids, f[n - 1])
        /\ \A q : q \in Reached(ppids, p) <=> \E n \in 0..(Hops - 1) : f[n] = q
  BY <1>1, ReachedIs
<1>3. PICK S : S = {n \in 0..Hops : f[n] \in kin => p \in kin}
  OBVIOUS
<1>4. 0 \in S
  BY <1>1, <1>2, <1>3
<1>5. ASSUME NEW n \in 1..Hops, n - 1 \in S PROVE n \in S
  <2>1. f[n] \in kin => f[n - 1] \in kin
    BY <1>2, <1>1 DEF Climb, MapInv
  <2> QED
    BY <2>1, <1>1, <1>3, <1>5
<1>6. 0..Hops \subseteq S
  BY <1>1, <1>4, <1>5, IntervalInduction
<1>7. PICK n \in 0..(Hops - 1) : f[n] = Root
  BY <1>2
<1> QED
  BY <1>1, <1>3, <1>6, <1>7 DEF KinInv

(* Init is nobody's child: an ancestor that is init, or none, has only     *)
(* such ancestors.                                                         *)
LEMMA LineEnds ==
  ASSUME TypeOK, parent[1] = 0, NEW p \in Pids, NEW u, Line(p, u),
         NEW k \in 0..MaxPid, u[k] \in {0, 1}, NEW n \in 0..MaxPid, n >= k
  PROVE  u[n] \in {0, 1}
<1>0. MaxPid \in Nat
  BY PidBound
<1>1. PICK S : S = {m \in 0..MaxPid : m >= k => u[m] \in {0, 1}}
  OBVIOUS
<1>2. 0 \in S
  BY <1>0, <1>1
<1>3. ASSUME NEW m \in 1..MaxPid, m - 1 \in S PROVE m \in S
  <2>1. u[m] = IF u[m - 1] = 0 THEN 0 ELSE parent[u[m - 1]]
    BY DEF Line
  <2> QED
    BY <2>1, <1>0, <1>1, <1>3
<1>4. 0..MaxPid \subseteq S
  BY <1>0, <1>2, <1>3, IntervalInduction
<1> QED
  BY <1>1, <1>4

(* Parents are older than their children, so that a process is no further  *)
(* below Root than there are processes after Root.                         *)
LEMMA FewAreWithinReach ==
  ASSUME Few, TypeOK, TreeInv
  PROVE  WithinReach
<1> SUFFICES ASSUME NEW p \in Below
             PROVE  \E n \in 0..MaxPid : n < Hops /\ Generation(p, n)
  BY DEF WithinReach
<1>1. /\ MaxPid \in Nat /\ Hops \in Nat /\ Root \in Nat /\ Root > 1 /\ Root <= MaxPid
      /\ p \in Pids /\ p \in Nat /\ p <= MaxPid /\ p \in Entries
  BY PidBound, HopsAreNat, RootIsPid DEF Pids, Below, Entries
<1>2. PICK u : Line(p, u) /\ \E n \in 0..MaxPid : u[n] = Root
  BY <1>1, BelowIs
<1>3. PICK n \in 0..MaxPid : u[n] = Root
  BY <1>2
<1>4. \A k \in 0..MaxPid : k <= n => u[k] \notin {0, 1}
  BY <1>1, <1>2, <1>3, LineEnds DEF TreeInv
<1>5. PICK S : S = {k \in 0..MaxPid : k <= n => u[k] <= p - k}
  OBVIOUS
<1>6. 0 \in S
  BY <1>1, <1>2, <1>5 DEF Line
<1>7. ASSUME NEW k \in 1..MaxPid, k - 1 \in S PROVE k \in S
  <2> SUFFICES ASSUME k <= n PROVE u[k] <= p - k
    BY <1>5
  <2>1. k - 1 \in 0..MaxPid /\ k - 1 <= n /\ k \in 0..MaxPid /\ k \in Nat
    BY <1>1
  <2>2. PICK q : q = u[k - 1]
    OBVIOUS
  <2>3. q <= p - (k - 1) /\ q \notin {0, 1} /\ q \in PidsAndNone
    BY <1>2, <1>4, <1>5, <1>7, <2>1, <2>2 DEF Line
  <2>4. q \in Pids /\ q \in Nat
    BY <1>1, <2>3 DEF Pids, PidsAndNone
  <2>5. u[k] = parent[q] /\ parent[q] # 0
    BY <1>2, <1>4, <2>1, <2>2, <2>3 DEF Line
  <2>6. parent[q] < q /\ parent[q] \in Nat
    BY <1>1, <2>4, <2>5 DEF TreeInv, TypeOK, Pids
  <2> QED
    BY <1>1, <2>1, <2>3, <2>4, <2>5, <2>6
<1>8. 0..MaxPid \subseteq S
  BY <1>1, <1>6, <1>7, IntervalInduction
<1>9. Root <= p - n
  BY <1>3, <1>5, <1>8
<1>10. n < Hops
  BY <1>1, <1>9 DEF Few
<1>11. Generation(p, n)
  BY <1>2, <1>3 DEF Generation, Line
<1> QED
  BY <1>10, <1>11

(* Of the processes that were there when the scan began, those that have   *)
(* been scanned and are below Root now are in the list.                    *)
LEMMA ScannedAreListed ==
  ASSUME WithinReach, TypeOK, TreeInv, MapInv, phase \notin {"scan1", "scan2"}
  PROVE  Below \intersect elder \subseteq Descendants(ppids)
<1> SUFFICES ASSUME NEW p \in Below, p \in elder PROVE p \in Descendants(ppids)
  OBVIOUS
<1>1. /\ MaxPid \in Nat /\ Hops \in Nat /\ Root \in Nat /\ Root > 1 /\ Root <= MaxPid
      /\ p \in PidsAndNone /\ p \in Pids /\ p \in Nat /\ p <= MaxPid /\ p \in Entries
      /\ DOMAIN ppids \subseteq Pids /\ \A q \in DOMAIN ppids : ppids[q] \in PidsAndNone
  BY PidBound, HopsAreNat, RootIsPid DEF TypeOK, Pids, PidsAndNone, Below, Entries
<1>0. PICK n \in 0..MaxPid : n < Hops /\ Generation(p, n)
  BY DEF WithinReach
<1>2. PICK u : Line(p, u) /\ u[n] = Root
  BY <1>0 DEF Generation
<1>3. n \in 0..MaxPid /\ u[n] = Root
  BY <1>2
<1>4. \A k \in 0..MaxPid : k <= n => u[k] \notin {0, 1}
  BY <1>1, <1>2, <1>3, LineEnds DEF TreeInv
<1>5. \A k \in 1..MaxPid : k <= n => u[k] = parent[u[k - 1]] /\ u[k - 1] \in PidsAndNone
  <2> SUFFICES ASSUME NEW k \in 1..MaxPid, k <= n
               PROVE  u[k] = parent[u[k - 1]] /\ u[k - 1] \in PidsAndNone
    OBVIOUS
  <2>1. k - 1 \in 0..MaxPid /\ k - 1 <= n
    BY <1>1
  <2> QED
    BY <2>1, <1>2, <1>4 DEF Line
<1>6. \A k \in 0..MaxPid : k <= n => u[k] \in elder \intersect Entries
  <2>1. PICK S : S = {k \in 0..MaxPid : k <= n => u[k] \in elder \intersect Entries}
    OBVIOUS
  <2>2. 0 \in S
    BY <1>1, <1>2, <2>1 DEF Line
  <2>3. ASSUME NEW k \in 1..MaxPid, k - 1 \in S PROVE k \in S
    <3> SUFFICES ASSUME k <= n PROVE u[k] \in elder \intersect Entries
      BY <2>1
    <3>1. PICK q : q = u[k - 1]
      OBVIOUS
    <3>2. k - 1 \in 0..MaxPid /\ k - 1 <= n
      BY <1>1
    <3>3. q \in elder \intersect Entries /\ q \in Pids /\ q \in Nat
      BY <2>1, <2>3, <3>1, <3>2, <1>1 DEF Entries, Pids
    <3>4. u[k] = parent[q] /\ parent[q] \notin {0, 1}
      BY <1>1, <1>4, <1>5, <3>1
    <3>5. parent[q] \in elder /\ status[parent[q]] = "running"
      BY <3>3, <3>4 DEF MapInv, TreeInv
    <3>6. parent[q] \in Pids /\ parent[q] \in Nat
      BY <3>3, <3>4, <1>1 DEF TypeOK, Pids
    <3> QED
      BY <1>1, <3>3, <3>4, <3>5, <3>6 DEF Entries
  <2>4. 0..MaxPid \subseteq S
    BY <1>1, <2>2, <2>3, IntervalInduction
  <2> QED
    BY <2>1, <2>4
<1>7. n <= Hops - 1 /\ n \in 0..(Hops - 1)
  BY <1>1, <1>0
<1>8. PICK f \in [0..Hops -> PidsAndNone] :
        /\ f[0] = p
        /\ \A k \in 1..Hops : f[k] = Climb(ppids, f[k - 1])
        /\ \A q : q \in Reached(ppids, p) <=> \E k \in 0..(Hops - 1) : f[k] = q
  BY <1>1, ReachedIs
<1>9. f[n] = u[n]
  <2>1. PICK S : S = {k \in 0..MaxPid : k <= n => f[k] = u[k]}
    OBVIOUS
  <2>2. 0 \in S
    BY <1>1, <1>2, <1>8, <2>1 DEF Line
  <2>3. ASSUME NEW k \in 1..MaxPid, k - 1 \in S PROVE k \in S
    <3> SUFFICES ASSUME k <= n PROVE f[k] = u[k]
      BY <2>1
    <3>1. PICK q : q = u[k - 1]
      OBVIOUS
    <3>2. k - 1 \in 0..MaxPid /\ k - 1 <= n /\ k \in 1..Hops /\ k \in 0..MaxPid
      BY <1>1, <1>7
    <3>3. q \in elder \intersect Entries /\ f[k - 1] = q
      BY <2>1, <2>3, <3>1, <3>2, <1>6
    <3>4. u[k] = parent[q] /\ parent[q] \notin {0, 1}
      BY <1>4, <1>5, <3>1, <3>2
    <3>5. q \in DOMAIN ppids /\ ppids[q] = parent[q]
      BY <3>3, <3>4 DEF MapInv, Scanned
    <3>6. parent[q] < q /\ q \in Nat
      BY <3>3, <3>4, <1>1 DEF TreeInv, Entries, Pids
    <3>7. f[k] = Climb(ppids, q)
      BY <1>8, <3>2, <3>3
    <3>8. parent[q] # q
      BY <3>6, <1>1, <3>3 DEF TypeOK, Entries, Pids
    <3> QED
      BY <3>4, <3>5, <3>7, <3>8 DEF Climb
  <2>4. 0..MaxPid \subseteq S
    BY <1>1, <2>2, <2>3, IntervalInduction
  <2> QED
    BY <2>1, <2>4
<1>10. p \in DOMAIN ppids
  BY <1>1 DEF MapInv, Scanned
<1> QED
  BY <1>3, <1>7, <1>8, <1>9, <1>10 DEF Descendants

-----------------------------------------------------------------------------
(* The steps. *)

Processes == \E p \in Pids : Fork(p) \/ Work(p) \/ Exit(p) \/ Reap(p)

(* A fork takes the least process id that was never used.                  *)
Forks(p, c) ==
  /\ status[p] = "running"
  /\ status[c] = "none" /\ \A r \in Pids : status[r] = "none" => c <= r
  /\ status' = [status EXCEPT ![c] = "running"]
  /\ parent' = [parent EXCEPT ![c] = p]
  /\ kin' = IF p \in kin THEN kin \union {c} ELSE kin
  /\ UNCHANGED <<ticks, elder, spent, sample>>

(* Fork is such a step.                                                    *)
LEMMA ForkTakes ==
  ASSUME NEW p \in Pids, Fork(p)
  PROVE  \E c \in Pids : Forks(p, c)
<1> DEFINE c == CHOOSE q \in Fresh : \A r \in Fresh : q <= r
<1>1. \E q \in Fresh : \A r \in Fresh : q <= r
  <2>1. Fresh \in SUBSET Nat /\ Fresh # {}
    BY PidBound DEF Fresh, Pids, Fork
  <2> QED
    BY <2>1, LeastElement
<1>2. c \in Fresh /\ \A r \in Fresh : c <= r
  BY <1>1
<1>3. /\ status' = [status EXCEPT ![c] = "running"]
      /\ parent' = [parent EXCEPT ![c] = p]
      /\ kin' = IF p \in kin THEN kin \union {c} ELSE kin
  BY DEF Fork
<1>4. status[p] = "running" /\ UNCHANGED <<ticks, elder, spent, sample>>
  BY DEF Fork
<1> HIDE DEF c
<1>5. c \in Pids /\ status[c] = "none" /\ \A r \in Pids : status[r] = "none" => c <= r
  BY <1>2 DEF Fresh
<1> QED
  BY <1>3, <1>4, <1>5 DEF Forks

(* The variables keep their types.                                         *)
LEMMA TypeInductive == TypeOK /\ PlaceInv /\ [Next]_vars => TypeOK' /\ PlaceInv'
<1> SUFFICES ASSUME TypeOK, PlaceInv, [Next]_vars PROVE TypeOK' /\ PlaceInv'
  OBVIOUS
<1> USE DEF TypeOK, PlaceInv, tree, sample
<1>0. MaxPid \in Nat /\ MaxTicks \in Nat /\ Pids = 1..MaxPid
  BY PidBound, TicksArePositive DEF Pids
<1>1. CASE Scan
  <2>1. at \in Pids /\ at' \in 1..(MaxPid + 1)
    BY <1>0, <1>1 DEF Scan
  <2>2. DOMAIN ppids' \subseteq Pids /\ \A p \in DOMAIN ppids' : ppids'[p] \in 0..MaxPid
    BY <1>0, <1>1, <2>1 DEF Scan
  <2> QED
    BY <1>1, <2>1, <2>2 DEF Scan
<1>2. CASE EndScan
  BY <1>0, <1>2 DEF EndScan, Phases
<1>3. CASE Before
  <2>1. at \in Pids /\ at' \in 1..(MaxPid + 1)
    BY <1>0, <1>3 DEF Before
  <2>2. CpuTicks(at) \in 0..MaxTicks
    BY <1>0, <2>1 DEF CpuTicks
  <2>3. DOMAIN before' \subseteq Pids /\ \A p \in DOMAIN before' : before'[p] \in 0..MaxTicks
    BY <1>0, <1>3, <2>1, <2>2 DEF Before
  <2> QED
    BY <1>3, <2>1, <2>3 DEF Before
<1>4. CASE ScanAgain
  BY <1>0, <1>4 DEF ScanAgain, Phases, NoMap, Entries
<1>5. CASE ReadState
  <2>1. /\ UNCHANGED <<status, parent, ticks, ppids, before, delta, kin, elder, spent>>
        /\ phase = "state" /\ at \in Pids
    BY <1>0, <1>5 DEF ReadState
  <2>2. CASE at \in Descendants(ppids) /\ Counts(at)
    <3>1. live' = live + 1 /\ phase' = "ticks" /\ at' = at
      BY <1>5, <2>2 DEF ReadState
    <3> QED
      BY <1>0, <2>1, <3>1 DEF Phases
  <2>3. CASE ~(at \in Descendants(ppids) /\ Counts(at))
    <3>1. live' = live /\ phase' = "state" /\ at' = at + 1
      BY <1>5, <2>1, <2>3 DEF ReadState
    <3> QED
      BY <1>0, <2>1, <3>1 DEF Phases
  <2> QED
    BY <2>2, <2>3
<1>6. CASE ReadTicks
  <2>0. at \in Pids
    BY <1>6 DEF ReadTicks
  <2>1. Since(at) \in Nat
    <3>1. CpuTicks(at) \in Nat
      BY <1>0, <2>0 DEF CpuTicks
    <3>2. at \in DOMAIN before => before[at] \in Nat
      BY <1>0
    <3> QED
      BY <3>1, <3>2 DEF Since
  <2> QED
    BY <1>0, <1>6, <2>0, <2>1 DEF ReadTicks, Phases
<1>7. CASE Publish
  BY <1>0, <1>7 DEF Publish, Phases
<1>8. ASSUME NEW p \in Pids, Fork(p) PROVE TypeOK' /\ PlaceInv'
  <2>1. PICK c \in Pids : Forks(p, c)
    BY <1>8, ForkTakes
  <2>2. status' \in [Pids -> {"none", "running", "zombie", "gone"}]
    BY <2>1 DEF Forks
  <2>3. parent' \in [Pids -> 0..MaxPid]
    BY <1>0, <2>1 DEF Forks
  <2>4. kin' \subseteq Pids /\ UNCHANGED <<ticks, elder, spent, sample>>
    BY <2>1 DEF Forks
  <2> QED
    BY <2>2, <2>3, <2>4
<1>9. ASSUME NEW p \in Pids, Work(p) PROVE TypeOK' /\ PlaceInv'
  <2>1. /\ ticks' = [ticks EXCEPT ![p] = @ + 1] /\ ticks[p] < MaxTicks
        /\ spent' \in {spent, spent + 1}
        /\ UNCHANGED <<status, parent, kin, elder, sample>>
    BY <1>9 DEF Work
  <2>2. ticks \in [Pids -> 0..MaxTicks] /\ spent \in Nat
    OBVIOUS
  <2>3. ticks' \in [Pids -> 0..MaxTicks]
    BY ONLY <1>0, <2>1, <2>2
  <2>4. spent' \in Nat
    BY ONLY <2>1, <2>2
  <2> QED
    BY <2>1, <2>3, <2>4
<1>10. ASSUME NEW p \in Pids, Exit(p) PROVE TypeOK' /\ PlaceInv'
  BY <1>0, <1>10 DEF Exit, Orphaned
<1>11. ASSUME NEW p \in Pids, Reap(p) PROVE TypeOK' /\ PlaceInv'
  BY <1>0, <1>11 DEF Reap
<1>12. CASE UNCHANGED vars
  BY <1>12 DEF vars
<1> QED
  BY <1>1, <1>2, <1>3, <1>4, <1>5, <1>6, <1>7, <1>8, <1>9, <1>10, <1>11, <1>12
     DEF Next, Sampler

(* The tree keeps its shape.                                               *)
LEMMA TreeInductive ==
  TypeOK /\ TreeInv /\ [Next]_vars => TreeInv'
<1> SUFFICES ASSUME TypeOK, TreeInv, [Next]_vars PROVE TreeInv'
  OBVIOUS
<1>0. /\ MaxPid \in Nat /\ Pids = 1..MaxPid /\ Root \in Pids /\ 1 \in Pids /\ Root # 1
      /\ parent \in [Pids -> 0..MaxPid]
      /\ status \in [Pids -> {"none", "running", "zombie", "gone"}]
  BY PidBound, RootIsPid DEF Pids, TypeOK
<1>1. CASE Sampler
  BY <1>1 DEF TreeInv, tree, Sampler, Scan, EndScan, Before, ScanAgain, ReadState, ReadTicks,
              Publish
<1>2. ASSUME NEW p \in Pids, Fork(p) PROVE TreeInv'
  <2>1. PICK c \in Pids : Forks(p, c)
    BY <1>2, ForkTakes
  <2>2. c # 1 /\ c # Root /\ c # p /\ p < c
    BY <2>1, <1>0 DEF Forks, TreeInv
  <2>3. \A q \in Pids : q # c => status'[q] = status[q] /\ parent'[q] = parent[q]
    BY <2>1, <1>0 DEF Forks
  <2>4. status'[c] = "running" /\ parent'[c] = p
    BY <2>1, <1>0 DEF Forks
  <2>5. ASSUME NEW q \in Pids, parent'[q] # 0
        PROVE  status'[parent'[q]] = "running" /\ parent'[q] < q
    <3>1. CASE q = c
      BY <3>1, <2>1, <2>2, <2>3, <2>4 DEF Forks
    <3>2. CASE q # c
      <4>1. parent'[q] = parent[q] /\ parent[q] \in Pids
        BY <3>2, <2>3, <2>5, <1>0
      <4>2. status[parent[q]] = "running" /\ parent[q] < q
        BY <4>1, <2>5 DEF TreeInv
      <4>3. parent[q] # c
        BY <4>2, <2>1 DEF Forks
      <4> QED
        BY <4>1, <4>2, <4>3, <2>3
    <3> QED
      BY <3>1, <3>2
  <2>6. ASSUME NEW q \in Pids, status'[q] = "none"
        PROVE  parent'[q] = 0 /\ \A r \in Pids : r > q => status'[r] = "none"
    <3>1. q # c /\ status[q] = "none" /\ parent'[q] = 0
      BY <2>3, <2>4, <2>6 DEF TreeInv
    <3>2. c < q
      BY <3>1, <2>1, <1>0 DEF Forks
    <3> QED
      BY <3>1, <3>2, <2>3, <1>0 DEF TreeInv
  <2>7. status'[1] = "running" /\ parent'[1] = 0 /\ status'[Root] # "none"
    BY <2>2, <2>3, <1>0 DEF TreeInv
  <2> QED
    BY <2>5, <2>6, <2>7 DEF TreeInv
<1>3. ASSUME NEW p \in Pids, Work(p) PROVE TreeInv'
  BY <1>3 DEF Work, TreeInv
<1>4. ASSUME NEW p \in Pids, Exit(p) PROVE TreeInv'
  <2>1. p # 1 /\ status[p] = "running"
    BY <1>4 DEF Exit
  <2>2. \A q \in Pids : status'[q] = IF q = p THEN "zombie" ELSE status[q]
    BY <1>4, <1>0 DEF Exit
  <2>3. \A q \in Pids : parent'[q] = IF parent[q] = p THEN 1 ELSE parent[q]
    BY <1>4 DEF Exit, Orphaned
  <2>4. ASSUME NEW q \in Pids, parent'[q] # 0
        PROVE  status'[parent'[q]] = "running" /\ parent'[q] < q
    <3>1. CASE parent[q] = p
      BY <3>1, <2>1, <2>2, <2>3, <1>0 DEF TreeInv
    <3>2. CASE parent[q] # p
      <4>1. parent'[q] = parent[q] /\ parent[q] \in Pids
        BY <3>2, <2>3, <2>4, <1>0
      <4> QED
        BY <4>1, <3>2, <2>2, <2>4 DEF TreeInv
    <3> QED
      BY <3>1, <3>2
  <2>5. ASSUME NEW q \in Pids, status'[q] = "none"
        PROVE  parent'[q] = 0 /\ \A r \in Pids : r > q => status'[r] = "none"
    <3>1. status[q] = "none" /\ q # p
      BY <2>2, <2>5
    <3>2. ~(p > q)
      BY <3>1, <2>1 DEF TreeInv
    <3>3. parent[q] = 0 /\ parent[q] # p
      BY <3>1, <1>0 DEF TreeInv
    <3> QED
      BY <3>1, <3>2, <3>3, <2>2, <2>3, <1>0 DEF TreeInv
  <2>6. status'[1] = "running" /\ parent'[1] = 0 /\ status'[Root] # "none"
    BY <2>1, <2>2, <2>3, <1>0 DEF TreeInv
  <2> QED
    BY <2>4, <2>5, <2>6 DEF TreeInv
<1>5. ASSUME NEW p \in Pids, Reap(p) PROVE TreeInv'
  <2>1. status[p] = "zombie" /\ parent' = parent
    BY <1>5 DEF Reap
  <2>2. \A q \in Pids : status'[q] = IF q = p THEN "gone" ELSE status[q]
    BY <1>5, <1>0 DEF Reap
  <2>3. ASSUME NEW q \in Pids, parent[q] # 0
        PROVE  status'[parent[q]] = "running" /\ parent[q] < q
    BY <2>1, <2>2, <2>3, <1>0 DEF TreeInv
  <2>4. ASSUME NEW q \in Pids, status'[q] = "none"
        PROVE  parent'[q] = 0 /\ \A r \in Pids : r > q => status'[r] = "none"
    <3>1. status[q] = "none" /\ q # p
      BY <2>2, <2>4
    <3>2. ~(p > q)
      BY <3>1, <2>1 DEF TreeInv
    <3> QED
      BY <3>1, <3>2, <2>1, <2>2, <1>0 DEF TreeInv
  <2>5. status'[1] = "running" /\ parent'[1] = 0 /\ status'[Root] # "none"
    BY <2>1, <2>2, <1>0 DEF TreeInv
  <2> QED
    BY <2>1, <2>3, <2>4, <2>5 DEF TreeInv
<1>6. CASE UNCHANGED vars
  BY <1>6 DEF vars, tree, TreeInv
<1> QED
  BY <1>1, <1>2, <1>3, <1>4, <1>5, <1>6 DEF Next

(* Who is of Root's kin stays so, and the children of kin are kin.         *)
LEMMA KinInductive ==
  TypeOK /\ TreeInv /\ KinInv /\ [Next]_vars => KinInv'
<1> SUFFICES ASSUME TypeOK, TreeInv, KinInv, [Next]_vars PROVE KinInv'
  OBVIOUS
<1>0. /\ MaxPid \in Nat /\ Pids = 1..MaxPid /\ Root \in Pids /\ 1 \in Pids /\ Root # 1
      /\ parent \in [Pids -> 0..MaxPid] /\ kin \subseteq Pids
      /\ status \in [Pids -> {"none", "running", "zombie", "gone"}]
  BY PidBound, RootIsPid DEF Pids, TypeOK
<1>1. CASE Sampler
  BY <1>1 DEF KinInv, tree, Sampler, Scan, EndScan, Before, ScanAgain, ReadState, ReadTicks,
              Publish
<1>2. ASSUME NEW p \in Pids, Fork(p) PROVE KinInv'
  <2>1. PICK c \in Pids : Forks(p, c)
    BY <1>2, ForkTakes
  <2>2. c # 1 /\ c # p /\ c \notin kin
    BY <2>1, <1>0 DEF Forks, TreeInv, KinInv
  <2>3. \A q \in Pids : q # c => status'[q] = status[q] /\ parent'[q] = parent[q]
    BY <2>1, <1>0 DEF Forks
  <2>4. status'[c] = "running" /\ parent'[c] = p
    BY <2>1, <1>0 DEF Forks
  <2>5. kin \subseteq kin' /\ kin' \subseteq kin \union {c} /\ (c \in kin' <=> p \in kin)
    BY <2>1, <2>2 DEF Forks
  <2>6. ASSUME NEW q \in Pids PROVE (q \in kin' => status'[q] # "none")
                                 /\ (parent'[q] \in kin' => q \in kin')
    <3>1. CASE q = c
      BY <3>1, <2>2, <2>4, <2>5
    <3>2. CASE q # c
      <4>1. parent[q] # c
        BY <2>1, <1>0 DEF Forks, TreeInv
      <4> QED
        BY <3>2, <4>1, <2>3, <2>5 DEF KinInv
    <3> QED
      BY <3>1, <3>2
  <2> QED
    BY <2>2, <2>5, <2>6 DEF KinInv
<1>3. ASSUME NEW p \in Pids, Work(p) PROVE KinInv'
  BY <1>3 DEF Work, KinInv
<1>4. ASSUME NEW p \in Pids, Exit(p) PROVE KinInv'
  <2>1. \A q \in Pids : status'[q] = IF q = p THEN "zombie" ELSE status[q]
    BY <1>4, <1>0 DEF Exit
  <2>2. \A q \in Pids : parent'[q] = IF parent[q] = p THEN 1 ELSE parent[q]
    BY <1>4 DEF Exit, Orphaned
  <2>3. kin' = kin
    BY <1>4 DEF Exit
  <2> QED
    BY <2>1, <2>2, <2>3 DEF KinInv
<1>5. ASSUME NEW p \in Pids, Reap(p) PROVE KinInv'
  <2>1. \A q \in Pids : status'[q] = IF q = p THEN "gone" ELSE status[q]
    BY <1>5, <1>0 DEF Reap
  <2> QED
    BY <2>1, <1>5 DEF Reap, KinInv
<1>6. CASE UNCHANGED vars
  BY <1>6 DEF vars, tree, KinInv
<1> QED
  BY <1>1, <1>2, <1>3, <1>4, <1>5, <1>6 DEF Next

(* What a step of the processes leaves as it is, of those there were.      *)
LEMMA ProcessesKeep ==
  ASSUME TypeOK, TreeInv, KinInv, NEW p \in Pids, Fork(p) \/ Work(p) \/ Exit(p) \/ Reap(p)
  PROVE  /\ UNCHANGED <<sample, elder>> /\ kin' \subseteq Pids
         /\ \A q \in Pids : status[q] # "none" =>
              /\ status'[q] # "none"
              /\ q \in Entries' => q \in Entries
              /\ status'[q] = "running" => status[q] = "running"
              /\ parent'[q] \in {parent[q], 1}
              /\ q \in kin' <=> q \in kin
<1>0. /\ parent \in [Pids -> 0..MaxPid] /\ kin \subseteq Pids
      /\ status \in [Pids -> {"none", "running", "zombie", "gone"}]
  BY DEF TypeOK
<1> DEFINE Kept(q) == /\ status'[q] # "none"
                      /\ q \in Entries' => q \in Entries
                      /\ status'[q] = "running" => status[q] = "running"
                      /\ parent'[q] \in {parent[q], 1}
                      /\ q \in kin' <=> q \in kin
<1>1. ASSUME Fork(p), NEW q \in Pids, status[q] # "none" PROVE Kept(q)
  <2>1. PICK c \in Pids : Forks(p, c)
    BY <1>1, ForkTakes
  <2> QED
    BY <1>0, <1>1, <2>1 DEF Forks, Entries
<1>2. ASSUME Fork(p) PROVE UNCHANGED <<sample, elder>> /\ kin' \subseteq Pids
  <2>1. PICK c \in Pids : Forks(p, c)
    BY <1>2, ForkTakes
  <2> QED
    BY <1>0, <2>1 DEF Forks
<1>3. CASE Work(p)
  BY <1>0, <1>3 DEF Work, Entries
<1>4. CASE Exit(p)
  BY <1>0, <1>4 DEF Exit, Orphaned, Entries
<1>5. CASE Reap(p)
  BY <1>0, <1>5 DEF Reap, Entries
<1> QED
  BY <1>1, <1>2, <1>3, <1>4, <1>5

(* The map is right about those that were there when the scan began.       *)
LEMMA MapInductive ==
  TypeOK /\ TreeInv /\ KinInv /\ MapInv /\ [Next]_vars => MapInv'
<1> SUFFICES ASSUME TypeOK, TreeInv, KinInv, MapInv, [Next]_vars PROVE MapInv'
  OBVIOUS
<1>0. /\ MaxPid \in Nat /\ Pids = 1..MaxPid /\ at \in 1..(MaxPid + 1) /\ elder \subseteq Pids
      /\ parent \in [Pids -> 0..MaxPid] /\ kin \subseteq Pids
      /\ DOMAIN ppids \subseteq Pids /\ \A p \in DOMAIN ppids : ppids[p] \in 0..MaxPid
  BY PidBound DEF Pids, TypeOK
<1>1. CASE Scan
  <2>1. /\ UNCHANGED <<status, parent, kin, elder, phase>> /\ at \in Pids /\ at' = at + 1
        /\ phase \in {"scan1", "scan2"} /\ Entries' = Entries
    BY <1>0, <1>1 DEF Scan, tree, Entries
  <2>2. ASSUME NEW p \in DOMAIN ppids'
        PROVE  /\ status[p] # "none"
               /\ ppids'[p] # 0 => status[ppids'[p]] # "none"
               /\ ppids'[p] \in kin => p \in kin
    <3>1. CASE p \in DOMAIN ppids /\ ppids'[p] = ppids[p]
      BY <3>1 DEF MapInv
    <3>2. CASE p = at /\ at \in Entries /\ ppids'[p] = parent[p]
      BY <3>2, <2>1 DEF Entries, TreeInv, KinInv
    <3> QED
      BY <3>1, <3>2, <2>2, <1>1 DEF Scan, Readable
  <2>3. ASSUME NEW p \in elder, p \in Entries, p < at + 1
        PROVE  p \in DOMAIN ppids' /\ (parent[p] \notin {0, 1} => ppids'[p] = parent[p])
    <3>1. CASE p = at
      BY <3>1, <2>1, <2>3, <1>1 DEF Scan, Readable
    <3>2. CASE p < at
      <4>1. p \in DOMAIN ppids /\ (parent[p] \notin {0, 1} => ppids[p] = parent[p])
        BY <3>2, <2>3 DEF MapInv, Scanned
      <4>2. p # at
        BY <3>2, <1>0
      <4> QED
        BY <4>1, <4>2, <1>1 DEF Scan
    <3> QED
      BY <3>1, <3>2, <2>3, <1>0
  <2> QED
    BY <2>1, <2>2, <2>3 DEF MapInv, Scanned
<1>2. CASE EndScan
  <2>1. /\ UNCHANGED <<status, parent, kin, elder, ppids>> /\ phase \in {"scan1", "scan2"}
        /\ at > MaxPid /\ Entries' = Entries
    BY <1>2 DEF EndScan, tree, Entries
  <2>2. \A p \in elder : Scanned(p)
    BY <2>1, <1>0 DEF Scanned
  <2> QED
    BY <2>1, <2>2 DEF MapInv
<1>3. CASE ScanAgain
  <2>1. /\ UNCHANGED <<status, parent, kin>> /\ elder' = Entries /\ Entries' = Entries
        /\ ppids' = NoMap /\ phase' = "scan2" /\ at' = 1
    BY <1>3 DEF ScanAgain, tree, Entries
  <2>2. DOMAIN NoMap = {}
    BY DEF NoMap
  <2>3. ASSUME NEW p \in Entries
        PROVE  /\ status[p] # "none" /\ ~(p < 1)
               /\ parent[p] \notin {0, 1} => parent[p] \in Entries
    BY <1>0 DEF Entries, TreeInv
  <2> QED
    BY <2>1, <2>2, <2>3 DEF MapInv, Scanned
<1>4. CASE Before \/ ReadState \/ ReadTicks \/ Publish
  <2>1. /\ UNCHANGED <<status, parent, kin, elder, ppids>> /\ Entries' = Entries
        /\ phase \notin {"scan1", "scan2"} /\ phase' \notin {"scan1", "scan2"}
    BY <1>4 DEF Before, ReadState, ReadTicks, Publish, tree, Entries
  <2> QED
    BY <2>1 DEF MapInv, Scanned
<1>5. ASSUME NEW p \in Pids, Fork(p) \/ Work(p) \/ Exit(p) \/ Reap(p) PROVE MapInv'
  <2>1. UNCHANGED <<ppids, elder, phase, at>> /\ kin' \subseteq Pids
    BY <1>5, ProcessesKeep DEF sample
  <2>2. \A q \in Pids : status[q] # "none" =>
          /\ status'[q] # "none"
          /\ q \in Entries' => q \in Entries
          /\ parent'[q] \in {parent[q], 1}
          /\ q \in kin' <=> q \in kin
    BY <1>5, ProcessesKeep
  <2>3. ASSUME NEW q \in DOMAIN ppids
        PROVE  /\ status'[q] # "none"
               /\ ppids[q] # 0 => status'[ppids[q]] # "none"
               /\ ppids[q] \in kin' => q \in kin'
    BY <1>0, <2>1, <2>2 DEF MapInv
  <2>4. ASSUME NEW q \in elder
        PROVE  /\ status'[q] # "none"
               /\ q \in Entries' /\ parent'[q] \notin {0, 1} => parent'[q] \in elder
               /\ q \in Entries' /\ Scanned(q) =>
                    /\ q \in DOMAIN ppids
                    /\ parent'[q] \notin {0, 1} => ppids[q] = parent'[q]
    <3>1. q \in Pids /\ status[q] # "none"
      BY <1>0 DEF MapInv
    <3> QED
      BY <3>1, <2>2 DEF MapInv
  <2> QED
    BY <2>1, <2>3, <2>4 DEF MapInv, Scanned
<1>6. CASE UNCHANGED vars
  <2>1. UNCHANGED <<status, parent, kin, elder, ppids, phase, at>> /\ Entries' = Entries
    BY <1>6 DEF vars, tree, sample, Entries
  <2> QED
    BY <2>1 DEF MapInv, Scanned
<1> QED
  BY <1>1, <1>2, <1>3, <1>4, <1>5, <1>6 DEF Next, Sampler

(* What the sampler adds up it has found used.                             *)
LEMMA WorkInductive ==
  TypeOK /\ PlaceInv /\ TreeInv /\ KinInv /\ MapInv /\ WorkInv /\ [Next]_vars => WorkInv'
<1> SUFFICES ASSUME TypeOK, PlaceInv, TreeInv, KinInv, MapInv, WorkInv, [Next]_vars
             PROVE  WorkInv'
  OBVIOUS
<1>0. /\ MaxPid \in Nat /\ Pids = 1..MaxPid /\ at \in 1..(MaxPid + 1) /\ elder \subseteq Pids
      /\ kin \subseteq Pids /\ DOMAIN before \subseteq Pids /\ DOMAIN ppids \subseteq Pids
      /\ ticks \in [Pids -> 0..MaxTicks] /\ MaxTicks \in Nat
      /\ delta \in Nat /\ spent \in Nat
      /\ \A p \in DOMAIN before : before[p] \in 0..MaxTicks
  BY PidBound, TicksArePositive DEF Pids, TypeOK
<1>s. PICK sum \in [0..MaxPid -> Nat] : Accounts(sum)
  BY DEF WorkInv
<1>k. \A p \in DOMAIN before : p \in kin /\ status[p] # "none"
  BY DEF WorkInv
<1>1. CASE Scan \/ EndScan \/ ScanAgain
  <2>1. /\ UNCHANGED <<status, ticks, kin, before, delta, spent>> /\ Entries' = Entries
        /\ delta = 0 /\ at' \in 1..(MaxPid + 1)
    BY <1>0, <1>1 DEF Scan, EndScan, ScanAgain, tree, Entries, WorkInv
  <2>2. Accounts(sum)'
    <3>1. delta <= sum[at' - 1]
      <4>1. PICK i : i = at'
        OBVIOUS
      <4>2. i \in 1..(MaxPid + 1) /\ delta = 0
        BY <2>1, <4>1
      <4>3. MaxPid \in Nat
        BY <1>0
      <4>4. i - 1 \in 0..MaxPid
        BY ONLY <4>2, <4>3
      <4>5. sum[i - 1] \in Nat
        BY <4>4
      <4>6. delta <= sum[i - 1]
        BY ONLY <4>2, <4>5
      <4> QED
        BY <4>1, <4>6
    <3> QED
      BY <3>1, <2>1, <1>s DEF Accounts
  <2> QED
    BY <2>1, <2>2, <1>k DEF WorkInv
<1>2. CASE Before
  <2>1. /\ UNCHANGED <<status, ticks, kin, delta, spent, phase>> /\ Entries' = Entries
        /\ delta = 0 /\ at \in Pids /\ at' \in 1..(MaxPid + 1)
    BY <1>0, <1>2 DEF Before, tree, Entries, WorkInv
  <2>2. at \in Descendants(ppids) => at \in kin /\ status[at] # "none"
    BY ListedAreKin DEF Descendants, MapInv
  <2>3. \A p \in DOMAIN before' : p \in kin /\ status[p] # "none"
    BY <2>2, <1>k, <1>2 DEF Before
  <2>4. ASSUME NEW p \in DOMAIN before' \intersect Entries
        PROVE  ticks[p] - before'[p] <= sum[p] - sum[p - 1]
    <3>1. CASE p \in DOMAIN before /\ before'[p] = before[p]
      BY <3>1, <2>4, <1>s DEF Accounts
    <3>2. CASE p = at /\ before'[p] = ticks[p]
      <4>1. sum[p - 1] <= sum[p] /\ p - 1 \in 0..MaxPid /\ p \in 0..MaxPid
        BY <3>2, <2>1, <1>0, <1>s DEF Accounts
      <4> QED
        BY <4>1, <3>2, <2>1, <1>0, <1>s
    <3> QED
      BY <3>1, <3>2, <2>4, <1>2 DEF Before, CpuTicks
  <2>5. delta <= sum[at' - 1]
    <3>1. PICK i : i = at'
      OBVIOUS
    <3>2. i \in 1..(MaxPid + 1) /\ delta = 0
      BY <2>1, <3>1
    <3>3. MaxPid \in Nat
      BY <1>0
    <3>4. i - 1 \in 0..MaxPid
      BY ONLY <3>2, <3>3
    <3>5. sum[i - 1] \in Nat
      BY <3>4
    <3>6. delta <= sum[i - 1]
      BY ONLY <3>2, <3>5
    <3> QED
      BY <3>1, <3>6
  <2>6. Accounts(sum)'
    BY <2>1, <2>4, <2>5, <1>s DEF Accounts
  <2> QED
    BY <2>1, <2>3, <2>6 DEF WorkInv
<1>3. CASE ReadState \/ Publish
  <2>1. /\ UNCHANGED <<status, ticks, kin, before, delta, spent>> /\ Entries' = Entries
        /\ phase' \notin {"scan1", "before", "scan2"} /\ at' \in {at, at + 1}
        /\ at' \in 1..(MaxPid + 1)
    <3>1. CASE ReadState
      <4>1. /\ UNCHANGED <<status, ticks, kin, before, delta, spent>>
            /\ phase = "state" /\ phase' \in {"state", "ticks"}
            /\ at <= MaxPid /\ at' \in {at, at + 1}
        BY <3>1 DEF ReadState, tree
      <4> QED
        BY <1>0, <4>1 DEF Entries
    <3>2. CASE Publish
      <4>1. /\ UNCHANGED <<status, ticks, kin, before, delta, spent, at>>
            /\ phase' = "done"
        BY <3>2 DEF Publish, tree
      <4> QED
        BY <1>0, <4>1 DEF Entries
    <3> QED
      BY <1>3, <3>1, <3>2
  <2>2. delta <= sum[at' - 1]
    <3>1. CASE at' = at
      BY <3>1, <1>s DEF Accounts
    <3>2. CASE at' = at + 1
      <4>1. at \in Pids
        BY <3>2, <2>1, <1>0
      <4>2. delta <= sum[at - 1] /\ sum[at - 1] <= sum[at]
        BY <4>1, <1>s DEF Accounts
      <4>3. sum[at - 1] \in Nat /\ sum[at] \in Nat /\ at' - 1 = at
        BY <3>2, <4>1, <1>0, <1>s
      <4> QED
        BY <4>2, <4>3, <1>0
    <3> QED
      BY <3>1, <3>2, <2>1
  <2>3. Accounts(sum)'
    BY <2>1, <2>2, <1>s DEF Accounts
  <2> QED
    BY <2>1, <2>3, <1>k DEF WorkInv
<1>4. CASE ReadTicks
  <2>1. /\ UNCHANGED <<status, ticks, kin, before, spent>> /\ Entries' = Entries
        /\ phase' \notin {"scan1", "before", "scan2"}
        /\ at \in Pids /\ at' = at + 1 /\ delta' = delta + Since(at)
    BY <1>0, <1>4 DEF ReadTicks, tree, Entries, PlaceInv
  <2>2. /\ sum[at - 1] \in Nat /\ sum[at] \in Nat /\ at' - 1 = at
        /\ delta <= sum[at - 1] /\ sum[at - 1] <= sum[at]
    BY <2>1, <1>0, <1>s DEF Accounts
  <2>3. Since(at) \in Nat /\ Since(at) <= sum[at] - sum[at - 1]
    <3>1. CASE at \in DOMAIN before /\ at \in Entries /\ ticks[at] > before[at]
      <4>1. ticks[at] - before[at] <= sum[at] - sum[at - 1]
        BY <3>1, <1>s DEF Accounts
      <4>2. ticks[at] \in Nat /\ before[at] \in Nat
        BY <3>1, <2>1, <1>0
      <4> QED
        BY <3>1, <4>1, <4>2 DEF Since, CpuTicks
    <3>2. CASE ~(at \in DOMAIN before /\ at \in Entries /\ ticks[at] > before[at])
      <4>1. at \in DOMAIN before => ~(0 > before[at])
        BY <1>0
      <4>2. Since(at) = 0
        BY <3>2, <4>1 DEF Since, CpuTicks
      <4> QED
        BY <4>2, <2>2
    <3> QED
      BY <3>1, <3>2
  <2>4. delta' <= sum[at' - 1]
    BY <2>1, <2>2, <2>3, <1>0
  <2>5. Accounts(sum)'
    BY <2>1, <2>4, <1>s DEF Accounts
  <2> QED
    BY <2>1, <2>5, <1>k DEF WorkInv
<1>5. ASSUME NEW p \in Pids, Fork(p) \/ Work(p) \/ Exit(p) \/ Reap(p) PROVE WorkInv'
  <2>1. UNCHANGED <<before, delta, at, phase>>
    BY <1>5, ProcessesKeep DEF sample
  <2>2. ASSUME NEW q \in DOMAIN before
        PROVE  q \in kin' /\ status'[q] # "none" /\ (q \in Entries' => q \in Entries)
    <3>1. q \in Pids /\ status[q] # "none" /\ q \in kin
      BY <1>0, <1>k
    <3> QED
      BY <3>1, <1>5, ProcessesKeep
  <2>3. ASSUME UNCHANGED <<ticks, spent>> PROVE Accounts(sum)'
    BY <2>1, <2>2, <2>3, <1>s DEF Accounts
  <2>4. CASE ~Work(p)
    <3>1. UNCHANGED <<ticks, spent>>
      <4>1. ASSUME Fork(p) PROVE UNCHANGED <<ticks, spent>>
        BY <4>1 DEF Fork
      <4> QED
        BY <4>1, <2>4, <1>5 DEF Exit, Reap
    <3> QED
      BY <3>1, <2>1, <2>2, <2>3 DEF WorkInv
  <2>5. CASE Work(p) /\ p \notin kin
    <3>1. spent' = spent /\ p \notin DOMAIN before
      BY <2>5, <1>k DEF Work
    <3>2. \A q \in DOMAIN before : ticks'[q] = ticks[q]
      BY <3>1, <2>5, <1>0 DEF Work
    <3>3. Accounts(sum)'
      BY <3>1, <3>2, <2>1, <2>2, <1>s DEF Accounts
    <3> QED
      BY <3>3, <2>1, <2>2 DEF WorkInv
  <2>6. CASE Work(p) /\ p \in kin
    <3>1. /\ spent' = spent + 1 /\ UNCHANGED <<kin, status>>
          /\ \A q \in Pids : ticks'[q] = IF q = p THEN ticks[q] + 1 ELSE ticks[q]
      BY <2>6, <1>0 DEF Work
    <3>2. PICK more \in [0..MaxPid -> Nat] :
            more = [i \in 0..MaxPid |-> IF i >= p THEN sum[i] + 1 ELSE sum[i]]
      <4>1. \A i \in 0..MaxPid : sum[i] \in Nat /\ sum[i] + 1 \in Nat
        BY <1>s
      <4> QED
        BY <4>1
    <3>3. \A i \in 0..MaxPid : sum[i] \in Nat /\ more[i] = IF i >= p THEN sum[i] + 1 ELSE sum[i]
      BY <3>2, <1>s
    <3>4. more[0] = 0 /\ more[MaxPid] = spent'
      BY <3>1, <3>3, <1>0, <1>s DEF Accounts
    <3>5. ASSUME NEW q \in Pids
          PROVE  /\ q \in Nat /\ p \in Nat /\ sum[q] \in Nat /\ sum[q - 1] \in Nat
                 /\ more[q] = IF q >= p THEN sum[q] + 1 ELSE sum[q]
                 /\ more[q - 1] = IF q > p THEN sum[q - 1] + 1 ELSE sum[q - 1]
                 /\ sum[q - 1] <= sum[q] /\ more[q - 1] <= more[q]
      <4>1. q - 1 \in 0..MaxPid /\ q \in 0..MaxPid /\ sum[q - 1] <= sum[q]
        BY <1>0, <1>s DEF Accounts
      <4>2. q \in Nat /\ p \in Nat /\ (q - 1 >= p <=> q > p)
        BY <1>0
      <4>3. /\ sum[q] \in Nat /\ more[q] = IF q >= p THEN sum[q] + 1 ELSE sum[q]
            /\ sum[q - 1] \in Nat
            /\ more[q - 1] = IF q - 1 >= p THEN sum[q - 1] + 1 ELSE sum[q - 1]
        BY <4>1, <3>3
      <4> QED
        BY ONLY <4>1, <4>2, <4>3
    <3>6. ASSUME NEW i \in 0..MaxPid PROVE more[i] <= spent'
      <4>1. sum[i] <= spent
        BY <1>s DEF Accounts
      <4>2. sum[i] \in Nat /\ more[i] \in {sum[i], sum[i] + 1}
        BY <3>3
      <4> QED
        BY <4>1, <4>2, <3>1, <1>0
    <3>7. ASSUME NEW q \in DOMAIN before, q \in Entries'
          PROVE  ticks'[q] - before[q] <= more[q] - more[q - 1]
      <4>1. q \in Pids /\ q \in Entries
        BY <3>7, <2>2, <1>0
      <4>2. ticks[q] - before[q] <= sum[q] - sum[q - 1]
        BY <4>1, <1>s DEF Accounts
      <4>3. ticks[q] \in Nat /\ before[q] \in Nat
        BY <4>1, <1>0
      <4>4. ticks'[q] = IF q = p THEN ticks[q] + 1 ELSE ticks[q]
        BY <4>1, <3>1
      <4>5. /\ q \in Nat /\ p \in Nat /\ sum[q] \in Nat /\ sum[q - 1] \in Nat
            /\ more[q] = IF q >= p THEN sum[q] + 1 ELSE sum[q]
            /\ more[q - 1] = IF q > p THEN sum[q - 1] + 1 ELSE sum[q - 1]
        BY <4>1, <3>5
      <4>6. PICK t : t = ticks'[q]
        OBVIOUS
      <4>7. t = IF q = p THEN ticks[q] + 1 ELSE ticks[q]
        BY <4>4, <4>6
      <4>8. t - before[q] <= more[q] - more[q - 1]
        <5>1. CASE q = p
          BY ONLY <5>1, <4>2, <4>3, <4>5, <4>7
        <5>2. CASE q # p
          <6>1. more[q] - more[q - 1] = sum[q] - sum[q - 1]
            BY ONLY <5>2, <4>5
          <6> QED
            BY ONLY <5>2, <6>1, <4>2, <4>7
        <5> QED
          BY <5>1, <5>2
      <4> QED
        BY <4>6, <4>8
    <3>8. delta <= more[at - 1]
      <4>1. at - 1 \in 0..MaxPid /\ delta <= sum[at - 1]
        BY <1>0, <1>s DEF Accounts
      <4>2. PICK i \in 0..MaxPid : i = at - 1
        BY <4>1
      <4>3. delta <= sum[i] /\ delta \in Nat
        BY <4>1, <4>2, <1>0
      <4>4. sum[i] \in Nat /\ more[i] \in {sum[i], sum[i] + 1}
        BY <3>3
      <4>5. delta <= more[i]
        BY ONLY <4>3, <4>4
      <4> QED
        BY <4>2, <4>5
    <3>9. Accounts(more)'
      BY <3>4, <3>5, <3>6, <3>7, <3>8, <2>1 DEF Accounts
    <3> QED
      BY <3>9, <2>1, <2>2 DEF WorkInv
  <2> QED
    BY <2>4, <2>5, <2>6
<1>6. CASE UNCHANGED vars
  <2>1. /\ UNCHANGED <<status, ticks, kin, before, delta, spent, phase, at>>
        /\ Entries' = Entries
    BY <1>6 DEF vars, tree, sample, Entries
  <2>2. Accounts(sum)'
    BY <2>1, <1>s DEF Accounts
  <2> QED
    BY <2>1, <2>2, <1>k DEF WorkInv
<1> QED
  BY <1>1, <1>2, <1>3, <1>4, <1>5, <1>6 DEF Next, Sampler

(* What CountInv says of a set once the second look reads the states.      *)
Counted(set) ==
  /\ set \subseteq Pids /\ Cardinality(set) = live
  /\ \A p \in set : Passed(p)
  /\ \A p \in Descendants(ppids) : Passed(p) /\ status[p] = "running" => p \in set

(* A set of processes is finite, and one more process is one more.         *)
LEMMA SetsOfPids ==
  ASSUME NEW set \in SUBSET Pids, NEW p \in Pids, p \notin set
  PROVE  Cardinality(set \union {p}) = Cardinality(set) + 1
<1>1. IsFiniteSet(Pids)
  BY PidBound, FS_Interval DEF Pids
<1>2. IsFiniteSet(set)
  BY <1>1, FS_Subset
<1> QED
  BY <1>2, FS_AddElement

(* The count misses nobody the sampler has passed and who still runs.      *)
LEMMA CountInductive ==
  TypeOK /\ PlaceInv /\ TreeInv /\ KinInv /\ MapInv /\ CountInv /\ [Next]_vars => CountInv'
<1> SUFFICES ASSUME TypeOK, PlaceInv, TreeInv, KinInv, MapInv, CountInv, [Next]_vars
             PROVE  CountInv'
  OBVIOUS
<1>0. /\ MaxPid \in Nat /\ Pids = 1..MaxPid /\ at \in 1..(MaxPid + 1)
      /\ DOMAIN ppids \subseteq Pids /\ Descendants(ppids) \subseteq DOMAIN ppids
  BY PidBound DEF Pids, TypeOK, Descendants
<1>1. CASE Scan \/ Before \/ ScanAgain
  BY <1>1 DEF Scan, Before, ScanAgain, CountInv
<1>2. CASE EndScan
  <2>1. live = 0 /\ live' = 0 /\ phase' \in {"before", "state"} /\ at' = 1
    BY <1>2 DEF EndScan, CountInv
  <2>2. Cardinality({}) = 0
    BY FS_EmptySet
  <2>3. Descendants(ppids') \subseteq Pids
    BY <1>0, <1>2 DEF EndScan
  <2>4. \A p \in Pids : phase' = "state" => ~(p < at' \/ (p = at' /\ phase' = "ticks"))
    BY <2>1, <1>0
  <2>5. phase' = "state" => Counted({})'
    BY <2>1, <2>2, <2>3, <2>4 DEF Counted, Passed
  <2> QED
    BY <2>1, <2>5 DEF CountInv, Counted
<1>3. CASE ReadState
  <2>1. PICK set : Counted(set)
    BY <1>3 DEF ReadState, CountInv, Counted
  <2>2. /\ UNCHANGED <<status, ppids>> /\ phase = "state" /\ at \in Pids
        /\ Descendants(ppids') = Descendants(ppids)
    BY <1>0, <1>3 DEF ReadState, tree
  <2>3. \A p \in set : p \in Pids /\ p < at
    BY <2>1, <2>2 DEF Counted, Passed
  <2>4. CASE at \in Descendants(ppids) /\ Counts(at)
    <3>1. live' = live + 1 /\ phase' = "ticks" /\ at' = at
      BY <1>3, <2>4 DEF ReadState
    <3>2. at \notin set
      BY <2>2, <2>3, <1>0
    <3>3. Cardinality(set \union {at}) = live'
      BY <3>1, <3>2, <2>1, <2>2, SetsOfPids DEF Counted
    <3>4. Counted(set \union {at})'
      BY <3>1, <3>3, <2>1, <2>2, <2>3 DEF Counted, Passed
    <3> QED
      BY <3>1, <3>4 DEF CountInv, Counted
  <2>5. CASE ~(at \in Descendants(ppids) /\ Counts(at))
    <3>1. live' = live /\ phase' = phase /\ at' = at + 1
      BY <1>3, <2>5 DEF ReadState
    <3>2. \A p \in Pids : p < at + 1 <=> p < at \/ p = at
      BY <2>2, <1>0
    <3>3. Counted(set)'
      BY <3>1, <3>2, <2>1, <2>2, <2>3, <2>5, <1>0 DEF Counted, Passed, Counts
    <3> QED
      BY <3>1, <3>3, <2>2 DEF CountInv, Counted
  <2> QED
    BY <2>4, <2>5
<1>4. CASE ReadTicks
  <2>1. PICK set : Counted(set)
    BY <1>4 DEF ReadTicks, CountInv, Counted
  <2>2. /\ UNCHANGED <<status, ppids, live>> /\ phase = "ticks" /\ phase' = "state"
        /\ at' = at + 1 /\ at \in Pids /\ Descendants(ppids') = Descendants(ppids)
    BY <1>4 DEF ReadTicks, tree, PlaceInv
  <2>3. \A p \in Pids : p < at + 1 <=> p < at \/ p = at
    BY <2>2, <1>0
  <2>4. Counted(set)'
    BY <2>1, <2>2, <2>3, <1>0 DEF Counted, Passed
  <2> QED
    BY <2>2, <2>4 DEF CountInv, Counted
<1>5. CASE Publish
  <2>1. PICK set : Counted(set)
    BY <1>5 DEF Publish, CountInv, Counted
  <2>2. /\ UNCHANGED <<status, ppids, live, at>> /\ phase = "state" /\ phase' = "done"
        /\ Descendants(ppids') = Descendants(ppids)
    BY <1>5 DEF Publish, tree
  <2>3. Counted(set)'
    BY <2>1, <2>2 DEF Counted, Passed
  <2> QED
    BY <2>2, <2>3 DEF CountInv, Counted
<1>6. ASSUME NEW p \in Pids, Fork(p) \/ Work(p) \/ Exit(p) \/ Reap(p) PROVE CountInv'
  <2>1. UNCHANGED <<ppids, live, at, phase>> /\ Descendants(ppids') = Descendants(ppids)
    BY <1>6, ProcessesKeep DEF sample
  <2>2. \A q \in DOMAIN ppids : status'[q] = "running" => status[q] = "running"
    <3> SUFFICES ASSUME NEW q \in DOMAIN ppids PROVE status'[q] = "running" => status[q] = "running"
      OBVIOUS
    <3>1. q \in Pids /\ status[q] # "none"
      BY <1>0 DEF MapInv
    <3> QED
      BY <3>1, <1>6, ProcessesKeep
  <2>3. ASSUME NEW set, Counted(set) PROVE Counted(set)'
    BY <2>1, <2>2, <2>3, <1>0 DEF Counted, Passed
  <2>4. CASE phase \in {"state", "ticks", "done"}
    <3>1. PICK set : Counted(set)
      BY <2>4 DEF CountInv, Counted
    <3>2. Counted(set)'
      BY <3>1, <2>3
    <3> QED
      BY <3>2, <2>1, <2>4 DEF CountInv, Counted
  <2>5. CASE phase \notin {"state", "ticks", "done"}
    BY <2>5, <2>1 DEF CountInv
  <2> QED
    BY <2>4, <2>5
<1>7. CASE UNCHANGED vars
  <2>1. UNCHANGED <<status, ppids, live, at, phase>> /\ Descendants(ppids') = Descendants(ppids)
    BY <1>7 DEF vars, tree, sample
  <2>2. ASSUME NEW set, Counted(set) PROVE Counted(set)'
    BY <2>1, <2>2 DEF Counted, Passed
  <2> QED
    BY <2>1, <2>2 DEF CountInv, Counted
<1> QED
  BY <1>1, <1>2, <1>3, <1>4, <1>5, <1>6, <1>7 DEF Next, Sampler

-----------------------------------------------------------------------------
(* The beginning, and the promises. *)

(* At the start Root's kin is the processes below it, and the children of  *)
(* kin are kin.                                                            *)
LEMMA KinInitial ==
  ASSUME TypeOK, TreeInv, kin = Below, \A p \in Pids : status[p] \in {"running", "none"}
  PROVE  KinInv
<1>0. /\ MaxPid \in Nat /\ Pids = 1..MaxPid /\ Root \in Pids /\ 1 \in Pids /\ Root # 1
      /\ Root \in Nat /\ Root > 1
      /\ parent \in [Pids -> 0..MaxPid]
      /\ Root \in Entries /\ 1 \in Entries
  BY PidBound, RootIsPid DEF Pids, TypeOK, Entries, TreeInv
<1>1. Root \in Below
  <2>1. PICK u : Line(Root, u) /\ (Root \in Below <=> \E n \in 0..MaxPid : u[n] = Root)
    BY <1>0, BelowIs
  <2> QED
    BY <1>0, <2>1 DEF Line
<1>2. 1 \notin Below
  <2>1. PICK u : Line(1, u) /\ (1 \in Below <=> \E n \in 0..MaxPid : u[n] = Root)
    BY <1>0, BelowIs
  <2>2. 0 \in 0..MaxPid /\ u[0] \in {0, 1}
    BY <1>0, <2>1 DEF Line
  <2>3. \A n \in 0..MaxPid : u[n] \in {0, 1}
    BY <1>0, <2>1, <2>2, LineEnds DEF TreeInv
  <2> QED
    BY <1>0, <2>1, <2>3
<1>3. ASSUME NEW p \in Pids, parent[p] \in Below PROVE p \in Below
  <2>1. PICK q : q = parent[p]
    OBVIOUS
  <2>2. /\ q \in Pids /\ q \in Entries /\ q \in Nat /\ q < p /\ p \in Nat /\ p <= MaxPid
        /\ p \in Entries
    BY <1>0, <1>3, <2>1 DEF Below, TreeInv, Entries
  <2>3. PICK u : Line(p, u) /\ (p \in Below <=> \E n \in 0..MaxPid : u[n] = Root)
    BY <2>2, BelowIs
  <2>4. PICK v : Line(q, v) /\ (q \in Below <=> \E n \in 0..MaxPid : v[n] = Root)
    BY <2>2, BelowIs
  <2>5. PICK n \in 0..MaxPid : v[n] = Root
    BY <1>3, <2>1, <2>4
  <2>6. \A k \in 0..MaxPid : v[k] = 0 \/ v[k] <= q - k
    <3>1. PICK S : S = {k \in 0..MaxPid : v[k] = 0 \/ v[k] <= q - k}
      OBVIOUS
    <3>2. 0 \in S
      BY <1>0, <2>2, <2>4, <3>1 DEF Line
    <3>3. ASSUME NEW k \in 1..MaxPid, k - 1 \in S PROVE k \in S
      <4>1. PICK w : w = v[k - 1]
        OBVIOUS
      <4>2. /\ v[k] = IF w = 0 THEN 0 ELSE parent[w]
            /\ w \in 0..MaxPid /\ (w = 0 \/ w <= q - (k - 1)) /\ k - 1 \in 0..MaxPid
        BY <1>0, <2>4, <3>1, <3>3, <4>1 DEF Line, PidsAndNone
      <4>3. w # 0 => parent[w] \in 0..MaxPid /\ (parent[w] = 0 \/ parent[w] < w)
        BY <1>0, <4>2 DEF TreeInv
      <4>4. v[k] = 0 \/ v[k] <= q - k
        BY <1>0, <2>2, <4>2, <4>3
      <4> QED
        BY <3>1, <4>4, <1>0
    <3>4. 0..MaxPid \subseteq S
      BY <1>0, <3>2, <3>3, IntervalInduction
    <3> QED
      BY <3>1, <3>4
  <2>7. n + 1 \in 0..MaxPid
    <3>1. Root <= q - n
      BY <1>0, <2>5, <2>6
    <3> QED
      BY <3>1, <1>0, <2>2
  <2>8. u[n + 1] = v[n]
    <3>1. PICK S : S = {k \in 0..MaxPid : k + 1 <= MaxPid => u[k + 1] = v[k]}
      OBVIOUS
    <3>2. 0 \in S
      <4>1. u[0] = p /\ v[0] = q /\ p # 0
        BY <1>0, <2>3, <2>4, <2>2 DEF Line
      <4>2. 1 \in 1..MaxPid /\ 1 - 1 = 0
        BY <1>0
      <4>3. u[1] = q
        BY <4>1, <4>2, <2>1, <2>3 DEF Line
      <4> QED
        BY <4>1, <4>3, <3>1, <1>0
    <3>3. ASSUME NEW k \in 1..MaxPid, k - 1 \in S PROVE k \in S
      <4> SUFFICES ASSUME k + 1 <= MaxPid PROVE u[k + 1] = v[k]
        BY <3>1
      <4>1. k + 1 \in 1..MaxPid /\ (k + 1) - 1 = k /\ (k - 1) + 1 = k /\ k <= MaxPid
        BY <1>0
      <4>2. u[k] = v[k - 1]
        BY <4>1, <3>1, <3>3
      <4>3. u[k + 1] = IF u[k] = 0 THEN 0 ELSE parent[u[k]]
        BY <4>1, <2>3 DEF Line
      <4>4. v[k] = IF v[k - 1] = 0 THEN 0 ELSE parent[v[k - 1]]
        BY <2>4 DEF Line
      <4> QED
        BY <4>2, <4>3, <4>4
    <3>4. 0..MaxPid \subseteq S
      BY <1>0, <3>2, <3>3, IntervalInduction
    <3>5. n + 1 <= MaxPid
      BY <2>7, <1>0
    <3> QED
      BY <3>1, <3>4, <3>5
  <2> QED
    BY <2>3, <2>5, <2>7, <2>8
<1>4. \A p \in Below : status[p] # "none"
  BY DEF Below, Entries
<1> QED
  BY <1>1, <1>2, <1>3, <1>4 DEF KinInv

(* The invariant holds of every tree the sample may begin with.            *)
LEMMA SampleInitial == Init => SampleInv
<1> SUFFICES ASSUME Init PROVE SampleInv
  OBVIOUS
<1>0. /\ MaxPid \in Nat /\ MaxTicks \in Nat /\ Pids = 1..MaxPid /\ Root \in 2..MaxPid
  BY PidBound, TicksArePositive, RootIsPid DEF Pids
<1>1. PICK n \in Root..MaxPid :
        /\ status = [p \in Pids |-> IF p <= n THEN "running" ELSE "none"]
        /\ parent \in [Pids -> 0..MaxPid]
        /\ \A p \in Pids : IF p \in 2..n THEN parent[p] \in 1..(p - 1) ELSE parent[p] = 0
        /\ ticks = [p \in Pids |-> IF p <= n THEN 1 ELSE 0]
  BY DEF Init
<1>2. /\ phase = "scan1" /\ at = 1 /\ ppids = NoMap /\ before = NoMap
      /\ delta = 0 /\ live = 0 /\ spent = 0 /\ kin = Below /\ elder = Entries
  BY DEF Init
<1>3. DOMAIN NoMap = {} /\ Entries \subseteq Pids /\ Below \subseteq Pids
  BY DEF NoMap, Entries, Below
<1>4. n \in Nat /\ n <= MaxPid /\ Root <= n /\ Root \in Nat /\ Root > 1
  BY <1>0
<1>5. \A p \in Pids : status[p] = IF p <= n THEN "running" ELSE "none"
  BY <1>1
<1>6. TypeOK /\ PlaceInv
  <2>1. status \in [Pids -> {"none", "running", "zombie", "gone"}]
    BY <1>1
  <2>2. ticks \in [Pids -> 0..MaxTicks]
    <3>1. 0 \in 0..MaxTicks /\ 1 \in 0..MaxTicks
      BY TicksArePositive
    <3> QED
      BY <3>1, <1>1
  <2>3. phase \in Phases /\ at \in 1..(MaxPid + 1)
    BY <1>0, <1>2 DEF Phases
  <2> QED
    BY <1>0, <1>1, <1>2, <1>3, <2>1, <2>2, <2>3 DEF TypeOK, PlaceInv
<1>7. TreeInv
  <2>1. status[1] = "running" /\ parent[1] = 0 /\ status[Root] = "running"
    BY <1>0, <1>1, <1>4, <1>5
  <2>2. ASSUME NEW p \in Pids, parent[p] # 0 PROVE status[parent[p]] = "running" /\ parent[p] < p
    <3>1. p \in 2..n /\ parent[p] \in 1..(p - 1)
      BY <1>1, <2>2
    <3>2. parent[p] \in Pids /\ parent[p] <= n /\ parent[p] < p
      BY <3>1, <1>0, <1>4
    <3> QED
      BY <3>2, <1>5
  <2>3. ASSUME NEW p \in Pids, status[p] = "none"
        PROVE  parent[p] = 0 /\ \A q \in Pids : q > p => status[q] = "none"
    <3>1. ~(p <= n)
      BY <1>5, <2>3
    <3>2. p \notin 2..n
      BY <3>1, <1>0, <1>4
    <3>3. \A q \in Pids : q > p => ~(q <= n)
      BY <3>1, <1>0, <1>4
    <3> QED
      BY <3>2, <3>3, <1>1, <1>5
  <2> QED
    BY <2>1, <2>2, <2>3 DEF TreeInv
<1>8. KinInv
  BY <1>2, <1>5, <1>6, <1>7, KinInitial
<1>9. MapInv
  <2>1. ASSUME NEW p \in Entries
        PROVE  /\ status[p] # "none" /\ ~(p < 1)
               /\ parent[p] \notin {0, 1} => parent[p] \in Entries
    BY <1>0, <1>6, <1>7 DEF Entries, TreeInv, TypeOK
  <2> QED
    BY <1>2, <1>3, <2>1 DEF MapInv, Scanned
<1>10. WorkInv
  <2>1. PICK sum \in [0..MaxPid -> Nat] : sum = [i \in 0..MaxPid |-> 0]
    OBVIOUS
  <2>2. \A i \in 0..MaxPid : sum[i] = 0
    BY <2>1
  <2>3. 0 \in 0..MaxPid /\ MaxPid \in 0..MaxPid /\ \A p \in Pids : p - 1 \in 0..MaxPid /\ p \in 0..MaxPid
    BY <1>0
  <2>4. Accounts(sum)
    BY <1>2, <1>3, <2>2, <2>3 DEF Accounts
  <2> QED
    BY <1>2, <1>3, <2>4 DEF WorkInv
<1>11. CountInv
  BY <1>2 DEF CountInv
<1> QED
  BY <1>6, <1>7, <1>8, <1>9, <1>10, <1>11 DEF SampleInv

(* A sample, and the tree under it, keep the invariant.                    *)
THEOREM SampleHolds == Spec => []SampleInv
<1>1. SampleInv /\ [Next]_vars => SampleInv'
  BY TypeInductive, TreeInductive, KinInductive, MapInductive, WorkInductive, CountInductive
     DEF SampleInv
<1> QED
  BY <1>1, SampleInitial, PTL DEF Spec

(* The variables keep their types, however many processes there are.       *)
THEOREM TypesHold == Spec => []TypeOK
<1>1. SampleInv => TypeOK
  BY DEF SampleInv
<1> QED
  BY <1>1, SampleHolds, PTL

(* No process of a small tree is ever further down than that.              *)
LEMMA FewNeverGoDeeper == Few => (Spec => []WithinReach)
<1> SUFFICES ASSUME Few PROVE Spec => []WithinReach
  OBVIOUS
<1>1. SampleInv => WithinReach
  BY FewAreWithinReach DEF SampleInv
<1> QED
  BY <1>1, SampleHolds, PTL

(* No process is sampled that is not Root or was not born below it; and    *)
(* one that was there when the scan began and is still below Root when it  *)
(* ends is in the list, unless some process is then further down than      *)
(* descendants() climbs.                                                   *)
THEOREM ListHolds ==
  Spec => [](Descendants(ppids) \subseteq kin /\ (WithinReach => ListIsOfTheTree))
<1>1. SampleInv => Descendants(ppids) \subseteq kin
  BY ListedAreKin DEF SampleInv
<1>2. ASSUME SampleInv, WithinReach PROVE ListIsOfTheTree
  <2>1. phase \in {"before", "state"} => Below \intersect elder \subseteq Descendants(ppids)
    BY <1>2, ScannedAreListed DEF SampleInv
  <2> QED
    BY <1>1, <1>2, <2>1 DEF ListIsOfTheTree
<1>3. SampleInv => Descendants(ppids) \subseteq kin /\ (WithinReach => ListIsOfTheTree)
  BY <1>1, <1>2
<1> QED
  BY <1>3, SampleHolds, PTL

(* No tick is in the sample that Root's processes did not use while it was *)
(* taken, whatever exits or is reaped between the two looks.               *)
THEOREM WorkHolds == Spec => []WorkIsReal
<1>1. ASSUME SampleInv PROVE WorkIsReal
  <2>1. PICK sum \in [0..MaxPid -> Nat] : Accounts(sum)
    BY <1>1 DEF SampleInv, WorkInv
  <2>2. MaxPid \in Nat /\ at \in 1..(MaxPid + 1) /\ delta \in Nat /\ spent \in Nat
    BY <1>1, PidBound DEF SampleInv, TypeOK
  <2>3. at - 1 \in 0..MaxPid
    BY <2>2
  <2>4. delta <= sum[at - 1] /\ sum[at - 1] <= spent /\ sum[at - 1] \in Nat
    BY <2>1, <2>3 DEF Accounts
  <2> QED
    BY <2>2, <2>4 DEF WorkIsReal
<1> QED
  BY <1>1, SampleHolds, PTL

(* The live count of a published sample is at least the number of          *)
(* processes that were there before the second look, are still below Root  *)
(* and run.                                                                *)
THEOREM LiveHolds == Spec => [](WithinReach => LiveAreCounted)
<1>1. ASSUME SampleInv, WithinReach PROVE LiveAreCounted
  <2> SUFFICES ASSUME phase = "done"
               PROVE  live >= Cardinality({p \in Below \intersect elder : status[p] = "running"})
    BY DEF LiveAreCounted
  <2>1. PICK set : Counted(set)
    BY <1>1 DEF SampleInv, CountInv, Counted
  <2>2. PICK runs : runs = {p \in Below \intersect elder : status[p] = "running"}
    OBVIOUS
  <2>3. MaxPid \in Nat /\ at = MaxPid + 1 /\ \A p \in Pids : Passed(p)
    BY <1>1, PidBound DEF SampleInv, PlaceInv, Passed, Pids
  <2>4. Below \intersect elder \subseteq Descendants(ppids) /\ Below \subseteq Pids
    BY <1>1, ScannedAreListed DEF SampleInv, Below, Entries
  <2>5. runs \subseteq set
    BY <2>1, <2>2, <2>3, <2>4 DEF Counted
  <2>6. IsFiniteSet(set)
    <3>1. IsFiniteSet(Pids)
      BY PidBound, FS_Interval DEF Pids
    <3>2. set \in SUBSET Pids
      BY <2>1 DEF Counted
    <3> QED
      BY <3>1, <3>2, FS_Subset
  <2>7. Cardinality(runs) <= Cardinality(set)
    BY <2>5, <2>6, FS_Subset
  <2>8. Cardinality(runs) \in Nat /\ Cardinality(set) \in Nat
    BY <2>5, <2>6, FS_Subset, FS_CardinalityType
  <2> QED
    BY <2>1, <2>2, <2>7, <2>8 DEF Counted
<1> QED
  BY <1>1, SampleHolds, PTL

(* The list and the live count of a sample are true of the tree, unless    *)
(* some process is further down than descendants() climbs.                 *)
THEOREM TruthHolds == Spec => [](WithinReach => SampleIsOfTheTree)
<1>1. /\ Descendants(ppids) \subseteq kin /\ (WithinReach => ListIsOfTheTree)
      /\ WithinReach => LiveAreCounted
      => (WithinReach => SampleIsOfTheTree)
  BY DEF SampleIsOfTheTree
<1> QED
  BY <1>1, ListHolds, LiveHolds, PTL

=============================================================================
