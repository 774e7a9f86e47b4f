--------------------------- MODULE AlgorithmProofs ---------------------------
(***************************************************************************)
(* Proofs about the sequential algorithms, each with the specification its *)
(* own actions make: the follower of the log, the output filter (its       *)
(* verdict on a command, the lines it shows, the errors it collects), the  *)
(* recognition of the prompt, the calendar, and the command line.  Their   *)
(* bounds are constants like any other here, and so the proofs are for     *)
(* logs, outputs, streams, days and lines without end.                     *)
(***************************************************************************)
EXTENDS OutputFilterProps, Calendar, PromptMatcher, LogFollow, CliArgs,
  SequenceTheorems, FiniteSetTheorems, WellFoundedInduction, TLAPS

-----------------------------------------------------------------------------
(* The follower of the log. *)

FollowSpec == FollowInit /\ [][FollowNext]_follow

(* What is between the follower's position and the length it has taken is  *)
(* in the log when it reads, and it prints that or cannot decode it.       *)
FollowInv ==
  /\ {size, pos, found} \subseteq Nat
  /\ pos <= size /\ found <= size
  /\ step = "read" => pos <= found
  /\ 1..pos \subseteq printed \union lost

(* A follower of a log of any length misses only what it could not decode, *)
(* whenever the daemon appends.                                            *)
THEOREM FollowHolds == FollowSpec => []FollowMissesNothing
<1>1. FollowInit => FollowInv
  BY DEF FollowInit, FollowInv
<1>2. FollowInv /\ [FollowNext]_follow => FollowInv'
  <2> SUFFICES ASSUME FollowInv, [FollowNext]_follow PROVE FollowInv'
    OBVIOUS
  <2>0. size \in Nat /\ pos \in Nat /\ found \in Nat /\ MaxLog \in Nat
    BY LogBounds DEF FollowInv
  <2>1. CASE LogGrows
    <3>1. size' \in Nat /\ size' > size
      BY <2>0, <2>1 DEF LogGrows
    <3>2. UNCHANGED <<printed, pos, found, step, lost>>
      BY <2>1 DEF LogGrows
    <3> QED
      BY <2>0, <3>1, <3>2 DEF FollowInv
  <2>2. CASE ReadSnapshot
    BY <2>0, <2>2 DEF ReadSnapshot, FollowInv, Decoded
  <2>3. CASE TakeLength
    BY <2>0, <2>3 DEF TakeLength, FollowInv
  <2>4. CASE ReadAppended
    BY <2>0, <2>4 DEF ReadAppended, FollowInv, Decoded
  <2>5. CASE UNCHANGED follow
    BY <2>5 DEF follow, FollowInv
  <2> QED
    BY <2>1, <2>2, <2>3, <2>4, <2>5 DEF FollowNext
<1>3. FollowInv => FollowMissesNothing
  BY DEF FollowInv, FollowMissesNothing
<1> QED
  BY <1>1, <1>2, <1>3, PTL DEF FollowSpec

-----------------------------------------------------------------------------
(* The verdict on a command. *)

FilterSpec == FilterInit /\ [][FilterNext]_filter

Lines == [class : Classes, indented : BOOLEAN, same : 0..EchoLines, own : BOOLEAN,
          caught : BOOLEAN]

(* What is printed is a line.                                              *)
LEMMA OwnLineType ==
  ASSUME NEW line \in OwnLines
  PROVE  line \in Lines /\ line.own
<1>0. EchoLines \in Nat /\ 0 \in 0..EchoLines /\ EchoLines \in 0..EchoLines
      /\ 1 \in 0..EchoLines /\ 2..(EchoLines - 1) \subseteq 0..EchoLines
  BY LineBounds
<1>1. ASSUME NEW c \in Classes, NEW i \in BOOLEAN, NEW s \in 0..EchoLines, NEW b \in BOOLEAN,
             line = Printed(c, i, s, b)
      PROVE  line \in Lines /\ line.own
  BY <1>1 DEF Printed, Lines
<1>2. "plain" \in Classes /\ "sentinel" \in Classes /\ Classes \ {"sentinel"} \subseteq Classes
  BY DEF Classes
<1>3. \/ \E c \in Classes, i \in BOOLEAN : line = Printed(c, i, 0, FALSE)
      \/ \E c \in Classes, s \in 0..EchoLines : line = Printed(c, FALSE, s, FALSE)
      \/ \E c \in Classes : line = Printed(c, FALSE, 0, TRUE)
  <2>1. CASE line \in {Printed(c, i, 0, FALSE) : c \in Classes \ {"sentinel"}, i \in BOOLEAN}
    BY <2>1 DEF Printed
  <2>2. CASE line \in {Printed(c, FALSE, s, FALSE) :
                       c \in Classes \ {"sentinel"}, s \in 2..(EchoLines - 1)}
    BY <1>0, <2>2 DEF Printed
  <2>3. CASE line \in {Printed("plain", FALSE, s, FALSE) : s \in {1, EchoLines}}
    BY <1>0, <1>2, <2>3 DEF Printed
  <2>4. CASE line \in {Printed(c, FALSE, 0, TRUE) : c \in {"sentinel", "plain"}}
    BY <1>2, <2>4 DEF Printed
  <2> QED
    BY <2>1, <2>2, <2>3, <2>4 DEF OwnLines, Printed
<1> QED
  BY <1>0, <1>1, <1>3

(* And so is what is echoed.                                               *)
LEMMA EchoLineType ==
  ASSUME NEW n \in 0..EchoLines, NEW s \in {0, n}
  PROVE  Echo(s) \in Lines /\ ~Echo(s).own /\ Echo(s).same = s
<1>1. s \in 0..EchoLines
  BY LineBounds
<1> QED
  BY <1>1 DEF Echo, Lines, Classes

(* The lines that make a command fail: an error message, and the sentinel. *)
Fails(line) == line.class \in {"error", "sentinel"}

(* The lines the filter sees, the sentinels among them.                    *)
Seen == DOMAIN fed \ skipped

(* An error is collected, or is being, exactly when there has been one;    *)
(* and a continuation can only continue an error there has been.           *)
VerdictInv ==
  /\ fed \in Seq(Lines) /\ skipped \subseteq DOMAIN fed
  /\ tcl # <<>> \/ errors # <<>> \/ current # <<>>
       <=> died \/ \E i \in Seen : Fails(fed[i])
  /\ last = "error" => current # <<>> \/ errors # <<>>
  /\ ~closed => ~died
  /\ closed => current = <<>>
  /\ closed \in BOOLEAN
  /\ errors \in Seq(Seq(Nat)) /\ current \in Seq(Nat) /\ tcl \in Seq(Nat)

(* A sequence with one more element is not empty.                          *)
LEMMA AppendIsFull ==
  ASSUME NEW S, NEW s \in Seq(S), NEW e \in S
  PROVE  Append(s, e) \in Seq(S) /\ Append(s, e) # <<>>
<1>1. Append(s, e) \in Seq(S) /\ Len(Append(s, e)) = Len(s) + 1 /\ Len(s) \in Nat
  BY AppendProperties, LenProperties
<1>2. Len(<<>>) = 0
  OBVIOUS
<1> QED
  BY <1>1, <1>2

(* A line is one line more, and fails if it does and is not skipped.       *)
LEMMA AppendsLine ==
  ASSUME fed \in Seq(Lines), skipped \subseteq DOMAIN fed, NEW line \in Lines,
         fed' = Append(fed, line), NEW echo \in BOOLEAN,
         skipped' = IF echo THEN skipped \union {Len(fed')} ELSE skipped
  PROVE  /\ fed' \in Seq(Lines) /\ Len(fed') \in Nat /\ skipped' \subseteq DOMAIN fed'
         /\ (\E i \in Seen' : Fails(fed'[i]))
              <=> (\E i \in Seen : Fails(fed[i])) \/ (~echo /\ Fails(line))
<1>1. PICK n \in Nat : n = Len(fed) + 1
  OBVIOUS
<1>2. /\ fed' \in Seq(Lines) /\ Len(fed') = n /\ DOMAIN fed' = 1..n /\ DOMAIN fed = 1..(n - 1)
      /\ fed'[n] = line /\ \A i \in DOMAIN fed : fed'[i] = fed[i]
  BY <1>1
<1>3. n \in DOMAIN fed' /\ n \notin DOMAIN fed /\ \A i : i \in DOMAIN fed' <=> i \in DOMAIN fed \/ i = n
  BY <1>1, <1>2
<1>4. skipped' = IF echo THEN skipped \union {n} ELSE skipped
  BY <1>2
<1>5. \A i : i \in Seen' <=> i \in Seen \/ (i = n /\ ~echo)
  BY <1>3, <1>4 DEF Seen
<1>6. \A i \in Seen : fed'[i] = fed[i]
  BY <1>2 DEF Seen
<1> QED
  BY <1>2, <1>3, <1>4, <1>5, <1>6

(* A line that is taken is counted as an error when it is one.             *)
LEMMA VerdictOfLine ==
  ASSUME VerdictInv, NEW line \in Lines, TakeLine(line)
  PROVE  VerdictInv'
<1>0. /\ fed \in Seq(Lines) /\ skipped \subseteq DOMAIN fed
      /\ errors \in Seq(Seq(Nat)) /\ current \in Seq(Nat) /\ tcl \in Seq(Nat)
  BY DEF VerdictInv
<1>1. PICK echo \in BOOLEAN : echo <=> IsExpectedEcho(line)
  OBVIOUS
<1>8. /\ fed' = Append(fed, line) /\ ~closed /\ closed' = closed /\ died' = died
      /\ skipped' = IF echo THEN skipped \union {Len(fed')} ELSE skipped
  BY <1>1 DEF TakeLine
<1>9. PICK n \in Nat : n = Len(fed')
  BY <1>0, <1>8, AppendsLine
<1>2. /\ fed' \in Seq(Lines) /\ Len(fed') = n /\ skipped' \subseteq DOMAIN fed'
      /\ ~closed /\ closed' = closed /\ died' = died
      /\ (\E i \in Seen' : Fails(fed'[i]))
           <=> (\E i \in Seen : Fails(fed[i])) \/ (~IsExpectedEcho(line) /\ Fails(line))
  BY <1>0, <1>1, <1>8, <1>9, AppendsLine
<1>3. Fails(line) <=> line.class \in {"error", "sentinel"}
  BY DEF Fails
<1>5. CASE IsExpectedEcho(line)
  <2>1. UNCHANGED <<last, errors, current, tcl>>
    BY <1>5 DEF TakeLine
  <2> QED
    BY <1>2, <1>5, <2>1 DEF VerdictInv
<1>6. CASE ~IsExpectedEcho(line) /\ line.class = "sentinel"
  <2>1. tcl' = Append(tcl, n) /\ UNCHANGED <<last, errors, current>> /\ Fails(line)
    BY <1>2, <1>3, <1>6 DEF TakeLine
  <2>2. tcl' \in Seq(Nat) /\ tcl' # <<>>
    BY <1>0, <2>1, AppendIsFull
  <2> QED
    BY <1>2, <1>6, <2>1, <2>2 DEF VerdictInv
<1>7. CASE ~IsExpectedEcho(line) /\ line.class # "sentinel"
  <2>1. FeedLine(line, n) /\ UNCHANGED tcl
    BY <1>2, <1>7 DEF TakeLine
  <2>2. last' = Classify(line)
    BY <2>1 DEF FeedLine
  <2>3. CASE Classify(line) # "error"
    <3>1. UNCHANGED <<errors, current>>
      BY <2>1, <2>3 DEF FeedLine
    <3>2. ~Fails(line)
      BY <1>3, <1>7, <2>3 DEF Classify
    <3> QED
      BY <1>2, <1>7, <2>1, <2>2, <2>3, <3>1, <3>2 DEF VerdictInv
  <2>4. CASE Classify(line) = "error"
    <3>1. Fails(line) \/ \E i \in Seen : Fails(fed[i])
      <4>1. line.class = "error" \/ last = "error"
        BY <2>4 DEF Classify, IsContinuation
      <4> QED
        BY <1>2, <1>3, <4>1 DEF VerdictInv
    <3>2. current' \in Seq(Nat) /\ current' # <<>> /\ errors' \in Seq(Seq(Nat))
      <4>1. CASE current # <<>> /\ last = "error" /\ IsContinuation(line)
        <5>1. current' = Append(current, n) /\ errors' = errors
          BY <2>1, <2>4, <4>1 DEF FeedLine
        <5> QED
          BY <1>0, <5>1, AppendIsFull
      <4>2. CASE ~(current # <<>> /\ last = "error" /\ IsContinuation(line))
        <5>1. errors' = Flush(errors, current) /\ current' = <<n>>
          BY <2>1, <2>4, <4>2 DEF FeedLine
        <5>2. Flush(errors, current) \in Seq(Seq(Nat))
          BY <1>0 DEF Flush
        <5>3. <<n>> \in Seq(Nat) /\ <<n>> # <<>>
          OBVIOUS
        <5> QED
          BY <5>1, <5>2, <5>3
      <4> QED
        BY <4>1, <4>2
    <3> QED
      BY <1>2, <1>7, <2>1, <2>2, <3>1, <3>2 DEF VerdictInv
  <2> QED
    BY <2>3, <2>4
<1> QED
  BY <1>5, <1>6, <1>7

(* However many lines a command prints, and whatever the REPL echoes: it   *)
(* has failed when it is over exactly if Vivado died, or a line that was   *)
(* not taken for the echo is an error message or begins with the sentinel. *)
THEOREM FailureHolds == FilterSpec => []FailureIsReported
<1>0. EchoLines \in Nat /\ 0 \in 0..EchoLines /\ DOMAIN <<>> = {}
      /\ <<>> \in Seq(Lines) /\ <<>> \in Seq(Nat) /\ <<>> \in Seq(Seq(Nat))
  BY LineBounds
<1>1. FilterInit => VerdictInv
  BY <1>0 DEF FilterInit, VerdictInv, Seen
<1>2. VerdictInv /\ [FilterNext]_filter => VerdictInv'
  <2> SUFFICES ASSUME VerdictInv, [FilterNext]_filter PROVE VerdictInv'
    OBVIOUS
  <2>0. EchoLines \in Nat /\ EchoLines # 0 /\ fed \in Seq(Lines) /\ Len(fed) \in Nat
    BY LineBounds DEF VerdictInv
  <2>1. CASE EchoLine
    <3>1. PICK same \in {0, Len(fed) + 1} : TakeLine(Echo(same))
      BY <2>1 DEF EchoLine
    <3>2. Len(fed) + 1 \in 0..EchoLines
      BY <2>0, <2>1 DEF EchoLine
    <3>3. Echo(same) \in Lines
      BY <3>2, EchoLineType
    <3> QED
      BY <3>1, <3>3, VerdictOfLine
  <2>2. CASE PrintedLine
    <3>1. PICK line \in OwnLines : TakeLine(line)
      BY <2>2 DEF PrintedLine
    <3> QED
      BY <3>1, OwnLineType, VerdictOfLine
  <2>3. CASE Finish
    <3>1. /\ errors' = Flush(errors, current) /\ current' = <<>> /\ closed' = TRUE
          /\ died' \in BOOLEAN /\ ~died /\ tcl' = IF died' THEN Append(tcl, 0) ELSE tcl
          /\ UNCHANGED <<fed, last, skipped>>
      BY <2>3 DEF Finish, VerdictInv
    <3>2. errors \in Seq(Seq(Nat)) /\ current \in Seq(Nat) /\ tcl \in Seq(Nat)
      BY DEF VerdictInv
    <3>4. Append(tcl, 0) \in Seq(Nat) /\ Append(tcl, 0) # <<>>
      BY <3>2, AppendIsFull
    <3>5. tcl' \in Seq(Nat) /\ (tcl' # <<>> <=> tcl # <<>> \/ died')
      BY <3>1, <3>2, <3>4
    <3>6. (\E i \in Seen' : Fails(fed'[i])) <=> (\E i \in Seen : Fails(fed[i]))
      BY <3>1 DEF Seen
    <3>3. /\ Flush(errors, current) \in Seq(Seq(Nat))
          /\ Flush(errors, current) # <<>> <=> errors # <<>> \/ current # <<>>
      <4>1. Append(errors, current) \in Seq(Seq(Nat)) /\ Append(errors, current) # <<>>
        BY <3>2, AppendIsFull
      <4> QED
        BY <3>2, <4>1 DEF Flush
    <3> QED
      BY <3>1, <3>3, <3>5, <3>6 DEF VerdictInv
  <2>4. CASE NextCommand
    <3>1. /\ fed' = <<>> /\ skipped' = {} /\ last' = "retain" /\ closed' = FALSE
          /\ errors' = <<>> /\ current' = <<>> /\ tcl' = <<>> /\ died' = FALSE
      BY <2>4 DEF NextCommand
    <3> QED
      BY <3>1, <1>0 DEF VerdictInv, Seen
  <2>5. CASE UNCHANGED filter
    BY <2>5 DEF filter, VerdictInv, Seen
  <2> QED
    BY <2>1, <2>2, <2>3, <2>4, <2>5 DEF FilterNext
<1>3. VerdictInv => FailureIsReported
  BY DEF VerdictInv, FailureIsReported, Fails, Seen
<1> QED
  BY <1>1, <1>2, <1>3, PTL DEF FilterSpec

-----------------------------------------------------------------------------
(* The output and the errors that are shown. *)

(* A set of positions that is not empty has a last one, which Max chooses. *)
LEMMA MaxOf ==
  ASSUME NEW N \in Nat, NEW S, S \subseteq 1..N, S # {}
  PROVE  Max(S) \in S /\ \A y \in S : y <= Max(S)
<1>1. PICK R : R = {ss \in Nat \X Nat : ss[1] < ss[2]}
  OBVIOUS
<1>2. IsWellFoundedOn(R, Nat)
  BY <1>1, NatLessThanWellFounded DEF OpToRel
<1>3. PICK T : T = {x \in Nat : \E y \in S : x = N - y}
  OBVIOUS
<1>4. T \subseteq Nat /\ T # {}
  <2>1. PICK y : y \in S
    OBVIOUS
  <2>2. y \in 1..N
    BY <2>1
  <2>3. N - y \in Nat
    BY <2>2
  <2> QED
    BY <1>3, <2>1, <2>3
<1>5. PICK x \in T : \A z \in T : <<z, x>> \notin R
  BY ONLY <1>2, <1>4, WFMin
<1>6. PICK m \in S : x = N - m
  BY <1>3, <1>5
<1>7. ASSUME NEW y \in S PROVE y <= m
  <2>1. y \in 1..N /\ m \in 1..N
    OBVIOUS
  <2>2. PICK z \in Nat : z = N - y
    BY <2>1
  <2>3. z \in T
    BY <1>3, <2>2
  <2>4. <<z, x>> \notin R
    BY <1>5, <2>3
  <2>5. ~(z < x)
    BY <1>1, <1>4, <2>2, <2>4
  <2> QED
    BY <1>6, <2>1, <2>2, <2>5
<1>8. \A y \in S : m >= y
  <2>1. \A y \in S : y \in Int
    OBVIOUS
  <2> QED
    BY <1>7, <2>1
<1>9. Max(S) \in S /\ \A y \in S : Max(S) >= y
  BY <1>8 DEF Max
<1>10. ASSUME NEW y \in S PROVE y <= Max(S)
  <2>1. PICK z \in S : z = Max(S) /\ z >= y
    BY <1>9
  <2>2. y \in 1..N /\ z \in 1..N
    OBVIOUS
  <2> QED
    BY <2>1, <2>2
<1> QED
  BY <1>9, <1>10

(* A line that goes to the filter. *)
IsText(line) == ~IsExpectedEcho(line) /\ line.class # "sentinel"

(* What the filter does with a line that is governed by a message. *)
Fate(class) ==
  CASE class = "error" -> "error"
    [] class = "plain" -> "retain"
    [] class = "unlisted" -> IF ByList(file) THEN "retain" ELSE "suppress"
    [] OTHER -> "suppress"

(* A line is taken, and becomes the n-th. *)
Adds(line, n) ==
  /\ n \in Nat /\ n >= 1 /\ Len(fed) = n - 1 /\ Len(fed') = n
  /\ fed'[n] = line /\ \A i \in 1..(n - 1) : fed'[i] = fed[i]
  /\ Text \subseteq 1..(n - 1)
  /\ \A i : i \in Text' <=> i \in Text \/ (i = n /\ IsText(line))
  /\ file' = file

(* Which is what Append does. *)
LEMMA LineAdded ==
  ASSUME fed \in Seq(Lines), skipped \subseteq DOMAIN fed, NEW line \in Lines,
         fed' = Append(fed, line), file' = file,
         skipped' = IF IsExpectedEcho(line) THEN skipped \union {Len(fed')} ELSE skipped
  PROVE  fed' \in Seq(Lines) /\ skipped' \subseteq DOMAIN fed' /\ Adds(line, Len(fed) + 1)
<1>1. PICK n : n = Len(fed) + 1
  OBVIOUS
<1>2. /\ fed' \in Seq(Lines) /\ n \in Nat /\ n >= 1 /\ Len(fed) = n - 1 /\ Len(fed') = n
      /\ DOMAIN fed = 1..(n - 1) /\ DOMAIN fed' = 1..n
      /\ fed'[n] = line /\ \A i \in 1..(n - 1) : fed'[i] = fed[i]
  BY <1>1
<1>3. Text \subseteq 1..(n - 1)
  BY <1>2 DEF Text
<1>4. n \notin 1..(n - 1) /\ \A i : i \in 1..n <=> i \in 1..(n - 1) \/ i = n
  BY <1>2
<1>6. skipped' = IF IsExpectedEcho(line) THEN skipped \union {n} ELSE skipped
  BY <1>2
<1>7. n \notin skipped /\ (n \in skipped' <=> IsExpectedEcho(line))
      /\ \A i : i # n => (i \in skipped' <=> i \in skipped)
  BY <1>2, <1>4, <1>6
<1>5. \A i : i \in Text' <=> i \in Text \/ (i = n /\ IsText(line))
  BY <1>2, <1>4, <1>7 DEF Text, IsText
<1>8. skipped' \subseteq DOMAIN fed'
  BY <1>2, <1>4, <1>6
<1> QED
  BY <1>1, <1>2, <1>3, <1>5, <1>8 DEF Adds

(* The messages up to a line. *)
Leaders(i) == {j \in Text : j <= i /\ Leads(fed[j])}

(* The line that governs another is a line. *)
LEMMA LeaderIsLine ==
  ASSUME NEW N \in Nat, Text \subseteq 1..N, NEW i, Leaders(i) # {}
  PROVE  Max(Leaders(i)) \in Leaders(i)
BY MaxOf DEF Leaders

(* What governs a line does not change when others follow.                 *)
LEMMA EarlierGoverning ==
  ASSUME NEW line, NEW n, Adds(line, n), NEW i \in 0..(n - 1)
  PROVE  Governing(i)' = Governing(i)
<1>1. n \in Nat /\ n - 1 \in Nat /\ Text \subseteq 1..(n - 1)
  BY DEF Adds
<1>2. ASSUME NEW j PROVE j \in Text' /\ j <= i <=> j \in Text /\ j <= i
  BY <1>1 DEF Adds
<1>3. \A j \in Text : fed'[j] = fed[j]
  BY <1>1 DEF Adds
<1>4. Leaders(i)' = Leaders(i)
  BY <1>2, <1>3 DEF Leaders
<1>5. Leaders(i) # {} => fed'[Max(Leaders(i))] = fed[Max(Leaders(i))]
  BY <1>1, <1>3, LeaderIsLine DEF Leaders
<1> QED
  BY <1>4, <1>5 DEF Governing, Leaders

(* The last line governs itself when it leads.                             *)
LEMMA LatestGoverning ==
  ASSUME NEW line, NEW n, Adds(line, n)
  PROVE  Governing(n)' = IF IsText(line) /\ Leads(line) THEN line.class ELSE Governing(n - 1)
<1>1. n \in Nat /\ n - 1 \in Nat /\ Text \subseteq 1..(n - 1) /\ fed'[n] = line
  BY DEF Adds
<1>2. \A j \in Text : fed'[j] = fed[j]
  BY <1>1 DEF Adds
<1>3. \A j \in Text : j <= n /\ j <= n - 1 /\ j # n /\ j \in 1..n
  BY <1>1
<1>4. n \in 1..n
  BY <1>1 DEF Adds
<1>5. \A j : j \in Text' <=> j \in Text \/ (j = n /\ IsText(line))
  BY DEF Adds
<1>6. CASE IsText(line) /\ Leads(line)
  <2>1. n \in Leaders(n)'
    BY <1>1, <1>5, <1>6 DEF Leaders
  <2>2. Leaders(n)' \subseteq 1..n
    <3>1. \A j \in Leaders(n)' : j \in Text \/ j = n
      BY <1>5 DEF Leaders
    <3> QED
      BY <1>3, <1>4, <3>1
  <2>3. PICK S : S = Leaders(n)'
    OBVIOUS
  <2>4. Max(S) \in S /\ n <= Max(S)
    BY <1>1, <2>1, <2>2, <2>3, MaxOf
  <2>5. Max(S) = n
    BY <1>1, <2>2, <2>3, <2>4
  <2> QED
    BY <1>1, <1>6, <2>1, <2>3, <2>5 DEF Governing, Leaders
<1>7. CASE ~(IsText(line) /\ Leads(line))
  <2>1. Leaders(n)' = Leaders(n - 1)
    <3>1. ASSUME NEW j
          PROVE  j \in Text' /\ j <= n /\ Leads(fed'[j])
                   <=> j \in Text /\ j <= n - 1 /\ Leads(fed[j])
      <4>1. CASE j \in Text
        BY <1>2, <1>3, <1>5, <4>1
      <4>2. CASE j \notin Text
        BY <1>1, <1>5, <1>7, <4>2
      <4> QED
        BY <4>1, <4>2
    <3> QED
      BY <3>1 DEF Leaders, Leads
  <2>2. Leaders(n - 1) # {} => fed'[Max(Leaders(n - 1))] = fed[Max(Leaders(n - 1))]
    BY <1>1, <1>2, LeaderIsLine DEF Leaders
  <2> QED
    BY <1>7, <2>1, <2>2 DEF Governing, Leaders
<1> QED
  BY <1>6, <1>7

(* What governs the last line of text governs the end of the output.       *)
LEMMA EndGoverning ==
  ASSUME NEW N \in Nat, Text \subseteq 1..N, NEW j \in Text, \A k \in Text : k <= j
  PROVE  Governing(N) = Governing(j)
<1>1. \A k \in Text : k <= N
  OBVIOUS
<1>2. Leaders(N) = Leaders(j)
  BY <1>1 DEF Leaders
<1> QED
  BY <1>2 DEF Governing, Leaders

(* The filter's decision is the fate of the message that governs the line. *)
LEMMA DecisionIsFate ==
  ASSUME NEW line \in Lines, NEW n, Adds(line, n), IsText(line), last = Fate(Governing(n - 1))
  PROVE  Classify(line) = Fate(Governing(n)')
<1>1. CASE Leads(line)
  <2>1. Governing(n)' = line.class
    BY <1>1, LatestGoverning
  <2>2. \/ line.class \in {"error", "info", "listed", "unlisted", "anonymous"}
        \/ line.class = "plain" /\ ~line.indented
    BY <1>1 DEF Leads
  <2> QED
    BY <2>1, <2>2 DEF Classify, Fate, IsContinuation
<1>2. CASE ~Leads(line)
  <2>1. Governing(n)' = Governing(n - 1)
    BY <1>2, LatestGoverning
  <2>2. line.class \in {"plain", "resolution"} /\ IsContinuation(line)
    BY <1>2 DEF Leads, Lines, Classes, IsText, IsContinuation
  <2> QED
    BY <2>1, <2>2 DEF Classify
<1> QED
  BY <1>1, <1>2

(* A later line never begins or ends an earlier error.                     *)
LEMMA EarlierBegins ==
  ASSUME NEW line, NEW n, Adds(line, n), NEW i \in Text
  PROVE  BeginsError(i)' <=> BeginsError(i)
<1>1. n \in Nat /\ n - 1 \in Nat /\ Text \subseteq 1..(n - 1) /\ fed'[i] = fed[i]
  BY DEF Adds
<1>2. \A j \in Text : Governing(j)' = Governing(j)
  <2>1. \A j \in Text : j \in 0..(n - 1)
    BY <1>1
  <2> QED
    BY <2>1, EarlierGoverning
<1>3. \A j : j \in Text' /\ j < i <=> j \in Text /\ j < i
  BY <1>1 DEF Adds
<1> QED
  BY <1>1, <1>2, <1>3 DEF BeginsError

(* A line begins an error when it does not continue the one under way.     *)
LEMMA LatestBegins ==
  ASSUME NEW line, NEW n, Adds(line, n), IsText(line), Governing(n)' = "error"
  PROVE  BeginsError(n)' <=> ~IsContinuation(line) \/ Governing(n - 1) # "error"
<1>1. /\ n \in Nat /\ n - 1 \in Nat /\ Text \subseteq 1..(n - 1) /\ fed'[n] = line
      /\ \A j : j \in Text' <=> j \in Text \/ j = n
  BY DEF Adds
<1>2. \A j \in Text : Governing(j)' = Governing(j)
  <2>1. \A j \in Text : j \in 0..(n - 1)
    BY <1>1
  <2> QED
    BY <2>1, EarlierGoverning
<1>3. \A j : j \in Text' /\ j < n <=> j \in Text
  <2>1. \A j \in Text : j < n
    BY <1>1
  <2>2. ~(n < n)
    BY <1>1
  <2> QED
    BY <1>1, <2>1, <2>2
<1>4. BeginsError(n)' <=>
        ~IsContinuation(line) \/ ~\E j \in Text : Governing(j) = "error" /\ \A k \in Text : k <= j
  BY <1>1, <1>2, <1>3 DEF BeginsError, IsContinuation
<1>5. ASSUME NEW j \in Text, \A k \in Text : k <= j PROVE Governing(n - 1) = Governing(j)
  BY <1>1, <1>5, EndGoverning
<1>6. ASSUME Governing(n - 1) = "error" PROVE \E j \in Text : \A k \in Text : k <= j
  <2>1. Leaders(n - 1) # {}
    BY <1>6 DEF Governing, Leaders
  <2>2. Text # {}
    BY <2>1 DEF Leaders
  <2> QED
    BY <1>1, <2>2, MaxOf
<1> QED
  BY <1>4, <1>5, <1>6

(* When the new line is part of an earlier error. *)
Continues(line, n, i) ==
  /\ IsText(line) /\ Governing(n)' = "error" /\ ~BeginsError(n)'
  /\ \A k \in Text : i < k => Governing(k) = "error" /\ ~BeginsError(k)

(* The lines of an earlier error are what they were, and the new one.      *)
LEMMA EarlierErrors ==
  ASSUME NEW line, NEW n, Adds(line, n), NEW i \in Text
  PROVE  /\ Continues(line, n, i) => ErrorAt(i)' = ErrorAt(i) \union {n}
         /\ ~Continues(line, n, i) => ErrorAt(i)' = ErrorAt(i)
<1>1. /\ n \in Nat /\ n - 1 \in Nat /\ Text \subseteq 1..(n - 1)
      /\ \A j : j \in Text' <=> j \in Text \/ (j = n /\ IsText(line))
  BY DEF Adds
<1>2. \A j \in Text : Governing(j)' = Governing(j) /\ (BeginsError(j)' <=> BeginsError(j))
  <2>1. \A j \in Text : j \in 0..(n - 1)
    BY <1>1
  <2> QED
    BY <2>1, EarlierGoverning, EarlierBegins
<1>3. \A j \in Text : j < n /\ j # n /\ j \in Nat
  BY <1>1
<1>4. \A j \in Text : \A k : k \in Text' /\ k <= j <=> k \in Text /\ k <= j
  BY <1>1, <1>3
<1>5. \A j \in Text : j \in ErrorAt(i)' <=> j \in ErrorAt(i)
  BY <1>1, <1>2, <1>3, <1>4 DEF ErrorAt
<1>6. n \in ErrorAt(i)' <=> Continues(line, n, i)
  <2>1. n \in ErrorAt(i)' <=> IsText(line) /\ \A k \in Text' : i < k /\ k <= n =>
          Governing(k)' = "error" /\ ~BeginsError(k)'
    BY <1>1, <1>3 DEF ErrorAt
  <2>2. i < n /\ n <= n /\ \A k \in Text : k <= n
    BY <1>1, <1>3
  <2>3. CASE IsText(line)
    <3>1. \A k : k \in Text' <=> k \in Text \/ k = n
      BY <1>1, <2>3
    <3> QED
      BY <1>2, <2>1, <2>2, <2>3, <3>1 DEF Continues
  <2>4. CASE ~IsText(line)
    BY <2>1, <2>4 DEF Continues
  <2> QED
    BY <2>3, <2>4
<1>7. ErrorAt(i) \subseteq Text /\ ErrorAt(i)' \subseteq Text \union {n}
  BY <1>1 DEF ErrorAt
<1> QED
  BY <1>3, <1>5, <1>6, <1>7

(* An error that begins is one line so far.                                *)
LEMMA LatestError ==
  ASSUME NEW line, NEW n, Adds(line, n), IsText(line)
  PROVE  ErrorAt(n)' = {n}
<1>1. /\ n \in Nat /\ Text \subseteq 1..(n - 1) /\ n - 1 \in Nat
      /\ \A j : j \in Text' <=> j \in Text \/ j = n
  BY DEF Adds
<1>5. \A j \in Text : ~(j >= n) /\ ~(n < j)
  BY <1>1
<1>6. n >= n /\ ~(n < n)
  BY <1>1
<1>2. \A j \in Text' : j >= n <=> j = n
  BY <1>1, <1>5, <1>6
<1>3. \A k \in Text' : ~(n < k)
  BY <1>1, <1>5, <1>6
<1>4. n \in Text'
  BY <1>1
<1> QED
  BY <1>2, <1>3, <1>4 DEF ErrorAt

(* A list goes on with what comes after its elements.                      *)
LEMMA ListsOneMore ==
  ASSUME NEW s \in Seq(Nat), NEW S, Lists(s, S), NEW n \in Nat, \A x \in S : x < n
  PROVE  Lists(Append(s, n), S \union {n})
<1>1. PICK t : t = Append(s, n)
  OBVIOUS
<1>2. /\ Len(s) \in Nat /\ DOMAIN s = 1..Len(s) /\ DOMAIN t = 1..(Len(s) + 1)
      /\ t[Len(s) + 1] = n /\ \A i \in 1..Len(s) : t[i] = s[i]
  BY <1>1
<1>3. \A i : i \in DOMAIN t <=> i \in DOMAIN s \/ i = Len(s) + 1
  BY <1>2
<1>4. \A i \in DOMAIN s : s[i] \in S /\ s[i] < n
  BY DEF Lists, Range
<1>5. ASSUME NEW i \in DOMAIN t, NEW j \in DOMAIN t, i < j PROVE t[i] < t[j]
  <2>1. i \in DOMAIN s
    BY <1>2, <1>5
  <2>2. CASE j \in DOMAIN s
    BY <1>2, <1>5, <2>1, <2>2 DEF Lists
  <2>3. CASE j = Len(s) + 1
    BY <1>2, <1>4, <2>1, <2>3
  <2> QED
    BY <1>3, <2>2, <2>3
<1>6. \A x : x \in Range(t) <=> x \in Range(s) \/ x = n
  BY <1>2, <1>3 DEF Range
<1>7. Range(t) = S \union {n}
  BY <1>6 DEF Lists
<1> QED
  BY <1>1, <1>5, <1>7 DEF Lists

-----------------------------------------------------------------------------
(* The lines an error begins with. *)
Heads(entries) == [k \in DOMAIN entries |-> entries[k][1]]

(* The entries are the errors of the output, whole and in order. *)
Entries(entries) ==
  /\ \A k \in DOMAIN entries : entries[k] # <<>>
  /\ Lists(Heads(entries), {i \in Text : BeginsError(i)})
  /\ \A k \in DOMAIN entries : Lists(entries[k], ErrorAt(entries[k][1]))

(* What the filter remembers of the output. *)
LastInv ==
  /\ fed \in Seq(Lines) /\ skipped \subseteq DOMAIN fed
  /\ last = Fate(Governing(Len(fed)))

ShownInv ==
  /\ output \in Seq(Nat)
  /\ Lists(output, {i \in Text : Shown(i)})

(* The error under way is the last entry, and the last line belongs to it  *)
(* when the filter is in an error.                                         *)
EntriesInv ==
  /\ errors \in Seq(Seq(Nat)) /\ current \in Seq(Nat)
  /\ Entries(Flush(errors, current))
  /\ closed => current = <<>>
  /\ ~closed /\ last = "error" =>
       /\ current # <<>>
       /\ \A j \in Text : j <= current[Len(current)]

FilterInv == LastInv /\ ShownInv /\ EntriesInv

(* Elements of sequences of sequences.                                     *)
LEMMA AppendElements ==
  ASSUME NEW S, NEW s \in Seq(S), NEW e \in S, NEW t, t = Append(s, e)
  PROVE  /\ Len(s) \in Nat /\ t \in Seq(S) /\ Len(t) = Len(s) + 1
         /\ DOMAIN s = 1..Len(s)
         /\ \A i : i \in DOMAIN t <=> i \in DOMAIN s \/ i = Len(s) + 1
         /\ t[Len(s) + 1] = e /\ \A i \in DOMAIN s : t[i] = s[i] /\ i < Len(s) + 1
<1>1. /\ Len(s) \in Nat /\ t \in Seq(S) /\ Len(t) = Len(s) + 1
      /\ DOMAIN s = 1..Len(s) /\ DOMAIN t = 1..Len(t)
      /\ t[Len(s) + 1] = e /\ \A i \in 1..Len(s) : t[i] = s[i]
  OBVIOUS
<1>2. \A i : i \in 1..(Len(s) + 1) <=> i \in 1..Len(s) \/ i = Len(s) + 1
  BY <1>1
<1>3. \A i \in 1..Len(s) : i < Len(s) + 1
  BY <1>1
<1> QED
  BY <1>1, <1>2, <1>3

(* The heads of one entry more.                                            *)
LEMMA HeadsOneMore ==
  ASSUME NEW s \in Seq(Seq(Nat)), NEW e \in Seq(Nat), e # <<>>,
         \A k \in DOMAIN s : s[k] # <<>>
  PROVE  /\ Heads(s) \in Seq(Nat) /\ e[1] \in Nat
         /\ Heads(Append(s, e)) = Append(Heads(s), e[1])
<1>1. ASSUME NEW a \in Seq(Nat), a # <<>> PROVE a[1] \in Nat
  BY <1>1
<1>2. /\ Len(s) \in Nat /\ DOMAIN s = 1..Len(s)
      /\ \A k \in DOMAIN s : s[k] \in Seq(Nat)
  OBVIOUS
<1>3. Heads(s) \in Seq(Nat) /\ Len(Heads(s)) = Len(s)
  <2>1. Heads(s) \in [1..Len(s) -> Nat]
    BY <1>1, <1>2 DEF Heads
  <2>2. PICK hs : hs = Heads(s)
    OBVIOUS
  <2>3. hs \in [1..Len(s) -> Nat] /\ Len(s) \in Nat
    BY <1>2, <2>1, <2>2
  <2>4. PICK l \in Nat : l = Len(s)
    BY <2>3
  <2>5. hs \in [1..l -> Nat]
    BY <2>3, <2>4
  <2>6. hs \in Seq(Nat) /\ Len(hs) = l
    BY ONLY l \in Nat, <2>5
  <2> QED
    BY <2>2, <2>4, <2>6
<1>4. PICK t : t = Append(s, e)
  OBVIOUS
<1>5. /\ t \in Seq(Seq(Nat)) /\ Len(t) = Len(s) + 1 /\ DOMAIN t = 1..(Len(s) + 1)
      /\ t[Len(s) + 1] = e /\ \A i \in 1..Len(s) : t[i] = s[i]
  BY <1>4
<1>6. PICK u : u = Append(Heads(s), e[1])
  OBVIOUS
<1>7. /\ DOMAIN u = 1..(Len(s) + 1) /\ u[Len(s) + 1] = e[1]
      /\ \A i \in 1..Len(s) : u[i] = Heads(s)[i]
      /\ u \in Seq(Nat)
  BY <1>1, <1>2, <1>3, <1>6
<1>8. ASSUME NEW i \in 1..(Len(s) + 1) PROVE Heads(t)[i] = u[i]
  <2>1. Heads(t)[i] = t[i][1]
    BY <1>5 DEF Heads
  <2>2. i \in 1..Len(s) \/ i = Len(s) + 1
    BY ONLY i \in 1..(Len(s) + 1), Len(s) \in Nat, <1>2
  <2>3. i \in 1..Len(s) => Heads(s)[i] = s[i][1]
    BY <1>2 DEF Heads
  <2> QED
    BY <1>5, <1>7, <2>1, <2>2, <2>3
<1>9. Heads(t) = u
  <2>1. Heads(t) = [i \in 1..(Len(s) + 1) |-> t[i][1]]
    BY <1>5 DEF Heads
  <2>2. u = [i \in 1..(Len(s) + 1) |-> u[i]]
    BY <1>7
  <2>3. \A i \in 1..(Len(s) + 1) : t[i][1] = u[i]
    BY <1>5, <1>8 DEF Heads
  <2> QED
    BY <2>1, <2>2, <2>3
<1> QED
  BY <1>1, <1>3, <1>4, <1>6, <1>9

(* A line that is not text: a line taken for the echo, and a sentinel.     *)
LEMMA QuietLine ==
  ASSUME fed \in Seq(Lines), last = Fate(Governing(Len(fed))), ShownInv, EntriesInv,
         NEW line \in Lines, NEW n, Adds(line, n), ~IsText(line),
         UNCHANGED <<file, last, output, errors, current, closed>>
  PROVE  last' = Fate(Governing(Len(fed)))' /\ ShownInv' /\ EntriesInv'
<1>1. n - 1 \in 0..(n - 1) /\ Len(fed) = n - 1 /\ Len(fed)' = n /\ Text \subseteq 1..(n - 1)
      /\ n \in Nat
  BY DEF Adds
<1>2. Text' = Text
  BY DEF Adds
<1>3. \A i \in Text : i \in 0..(n - 1)
  BY <1>1
<1>4. \A i \in Text : Governing(i)' = Governing(i) /\ (BeginsError(i)' <=> BeginsError(i))
                        /\ ErrorAt(i)' = ErrorAt(i)
  BY <1>3, EarlierGoverning, EarlierBegins, EarlierErrors DEF Continues
<1>5. last' = Fate(Governing(Len(fed)))'
  BY <1>1, LatestGoverning DEF Fate
<1>6. ShownInv'
  <2>1. \A i \in Text : Shown(i)' <=> Shown(i)
    BY <1>4 DEF Shown
  <2>2. {i \in Text : Shown(i)}' = {i \in Text : Shown(i)}
    BY <1>2, <2>1
  <2> QED
    BY <2>2 DEF ShownInv
<1>7. EntriesInv'
  <2>1. PICK es : es = Flush(errors, current) /\ es = Flush(errors, current)'
    BY DEF Flush
  <2>2. {i \in Text : BeginsError(i)}' = {i \in Text : BeginsError(i)}
    BY <1>2, <1>4
  <2>3. Entries(es)
    BY <2>1 DEF EntriesInv
  <2>4. \A k \in DOMAIN es : es[k][1] \in Text
    BY <2>3 DEF Entries, Lists, Heads, Range
  <2>5. Entries(es)'
    BY <1>4, <2>2, <2>3, <2>4 DEF Entries
  <2> QED
    BY <1>2, <2>1, <2>5 DEF EntriesInv
<1> QED
  BY <1>5, <1>6, <1>7

(* A line of text is shown as its fate is.                                 *)
LEMMA TextIsShown ==
  ASSUME fed \in Seq(Lines), last = Fate(Governing(Len(fed))), ShownInv,
         NEW line \in Lines, NEW n, Adds(line, n), IsText(line), FeedLine(line, n)
  PROVE  last' = Fate(Governing(Len(fed)))' /\ ShownInv'
<1>1. /\ Len(fed) = n - 1 /\ Len(fed)' = n /\ Text \subseteq 1..(n - 1) /\ n \in Nat
      /\ file' = file /\ \A i : i \in Text' <=> i \in Text \/ i = n
  BY DEF Adds
<1>2. Classify(line) = Fate(Governing(n)')
  BY <1>1, DecisionIsFate
<1>3. last' = Fate(Governing(n)') /\ \A c : Fate(c)' = Fate(c)
  BY <1>1, <1>2 DEF FeedLine, Fate
<1>4. \A i \in Text : i \in 0..(n - 1) /\ i < n /\ i # n
  BY <1>1
<1>5. \A i \in Text : Shown(i)' <=> Shown(i)
  BY <1>1, <1>4, EarlierGoverning DEF Shown
<1>6. Shown(n)' <=> Fate(Governing(n)') # "suppress"
  BY <1>1 DEF Shown, Fate, ByList
<1>7. ShownInv'
  <2>1. \A x \in {i \in Text : Shown(i)} : x < n
    BY <1>4
  <2>2. CASE Shown(n)'
    <3>1. output' = Append(output, n)
      BY <1>2, <1>6, <2>2 DEF FeedLine
    <3>2. {i \in Text : Shown(i)}' = {i \in Text : Shown(i)} \union {n}
      BY <1>1, <1>5, <2>2
    <3>3. Lists(Append(output, n), {i \in Text : Shown(i)} \union {n})
      BY <1>1, <2>1, ListsOneMore DEF ShownInv
    <3>4. Append(output, n) \in Seq(Nat)
      BY <1>1 DEF ShownInv
    <3> QED
      BY <3>1, <3>2, <3>3, <3>4 DEF ShownInv
  <2>3. CASE ~Shown(n)'
    <3>1. output' = output
      BY <1>2, <1>6, <2>3 DEF FeedLine
    <3>2. {i \in Text : Shown(i)}' = {i \in Text : Shown(i)}
      BY <1>1, <1>5, <2>3
    <3> QED
      BY <3>1, <3>2 DEF ShownInv
  <2> QED
    BY <2>2, <2>3
<1> QED
  BY <1>1, <1>3, <1>7

(* A line of text that does not continue an error leaves every entry as it *)
(* is.                                                                     *)
LEMMA EntriesStay ==
  ASSUME NEW line \in Lines, NEW n, Adds(line, n), IsText(line), NEW es, Entries(es),
         Governing(n)' # "error" \/ BeginsError(n)'
  PROVE  /\ \A k \in DOMAIN es : Lists(es[k], ErrorAt(es[k][1])')
         /\ \A i \in Text : BeginsError(i)' <=> BeginsError(i)
<1>1. \A k \in DOMAIN es : es[k][1] \in Text
  BY DEF Entries, Lists, Heads, Range
<1>2. \A i \in Text : ErrorAt(i)' = ErrorAt(i)
  BY EarlierErrors DEF Continues
<1>3. \A i \in Text : BeginsError(i)' <=> BeginsError(i)
  BY EarlierBegins
<1> QED
  BY <1>1, <1>2, <1>3 DEF Entries

(* A line of text that continues the error under way becomes its last.     *)
LEMMA EntryGrows ==
  ASSUME NEW line \in Lines, NEW n, Adds(line, n), IsText(line),
         Governing(n)' = "error", ~BeginsError(n)',
         errors \in Seq(Seq(Nat)), current \in Seq(Nat), current # <<>>,
         Entries(Append(errors, current)),
         \A j \in Text : j <= current[Len(current)],
         NEW more, more = Append(current, n),
         NEW fs, fs = Append(errors, more)
  PROVE  Entries(fs)' /\ more \in Seq(Nat) /\ more # <<>> /\ more[Len(more)] = n
<1>0. n \in Nat /\ Text \subseteq 1..(n - 1)
      /\ \A i : i \in Text' <=> i \in Text \/ i = n
  BY DEF Adds
<1>1. PICK es : es = Append(errors, current)
  OBVIOUS
<1>21. more \in Seq(Nat)
  BY <1>0
<1>4. PICK L \in Nat : L = Len(errors)
  OBVIOUS
<1>5. /\ \A i : i \in DOMAIN es <=> i \in DOMAIN errors \/ i = L + 1
      /\ \A i : i \in DOMAIN fs <=> i \in DOMAIN errors \/ i = L + 1
      /\ es[L + 1] = current /\ fs[L + 1] = more
      /\ \A i \in DOMAIN errors : es[i] = errors[i] /\ fs[i] = errors[i] /\ i < L + 1
  BY <1>21, <1>1, <1>4, AppendElements
<1>6. PICK m \in Nat : m = Len(current) /\ m >= 1
  OBVIOUS
<1>7. /\ m \in DOMAIN current /\ 1 \in DOMAIN current /\ more[1] = current[1]
      /\ more[m + 1] = n /\ Len(more) = m + 1 /\ more # <<>>
  <2>1. \A i \in DOMAIN current : more[i] = current[i]
    BY <1>0, AppendElements
  <2>2. Len(more) = m + 1 /\ more[m + 1] = n /\ DOMAIN current = 1..m
    BY <1>0, <1>6, AppendElements
  <2>3. m \in 1..m /\ 1 \in 1..m
    BY <1>6
  <2>4. more # <<>>
    BY <1>0, AppendIsFull
  <2> QED
    BY <2>1, <2>2, <2>3, <2>4
<1>8. Entries(es)
  BY <1>1
<1>9. PICK h : h = current[1]
  OBVIOUS
<1>10. \A k \in DOMAIN es : es[k][1] \in Text /\ BeginsError(es[k][1])
  BY <1>8 DEF Entries, Lists, Heads, Range
<1>11. h \in Text /\ BeginsError(h)
  BY <1>5, <1>9, <1>10
<1>12. \A k \in DOMAIN errors : es[k][1] < h
  BY <1>5, <1>8, <1>9 DEF Entries, Lists, Heads
<1>13. Heads(fs) = Heads(es)
  <2>1. DOMAIN fs = DOMAIN es
    BY <1>5
  <2>2. \A k \in DOMAIN es : fs[k][1] = es[k][1]
    BY <1>5, <1>7
  <2> QED
    BY <2>1, <2>2 DEF Heads
<1>14. {i \in Text : BeginsError(i)}' = {i \in Text : BeginsError(i)}
  <2>1. \A i \in Text : BeginsError(i)' <=> BeginsError(i)
    BY EarlierBegins
  <2> QED
    BY <1>0, <2>1
<1>15. ASSUME NEW k \in DOMAIN errors PROVE Lists(fs[k], ErrorAt(fs[k][1])')
  <2>1. PICK i : i = es[k][1]
    OBVIOUS
  <2>2. i \in Text /\ i < h
    BY <1>5, <1>10, <1>12, <2>1
  <2>3. ~Continues(line, n, i)
    BY <1>11, <2>2 DEF Continues
  <2>4. ErrorAt(i)' = ErrorAt(i)
    BY <2>2, <2>3, EarlierErrors
  <2> QED
    BY <1>5, <1>8, <2>1, <2>4 DEF Entries
<1>16. Lists(more, ErrorAt(h)')
  <2>1. Lists(current, ErrorAt(h))
    BY <1>5, <1>8, <1>9 DEF Entries
  <2>2. current[m] \in ErrorAt(h)
    BY <1>7, <2>1 DEF Lists, Range
  <2>3. \A k \in Text : h < k => Governing(k) = "error" /\ ~BeginsError(k)
    BY <1>6, <2>2 DEF ErrorAt
  <2>4. Continues(line, n, h)
    BY <2>3 DEF Continues
  <2>5. ErrorAt(h)' = ErrorAt(h) \union {n}
    BY <1>11, <2>4, EarlierErrors
  <2>6. \A x \in ErrorAt(h) : x < n
    BY <1>0 DEF ErrorAt
  <2> QED
    BY <1>0, <2>1, <2>5, <2>6, ListsOneMore
<1>17. \A k \in DOMAIN fs : Lists(fs[k], ErrorAt(fs[k][1])')
  BY <1>5, <1>7, <1>9, <1>15, <1>16
<1>18. \A k \in DOMAIN fs : fs[k] # <<>>
  BY <1>5, <1>7, <1>8 DEF Entries
<1>19. Entries(fs)'
  BY <1>8, <1>13, <1>14, <1>17, <1>18 DEF Entries
<1> QED
  BY <1>7, <1>19, <1>21

(* A line of text that begins an error becomes an entry of its own.        *)
LEMMA EntryBegins ==
  ASSUME NEW line \in Lines, NEW n, Adds(line, n), IsText(line), BeginsError(n)',
         NEW es \in Seq(Seq(Nat)), Entries(es)
  PROVE  Entries(Append(es, <<n>>))'
<1>0. n \in Nat /\ Text \subseteq 1..(n - 1)
      /\ \A i : i \in Text' <=> i \in Text \/ i = n
  BY DEF Adds
<1>1. PICK e : e = <<n>>
  OBVIOUS
<1>2. e \in Seq(Nat) /\ e # <<>> /\ e[1] = n /\ DOMAIN e = {1}
  BY <1>0, <1>1
<1>3. PICK fs : fs = Append(es, e)
  OBVIOUS
<1>4. PICK L \in Nat : L = Len(es)
  OBVIOUS
<1>5. /\ \A i : i \in DOMAIN fs <=> i \in DOMAIN es \/ i = L + 1
      /\ fs[L + 1] = e /\ \A i \in DOMAIN es : fs[i] = es[i]
  BY <1>2, <1>3, <1>4, AppendElements
<1>6. /\ \A k \in DOMAIN es : Lists(es[k], ErrorAt(es[k][1])')
      /\ \A i \in Text : BeginsError(i)' <=> BeginsError(i)
  BY EntriesStay
<1>7. Lists(e, ErrorAt(n)')
  <2>1. Range(e) = {n}
    BY <1>2 DEF Range
  <2>2. \A i, j \in DOMAIN e : i < j => e[i] < e[j]
    BY <1>2
  <2> QED
    BY <2>1, <2>2, LatestError DEF Lists
<1>8. {i \in Text : BeginsError(i)}' = {i \in Text : BeginsError(i)} \union {n}
  BY <1>0, <1>6
<1>9. \A k \in DOMAIN es : es[k] # <<>>
  BY DEF Entries
<1>10. Heads(es) \in Seq(Nat) /\ Heads(fs) = Append(Heads(es), n)
  BY <1>2, <1>3, <1>9, HeadsOneMore
<1>11. \A x \in {i \in Text : BeginsError(i)} : x < n
  BY <1>0
<1>12. Lists(Heads(fs), {i \in Text : BeginsError(i)}')
  <2>1. PICK hs \in Seq(Nat) : hs = Heads(es)
    BY <1>10
  <2>2. PICK T : T = {i \in Text : BeginsError(i)}
    OBVIOUS
  <2>3. n \in Nat /\ Lists(hs, T) /\ \A x \in T : x < n
    BY <1>0, <1>11, <2>1, <2>2 DEF Entries
  <2>4. Lists(Append(hs, n), T \union {n})
    BY ONLY <2>1, <2>3, ListsOneMore
  <2> QED
    BY <1>8, <1>10, <2>1, <2>2, <2>4
<1>13. \A k \in DOMAIN fs : fs[k] # <<>> /\ Lists(fs[k], ErrorAt(fs[k][1])')
  BY <1>2, <1>5, <1>6, <1>7, <1>9
<1> QED
  BY <1>1, <1>3, <1>12, <1>13 DEF Entries

(* A line of text keeps the errors complete.                               *)
LEMMA TextIsCollected ==
  ASSUME fed \in Seq(Lines), last = Fate(Governing(Len(fed))), EntriesInv, ~closed, ~closed',
         NEW line \in Lines, NEW n, Adds(line, n), IsText(line), FeedLine(line, n)
  PROVE  EntriesInv'
<1>0. /\ Len(fed) = n - 1 /\ n \in Nat /\ Text \subseteq 1..(n - 1)
      /\ \A i : i \in Text' <=> i \in Text \/ i = n
  BY DEF Adds
<1>1. /\ errors \in Seq(Seq(Nat)) /\ current \in Seq(Nat) /\ Entries(Flush(errors, current))
      /\ last = "error" => current # <<>> /\ \A j \in Text : j <= current[Len(current)]
  BY DEF EntriesInv
<1>2. Classify(line) = Fate(Governing(n)') /\ last' = Classify(line)
  BY <1>0, DecisionIsFate DEF FeedLine
<1>3. Classify(line) = "error" <=> Governing(n)' = "error"
  BY <1>2 DEF Fate
<1>4. last = "error" <=> Governing(n - 1) = "error"
  BY <1>0 DEF Fate
<1>5. \A j \in Text' : j <= n
  <2>1. \A j \in Text : j <= n
    BY <1>0
  <2>2. n <= n
    BY <1>0
  <2> QED
    BY <1>0, <2>1, <2>2
<1>6. PICK es : es = Flush(errors, current)
  OBVIOUS
<1>7. es \in Seq(Seq(Nat)) /\ Entries(es)
  <2>1. Append(errors, current) \in Seq(Seq(Nat))
    BY <1>1, AppendIsFull
  <2> QED
    BY <1>1, <1>6, <2>1 DEF Flush
<1>8. CASE Classify(line) # "error"
  <2>1. UNCHANGED <<errors, current>>
    BY <1>8 DEF FeedLine
  <2>2. es = Flush(errors, current)'
    BY <1>6, <2>1 DEF Flush
  <2>3. ~BeginsError(n)' /\ Governing(n)' # "error"
    BY <1>3, <1>8 DEF BeginsError
  <2>4. /\ \A k \in DOMAIN es : Lists(es[k], ErrorAt(es[k][1])')
        /\ \A i \in Text : BeginsError(i)' <=> BeginsError(i)
    BY <1>7, <2>3, EntriesStay
  <2>5. {i \in Text : BeginsError(i)}' = {i \in Text : BeginsError(i)}
    BY <1>0, <2>3, <2>4
  <2>6. Entries(es)'
    BY <1>7, <2>4, <2>5 DEF Entries
  <2> QED
    BY <1>1, <1>2, <1>8, <2>1, <2>2, <2>6 DEF EntriesInv
<1>9. CASE Classify(line) = "error" /\ current # <<>> /\ last = "error" /\ IsContinuation(line)
  <2>1. current' = Append(current, n) /\ errors' = errors
    BY <1>9 DEF FeedLine
  <2>2. es = Append(errors, current)
    BY <1>6, <1>9 DEF Flush
  <2>3. Governing(n)' = "error" /\ ~BeginsError(n)'
    BY <1>3, <1>4, <1>9, LatestBegins
  <2>4. PICK more : more = Append(current, n)
    OBVIOUS
  <2>5. PICK fs : fs = Append(errors, more)
    OBVIOUS
  <2>6. Entries(fs)' /\ more \in Seq(Nat) /\ more # <<>> /\ more[Len(more)] = n
    BY <1>1, <1>7, <1>9, <2>2, <2>3, <2>4, <2>5, EntryGrows
  <2>7. fs = Flush(errors, current)'
    BY <2>1, <2>4, <2>5, <2>6 DEF Flush
  <2> QED
    BY <1>1, <1>5, <2>1, <2>4, <2>6, <2>7 DEF EntriesInv
<1>10. CASE Classify(line) = "error" /\ ~(current # <<>> /\ last = "error" /\ IsContinuation(line))
  <2>1. errors' = es /\ current' = <<n>>
    BY <1>6, <1>10 DEF FeedLine
  <2>2. BeginsError(n)'
    BY <1>1, <1>3, <1>4, <1>10, LatestBegins
  <2>3. PICK fs : fs = Append(es, <<n>>)
    OBVIOUS
  <2>4. Entries(fs)'
    BY <1>7, <2>2, <2>3, EntryBegins
  <2>5. <<n>> \in Seq(Nat) /\ <<n>> # <<>> /\ <<n>>[Len(<<n>>)] = n
    BY <1>0
  <2>6. fs = Flush(errors, current)'
    BY <2>1, <2>3, <2>5 DEF Flush
  <2> QED
    BY <1>5, <1>7, <2>1, <2>4, <2>5, <2>6 DEF EntriesInv
<1> QED
  BY <1>8, <1>9, <1>10

(* A command without output has nothing to show.                           *)
LEMMA FilterBegins ==
  ASSUME fed = <<>>, output = <<>>, errors = <<>>, current = <<>>, last = "retain",
         skipped = {}
  PROVE  FilterInv
<1>1. DOMAIN fed = {} /\ Len(fed) = 0 /\ fed \in Seq(Lines)
  OBVIOUS
<1>2. Text = {}
  BY <1>1 DEF Text
<1>3. \A s : s = <<>> => Lists(s, {})
  BY DEF Lists, Range
<1>4. Governing(0) = "plain"
  BY <1>2 DEF Governing
<1>5. LastInv
  BY <1>1, <1>4 DEF LastInv, Fate
<1>6. ShownInv
  BY <1>2, <1>3 DEF ShownInv
<1>7. Flush(errors, current) = <<>> /\ Heads(<<>>) = <<>> /\ DOMAIN <<>> = {}
  BY DEF Flush, Heads
<1>8. EntriesInv
  <2>1. Entries(<<>>)
    BY <1>2, <1>3, <1>7 DEF Entries
  <2>2. <<>> \in Seq(Nat) /\ <<>> \in Seq(Seq(Nat))
    OBVIOUS
  <2> QED
    BY <1>7, <2>1, <2>2 DEF EntriesInv
<1> QED
  BY <1>5, <1>6, <1>8 DEF FilterInv

(* And neither has the next one.                                           *)
LEMMA FilterBeginsNext ==
  ASSUME fed' = <<>>, output' = <<>>, errors' = <<>>, current' = <<>>, last' = "retain",
         skipped' = {}
  PROVE  FilterInv'
<1>1. DOMAIN fed' = {} /\ Len(fed') = 0 /\ fed' \in Seq(Lines)
  OBVIOUS
<1>2. Text' = {}
  BY <1>1 DEF Text
<1>3. \A s : s = <<>> => Lists(s, {})
  BY DEF Lists, Range
<1>4. Governing(0)' = "plain"
  BY <1>2 DEF Governing
<1>5. LastInv'
  BY <1>1, <1>4 DEF LastInv, Fate
<1>6. ShownInv'
  BY <1>2, <1>3 DEF ShownInv
<1>7. Flush(errors, current)' = <<>> /\ Heads(<<>>) = <<>> /\ DOMAIN <<>> = {}
  BY DEF Flush, Heads
<1>8. EntriesInv'
  <2>1. Entries(<<>>)'
    BY <1>2, <1>3, <1>7 DEF Entries
  <2>2. <<>> \in Seq(Nat) /\ <<>> \in Seq(Seq(Nat))
    OBVIOUS
  <2> QED
    BY <1>7, <2>1, <2>2 DEF EntriesInv
<1> QED
  BY <1>5, <1>6, <1>8 DEF FilterInv

(* As long as no line is taken, every line keeps its fate and its error.    *)
LEMMA NoLineTaken ==
  ASSUME UNCHANGED <<file, fed, skipped>>
  PROVE  /\ Text' = Text
         /\ \A i : Governing(i)' = Governing(i) /\ (Shown(i)' <=> Shown(i))
         /\ \A es : Entries(es) => Entries(es)'
<1>1. Text' = Text
  BY DEF Text
<1>2. \A i : Governing(i)' = Governing(i)
  BY <1>1 DEF Governing
<1>3. \A i : Shown(i)' <=> Shown(i)
  BY <1>2 DEF Shown
<1>4. \A i : BeginsError(i)' <=> BeginsError(i)
  BY <1>1, <1>2 DEF BeginsError
<1>5. \A i : ErrorAt(i)' = ErrorAt(i)
  BY <1>1, <1>2, <1>4 DEF ErrorAt
<1>6. ASSUME NEW es, Entries(es) PROVE Entries(es)'
  <2>1. {i \in Text : BeginsError(i)}' = {i \in Text : BeginsError(i)}
    BY <1>1, <1>4
  <2> QED
    BY <1>5, <1>6, <2>1 DEF Entries
<1> QED
  BY <1>1, <1>2, <1>3, <1>6

(* So the rest of the invariant holds on.                                  *)
LEMMA LastAndShownStay ==
  ASSUME LastInv, ShownInv, UNCHANGED <<file, fed, skipped, last, output>>
  PROVE  LastInv' /\ ShownInv'
<1>1. Text' = Text /\ \A i : Governing(i)' = Governing(i) /\ (Shown(i)' <=> Shown(i))
  BY NoLineTaken
<1>2. PICK n : n = Len(fed) /\ n = Len(fed')
  OBVIOUS
<1>3. Governing(n)' = Governing(n)
  BY <1>1
<1>4. Fate(Governing(n))' = Fate(Governing(n))
  BY <1>3 DEF Fate, ByList
<1>5. Fate(Governing(Len(fed)))' = Fate(Governing(Len(fed)))
  BY <1>2, <1>4 DEF Fate, ByList
<1>6. LastInv'
  BY <1>5 DEF LastInv
<1>7. {i \in Text : Shown(i)}' = {i \in Text : Shown(i)}
  BY <1>1
<1> QED
  BY <1>6, <1>7 DEF ShownInv

(* A line of the echo that is recognised is not shown, a sentinel is set   *)
(* aside, and every other line goes through the filter.                    *)
LEMMA FilterTakes ==
  ASSUME FilterInv, NEW line \in Lines, TakeLine(line)
  PROVE  FilterInv' /\ closed' = closed
<1>0. fed \in Seq(Lines) /\ skipped \subseteq DOMAIN fed /\ last = Fate(Governing(Len(fed)))
  BY DEF FilterInv, LastInv
<1>1. PICK n : n = Len(fed) + 1
  OBVIOUS
<1>2. /\ fed' = Append(fed, line) /\ file' = file /\ ~closed /\ closed' = closed
      /\ skipped' = IF IsExpectedEcho(line) THEN skipped \union {Len(fed')} ELSE skipped
  BY DEF TakeLine
<1>3. fed' \in Seq(Lines) /\ skipped' \subseteq DOMAIN fed' /\ Adds(line, n)
  BY <1>0, <1>1, <1>2, LineAdded
<1>4. CASE ~IsText(line)
  <2>1. UNCHANGED <<file, last, output, errors, current, closed>>
    BY <1>2, <1>4 DEF TakeLine, IsText
  <2>2. last' = Fate(Governing(Len(fed)))' /\ ShownInv' /\ EntriesInv'
    BY <1>0, <1>3, <1>4, <2>1, QuietLine DEF FilterInv
  <2> QED
    BY <1>2, <1>3, <2>2 DEF FilterInv, LastInv
<1>5. CASE IsText(line)
  <2>1. Len(fed') = n
    BY <1>3 DEF Adds
  <2>2. FeedLine(line, n)
    BY <1>5, <2>1 DEF TakeLine, IsText
  <2>3. last' = Fate(Governing(Len(fed)))' /\ ShownInv'
    BY <1>0, <1>3, <1>5, <2>2, TextIsShown DEF FilterInv
  <2>4. EntriesInv'
    BY <1>0, <1>2, <1>3, <1>5, <2>2, TextIsCollected DEF FilterInv
  <2> QED
    BY <1>2, <1>3, <2>3, <2>4 DEF FilterInv, LastInv
<1> QED
  BY <1>4, <1>5

(* And nothing else changes what is shown but the next command.            *)
LEMMA FilterInductive ==
  ASSUME FilterInv, closed \in BOOLEAN, [FilterNext]_filter
  PROVE  FilterInv' /\ closed' \in BOOLEAN
<1>3. CASE EchoLine
  <2>1. PICK same \in {0, Len(fed) + 1} : TakeLine(Echo(same))
    BY <1>3 DEF EchoLine
  <2>2. Len(fed) \in Nat /\ Len(fed) < EchoLines /\ EchoLines \in Nat
    BY <1>3, LineBounds DEF EchoLine, FilterInv, LastInv
  <2>3. Len(fed) + 1 \in 0..EchoLines
    BY <2>2
  <2>4. Echo(same) \in Lines
    BY <2>3, EchoLineType
  <2> QED
    BY <2>1, <2>4, FilterTakes
<1>4. CASE PrintedLine
  <2>1. PICK line \in OwnLines : TakeLine(line)
    BY <1>4 DEF PrintedLine
  <2> QED
    BY <2>1, OwnLineType, FilterTakes
<1>5. CASE Finish
  <2>1. /\ closed' /\ ~closed /\ errors' = Flush(errors, current) /\ current' = <<>>
        /\ UNCHANGED <<file, fed, skipped, last, output>> /\ closed' = TRUE
    BY <1>5 DEF Finish
  <2>2. Flush(errors, current)' = Flush(errors, current)
    BY <2>1 DEF Flush
  <2>3. Flush(errors, current) \in Seq(Seq(Nat))
    <3>1. errors \in Seq(Seq(Nat)) /\ current \in Seq(Nat)
      BY DEF FilterInv, EntriesInv
    <3>2. Append(errors, current) \in Seq(Seq(Nat))
      BY <3>1, AppendIsFull
    <3> QED
      BY <3>1, <3>2 DEF Flush
  <2>4. LastInv' /\ ShownInv'
    BY <2>1, LastAndShownStay DEF FilterInv
  <2>5. PICK es : es = Flush(errors, current)
    OBVIOUS
  <2>6. Entries(es)'
    BY <2>1, <2>5, NoLineTaken DEF FilterInv, EntriesInv
  <2>7. Entries(Flush(errors, current))'
    BY <2>2, <2>5, <2>6 DEF Entries
  <2>8. <<>> \in Seq(Nat)
    OBVIOUS
  <2>9. EntriesInv'
    BY <2>1, <2>3, <2>7, <2>8 DEF EntriesInv
  <2> QED
    BY <2>1, <2>4, <2>9 DEF FilterInv
<1>6. CASE NextCommand
  <2>1. /\ fed' = <<>> /\ skipped' = {} /\ last' = "retain" /\ closed' = FALSE
        /\ output' = <<>> /\ errors' = <<>> /\ current' = <<>>
    BY <1>6 DEF NextCommand
  <2> QED
    BY <2>1, FilterBeginsNext
<1>7. CASE UNCHANGED filter
  <2>1. UNCHANGED <<file, fed, skipped, last, output, errors, current, closed>>
    BY <1>7 DEF filter
  <2>2. LastInv' /\ ShownInv'
    BY <2>1, LastAndShownStay DEF FilterInv
  <2>3. Flush(errors, current)' = Flush(errors, current)
    BY <2>1 DEF Flush
  <2>4. PICK es : es = Flush(errors, current)
    OBVIOUS
  <2>5. Entries(es)'
    BY <2>1, <2>4, NoLineTaken DEF FilterInv, EntriesInv
  <2>6. Entries(Flush(errors, current))'
    BY <2>3, <2>4, <2>5 DEF Entries
  <2>7. Text' = Text
    BY <2>1, NoLineTaken
  <2>8. EntriesInv'
    BY <2>1, <2>6, <2>7 DEF FilterInv, EntriesInv
  <2> QED
    BY <2>1, <2>2, <2>8 DEF FilterInv
<1> QED
  BY <1>3, <1>4, <1>5, <1>6, <1>7 DEF FilterNext

(* The invariant, and the type of what a step tests.                       *)
Always == FilterInv /\ closed \in BOOLEAN

(* What every state of the filter satisfies.                               *)
LEMMA FilterAlways == FilterSpec => []Always
<1>1. FilterInit => Always
  BY FilterBegins DEF FilterInit, Always
<1>2. Always /\ [FilterNext]_filter => Always'
  BY FilterInductive DEF Always
<1> QED
  BY <1>1, <1>2, PTL DEF FilterSpec

(* Of the lines not taken for the echo, a client is shown exactly those    *)
(* that the filter's rules let through, once each and in order, whatever   *)
(* the command prints and however it is echoed (execute_tcl,               *)
(* Filter::feed_line).                                                     *)
THEOREM ShownHolds == FilterSpec => []OutputIsWhatIsShown
<1>1. FilterSpec => []Always
  BY FilterAlways
<1>2. Always => OutputIsWhatIsShown
  BY DEF Always, FilterInv, ShownInv, OutputIsWhatIsShown
<1> QED
  BY <1>1, <1>2, PTL

(* Every error of a command is in the list of errors, once, in order, with *)
(* all the lines that continue it (Filter::finish).                        *)
THEOREM ErrorsHold == FilterSpec => []ErrorsAreComplete
<1>1. FilterSpec => []Always
  BY FilterAlways
<1>2. ASSUME Always PROVE ErrorsAreComplete
  <2>1. SUFFICES ASSUME closed PROVE Entries(errors)
    BY <2>1 DEF ErrorsAreComplete, Entries, Heads
  <2>2. current = <<>> /\ Entries(Flush(errors, current))
    BY <1>2, <2>1 DEF Always, FilterInv, EntriesInv
  <2>3. Flush(errors, current) = errors
    BY <2>2 DEF Flush
  <2> QED
    BY <2>2, <2>3
<1> QED
  BY <1>1, <1>2, PTL

-----------------------------------------------------------------------------
(* The echo. *)

(* The lines of the echo that came back changed. *)
Changed == {j \in DOMAIN fed : ~fed[j].own /\ fed[j].same # j}

(* Where the expected echo stands: behind all of it, or at or behind a     *)
(* line that came back changed, and before the end of the echo exactly     *)
(* there.                                                                  *)
EchoInv ==
  /\ fed \in Seq(Lines) /\ echoed \in 0..EchoLines /\ skipped \subseteq DOMAIN fed
  /\ \A j \in DOMAIN fed : ~fed[j].own <=> j <= EchoLines
  /\ \A j \in DOMAIN fed : ~fed[j].own => fed[j].same \in {0, j}
  /\ Changed = {} /\ Len(fed) <= EchoLines => echoed = Len(fed)
  /\ Changed = {} /\ Len(fed) >= EchoLines => echoed = EchoLines
  /\ Changed # {} => \E k \in Changed : k <= echoed + 1
  /\ Changed # {} /\ Len(fed) <= EchoLines => echoed + 1 \in Changed
  /\ EchoIsTaken

(* A line of the echo is taken exactly while none came back changed.       *)
LEMMA EchoOfLine ==
  ASSUME EchoInv, NEW n \in Nat, n = Len(fed) + 1, n <= EchoLines,
         NEW same \in {0, n}, TakeLine(Echo(same))
  PROVE  EchoInv'
<1>0. /\ EchoLines \in Nat /\ fed \in Seq(Lines) /\ Echo(same) \in Lines
      /\ ~Echo(same).own /\ Echo(same).same = same /\ echoed \in 0..EchoLines
      /\ Echo(same).class # "sentinel"
  <2>1. EchoLines \in Nat
    BY LineBounds
  <2>2. n \in 0..EchoLines
    BY <2>1
  <2> QED
    BY <2>1, <2>2, EchoLineType DEF EchoInv, Echo
<1>1. /\ fed' \in Seq(Lines) /\ Len(fed') = n /\ DOMAIN fed' = 1..n /\ DOMAIN fed = 1..(n - 1)
      /\ fed'[n] = Echo(same) /\ \A i \in DOMAIN fed : fed'[i] = fed[i]
  BY <1>0 DEF TakeLine
<1>2. /\ n \in DOMAIN fed' /\ n \notin DOMAIN fed
      /\ \A i : i \in DOMAIN fed' <=> i \in DOMAIN fed \/ i = n
      /\ \A i \in DOMAIN fed : i < n /\ i \in Nat
      /\ \A i \in DOMAIN fed : \A j \in 1..i : j \in DOMAIN fed
  BY <1>1
<1>3. \A j : j \in Changed' <=> j \in Changed \/ (j = n /\ same # n)
  BY <1>0, <1>1, <1>2 DEF Changed
<1>4. \A i \in DOMAIN fed :
        ~fed[i].own => ((\A j \in 1..i : fed'[j].same = j) <=> (\A j \in 1..i : fed[j].same = j))
  BY <1>1, <1>2
<1>5. \A j \in DOMAIN fed : ~fed[j].own
  <2>1. \A j \in DOMAIN fed : j <= EchoLines
    BY <1>0, <1>2
  <2>2. \A j \in DOMAIN fed : ~fed[j].own <=> j <= EchoLines
    BY DEF EchoInv
  <2> QED
    BY <2>1, <2>2
<1>6. IsExpectedEcho(Echo(same)) <=> Changed = {} /\ same = n
  <2>1. CASE Changed = {}
    <3>1. echoed = n - 1
      BY <1>0, <2>1 DEF EchoInv
    <3> QED
      BY <1>0, <2>1, <3>1 DEF IsExpectedEcho
  <2>2. CASE Changed # {}
    <3>1. echoed + 1 \in DOMAIN fed
      BY <1>0, <2>2 DEF EchoInv, Changed
    <3>2. echoed + 1 < n /\ echoed + 1 # 0
      BY <1>0, <1>2, <3>1
    <3> QED
      BY <1>0, <2>2, <3>2 DEF IsExpectedEcho
  <2> QED
    BY <2>1, <2>2
<1>7. (Changed = {} /\ same = n) <=> \A j \in 1..n : fed'[j].same = j
  <2>1. \A j : j \in 1..n <=> j \in DOMAIN fed \/ j = n
    BY <1>1, <1>2
  <2>2. Changed = {} <=> \A j \in DOMAIN fed : fed[j].same = j
    BY <1>5 DEF Changed
  <2> QED
    BY <1>0, <1>1, <2>1, <2>2
<1>8. skipped' = IF IsExpectedEcho(Echo(same)) THEN skipped \union {n} ELSE skipped
  BY <1>0, <1>1 DEF TakeLine
<1>9. echoed' = IF IsExpectedEcho(Echo(same)) THEN echoed + 1 ELSE echoed
  BY <1>0 DEF TakeLine, FeedLine
<1>10. skipped \subseteq DOMAIN fed /\ n \notin skipped
  BY <1>2 DEF EchoInv
<1>11. EchoIsTaken'
  <2>1. ASSUME NEW i \in DOMAIN fed', ~fed'[i].own
        PROVE  i \in skipped' <=> \A j \in 1..i : fed'[j].same = j
    <3>1. CASE i = n
      BY <1>6, <1>7, <1>8, <1>10, <3>1
    <3>2. CASE i \in DOMAIN fed
      <4>1. i \in skipped' <=> i \in skipped
        BY <1>2, <1>8, <3>2
      <4> QED
        BY <1>1, <1>4, <1>5, <3>2, <4>1 DEF EchoInv, EchoIsTaken
    <3> QED
      BY <1>2, <3>1, <3>2
  <2>2. \A i \in DOMAIN fed' : ~fed'[i].own
    BY <1>0, <1>1, <1>2, <1>5
  <2>3. skipped' \subseteq DOMAIN fed'
    BY <1>2, <1>8, <1>10
  <2> QED
    BY <2>1, <2>2, <2>3 DEF EchoIsTaken
<1>12. /\ \A j \in DOMAIN fed' : ~fed'[j].own <=> j <= EchoLines
       /\ \A j \in DOMAIN fed' : ~fed'[j].own => fed'[j].same \in {0, j}
  BY <1>0, <1>1, <1>2 DEF EchoInv
<1>13. CASE IsExpectedEcho(Echo(same))
  <2>1. Changed = {} /\ same = n /\ Changed' = {}
    BY <1>3, <1>6, <1>13
  <2>2. echoed = n - 1 /\ echoed' = n
    BY <1>0, <1>9, <1>13, <2>1 DEF EchoInv
  <2>3. n \in 0..EchoLines /\ (n >= EchoLines => n = EchoLines)
    BY <1>0
  <2>4. skipped' \subseteq DOMAIN fed'
    BY <1>2, <1>8, <1>10
  <2> QED
    BY <1>1, <1>11, <1>12, <2>1, <2>2, <2>3, <2>4 DEF EchoInv
<1>14. CASE ~IsExpectedEcho(Echo(same))
  <2>1. echoed' = echoed /\ skipped' = skipped
    BY <1>8, <1>9, <1>14
  <2>2. echoed + 1 \in Changed'
    <3>1. CASE Changed = {}
      <4>1. echoed + 1 = n /\ same # n
        BY <1>0, <1>6, <1>14, <3>1 DEF EchoInv
      <4> QED
        BY <1>3, <4>1
    <3>2. CASE Changed # {}
      <4>1. echoed + 1 \in Changed
        BY <1>0, <3>2 DEF EchoInv
      <4> QED
        BY <1>3, <4>1
    <3> QED
      BY <3>1, <3>2
  <2>3. \E k \in Changed' : k <= echoed' + 1
    BY <1>0, <2>1, <2>2
  <2>4. skipped' \subseteq DOMAIN fed'
    BY <1>2, <1>10, <2>1
  <2> QED
    BY <1>0, <1>1, <1>11, <1>12, <2>1, <2>2, <2>3, <2>4 DEF EchoInv
<1> QED
  BY <1>13, <1>14

(* A line of the command's own is taken only at or behind a line of the    *)
(* echo that came back changed.                                            *)
LEMMA EchoOfOutput ==
  ASSUME EchoInv, NEW line \in OwnLines, Len(fed) >= EchoLines, TakeLine(line)
  PROVE  EchoInv'
<1>0. /\ EchoLines \in Nat /\ fed \in Seq(Lines) /\ line \in Lines /\ line.own
      /\ echoed \in 0..EchoLines /\ line.same \in 0..EchoLines
  BY LineBounds, OwnLineType DEF EchoInv, Lines
<1>1. PICK n \in Nat : n = Len(fed) + 1
  BY <1>0
<1>2. /\ fed' \in Seq(Lines) /\ Len(fed') = n /\ DOMAIN fed' = 1..n /\ DOMAIN fed = 1..(n - 1)
      /\ fed'[n] = line /\ \A i \in DOMAIN fed : fed'[i] = fed[i]
  BY <1>0, <1>1 DEF TakeLine
<1>3. /\ n > EchoLines /\ ~(n <= EchoLines) /\ n >= EchoLines
      /\ n \in DOMAIN fed' /\ n \notin DOMAIN fed
      /\ \A i : i \in DOMAIN fed' <=> i \in DOMAIN fed \/ i = n
      /\ \A i \in DOMAIN fed : \A j \in 1..i : j \in DOMAIN fed
  BY <1>0, <1>1, <1>2
<1>4. Changed' = Changed
  BY <1>0, <1>2, <1>3 DEF Changed
<1>5. 1..EchoLines \subseteq DOMAIN fed
  BY <1>0, <1>1, <1>2
<1>6. skipped' = IF IsExpectedEcho(line) THEN skipped \union {n} ELSE skipped
  BY <1>2 DEF TakeLine
<1>7. echoed' = IF IsExpectedEcho(line) THEN echoed + 1 ELSE echoed
  BY DEF TakeLine, FeedLine
<1>8. skipped \subseteq DOMAIN fed /\ skipped' \subseteq DOMAIN fed'
  BY <1>3, <1>6 DEF EchoInv
<1>9. Changed = {} => echoed = EchoLines
  BY DEF EchoInv
<1>10. IsExpectedEcho(line) => \E k \in Changed : k <= line.same
  BY <1>0, <1>9 DEF IsExpectedEcho, EchoInv
<1>11. \A j \in Changed : j \in 1..EchoLines /\ fed'[j].same # j
  BY <1>0, <1>2 DEF Changed, EchoInv
<1>12. EchoIsTaken'
  <2>1. ASSUME NEW i \in DOMAIN fed', ~fed'[i].own
        PROVE  i \in skipped' <=> \A j \in 1..i : fed'[j].same = j
    <3>1. i \in DOMAIN fed /\ i # n /\ ~fed[i].own
      BY <1>0, <1>2, <1>3, <2>1
    <3>2. \A j \in 1..i : fed'[j] = fed[j]
      BY <1>2, <1>3, <3>1
    <3> QED
      BY <1>6, <3>1, <3>2 DEF EchoInv, EchoIsTaken
  <2>2. ASSUME NEW i \in skipped', fed'[i].own
        PROVE  \E j \in 1..EchoLines : j <= fed'[i].same /\ fed'[j].same # j
    <3>1. CASE i \in skipped
      <4>1. i \in DOMAIN fed /\ fed'[i] = fed[i]
        BY <1>2, <1>8, <3>1
      <4>2. PICK j \in 1..EchoLines : j <= fed[i].same /\ fed[j].same # j
        BY <2>2, <3>1, <4>1 DEF EchoInv, EchoIsTaken
      <4> QED
        BY <1>2, <1>5, <4>1, <4>2
    <3>2. CASE i = n /\ IsExpectedEcho(line)
      BY <1>2, <1>10, <1>11, <3>2
    <3> QED
      BY <1>6, <2>2, <3>1, <3>2
  <2> QED
    BY <2>1, <2>2 DEF EchoIsTaken
<1>13. /\ \A j \in DOMAIN fed' : ~fed'[j].own <=> j <= EchoLines
       /\ \A j \in DOMAIN fed' : ~fed'[j].own => fed'[j].same \in {0, j}
  BY <1>0, <1>2, <1>3 DEF EchoInv
<1>14. echoed' \in 0..EchoLines /\ (Changed = {} => echoed' = EchoLines)
  BY <1>0, <1>7, <1>9 DEF IsExpectedEcho
<1>15. Changed # {} => \E k \in Changed : k <= echoed' + 1
  <2>1. ASSUME NEW k \in Changed, k <= echoed + 1 PROVE k <= echoed' + 1
    BY <1>0, <1>7, <1>11, <2>1
  <2> QED
    BY <2>1 DEF EchoInv
<1> QED
  BY <1>0, <1>2, <1>3, <1>4, <1>8, <1>12, <1>13, <1>14, <1>15 DEF EchoInv

(* However the wrapper is echoed and whatever the command prints: the echo *)
(* is left out up to the first line of it that comes back changed, and     *)
(* output is left out with it only behind such a line (execute_tcl).       *)
THEOREM EchoHolds == FilterSpec => []EchoIsTaken
<1>1. ASSUME fed = <<>>, echoed = 0, skipped = {} PROVE EchoInv
  <2>1. DOMAIN fed = {} /\ Len(fed) = 0 /\ fed \in Seq(Lines) /\ EchoLines \in Nat
        /\ EchoLines # 0 /\ 0 \in 0..EchoLines /\ ~(0 >= EchoLines)
    BY <1>1, LineBounds
  <2>2. Changed = {}
    BY <2>1 DEF Changed
  <2> QED
    BY <1>1, <2>1, <2>2 DEF EchoInv, EchoIsTaken
<1>2. ASSUME fed' = <<>>, echoed' = 0, skipped' = {} PROVE EchoInv'
  <2>1. DOMAIN fed' = {} /\ Len(fed') = 0 /\ fed' \in Seq(Lines) /\ EchoLines \in Nat
        /\ EchoLines # 0 /\ 0 \in 0..EchoLines /\ ~(0 >= EchoLines)
    BY <1>2, LineBounds
  <2>2. Changed' = {}
    BY <2>1 DEF Changed
  <2> QED
    BY <1>2, <2>1, <2>2 DEF EchoInv, EchoIsTaken
<1>3. FilterInit => EchoInv
  BY <1>1 DEF FilterInit
<1>4. EchoInv /\ [FilterNext]_filter => EchoInv'
  <2> SUFFICES ASSUME EchoInv, [FilterNext]_filter PROVE EchoInv'
    OBVIOUS
  <2>0. Len(fed) \in Nat /\ EchoLines \in Nat
    BY LineBounds DEF EchoInv
  <2>1. CASE EchoLine
    <3>1. PICK n \in Nat : n = Len(fed) + 1
      BY <2>0
    <3>2. PICK same \in {0, n} : TakeLine(Echo(same))
      BY <2>1, <3>1 DEF EchoLine
    <3>3. n <= EchoLines
      BY <2>0, <2>1, <3>1 DEF EchoLine
    <3> QED
      BY <3>1, <3>2, <3>3, EchoOfLine
  <2>2. CASE PrintedLine
    <3>1. PICK line \in OwnLines : TakeLine(line)
      BY <2>2 DEF PrintedLine
    <3>2. Len(fed) >= EchoLines
      BY <2>0, <2>2 DEF PrintedLine
    <3> QED
      BY <3>1, <3>2, EchoOfOutput
  <2>3. CASE Finish \/ UNCHANGED filter
    <3>1. UNCHANGED <<fed, echoed, skipped>>
      BY <2>3 DEF Finish, filter
    <3>2. Changed' = Changed /\ EchoIsTaken' = EchoIsTaken
      BY <3>1 DEF Changed, EchoIsTaken
    <3> QED
      BY <3>1, <3>2 DEF EchoInv
  <2>4. CASE NextCommand
    BY <1>2, <2>4 DEF NextCommand
  <2> QED
    BY <2>1, <2>2, <2>3, <2>4 DEF FilterNext
<1>5. EchoInv => EchoIsTaken
  BY DEF EchoInv
<1> QED
  BY <1>3, <1>4, <1>5, PTL DEF FilterSpec

-----------------------------------------------------------------------------
(* The recognition of the prompt. *)

MatcherSpec == MatcherInit /\ [][MatcherNext]_matcher

(* s is how t ends: the same, counted from the end.                        *)
Ends(s, t) ==
  /\ Len(s) <= Len(t)
  /\ \A k \in 1..Len(s) : s[Len(s) - k + 1] = t[Len(t) - k + 1]

Capacity == IF Len(Prompt) > Kept THEN Len(Prompt) ELSE Kept

(* The matcher has the end of the stream, as much of it as it keeps.       *)
TailInv ==
  /\ stream \in Seq(Bytes) /\ tail \in Seq(Bytes)
  /\ Ends(tail, stream)
  /\ Len(tail) = IF Len(stream) > Capacity THEN Capacity ELSE Len(stream)

(* IsSuffix, which compares the reversed sequences, says just this.        *)
LEMMA SuffixIsEnd ==
  ASSUME NEW S, NEW s \in Seq(S), NEW t \in Seq(S)
  PROVE  IsSuffix(s, t) <=> Ends(s, t)
<1>1. PICK r : r = Reverse(s)
  OBVIOUS
<1>2. PICK u : u = Reverse(t)
  OBVIOUS
<1>3. /\ r \in Seq(S) /\ Len(r) = Len(s) /\ Len(s) \in Nat
      /\ \A k \in 1..Len(s) : r[k] = s[Len(s) - k + 1]
  <2>1. Len(s) \in Nat /\ \A k \in 1..Len(s) : s[Len(s) - k + 1] \in S
    BY LenProperties, ElementOfSeq
  <2> QED
    BY <1>1, <2>1 DEF Reverse
<1>4. /\ u \in Seq(S) /\ Len(u) = Len(t) /\ Len(t) \in Nat
      /\ \A k \in 1..Len(t) : u[k] = t[Len(t) - k + 1]
  <2>1. Len(t) \in Nat /\ \A k \in 1..Len(t) : t[Len(t) - k + 1] \in S
    BY LenProperties, ElementOfSeq
  <2> QED
    BY <1>2, <2>1 DEF Reverse
<1>5. CASE Len(s) <= Len(t)
  <2>1. PICK a : a = SubSeq(r, 1, Len(s))
    OBVIOUS
  <2>2. PICK b : b = SubSeq(u, 1, Len(s))
    OBVIOUS
  <2>3. /\ a \in Seq(S) /\ Len(a) = Len(s)
        /\ \A k \in 1..Len(s) : a[k] = r[k]
    BY <2>1, <1>3, SubSeqProperties
  <2>4. /\ b \in Seq(S) /\ Len(b) = Len(s)
        /\ \A k \in 1..Len(s) : b[k] = u[k]
    BY <2>2, <1>3, <1>4, <1>5, SubSeqProperties
  <2>5. a = b <=> \A k \in 1..Len(s) : a[k] = b[k]
    BY <2>3, <2>4, SeqEqual
  <2>6. IsSuffix(s, t) <=> a = b
    BY <1>1, <1>2, <1>3, <1>4, <1>5, <2>1, <2>2 DEF IsSuffix, IsPrefix
  <2>7. \A k \in 1..Len(s) : k \in 1..Len(t)
    BY <1>3, <1>4, <1>5
  <2> QED
    BY <1>3, <1>4, <1>5, <2>3, <2>4, <2>5, <2>6, <2>7 DEF Ends
<1>6. CASE ~(Len(s) <= Len(t))
  BY <1>1, <1>2, <1>3, <1>4, <1>6 DEF IsSuffix, IsPrefix, Ends
<1> QED
  BY <1>5, <1>6

(* What ends the end of a sequence ends the sequence.                      *)
LEMMA EndsOfEnds ==
  ASSUME NEW S, NEW r \in Seq(S), NEW s \in Seq(S), NEW t \in Seq(S), Ends(s, t)
  PROVE  /\ Ends(r, s) => Ends(r, t)
         /\ Ends(r, t) /\ Len(r) <= Len(s) => Ends(r, s)
<1>1. Len(r) \in Nat /\ Len(s) \in Nat /\ Len(t) \in Nat
  BY LenProperties
<1>2. Len(r) <= Len(s) => \A k \in 1..Len(r) : k \in 1..Len(s)
  BY <1>1
<1> QED
  BY <1>1, <1>2 DEF Ends

(* What the matcher keeps of a sequence is how it ends.                    *)
LEMMA KeepIsEnd ==
  ASSUME NEW s \in Seq(Bytes)
  PROVE  /\ Keep(s) \in Seq(Bytes) /\ Ends(Keep(s), s)
         /\ Len(Keep(s)) = IF Len(s) > Capacity THEN Capacity ELSE Len(s)
<1>0. Capacity \in Nat /\ Len(s) \in Nat
  BY PromptEndsBlank, LenProperties DEF Capacity
<1>1. Keep(s) = IF Len(s) > Capacity THEN SubSeq(s, Len(s) - Capacity + 1, Len(s)) ELSE s
  BY DEF Keep, Capacity
<1>2. CASE Len(s) > Capacity
  <2>1. PICK m \in Nat : m = Len(s) - Capacity + 1
    <3>1. Len(s) - Capacity + 1 \in Nat
      BY <1>0, <1>2
    <3> QED
      BY <3>1
  <2>2. PICK e : e = SubSeq(s, m, Len(s))
    OBVIOUS
  <2>3. m \in 1..Len(s) + 1 /\ Len(s) \in m - 1..Len(s)
    BY <1>0, <1>2, <2>1
  <2>4. e \in Seq(Bytes) /\ Len(e) = Capacity /\ \A i \in 1..Capacity : e[i] = s[m + i - 1]
    BY <1>0, <1>2, <2>1, <2>2, <2>3, SubSeqProperties
  <2>5. \A k \in 1..Capacity : /\ Capacity - k + 1 \in 1..Capacity
                               /\ m + (Capacity - k + 1) - 1 = Len(s) - k + 1
    BY <1>0, <2>1
  <2>6. Ends(e, s)
    <3>1. ASSUME NEW k \in 1..Capacity PROVE e[Capacity - k + 1] = s[Len(s) - k + 1]
      <4>1. PICK i : i = Capacity - k + 1
        OBVIOUS
      <4>2. i \in 1..Capacity /\ m + i - 1 = Len(s) - k + 1
        BY <2>5, <4>1
      <4> QED
        BY <2>4, <4>1, <4>2
    <3> QED
      BY <1>0, <1>2, <2>4, <3>1 DEF Ends
  <2> QED
    BY <1>1, <1>2, <2>1, <2>2, <2>4, <2>6
<1>3. CASE ~(Len(s) > Capacity)
  BY <1>0, <1>1, <1>3 DEF Ends
<1> QED
  BY <1>2, <1>3

(* However the stream is cut into reads.                                   *)
LEMMA TailInductive == TailInv /\ [MatcherNext]_matcher => TailInv'
<1> SUFFICES ASSUME TailInv, [MatcherNext]_matcher PROVE TailInv'
  OBVIOUS
<1>0. Capacity \in Nat /\ stream \in Seq(Bytes) /\ tail \in Seq(Bytes)
      /\ Len(stream) \in Nat /\ Len(tail) \in Nat
  BY PromptEndsBlank, LenProperties DEF Capacity, TailInv
<1>1. ASSUME NEW n \in 1..MaxStream, NEW chunk \in [1..n -> Bytes], FeedBytes(chunk) PROVE TailInv'
  <2>1. n \in Nat /\ chunk \in Seq(Bytes) /\ Len(chunk) \in Nat
    <3>1. n \in Nat
      OBVIOUS
    <3> QED
      BY <3>1, SeqDef, LenProperties
  <2>2. PICK w : w = tail \o chunk
    OBVIOUS
  <2>3. PICK z : z = stream \o chunk
    OBVIOUS
  <2>4. /\ w \in Seq(Bytes) /\ Len(w) = Len(tail) + Len(chunk)
        /\ \A i \in 1..Len(w) : w[i] = IF i <= Len(tail) THEN tail[i] ELSE chunk[i - Len(tail)]
    BY <1>0, <2>1, <2>2, ConcatProperties
  <2>5. /\ z \in Seq(Bytes) /\ Len(z) = Len(stream) + Len(chunk)
        /\ \A i \in 1..Len(z) : z[i] = IF i <= Len(stream) THEN stream[i] ELSE chunk[i - Len(stream)]
    BY <1>0, <2>1, <2>3, ConcatProperties
  <2>6. Ends(w, z)
    <3>0. Len(tail) <= Len(stream)
      BY DEF TailInv, Ends
    <3>1. ASSUME NEW k \in 1..Len(w) PROVE w[Len(w) - k + 1] = z[Len(z) - k + 1]
      <4>1. /\ Len(w) - k + 1 \in 1..Len(w) /\ Len(z) - k + 1 \in 1..Len(z) /\ k \in Nat
            /\ Len(w) - k + 1 <= Len(tail) <=> k > Len(chunk)
            /\ Len(z) - k + 1 <= Len(stream) <=> k > Len(chunk)
            /\ Len(w) - k + 1 - Len(tail) = Len(z) - k + 1 - Len(stream)
        BY <1>0, <2>1, <2>4, <2>5, <3>0
      <4>2. CASE k > Len(chunk)
        <5>1. PICK j : j = k - Len(chunk)
          OBVIOUS
        <5>2. /\ j \in 1..Len(tail) /\ Len(w) - k + 1 = Len(tail) - j + 1
              /\ Len(z) - k + 1 = Len(stream) - j + 1
          BY <1>0, <2>1, <2>4, <2>5, <4>1, <4>2, <5>1
        <5>3. tail[Len(tail) - j + 1] = stream[Len(stream) - j + 1]
          BY <5>2 DEF TailInv, Ends
        <5> QED
          BY <4>1, <4>2, <5>2, <5>3, <2>4, <2>5
      <4>3. CASE ~(k > Len(chunk))
        <5>1. PICK i : i = Len(w) - k + 1
          OBVIOUS
        <5>2. PICK j : j = Len(z) - k + 1
          OBVIOUS
        <5>3. w[i] = chunk[i - Len(tail)]
          BY <4>1, <4>3, <5>1, <2>4
        <5>4. z[j] = chunk[j - Len(stream)]
          BY <4>1, <4>3, <5>2, <2>5
        <5>5. i - Len(tail) = j - Len(stream)
          BY <4>1, <5>1, <5>2
        <5> QED
          BY <5>1, <5>2, <5>3, <5>4, <5>5
      <4> QED
        BY <4>2, <4>3
    <3>2. Len(w) <= Len(z)
      BY <1>0, <2>1, <2>4, <2>5, <3>0
    <3> QED
      BY <3>1, <3>2 DEF Ends
  <2>7. stream' = z /\ tail' = Keep(w)
    BY <1>1, <2>2, <2>3 DEF FeedBytes
  <2>8. /\ tail' \in Seq(Bytes) /\ Ends(tail', w)
        /\ Len(tail') = IF Len(w) > Capacity THEN Capacity ELSE Len(w)
    BY <2>4, <2>7, KeepIsEnd
  <2>9. Ends(tail', z)
    BY <2>4, <2>5, <2>6, <2>8, EndsOfEnds
  <2>10. Len(tail') = IF Len(z) > Capacity THEN Capacity ELSE Len(z)
    <3>1. Len(tail) = IF Len(stream) > Capacity THEN Capacity ELSE Len(stream)
      BY DEF TailInv
    <3> QED
      BY <3>1, <1>0, <2>1, <2>4, <2>5, <2>8
  <2> QED
    BY <2>5, <2>7, <2>8, <2>9, <2>10 DEF TailInv, Capacity
<1>2. CASE ResetMatcher
  <2>1. stream' = <<>> /\ tail' = <<>>
    BY <1>2 DEF ResetMatcher
  <2>2. <<>> \in Seq(Bytes) /\ Len(<<>>) = 0
    OBVIOUS
  <2> QED
    BY <1>0, <2>1, <2>2 DEF TailInv, Ends, Capacity
<1>3. CASE UNCHANGED matcher
  BY <1>3 DEF matcher, TailInv, Ends, Capacity
<1> QED
  BY <1>1, <1>2, <1>3 DEF MatcherNext

(* A sequence of which n is the last solid position is cut after it.       *)
LEMMA TrimCuts ==
  ASSUME NEW s \in Seq(Bytes), NEW n \in 1..Len(s), s[n] # Blank,
         \A i \in 1..Len(s) : i > n => s[i] = Blank
  PROVE  TrimEnd(s) = SubSeq(s, 1, n)
<1>1. PICK solid : solid = {i \in DOMAIN s : s[i] # Blank}
  OBVIOUS
<1>2. DOMAIN s = 1..Len(s) /\ Len(s) \in Nat
  BY LenProperties
<1>3. n \in solid /\ \A i \in solid : n >= i /\ i \in Nat
  BY <1>1, <1>2
<1>4. \A m \in solid : (\A i \in solid : m >= i) => m = n
  BY <1>3
<1>5. Max(solid) = n
  BY <1>3, <1>4 DEF Max
<1>6. TrimEnd(s) = IF solid = {} THEN <<>> ELSE SubSeq(s, 1, Max(solid))
  BY <1>1 DEF TrimEnd
<1> QED
  BY <1>3, <1>5, <1>6

(* When the stream ends with the prompt, the prompt is what is stripped.   *)
LEMMA StripIsExact ==
  ASSUME stream \in Seq(Bytes), Ends(Prompt, stream)
  PROVE  StripPrompt(stream) = TrimEnd(SubSeq(stream, 1, Len(stream) - Len(Prompt)))
<1>1. PICK p : p = Len(Prompt)
  OBVIOUS
<1>2. PICK l : l = Len(stream)
  OBVIOUS
<1>3. /\ p \in Nat /\ p > 1 /\ l \in Nat /\ p <= l /\ Prompt \in Seq(Bytes)
      /\ Prompt[p] = Blank /\ Prompt[p - 1] # Blank
      /\ \A k \in 1..p : Prompt[p - k + 1] = stream[l - k + 1]
  BY <1>1, <1>2, PromptEndsBlank, LenProperties DEF Ends
<1>4. stream[l] = Blank /\ stream[l - 1] # Blank
  <2>1. 1 \in 1..p /\ 2 \in 1..p /\ p - 1 + 1 = p /\ l - 1 + 1 = l
        /\ p - 2 + 1 = p - 1 /\ l - 2 + 1 = l - 1
    BY <1>3
  <2>2. Prompt[p - 1 + 1] = stream[l - 1 + 1] /\ Prompt[p - 2 + 1] = stream[l - 2 + 1]
    BY <1>3, <2>1
  <2> QED
    BY <1>3, <2>1, <2>2
<1>5. PICK text : text = SubSeq(stream, 1, l - 1)
  OBVIOUS
<1>6. PICK name : name = SubSeq(Prompt, 1, p - 1)
  OBVIOUS
<1>7. TrimEnd(stream) = text
  <2>1. l - 1 \in 1..Len(stream) /\ \A i \in 1..Len(stream) : i > l - 1 => i = l
    BY <1>2, <1>3
  <2> QED
    BY <2>1, <1>4, <1>5, TrimCuts
<1>8. TrimEnd(Prompt) = name
  <2>1. p - 1 \in 1..Len(Prompt) /\ \A i \in 1..Len(Prompt) : i > p - 1 => i = p
    BY <1>1, <1>3
  <2> QED
    BY <2>1, <1>3, <1>6, TrimCuts
<1>9. text \in Seq(Bytes) /\ Len(text) = l - 1 /\ \A i \in 1..(l - 1) : text[i] = stream[i]
  <2>1. l - 1 \in Int /\ 1 <= l - 1 /\ \A i \in 1..(l - 1) : i \in 1..l /\ 1 + i - 1 = i
    BY <1>3
  <2>2. \A i \in 1..(l - 1) : stream[i] \in Bytes
    BY <2>1, <1>2, ElementOfSeq
  <2>3. text \in Seq(Bytes) /\ Len(text) = l - 1 - 1 + 1
        /\ \A i \in 1..(l - 1 - 1 + 1) : text[i] = stream[1 + i - 1]
    BY <2>1, <2>2, <1>5, SubSeqProperties
  <2> QED
    BY <2>3, <2>1, <1>3
<1>10. name \in Seq(Bytes) /\ Len(name) = p - 1 /\ \A i \in 1..(p - 1) : name[i] = Prompt[i]
  <2>1. p - 1 \in Int /\ 1 <= p - 1 /\ \A i \in 1..(p - 1) : i \in 1..p /\ 1 + i - 1 = i
    BY <1>3
  <2>2. \A i \in 1..(p - 1) : Prompt[i] \in Bytes
    BY <2>1, <1>1, <1>3, ElementOfSeq
  <2>3. name \in Seq(Bytes) /\ Len(name) = p - 1 - 1 + 1
        /\ \A i \in 1..(p - 1 - 1 + 1) : name[i] = Prompt[1 + i - 1]
    BY <2>1, <2>2, <1>6, SubSeqProperties
  <2> QED
    BY <2>3, <2>1, <1>3
<1>11. Ends(name, text)
  <2>1. ASSUME NEW k \in 1..(p - 1)
        PROVE  name[p - 1 - k + 1] = text[l - 1 - k + 1]
    <3>1. PICK j : j = k + 1
      OBVIOUS
    <3>2. /\ j \in 1..p /\ p - 1 - k + 1 \in 1..(p - 1) /\ l - 1 - k + 1 \in 1..(l - 1)
          /\ p - 1 - k + 1 = p - j + 1 /\ l - 1 - k + 1 = l - j + 1
      BY <1>3, <3>1
    <3>3. name[p - j + 1] = Prompt[p - j + 1] /\ text[l - j + 1] = stream[l - j + 1]
      BY <3>2, <1>9, <1>10
    <3> QED
      BY <3>2, <3>3, <1>3
  <2>2. Len(name) <= Len(text)
    BY <1>3, <1>9, <1>10
  <2> QED
    BY <2>1, <2>2, <1>9, <1>10 DEF Ends
<1>12. StripPrompt(stream) = TrimEnd(SubSeq(text, 1, Len(text) - Len(name)))
  <2>1. IsSuffix(name, text)
    BY <1>9, <1>10, <1>11, SuffixIsEnd
  <2> QED
    BY <2>1, <1>7, <1>8 DEF StripPrompt
<1>13. SubSeq(text, 1, Len(text) - Len(name)) = SubSeq(stream, 1, l - p)
  <2>1. PICK a : a = SubSeq(text, 1, l - p)
    OBVIOUS
  <2>2. PICK b : b = SubSeq(stream, 1, l - p)
    OBVIOUS
  <2>3. l - p \in Int /\ \A i \in 1..(l - p) : i \in 1..(l - 1) /\ i \in 1..l /\ 1 + i - 1 = i
    BY <1>3
  <2>4. \A i \in 1..(l - p) : text[i] = stream[i] /\ stream[i] \in Bytes
    BY <2>3, <1>2, <1>9, ElementOfSeq
  <2>5. /\ a \in Seq(Bytes) /\ Len(a) = (IF 1 <= l - p THEN l - p - 1 + 1 ELSE 0)
        /\ \A i \in 1..(l - p - 1 + 1) : a[i] = text[1 + i - 1]
    BY <2>1, <2>3, <2>4, SubSeqProperties
  <2>6. /\ b \in Seq(Bytes) /\ Len(b) = (IF 1 <= l - p THEN l - p - 1 + 1 ELSE 0)
        /\ \A i \in 1..(l - p - 1 + 1) : b[i] = stream[1 + i - 1]
    BY <2>2, <2>3, <2>4, SubSeqProperties
  <2>7. Len(a) = Len(b) /\ \A i \in 1..Len(a) : i \in 1..(l - p) /\ i \in 1..(l - p - 1 + 1)
    BY <2>5, <2>6, <1>3
  <2>8. \A i \in 1..Len(a) : a[i] = b[i]
    BY <2>3, <2>4, <2>5, <2>6, <2>7
  <2>9. a = b
    BY <2>5, <2>6, <2>7, <2>8, SeqEqual
  <2>10. Len(text) - Len(name) = l - p
    BY <1>3, <1>9, <1>10
  <2> QED
    BY <2>1, <2>2, <2>9, <2>10
<1> QED
  BY <1>1, <1>2, <1>12, <1>13

(* The matcher says prompt exactly when the stream ends with one, whatever *)
(* its length and however it was cut into reads; and then what is left of  *)
(* the stream is what came before that prompt.                             *)
THEOREM PromptHolds == MatcherSpec => []PromptIsExact
<1>1. MatcherInit => TailInv
  <2>1. <<>> \in Seq(Bytes) /\ Len(<<>>) = 0 /\ Capacity \in Nat
    BY PromptEndsBlank, LenProperties DEF Capacity
  <2> QED
    BY <2>1 DEF MatcherInit, TailInv, Ends
<1>2. TailInv => PromptIsExact
  <2> SUFFICES ASSUME TailInv PROVE PromptIsExact
    OBVIOUS
  <2>1. stream \in Seq(Bytes) /\ tail \in Seq(Bytes) /\ Prompt \in Seq(Bytes) /\ Ends(tail, stream)
    BY PromptEndsBlank DEF TailInv
  <2>2. AtPrompt <=> Ends(Prompt, tail)
    BY <2>1, SuffixIsEnd DEF AtPrompt
  <2>3. IsSuffix(Prompt, stream) <=> Ends(Prompt, stream)
    BY <2>1, SuffixIsEnd
  <2>4. Ends(Prompt, tail) => Ends(Prompt, stream)
    BY <2>1, EndsOfEnds
  <2>5. ASSUME Ends(Prompt, stream) PROVE Ends(Prompt, tail)
    <3>1. Len(Prompt) \in Nat /\ Len(stream) \in Nat /\ Kept \in Nat /\ Len(Prompt) <= Len(stream)
      BY <2>1, <2>5, PromptEndsBlank, LenProperties DEF Ends
    <3>2. Len(Prompt) <= Len(tail)
      BY <3>1 DEF TailInv, Capacity
    <3> QED
      BY <2>1, <2>5, <3>2, EndsOfEnds
  <2>6. AtPrompt <=> IsSuffix(Prompt, stream)
    BY <2>2, <2>3, <2>4, <2>5
  <2>7. AtPrompt => StripPrompt(stream) = TrimEnd(SubSeq(stream, 1, Len(stream) - Len(Prompt)))
    BY <2>1, <2>2, <2>4, StripIsExact
  <2> QED
    BY <2>6, <2>7 DEF PromptIsExact
<1> QED
  BY <1>1, <1>2, TailInductive, PTL DEF MatcherSpec

-----------------------------------------------------------------------------
(* The calendar. *)

CalendarSpec == Epoch /\ [][NextDay]_calendar

(* The days before the year that begins in March of y, in an era of 400    *)
(* years, and before a month of it.                                        *)
DaysOfYears(yoe) == 365 * yoe + yoe \div 4 - yoe \div 100
DaysOfMonths(mp) == (153 * mp + 2) \div 5

(* The days of that year before a date. *)
YearDay(m, d) == DaysOfMonths(ShiftedMonth(m)) + d - 1

(* The year that began in the last March. *)
MarchYear(y, m) == IF m <= 2 THEN y - 1 ELSE y

(* The day the parser counts for a date. *)
DayOf(y, m, d) ==
  LET march == MarchYear(y, m)
  IN  (march \div 400) * 146097 + DaysOfYears(march % 400)
        + YearDay(m, d) - 719468

(* The civil date is one, and its day is the one the parser counts.        *)
CalendarInv ==
  /\ day \in Nat /\ year \in Nat \ {0}
  /\ month \in 1..12
  /\ date \in 1..MonthLength(year, month)
  /\ day = DayOf(year, month, date)

(* The length of a year from March to March.                               *)
LEMMA YearOnYear ==
  ASSUME NEW y \in Nat
  PROVE  ((y + 1) \div 400) * 146097 + DaysOfYears((y + 1) % 400)
           = (y \div 400) * 146097 + DaysOfYears(y % 400) + (IF Leap(y + 1) THEN 366 ELSE 365)
<1> DEFINE Count(n) == (n \div 400) * 146097 + DaysOfYears(n % 400)
<1>1. \A n \in Nat : Count(n) = 365 * n + n \div 4 - n \div 100 + n \div 400
  BY SMTT(60) DEF DaysOfYears
<1>2. 365 * (y + 1) + (y + 1) \div 4 - (y + 1) \div 100 + (y + 1) \div 400
        = 365 * y + y \div 4 - y \div 100 + y \div 400 + (IF Leap(y + 1) THEN 366 ELSE 365)
  BY SMTT(60) DEF Leap
<1>3. y + 1 \in Nat
  OBVIOUS
<1> HIDE DEF Count
<1>4. Count(y + 1) = Count(y) + (IF Leap(y + 1) THEN 366 ELSE 365)
  BY <1>1, <1>2, <1>3
<1> QED
  BY <1>4 DEF Count

(* Months from March have 153 days in five, the last one aside.            *)
LEMMA MonthOnMonth ==
  ASSUME NEW y \in Nat, NEW m \in 1..12, m # 2
  PROVE  DaysOfMonths(ShiftedMonth(IF m = 12 THEN 1 ELSE m + 1))
           = DaysOfMonths(ShiftedMonth(m)) + MonthLength(y, m)
BY SMTT(60) DEF DaysOfMonths, ShiftedMonth, MonthLength

(* Every step of the calendar is one day for the parser.                   *)
LEMMA CalendarInductive ==
  ASSUME CalendarInv, [NextDay]_calendar
  PROVE  CalendarInv'
<1>0. /\ day \in Nat /\ year \in Nat /\ year # 0 /\ month \in 1..12 /\ date \in Int
      /\ date >= 1 /\ date <= MonthLength(year, month) /\ day = DayOf(year, month, date)
      /\ MonthLength(year, month) \in Int
  BY DEF CalendarInv, MonthLength
<1>1. CASE UNCHANGED calendar
  BY <1>1 DEF calendar, CalendarInv
<1>2. CASE NextDay
  <2>0. day' = day + 1
    BY <1>2 DEF NextDay
  <2>1. ASSUME NextDate PROVE CalendarInv'
    <3>1. year' = year /\ month' = month /\ date' = date + 1 /\ date < MonthLength(year, month)
      BY <2>1 DEF NextDate
    <3>2. DayOf(year, month, date + 1) = DayOf(year, month, date) + 1
      <4>1. \A a \in Int : a + (date + 1) - 1 - 719468 = a + date - 1 - 719468 + 1
        BY <1>0
      <4> QED
        BY <1>0, SMTT(30) DEF DayOf, MarchYear, DaysOfYears, YearDay, DaysOfMonths, ShiftedMonth
    <3>3. date + 1 \in 1..MonthLength(year, month)
      BY <1>0, <3>1
    <3> QED
      BY <1>0, <2>0, <3>1, <3>2, <3>3 DEF CalendarInv
  <2>2. ASSUME NextMonth \/ NextYear PROVE CalendarInv'
    <3>1. /\ date = MonthLength(year, month) /\ date' = 1
          /\ month' = IF month = 12 THEN 1 ELSE month + 1
          /\ year' = IF month = 12 THEN year + 1 ELSE year
      BY <1>0, <2>2 DEF NextMonth, NextYear
    <3>2. month' \in 1..12 /\ year' \in Nat \ {0} /\ 1 \in 1..MonthLength(year', month')
      BY <1>0, <3>1 DEF MonthLength
    <3>3. DayOf(year', month', 1) = DayOf(year, month, date) + 1
      <4>1. CASE month # 2
        <5>1. MarchYear(year', month') = MarchYear(year, month)
          BY <1>0, <3>1, <4>1 DEF MarchYear
        <5>2. DaysOfMonths(ShiftedMonth(month')) = DaysOfMonths(ShiftedMonth(month)) + date
          BY <1>0, <3>1, <4>1, MonthOnMonth
        <5>3. MarchYear(year, month) \in Nat
          BY <1>0 DEF MarchYear
        <5>4. DaysOfMonths(ShiftedMonth(month)) \in Int
          BY <1>0 DEF DaysOfMonths, ShiftedMonth
        <5> QED
          BY <1>0, <5>1, <5>2, <5>3, <5>4 DEF DayOf, DaysOfYears, YearDay
      <4>2. CASE month = 2
        <5>1. MarchYear(year', month') = year /\ MarchYear(year, month) = year - 1
          BY <1>0, <3>1, <4>2 DEF MarchYear
        <5>2. /\ DaysOfMonths(ShiftedMonth(month)) = 337 /\ DaysOfMonths(ShiftedMonth(month')) = 0
          BY <3>1, <4>2 DEF DaysOfMonths, ShiftedMonth
        <5>3. date = IF Leap(year) THEN 29 ELSE 28
          BY <3>1, <4>2 DEF MonthLength
        <5>4. year - 1 \in Nat /\ (year - 1) + 1 = year
          BY <1>0
        <5>5. (year \div 400) * 146097 + DaysOfYears(year % 400)
                = ((year - 1) \div 400) * 146097 + DaysOfYears((year - 1) % 400)
                    + (IF Leap(year) THEN 366 ELSE 365)
          BY <5>4, YearOnYear
        <5>6. DaysOfYears((year - 1) % 400) \in Int /\ (year - 1) \div 400 \in Int
          BY <5>4 DEF DaysOfYears
        <5> QED
          BY <5>1, <5>2, <5>3, <5>5, <5>6 DEF DayOf, YearDay
      <4> QED
        BY <4>1, <4>2
    <3> QED
      BY <1>0, <2>0, <3>1, <3>2, <3>3 DEF CalendarInv
  <2> QED
    BY <1>2, <2>1, <2>2 DEF NextDay
<1> QED
  BY <1>1, <1>2

(* The day of an era, in its year and in its year's days. *)
Within(doe, yoe, doy) ==
  /\ doe \in Nat /\ doe < 146097
  /\ YearOfEra(doe) = yoe
  /\ doe - (365 * yoe + yoe \div 4 - yoe \div 100) = doy

(* The divisions of civil_from_unix find the year, the last day of a leap  *)
(* year included.                                                          *)
LEMMA YearIsFound ==
  ASSUME NEW yoe \in 0..399, NEW doy \in 0..365, doy = 365 => Leap(yoe + 1),
         NEW doe, doe = DaysOfYears(yoe) + doy
  PROVE  Within(doe, yoe, doy)
<1>1. ASSUME doy # 365 PROVE YearOfEra(DaysOfYears(yoe) + doy) = yoe
  <2>1. doy \in 0..364
    BY <1>1
  <2>2. YearOfEra(365 * yoe + yoe \div 4 - yoe \div 100 + doy) = yoe
    BY ONLY <2>1, SMTT(60) DEF YearOfEra
  <2> QED
    BY <2>2 DEF DaysOfYears
<1>2. ASSUME doy = 365 PROVE YearOfEra(DaysOfYears(yoe) + doy) = yoe
  <2>1. YearOfEra(365 * yoe + yoe \div 4 - yoe \div 100 + 365) = yoe
    BY <1>2, SMTT(60) DEF YearOfEra, Leap
  <2> QED
    BY <1>2, <2>1 DEF DaysOfYears
<1>3. 365 * yoe + yoe \div 4 - yoe \div 100 + doy \in Nat
  BY SMTT(30)
<1>4. yoe = 399 \/ yoe <= 398
  OBVIOUS
<1>5. 365 * yoe + yoe \div 4 - yoe \div 100 + doy < 146097
  BY SMTT(30)
<1>6. \A years \in Int : (years + doy) - years = doy
  OBVIOUS
<1>7. 365 * yoe + yoe \div 4 - yoe \div 100 \in Int
  OBVIOUS
<1> QED
  BY <1>1, <1>2, <1>3, <1>5, <1>6, <1>7 DEF DaysOfYears, Within

(* And the month.                                                          *)
LEMMA MonthIsFound ==
  ASSUME NEW y \in Nat, NEW m \in 1..12, NEW d \in 1..MonthLength(y, m), NEW doy,
         doy = YearDay(m, d)
  PROVE  /\ doy \in 0..365
         /\ doy = 365 => m = 2 /\ Leap(y)
         /\ (5 * doy + 2) \div 153 = ShiftedMonth(m)
         /\ doy - DaysOfMonths(ShiftedMonth(m)) + 1 = d
BY SMTT(60) DEF YearDay, DaysOfMonths, ShiftedMonth, MonthLength

(* A day's date is the one the calendar reaches.                           *)
LEMMA DateIsFound ==
  ASSUME CalendarInv, NEW rem \in Nat, rem < 86400
  PROVE  LET t == CivilFromUnix(day, rem)
         IN  t.y = year /\ t.mo = month /\ t.d = date
<1>0. year \in Nat /\ year # 0 /\ month \in 1..12 /\ date \in Int /\ date \in 1..MonthLength(year, month)
  BY DEF CalendarInv, MonthLength
<1>1. PICK march \in Nat : march = MarchYear(year, month)
  BY <1>0 DEF MarchYear
<1>2. PICK era : era = march \div 400
  OBVIOUS
<1>3. PICK yoe : yoe = march % 400
  OBVIOUS
<1>4. era \in Nat /\ yoe \in 0..399 /\ march = era * 400 + yoe
  BY ONLY march \in Nat, <1>2, <1>3, SMT
<1>5. PICK mp \in 0..11 : mp = ShiftedMonth(month)
  BY <1>0 DEF ShiftedMonth
<1>6. PICK doy : doy = YearDay(month, date)
  OBVIOUS
<1>7. /\ doy \in 0..365 /\ doy = 365 => month = 2 /\ Leap(year)
      /\ (5 * doy + 2) \div 153 = mp /\ doy - DaysOfMonths(mp) + 1 = date
  BY ONLY <1>0, <1>5, <1>6, MonthIsFound
<1>8. doy = 365 => Leap(yoe + 1)
  <2>2. month = 2 => year = era * 400 + (yoe + 1)
    BY <1>0, <1>1, <1>4 DEF MarchYear
  <2>3. Leap(era * 400 + (yoe + 1)) => Leap(yoe + 1)
    BY ONLY <1>4, SMT DEF Leap
  <2> QED
    BY <1>7, <2>2, <2>3
<1>9. PICK doe : doe = DaysOfYears(yoe) + doy
  OBVIOUS
<1>d. doy \in 0..365
  BY ONLY <1>0, <1>6, MonthIsFound
<1>10. Within(doe, yoe, doy)
  <2>1. yoe \in 0..399
    BY <1>4
  <2> QED
    BY ONLY <2>1, <1>8, <1>9, <1>d, YearIsFound, Zenon
<1>11. day + 719468 = era * 146097 + doe
  <2>1. DaysOfYears(yoe) \in Int
    BY <1>4 DEF DaysOfYears
  <2>2. day = era * 146097 + DaysOfYears(yoe) + doy - 719468
    BY <1>1, <1>2, <1>3, <1>6 DEF CalendarInv, DayOf
  <2>3. PICK years \in Int : years = DaysOfYears(yoe)
    BY <2>1
  <2>4. PICK eras \in Int : eras = era * 146097
    BY <1>4
  <2>5. doy \in Int
    BY <1>d
  <2>6. day = eras + years + doy - 719468 /\ doe = years + doy
    BY <1>9, <2>2, <2>3, <2>4
  <2>7. day + 719468 = eras + doe
    BY ONLY years \in Int, eras \in Int, <2>5, <2>6
  <2> QED
    BY <2>4, <2>7
<1>12. (day + 719468) % 146097 = doe /\ (day + 719468) \div 146097 = era
  <2>1. (era * 146097 + doe) % 146097 = doe /\ (era * 146097 + doe) \div 146097 = era
    BY ONLY <1>4, <1>10, SMT DEF Within
  <2> QED
    BY <1>11, <2>1
<1>14. doy - (153 * mp + 2) \div 5 + 1 = date
  BY <1>7 DEF DaysOfMonths
<1>15. (IF mp < 10 THEN mp + 3 ELSE mp - 9) = month
  BY <1>0, <1>5 DEF ShiftedMonth
<1>16. (IF month <= 2 THEN yoe + era * 400 + 1 ELSE yoe + era * 400) = year
  BY <1>0, <1>1, <1>4 DEF MarchYear
<1> QED
  BY <1>7, <1>10, <1>12, <1>14, <1>15, <1>16 DEF CivilFromUnix, Within

(* Hours, minutes and seconds as both functions take them from a number of *)
(* seconds.                                                                *)
Apart(secs, h, m, s) ==
  /\ secs = h * 3600 + m * 60 + s
  /\ secs \div 3600 = h /\ (secs % 3600) \div 60 = m /\ secs % 60 = s

(* A number of seconds is hours, minutes and seconds, as the divisions     *)
(* take it apart.                                                          *)
LEMMA TimeOfDay ==
  ASSUME NEW secs \in Nat
  PROVE  \E h \in Nat : \E m \in 0..59 : \E s \in 0..59 : Apart(secs, h, m, s)
<1>1. PICK h : h = secs \div 3600
  OBVIOUS
<1>2. PICK r : r = secs % 3600
  OBVIOUS
<1>3. h \in Nat /\ r \in 0..3599 /\ secs = h * 3600 + r
  BY <1>1, <1>2, SMT
<1>4. PICK m : m = r \div 60
  OBVIOUS
<1>5. PICK s : s = r % 60
  OBVIOUS
<1>6. m \in 0..59 /\ s \in 0..59 /\ r = m * 60 + s
  BY <1>3, <1>4, <1>5, SMT
<1>7. (h * 3600 + m * 60 + s) % 60 = s
  BY ONLY <1>3, <1>6, SMT
<1>8. secs = h * 3600 + m * 60 + s
  BY <1>3, <1>6
<1>9. Apart(secs, h, m, s)
  BY ONLY <1>1, <1>2, <1>4, <1>5, <1>7, <1>8 DEF Apart
<1> QED
  <2>1. h \in Nat /\ m \in 0..59 /\ s \in 0..59
    BY <1>3, <1>6
  <2> QED
    BY ONLY <1>9, <2>1, Zenon

(* The time of day goes through the text unchanged.                        *)
LEMMA TimeIsFound ==
  ASSUME NEW rem \in Nat, rem < 86400
  PROVE  LET t == CivilFromUnix(day, rem)
         IN  /\ t.h \in 0..23 /\ t.mi \in 0..59 /\ t.s \in 0..59
             /\ t.h * 3600 + t.mi * 60 + t.s = rem
<1>q. \E h \in Nat : \E m \in 0..59 : \E s \in 0..59 : Apart(rem, h, m, s)
  BY ONLY rem \in Nat, TimeOfDay
<1>0. PICK h \in Nat, m \in 0..59, s \in 0..59 : Apart(rem, h, m, s)
  BY ONLY <1>q
<1>1. /\ rem = h * 3600 + m * 60 + s
      /\ rem \div 3600 = h /\ (rem % 3600) \div 60 = m /\ rem % 60 = s
  BY <1>0 DEF Apart
<1>2. PICK t : t = CivilFromUnix(day, rem)
  OBVIOUS
<1>3. t.h = h /\ t.mi = m /\ t.s = s
  BY <1>1, <1>2 DEF CivilFromUnix
<1>4. h <= 23
  <2>1. h * 3600 + m * 60 + s <= 86399
    BY <1>1
  <2> QED
    BY <2>1
<1> QED
  BY <1>1, <1>2, <1>3, <1>4

(* The parser gets back what was written.                                  *)
LEMMA ParseIsInverse ==
  ASSUME CalendarInv, NEW rem \in Nat, rem < 86400
  PROVE  ParseIsoSecs(CivilFromUnix(day, rem)) = [days |-> day, rem |-> rem]
<1>1. PICK t : t = CivilFromUnix(day, rem)
  OBVIOUS
<1>2. t.y = year /\ t.mo = month /\ t.d = date
  BY <1>1, DateIsFound
<1>3. t.h * 3600 + t.mi * 60 + t.s = rem
  BY <1>1, TimeIsFound
<1>4. year \in Nat /\ year # 0 /\ month \in 1..12 /\ date \in Int
  BY DEF CalendarInv, MonthLength
<1>5. PICK march \in Nat : march = MarchYear(year, month)
  BY <1>4 DEF MarchYear
<1>6. PICK era : era = march \div 400
  OBVIOUS
<1>7. DayOf(year, month, date)
        = (march \div 400) * 146097 + DaysOfYears(march % 400)
            + YearDay(month, date) - 719468
  BY <1>5 DEF DayOf
<1>8. PICK months \in Int : months = DaysOfMonths(ShiftedMonth(month))
  BY <1>4 DEF DaysOfMonths, ShiftedMonth
<1>9. PICK yoe : yoe = march % 400
  OBVIOUS
<1>10. era \in Nat /\ yoe \in Nat /\ march = era * 400 + yoe
  BY ONLY march \in Nat, <1>6, <1>9, SMT
<1>11. era * 146097 + (yoe * 365 + yoe \div 4 - yoe \div 100 + (months + date - 1)) - 719468 = day
  BY <1>4, <1>6, <1>7, <1>8, <1>9, <1>10 DEF CalendarInv, DaysOfYears, YearDay
<1>12. (IF t.mo <= 2 THEN t.y - 1 ELSE t.y) = march
  BY <1>2, <1>5 DEF MarchYear
<1>13. march - era * 400 = yoe
  BY <1>10
<1>14. (153 * ShiftedMonth(t.mo) + 2) \div 5 = months
  BY <1>2, <1>8 DEF DaysOfMonths
<1>15. PICK time : time = t.h * 3600 + t.mi * 60 + t.s
  OBVIOUS
<1>16. ParseIsoSecs(t) =
         [days |-> era * 146097 + (yoe * 365 + yoe \div 4 - yoe \div 100 + (months + date - 1)) - 719468,
          rem |-> time]
  BY ONLY <1>2, <1>6, <1>12, <1>13, <1>14, <1>15, SMTT(20) DEF ParseIsoSecs
<1> QED
  BY ONLY <1>1, <1>3, <1>11, <1>15, <1>16

(* A duration is printed as what it is.                                    *)
LEMMA DurationIsExact ==
  ASSUME NEW secs \in Nat
  PROVE  LET shown == HumanDuration(secs)
         IN  /\ shown[1] * 3600 + shown[2] * 60 + shown[3] = secs
             /\ shown[2] < 60 /\ shown[3] < 60
<1>0. PICK h \in Nat, m \in 0..59, s \in 0..59 : Apart(secs, h, m, s)
  BY TimeOfDay
<1>1. /\ secs = h * 3600 + m * 60 + s
      /\ secs \div 3600 = h /\ (secs % 3600) \div 60 = m /\ secs % 60 = s
  BY <1>0 DEF Apart
<1>2. CASE secs >= 3600
  <2>1. PICK shown : shown = HumanDuration(secs)
    OBVIOUS
  <2>2. shown = <<h, m, s>>
    BY <1>1, <1>2, <2>1 DEF HumanDuration
  <2>3. shown[1] = h /\ shown[2] = m /\ shown[3] = s
    BY <2>2
  <2>4. m < 60 /\ s < 60 /\ h * 3600 + m * 60 + s = secs
    BY <1>1
  <2> QED
    BY ONLY <2>1, <2>3, <2>4
<1>3. CASE ~(secs >= 3600)
  <2>1. h = 0
    BY <1>1, <1>3
  <2>2. secs = m * 60 + s
    BY <1>1, <2>1
  <2>3. (m * 60 + s) \div 60 = m
    BY ONLY m \in 0..59, s \in 0..59, SMT
  <2>4. HumanDuration(secs) = <<0, m, s>>
    BY <1>1, <1>3, <2>2, <2>3 DEF HumanDuration
  <2> QED
    BY <2>2, <2>4
<1> QED
  BY <1>2, <1>3

(* On every day there is: a timestamp is the date the calendar reaches, it *)
(* is read back as the time it was written for, and the running time that  *)
(* is shown is the time since.                                             *)
THEOREM TimesHold == CalendarSpec => []TimesAreExact
<1>1. Epoch => CalendarInv
  BY DEF Epoch, CalendarInv, MonthLength, DayOf, MarchYear, DaysOfYears, YearDay, DaysOfMonths, ShiftedMonth
<1>2. ASSUME CalendarInv PROVE TimesAreExact
  <2>1. ASSUME NEW then \in Moments PROVE DateIsCivil(then) /\ ParseInverts(then)
    <3>1. then \in Nat /\ then < 86400
      BY MomentsAreSeconds
    <3> QED
      BY <1>2, <3>1, DateIsFound, TimeIsFound, ParseIsInverse DEF DateIsCivil, ParseInverts
  <2>2. ASSUME NEW then \in Moments, NEW now \in Moments, NEW age \in 0..MaxAge
        PROVE  ElapsedIsExact(then, now, age)
    <3>1. then \in Nat /\ then < 86400 /\ now \in Nat /\ now < 86400 /\ age \in Nat /\ day \in Nat
      BY <1>2, MomentsAreSeconds, MaxAgeIsDays DEF CalendarInv
    <3>2. ParseIsoSecs(CivilFromUnix(day, then)) = [days |-> day, rem |-> then]
      BY <1>2, <3>1, ParseIsInverse
    <3>3. PICK secs \in Int : secs = age * 86400 + now - then
      BY <3>1
    <3>4. ((day + age) - day) * 86400 + now - then = secs
      BY <3>1, <3>3
    <3>5. ElapsedSince(CivilFromUnix(day, then), day + age, now)
            = HumanDuration(IF secs < 0 THEN 0 ELSE secs)
      BY <3>2, <3>4 DEF ElapsedSince
    <3>6. (IF secs < 0 THEN 0 ELSE secs) \in Nat
      OBVIOUS
    <3> QED
      BY <3>3, <3>5, <3>6, DurationIsExact DEF ElapsedIsExact
  <2> QED
    BY <2>1, <2>2 DEF TimesAreExact
<1> QED
  BY <1>1, <1>2, CalendarInductive, PTL DEF CalendarSpec

-----------------------------------------------------------------------------
(* The command line. *)

LineSpec == LineInit /\ [][ReadWord]_reading

(* A word more changes nothing about the words before it, nor about what   *)
(* the word itself may be.                                                 *)
LEMMA EarlierWords ==
  ASSUME NEW w \in Seq(Words), NEW a \in Words, NEW v, v = Append(w, a),
         NEW i \in 2..(Len(w) + 1)
  PROVE  /\ IsValue(v, i) <=> IsValue(w, i)
         /\ AfterDashes(v, i) <=> AfterDashes(w, i)
         /\ i <= Len(w) => (IsOption(v, i) <=> IsOption(w, i)) /\ v[i] = w[i]
<1>0. Len(w) \in Nat /\ i \in Nat /\ \A j \in 1..Len(w) : v[j] = w[j]
  OBVIOUS
<1>1. ASSUME NEW k \in 2..(Len(w) + 1)
      PROVE  IsValue(v, k) <=> IsValue(w, k)
  <2>1. \A r \in 2..(k - 1) : v[r - 1] = w[r - 1] /\ \A j \in r..(k - 1) : v[j] = w[j]
    BY <1>0
  <2> QED
    BY <2>1 DEF IsValue
<1>2. AfterDashes(v, i) <=> AfterDashes(w, i)
  <2>1. \A d \in 2..(i - 1) : d \in 2..(Len(w) + 1) /\ v[d] = w[d]
    BY <1>0
  <2> QED
    BY <1>1, <2>1 DEF AfterDashes
<1>3. i <= Len(w) => v[i] = w[i]
  BY <1>0
<1> QED
  BY <1>1, <1>2, <1>3 DEF IsOption

(* Every row of options begins somewhere, since the verb is none. *)
LEMMA RowBegins ==
  ASSUME NEW w \in Seq(Words), w[1] \notin ExecOptions, NEW n \in 2..Len(w), w[n] \in ExecOptions
  PROVE  \E r \in 2..n : w[r - 1] \notin ExecOptions /\ \A j \in r..n : w[j] \in ExecOptions
<1>0. n \in Nat /\ n >= 2
  OBVIOUS
<1>1. PICK S : S = {r \in 2..n : w[r - 1] \notin ExecOptions}
  OBVIOUS
<1>2. S \subseteq 1..n /\ 2 \in S
  BY <1>0, <1>1
<1>3. PICK r \in S : \A y \in S : y <= r
  BY <1>0, <1>2, MaxOf
<1>4. ASSUME NEW j \in r..n PROVE w[j] \in ExecOptions
  <2>1. CASE j = n
    BY <2>1
  <2>2. CASE j # n
    <3>1. j + 1 \in 2..n /\ ~(j + 1 <= r)
      BY <1>1, <1>4, <2>2
    <3>2. w[(j + 1) - 1] \in ExecOptions
      BY <1>1, <1>3, <3>1
    <3>3. (j + 1) - 1 = j
      BY <1>1
    <3> QED
      BY <3>2, <3>3
  <2> QED
    BY <2>1, <2>2
<1> QED
  BY <1>1, <1>4

(* A word is the value of the one before it if that looks like an option   *)
(* and is no value itself.                                                 *)
LEMMA ValueFollowsOption ==
  ASSUME NEW w \in Seq(Words), w[1] \notin ExecOptions, NEW n \in 2..Len(w)
  PROVE  IsValue(w, n + 1) <=> w[n] \in ExecOptions /\ ~IsValue(w, n)
<1>0. n \in Nat /\ n >= 2 /\ (n + 1) - 1 = n
  OBVIOUS
<1>1. ASSUME IsValue(w, n + 1)
      PROVE  w[n] \in ExecOptions /\ ~IsValue(w, n)
  <2>1. PICK r \in 2..n : /\ w[r - 1] \notin ExecOptions
                          /\ \A j \in r..n : w[j] \in ExecOptions
                          /\ (n + 1 - r) % 2 = 1
    BY <1>0, <1>1 DEF IsValue
  <2>2. ASSUME IsValue(w, n) PROVE FALSE
    <3>1. PICK q \in 2..(n - 1) : /\ w[q - 1] \notin ExecOptions
                                  /\ \A j \in q..(n - 1) : w[j] \in ExecOptions
                                  /\ (n - q) % 2 = 1
      BY <2>2 DEF IsValue
    <3>2. ~(r < q)
      <4>1. r < q => q - 1 \in r..n
        BY <1>0
      <4> QED
        BY <2>1, <3>1, <4>1
    <3>3. ~(q < r)
      <4>1. q < r => r - 1 \in q..(n - 1)
        BY <1>0
      <4> QED
        BY <2>1, <3>1, <4>1
    <3>4. q = r
      BY <3>2, <3>3
    <3> QED
      BY <1>0, <2>1, <3>1, <3>4
  <2>3. w[n] \in ExecOptions
    BY <2>1
  <2> QED
    BY <2>2, <2>3
<1>2. ASSUME w[n] \in ExecOptions, ~IsValue(w, n)
      PROVE  IsValue(w, n + 1)
  <2>1. PICK r \in 2..n : /\ w[r - 1] \notin ExecOptions
                          /\ \A j \in r..n : w[j] \in ExecOptions
    BY <1>2, RowBegins
  <2>2. (n + 1 - r) % 2 = 1
    <3>1. CASE r = n
      BY <1>0, <3>1
    <3>2. CASE r # n
      <4>1. r \in 2..(n - 1) /\ \A j \in r..(n - 1) : w[j] \in ExecOptions
        BY <1>0, <2>1, <3>2
      <4>2. (n - r) % 2 # 1
        BY <1>2, <2>1, <4>1 DEF IsValue
      <4> QED
        BY <1>0, <4>1, <4>2
    <3> QED
      BY <3>1, <3>2
  <2> QED
    BY <1>0, <2>1, <2>2 DEF IsValue
<1> QED
  BY <1>1, <1>2

(* The word before i opens an option exactly if i is a value before "--".  *)
LEMMA OptionWaits ==
  ASSUME NEW w \in Seq(Words), w[1] \notin ExecOptions, NEW n \in 2..Len(w)
  PROVE  /\ AfterDashes(w, n + 1) <=>
              AfterDashes(w, n) \/ (w[n] = "--" /\ ~IsValue(w, n))
         /\ IsOption(w, n) <=> IsValue(w, n + 1) /\ ~AfterDashes(w, n + 1)
<1>0. n \in Nat /\ n >= 2
  OBVIOUS
<1>1. \A d : d \in 2..((n + 1) - 1) <=> d \in 2..(n - 1) \/ d = n
  BY <1>0
<1>2. AfterDashes(w, n + 1) <=> AfterDashes(w, n) \/ (w[n] = "--" /\ ~IsValue(w, n))
  BY <1>1 DEF AfterDashes
<1> QED
  BY <1>2, ValueFollowsOption DEF IsOption, ExecOptions

(* What an option gives changes only with the word that is its value. *)
LEMMA GivesOneMore ==
  ASSUME NEW w \in Seq(Words), Len(w) >= 1, NEW a \in Words, NEW v, v = Append(w, a),
         NEW opt \in ExecOptions, NEW x \in Words \union {Unset}, Gives(w, opt, x)
  PROVE  /\ MissesValue(w) /\ w[Len(w)] = opt => Gives(v, opt, a)
         /\ ~(MissesValue(w) /\ w[Len(w)] = opt) => Gives(v, opt, x)
<1> DEFINE at(u) == {i \in 2..(Len(u) - 1) : u[i] = opt /\ IsOption(u, i)}
           n == Len(w)
<1>0. n \in Nat /\ Len(v) = n + 1 /\ v[n + 1] = a /\ \A j \in 1..n : v[j] = w[j]
  OBVIOUS
<1>1. \A i \in 2..n : v[i] = w[i] /\ (IsOption(v, i) <=> IsOption(w, i))
  <2>1. \A i \in 2..n : i \in 2..(Len(w) + 1) /\ i <= Len(w)
    BY <1>0
  <2> QED
    BY <2>1, EarlierWords
<1>2. \A i : i \in at(v) <=> i \in 2..n /\ w[i] = opt /\ IsOption(w, i)
  BY <1>0, <1>1
<1>3. \A i : i \in at(w) <=> i \in 2..n /\ i # n /\ w[i] = opt /\ IsOption(w, i)
  BY <1>0
<1>4. at(w) \subseteq 2..(n - 1) /\ \A i \in at(w) : v[i + 1] = w[i + 1] /\ i <= n
  BY <1>0
<1>5. \/ at(w) = {} /\ x = Unset
      \/ \E i \in at(w) : x = w[i + 1] /\ \A j \in at(w) : j <= i
  BY DEF Gives
<1> HIDE DEF at, n
<1>6. ASSUME n > 1, IsOption(w, n), w[n] = opt
      PROVE  n \in at(v) /\ v[n + 1] = a /\ \A j \in at(v) : j <= n
  BY <1>0, <1>2, <1>6
<1>7. ASSUME ~(n > 1 /\ IsOption(w, n) /\ w[n] = opt)
      PROVE  at(v) = at(w)
  <2>1. \A i : i \in at(v) <=> i \in at(w)
    BY <1>0, <1>2, <1>3, <1>7
  <2> QED
    BY <2>1 DEF at
<1>8. ASSUME ~(n > 1 /\ IsOption(w, n) /\ w[n] = opt)
      PROVE  \/ at(v) = {} /\ x = Unset
             \/ \E i \in at(v) : x = v[i + 1] /\ \A j \in at(v) : j <= i
  BY <1>4, <1>5, <1>7, <1>8
<1> QED
  BY <1>6, <1>8 DEF Gives, MissesValue, at, n

(* A timeout is bad when its value is read, and stays so. *)
LEMMA BadOneMore ==
  ASSUME NEW w \in Seq(Words), Len(w) >= 1, NEW a \in Words, NEW v, v = Append(w, a)
  PROVE  HasBadTimeout(v) <=>
           \/ HasBadTimeout(w)
           \/ MissesValue(w) /\ w[Len(w)] = "--timeout" /\ a \notin Numbers
<1> DEFINE n == Len(w)
<1>0. n \in Nat /\ Len(v) = n + 1 /\ v[n + 1] = a /\ \A j \in 1..n : v[j] = w[j]
  OBVIOUS
<1>1. \A i \in 2..n : v[i] = w[i] /\ (IsOption(v, i) <=> IsOption(w, i))
  <2>1. \A i \in 2..n : i \in 2..(Len(w) + 1) /\ i <= Len(w)
    BY <1>0
  <2> QED
    BY <2>1, EarlierWords
<1>2. \A i \in 2..(n - 1) : i + 1 \in 1..n /\ v[i + 1] = w[i + 1]
  BY <1>0
<1>3. \A i : i \in 2..n <=> i \in 2..(n - 1) \/ (i = n /\ n > 1)
  BY <1>0
<1>4. HasBadTimeout(v) <=>
        \E i \in 2..n : w[i] = "--timeout" /\ IsOption(w, i) /\ v[i + 1] \notin Numbers
  BY <1>0, <1>1 DEF HasBadTimeout
<1> QED
  BY <1>0, <1>2, <1>3, <1>4 DEF HasBadTimeout, MissesValue

(* A word is free after "--", or if it is neither option nor value. *)
IsFree(w, a) ==
  AfterDashes(w, Len(w) + 1) \/ (a \notin ExecOptions \union {"--"} /\ ~IsValue(w, Len(w) + 1))

(* The free words of a line with one word more. *)
LEMMA FreeOneMore ==
  ASSUME NEW w \in Seq(Words), Len(w) >= 1, NEW a \in Words, NEW v, v = Append(w, a)
  PROVE  /\ IsFree(w, a) => Free(v) = Free(w) \union {Len(w) + 1}
         /\ ~IsFree(w, a) => Free(v) = Free(w)
<1> DEFINE n == Len(w)
<1>0. n \in Nat /\ n >= 1 /\ Len(v) = n + 1 /\ v[n + 1] = a
  OBVIOUS
<1>1. \A i \in 2..(n + 1) : /\ IsValue(v, i) <=> IsValue(w, i)
                            /\ AfterDashes(v, i) <=> AfterDashes(w, i)
                            /\ i <= n => v[i] = w[i]
  BY EarlierWords
<1>2. \A i : i \in 2..(n + 1) <=> i \in 2..n \/ i = n + 1
  BY <1>0
<1>3. \A i \in 2..n : i <= n /\ i # n + 1
  BY <1>0
<1>4. ASSUME NEW i \in 2..n
      PROVE  i \in Free(v) <=> i \in Free(w)
  BY <1>0, <1>1, <1>2, <1>3 DEF Free
<1>5. n + 1 \in Free(v) <=> IsFree(w, a)
  BY <1>0, <1>1, <1>2 DEF Free, IsFree
<1>6. Free(v) \subseteq 2..(n + 1) /\ Free(w) \subseteq 2..n
  BY <1>0 DEF Free
<1>7. \A i : i \in Free(v) <=> i \in Free(w) \/ (i = n + 1 /\ IsFree(w, a))
  BY <1>2, <1>3, <1>4, <1>5, <1>6
<1>8. CASE IsFree(w, a)
  BY <1>7, <1>8
<1>9. CASE ~IsFree(w, a)
  BY <1>7, <1>9
<1> QED
  BY <1>8, <1>9

(* A free word goes behind those before it. *)
LEMMA TakesOneMore ==
  ASSUME NEW w \in Seq(Words), Len(w) >= 1, NEW a \in Words, NEW v, v = Append(w, a),
         NEW s \in Seq(Words), TakesInOrder(w, Free(w), s)
  PROVE  /\ TakesInOrder(v, Free(w), s)
         /\ TakesInOrder(v, Free(w) \union {Len(w) + 1}, Append(s, a))
<1> DEFINE n == Len(w)
           S == Free(w)
           T == S \union {n + 1}
           upTo(R, i) == {j \in R : j <= i}
<1>0. n \in Nat /\ v[n + 1] = a /\ \A j \in 1..n : v[j] = w[j]
  OBVIOUS
<1>1. S \subseteq 2..n /\ n + 1 \notin S
  BY <1>0 DEF Free
<1>2. IsFiniteSet(S)
  <2>1. IsFiniteSet(2..n)
    <3>1. 2 \in Int /\ n \in Int
      BY <1>0
    <3> HIDE DEF n
    <3> QED
      BY <3>1, FS_Interval
  <2> QED
    BY <1>1, <2>1, FS_Subset
<1>3. Len(s) = Cardinality(S) /\ \A i \in S : s[Cardinality(upTo(S, i))] = w[i]
  BY DEF TakesInOrder
<1>4. Cardinality(T) = Cardinality(S) + 1 /\ Cardinality(S) \in Nat
  BY <1>1, <1>2, FS_AddElement, FS_CardinalityType
<1>5. ASSUME NEW i \in S
      PROVE  /\ upTo(T, i) = upTo(S, i) /\ v[i] = w[i]
             /\ Cardinality(upTo(S, i)) \in 1..Cardinality(S)
  <2>1. i \in 2..n
    BY <1>1
  <2>2. upTo(T, i) = upTo(S, i) /\ v[i] = w[i]
    BY <1>0, <2>1
  <2>3. upTo(S, i) \subseteq S /\ i \in upTo(S, i)
    BY <2>1
  <2>4. IsFiniteSet(upTo(S, i)) /\ Cardinality(upTo(S, i)) <= Cardinality(S)
    BY <1>2, <2>3, FS_Subset
  <2>5. Cardinality(upTo(S, i)) \in Nat /\ Cardinality(upTo(S, i)) # 0
    BY <2>3, <2>4, FS_CardinalityType, FS_EmptySet
  <2> QED
    BY <1>4, <2>2, <2>4, <2>5
<1>6. upTo(T, n + 1) = T
  BY <1>0, <1>1
<1>7. /\ Len(Append(s, a)) = Cardinality(S) + 1 /\ Append(s, a)[Cardinality(S) + 1] = a
      /\ \A k \in 1..Cardinality(S) : Append(s, a)[k] = s[k]
  BY <1>3
<1> HIDE DEF S, T, n, upTo
<1>8. TakesInOrder(v, S, s)
  BY <1>3, <1>5 DEF TakesInOrder, upTo
<1>9. ASSUME NEW i \in T
      PROVE  Append(s, a)[Cardinality(upTo(T, i))] = v[i]
  <2>1. CASE i = n + 1
    BY <1>0, <1>4, <1>6, <1>7, <2>1 DEF n
  <2>2. CASE i \in S
    BY <1>3, <1>5, <1>7, <2>2
  <2> QED
    BY <2>1, <2>2 DEF T
<1>10. TakesInOrder(v, T, Append(s, a))
  BY <1>4, <1>7, <1>9 DEF TakesInOrder, upTo
<1> QED
  BY <1>8, <1>10 DEF S, T, n

(* What the loop of exec knows of the words it has read. *)
ExecInv(w, p) ==
  /\ p.want = IF MissesValue(w) THEN w[Len(w)] ELSE Unset
  /\ p.raw <=> AfterDashes(w, Len(w) + 1)
  /\ p.bad <=> HasBadTimeout(w)
  /\ Gives(w, "--timeout", p.timeout) /\ Gives(w, "--file", p.file)
  /\ TakesInOrder(w, Free(w), p.inline)

Parsed ==
  [want : {Unset, "--timeout", "--file", "--tail", "--project", "--workspace"}, bad : BOOLEAN,
   timeout : Words \union {Unset}, file : Words \union {Unset}, inline : Seq(Words),
   raw : BOOLEAN, tail : Words \union {Unset}, follow : BOOLEAN, force : BOOLEAN,
   project : Words \union {Unset}, workspace : Words \union {Unset}]

LineInv ==
  /\ words \in Seq(Words) /\ parsed \in Parsed
  /\ words = <<>> => parsed = NoOptions
  /\ words # <<>> /\ words[1] = "exec" => ExecInv(words, parsed)

(* Where the loop of exec is, in the words of the reference. *)
LEMMA ExecReads ==
  ASSUME NEW w \in Seq(Words), Len(w) >= 1, w[1] = "exec", NEW p \in Parsed, ExecInv(w, p)
  PROVE  /\ Waits(p) <=> MissesValue(w)
         /\ Waits(p) => p.want = w[Len(w)] /\ p.want \in ExecOptions
         /\ MissesValue(w) <=> IsValue(w, Len(w) + 1) /\ ~AfterDashes(w, Len(w) + 1)
         /\ p.raw <=> AfterDashes(w, Len(w) + 1)
<1>0. Len(w) \in Nat /\ \A j \in 1..Len(w) : w[j] \in Words /\ w[j] # Unset
  BY WordSets
<1>1. CASE Len(w) = 1
  <2>1. ~IsValue(w, 2) /\ ~AfterDashes(w, 2) /\ ~MissesValue(w)
    BY <1>1 DEF IsValue, AfterDashes, MissesValue
  <2> QED
    BY <1>1, <2>1 DEF ExecInv, Waits
<1>2. CASE Len(w) > 1
  <2>1. Len(w) \in 2..Len(w) /\ w[1] \notin ExecOptions
    BY <1>0, <1>2 DEF ExecOptions
  <2>2. IsOption(w, Len(w)) <=> IsValue(w, Len(w) + 1) /\ ~AfterDashes(w, Len(w) + 1)
    BY <2>1, OptionWaits
  <2>3. MissesValue(w) <=> IsOption(w, Len(w))
    BY <1>2 DEF MissesValue
  <2>4. w[Len(w)] # Unset
    BY <1>0, <1>2
  <2> QED
    BY <2>2, <2>3, <2>4 DEF ExecInv, Waits, IsOption
<1>3. Len(w) = 1 \/ Len(w) > 1
  BY <1>0
<1> QED
  BY <1>1, <1>2, <1>3

(* The body of the loop of exec keeps it.                                  *)
LEMMA ExecInductive ==
  ASSUME NEW w \in Seq(Words), Len(w) >= 1, w[1] = "exec", NEW p \in Parsed, ExecInv(w, p),
         NEW a \in Words
  PROVE  ExecInv(Append(w, a), ExecWord(p, a))
<1> DEFINE n == Len(w)
           V == IsValue(w, n + 1)
           D == AfterDashes(w, n + 1)
<1>v. PICK v : v = Append(w, a)
  OBVIOUS
<1>q. PICK q : q = ExecWord(p, a)
  OBVIOUS
<1>0. /\ n \in Nat /\ n >= 1 /\ v \in Seq(Words) /\ Len(v) = n + 1 /\ v[n + 1] = a
      /\ v[1] = "exec" /\ v[1] \notin ExecOptions /\ n + 1 \in 2..Len(v)
  BY <1>v DEF ExecOptions
<1>a. Len(w) >= 1 /\ v = Append(w, a)
  BY <1>v
<1>1. /\ Waits(p) <=> MissesValue(w)
      /\ Waits(p) => p.want = w[n] /\ p.want \in ExecOptions
      /\ Waits(p) <=> V /\ ~D
      /\ p.raw <=> D
  BY ExecReads
<1>2. (IsValue(v, n + 1) <=> V) /\ (AfterDashes(v, n + 1) <=> D)
  <2>1. n + 1 \in 2..(Len(w) + 1)
    BY <1>0
  <2> QED
    BY <1>v, <2>1, EarlierWords
<1>3. /\ MissesValue(v) <=> a \in ExecOptions /\ ~V /\ ~D
      /\ AfterDashes(v, Len(v) + 1) <=> D \/ (a = "--" /\ ~V)
  <2>1. AfterDashes(v, (n + 1) + 1) <=>
          AfterDashes(v, n + 1) \/ (v[n + 1] = "--" /\ ~IsValue(v, n + 1))
    BY <1>0, OptionWaits
  <2> QED
    BY <1>0, <1>2, <2>1 DEF MissesValue, IsOption
<1>4. HasBadTimeout(v) <=>
        HasBadTimeout(w) \/ (Waits(p) /\ p.want = "--timeout" /\ a \notin Numbers)
  BY <1>1, <1>a, BadOneMore
<1>5. /\ Gives(v, "--timeout", IF Waits(p) /\ p.want = "--timeout" THEN a ELSE p.timeout)
      /\ Gives(v, "--file", IF Waits(p) /\ p.want = "--file" THEN a ELSE p.file)
  <2>0. /\ {p.timeout, p.file} \subseteq Words \union {Unset}
        /\ {"--timeout", "--file"} \subseteq ExecOptions
    BY DEF Parsed, ExecOptions
  <2>1. Gives(w, "--timeout", p.timeout) /\ Gives(w, "--file", p.file)
    BY DEF ExecInv
  <2>2. Gives(v, "--timeout", IF Waits(p) /\ p.want = "--timeout" THEN a ELSE p.timeout)
    <3>1. /\ MissesValue(w) /\ w[Len(w)] = "--timeout" => Gives(v, "--timeout", a)
          /\ ~(MissesValue(w) /\ w[Len(w)] = "--timeout") => Gives(v, "--timeout", p.timeout)
      BY <1>a, <2>0, <2>1, GivesOneMore
    <3> QED
      BY <1>1, <3>1
  <2>3. Gives(v, "--file", IF Waits(p) /\ p.want = "--file" THEN a ELSE p.file)
    <3>1. /\ MissesValue(w) /\ w[Len(w)] = "--file" => Gives(v, "--file", a)
          /\ ~(MissesValue(w) /\ w[Len(w)] = "--file") => Gives(v, "--file", p.file)
      BY <1>a, <2>0, <2>1, GivesOneMore
    <3> QED
      BY <1>1, <3>1
  <2> QED
    BY <2>2, <2>3
<1>6. TakesInOrder(v, Free(v), IF IsFree(w, a) THEN Append(p.inline, a) ELSE p.inline)
  <2>1. /\ IsFree(w, a) => Free(v) = Free(w) \union {Len(w) + 1}
        /\ ~IsFree(w, a) => Free(v) = Free(w)
    BY <1>a, FreeOneMore
  <2>2. /\ TakesInOrder(v, Free(w), p.inline)
        /\ TakesInOrder(v, Free(w) \union {Len(w) + 1}, Append(p.inline, a))
    BY <1>a, TakesOneMore DEF ExecInv, Parsed
  <2>3. CASE IsFree(w, a)
    BY <2>1, <2>2, <2>3
  <2>4. CASE ~IsFree(w, a)
    BY <2>1, <2>2, <2>4
  <2> QED
    BY <2>3, <2>4
<1>f. IsFree(w, a) <=> D \/ (a \notin ExecOptions \union {"--"} /\ ~V)
  BY DEF IsFree
<1> HIDE DEF n, V, D
<1>w. (p.want # Unset <=> Waits(p)) /\ (p.bad <=> HasBadTimeout(w)) /\ a # Unset
      /\ "--timeout" # Unset /\ "--file" # Unset
  BY WordSets DEF Waits, ExecInv, Unset
<1>7. CASE Waits(p) /\ p.want = "--timeout"
  <2>1. q = [p EXCEPT !.want = Unset, !.timeout = a, !.bad = @ \/ a \notin Numbers]
    BY <1>7, <1>q DEF ExecWord
  <2>2. /\ q.want = Unset /\ q.timeout = a /\ q.bad = (p.bad \/ a \notin Numbers)
        /\ q.file = p.file /\ q.inline = p.inline /\ q.raw = p.raw
    BY <2>1 DEF Parsed
  <2>3. V /\ ~D /\ p.want # "--file"
    BY <1>1, <1>7
  <2>4. TakesInOrder(v, Free(v), q.inline)
    BY <1>6, <1>f, <2>2, <2>3 DEF ExecOptions
  <2>5. Gives(v, "--timeout", q.timeout) /\ Gives(v, "--file", q.file)
    BY <1>5, <1>7, <2>2, <2>3
  <2> QED
    BY <1>0, <1>1, <1>3, <1>4, <1>7, <1>v, <1>q, <1>w, <2>2, <2>3, <2>4, <2>5 DEF ExecInv
<1>8. CASE Waits(p) /\ p.want = "--file"
  <2>1. q = [p EXCEPT !.want = Unset, !.file = a]
    BY <1>8, <1>q DEF ExecWord
  <2>2. /\ q.want = Unset /\ q.timeout = p.timeout /\ q.bad = p.bad
        /\ q.file = a /\ q.inline = p.inline /\ q.raw = p.raw
    BY <2>1 DEF Parsed
  <2>3. V /\ ~D /\ p.want # "--timeout"
    BY <1>1, <1>8
  <2>4. TakesInOrder(v, Free(v), q.inline)
    BY <1>6, <1>f, <2>2, <2>3 DEF ExecOptions
  <2>5. Gives(v, "--timeout", q.timeout) /\ Gives(v, "--file", q.file)
    BY <1>5, <1>8, <2>2, <2>3
  <2> QED
    BY <1>0, <1>1, <1>3, <1>4, <1>8, <1>v, <1>q, <1>w, <2>2, <2>3, <2>4, <2>5 DEF ExecInv
<1>9. CASE ~Waits(p)
  <2>0. p.want = Unset /\ (V => D)
    BY <1>1, <1>9, <1>w
  <2>5. Gives(v, "--timeout", p.timeout) /\ Gives(v, "--file", p.file)
    BY <1>5, <1>9
  <2>6. HasBadTimeout(v) <=> p.bad
    BY <1>4, <1>9, <1>w
  <2>1. CASE ~D /\ a = "--"
    <3>1. q = [p EXCEPT !.raw = TRUE]
      BY <1>1, <1>9, <1>q, <2>0, <2>1 DEF ExecWord, Unset
    <3>2. /\ q.want = Unset /\ q.timeout = p.timeout /\ q.bad = p.bad
          /\ q.file = p.file /\ q.inline = p.inline /\ q.raw = TRUE
      BY <2>0, <3>1 DEF Parsed
    <3>3. TakesInOrder(v, Free(v), q.inline)
      BY <1>6, <1>f, <2>0, <2>1, <3>2
    <3>4. ~MissesValue(v) /\ AfterDashes(v, Len(v) + 1)
      BY <1>3, <2>0, <2>1 DEF ExecOptions
    <3> QED
      BY <1>v, <1>q, <2>5, <2>6, <3>2, <3>3, <3>4 DEF ExecInv
  <2>2. CASE ~D /\ a \in ExecOptions
    <3>1. q = [p EXCEPT !.want = a]
      BY <1>1, <1>9, <1>q, <2>0, <2>2 DEF ExecWord, Unset, Wait, ExecOptions
    <3>2. /\ q.want = a /\ q.timeout = p.timeout /\ q.bad = p.bad
          /\ q.file = p.file /\ q.inline = p.inline /\ q.raw = p.raw
      BY <2>0, <3>1 DEF Parsed
    <3>3. TakesInOrder(v, Free(v), q.inline)
      BY <1>6, <1>f, <2>0, <2>2, <3>2
    <3>4. MissesValue(v) /\ ~AfterDashes(v, Len(v) + 1) /\ v[Len(v)] = a
      BY <1>0, <1>3, <2>0, <2>2 DEF ExecOptions
    <3> QED
      BY <1>1, <1>v, <1>q, <2>2, <2>5, <2>6, <3>2, <3>3, <3>4 DEF ExecInv
  <2>3. CASE D \/ a \notin ExecOptions \union {"--"}
    <3>1. q = [p EXCEPT !.inline = Append(@, a)]
      BY <1>1, <1>9, <1>q, <2>0, <2>3 DEF ExecWord, Unset, ExecOptions
    <3>2. /\ q.want = Unset /\ q.timeout = p.timeout /\ q.bad = p.bad
          /\ q.file = p.file /\ q.inline = Append(p.inline, a) /\ q.raw = p.raw
      BY <2>0, <3>1 DEF Parsed
    <3>3. TakesInOrder(v, Free(v), q.inline)
      BY <1>6, <1>f, <2>0, <2>3, <3>2
    <3>4. ~MissesValue(v) /\ (AfterDashes(v, Len(v) + 1) <=> D)
      BY <1>3, <2>0, <2>3
    <3> QED
      BY <1>1, <1>v, <1>q, <2>5, <2>6, <3>2, <3>3, <3>4 DEF ExecInv
  <2> QED
    BY <2>1, <2>2, <2>3
<1> QED
  BY <1>1, <1>7, <1>8, <1>9 DEF ExecOptions

(* The loops of all verbs keep to the types of their variables. *)
LEMMA LoopsAreTyped ==
  ASSUME NEW verb, NEW p \in Parsed, NEW a \in Words
  PROVE  OptionWord(verb, p, a) \in Parsed
<1>1. ExecWord(p, a) \in Parsed
  <2>1. CASE p.want = "--timeout"
    <3>1. Waits(p)
      BY <2>1 DEF Waits, Unset
    <3>2. ExecWord(p, a) = [p EXCEPT !.want = Unset, !.timeout = a, !.bad = @ \/ a \notin Numbers]
      BY <2>1, <3>1 DEF ExecWord
    <3>3. (p.bad \/ a \notin Numbers) \in BOOLEAN
      BY DEF Parsed
    <3> QED
      BY <3>2, <3>3 DEF Parsed
  <2>2. CASE p.want = "--file"
    <3>1. Waits(p)
      BY <2>2 DEF Waits, Unset
    <3>2. ExecWord(p, a) = [p EXCEPT !.want = Unset, !.file = a]
      BY <2>2, <3>1 DEF ExecWord
    <3> QED
      BY <3>2 DEF Parsed
  <2>3. CASE p.want \notin {"--timeout", "--file"}
    <3>1. \/ ExecWord(p, a) = [p EXCEPT !.raw = TRUE]
          \/ ExecWord(p, a) = [p EXCEPT !.want = a] /\ a \in {"--timeout", "--file"}
          \/ ExecWord(p, a) = [p EXCEPT !.inline = Append(@, a)]
      BY <2>3 DEF ExecWord, Wait
    <3>2. Append(p.inline, a) \in Seq(Words)
      BY DEF Parsed
    <3> QED
      BY <3>1, <3>2 DEF Parsed
  <2> QED
    BY <2>1, <2>2, <2>3
<1>2. LogsWord(p, a) \in Parsed
  BY DEF LogsWord, Parsed, Waits, Wait, Bad, Unset
<1>3. DiagnoseWord(p, a) \in Parsed
  BY DEF DiagnoseWord, Parsed, Waits, Wait, Bad, Unset
<1>4. StopWord(p, a) \in Parsed
  BY DEF StopWord, Parsed, Bad
<1>5. DaemonWord(p, a) \in Parsed
  <2>1. CASE p.want = "--project"
    <3>1. DaemonWord(p, a) = [p EXCEPT !.want = Unset, !.project = a]
      BY <2>1 DEF DaemonWord, Waits, Unset
    <3> QED
      BY <3>1 DEF Parsed
  <2>2. CASE p.want = "--workspace"
    <3>1. DaemonWord(p, a) = [p EXCEPT !.want = Unset, !.workspace = a]
      BY <2>2 DEF DaemonWord, Waits, Unset
    <3> QED
      BY <3>1 DEF Parsed
  <2>3. CASE p.want \notin {"--project", "--workspace"}
    <3>1. \/ DaemonWord(p, a) = [p EXCEPT !.want = a] /\ a \in {"--project", "--workspace"}
          \/ DaemonWord(p, a) = [p EXCEPT !.bad = TRUE]
      BY <2>3 DEF DaemonWord, Wait, Bad
    <3> QED
      BY <3>1 DEF Parsed
  <2> QED
    BY <2>1, <2>2, <2>3
<1> QED
  BY <1>1, <1>2, <1>3, <1>4, <1>5 DEF OptionWord

LEMMA LineInitial == LineInit => LineInv
BY DEF LineInit, LineInv, NoOptions, Parsed

(* The verb alone: nothing has been given. *)
LEMMA VerbAlone ==
  ASSUME NEW w \in Seq(Words), Len(w) = 1
  PROVE  ExecInv(w, NoOptions)
<1>1. ~MissesValue(w) /\ ~AfterDashes(w, Len(w) + 1) /\ ~HasBadTimeout(w)
  BY DEF MissesValue, AfterDashes, HasBadTimeout
<1>2. Gives(w, "--timeout", Unset) /\ Gives(w, "--file", Unset)
  BY DEF Gives
<1>3. TakesInOrder(w, Free(w), <<>>)
  <2>1. Free(w) = {}
    BY DEF Free
  <2> QED
    BY <2>1, FS_EmptySet DEF TakesInOrder
<1> QED
  BY <1>1, <1>2, <1>3 DEF ExecInv, NoOptions

LEMMA LineInductive == LineInv /\ [ReadWord]_reading => LineInv'
<1> SUFFICES ASSUME LineInv, [ReadWord]_reading PROVE LineInv'
  OBVIOUS
<1>1. CASE UNCHANGED reading
  BY <1>1 DEF LineInv, reading
<1>2. CASE ReadWord
  <2>1. PICK a \in Words :
          /\ words' = Append(words, a)
          /\ parsed' = IF words = <<>> THEN parsed ELSE OptionWord(Head(words), parsed, a)
    BY <1>2 DEF ReadWord
  <2>2. words \in Seq(Words) /\ parsed \in Parsed /\ words' \in Seq(Words) /\ words' # <<>>
    BY <2>1 DEF LineInv
  <2>3. parsed' \in Parsed
    BY <2>1, <2>2, LoopsAreTyped
  <2>4. ASSUME words'[1] = "exec" PROVE ExecInv(words', parsed')
    <3>1. CASE words = <<>>
      <4>1. parsed' = NoOptions /\ Len(words') = 1
        BY <2>1, <3>1 DEF LineInv
      <4> QED
        BY <2>2, <4>1, VerbAlone
    <3>2. CASE words # <<>>
      <4>1. words[1] = "exec" /\ Head(words) = "exec" /\ Len(words) >= 1
        BY <2>1, <2>2, <2>4, <3>2
      <4>2. ExecInv(words, parsed)
        BY <3>2, <4>1 DEF LineInv
      <4>3. parsed' = ExecWord(parsed, a)
        BY <2>1, <3>2, <4>1 DEF OptionWord
      <4> QED
        BY <2>1, <2>2, <4>1, <4>2, <4>3, ExecInductive
    <3> QED
      BY <3>1, <3>2
  <2> QED
    BY <2>2, <2>3, <2>4 DEF LineInv
<1> QED
  BY <1>1, <1>2

(* Help is asked for among the words behind the verb. *)
LEMMA HelpIsBehindVerb ==
  ASSUME NEW w \in Seq(Words), w # <<>>, Head(w) \notin {"--help", "-h"}
  PROVE  WantsHelp(w) <=> WantsHelp(Tail(w))
<1>1. \A i \in DOMAIN Tail(w) : i + 1 \in DOMAIN w /\ Tail(w)[i] = w[i + 1]
  OBVIOUS
<1>2. \A i \in DOMAIN w : i = 1 \/ (i - 1 \in DOMAIN Tail(w) /\ Tail(w)[i - 1] = w[i])
  OBVIOUS
<1>3. w[1] = Head(w)
  OBVIOUS
<1> QED
  BY <1>1, <1>2, <1>3 DEF WantsHelp, Has

(* An exec means what its words say by position. *)
LEMMA ExecIsMeant ==
  ASSUME LineInv, words # <<>>, Head(words) = "exec", ~WantsHelp(words)
  PROVE  ExecMeans(words, Dispatch)
<1>1. words \in Seq(Words) /\ Len(words) >= 1 /\ words[1] = "exec" /\ parsed \in Parsed
  BY DEF LineInv
<1>2. Dispatch = Exec(parsed)
  <2>1. ~WantsHelp(Tail(words))
    BY <1>1, HelpIsBehindVerb
  <2> QED
    BY <2>1 DEF Dispatch, Operation
<1>3. ExecInv(words, parsed)
  BY <1>1 DEF LineInv
<1>4. Waits(parsed) <=> MissesValue(words)
  BY <1>1, <1>3, ExecReads
<1>5. Refused(parsed) <=> MissesValue(words) \/ HasBadTimeout(words)
  BY <1>3, <1>4 DEF Refused, ExecInv
<1>6. parsed.inline = <<>> <=> Free(words) = {}
  <2>1. IsFiniteSet(Free(words))
    <3>1. IsFiniteSet(2..Len(words)) /\ Free(words) \subseteq 2..Len(words)
      BY <1>1, FS_Interval DEF Free
    <3> QED
      BY <3>1, FS_Subset
  <2>2. Len(parsed.inline) = Cardinality(Free(words)) /\ parsed.inline \in Seq(Words)
    BY <1>3 DEF ExecInv, TakesInOrder, Parsed, LineInv
  <2> QED
    BY <2>1, <2>2, FS_EmptySet
<1>7. parsed.file = Unset <=> Gives(words, "--file", Unset)
  <2>1. Gives(words, "--file", parsed.file)
    BY <1>3 DEF ExecInv
  <2>2. ASSUME Gives(words, "--file", Unset) PROVE parsed.file = Unset
    <3> DEFINE at == {i \in 2..(Len(words) - 1) : words[i] = "--file" /\ IsOption(words, i)}
    <3>1. \A i \in at : words[i + 1] \in Words /\ words[i + 1] # Unset
      BY <1>1, WordSets
    <3>2. at = {}
      BY <2>2, <3>1 DEF Gives
    <3> QED
      BY <2>1, <3>2 DEF Gives
  <2> QED
    BY <2>1, <2>2
<1>8. CASE Refused(parsed) \/ (parsed.file = Unset <=> parsed.inline = <<>>)
  <2>1. Dispatch = UsageError
    BY <1>2, <1>8 DEF Exec
  <2>2. MissesValue(words) \/ HasBadTimeout(words) \/ (Gives(words, "--file", Unset) <=> Free(words) = {})
    BY <1>5, <1>6, <1>7, <1>8
  <2> QED
    BY <2>1, <2>2 DEF ExecMeans
<1>9. CASE ~(Refused(parsed) \/ (parsed.file = Unset <=> parsed.inline = <<>>))
  <2>1. Dispatch = [verb |-> "exec", timeout |-> parsed.timeout, file |-> parsed.file,
                    inline |-> parsed.inline]
    BY <1>2, <1>9 DEF Exec
  <2>2. /\ Dispatch.verb = "exec" /\ Dispatch.timeout = parsed.timeout
        /\ Dispatch.file = parsed.file /\ Dispatch.inline = parsed.inline
    BY <2>1
  <2>3. ~(MissesValue(words) \/ HasBadTimeout(words) \/ (Gives(words, "--file", Unset) <=> Free(words) = {}))
    BY <1>5, <1>6, <1>7, <1>9
  <2> QED
    BY <1>3, <2>2, <2>3 DEF ExecMeans, ExecInv
<1> QED
  BY <1>8, <1>9

(* With a --help or -h in any place it means help. *)
LEMMA HelpIsMeant ==
  ASSUME LineInv, words # <<>>, Head(words) = "exec", WantsHelp(words)
  PROVE  Dispatch = Help
<1>1. words \in Seq(Words)
  BY DEF LineInv
<1>2. WantsHelp(Tail(words))
  BY <1>1, HelpIsBehindVerb
<1> QED
  BY <1>2 DEF Dispatch

(* What reaches or makes a session is what the first word names.           *)
LEMMA VerbIsMeant ==
  ASSUME LineInv, Dispatch.verb \in {"exec", "run", "stop", "_daemon"}
  PROVE  /\ Dispatch.verb = Head(words) /\ ~WantsHelp(words)
         /\ Dispatch.verb = "run" => <<"run", Dispatch.tool>> \o Dispatch.argv = words
<1>1. /\ words # <<>> /\ ~WantsHelp(Tail(words)) /\ Head(words) \notin {"--help", "-h"}
      /\ Dispatch = Operation(Head(words), Tail(words))
  BY DEF Dispatch, UsageError, Help, Version
<1>2. words \in Seq(Words)
  BY DEF LineInv
<1>3. ~WantsHelp(words)
  BY <1>1, <1>2, HelpIsBehindVerb
<1>4. CASE Head(words) = "exec"
  <2>1. Dispatch = Exec(parsed)
    BY <1>1, <1>4 DEF Operation
  <2>2. Dispatch.verb = "exec"
    BY <2>1 DEF Exec, UsageError
  <2> QED
    BY <1>3, <1>4, <2>2
<1>5. CASE Head(words) = "stop"
  <2>1. Dispatch = Stop(parsed)
    BY <1>1, <1>5 DEF Operation
  <2>2. Dispatch.verb = "stop"
    BY <2>1 DEF Stop, UsageError
  <2> QED
    BY <1>3, <1>5, <2>2
<1>6. CASE Head(words) = "run"
  <2>1. Dispatch = Run(Tail(words))
    BY <1>1, <1>6 DEF Operation
  <2>2. /\ Tail(words) # <<>> /\ Dispatch.verb = "run"
        /\ Dispatch.tool = Head(Tail(words)) /\ Dispatch.argv = Tail(Tail(words))
    BY <2>1 DEF Run, UsageError
  <2>3. words = <<Head(words), Head(Tail(words))>> \o Tail(Tail(words))
    <3>1. Tail(words) \in Seq(Words) /\ Len(words) >= 2 /\ Len(Tail(words)) = Len(words) - 1
      BY <1>1, <1>2, <2>2
    <3>2. PICK u : u = <<Head(words), Head(Tail(words))>> \o Tail(Tail(words))
      OBVIOUS
    <3>3. /\ Tail(Tail(words)) \in Seq(Words) /\ Len(Tail(Tail(words))) = Len(words) - 2
          /\ \A i \in 1..(Len(words) - 2) : Tail(Tail(words))[i] = words[i + 2]
          /\ Head(words) = words[1] /\ Head(Tail(words)) = words[2]
      <4>1. PICK t : t = Tail(words)
        OBVIOUS
      <4>8. Len(words) \in Nat
        BY <1>2
      <4>2. PICK l \in Nat : l = Len(words) /\ l >= 2
        BY ONLY <3>1, <4>8
      <4>3. t \in Seq(Words) /\ Len(t) = l - 1 /\ \A i \in 1..(l - 1) : t[i] = words[i + 1]
        BY <1>1, <1>2, <4>1, <4>2
      <4>4. Tail(t) \in Seq(Words) /\ Len(Tail(t)) = l - 2 /\ Head(t) = t[1]
            /\ \A i \in 1..(l - 2) : Tail(t)[i] = t[i + 1]
        BY <4>2, <4>3
      <4>5. \A i \in 1..(l - 2) : i + 1 \in 1..(l - 1) /\ (i + 1) + 1 = i + 2
        BY <4>2
      <4>6. 1 \in 1..(l - 1) /\ 1 + 1 = 2
        BY <4>2
      <4>7. \A i \in 1..(l - 2) : Tail(t)[i] = words[i + 2]
        BY <4>3, <4>4, <4>5
      <4> QED
        BY <1>1, <4>1, <4>2, <4>3, <4>4, <4>6, <4>7
    <3>4. <<Head(words), Head(Tail(words))>> \in Seq(Words)
      BY <1>2, <3>1, <3>3
    <3>5. /\ u \in Seq(Words) /\ Len(u) = Len(words)
          /\ u[1] = words[1] /\ u[2] = words[2]
          /\ \A i \in 3..Len(words) : u[i] = Tail(Tail(words))[i - 2]
      BY <3>1, <3>2, <3>3, <3>4
    <3>6. \A i \in 1..Len(words) : u[i] = words[i]
      BY <3>1, <3>3, <3>5
    <3>7. u = words
      BY <1>2, <3>5, <3>6
    <3> QED
      BY <3>2, <3>7
  <2> QED
    BY <1>3, <1>6, <2>2, <2>3
<1>8. CASE Head(words) = "_daemon"
  <2>1. Dispatch = RunDaemon(parsed)
    BY <1>1, <1>8 DEF Operation
  <2>2. Dispatch.verb = "_daemon"
    BY <2>1 DEF RunDaemon, UsageError
  <2> QED
    BY <1>3, <1>8, <2>2
<1>7. CASE Head(words) \notin {"exec", "run", "stop", "_daemon"}
  <2>1. Dispatch.verb \in {"usage", "logs", "diagnose", "show", "_healthcheck"}
    BY <1>1, <1>7 DEF Operation, Logs, Diagnose, Show, UsageError
  <2> QED
    BY <2>1
<1> QED
  BY <1>4, <1>5, <1>6, <1>7, <1>8

(* A line of any length means one thing.                                   *)
THEOREM LineHolds == LineSpec => []LineMeansOneThing
<1>1. LineInv => LineMeansOneThing
  BY ExecIsMeant, HelpIsMeant, VerbIsMeant DEF LineMeansOneThing
<1> QED
  BY <1>1, LineInitial, LineInductive, PTL DEF LineSpec

=============================================================================
