------------------------- MODULE ConversationProofs --------------------------
(***************************************************************************)
(* Proofs about Conversation, for every number of clients, every verb they *)
(* are started for, every size of the pipes and of the socket, and every   *)
(* amount of output: the types, the framing of the socket, the order and   *)
(* completeness of a tool's output, and that an answer is the last frame.  *)
(***************************************************************************)
EXTENDS Conversation, SequenceTheorems, TLAPS

-----------------------------------------------------------------------------
(* The values of the variables. *)
WorkerLabels ==
  {"none", "queued", "acquire", "stop", "dispatch", "running", "spawn", "join",
   "release", "len", "body", "store", "end"}
Frames ==
  [type : {"none", "busy", "ok", "usage", "internal"}]
    \union [type : {"result"}, kind : {"clean", "errors", "large"}]
    \union [type : {"exit"}, status : Int, total : [Fd -> Nat]]
    \union [type : {"stream"}, fd : Fd, text : Seq(Nat)]
Parts == [from : Fd \union {"worker"}, half : Halves, frame : Frames]

Codes == {None} \union 0..255

ConversationTypes ==
  /\ daemon \in {"serving", "draining", "gone"}
  /\ slot \in Client \union {None}
  /\ lock \in Client \union {None}
  /\ latch \in Client \union {None}
  /\ cpc \in [Client -> {"start", "len", "body", "done", "left"}]
  /\ pc \in [Client -> WorkerLabels]
  /\ verb \in [Client -> Verbs \union {"none"}]
  /\ code \in [Client -> Codes]
  /\ out \in [Client -> Frames]
  /\ wire \in [Client -> Seq(Parts)]
  /\ shown \in [Client -> [Fd -> Seq(Nat)]]
ToolTypes ==
  /\ holders \subseteq {"tool", "heir"}
  /\ status \in Int
  /\ wrote \in [Fd -> Nat] /\ taken \in [Fd -> Nat] /\ sent \in [Fd -> Nat]
  /\ logged \in [Fd -> SUBSET Nat]
  /\ tpc \in [Fd -> {"read", "lock", "len", "body", "done"}]
  /\ ws \in Fd \union {"free", "gone"}
  /\ peer \in Client \union {None}

-----------------------------------------------------------------------------
(* The worker: what its program counter says of the slot, the lock and the *)
(* answer.  A failed spawn is answered before the slot is given back.      *)
Owns(c) == OwnsSlot(c) \/ (pc[c] \in Halves /\ out[c].type = "internal")

WorkerInv ==
  \A c \in Client :
    /\ slot = c <=> Owns(c)
    /\ lock = c => pc[c] \in Halves /\ out[c].type = "busy"
    /\ pc[c] \in {"spawn", "join"} \/ out[c].type = "exit" => verb[c] = "run"
    /\ cpc[c] = "start" => pc[c] = "none"
    /\ cpc[c] # "start" => verb[c] # "none"
    /\ pc[c] = "none" => out[c].type = "none"
    /\ pc[c] = "body" => ~TooLarge(out[c])
    /\ out[c].type # "stream"

(* The threads: they have a tool's pipes as long as its worker waits for   *)
(* them, the socket's holder is the one that writes, and a thread ends     *)
(* when nobody can write to its pipe any more and all of it was read.      *)
CopyInv ==
  \A fd \in Fd :
    /\ sent[fd] <= taken[fd] /\ taken[fd] <= wrote[fd]
    /\ tpc[fd] \in {"read", "done"} => sent[fd] = taken[fd]
    /\ ws = fd <=> tpc[fd] \in Halves
PeerInv ==
  /\ \A fd \in Fd : tpc[fd] # "done" => peer \in Client /\ pc[peer] = "join"
  /\ ws = "gone" => peer \in Client /\ Closed(peer)
  /\ \A c \in Client :
       /\ peer = c => pc[c] \in {"join", "release"}
       /\ pc[c] = "join" => peer = c
JoinInv ==
  \A c \in Client :
    /\ pc[c] = "join" =>
         \A fd \in Fd : tpc[fd] = "done" => holders = {} /\ taken[fd] = wrote[fd]
    /\ pc[c] = "release" /\ out[c].type = "exit" =>
         peer = c /\ holders = {} /\ taken = wrote
ToolInv == CopyInv /\ PeerInv /\ JoinInv

-----------------------------------------------------------------------------
(* The socket: somebody has written a frame's length and not yet its body. *)
ThreadMidway(c) == \E fd \in Fd : peer = c /\ tpc[fd] = "body"
Midway(c) == pc[c] = "body" \/ ThreadMidway(c)
LastPart(c) == wire[c][Len(wire[c])]

Framed(c) ==
  /\ wire[c] = <<>> => (cpc[c] = "body" <=> Midway(c))
  /\ wire[c] # <<>> =>
       /\ LastPart(c).half = "len" <=> Midway(c)
       /\ pc[c] = "body" => LastPart(c) = Part("worker", "len", out[c])
       /\ \A fd \in Fd : peer = c /\ tpc[fd] = "body" =>
            LastPart(c) = Part(fd, "len", StreamFrame(fd))

WireInv ==
  \A c \in Client :
    /\ Len(wire[c]) <= Room
    /\ ~Reading(c) => wire[c] = <<>> /\ shown[c] = NothingShown
    /\ daemon # "gone" /\ ~Closed(c) => Framed(c)

(* The final frame is on its way when the slot has been given back.        *)
Answering(c) ==
  \/ pc[c] = "body" /\ out[c].type \in {"exit", "result"}
  \/ pc[c] = "end"

FinalInv ==
  \A c \in Client : \A i \in DOMAIN wire[c] :
    LET frame == wire[c][i].frame
    IN  /\ frame.type \in {"exit", "result"} => Answering(c)
        /\ frame.type = "exit" => verb[c] = "run"

-----------------------------------------------------------------------------
(* The output: with every part in the socket go the positions in the two   *)
(* pipes that its reader will have reached when it takes the part.         *)
After(reached, part) ==
  [fd \in Fd |->
     IF part.half = "body" /\ part.frame.type = "stream" /\ part.frame.fd = fd
       THEN reached[fd] + Len(part.frame.text) ELSE reached[fd]]

NotStarted == {"none", "queued", "acquire", "stop", "dispatch", "running", "spawn"}

(* One part in its place. *)
InPlace(reached, part) ==
  /\ part.half = "body" /\ part.frame.type = "stream" =>
       \A k \in 1..Len(part.frame.text) :
         part.frame.text[k] \in {reached[part.frame.fd] + k, 0}
  /\ part.frame.type = "exit" => reached = part.frame.total

(* The end of the account: what was sent to the client of a running tool,  *)
(* nothing before there is one, and all of it when the exit is prepared.   *)
Balanced(c, last) ==
  /\ peer = c => last = sent
  /\ pc[c] \in NotStarted => last = NoBytes
  /\ pc[c] \in {"release", "len", "body"} /\ out[c].type = "exit" => last = out[c].total

(* Offsets o lead from what the client has printed to what was sent to it. *)
Offsets(c) == [1..(Len(wire[c]) + 1) -> [Fd -> Nat]]
Accounts(c, o) ==
  /\ \A fd \in Fd : o[1][fd] = Len(shown[c][fd])
  /\ \A i \in 1..Len(wire[c]) :
       /\ o[i + 1] = After(o[i], wire[c][i])
       /\ \A fd \in Fd : o[i][fd] <= o[Len(wire[c]) + 1][fd]
       /\ InPlace(o[i], wire[c][i])
  /\ Balanced(c, o[Len(wire[c]) + 1])

OffsetsInv ==
  \A c \in Client : ~Closed(c) => \E o \in Offsets(c) : Accounts(c, o)

ShownInv ==
  \A c \in Client : \A fd \in Fd : \A i \in DOMAIN shown[c][fd] :
    shown[c][fd][i] \in {i, 0}

TalkInv == WorkerInv /\ ToolInv /\ WireInv /\ FinalInv /\ FramesAreWhole
OrderInv == OffsetsInv /\ ShownInv
ConversationInv == ConversationTypes /\ ToolTypes /\ TalkInv /\ OrderInv

-----------------------------------------------------------------------------
(* Facts about the operators. *)

(* Four ways in which a client is done with its socket look the same from  *)
(* the other end: what it was sent and what it has printed is gone.        *)
Leaves(c) == Reading(c) /\ \E how \in {"done", "left"} : Leave(c, how)

(* However a client leaves, it does so by the same changes.                *)
LEMMA LeavesAlike ==
  ASSUME NEW c \in Client, ReadFinal(c) \/ ReadEof(c) \/ TimeOut(c) \/ Killed(c)
  PROVE  Leaves(c)
  BY DEF ReadFinal, ReadEof, TimeOut, Killed, Return, Leaves, Reading, Consume

(* A chunk becomes as many positions as it has bytes, each of them its own *)
(* place in the pipe or the replacement character.                         *)
LEMMA LossyKeepsPlaces ==
  ASSUME NEW first \in Nat, NEW last \in Nat, first <= last + 1
  PROVE  /\ Lossy(first, last) \in Seq(Nat)
         /\ Len(Lossy(first, last)) = last - first + 1
         /\ \A k \in 1..(last - first + 1) : Lossy(first, last)[k] \in {first - 1 + k, 0}
<1> DEFINE n == last - first + 1
           text == Lossy(first, last)
<1>1. n \in Nat
  OBVIOUS
<1>2. ASSUME NEW k \in 1..n PROVE text[k] \in Nat /\ text[k] \in {first - 1 + k, 0}
  BY DEF Lossy
<1>3. text \in [1..n -> Nat]
  <2>1. text = [k \in 1..n |-> text[k]]
    BY DEF Lossy
  <2> HIDE DEF text, n
  <2> QED
    BY <1>2, <2>1
<1>4. text \in Seq(Nat)
  <2> HIDE DEF text, n
  <2> QED
    BY <1>1, <1>3, SeqDef
<1>5. Len(text) = n
  BY <1>1 DEF Lossy
<1> QED
  BY <1>2, <1>4, <1>5

(* The kinds of frames and their fields.                                   *)
LEMMA FrameKinds ==
  ASSUME NEW frame \in Frames
  PROVE  /\ frame.type \in {"none", "busy", "ok", "usage", "internal", "result", "exit", "stream"}
         /\ frame.type = "exit" => frame.status \in Int /\ frame.total \in [Fd -> Nat]
         /\ frame.type = "stream" => frame.fd \in Fd /\ frame.text \in Seq(Nat)
  BY DEF Frames

(* What the workers answer are frames.                                     *)
LEMMA FramesMade ==
  /\ [type |-> "none"] \in Frames /\ [type |-> "busy"] \in Frames
  /\ [type |-> "ok"] \in Frames /\ [type |-> "usage"] \in Frames
  /\ [type |-> "internal"] \in Frames
  /\ \A kind \in {"clean", "errors", "large"} : [type |-> "result", kind |-> kind] \in Frames
  /\ \A n \in Int : \A all \in [Fd -> Nat] :
       [type |-> "exit", status |-> n, total |-> all] \in Frames
  BY DEF Frames

(* The low byte of a status is an exit code.                               *)
LEMMA ByteIsCode ==
  /\ 0..255 \subseteq Codes
  /\ 1 \in Codes /\ 3 \in Codes
  /\ \A n \in Int : n % 256 \in 0..255
  BY DEF Codes

(* A client that has printed nothing has printed a sequence of bytes.      *)
LEMMA NothingShownType == NothingShown \in [Fd -> Seq(Nat)]
<1>1. <<>> \in Seq(Nat)
  BY EmptySeq
<1> QED
  BY <1>1 DEF NothingShown

(* A half of a frame has a sender, a half and a frame.                     *)
LEMMA PartFields ==
  ASSUME NEW part \in Parts
  PROVE  /\ part.half \in Halves
         /\ part.frame \in Frames
         /\ part = Part(part.from, part.half, part.frame)
         /\ [part EXCEPT !.half = "len"] = Part(part.from, "len", part.frame)
  BY DEF Parts, Part

(* A half that is made of these is one.                                    *)
LEMMA PartIsPart ==
  ASSUME NEW from \in Fd \union {"worker"}, NEW half \in Halves, NEW frame \in Frames
  PROVE  /\ Part(from, half, frame) \in Parts
         /\ Part(from, half, frame).half = half
         /\ Part(from, half, frame).frame = frame
  BY DEF Parts, Part

(* What a pipe thread sends is a stream frame with the bytes taken and    *)
(* not yet sent.                                                           *)
LEMMA StreamFrameIsFrame ==
  ASSUME ToolTypes, NEW fd \in Fd, sent[fd] <= taken[fd]
  PROVE  /\ StreamFrame(fd) \in Frames
         /\ StreamFrame(fd).type = "stream"
         /\ StreamFrame(fd).fd = fd
         /\ Len(StreamFrame(fd).text) = taken[fd] - sent[fd]
         /\ \A k \in 1..Len(StreamFrame(fd).text) :
              StreamFrame(fd).text[k] \in {sent[fd] + k, 0}
<1>1. sent[fd] \in Nat /\ taken[fd] \in Nat
  BY DEF ToolTypes
<1> DEFINE first == sent[fd] + 1
           last == taken[fd]
<1>3. first \in Nat /\ last \in Nat /\ first <= last + 1 /\ first - 1 = sent[fd]
      /\ last - first + 1 = taken[fd] - sent[fd]
  BY <1>1
<1>4. /\ Lossy(first, last) \in Seq(Nat)
      /\ Len(Lossy(first, last)) = last - first + 1
      /\ \A k \in 1..(last - first + 1) : Lossy(first, last)[k] \in {first - 1 + k, 0}
  <2> HIDE DEF first, last
  <2> QED
    BY <1>3, LossyKeepsPlaces
<1>2. /\ Lossy(sent[fd] + 1, taken[fd]) \in Seq(Nat)
      /\ Len(Lossy(sent[fd] + 1, taken[fd])) = taken[fd] - sent[fd]
      /\ \A k \in 1..(taken[fd] - sent[fd]) :
           Lossy(sent[fd] + 1, taken[fd])[k] \in {sent[fd] + k, 0}
  BY <1>3, <1>4
<1> QED
  BY <1>2 DEF StreamFrame, Frames

-----------------------------------------------------------------------------
(* The types. *)

(* What a read adds to the raw log are positions.                          *)
LEMMA ReadLogs ==
  ASSUME ToolTypes, NEW fd \in Fd, ReadPipe(fd)
  PROVE  logged' \in [Fd -> SUBSET Nat]
<1>1. CASE UNCHANGED logged
  BY <1>1 DEF ToolTypes
<1>2. ASSUME NEW last \in (taken[fd] + 1)..wrote[fd], LogChunk(fd, last)
      PROVE  logged' \in [Fd -> SUBSET Nat]
  <2>1. taken[fd] \in Nat /\ wrote[fd] \in Nat /\ last \in Nat
    BY <1>2 DEF ToolTypes
  <2>2. PICK written \in IF LogMayFail THEN taken[fd]..last ELSE {last} :
          logged' = [logged EXCEPT ![fd] = @ \union (taken[fd] + 1)..written]
    BY <1>2 DEF LogChunk
  <2>3. (taken[fd] + 1)..written \subseteq Nat
    BY <2>1, Switches
  <2> QED
    BY <2>2, <2>3 DEF ToolTypes
<1> QED
  BY <1>1, <1>2 DEF ReadPipe

(* Every step keeps the types.                                             *)
LEMMA TypesInductive ==
  ASSUME ConversationTypes, ToolTypes, WorkerInv, ToolInv, [Next]_vars
  PROVE  ConversationTypes' /\ ToolTypes'
<1> USE NoneIsNoClient, VerbsAreKnown
    DEF ConversationTypes, ToolTypes, client, session, tool, process, copying
<1>1. ASSUME NEW c \in Client, Connect(c) PROVE ConversationTypes' /\ ToolTypes'
  <2>1. PICK v \in Verbs : verb' = [verb EXCEPT ![c] = v]
    BY <1>1 DEF Connect
  <2>2. verb' \in [Client -> Verbs \union {"none"}]
    BY <2>1
  <2>3. code' \in [Client -> Codes]
    BY <1>1, ByteIsCode DEF Connect, ReportUnreachable
  <2>4. pc' \in [Client -> WorkerLabels] /\ cpc' \in [Client -> {"start", "len", "body", "done", "left"}]
    BY <1>1 DEF Connect, ReportUnreachable, WorkerLabels
  <2> QED
    BY <1>1, <2>2, <2>3, <2>4 DEF Connect
<1>2. ASSUME NEW c \in Client, ReadLength(c) PROVE ConversationTypes' /\ ToolTypes'
  BY <1>2, HeadTailProperties DEF ReadLength, Consume
<1>3. ASSUME NEW c \in Client, ReadStream(c) PROVE ConversationTypes' /\ ToolTypes'
  <2> DEFINE frame == Head(wire[c]).frame
  <2>1. frame \in Frames /\ frame.type = "stream" /\ Tail(wire[c]) \in Seq(Parts)
    BY <1>3, HeadTailProperties, PartFields DEF ReadStream, Consume
  <2>2. frame.fd \in Fd /\ frame.text \in Seq(Nat)
    BY <2>1, FrameKinds
  <2>3. shown[c][frame.fd] \o frame.text \in Seq(Nat)
    BY <2>2, ConcatProperties
  <2>4. shown' = [shown EXCEPT ![c] = [shown[c] EXCEPT ![frame.fd] =
                                         shown[c][frame.fd] \o frame.text]]
    BY <1>3 DEF ReadStream
  <2> HIDE DEF frame
  <2>5. shown' \in [Client -> [Fd -> Seq(Nat)]]
    BY <2>2, <2>3, <2>4
  <2> QED
    BY <1>3, <2>1, <2>5 DEF ReadStream
<1>4. ASSUME NEW c \in Client, Leaves(c), code' \in [Client -> Codes]
      PROVE  ConversationTypes' /\ ToolTypes'
  <2>1. PICK how \in {"done", "left"} : Leave(c, how)
    BY <1>4 DEF Leaves
  <2>2. wire' \in [Client -> Seq(Parts)]
    BY <2>1, EmptySeq DEF Leave
  <2>3. shown' \in [Client -> [Fd -> Seq(Nat)]]
    BY <2>1, NothingShownType DEF Leave
  <2> QED
    BY <1>4, <2>1, <2>2, <2>3 DEF Leave
<1>5. ASSUME NEW c \in Client, ReadFinal(c) \/ ReadEof(c) \/ TimeOut(c) \/ Killed(c)
      PROVE  code' \in [Client -> Codes]
  <2>1. CASE ReadFinal(c)
    <3> DEFINE frame == Head(wire[c]).frame
    <3>1. frame \in Frames
      BY <2>1, HeadTailProperties, PartFields DEF ReadFinal, Consume
    <3>2. frame.type = "exit" => frame.status % 256 \in 0..255
      BY <3>1, FrameKinds, ByteIsCode
    <3>3. verb[c] \in {"exec", "run", "stop"}
      BY <2>1 DEF ReadFinal, Consume, WorkerInv
    <3>4. CodeFor(verb[c], frame) \in 0..255
      <4> HIDE DEF frame
      <4>1. ResultCode(frame) \in 0..255
        BY DEF ResultCode
      <4>3. ToolCode(frame) \in 0..255
        <5>1. CASE frame.type = "exit"
          BY <3>2, <5>1 DEF ToolCode, ExitByte
        <5>2. CASE frame.type = "usage"
          BY <5>2 DEF ToolCode
        <5>3. CASE frame.type \notin {"exit", "usage"}
          <6>1. ToolCode(frame) = 1
            BY <5>3 DEF ToolCode
          <6> QED
            BY <6>1
        <5> QED
          BY <5>1, <5>2, <5>3
      <4>2. ExecCode(frame) \in 0..255 /\ StopCode(frame) \in 0..255
        BY <4>1 DEF ExecCode, StopCode
      <4> QED
        BY <3>3, <4>3, <4>2 DEF CodeFor
    <3>5. code' = [code EXCEPT ![c] = CodeFor(verb[c], frame)]
      BY <2>1 DEF ReadFinal, Return
    <3> HIDE DEF frame
    <3> QED
      BY <3>4, <3>5, ByteIsCode
  <2>2. CASE ReadEof(c) \/ TimeOut(c) \/ Killed(c)
    BY <2>2, ByteIsCode DEF ReadEof, TimeOut, Killed, Return
  <2> QED
    BY <1>5, <2>1, <2>2
<1>6. ASSUME NEW c \in Client, Accept(c) PROVE ConversationTypes' /\ ToolTypes'
  BY <1>6 DEF Accept, Goto, WorkerLabels
<1>7. ASSUME NEW c \in Client, Acquire(c) \/ HandleStop(c)
      PROVE  ConversationTypes' /\ ToolTypes'
  <2>1. ASSUME Busy(c)
        PROVE  /\ pc' \in [Client -> WorkerLabels]
               /\ out' \in [Client -> Frames]
               /\ lock' \in Client \union {None}
    BY <2>1, FramesMade DEF Busy, Goto, Prepare, WorkerLabels
  <2>2. CASE Acquire(c)
    BY <1>7, <2>1, <2>2 DEF Acquire, Goto, WorkerLabels
  <2>3. CASE HandleStop(c)
    <3>1. CASE Busy(c)
      BY <2>1, <2>3, <3>1 DEF HandleStop
    <3>2. CASE Goto(c, "len") /\ Prepare(c, [type |-> "ok"]) /\ UNCHANGED lock
      BY <2>3, <3>2, FramesMade DEF HandleStop, Goto, Prepare, WorkerLabels
    <3> QED
      BY <2>3, <3>1, <3>2 DEF HandleStop
  <2> QED
    BY <1>7, <2>2, <2>3
<1>8. ASSUME NEW c \in Client, Dispatch(c) PROVE ConversationTypes' /\ ToolTypes'
  BY <1>8 DEF Dispatch, Goto, WorkerLabels
<1>9. ASSUME NEW c \in Client, CommandEnds(c) PROVE ConversationTypes' /\ ToolTypes'
  BY <1>9, FramesMade DEF CommandEnds, LatchResult, Goto, Prepare, WorkerLabels
<1>10. ASSUME NEW c \in Client, SpawnTool(c) PROVE ConversationTypes' /\ ToolTypes'
  <2>1. pc' \in [Client -> WorkerLabels]
    BY <1>10 DEF SpawnTool, Goto, WorkerLabels
  <2>3. out' \in [Client -> Frames]
    BY <1>10, FramesMade DEF SpawnTool, Prepare
  <2>4. ASSUME Spawn(c) PROVE ToolTypes'
    BY <2>4 DEF Spawn, Anew, NoBytes
  <2>5. ASSUME UNCHANGED tool PROVE ToolTypes'
    BY <2>5
  <2>2. ToolTypes'
    BY <1>10, <2>4, <2>5 DEF SpawnTool
  <2> QED
    BY <1>10, <2>1, <2>2, <2>3 DEF SpawnTool, Spawn, Anew
<1>11. ASSUME NEW c \in Client, JoinTool(c) PROVE ConversationTypes' /\ ToolTypes'
  BY <1>11, FramesMade DEF JoinTool, Goto, Prepare, WorkerLabels
<1>12. ASSUME NEW c \in Client, Release(c) PROVE ConversationTypes' /\ ToolTypes'
  BY <1>12 DEF Release, ForgetTool, Anew, NoBytes, Goto, WorkerLabels
<1>13. ASSUME NEW c \in Client, WriteAnswer(c) PROVE ConversationTypes' /\ ToolTypes'
  <2>1. ASSUME NEW half \in Halves, Put(c, Part("worker", half, out[c]))
        PROVE  wire' \in [Client -> Seq(Parts)]
    BY <2>1, PartIsPart, AppendProperties DEF Put
  <2>2. wire' \in [Client -> Seq(Parts)]
    BY <1>13, <2>1 DEF WriteAnswer, Halves
  <2> QED
    BY <1>13, <2>2 DEF WriteAnswer, Answered, Unlock, Goto, WorkerLabels
<1>14. ASSUME NEW c \in Client, StoreShutdown(c) PROVE ConversationTypes' /\ ToolTypes'
  BY <1>14 DEF StoreShutdown, Goto, WorkerLabels
<1>15. CASE (Tool \/ ToolEnds) /\ Outside
  <2>1. CASE ToolForks
    BY <1>15, <2>1 DEF ToolForks, Outside
  <2>2. ASSUME NEW fd \in Fd, ToolWrites(fd) PROVE ConversationTypes' /\ ToolTypes'
    <3>1. wrote \in [Fd -> Nat] /\ wrote' = [wrote EXCEPT ![fd] = @ + 1]
      BY <2>2 DEF ToolWrites
    <3>2. wrote' \in [Fd -> Nat]
      BY ONLY <3>1
    <3> QED
      BY <1>15, <2>2, <3>2 DEF ToolWrites, Outside
  <2>3. ASSUME NEW h \in {"tool", "heir"}, HolderExits(h)
        PROVE  ConversationTypes' /\ ToolTypes'
    BY <1>15, <2>3 DEF HolderExits, Outside
  <2> QED
    BY <1>15, <2>1, <2>2, <2>3 DEF Tool, ToolEnds
<1>16. ASSUME NEW fd \in Fd, PipeThread(fd), Outside PROVE ConversationTypes' /\ ToolTypes'
  <2>1. CASE ReadPipe(fd)
    <3>1. ASSUME NEW last \in (taken[fd] + 1)..wrote[fd] PROVE last \in Nat
      BY <1>16
    <3>2. UNCHANGED <<sent, ws, peer, wire, holders, status, wrote>>
      BY <1>16, <2>1 DEF PipeThread, ReadPipe
    <3>3. taken' \in [Fd -> Nat]
      <4>1. CASE taken' = taken
        BY <4>1
      <4>2. ASSUME NEW last \in (taken[fd] + 1)..wrote[fd],
                   taken' = [taken EXCEPT ![fd] = last]
            PROVE  taken' \in [Fd -> Nat]
        <5>1. last \in Nat /\ taken \in [Fd -> Nat]
          BY <3>1
        <5> QED
          BY ONLY <4>2, <5>1
      <4> QED
        BY <2>1, <4>1, <4>2 DEF ReadPipe
    <3>4. tpc' \in [Fd -> {"read", "lock", "len", "body", "done"}]
      BY <2>1 DEF ReadPipe
    <3>5. logged' \in [Fd -> SUBSET Nat]
      BY <2>1, ReadLogs
    <3> QED
      BY <1>16, <2>1, <3>2, <3>3, <3>4, <3>5 DEF Outside
  <2>2. CASE LockSocket(fd)
    BY <1>16, <2>2 DEF PipeThread, LockSocket, EndOfChunk, Outside
  <2>3. ASSUME NEW half \in Halves, Put(peer, Part(fd, half, StreamFrame(fd)))
        PROVE  wire' \in [Client -> Seq(Parts)]
    <3> DEFINE part == Part(fd, half, StreamFrame(fd))
    <3>1. part \in Parts
      BY StreamFrameIsFrame, PartIsPart DEF ToolInv, CopyInv
    <3>2. wire' = [wire EXCEPT ![peer] = Append(wire[peer], part)]
      BY <2>3 DEF Put
    <3> HIDE DEF part
    <3>3. peer \in Client => Append(wire[peer], part) \in Seq(Parts)
      BY <3>1, AppendProperties
    <3> QED
      BY <3>2, <3>3
  <2>4. CASE WriteLength(fd) \/ WriteBody(fd)
    BY <1>16, <2>3, <2>4 DEF PipeThread, WriteLength, WriteBody, EndOfChunk, Outside, Halves
  <2>5. CASE WriteFails(fd)
    BY <1>16, <2>5 DEF PipeThread, WriteFails, DropSocket, EndOfChunk, Outside
  <2> QED
    BY <1>16, <2>1, <2>2, <2>4, <2>5 DEF PipeThread
<1>17. CASE Drain
  BY <1>17 DEF Drain
<1>18. CASE End
  BY <1>18, FramesMade DEF End, ForgetTool, Anew, NoBytes, Nothing, WorkerLabels
<1>19. CASE UNCHANGED vars
  BY <1>19 DEF vars
<1> QED
  BY <1>1, <1>2, <1>3, <1>4, <1>5, <1>6, <1>7, <1>8, <1>9, <1>10, <1>11, <1>12, <1>13,
     <1>14, <1>15, <1>16, <1>17, <1>18, <1>19, LeavesAlike
  DEF Next, ReadSocket, Worker

-----------------------------------------------------------------------------
(* The worker and the tool. *)

(* One slot, given to the worker that found it free and taken back by the  *)
(* one that has it; one lock, held around the busy answer.                 *)
LEMMA WorkerInductive ==
  ASSUME ConversationTypes, ToolTypes, WorkerInv, [Next]_vars
  PROVE  WorkerInv'
<1> USE NoneIsNoClient, VerbsAreKnown
    DEF ConversationTypes, WorkerInv, Owns, OwnsSlot, TooLarge, Halves,
        client, session, tool, process, copying
<1>1. ASSUME NEW c \in Client, Connect(c) PROVE WorkerInv'
  BY <1>1 DEF Connect, ReportUnreachable
<1>2. ASSUME NEW c \in Client, ReadLength(c) \/ ReadStream(c) PROVE WorkerInv'
  <2>1. \A d \in Client : cpc'[d] = "start" => cpc[d] = "start"
    BY <1>2 DEF ReadLength, ReadStream
  <2>2. \A d \in Client : cpc[d] = "start" => cpc'[d] = "start"
    BY <1>2 DEF ReadLength, ReadStream, Consume
  <2> QED
    <3>1. UNCHANGED <<slot, lock, pc, out, verb>>
      BY <1>2 DEF ReadLength, ReadStream
    <3> QED
      BY <2>1, <2>2, <3>1
<1>3. ASSUME NEW c \in Client, Leaves(c) PROVE WorkerInv'
  BY <1>3 DEF Leaves, Leave, Reading
<1>4. ASSUME NEW c \in Client, Accept(c) PROVE WorkerInv'
  BY <1>4 DEF Accept, Goto, At
<1>5. ASSUME NEW c \in Client, Acquire(c) PROVE WorkerInv'
  BY <1>5 DEF Acquire, Busy, Goto, Prepare, At
<1>6. ASSUME NEW c \in Client, HandleStop(c) PROVE WorkerInv'
  <2>1. CASE Busy(c)
    BY <1>6, <2>1 DEF HandleStop, Busy, Goto, Prepare, At
  <2>2. CASE Goto(c, "len") /\ Prepare(c, [type |-> "ok"]) /\ UNCHANGED lock
    BY <1>6, <2>2 DEF HandleStop, Goto, Prepare, At
  <2> QED
    BY <1>6, <2>1, <2>2 DEF HandleStop
<1>7. ASSUME NEW c \in Client, Dispatch(c) PROVE WorkerInv'
  BY <1>7 DEF Dispatch, Goto, At
<1>8. ASSUME NEW c \in Client, CommandEnds(c) PROVE WorkerInv'
  BY <1>8 DEF CommandEnds, Goto, Prepare, At
<1>9. ASSUME NEW c \in Client, SpawnTool(c) PROVE WorkerInv'
  BY <1>9 DEF SpawnTool, Goto, Prepare, At
<1>10. ASSUME NEW c \in Client, JoinTool(c) PROVE WorkerInv'
  BY <1>10 DEF JoinTool, Goto, Prepare, At
<1>11. ASSUME NEW c \in Client, Release(c) PROVE WorkerInv'
  BY <1>11 DEF Release, Goto, At
<1>12. ASSUME NEW c \in Client, WriteAnswer(c) PROVE WorkerInv'
  BY <1>12 DEF WriteAnswer, Answered, Unlock, Goto, At
<1>13. ASSUME NEW c \in Client, StoreShutdown(c) PROVE WorkerInv'
  BY <1>13 DEF StoreShutdown, Goto, At
<1>14. CASE Outside
  BY <1>14 DEF Outside
<1>15. CASE Drain
  BY <1>15 DEF Drain
<1>16. CASE End
  BY <1>16 DEF End, Nothing
<1>17. CASE UNCHANGED vars
  BY <1>17 DEF vars
<1> QED
  BY <1>1, <1>2, <1>3, <1>4, <1>5, <1>6, <1>7, <1>8, <1>9, <1>10, <1>11, <1>12, <1>13,
     <1>14, <1>15, <1>16, <1>17, LeavesAlike
  DEF Next, ReadSocket, Worker

(* Pipes are not named like the states of a socket.                        *)
LEMMA FdNames == "free" \notin Fd /\ "gone" \notin Fd /\ "worker" \notin Fd
  BY DEF Fd

(* Two workers never own the slot.                                         *)
LEMMA OneOwner ==
  ASSUME WorkerInv, NEW c \in Client, NEW d \in Client, OwnsSlot(c), OwnsSlot(d)
  PROVE  c = d
  BY DEF WorkerInv, Owns

(* Whatever is not a step of the tool or of a pipe thread leaves them      *)
(* alone, or starts a tool, or forgets it.                                 *)
LEMMA ToolMoves ==
  ASSUME [Next]_vars
  PROVE  \/ UNCHANGED tool
         \/ \E c \in Client : At(c, "spawn") /\ Goto(c, "join") /\ Spawn(c)
         \/ ForgetTool /\ (End \/ \E c \in Client : Release(c))
         \/ (Tool \/ ToolEnds) /\ Outside
         \/ \E fd \in Fd : PipeThread(fd) /\ Outside
  BY LeavesAlike
  DEF Next, ReadSocket, Worker, Connect, ReadLength, ReadStream, Leaves, Leave, Accept,
      Acquire, HandleStop, Dispatch, CommandEnds, SpawnTool, JoinTool, Release,
      WriteAnswer, StoreShutdown, Drain, End, vars

(* The counters of a pipe.                                                 *)
LEMMA CopyInductive ==
  ASSUME ToolTypes, CopyInv, [Next]_vars
  PROVE  CopyInv'
<1> USE FdNames DEF ToolTypes, CopyInv, Halves, tool, process, copying
<1>1. CASE UNCHANGED tool
  BY <1>1
<1>2. ASSUME NEW who, NEW threads \in {"read", "done"}, NEW c, Anew(who, threads, c)
      PROVE  CopyInv'
  BY <1>2 DEF Anew, NoBytes
<1>3. CASE Tool \/ ToolEnds
  BY <1>3 DEF Tool, ToolEnds, ToolForks, ToolWrites, HolderExits
<1>4. ASSUME NEW fd \in Fd, PipeThread(fd) PROVE CopyInv'
  <2>1. CASE ReadPipe(fd)
    <3>1. UNCHANGED <<sent, wrote, ws>> /\ tpc[fd] = "read"
      BY <1>4, <2>1 DEF PipeThread, ReadPipe, Thread
    <3>2. ASSUME NEW last \in (taken[fd] + 1)..wrote[fd],
                 taken' = [taken EXCEPT ![fd] = last],
                 tpc' = [tpc EXCEPT ![fd] = "lock"]
          PROVE  CopyInv'
      BY <3>1, <3>2
    <3>3. ASSUME tpc' = [tpc EXCEPT ![fd] = "done"], UNCHANGED taken
          PROVE  CopyInv'
      BY <3>1, <3>3
    <3> QED
      BY <2>1, <3>2, <3>3 DEF ReadPipe
  <2>2. CASE LockSocket(fd)
    BY <1>4, <2>2 DEF PipeThread, LockSocket, MayLock, EndOfChunk, Thread
  <2>3. CASE WriteLength(fd)
    BY <1>4, <2>3 DEF PipeThread, WriteLength, Thread
  <2>4. CASE WriteBody(fd) \/ WriteFails(fd)
    BY <1>4, <2>4 DEF PipeThread, WriteBody, WriteFails, DropSocket, EndOfChunk, Thread
  <2> QED
    BY <1>4, <2>1, <2>2, <2>3, <2>4 DEF PipeThread
<1> QED
  BY <1>1, <1>2, <1>3, <1>4, ToolMoves DEF Spawn, ForgetTool

(* What a step does to each worker: nothing; something that is not about a *)
(* tool; the spawn, the join, or the release; or the daemon ends.          *)
Aside(d) ==
  /\ pc[d] \notin {"spawn", "join", "release"}
  /\ pc'[d] # "join"
  /\ pc'[d] = "release" => out'[d].type # "exit"
  /\ pc'[d] \in NotStarted => pc[d] \in NotStarted
  /\ pc'[d] \in {"len", "body"} /\ out'[d].type = "exit" =>
       pc[d] \in {"len", "body"} /\ out'[d] = out[d]

(* What a step does to one worker: nothing, a step aside of the slot, or   *)
(* one of the steps of its tool.                                           *)
LEMMA PcMoves ==
  ASSUME ConversationTypes, WorkerInv, [Next]_vars, NEW d \in Client
  PROVE  \/ pc'[d] = pc[d] /\ out'[d] = out[d]
         \/ Aside(d)
         \/ SpawnTool(d) \/ JoinTool(d) \/ Release(d) \/ End
<1> DEFINE Goal == \/ pc'[d] = pc[d] /\ out'[d] = out[d]
                   \/ Aside(d)
                   \/ SpawnTool(d) \/ JoinTool(d) \/ Release(d) \/ End
<1> USE DEF ConversationTypes, Aside, NotStarted
<1>1. ASSUME NEW c \in Client, Connect(c) PROVE Goal
  BY <1>1 DEF Connect, ReportUnreachable, WorkerInv
<1>2. ASSUME NEW c \in Client, Accept(c) \/ Dispatch(c) PROVE Goal
  BY <1>2 DEF Accept, Dispatch, Goto, At
<1>3. ASSUME NEW c \in Client, Acquire(c) PROVE Goal
  BY <1>3 DEF Acquire, Busy, Goto, Prepare, At
<1>4. ASSUME NEW c \in Client, HandleStop(c) PROVE Goal
  BY <1>4 DEF HandleStop, Busy, Goto, Prepare, At
<1>5. ASSUME NEW c \in Client, CommandEnds(c) PROVE Goal
  BY <1>5 DEF CommandEnds, Goto, Prepare, At
<1>6. ASSUME NEW c \in Client, WriteAnswer(c) PROVE Goal
  BY <1>6 DEF WriteAnswer, Answered, Goto, At
<1>7. ASSUME NEW c \in Client, StoreShutdown(c) PROVE Goal
  BY <1>7 DEF StoreShutdown, Goto, At
<1>8. ASSUME NEW c \in Client, SpawnTool(c) \/ JoinTool(c) PROVE Goal
  BY <1>8 DEF SpawnTool, JoinTool, Goto, Prepare
<1>9. ASSUME NEW c \in Client, Release(c) PROVE Goal
  BY <1>9 DEF Release, Goto
<1>10. CASE UNCHANGED <<pc, out>>
  BY <1>10
<1> QED
  BY <1>1, <1>2, <1>3, <1>4, <1>5, <1>6, <1>7, <1>8, <1>9, <1>10, LeavesAlike
  DEF Next, ReadSocket, Worker, ReadLength, ReadStream, Leaves, Leave, Outside, Drain, vars

(* A connection that is closed stays closed.                               *)
LEMMA ClosedStays ==
  ASSUME ConversationTypes, [Next]_vars, NEW d \in Client, Closed(d)
  PROVE  Closed(d)'
<1> USE DEF ConversationTypes, Closed
<1>1. ASSUME NEW c \in Client, Connect(c) PROVE Closed(d)'
  BY <1>1 DEF Connect, ReportUnreachable
<1>2. ASSUME NEW c \in Client, ReadLength(c) \/ ReadStream(c) PROVE Closed(d)'
  BY <1>2 DEF ReadLength, ReadStream, Consume
<1>3. ASSUME NEW c \in Client, Leaves(c) PROVE Closed(d)'
  BY <1>3 DEF Leaves, Leave
<1>4. CASE UNCHANGED cpc
  BY <1>4
<1> QED
  BY <1>1, <1>2, <1>3, <1>4, LeavesAlike
  DEF Next, ReadSocket, Worker, Accept, Acquire, HandleStop, Dispatch, CommandEnds,
      SpawnTool, JoinTool, Release, WriteAnswer, StoreShutdown, Outside, Drain, End, vars

(* Only one worker waits for a tool, and the threads are its threads.      *)
LEMMA PeerInductive ==
  ASSUME ConversationTypes, ToolTypes, WorkerInv, PeerInv, [Next]_vars
  PROVE  PeerInv'
<1> USE NoneIsNoClient DEF PeerInv
<1>1. \A c, d \in Client : OwnsSlot(c) /\ OwnsSlot(d) => c = d
  BY OneOwner
<1>2. ASSUME NEW c \in Client, At(c, "spawn"), Goto(c, "join"), Spawn(c) PROVE PeerInv'
  <2>1. pc[c] = "spawn" /\ pc' = [pc EXCEPT ![c] = "join"]
    BY <1>2 DEF At, Goto
  <2>2. \A d \in Client : pc'[d] = "join" => d = c
    BY <1>1, <2>1 DEF OwnsSlot, ConversationTypes
  <2>3. peer' = c /\ ws' = "free" /\ pc'[c] = "join"
    BY <1>2, <2>1 DEF Spawn, Anew, ConversationTypes
  <2> QED
    BY <2>2, <2>3
<1>3. CASE ForgetTool /\ (End \/ \E c \in Client : Release(c))
  <2>1. \A d \in Client : pc'[d] # "join"
    <3>1. CASE End
      BY <3>1 DEF End
    <3>2. ASSUME NEW c \in Client, Release(c) PROVE \A d \in Client : pc'[d] # "join"
      BY <1>1, <3>2 DEF Release, At, Goto, OwnsSlot, ConversationTypes
    <3> QED
      BY <1>3, <3>1, <3>2
  <2> QED
    BY <1>3, <2>1 DEF ForgetTool, Anew
<1>4. CASE (Tool \/ ToolEnds) /\ Outside
  BY <1>4
  DEF Tool, ToolEnds, ToolForks, ToolWrites, HolderExits, copying, Outside, Closed
<1>5. ASSUME NEW fd \in Fd, PipeThread(fd), Outside PROVE PeerInv'
  <2>1. tpc[fd] # "done" /\ UNCHANGED <<pc, cpc, peer>>
    BY <1>5
    DEF PipeThread, ReadPipe, LockSocket, WriteLength, WriteBody, WriteFails, Thread,
        Outside
  <2>2. \A other \in Fd : tpc'[other] # "done" => tpc[other] # "done"
    BY <1>5, <2>1
    DEF PipeThread, ReadPipe, LockSocket, WriteLength, WriteBody, WriteFails,
        DropSocket, EndOfChunk, ToolTypes
  <2>3. ws' = "gone" => ws = "gone" \/ Closed(peer)
    BY <1>5, FdNames
    DEF PipeThread, ReadPipe, LockSocket, WriteLength, WriteBody, WriteFails
  <2>4. Closed(peer)' <=> Closed(peer)
    BY <2>1 DEF Closed
  <2> QED
    BY <2>1, <2>2, <2>3, <2>4
<1>6. CASE UNCHANGED tool
  <2>1. ASSUME NEW d \in Client
        PROVE  /\ pc'[d] = "join" => pc[d] = "join"
               /\ peer = d => pc'[d] \in {"join", "release"}
               /\ pc[d] = "join" /\ pc'[d] # "join" => \A fd \in Fd : tpc[fd] = "done"
    <3>1. peer' = peer /\ tpc' = tpc
      BY <1>6 DEF tool, copying
    <3>2. CASE Aside(d)
      BY <3>2 DEF Aside
    <3>3. CASE SpawnTool(d)
      BY <3>1, <3>3 DEF SpawnTool, Spawn, Anew, At, Goto, ConversationTypes
    <3>4. CASE JoinTool(d)
      BY <3>4 DEF JoinTool, Joined, At, Goto, ConversationTypes
    <3>5. CASE Release(d)
      BY <3>1, <3>5 DEF Release, ForgetTool, Anew, At, Goto, ConversationTypes
    <3>6. CASE End
      BY <3>1, <3>6 DEF End, ForgetTool, Anew
    <3>7. CASE pc'[d] = pc[d]
      BY <3>7
    <3> QED
      BY <3>2, <3>3, <3>4, <3>5, <3>6, <3>7, PcMoves
  <2> QED
    BY <1>6, <2>1, ClosedStays DEF tool, copying
<1> QED
  BY <1>2, <1>3, <1>4, <1>5, <1>6, ToolMoves

(* What the join has waited for stays so until the slot is given back.     *)
LEMMA JoinInductive ==
  ASSUME ConversationTypes, ToolTypes, WorkerInv, ToolInv, [Next]_vars
  PROVE  JoinInv'
<1> USE NoneIsNoClient DEF JoinInv
<1>1. \A c, d \in Client : OwnsSlot(c) /\ OwnsSlot(d) => c = d
  BY OneOwner
<1>2. ASSUME NEW c \in Client, At(c, "spawn"), Goto(c, "join"), Spawn(c) PROVE JoinInv'
  <2>1. pc[c] = "spawn" /\ pc' = [pc EXCEPT ![c] = "join"]
    BY <1>2 DEF At, Goto
  <2>2. \A d \in Client : pc'[d] \in {"join", "release"} => d = c
    BY <1>1, <2>1 DEF OwnsSlot, ConversationTypes
  <2>3. pc'[c] = "join" /\ \A fd \in Fd : tpc'[fd] = "read"
    BY <1>2, <2>1 DEF Spawn, Anew, ConversationTypes
  <2> QED
    BY <2>2, <2>3
<1>3. CASE ForgetTool /\ (End \/ \E c \in Client : Release(c))
  <2>1. \A d \in Client : pc'[d] \notin {"join", "release"}
    <3>1. CASE End
      BY <3>1 DEF End
    <3>2. ASSUME NEW c \in Client, Release(c)
          PROVE  \A d \in Client : pc'[d] \notin {"join", "release"}
      BY <1>1, <3>2 DEF Release, At, Goto, OwnsSlot, ConversationTypes
    <3> QED
      BY <1>3, <3>1, <3>2
  <2> QED
    BY <2>1
<1>4. CASE (Tool \/ ToolEnds) /\ Outside
  <2>1. UNCHANGED <<pc, out, tpc, taken, peer>>
    BY <1>4 DEF Tool, ToolEnds, ToolForks, ToolWrites, HolderExits, copying, Outside
  <2>2. holders = {} => UNCHANGED <<holders, wrote>>
    BY <1>4 DEF Tool, ToolEnds, ToolForks, ToolWrites, HolderExits
  <2> QED
    BY <2>1, <2>2 DEF ToolInv
<1>5. ASSUME NEW fd \in Fd, PipeThread(fd), Outside PROVE JoinInv'
  <2>1. tpc[fd] # "done" /\ UNCHANGED <<pc, out, peer, holders, wrote>>
    BY <1>5
    DEF PipeThread, ReadPipe, LockSocket, WriteLength, WriteBody, WriteFails, Thread,
        Outside, process
  <2>2. \A d \in Client : pc[d] # "release" \/ out[d].type # "exit"
    BY <2>1 DEF ToolInv, PeerInv
  <2>3. \A other \in Fd : tpc'[other] = "done" =>
          /\ tpc[other] # "done" => holders = {} /\ taken[other] = wrote[other]
          /\ taken'[other] = taken[other]
    BY <1>5, <2>1
    DEF PipeThread, ReadPipe, LockSocket, WriteLength, WriteBody, WriteFails,
        DropSocket, EndOfChunk, ToolTypes
  <2> QED
    BY <2>1, <2>2, <2>3 DEF ToolInv
<1>6. CASE UNCHANGED tool
  <2>1. UNCHANGED <<holders, tpc, taken, wrote, peer>>
    BY <1>6 DEF tool, copying, process
  <2>2. ASSUME NEW d \in Client
        PROVE  /\ pc'[d] = "join" => pc[d] = "join"
               /\ pc'[d] = "release" /\ out'[d].type = "exit" =>
                    \/ pc[d] = "release" /\ out[d].type = "exit"
                    \/ /\ pc[d] = "join"
                       /\ \A fd \in Fd : tpc[fd] = "done"
    <3>1. CASE Aside(d)
      BY <3>1 DEF Aside
    <3>2. CASE SpawnTool(d)
      <4>1. pc[d] = "spawn" /\ peer # d
        BY <3>2 DEF SpawnTool, At, ToolInv, PeerInv
      <4>2. ~Spawn(d)
        BY <2>1, <4>1 DEF Spawn, Anew
      <4>3. CASE Goto(d, "release") /\ Prepare(d, [type |-> "usage"])
        BY <4>3 DEF Goto, Prepare, ConversationTypes
      <4>4. CASE Goto(d, "len")
        BY <4>4 DEF Goto, ConversationTypes
      <4> QED
        BY <3>2, <4>2, <4>3, <4>4 DEF SpawnTool
    <3>3. CASE JoinTool(d)
      BY <3>3 DEF JoinTool, Joined, At, Goto, ConversationTypes
    <3>4. CASE Release(d)
      BY <3>4 DEF Release, At, Goto, ConversationTypes
    <3>5. CASE End
      BY <3>5 DEF End
    <3>6. CASE pc'[d] = pc[d] /\ out'[d] = out[d]
      BY <3>6
    <3> QED
      BY <3>1, <3>2, <3>3, <3>4, <3>5, <3>6, PcMoves
  <2>3. ASSUME NEW d \in Client, pc[d] = "join", \A fd \in Fd : tpc[fd] = "done"
        PROVE  peer = d /\ holders = {} /\ taken = wrote
    <3>1. \A fd \in Fd : taken[fd] = wrote[fd]
      BY <2>3 DEF ToolInv
    <3> QED
      BY <2>3, <3>1 DEF ToolInv, PeerInv, ToolTypes, Fd
  <2> QED
    BY <2>1, <2>2, <2>3 DEF ToolInv
<1> QED
  BY <1>2, <1>3, <1>4, <1>5, <1>6, ToolMoves

(* Every step keeps the tool, its pipes and its threads in agreement.      *)
LEMMA ToolInductive ==
  ASSUME ConversationTypes, ToolTypes, WorkerInv, ToolInv, [Next]_vars
  PROVE  ToolInv'
  BY CopyInductive, PeerInductive, JoinInductive DEF ToolInv

-----------------------------------------------------------------------------
(* What a step does to one socket. *)
WorkerPuts(c, half) ==
  /\ At(c, half)
  /\ Put(c, Part("worker", half, out[c]))
  /\ IF half = "len" THEN Goto(c, "body") /\ ~TooLarge(out[c]) ELSE Answered(c)
  /\ UNCHANGED <<daemon, cpc, client, slot, latch, out, tool>>

ThreadPuts(fd, half) ==
  /\ Thread(fd, half)
  /\ Put(peer, Part(fd, half, StreamFrame(fd)))
  /\ IF half = "len" THEN tpc' = [tpc EXCEPT ![fd] = "body"] /\ UNCHANGED sent
     ELSE EndOfChunk(fd)
  /\ UNCHANGED <<taken, peer, process>>
  /\ Outside

Untouched(c) == wire'[c] = wire[c] /\ shown'[c] = shown[c] /\ cpc'[c] = cpc[c]

(* What a step does to one socket: nothing, a read of its client, or a     *)
(* write of one of its three writers.                                      *)
LEMMA WireMoves ==
  ASSUME ConversationTypes, [Next]_vars, NEW d \in Client
  PROVE  \/ Untouched(d)
         \/ Connect(d) \/ ReadLength(d) \/ ReadStream(d) \/ Leaves(d)
         \/ \E half \in Halves : WorkerPuts(d, half)
         \/ peer = d /\ \E fd \in Fd : \E half \in Halves : ThreadPuts(fd, half)
<1> DEFINE Goal == \/ Untouched(d)
                   \/ Connect(d) \/ ReadLength(d) \/ ReadStream(d) \/ Leaves(d)
                   \/ \E half \in Halves : WorkerPuts(d, half)
                   \/ peer = d /\ \E fd \in Fd : \E half \in Halves : ThreadPuts(fd, half)
<1> USE DEF ConversationTypes, Untouched
<1>1. ASSUME NEW c \in Client, Connect(c) \/ ReadLength(c) \/ ReadStream(c), c # d PROVE Goal
  BY <1>1 DEF Connect, ReportUnreachable, ReadLength, ReadStream, client
<1>2. ASSUME NEW c \in Client, Leaves(c), c # d PROVE Goal
  BY <1>2 DEF Leaves, Leave
<1>3. CASE UNCHANGED <<wire, client, cpc>>
  BY <1>3 DEF client
<1>4. ASSUME NEW c \in Client, WriteAnswer(c) PROVE Goal
  <2>1. UNCHANGED <<cpc, shown>>
    BY <1>4 DEF WriteAnswer, client
  <2>2. CASE UNCHANGED wire
    BY <2>1, <2>2
  <2>3. CASE c # d /\ \E half \in Halves : Put(c, Part("worker", half, out[c]))
    BY <2>1, <2>3 DEF Put
  <2>4. CASE At(c, "len") /\ ~TooLarge(out[c]) /\ Put(c, Part("worker", "len", out[c]))
             /\ Goto(c, "body")
    BY <1>4, <2>3, <2>4 DEF WriteAnswer, WorkerPuts, Halves
  <2>5. CASE At(c, "body") /\ Put(c, Part("worker", "body", out[c])) /\ Answered(c)
    BY <1>4, <2>3, <2>5 DEF WriteAnswer, WorkerPuts, Halves
  <2> QED
    BY <1>4, <2>2, <2>4, <2>5 DEF WriteAnswer
<1>5. ASSUME NEW fd \in Fd, PipeThread(fd), Outside PROVE Goal
  <2>1. UNCHANGED <<cpc, shown>>
    BY <1>5 DEF Outside, client
  <2>2. CASE UNCHANGED wire
    BY <2>1, <2>2
  <2>3. CASE peer # d /\ \E half \in Halves : Put(peer, Part(fd, half, StreamFrame(fd)))
    BY <2>1, <2>3 DEF Put
  <2>4. CASE WriteLength(fd)
    BY <1>5, <2>3, <2>4 DEF PipeThread, WriteLength, ThreadPuts, Halves
  <2>5. CASE WriteBody(fd)
    BY <1>5, <2>3, <2>5 DEF PipeThread, WriteBody, ThreadPuts, Halves
  <2> QED
    BY <1>5, <2>2, <2>4, <2>5 DEF PipeThread, ReadPipe, LockSocket, WriteFails
<1> QED
  BY <1>1, <1>2, <1>3, <1>4, <1>5, LeavesAlike
  DEF Next, ReadSocket, Worker, Accept, Acquire, HandleStop, Dispatch, CommandEnds,
      SpawnTool, JoinTool, Release, StoreShutdown, Tool, ToolEnds, ToolForks, ToolWrites,
      HolderExits, Outside, Drain, End, vars

-----------------------------------------------------------------------------
(* The framing. *)

(* One client's part of FramesAreWhole. *)
WholeIn(c) ==
  \A i \in DOMAIN wire[c] :
    /\ (i = 1 /\ Reading(c)) => wire[c][i].half = cpc[c]
    /\ (i > 1 /\ wire[c][i].half = "body") =>
         wire[c][i - 1] = [wire[c][i] EXCEPT !.half = "len"]
    /\ (i > 1 /\ wire[c][i].half = "len") => wire[c][i - 1].half = "body"

(* Frames are whole when they are in every socket.                         *)
LEMMA WholeEverywhere == FramesAreWhole <=> \A c \in Client : WholeIn(c)
  BY DEF FramesAreWhole, WholeIn

(* What is appended and what is left when the first part is taken.         *)
LEMMA Appended ==
  ASSUME ConversationTypes, NEW c \in Client, NEW part \in Parts, Put(c, part)
  PROVE  /\ ~Closed(c)
         /\ Len(wire'[c]) = Len(wire[c]) + 1
         /\ Len(wire[c]) \in Nat /\ Len(wire'[c]) <= Room
         /\ DOMAIN wire[c] = 1..Len(wire[c]) /\ DOMAIN wire'[c] = 1..(Len(wire[c]) + 1)
         /\ \A i \in 1..Len(wire[c]) : wire'[c][i] = wire[c][i] /\ wire[c][i] \in Parts
         /\ wire'[c][Len(wire[c]) + 1] = part
         /\ wire'[c] # <<>>
         /\ wire[c] = <<>> <=> Len(wire[c]) = 0
<1>1. wire[c] \in Seq(Parts) /\ wire'[c] = Append(wire[c], part)
  BY DEF Put, ConversationTypes
<1>2. Len(wire[c]) < Room /\ ~Closed(c)
  BY DEF Put
<1> DEFINE w == wire[c]
<1>3. Append(w, part) \in Seq(Parts)
  BY <1>1, AppendProperties
<1>4. /\ Append(w, part) # <<>> /\ Len(Append(w, part)) = Len(w) + 1
      /\ \A i \in 1..Len(w) : Append(w, part)[i] = w[i]
      /\ Append(w, part)[Len(w) + 1] = part
  BY <1>1, AppendProperties
<1>5. Len(w) \in Nat /\ DOMAIN w = 1..Len(w)
      /\ DOMAIN Append(w, part) = 1..Len(Append(w, part))
      /\ \A i \in 1..Len(w) : w[i] \in Parts
  BY <1>1, <1>3, LenProperties
<1>6. w = <<>> <=> Len(w) = 0
  BY <1>1, EmptySeq
<1> QED
  BY <1>1, <1>2, <1>4, <1>5, <1>6, Sizes

(* A socket from which a half is read has one half less.                   *)
LEMMA Taken ==
  ASSUME ConversationTypes, NEW c \in Client, wire[c] # <<>>,
         wire' = [wire EXCEPT ![c] = Tail(@)]
  PROVE  /\ Len(wire[c]) \in Nat \ {0}
         /\ Len(wire'[c]) = Len(wire[c]) - 1
         /\ DOMAIN wire[c] = 1..Len(wire[c]) /\ DOMAIN wire'[c] = 1..(Len(wire[c]) - 1)
         /\ \A i \in 1..Len(wire[c]) : wire[c][i] \in Parts
         /\ \A i \in 1..(Len(wire[c]) - 1) : wire'[c][i] = wire[c][i + 1]
         /\ Head(wire[c]) = wire[c][1]
         /\ wire'[c] = <<>> <=> Len(wire[c]) = 1
<1> DEFINE w == wire[c]
<1>1. w \in Seq(Parts) /\ wire'[c] = Tail(w)
  BY DEF ConversationTypes
<1>2. Tail(w) \in Seq(Parts) /\ Len(Tail(w)) = Len(w) - 1
      /\ \A i \in 1..Len(Tail(w)) : Tail(w)[i] = w[i + 1]
  BY <1>1, HeadTailProperties
<1>3. Len(w) \in Nat \ {0} /\ DOMAIN w = 1..Len(w) /\ \A i \in 1..Len(w) : w[i] \in Parts
  BY <1>1, LenProperties, EmptySeq
<1>4. DOMAIN Tail(w) = 1..Len(Tail(w)) /\ (Tail(w) = <<>> <=> Len(Tail(w)) = 0)
  BY <1>2, LenProperties, EmptySeq
<1>5. Head(w) = w[1]
  BY <1>1
<1>6. \A i \in 1..(Len(w) - 1) : Tail(w)[i] = w[i + 1]
  BY <1>2
<1>7. DOMAIN Tail(w) = 1..(Len(w) - 1) /\ (Tail(w) = <<>> <=> Len(w) = 1)
  BY <1>2, <1>3, <1>4
<1> HIDE DEF w
<1>8. w = wire[c]
  BY DEF w
<1> QED
  BY <1>1, <1>2, <1>3, <1>5, <1>6, <1>7, <1>8

(* A part is put after the one it belongs to, and the reader takes them    *)
(* one at a time, so that no body is ever read as a length.                *)
LEMMA WholeAppend ==
  ASSUME ConversationTypes, WireInv, daemon # "gone", NEW c \in Client, WholeIn(c),
         NEW from \in Fd \union {"worker"}, NEW half \in Halves, NEW frame \in Frames,
         Put(c, Part(from, half, frame)), cpc' = cpc,
         half = "len" => ~Midway(c),
         half = "body" => Midway(c) /\ (wire[c] # <<>> => LastPart(c) = Part(from, "len", frame))
  PROVE  WholeIn(c)'
<1> DEFINE part == Part(from, half, frame)
           n == Len(wire[c])
<1>1. part \in Parts /\ part.half = half /\ [part EXCEPT !.half = "len"] = Part(from, "len", frame)
  BY PartIsPart DEF Part
<1>2. Framed(c) /\ ~Closed(c)
  BY DEF WireInv, Put
<1>3. cpc[c] \in {"start", "len", "body"}
  BY <1>2 DEF Closed, ConversationTypes
<1> HIDE DEF part
<1>4. /\ DOMAIN wire[c] = 1..n /\ DOMAIN wire'[c] = 1..(n + 1) /\ n \in Nat
      /\ \A i \in 1..n : wire'[c][i] = wire[c][i] /\ wire[c][i] \in Parts
      /\ wire'[c][n + 1] = part
      /\ wire[c] = <<>> <=> n = 0
  <2> Put(c, part)
    BY DEF part
  <2> QED
    BY <1>1, Appended
<1>5. n > 0 => wire[c][n] \in Parts /\ LastPart(c) = wire[c][n] /\ wire[c][n].half \in Halves
  <2>1. n > 0 => n \in 1..n
    BY <1>4
  <2>2. n > 0 => wire[c][n] \in Parts
    BY <1>4, <2>1
  <2> QED
    BY <2>2, PartFields DEF LastPart
<1>6. n > 0 => (wire[c][n].half = "len" <=> Midway(c))
  BY <1>2, <1>4, <1>5 DEF Framed
<1>7. n = 0 => (cpc[c] = "body" <=> Midway(c))
  BY <1>2, <1>4 DEF Framed
<1>8. ASSUME NEW i \in 1..(n + 1)
      PROVE  /\ (i = 1 /\ Reading(c)) => wire'[c][i].half = cpc[c]
             /\ (i > 1 /\ wire'[c][i].half = "body") =>
                  wire'[c][i - 1] = [wire'[c][i] EXCEPT !.half = "len"]
             /\ (i > 1 /\ wire'[c][i].half = "len") => wire'[c][i - 1].half = "body"
  <2>1. CASE i \in 1..n
    BY <1>4, <2>1 DEF WholeIn
  <2>2. CASE i = n + 1 /\ n = 0
    BY <1>1, <1>3, <1>4, <1>7, <2>2 DEF Reading, Halves
  <2>3. CASE i = n + 1 /\ n > 0
    <3>1. wire'[c][i] = part /\ wire'[c][i - 1] = LastPart(c) /\ i > 1
      BY <1>4, <1>5, <2>3
    <3>2. CASE half = "body"
      BY <1>1, <1>4, <2>3, <3>1, <3>2
    <3>3. CASE half = "len"
      BY <1>1, <1>5, <1>6, <2>3, <3>1, <3>3 DEF Halves
    <3> QED
      BY <2>3, <3>2, <3>3 DEF Halves
  <2> QED
    BY <1>4, <2>1, <2>2, <2>3
<1> QED
  BY <1>4, <1>8 DEF WholeIn, Reading

(* A socket of whole frames is one after its reader took a half.           *)
LEMMA WholeTail ==
  ASSUME ConversationTypes, NEW c \in Client, WholeIn(c), Reading(c), wire[c] # <<>>,
         wire' = [wire EXCEPT ![c] = Tail(@)],
         cpc' = [cpc EXCEPT ![c] = IF wire[c][1].half = "len" THEN "body" ELSE "len"]
  PROVE  WholeIn(c)'
<1> DEFINE n == Len(wire[c])
<1>1. /\ DOMAIN wire[c] = 1..n /\ DOMAIN wire'[c] = 1..(n - 1) /\ n \in Nat \ {0}
      /\ \A i \in 1..(n - 1) : wire'[c][i] = wire[c][i + 1]
      /\ \A i \in 1..n : wire[c][i] \in Parts
  BY Taken
<1>2. \A i \in 1..n : wire[c][i].half \in Halves /\ [wire[c][i] EXCEPT !.half = "len"].half = "len"
  BY <1>1, PartFields, PartIsPart DEF Parts
<1>3. ASSUME NEW i \in 1..(n - 1)
      PROVE  /\ i = 1 => wire[c][i + 1].half = cpc'[c]
             /\ (i > 1 /\ wire[c][i + 1].half = "body") =>
                  wire[c][i] = [wire[c][i + 1] EXCEPT !.half = "len"]
             /\ (i > 1 /\ wire[c][i + 1].half = "len") => wire[c][i].half = "body"
  <2>1. i \in 1..n /\ i + 1 \in 1..n /\ i + 1 > 1 /\ (i + 1) - 1 = i
    BY <1>1
  <2>2. /\ wire[c][i + 1].half = "body" => wire[c][i] = [wire[c][i + 1] EXCEPT !.half = "len"]
        /\ wire[c][i + 1].half = "len" => wire[c][i].half = "body"
    BY <1>1, <2>1 DEF WholeIn
  <2>3. cpc'[c] = IF wire[c][1].half = "len" THEN "body" ELSE "len"
    BY DEF ConversationTypes
  <2>4. wire[c][i + 1].half = "body" => wire[c][i].half = "len"
    BY <1>2, <2>1, <2>2
  <2> QED
    BY <1>2, <2>1, <2>2, <2>3, <2>4 DEF Halves
<1>4. \A i \in 1..(n - 1) : i > 1 => i - 1 \in 1..(n - 1) /\ (i - 1) + 1 = i
  BY <1>1
<1> QED
  BY <1>1, <1>3, <1>4 DEF WholeIn

(* Nobody begins a frame while another is half written: a worker answers   *)
(* when its threads have ended, and the threads hold the socket in turn.   *)
LEMMA WorkerInTurn ==
  ASSUME ToolInv, WireInv, NEW d \in Client, NEW half \in Halves, WorkerPuts(d, half)
  PROVE  /\ half = "len" => ~Midway(d)
         /\ half = "body" =>
              Midway(d) /\ (wire[d] # <<>> => LastPart(d) = Part("worker", "len", out[d]))
<1>1. pc[d] = half /\ daemon # "gone" /\ ~Closed(d)
  BY DEF WorkerPuts, At, Running, Put
<1>2. Framed(d)
  BY <1>1 DEF WireInv
<1>3. peer # d
  BY <1>1 DEF ToolInv, PeerInv, Halves
<1> QED
  BY <1>1, <1>2, <1>3 DEF Framed, Midway, ThreadMidway

(* A pipe thread writes a length when no frame is under way, and a body    *)
(* after its own length.                                                   *)
LEMMA ThreadInTurn ==
  ASSUME ConversationTypes, ToolInv, WireInv, NEW fd \in Fd, NEW half \in Halves,
         NEW d \in Client, peer = d, ThreadPuts(fd, half)
  PROVE  /\ half = "len" => ~Midway(d)
         /\ half = "body" =>
              Midway(d) /\ (wire[d] # <<>> => LastPart(d) = Part(fd, "len", StreamFrame(fd)))
<1>1. tpc[fd] = half /\ daemon # "gone" /\ ~Closed(d)
  BY DEF ThreadPuts, Thread, Running, Put
<1>2. Framed(d)
  BY <1>1 DEF WireInv
<1>3. pc[d] = "join"
  BY <1>1 DEF ToolInv, PeerInv, Halves
<1>4. \A other \in Fd : tpc[other] = "body" => other = fd
  BY <1>1 DEF ToolInv, CopyInv, Halves
<1> QED
  BY <1>1, <1>2, <1>3, <1>4 DEF Framed, Midway, ThreadMidway

(* Every step keeps frames whole.                                          *)
LEMMA FramesInductive ==
  ASSUME ConversationTypes, ToolTypes, WorkerInv, ToolInv, WireInv, FramesAreWhole, [Next]_vars
  PROVE  FramesAreWhole'
<1> SUFFICES ASSUME NEW d \in Client PROVE WholeIn(d)'
  BY DEF FramesAreWhole, WholeIn
<1>1. WholeIn(d)
  BY WholeEverywhere
<1>2. CASE Untouched(d)
  BY <1>1, <1>2 DEF Untouched, WholeIn, Reading
<1>3. CASE Connect(d) \/ Leaves(d)
  <2>1. wire'[d] = <<>>
    BY <1>3 DEF Connect, Leaves, Leave, WireInv, Reading, ConversationTypes
  <2> QED
    BY <2>1 DEF WholeIn
<1>4. CASE ReadLength(d) \/ ReadStream(d)
  <2>1. /\ wire[d] # <<>> /\ Reading(d) /\ cpc[d] \in Halves
        /\ wire' = [wire EXCEPT ![d] = Tail(@)]
        /\ cpc' = [cpc EXCEPT ![d] = IF cpc[d] = "len" THEN "body" ELSE "len"]
    BY <1>4 DEF ReadLength, ReadStream, Consume, Reading, Halves
  <2>2. wire[d][1].half = cpc[d]
    <3>1. 1 \in DOMAIN wire[d]
      <4>1. Len(wire[d]) \in Nat \ {0} /\ DOMAIN wire[d] = 1..Len(wire[d])
        BY <2>1, Taken
      <4> QED
        BY <4>1
    <3> QED
      BY <1>1, <2>1, <3>1 DEF WholeIn
  <2> QED
    BY <1>1, <2>1, <2>2, WholeTail
<1>5. ASSUME NEW half \in Halves, WorkerPuts(d, half) PROVE WholeIn(d)'
  <2>1. /\ Put(d, Part("worker", half, out[d])) /\ cpc' = cpc /\ daemon # "gone"
        /\ out[d] \in Frames
    BY <1>5 DEF WorkerPuts, At, Running, ConversationTypes
  <2> QED
    BY <1>1, <1>5, <2>1, WorkerInTurn, WholeAppend
<1>6. ASSUME NEW fd \in Fd, NEW half \in Halves, peer = d, ThreadPuts(fd, half)
      PROVE  WholeIn(d)'
  <2>1. /\ Put(d, Part(fd, half, StreamFrame(fd))) /\ cpc' = cpc /\ daemon # "gone"
        /\ StreamFrame(fd) \in Frames
    BY <1>6, StreamFrameIsFrame DEF ThreadPuts, Thread, Running, Outside, ToolInv, CopyInv
  <2> QED
    BY <1>1, <1>6, <2>1, ThreadInTurn, WholeAppend
<1> QED
  BY <1>2, <1>3, <1>4, <1>5, <1>6, WireMoves

-----------------------------------------------------------------------------
(* The socket agrees with whoever writes to it. *)

(* While a client is served and nothing is written to it, whether a frame  *)
(* is half written, and which, does not change.                            *)
LEMMA MidwayStays ==
  ASSUME ConversationTypes, ToolTypes, WorkerInv, ToolInv, [Next]_vars, NEW d \in Client,
         ~Closed(d)', daemon' # "gone",
         \A half \in Halves : ~WorkerPuts(d, half),
         peer = d => \A fd \in Fd : \A half \in Halves : ~ThreadPuts(fd, half)
  PROVE  /\ pc'[d] = "body" <=> pc[d] = "body"
         /\ pc[d] = "body" => out'[d] = out[d]
         /\ \A fd \in Fd : (peer' = d /\ tpc'[fd] = "body") <=> (peer = d /\ tpc[fd] = "body")
         /\ \A fd \in Fd : peer = d /\ tpc[fd] = "body" => StreamFrame(fd)' = StreamFrame(fd)
<1>1. (pc'[d] = "body" <=> pc[d] = "body") /\ (pc[d] = "body" => out'[d] = out[d])
  <2> DEFINE Same == (pc'[d] = "body" <=> pc[d] = "body") /\ (pc[d] = "body" => out'[d] = out[d])
  <2> USE DEF ConversationTypes
  <2>2. ASSUME NEW c \in Client, Connect(c) PROVE Same
    BY <2>2 DEF Connect, ReportUnreachable, WorkerInv
  <2>3. ASSUME NEW c \in Client, Accept(c) \/ Dispatch(c) \/ StoreShutdown(c) PROVE Same
    BY <2>3 DEF Accept, Dispatch, StoreShutdown, Goto, At
  <2>4. ASSUME NEW c \in Client, Acquire(c) PROVE Same
    BY <2>4 DEF Acquire, Busy, Goto, Prepare, At
  <2>5. ASSUME NEW c \in Client, HandleStop(c) PROVE Same
    BY <2>5 DEF HandleStop, Busy, Goto, Prepare, At
  <2>6. ASSUME NEW c \in Client, CommandEnds(c) \/ JoinTool(c) PROVE Same
    BY <2>6 DEF CommandEnds, JoinTool, Goto, Prepare, At
  <2>7. ASSUME NEW c \in Client, SpawnTool(c) PROVE Same
    BY <2>7 DEF SpawnTool, Goto, Prepare, At
  <2>8. ASSUME NEW c \in Client, Release(c) PROVE Same
    BY <2>8 DEF Release, Goto, At
  <2>9. ASSUME NEW c \in Client, WriteAnswer(c) PROVE Same
    <3>1. CASE c # d
      BY <2>9, <3>1 DEF WriteAnswer, Answered, Goto
    <3>2. CASE c = d
      <4>1. ~(At(d, "len") /\ ~TooLarge(out[d]) /\ Put(d, Part("worker", "len", out[d]))
              /\ Goto(d, "body"))
        BY <2>9, <3>2 DEF WriteAnswer, WorkerPuts, Halves
      <4>2. ~(At(d, "body") /\ Put(d, Part("worker", "body", out[d])) /\ Answered(d))
        BY <2>9, <3>2 DEF WriteAnswer, WorkerPuts, Halves
      <4>3. /\ At(d, "len") \/ At(d, "body")
            /\ Closed(d) \/ TooLarge(out[d])
            /\ Answered(d)
        BY <2>9, <3>2, <4>1, <4>2 DEF WriteAnswer
      <4>4. TooLarge(out[d])
        BY <4>3, ClosedStays
      <4>5. pc[d] = "len" /\ out[d].type = "result"
        BY <4>3, <4>4 DEF WorkerInv, At, TooLarge
      <4> QED
        BY <4>3, <4>5 DEF Answered, Goto
    <3> QED
      BY <3>1, <3>2
  <2>10. CASE UNCHANGED <<pc, out>>
    BY <2>10
  <2>11. ~End
    BY DEF End
  <2> QED
    BY <2>2, <2>3, <2>4, <2>5, <2>6, <2>7, <2>8, <2>9, <2>10, <2>11, LeavesAlike
    DEF Next, ReadSocket, Worker, ReadLength, ReadStream, Leaves, Leave, Outside, Drain, vars
<1>2. ASSUME NEW fd \in Fd
      PROVE  /\ (peer' = d /\ tpc'[fd] = "body") <=> (peer = d /\ tpc[fd] = "body")
             /\ peer = d /\ tpc[fd] = "body" => StreamFrame(fd)' = StreamFrame(fd)
  <2> DEFINE Same == /\ (peer' = d /\ tpc'[fd] = "body") <=> (peer = d /\ tpc[fd] = "body")
                     /\ peer = d /\ tpc[fd] = "body" => StreamFrame(fd)' = StreamFrame(fd)
  <2> USE DEF ToolTypes, StreamFrame
  <2>1. CASE UNCHANGED copying
    BY <2>1 DEF copying
  <2>2. ASSUME NEW c \in Client, OwnsSlot(c), pc[c] # "join", NEW threads \in {"read", "done"},
               tpc' = [f \in Fd |-> threads]
        PROVE  Same
    <3>1. tpc[fd] # "body"
      BY <2>2, OneOwner DEF ToolInv, PeerInv, OwnsSlot
    <3> QED
      BY <2>2, <3>1
  <2>3. ASSUME NEW c \in Client, At(c, "spawn"), Spawn(c) PROVE Same
    BY <2>2, <2>3 DEF At, Spawn, Anew, OwnsSlot
  <2>4. ASSUME NEW c \in Client, Release(c), ForgetTool PROVE Same
    BY <2>2, <2>4 DEF At, Release, ForgetTool, Anew, OwnsSlot
  <2>5. ASSUME NEW f \in Fd, PipeThread(f), Outside PROVE Same
    <3>1. peer' = peer
      BY <2>5
      DEF PipeThread, ReadPipe, LockSocket, WriteLength, WriteBody, WriteFails
    <3>2. CASE peer # d
      BY <3>1, <3>2
    <3>3. CASE peer = d
      <4>1. ~WriteLength(f) /\ ~WriteBody(f)
        BY <2>5, <3>3 DEF PipeThread, WriteLength, WriteBody, ThreadPuts, Halves
      <4>2. ~WriteFails(f)
        BY <3>3, ClosedStays DEF WriteFails
      <4>3. CASE ReadPipe(f)
        BY <3>1, <3>3, <4>3 DEF ReadPipe, Thread
      <4>4. CASE LockSocket(f)
        BY <3>1, <3>3, <4>4 DEF LockSocket, EndOfChunk, Thread
      <4> QED
        BY <2>5, <4>1, <4>2, <4>3, <4>4 DEF PipeThread
    <3> QED
      BY <3>2, <3>3
  <2>6. CASE (Tool \/ ToolEnds) /\ Outside
    BY <2>1, <2>6 DEF Tool, ToolEnds, ToolForks, ToolWrites, HolderExits
  <2>7. ~End
    BY DEF End
  <2> QED
    BY <2>1, <2>3, <2>4, <2>5, <2>6, <2>7, ToolMoves DEF tool
<1> QED
  BY <1>1, <1>2

(* A daemon that is gone does not come back.                               *)
LEMMA GoneStays ==
  ASSUME [Next]_vars, daemon' # "gone"
  PROVE  daemon # "gone"
  BY LeavesAlike
  DEF Next, ReadSocket, Worker, Connect, ReadLength, ReadStream, Leaves, Leave, Accept,
      Acquire, HandleStop, Dispatch, CommandEnds, SpawnTool, JoinTool, Release,
      WriteAnswer, StoreShutdown, At, Running, Outside, Drain, End, vars

(* A write changes the socket.                                             *)
LEMMA PutChanges ==
  ASSUME ConversationTypes, NEW c \in Client, NEW part \in Parts, Put(c, part)
  PROVE  wire'[c] # wire[c]
<1>1. Len(wire'[c]) = Len(wire[c]) + 1 /\ Len(wire[c]) \in Nat
  BY Appended
<1> QED
  BY <1>1

(* What is written are halves of frames.                                   *)
LEMMA PutsParts ==
  ASSUME ConversationTypes, ToolTypes, ToolInv, NEW d \in Client, NEW half \in Halves
  PROVE  /\ Part("worker", half, out[d]) \in Parts
         /\ \A fd \in Fd : Part(fd, half, StreamFrame(fd)) \in Parts
<1>1. out[d] \in Frames
  BY DEF ConversationTypes
<1>2. \A fd \in Fd : StreamFrame(fd) \in Frames
  BY StreamFrameIsFrame DEF ToolInv, CopyInv
<1> QED
  BY <1>1, <1>2, PartIsPart

(* The room, and that a closed socket is empty.                            *)
LEMMA RoomInductive ==
  ASSUME ConversationTypes, ToolTypes, WorkerInv, ToolInv, WireInv, [Next]_vars,
         NEW d \in Client
  PROVE  /\ Len(wire'[d]) <= Room
         /\ ~Reading(d)' => wire'[d] = <<>> /\ shown'[d] = NothingShown
<1>1. Len(wire[d]) <= Room /\ (~Reading(d) => wire[d] = <<>> /\ shown[d] = NothingShown)
  BY DEF WireInv
<1>2. CASE Untouched(d)
  BY <1>1, <1>2 DEF Untouched, Reading
<1>3. CASE Connect(d)
  BY <1>1, <1>3 DEF Connect, client, Reading
<1>4. CASE ReadLength(d) \/ ReadStream(d)
  <2>1. /\ wire[d] # <<>> /\ wire' = [wire EXCEPT ![d] = Tail(@)]
        /\ cpc' = [cpc EXCEPT ![d] = IF cpc[d] = "len" THEN "body" ELSE "len"]
    BY <1>4 DEF ReadLength, ReadStream, Consume
  <2>2. Len(wire'[d]) = Len(wire[d]) - 1 /\ Len(wire[d]) \in Nat
    BY <2>1, Taken
  <2>3. Reading(d)'
    BY <2>1 DEF Reading, ConversationTypes
  <2> QED
    BY <1>1, <2>2, <2>3, Sizes
<1>5. CASE Leaves(d)
  <2>1. wire'[d] = <<>> /\ shown'[d] = NothingShown
    BY <1>5 DEF Leaves, Leave, ConversationTypes
  <2> QED
    BY <2>1, EmptySeq, Sizes
<1>6. ASSUME NEW half \in Halves, WorkerPuts(d, half)
      PROVE  /\ Len(wire'[d]) <= Room
             /\ ~Reading(d)' => wire'[d] = <<>> /\ shown'[d] = NothingShown
  <2>1. Put(d, Part("worker", half, out[d])) /\ cpc' = cpc /\ pc[d] = half
    BY <1>6 DEF WorkerPuts, At
  <2>2. Reading(d)
    BY <2>1 DEF WorkerInv, Put, Closed, Reading, Halves, ConversationTypes
  <2> QED
    BY <2>1, <2>2, Appended, PutsParts DEF Reading
<1>7. ASSUME NEW fd \in Fd, NEW half \in Halves, peer = d, ThreadPuts(fd, half)
      PROVE  /\ Len(wire'[d]) <= Room
             /\ ~Reading(d)' => wire'[d] = <<>> /\ shown'[d] = NothingShown
  <2>1. Put(d, Part(fd, half, StreamFrame(fd))) /\ cpc' = cpc /\ tpc[fd] = half
    BY <1>7 DEF ThreadPuts, Thread, Outside
  <2>2. pc[d] = "join"
    BY <1>7, <2>1 DEF ToolInv, PeerInv, Halves
  <2>3. Reading(d)
    BY <2>1, <2>2 DEF WorkerInv, Put, Closed, Reading, ConversationTypes
  <2> QED
    BY <2>1, <2>3, Appended, PutsParts DEF Reading
<1> QED
  BY <1>2, <1>3, <1>4, <1>5, <1>6, <1>7, WireMoves

(* Puts change the writer and nothing else that the framing depends on.    *)
LEMMA FramedInductive ==
  ASSUME ConversationTypes, ToolTypes, WorkerInv, ToolInv, WireInv, FramesAreWhole, [Next]_vars,
         NEW d \in Client, daemon' # "gone", ~Closed(d)'
  PROVE  Framed(d)'
<1>1. daemon # "gone" /\ ~Closed(d)
  BY GoneStays, ClosedStays
<1>2. Framed(d)
  BY <1>1 DEF WireInv
<1>3. CASE Untouched(d)
  <2>1. /\ \A half \in Halves : ~WorkerPuts(d, half)
        /\ peer = d => \A fd \in Fd : \A half \in Halves : ~ThreadPuts(fd, half)
    BY <1>3, PutChanges, PutsParts DEF Untouched, WorkerPuts, ThreadPuts
  <2>2. /\ pc'[d] = "body" <=> pc[d] = "body"
        /\ pc[d] = "body" => out'[d] = out[d]
        /\ \A fd \in Fd : (peer' = d /\ tpc'[fd] = "body") <=> (peer = d /\ tpc[fd] = "body")
        /\ \A fd \in Fd : peer = d /\ tpc[fd] = "body" => StreamFrame(fd)' = StreamFrame(fd)
    BY <2>1, MidwayStays
  <2>3. Midway(d)' <=> Midway(d)
    BY <2>2 DEF Midway, ThreadMidway
  <2> QED
    BY <1>2, <1>3, <2>2, <2>3 DEF Framed, LastPart, Untouched
<1>4. CASE Connect(d)
  <2>1. wire'[d] = <<>> /\ cpc'[d] = "len" /\ pc'[d] = "queued" /\ pc[d] = "none" /\ peer' = peer
    BY <1>4
    DEF Connect, ReportUnreachable, WireInv, WorkerInv, Reading, Closed, ConversationTypes,
        tool, copying
  <2>2. peer # d
    BY <2>1 DEF ToolInv, PeerInv
  <2> QED
    BY <2>1, <2>2 DEF Framed, Midway, ThreadMidway
<1>5. CASE ReadLength(d) \/ ReadStream(d)
  <2>1. /\ wire[d] # <<>> /\ wire' = [wire EXCEPT ![d] = Tail(@)]
        /\ Reading(d) /\ cpc'[d] = IF cpc[d] = "len" THEN "body" ELSE "len"
        /\ UNCHANGED <<pc, out, sent, taken, tpc, peer>>
    BY <1>5
    DEF ReadLength, ReadStream, Consume, Reading, ConversationTypes, tool, copying
  <2> DEFINE n == Len(wire[d])
  <2>2. /\ n \in Nat \ {0} /\ Len(wire'[d]) = n - 1
        /\ DOMAIN wire[d] = 1..n
        /\ \A i \in 1..(n - 1) : wire'[d][i] = wire[d][i + 1]
        /\ wire'[d] = <<>> <=> n = 1
        /\ \A i \in 1..n : wire[d][i] \in Parts
    BY <2>1, Taken
  <2>3. wire[d][1].half = cpc[d]
    <3>1. 1 \in DOMAIN wire[d]
      BY <2>2
    <3> QED
      BY <2>1, <3>1 DEF FramesAreWhole
  <2>4. Midway(d)' <=> Midway(d)
    BY <2>1 DEF Midway, ThreadMidway
  <2>5. \A fd \in Fd : StreamFrame(fd)' = StreamFrame(fd)
    BY <2>1 DEF StreamFrame
  <2>6. CASE n = 1
    BY <1>2, <2>1, <2>2, <2>3, <2>4, <2>6 DEF Framed, LastPart, Reading
  <2>7. CASE n # 1
    <3>1. LastPart(d)' = LastPart(d)
      BY <2>2, <2>7 DEF LastPart
    <3> QED
      BY <1>2, <2>1, <2>2, <2>4, <2>5, <2>7, <3>1 DEF Framed
  <2> QED
    BY <2>6, <2>7
<1>6. ASSUME NEW half \in Halves, WorkerPuts(d, half) PROVE Framed(d)'
  <2> DEFINE part == Part("worker", half, out[d])
  <2>1. /\ Put(d, part) /\ pc[d] = half /\ UNCHANGED <<out, peer>>
        /\ half = "len" => pc'[d] = "body"
        /\ half # "len" => pc'[d] # "body"
    BY <1>6 DEF WorkerPuts, At, Goto, Answered, ConversationTypes, tool, copying
  <2>2. peer' # d
    BY <2>1 DEF ToolInv, PeerInv, Halves
  <2>3. wire'[d] # <<>> /\ LastPart(d)' = part
    <3>1. part \in Parts
      BY PutsParts
    <3> HIDE DEF part
    <3> QED
      BY <2>1, <3>1, Appended DEF LastPart
  <2>4. part.half = half
    BY DEF Part
  <2> QED
    BY <2>1, <2>2, <2>3, <2>4 DEF Framed, Midway, ThreadMidway, Halves
<1>7. ASSUME NEW fd \in Fd, NEW half \in Halves, peer = d, ThreadPuts(fd, half)
      PROVE  Framed(d)'
  <2> DEFINE part == Part(fd, half, StreamFrame(fd))
  <2>1. /\ Put(d, part) /\ tpc[fd] = half /\ UNCHANGED <<pc, peer>>
        /\ half = "len" => tpc' = [tpc EXCEPT ![fd] = "body"] /\ UNCHANGED <<sent, taken>>
        /\ half # "len" => tpc' = [tpc EXCEPT ![fd] = "read"]
    BY <1>7 DEF ThreadPuts, Thread, EndOfChunk, Outside
  <2>2. pc[d] = "join"
    BY <1>7, <2>1 DEF ToolInv, PeerInv, Halves
  <2>3. wire'[d] # <<>> /\ LastPart(d)' = part
    <3>1. part \in Parts
      BY PutsParts
    <3> HIDE DEF part
    <3> QED
      BY <2>1, <3>1, Appended DEF LastPart
  <2>4. \A other \in Fd : tpc[other] = "body" => other = fd
    BY <2>1 DEF ToolInv, CopyInv, Halves
  <2>5. part.half = half
    BY DEF Part
  <2>6. CASE half = "len"
    <3>1. StreamFrame(fd)' = StreamFrame(fd)
      BY <2>1, <2>6 DEF StreamFrame
    <3>2. \A other \in Fd : tpc'[other] = "body" <=> other = fd
      BY <2>1, <2>4, <2>6 DEF ToolTypes
    <3> QED
      BY <1>7, <2>1, <2>2, <2>3, <2>5, <2>6, <3>1, <3>2 DEF Framed, Midway, ThreadMidway
  <2>7. CASE half # "len"
    <3>1. \A other \in Fd : tpc'[other] # "body"
      BY <2>1, <2>4, <2>7 DEF ToolTypes
    <3> QED
      BY <2>1, <2>2, <2>3, <2>5, <2>7, <3>1 DEF Framed, Midway, ThreadMidway
  <2> QED
    BY <2>6, <2>7
<1>8. ~Leaves(d)
  BY DEF Leaves, Leave, Closed, ConversationTypes
<1> QED
  BY <1>3, <1>4, <1>5, <1>6, <1>7, <1>8, WireMoves

(* Every step keeps sockets and their writers in agreement.                *)
LEMMA WireInductive ==
  ASSUME ConversationTypes, ToolTypes, WorkerInv, ToolInv, WireInv, FramesAreWhole, [Next]_vars
  PROVE  WireInv'
  BY RoomInductive, FramedInductive DEF WireInv

-----------------------------------------------------------------------------
(* The final frame. *)

(* A worker that writes its final answer does nothing else any more.       *)
LEMMA AnsweringStays ==
  ASSUME ConversationTypes, WorkerInv, [Next]_vars, NEW d \in Client, Answering(d)
  PROVE  Answering(d)'
<1> USE DEF ConversationTypes, Answering
<1>1. ASSUME NEW c \in Client, Connect(c) PROVE Answering(d)'
  BY <1>1 DEF Connect, ReportUnreachable, WorkerInv
<1>2. ASSUME NEW c \in Client, Accept(c) \/ Dispatch(c) \/ StoreShutdown(c)
      PROVE  Answering(d)'
  BY <1>2 DEF Accept, Dispatch, StoreShutdown, Goto, At
<1>3. ASSUME NEW c \in Client, Acquire(c) PROVE Answering(d)'
  BY <1>3 DEF Acquire, Busy, Goto, Prepare, At
<1>4. ASSUME NEW c \in Client, HandleStop(c) PROVE Answering(d)'
  BY <1>4 DEF HandleStop, Busy, Goto, Prepare, At
<1>5. ASSUME NEW c \in Client, CommandEnds(c) \/ JoinTool(c) PROVE Answering(d)'
  BY <1>5 DEF CommandEnds, JoinTool, Goto, Prepare, At
<1>6. ASSUME NEW c \in Client, SpawnTool(c) PROVE Answering(d)'
  BY <1>6 DEF SpawnTool, Goto, Prepare, At
<1>7. ASSUME NEW c \in Client, Release(c) PROVE Answering(d)'
  BY <1>7 DEF Release, Goto, At
<1>8. ASSUME NEW c \in Client, WriteAnswer(c) PROVE Answering(d)'
  BY <1>8 DEF WriteAnswer, Answered, Goto, At
<1>9. CASE UNCHANGED <<pc, out>>
  BY <1>9
<1>10. CASE End
  BY <1>10 DEF End
<1> QED
  BY <1>1, <1>2, <1>3, <1>4, <1>5, <1>6, <1>7, <1>8, <1>9, <1>10, LeavesAlike
  DEF Next, ReadSocket, Worker, ReadLength, ReadStream, Leaves, Leave, Outside, Drain, vars

(* A client keeps to its one request.                                      *)
LEMMA VerbStays ==
  ASSUME ConversationTypes, [Next]_vars, NEW d \in Client, ~Connect(d)
  PROVE  verb'[d] = verb[d]
<1>1. ASSUME NEW c \in Client, Connect(c) PROVE verb'[d] = verb[d]
  BY <1>1 DEF Connect, ConversationTypes
<1> QED
  BY <1>1, LeavesAlike
  DEF Next, ReadSocket, Worker, ReadLength, ReadStream, Leaves, Leave, Accept, Acquire,
      HandleStop, Dispatch, CommandEnds, SpawnTool, JoinTool, Release, WriteAnswer,
      StoreShutdown, Outside, Drain, End, vars, client

(* An exit or a result is in a socket only when its worker has given the   *)
(* slot back, and an exit only in the socket of a run.                     *)
LEMMA FinalInductive ==
  ASSUME ConversationTypes, ToolTypes, WorkerInv, ToolInv, WireInv, FinalInv, [Next]_vars
  PROVE  FinalInv'
<1> DEFINE Fits(c, part) == /\ part.frame.type \in {"exit", "result"} => Answering(c)
                            /\ part.frame.type = "exit" => verb[c] = "run"
<1> SUFFICES ASSUME NEW d \in Client, NEW j \in DOMAIN wire'[d]
             PROVE  Fits(d, wire[d][j])'
  BY DEF FinalInv
<1>1. \A i \in DOMAIN wire[d] : Fits(d, wire[d][i])
  BY DEF FinalInv
<1>3. ASSUME ~Connect(d), NEW i \in DOMAIN wire[d], wire'[d][j] = wire[d][i]
      PROVE  Fits(d, wire[d][j])'
  BY <1>1, <1>3, AnsweringStays, VerbStays
<1>4. CASE Connect(d)
  <2>1. wire'[d] = <<>>
    BY <1>4 DEF Connect, WireInv, Reading, ConversationTypes
  <2> QED
    BY <2>1
<1>5. CASE Untouched(d) /\ ~Connect(d)
  BY <1>3, <1>5 DEF Untouched
<1>6. CASE ReadLength(d) \/ ReadStream(d)
  <2>1. wire[d] # <<>> /\ wire' = [wire EXCEPT ![d] = Tail(@)] /\ ~Connect(d)
    BY <1>6 DEF ReadLength, ReadStream, Consume, Connect
  <2>2. /\ Len(wire[d]) \in Nat \ {0}
        /\ DOMAIN wire[d] = 1..Len(wire[d]) /\ DOMAIN wire'[d] = 1..(Len(wire[d]) - 1)
        /\ \A i \in 1..(Len(wire[d]) - 1) : wire'[d][i] = wire[d][i + 1]
    BY <2>1, Taken
  <2>3. j + 1 \in DOMAIN wire[d] /\ wire'[d][j] = wire[d][j + 1]
    BY <2>2
  <2> QED
    BY <1>3, <2>1, <2>3
<1>7. CASE Leaves(d)
  <2>1. wire'[d] = <<>>
    BY <1>7 DEF Leaves, Leave, ConversationTypes
  <2> QED
    BY <2>1
<1>8. ASSUME NEW part \in Parts, Put(d, part), ~Connect(d),
             part.frame.type \in {"exit", "result"} => Answering(d)',
             part.frame.type = "exit" => verb'[d] = "run"
      PROVE  Fits(d, wire[d][j])'
  <2>1. /\ Len(wire[d]) \in Nat
        /\ DOMAIN wire[d] = 1..Len(wire[d]) /\ DOMAIN wire'[d] = 1..(Len(wire[d]) + 1)
        /\ \A i \in 1..Len(wire[d]) : wire'[d][i] = wire[d][i]
        /\ wire'[d][Len(wire[d]) + 1] = part
    BY <1>8, Appended
  <2>2. CASE j \in DOMAIN wire[d]
    BY <1>3, <1>8, <2>1, <2>2
  <2>3. CASE j = Len(wire[d]) + 1
    BY <1>8, <2>1, <2>3
  <2> QED
    BY <2>1, <2>2, <2>3
<1>9. ASSUME NEW half \in Halves, WorkerPuts(d, half) PROVE Fits(d, wire[d][j])'
  <2> DEFINE part == Part("worker", half, out[d])
  <2>1. part.frame = out[d] /\ part \in Parts
    BY PutsParts DEF Part
  <2>2. Put(d, part) /\ pc[d] = half /\ UNCHANGED <<out, verb, cpc>>
    BY <1>9 DEF WorkerPuts, At, client
  <2>3. ~Connect(d)
    BY <2>2 DEF Connect, ReportUnreachable, ConversationTypes
  <2>4. out[d].type \in {"exit", "result"} => Answering(d)'
    BY <1>9, <2>2 DEF WorkerPuts, Answering, Answered, Goto, ConversationTypes
  <2>5. out[d].type = "exit" => verb'[d] = "run"
    BY <2>2 DEF WorkerInv
  <2> HIDE DEF part
  <2> QED
    BY <1>8, <2>1, <2>2, <2>3, <2>4, <2>5
<1>10. ASSUME NEW fd \in Fd, NEW half \in Halves, peer = d, ThreadPuts(fd, half)
       PROVE  Fits(d, wire[d][j])'
  <2> DEFINE part == Part(fd, half, StreamFrame(fd))
  <2>1. part.frame.type = "stream" /\ part \in Parts
    BY PutsParts DEF Part, StreamFrame
  <2>2. Put(d, part) /\ cpc' = cpc
    BY <1>10 DEF ThreadPuts, Outside
  <2>3. ~Connect(d)
    BY <2>2 DEF Connect, ReportUnreachable, ConversationTypes
  <2> HIDE DEF part
  <2> QED
    BY <1>8, <2>1, <2>2, <2>3
<1> QED
  BY <1>4, <1>5, <1>6, <1>7, <1>9, <1>10, WireMoves

-----------------------------------------------------------------------------
(* The output. *)

(* A half of a frame never takes back what a client has been sent.         *)
LEMMA AfterGrows ==
  ASSUME NEW reached \in [Fd -> Nat], NEW part \in Parts
  PROVE  /\ After(reached, part) \in [Fd -> Nat]
         /\ \A fd \in Fd : reached[fd] <= After(reached, part)[fd]
         /\ ~(part.half = "body" /\ part.frame.type = "stream") => After(reached, part) = reached
<1>1. part.frame.type = "stream" => Len(part.frame.text) \in Nat
  BY PartFields, FrameKinds, LenProperties
<1> QED
  BY <1>1 DEF After

(* The account of a client whose socket gets one part more.                *)
LEMMA AccountAppend ==
  ASSUME ConversationTypes, NEW c \in Client, NEW o \in Offsets(c), Accounts(c, o),
         NEW part \in Parts, Put(c, part), shown'[c] = shown[c],
         InPlace(o[Len(wire[c]) + 1], part),
         NEW last, last = After(o[Len(wire[c]) + 1], part), Balanced(c, last)'
  PROVE  \E p \in Offsets(c)' : Accounts(c, p)'
<1>n. PICK n : n = Len(wire[c])
  OBVIOUS
<1>p. PICK p : p = [i \in 1..(n + 2) |-> IF i = n + 2 THEN last ELSE o[i]]
  OBVIOUS
<1>1. /\ n \in Nat /\ Len(wire'[c]) = n + 1
      /\ \A i \in 1..n : wire'[c][i] = wire[c][i]
      /\ wire'[c][n + 1] = part
  BY <1>n, Appended
<1>2. o \in [1..(n + 1) -> [Fd -> Nat]]
  BY <1>n DEF Offsets
<1>3. /\ \A fd \in Fd : o[1][fd] = Len(shown[c][fd])
      /\ \A i \in 1..n : /\ o[i + 1] = After(o[i], wire[c][i])
                         /\ \A fd \in Fd : o[i][fd] <= o[n + 1][fd]
                         /\ InPlace(o[i], wire[c][i])
  BY <1>n DEF Accounts
<1>4. n + 1 \in 1..(n + 1) /\ o[n + 1] \in [Fd -> Nat]
  BY <1>1, <1>2
<1>5. /\ last \in [Fd -> Nat] /\ \A fd \in Fd : o[n + 1][fd] <= last[fd]
      /\ last = After(o[n + 1], part) /\ InPlace(o[n + 1], part)
  BY <1>n, <1>4, AfterGrows
<1>6. p \in [1..(n + 2) -> [Fd -> Nat]] /\ p[n + 2] = last /\ \A i \in 1..(n + 1) : p[i] = o[i]
  BY <1>1, <1>2, <1>5, <1>p
<1>7. p \in Offsets(c)'
  <2>1. Len(wire'[c]) + 1 = n + 2
    BY <1>1
  <2> QED
    BY <1>6, <2>1 DEF Offsets
<1>8. \A fd \in Fd : p[1][fd] = Len(shown'[c][fd])
  <2>1. 1 \in 1..(n + 1)
    BY <1>1
  <2>2. p[1] = o[1]
    BY ONLY <1>6, <2>1
  <2> QED
    BY <1>3, <2>2
<1>9. ASSUME NEW i \in 1..(n + 1)
      PROVE  /\ p[i + 1] = After(p[i], wire'[c][i])
             /\ \A fd \in Fd : p[i][fd] <= p[n + 2][fd]
             /\ InPlace(p[i], wire'[c][i])
  <2>1. CASE i \in 1..n
    <3>1. i \in 1..(n + 1) /\ i + 1 \in 1..(n + 1)
      BY <1>1, <2>1
    <3>2. p[i] = o[i] /\ p[i + 1] = o[i + 1] /\ wire'[c][i] = wire[c][i]
      BY <1>1, <1>6, <2>1, <3>1
    <3>3. o[i] \in [Fd -> Nat]
      BY <1>2
    <3>4. \A fd \in Fd : p[i][fd] <= p[n + 2][fd]
      BY <1>3, <1>4, <1>5, <1>6, <2>1, <3>2, <3>3
    <3> QED
      BY <1>3, <2>1, <3>2, <3>4
  <2>2. CASE i = n + 1
    <3>1. p[i] = o[n + 1] /\ p[i + 1] = last /\ wire'[c][i] = part /\ p[n + 2] = last
      BY <1>1, <1>6, <2>2
    <3> QED
      BY <1>5, <3>1
  <2> QED
    BY <1>1, <2>1, <2>2
<1>10. Accounts(c, p)'
  <2>1. p[Len(wire'[c]) + 1] = last
    BY <1>1, <1>6
  <2>2. p[Len(wire'[c]) + 1] = p[n + 2]
    BY <1>6, <2>1
  <2>3. \A i \in 1..Len(wire'[c]) :
          /\ p[i + 1] = After(p[i], wire'[c][i])
          /\ \A fd \in Fd : p[i][fd] <= p[Len(wire'[c]) + 1][fd]
          /\ InPlace(p[i], wire'[c][i])
    BY <1>1, <1>9, <2>2
  <2> QED
    BY <1>8, <2>1, <2>3 DEF Accounts
<1> QED
  BY <1>7, <1>10

(* The account of a client that has taken a part, and printed its text.    *)
LEMMA AccountTail ==
  ASSUME ConversationTypes, NEW c \in Client, NEW o \in Offsets(c), Accounts(c, o),
         wire[c] # <<>>, wire' = [wire EXCEPT ![c] = Tail(@)],
         \A fd \in Fd : Len(shown'[c][fd]) = After(o[1], wire[c][1])[fd],
         UNCHANGED <<pc, out, sent, peer>>
  PROVE  \E p \in Offsets(c)' : Accounts(c, p)'
<1>n. PICK n : n = Len(wire[c])
  OBVIOUS
<1>p. PICK p : p = [i \in 1..n |-> o[i + 1]]
  OBVIOUS
<1>1. /\ n \in Nat \ {0} /\ Len(wire'[c]) = n - 1
      /\ \A i \in 1..(n - 1) : wire'[c][i] = wire[c][i + 1]
  BY <1>n, Taken
<1>2. o \in [1..(n + 1) -> [Fd -> Nat]]
  BY <1>n DEF Offsets
<1>3. /\ \A i \in 1..n : /\ o[i + 1] = After(o[i], wire[c][i])
                         /\ \A fd \in Fd : o[i][fd] <= o[n + 1][fd]
                         /\ InPlace(o[i], wire[c][i])
      /\ Balanced(c, o[n + 1])
  BY <1>n DEF Accounts
<1>4. p \in [1..n -> [Fd -> Nat]] /\ \A i \in 1..n : p[i] = o[i + 1]
  <2>1. \A i \in 1..n : i + 1 \in 1..(n + 1)
    BY <1>1
  <2> QED
    BY <1>2, <1>p, <2>1
<1>5. p \in Offsets(c)'
  <2>1. Len(wire'[c]) + 1 = n
    BY <1>1
  <2> QED
    BY <1>4, <2>1 DEF Offsets
<1>6. \A fd \in Fd : p[1][fd] = Len(shown'[c][fd])
  <2>1. 1 \in 1..n
    BY <1>1
  <2>2. p[1] = o[1 + 1]
    BY <1>4, <2>1
  <2>3. o[1 + 1] = After(o[1], wire[c][1])
    BY <1>3, <2>1
  <2> QED
    BY <2>2, <2>3
<1>7. ASSUME NEW i \in 1..(n - 1)
      PROVE  /\ p[i + 1] = After(p[i], wire'[c][i])
             /\ \A fd \in Fd : p[i][fd] <= p[n][fd]
             /\ InPlace(p[i], wire'[c][i])
  <2>1. i \in 1..n /\ i + 1 \in 1..n /\ n \in 1..n
    BY <1>1
  <2>2. /\ p[i] = o[i + 1] /\ p[i + 1] = o[(i + 1) + 1] /\ p[n] = o[n + 1]
        /\ wire'[c][i] = wire[c][i + 1]
    BY <1>1, <1>4, <2>1
  <2> QED
    BY <1>3, <2>1, <2>2
<1>8. p[Len(wire'[c]) + 1] = o[n + 1] /\ p[Len(wire'[c]) + 1] = p[n]
  BY <1>1, <1>4
<1>9. Balanced(c, o[n + 1])'
  BY <1>3 DEF Balanced
<1>10. Accounts(c, p)'
  <2>1. \A i \in 1..Len(wire'[c]) :
          /\ p[i + 1] = After(p[i], wire'[c][i])
          /\ \A fd \in Fd : p[i][fd] <= p[Len(wire'[c]) + 1][fd]
          /\ InPlace(p[i], wire'[c][i])
    BY <1>1, <1>7, <1>8
  <2> QED
    BY <1>6, <1>8, <1>9, <2>1 DEF Accounts
<1> QED
  BY <1>5, <1>10

(* A step that puts nothing leaves the account as it is.                   *)
LEMMA BalanceStays ==
  ASSUME ConversationTypes, ToolTypes, WorkerInv, ToolInv, [Next]_vars,
         NEW d \in Client, ~Closed(d)', NEW last, Balanced(d, last),
         peer = d => \A fd \in Fd : \A half \in Halves : ~ThreadPuts(fd, half)
  PROVE  Balanced(d, last)'
<1>1. ASSUME peer' = d PROVE last = sent'
  <2>1. CASE UNCHANGED copying
    BY <1>1, <2>1 DEF Balanced, copying
  <2>2. ASSUME NEW c \in Client, At(c, "spawn"), Spawn(c) PROVE last = sent'
    BY <1>1, <2>2 DEF Balanced, At, Spawn, Anew, NotStarted
  <2>3. ~ForgetTool
    BY <1>1, NoneIsNoClient DEF ForgetTool, Anew
  <2>4. ASSUME NEW f \in Fd, PipeThread(f), Outside PROVE last = sent'
    <3>1. peer = d
      BY <1>1, <2>4
      DEF PipeThread, ReadPipe, LockSocket, WriteLength, WriteBody, WriteFails
    <3>2. ~Closed(d)
      BY ClosedStays
    <3>3. ~WriteBody(f)
      BY <2>4, <3>1 DEF PipeThread, WriteBody, ThreadPuts, Halves
    <3>4. ~WriteFails(f) /\ ws # "gone"
      BY <3>1, <3>2 DEF WriteFails, ToolInv, PeerInv
    <3>5. sent' = sent
      BY <2>4, <3>3, <3>4 DEF PipeThread, ReadPipe, LockSocket, WriteLength
    <3> QED
      BY <3>1, <3>5 DEF Balanced
  <2>5. CASE (Tool \/ ToolEnds) /\ Outside
    BY <2>1, <2>5 DEF Tool, ToolEnds, ToolForks, ToolWrites, HolderExits
  <2> QED
    BY <2>1, <2>2, <2>3, <2>4, <2>5, ToolMoves DEF tool
<1>2. ASSUME pc'[d] \in NotStarted PROVE pc[d] \in NotStarted
  <2>1. CASE Aside(d) \/ pc'[d] = pc[d]
    BY <1>2, <2>1 DEF Aside
  <2>2. CASE SpawnTool(d) \/ JoinTool(d)
    BY <1>2, <2>2 DEF SpawnTool, JoinTool, Goto, NotStarted, ConversationTypes
  <2>3. CASE Release(d)
    BY <1>2, <2>3 DEF Release, Goto, NotStarted, ConversationTypes
  <2>4. CASE End
    BY <1>2, <2>4 DEF End, NotStarted
  <2> QED
    BY <2>1, <2>2, <2>3, <2>4, PcMoves
<1>3. ASSUME pc'[d] \in {"release", "len", "body"}, out'[d].type = "exit"
      PROVE  last = out'[d].total
  <2>1. CASE pc[d] \in {"release", "len", "body"} /\ out'[d] = out[d]
    BY <1>3, <2>1 DEF Balanced
  <2>2. CASE JoinTool(d)
    <3>1. pc[d] = "join" /\ out'[d].total = wrote /\ \A fd \in Fd : tpc[fd] = "done"
      BY <2>2 DEF JoinTool, Joined, At, Prepare, ConversationTypes
    <3>2. peer = d /\ \A fd \in Fd : sent[fd] = taken[fd] /\ taken[fd] = wrote[fd]
      BY <3>1 DEF ToolInv, PeerInv, JoinInv, CopyInv
    <3>3. sent = wrote
      BY <3>2 DEF ToolTypes
    <3> QED
      BY <3>1, <3>2, <3>3 DEF Balanced
  <2>3. CASE Aside(d)
    BY <1>3, <2>1, <2>3 DEF Aside
  <2>4. CASE SpawnTool(d)
    BY <1>3, <2>4 DEF SpawnTool, Goto, Prepare, ConversationTypes
  <2>5. CASE Release(d)
    BY <1>3, <2>1, <2>5 DEF Release, At
  <2>6. CASE End
    BY <1>3, <2>6 DEF End, Nothing
  <2>7. CASE pc'[d] = pc[d] /\ out'[d] = out[d]
    BY <1>3, <2>1, <2>7
  <2> QED
    BY <2>2, <2>3, <2>4, <2>5, <2>6, <2>7, PcMoves
<1>4. ASSUME pc[d] \in NotStarted PROVE last = NoBytes
  BY <1>4 DEF Balanced
<1>5. NoBytes' = NoBytes
  BY DEF NoBytes
<1> QED
  BY <1>1, <1>2, <1>3, <1>4, <1>5 DEF Balanced

(* Every step keeps the offsets of the frames in a socket.                 *)
LEMMA OffsetsInductive ==
  ASSUME ConversationTypes, ToolTypes, TalkInv, OffsetsInv, [Next]_vars
  PROVE  OffsetsInv'
<1> SUFFICES ASSUME NEW d \in Client, ~Closed(d)'
             PROVE  \E p \in Offsets(d)' : Accounts(d, p)'
  BY DEF OffsetsInv
<1> USE DEF TalkInv
<1>1. PICK o \in Offsets(d) : Accounts(d, o)
  BY ClosedStays DEF OffsetsInv
<1>n. PICK n : n = Len(wire[d])
  OBVIOUS
<1>2. n \in Nat /\ o \in [1..(n + 1) -> [Fd -> Nat]] /\ o[n + 1] \in [Fd -> Nat] /\ Balanced(d, o[n + 1])
  <2>1. n \in Nat /\ o \in [1..(n + 1) -> [Fd -> Nat]]
    BY <1>n, LenProperties DEF Offsets, ConversationTypes
  <2> QED
    BY <1>n, <1>1, <2>1 DEF Accounts
<1>3. CASE wire'[d] = wire[d] /\ shown'[d] = shown[d]
  <2>1. peer = d => \A fd \in Fd : \A half \in Halves : ~ThreadPuts(fd, half)
    BY <1>3, PutChanges, PutsParts DEF ThreadPuts
  <2>2. Balanced(d, o[n + 1])'
    <3>1. PICK last : last = o[n + 1]
      OBVIOUS
    <3> QED
      BY <1>2, <2>1, <3>1, BalanceStays
  <2>3. Accounts(d, o)'
    BY <1>n, <1>1, <1>3, <2>2 DEF Accounts
  <2>4. o \in Offsets(d)'
    BY <1>1, <1>3 DEF Offsets
  <2> QED
    BY <2>3, <2>4
<1>4. CASE ReadLength(d) \/ ReadStream(d)
  <2>1. /\ wire[d] # <<>> /\ wire' = [wire EXCEPT ![d] = Tail(@)]
        /\ Reading(d) /\ UNCHANGED <<pc, out, sent, peer>>
    BY <1>4 DEF ReadLength, ReadStream, Consume, Reading, tool, copying
  <2>2. n \in Nat \ {0} /\ Head(wire[d]) = wire[d][1] /\ wire[d][1] \in Parts
    <3>1. n \in Nat \ {0} /\ Head(wire[d]) = wire[d][1] /\ \A i \in 1..n : wire[d][i] \in Parts
      BY <1>n, <2>1, Taken
    <3> QED
      BY <3>1
  <2>3. wire[d][1].half = cpc[d]
    <3>1. 1 \in DOMAIN wire[d]
      BY <1>n, <2>1, <2>2, Taken
    <3> QED
      BY <2>1, <3>1 DEF FramesAreWhole
  <2>4. o[1] \in [Fd -> Nat] /\ \A fd \in Fd : o[1][fd] = Len(shown[d][fd])
    BY <1>1, <1>2 DEF Accounts
  <2>5. CASE ReadLength(d)
    <3>1. wire[d][1].half = "len" /\ shown' = shown
      BY <2>3, <2>5 DEF ReadLength, Consume, client
    <3>2. After(o[1], wire[d][1]) = o[1]
      BY <2>2, <2>4, <3>1, AfterGrows
    <3> QED
      BY <1>1, <2>1, <2>4, <3>1, <3>2, AccountTail
  <2>6. CASE ReadStream(d)
    <3>f. PICK frame : frame = wire[d][1].frame
      OBVIOUS
    <3>1. /\ wire[d][1].half = "body" /\ frame.type = "stream"
          /\ shown' = [shown EXCEPT ![d][frame.fd] = @ \o frame.text]
      BY <2>2, <2>3, <2>6, <3>f DEF ReadStream, Consume
    <3>2. frame.fd \in Fd /\ frame.text \in Seq(Nat)
      BY <2>2, <3>1, <3>f, PartFields, FrameKinds
    <3>3. \A fd \in Fd : shown'[d][fd] = IF fd = frame.fd THEN shown[d][fd] \o frame.text
                                         ELSE shown[d][fd]
      BY <3>1, <3>2 DEF ConversationTypes
    <3>4. \A fd \in Fd : Len(shown[d][fd] \o frame.text) = Len(shown[d][fd]) + Len(frame.text)
      BY <3>2, ConcatProperties DEF ConversationTypes
    <3>5. \A fd \in Fd : Len(shown'[d][fd]) = After(o[1], wire[d][1])[fd]
      <4>1. PICK part : part = wire[d][1]
        OBVIOUS
      <4>2. After(o[1], part) = [fd \in Fd |-> IF frame.fd = fd
                                  THEN o[1][fd] + Len(frame.text) ELSE o[1][fd]]
        BY <3>1, <3>f, <4>1 DEF After
      <4>3. ASSUME NEW fd \in Fd PROVE Len(shown'[d][fd]) = After(o[1], part)[fd]
        <5>1. CASE fd = frame.fd
          <6>1. shown'[d][fd] = shown[d][fd] \o frame.text
            BY ONLY <3>3, <5>1
          <6>2. After(o[1], part)[fd] = o[1][fd] + Len(frame.text)
            BY ONLY <4>2, <5>1
          <6> QED
            BY ONLY <2>4, <3>4, <6>1, <6>2
        <5>2. CASE fd # frame.fd
          BY <2>4, <3>3, <4>2, <5>2
        <5> QED
          BY <5>1, <5>2
      <4> QED
        BY <4>1, <4>3
    <3> QED
      BY <1>1, <2>1, <3>5, AccountTail
  <2> QED
    BY <1>4, <2>5, <2>6
<1>5. ASSUME NEW half \in Halves, WorkerPuts(d, half)
      PROVE  \E p \in Offsets(d)' : Accounts(d, p)'
  <2>p. PICK part : part = Part("worker", half, out[d])
    OBVIOUS
  <2>1. part \in Parts /\ part.frame = out[d]
    BY <2>p, PutsParts DEF Part
  <2>2. /\ Put(d, part) /\ pc[d] = half /\ UNCHANGED <<shown, out, peer, sent>>
        /\ pc'[d] \notin NotStarted
    BY <1>5, <2>p
    DEF WorkerPuts, At, Answered, Goto, NotStarted, ConversationTypes, client, tool, copying
  <2>3. out[d].type # "stream" /\ peer # d
    BY <2>2 DEF WorkerInv, ToolInv, PeerInv, Halves
  <2>4. After(o[n + 1], part) = o[n + 1]
    BY <1>2, <2>1, <2>3, AfterGrows
  <2>5. InPlace(o[n + 1], part)
    BY <1>2, <2>1, <2>2, <2>3 DEF InPlace, Balanced, Halves
  <2>6. PICK last : last = o[n + 1]
    OBVIOUS
  <2>7. Balanced(d, last)'
    BY <1>2, <2>2, <2>3, <2>6 DEF Balanced, Halves
  <2> QED
    BY <1>n, <1>1, <2>1, <2>2, <2>4, <2>5, <2>6, <2>7, AccountAppend
<1>6. ASSUME NEW fd \in Fd, NEW half \in Halves, peer = d, ThreadPuts(fd, half)
      PROVE  \E p \in Offsets(d)' : Accounts(d, p)'
  <2>p. PICK part : part = Part(fd, half, StreamFrame(fd))
    OBVIOUS
  <2>1. /\ part \in Parts /\ part.half = half /\ part.frame.type = "stream"
        /\ part.frame.fd = fd /\ Len(part.frame.text) = taken[fd] - sent[fd]
        /\ \A k \in 1..Len(part.frame.text) : part.frame.text[k] \in {sent[fd] + k, 0}
    BY <2>p, PutsParts, StreamFrameIsFrame DEF Part, ToolInv, CopyInv
  <2>2. /\ Put(d, part) /\ tpc[fd] = half /\ UNCHANGED <<shown, pc, out, peer>>
        /\ half = "len" => sent' = sent
        /\ half # "len" => sent' = [sent EXCEPT ![fd] = taken[fd]]
    BY <1>6, <2>p DEF ThreadPuts, Thread, EndOfChunk, Outside, client
  <2>3. pc[d] = "join" /\ o[n + 1] = sent
    BY <1>2, <1>6, <2>2 DEF ToolInv, PeerInv, Balanced, Halves
  <2>4. InPlace(o[n + 1], part)
    BY <2>1, <2>3 DEF InPlace
  <2>5. PICK last : last = After(o[n + 1], part)
    OBVIOUS
  <2>6. last = sent'
    <3>1. CASE half = "len"
      BY <1>2, <2>1, <2>2, <2>3, <2>5, <3>1, AfterGrows
    <3>2. CASE half # "len"
      <4>1. half = "body"
        BY <3>2 DEF Halves
      <4>2. \A f \in Fd : sent[f] \in Nat /\ taken[f] \in Nat
        BY DEF ToolTypes
      <4>3. last = [f \in Fd |-> IF f = fd THEN sent[f] + (taken[f] - sent[f]) ELSE sent[f]]
        BY <2>1, <2>3, <2>5, <4>1 DEF After
      <4>4. last = [f \in Fd |-> IF f = fd THEN taken[f] ELSE sent[f]]
        BY <4>2, <4>3
      <4> QED
        BY <2>2, <3>2, <4>4 DEF ToolTypes
    <3> QED
      BY <3>1, <3>2
  <2>7. Balanced(d, last)'
    BY <2>2, <2>3, <2>6 DEF Balanced, NotStarted
  <2> QED
    BY <1>n, <1>1, <2>1, <2>2, <2>4, <2>5, <2>7, AccountAppend
<1>7. CASE Connect(d)
  BY <1>3, <1>7 DEF Connect
<1>8. CASE Untouched(d)
  BY <1>3, <1>8 DEF Untouched
<1>9. ~Leaves(d)
  BY DEF Leaves, Leave, Closed, ConversationTypes
<1> QED
  BY <1>4, <1>5, <1>6, <1>7, <1>8, <1>9, WireMoves

(* What is printed is in its place, because what is taken was in its.      *)
LEMMA ShownInductive ==
  ASSUME ConversationTypes, ToolTypes, TalkInv, OrderInv, [Next]_vars
  PROVE  ShownInv'
<1> SUFFICES ASSUME NEW d \in Client, NEW fd \in Fd, NEW i \in DOMAIN shown'[d][fd]
             PROVE  shown'[d][fd][i] \in {i, 0}
  BY DEF ShownInv
<1> USE DEF TalkInv, OrderInv
<1>1. \A k \in DOMAIN shown[d][fd] : shown[d][fd][k] \in {k, 0}
  BY DEF ShownInv
<1>2. CASE shown'[d] = shown[d]
  BY <1>1, <1>2
<1>3. CASE ReadStream(d)
  <2>1. wire[d] # <<>> /\ cpc[d] = "body" /\ ~Closed(d)
    BY <1>3 DEF ReadStream, Consume, Closed
  <2>2. PICK o \in Offsets(d) : Accounts(d, o)
    BY <2>1 DEF OffsetsInv
  <2>3. 1 \in 1..Len(wire[d]) /\ Head(wire[d]) = wire[d][1] /\ wire[d][1] \in Parts
        /\ 1 \in DOMAIN wire[d]
    <3>1. /\ Len(wire[d]) \in Nat \ {0} /\ Head(wire[d]) = wire[d][1]
          /\ DOMAIN wire[d] = 1..Len(wire[d])
          /\ \A k \in 1..Len(wire[d]) : wire[d][k] \in Parts
      BY <1>3, <2>1, Taken DEF ReadStream
    <3> QED
      BY <3>1
  <2>f. PICK frame : frame = wire[d][1].frame
    OBVIOUS
  <2>4. /\ wire[d][1].half = "body" /\ frame.type = "stream"
        /\ shown' = [shown EXCEPT ![d][frame.fd] = @ \o frame.text]
    BY <1>3, <2>1, <2>3, <2>f DEF ReadStream, FramesAreWhole, Reading
  <2>5. frame.fd \in Fd /\ frame.text \in Seq(Nat)
    BY <2>3, <2>4, <2>f, PartFields, FrameKinds
  <2>6. CASE fd # frame.fd
    BY <1>1, <2>4, <2>5, <2>6 DEF ConversationTypes
  <2>7. CASE fd = frame.fd
    <3>s. PICK s : s = shown[d][fd]
      OBVIOUS
    <3>1. s \in Seq(Nat) /\ shown'[d][fd] = s \o frame.text
      BY <2>4, <2>5, <2>7, <3>s DEF ConversationTypes
    <3>2. o[1][fd] = Len(s) /\ \A k \in 1..Len(frame.text) : frame.text[k] \in {Len(s) + k, 0}
      BY <2>2, <2>3, <2>4, <2>7, <2>f, <3>s DEF Accounts, InPlace
    <3>3. /\ DOMAIN (s \o frame.text) = 1..(Len(s) + Len(frame.text))
          /\ \A k \in 1..(Len(s) + Len(frame.text)) :
               (s \o frame.text)[k] = IF k <= Len(s) THEN s[k] ELSE frame.text[k - Len(s)]
          /\ Len(s) \in Nat /\ Len(frame.text) \in Nat /\ DOMAIN s = 1..Len(s)
      BY <2>5, <3>1, ConcatProperties, LenProperties
    <3>4. CASE i <= Len(s)
      BY <1>1, <3>1, <3>3, <3>4, <3>s
    <3>5. CASE i > Len(s)
      <4>1. i - Len(s) \in 1..Len(frame.text) /\ Len(s) + (i - Len(s)) = i
        BY <3>1, <3>3, <3>5
      <4> QED
        BY <3>1, <3>2, <3>3, <3>5, <4>1
    <3> QED
      BY <3>1, <3>3, <3>4, <3>5
  <2> QED
    BY <2>6, <2>7
<1>4. CASE Leaves(d)
  <2>1. shown'[d][fd] = <<>>
    BY <1>4 DEF Leaves, Leave, NothingShown, ConversationTypes
  <2> QED
    BY <2>1
<1>5. shown'[d] = shown[d] \/ ReadStream(d) \/ Leaves(d)
  BY WireMoves
  DEF Untouched, Connect, ReadLength, WorkerPuts, ThreadPuts, Outside, client
<1> QED
  BY <1>2, <1>3, <1>4, <1>5

-----------------------------------------------------------------------------
(* The invariant and what follows from it. *)

(* The invariant holds before anybody connects.                            *)
LEMMA ConversationInitial == Init => ConversationInv
<1> SUFFICES ASSUME Init PROVE ConversationInv
  OBVIOUS
<1> USE NoneIsNoClient DEF Init, NoTool, NoBytes, Nothing
<1>1. ConversationTypes
  <2>1. <<>> \in Seq(Parts)
    BY EmptySeq
  <2> QED
    BY <2>1, NothingShownType, FramesMade DEF ConversationTypes, WorkerLabels, Codes
<1>2. ToolTypes
  BY DEF ToolTypes
<1>3. WorkerInv
  BY DEF WorkerInv, Owns, OwnsSlot, TooLarge, Halves
<1>4. ToolInv
  BY FdNames DEF ToolInv, CopyInv, PeerInv, JoinInv, Halves
<1>5. WireInv
  <2>1. Len(<<>>) <= Room
    BY Sizes
  <2> QED
    BY <2>1 DEF WireInv, Framed, Midway, ThreadMidway, Reading
<1>6. FinalInv /\ FramesAreWhole
  BY DEF FinalInv, FramesAreWhole
<1>7. OffsetsInv
  <2> SUFFICES ASSUME NEW d \in Client PROVE \E o \in Offsets(d) : Accounts(d, o)
    BY DEF OffsetsInv
  <2>1. Len(wire[d]) = 0
    OBVIOUS
  <2>p. PICK o : o = [i \in 1..1 |-> NoBytes]
    OBVIOUS
  <2>2. o \in Offsets(d) /\ o[1] = NoBytes
    BY <2>1, <2>p DEF Offsets
  <2>3. \A fd \in Fd : Len(shown[d][fd]) = 0
    BY DEF NothingShown
  <2>4. o[Len(wire[d]) + 1] = NoBytes
    BY <2>1, <2>2
  <2>5. Balanced(d, NoBytes)
    BY DEF Balanced
  <2>6. Accounts(d, o)
    <3>1. \A i \in 1..Len(wire[d]) : FALSE
      BY <2>1
    <3>2. \A fd \in Fd : o[1][fd] = Len(shown[d][fd])
      BY <2>2, <2>3
    <3> QED
      BY <2>4, <2>5, <3>1, <3>2 DEF Accounts
  <2> QED
    BY <2>2, <2>6
<1>8. ShownInv
  BY DEF ShownInv, NothingShown
<1> QED
  BY <1>1, <1>2, <1>3, <1>4, <1>5, <1>6, <1>7, <1>8
  DEF ConversationInv, TalkInv, OrderInv

(* Every step keeps the invariant.                                         *)
LEMMA ConversationInductive == ConversationInv /\ [Next]_vars => ConversationInv'
<1> SUFFICES ASSUME ConversationInv, [Next]_vars PROVE ConversationInv'
  OBVIOUS
<1> USE DEF ConversationInv, TalkInv, OrderInv
<1>1. ConversationTypes' /\ ToolTypes'
  BY TypesInductive
<1>2. WorkerInv' /\ ToolInv'
  BY WorkerInductive, ToolInductive
<1>3. WireInv' /\ FinalInv' /\ FramesAreWhole'
  BY WireInductive, FinalInductive, FramesInductive
<1>4. OffsetsInv' /\ ShownInv'
  BY OffsetsInductive, ShownInductive
<1> QED
  BY <1>1, <1>2, <1>3, <1>4

(* In every conversation of any number of clients with the daemon, slot,   *)
(* lock, threads, socket and output agree as ConversationInv says.         *)
THEOREM ConversationHolds == Spec => []ConversationInv
  BY ConversationInitial, ConversationInductive, PTL DEF Spec

(* The types; and slot and lock name the worker that is between taking and *)
(* giving back, whichever clients leave and however their requests end.    *)
THEOREM TypesHold == Spec => []TypeOK
<1>1. ConversationInv => TypeOK
  BY DEF ConversationInv, ConversationTypes, ToolTypes, TalkInv, WorkerInv, ToolInv, CopyInv,
         WireInv, TypeOK, Owns, Codes
<1> QED
  BY <1>1, ConversationHolds, PTL

(* A socket holds the halves of whole frames in turn, although a worker    *)
(* and two pipe threads write to it, and its reader never takes a body for *)
(* a length.                                                               *)
THEOREM FramesAreWholeHolds == Spec => []FramesAreWhole
<1>1. ConversationInv => FramesAreWhole
  BY DEF ConversationInv, TalkInv
<1> QED
  BY <1>1, ConversationHolds, PTL

(* What was read is logged, unless a write to the log fails.               *)
LogInv == \A fd \in Fd : logged[fd] = 1..taken[fd]

LEMMA LogInductive ==
  ASSUME ~LogMayFail, ToolTypes, LogInv, [Next]_vars
  PROVE  LogInv'
<1> USE DEF ToolTypes, LogInv
<1>1. CASE UNCHANGED tool
  BY <1>1 DEF tool, copying
<1>2. ASSUME NEW who, NEW threads, NEW c, Anew(who, threads, c) PROVE LogInv'
  BY <1>2 DEF Anew, NoBytes
<1>3. CASE Tool \/ ToolEnds
  BY <1>3 DEF Tool, ToolEnds, ToolForks, ToolWrites, HolderExits, copying
<1>4. ASSUME NEW fd \in Fd, PipeThread(fd) PROVE LogInv'
  <2>1. CASE ReadPipe(fd)
    <3>1. CASE UNCHANGED <<taken, logged>>
      BY <3>1
    <3>2. ASSUME NEW last \in (taken[fd] + 1)..wrote[fd],
                 taken' = [taken EXCEPT ![fd] = last],
                 LogChunk(fd, last)
          PROVE  LogInv'
      <4>1. taken[fd] \in Nat /\ wrote[fd] \in Nat /\ last \in Nat /\ last > taken[fd]
        OBVIOUS
      <4>2. logged' = [logged EXCEPT ![fd] = @ \union (taken[fd] + 1)..last]
        BY <3>2 DEF LogChunk
      <4>3. (1..taken[fd]) \union ((taken[fd] + 1)..last) = 1..last
        BY <4>1
      <4>4. logged'[fd] = 1..taken'[fd]
        BY <3>2, <4>2, <4>3
      <4>5. ASSUME NEW other \in Fd, other # fd
            PROVE  logged'[other] = 1..taken'[other]
        BY <3>2, <4>2, <4>5
      <4> QED
        BY <4>4, <4>5
    <3> QED
      BY <2>1, <3>1, <3>2 DEF ReadPipe
  <2>2. CASE ~ReadPipe(fd)
    <3>1. UNCHANGED <<taken, logged>>
      BY <1>4, <2>2 DEF PipeThread, LockSocket, WriteLength, WriteBody, WriteFails
    <3> QED
      BY <3>1
  <2> QED
    BY <2>1, <2>2
<1> QED
  BY <1>1, <1>2, <1>3, <1>4, ToolMoves DEF Spawn, ForgetTool

(* When the slot of a tool is given back, everything that was written to   *)
(* its pipes is in the raw log and nobody has them open, whatever clients  *)
(* do and as long as writes to the log succeed.                            *)
THEOREM LogIsCompleteHolds == ~LogMayFail => (Spec => []LogIsComplete)
<1> SUFFICES ASSUME ~LogMayFail PROVE Spec => []LogIsComplete
  OBVIOUS
<1>1. Init => LogInv
  BY DEF Init, NoTool, NoBytes, LogInv
<1>2. ConversationInv /\ LogInv /\ [Next]_vars => LogInv'
  BY LogInductive DEF ConversationInv
<1>3. ConversationInv /\ LogInv => LogIsComplete
  BY DEF ConversationInv, TalkInv, ToolInv, JoinInv, LogInv, LogIsComplete
<1> QED
  BY <1>1, <1>2, <1>3, ConversationHolds, PTL DEF Spec

(* What a client prints of a pipe is a prefix of what was written to it,   *)
(* in order, with nothing repeated or left out; and its thread has read it *)
(* before.                                                                 *)
THEOREM StdioInOrderHolds == Spec => []StdioInOrder
<1>1. ASSUME ConversationInv, NEW c \in Client, NEW fd \in Fd, NEW i \in DOMAIN shown[c][fd]
      PROVE  shown[c][fd][i] \in {i, 0} /\ (i <= taken[fd] \/ peer # c)
  <2> USE <1>1 DEF ConversationInv, TalkInv, OrderInv
  <2>1. shown[c][fd][i] \in {i, 0}
    BY DEF ShownInv
  <2>2. ASSUME peer = c PROVE i <= taken[fd]
    <3>1. ~Closed(c)
      <4>1. shown[c] # NothingShown
        BY <1>1 DEF NothingShown
      <4> QED
        BY <4>1 DEF WireInv, Reading, Closed
    <3>2. PICK o \in Offsets(c) : Accounts(c, o)
      BY <3>1 DEF OffsetsInv
    <3>n. PICK n : n = Len(wire[c])
      OBVIOUS
    <3>3. n \in Nat /\ o \in [1..(n + 1) -> [Fd -> Nat]]
      BY <3>n, <3>2, LenProperties DEF Offsets, ConversationTypes
    <3>4. o[n + 1] = sent /\ o[1][fd] = Len(shown[c][fd])
      BY <2>2, <3>n, <3>2 DEF Accounts, Balanced
    <3>5. o[1][fd] <= o[n + 1][fd]
      <4>1. CASE n = 0
        BY <3>3, <4>1
      <4>2. CASE n # 0
        <5>1. 1 \in 1..n
          BY <3>3, <4>2
        <5> QED
          BY <3>n, <3>2, <5>1 DEF Accounts
      <4> QED
        BY <4>1, <4>2
    <3>6. i \in 1..Len(shown[c][fd]) /\ Len(shown[c][fd]) \in Nat
      BY <1>1, LenProperties DEF ConversationTypes
    <3>7. sent[fd] <= taken[fd] /\ sent[fd] \in Nat /\ taken[fd] \in Nat
      BY DEF ToolInv, CopyInv, ToolTypes
    <3> QED
      BY <3>4, <3>5, <3>6, <3>7
  <2> QED
    BY <2>1, <2>2
<1>2. ConversationInv => StdioInOrder
  BY <1>1 DEF StdioInOrder
<1> QED
  BY <1>2, ConversationHolds, PTL

(* A client that gets its exit has printed all of the output and returns   *)
(* the low byte of the status; with an exit or a result the slot is free   *)
(* of it, so that it may send the next request.                            *)
THEOREM AnswerIsLastHolds == Spec => AnswerIsLast
<1>1. ASSUME ConversationInv, NEW c \in Client, ReadFinal(c)
      PROVE  LET frame == Head(wire[c]).frame
             IN  /\ frame.type \in {"exit", "result"} => slot # c
                 /\ frame.type = "exit" =>
                      /\ \A fd \in Fd : Len(shown[c][fd]) = frame.total[fd]
                      /\ code'[c] = frame.status % 256
  <2> USE <1>1 DEF ConversationInv, TalkInv, OrderInv
  <2>1. wire[c] # <<>> /\ cpc[c] = "body" /\ ~Closed(c)
    BY DEF ReadFinal, Consume, Closed
  <2>2. wire[c] \in Seq(Parts) /\ Head(wire[c]) = wire[c][1] /\ 1 \in 1..Len(wire[c])
        /\ 1 \in DOMAIN wire[c]
    <3>1. wire[c] \in Seq(Parts)
      BY DEF ConversationTypes
    <3>2. Len(wire[c]) \in Nat \ {0} /\ DOMAIN wire[c] = 1..Len(wire[c])
      BY <2>1, <3>1, EmptySeq, LenProperties
    <3> QED
      BY <3>1, <3>2
  <2>f. PICK frame : frame = Head(wire[c]).frame
    OBVIOUS
  <2>3. frame = wire[c][1].frame
    BY <2>2, <2>f
  <2>4. frame.type \in {"exit", "result"} => slot # c
    <3>1. frame.type \in {"exit", "result"} => Answering(c)
      BY <2>2, <2>3 DEF FinalInv
    <3> QED
      BY <3>1 DEF Answering, WorkerInv, Owns, OwnsSlot, Halves
  <2>5. ASSUME frame.type = "exit", NEW fd \in Fd PROVE Len(shown[c][fd]) = frame.total[fd]
    <3>1. PICK o \in Offsets(c) : Accounts(c, o)
      BY <2>1 DEF OffsetsInv
    <3>2. o[1] = frame.total
      BY <2>2, <2>3, <2>5, <3>1 DEF Accounts, InPlace
    <3> QED
      BY <3>1, <3>2 DEF Accounts
  <2>6. ASSUME frame.type = "exit" PROVE code'[c] = frame.status % 256
    <3>1. verb[c] = "run"
      BY <2>2, <2>3, <2>6 DEF FinalInv
    <3>2. code' = [code EXCEPT ![c] = CodeFor(verb[c], frame)]
      BY <2>f DEF ReadFinal, Return
    <3>3. CodeFor(verb[c], frame) = frame.status % 256
      BY <2>6, <3>1 DEF CodeFor, ToolCode, ExitByte
    <3> QED
      BY <3>2, <3>3 DEF ConversationTypes
  <2> QED
    BY <2>4, <2>5, <2>6, <2>f
<1>2. ConversationInv /\ [Next]_vars =>
        [\A c \in Client : ReadFinal(c) =>
           LET frame == Head(wire[c]).frame
           IN  /\ frame.type \in {"exit", "result"} => slot # c
               /\ frame.type = "exit" =>
                    /\ \A fd \in Fd : Len(shown[c][fd]) = frame.total[fd]
                    /\ code'[c] = frame.status % 256]_vars
  BY <1>1
<1> QED
  BY <1>2, ConversationHolds, PTL DEF Spec, AnswerIsLast

=============================================================================
