----------------------------- MODULE ToolStream ------------------------------
(***************************************************************************)
(* A managed tool in the daemon (davit/src/daemon.rs: handle_tool from the *)
(* spawn on, stream_pipe): the tool, its two pipes, the two threads that   *)
(* copy them to the raw log and, as frames, to the client's socket.        *)
(*                                                                         *)
(* What a tool writes to a pipe are the positions 1, 2, ...: bytes of      *)
(* two-byte characters, an odd position being a first byte.  A pipe holds  *)
(* the positions that are written and not yet taken by its thread.         *)
(***************************************************************************)
EXTENDS Integers, Sequences, FiniteSets

CONSTANTS
  Client,    \* the processes of the dv command that use the socket
  None,      \* no client; in result.json: the no-result marker
  MaxData,   \* bound: bytes a tool writes to each of its pipes
  PipeRoom,  \* bytes a pipe takes before its writer blocks
  Room,      \* parts of frames a socket takes before its writer blocks
  Heirs,     \* TRUE: a tool may leave a process behind that has its pipes
  LogMayFail \* TRUE: a write to the raw log may fail, on a full disk

ASSUME NoneIsNoClient == None \notin Client
ASSUME Sizes == MaxData \in [{"out", "err"} -> Nat] /\ PipeRoom \in Nat \ {0} /\ Room \in Nat \ {0}
ASSUME Switches == Heirs \in BOOLEAN /\ LogMayFail \in BOOLEAN

Fd == {"out", "err"}

VARIABLES
  daemon,   \* "serving", "draining" (shutting down) or "gone"
  cpc,      \* what each client does: "start", "len", "body", "done", "left"
  wire,     \* the parts of frames in each client's socket
  holders,  \* processes that have the tool's pipes open: "tool", "heir"
  status,   \* the tool's exit status, -1 when a signal ended it
  wrote,    \* bytes written to each pipe
  taken,    \* bytes of each pipe that its thread has read
  logged,   \* those of them that are in the raw log
  sent,     \* bytes of each pipe that its thread is done with
  tpc,      \* what each pipe thread does: "read", "lock", "len", "body", "done"
  ws,       \* the threads' common socket: "free", its holder, or "gone" (None)
  peer      \* the client at the other end of it

process == <<holders, status, wrote>>
copying == <<taken, logged, sent, tpc, ws, peer>>

-----------------------------------------------------------------------------
(* Plausible bugs, to see that a property notices each of them. *)

(* The lock of the socket is not waited for. *)
NoMutex(fd) == ws # "gone"

(* A thread whose client is gone ends, instead of draining for the log. *)
StopCopying(fd) ==
  /\ tpc' = [tpc EXCEPT ![fd] = "done"]
  /\ ws' = "gone"
  /\ UNCHANGED sent

(* The end of the tool is enough. *)
JoinChildOnly == "tool" \notin holders

(* The chunk is written from the start of the pipe. *)
LossyFromStart(first, last) == [k \in 1..last |-> k]

-----------------------------------------------------------------------------
(* A frame goes through the socket as its length and its body; a write     *)
(* blocks while the socket is full.                                        *)
Part(from, half, frame) == [from |-> from, half |-> half, frame |-> frame]

Closed(c) == cpc[c] \in {"done", "left"}

Put(c, part) ==
  /\ ~Closed(c)
  /\ Len(wire[c]) < Room
  /\ wire' = [wire EXCEPT ![c] = Append(@, part)]

(* String::from_utf8_lossy on one chunk: a character of which the chunk    *)
(* has only one byte becomes a replacement character, 0.                   *)
Partner(i) == IF i % 2 = 1 THEN i + 1 ELSE i - 1
Lossy(first, last) ==
  [k \in 1..(last - first + 1) |->
     LET i == first + k - 1 IN IF Partner(i) \in first..last THEN i ELSE 0]

(* The thread's buffer holds what it has read and not yet sent. *)
StreamFrame(fd) ==
  [type |-> "stream", fd |-> fd, text |-> Lossy(sent[fd] + 1, taken[fd])]

-----------------------------------------------------------------------------
(* The tool, and a process it may leave behind. *)
Running == daemon # "gone"

ToolWrites(fd) ==
  /\ Running
  /\ holders # {}
  /\ wrote[fd] < MaxData[fd]
  /\ wrote[fd] - taken[fd] < PipeRoom
  /\ wrote' = [wrote EXCEPT ![fd] = @ + 1]
  /\ UNCHANGED <<holders, status, copying, wire>>

ToolForks ==
  /\ Running /\ Heirs
  /\ holders = {"tool"}
  /\ holders' = {"tool", "heir"}
  /\ UNCHANGED <<status, wrote, copying, wire>>

HolderExits(h) ==
  /\ Running
  /\ h \in holders
  /\ holders' = holders \ {h}
  /\ IF h = "tool" THEN status' \in {3, -1} ELSE UNCHANGED status
  /\ UNCHANGED <<wrote, copying, wire>>

Tool == ToolForks \/ \E fd \in Fd : ToolWrites(fd)
ToolEnds == \E h \in {"tool", "heir"} : HolderExits(h)

-----------------------------------------------------------------------------
(* stream_pipe.  A read returns any of the bytes that are there, and they  *)
(* go to the raw log before anybody else sees them.  A write that fails    *)
(* leaves a part of them there or none, and its error is dropped.          *)
Thread(fd, from) == Running /\ tpc[fd] = from

LogChunk(fd, last) ==
  \E written \in IF LogMayFail THEN taken[fd]..last ELSE {last} :
    logged' = [logged EXCEPT ![fd] = @ \union (taken[fd] + 1)..written]

ReadPipe(fd) ==
  /\ Thread(fd, "read")
  /\ \/ \E last \in (taken[fd] + 1)..wrote[fd] :
          /\ taken' = [taken EXCEPT ![fd] = last]
          /\ LogChunk(fd, last)
          /\ tpc' = [tpc EXCEPT ![fd] = "lock"]
     \/ /\ holders = {} /\ taken[fd] = wrote[fd]
        /\ tpc' = [tpc EXCEPT ![fd] = "done"]
        /\ UNCHANGED <<taken, logged>>
  /\ UNCHANGED <<sent, ws, peer, wire>>

(* The thread is done with its chunk. *)
EndOfChunk(fd) ==
  /\ tpc' = [tpc EXCEPT ![fd] = "read"]
  /\ sent' = [sent EXCEPT ![fd] = taken[fd]]

MayLock(fd) == ws = "free"

LockSocket(fd) ==
  /\ Thread(fd, "lock")
  /\ \/ /\ MayLock(fd)
        /\ ws' = fd
        /\ tpc' = [tpc EXCEPT ![fd] = "len"]
        /\ UNCHANGED sent
     \/ /\ ws = "gone"
        /\ EndOfChunk(fd)
        /\ UNCHANGED ws
  /\ UNCHANGED <<taken, logged, peer, wire>>

(* A write fails: the client is gone; the thread goes on for the log. *)
DropSocket(fd) ==
  /\ EndOfChunk(fd)
  /\ ws' = "gone"

WriteLength(fd) ==
  /\ Thread(fd, "len")
  /\ Put(peer, Part(fd, "len", StreamFrame(fd)))
  /\ tpc' = [tpc EXCEPT ![fd] = "body"]
  /\ UNCHANGED <<taken, logged, sent, ws, peer>>

WriteBody(fd) ==
  /\ Thread(fd, "body")
  /\ Put(peer, Part(fd, "body", StreamFrame(fd)))
  /\ EndOfChunk(fd)
  /\ ws' = "free"
  /\ UNCHANGED <<taken, logged, peer>>

WriteFails(fd) ==
  /\ Thread(fd, "len") \/ Thread(fd, "body")
  /\ Closed(peer)
  /\ DropSocket(fd)
  /\ UNCHANGED <<taken, logged, peer, wire>>

PipeThread(fd) ==
  /\ \/ ReadPipe(fd) \/ LockSocket(fd)
     \/ WriteLength(fd) \/ WriteBody(fd) \/ WriteFails(fd)
  /\ UNCHANGED process

-----------------------------------------------------------------------------
(* handle_tool: the spawn, and the end of the child and of both threads.   *)
NoBytes == [fd \in Fd |-> 0]
NoTool ==
  /\ holders = {} /\ status = 0
  /\ wrote = NoBytes /\ taken = NoBytes /\ sent = NoBytes
  /\ logged = [fd \in Fd |-> {}]
  /\ tpc = [fd \in Fd |-> "done"] /\ ws = "free" /\ peer = None

Anew(who, threads, c) ==
  /\ holders' = who /\ status' = 0
  /\ wrote' = NoBytes /\ taken' = NoBytes /\ sent' = NoBytes
  /\ logged' = [fd \in Fd |-> {}]
  /\ tpc' = [fd \in Fd |-> threads] /\ ws' = "free" /\ peer' = c

Spawn(c) == Anew({"tool"}, "read", c)
ForgetTool == Anew({}, "done", None)

Joined == "tool" \notin holders /\ \A fd \in Fd : tpc[fd] = "done"

=============================================================================
