---------------------------- MODULE PromptMatcher ----------------------------
(***************************************************************************)
(* Recognising Vivado's prompt in what the PTY delivers (davit/src/pty.rs: *)
(* PromptMatcher, strip_prompt).  A read may end anywhere, so the matcher  *)
(* keeps the last bytes of the stream; execute_tcl strips the prompt that  *)
(* ended the command from the text it has collected.                       *)
(***************************************************************************)
EXTENDS Integers, Sequences, SequencesExt

CONSTANTS
  Bytes,      \* the bytes Vivado writes
  Blank,      \* the white space among them
  Prompt,     \* PROMPT, which ends with a blank
  Kept,       \* the bytes the matcher keeps if the prompt is not longer
  MaxStream   \* bound: bytes between two resets

ASSUME PromptEndsBlank ==
  /\ Prompt \in Seq(Bytes) /\ Len(Prompt) > 1 /\ Kept \in Nat
  /\ Blank \in Bytes /\ Prompt[Len(Prompt)] = Blank /\ Prompt[Len(Prompt) - 1] # Blank

VARIABLES
  stream,   \* history: the bytes since the reset
  tail      \* PromptMatcher.tail

matcher == <<stream, tail>>

MatcherInit == stream = <<>> /\ tail = <<>>

(* A plausible bug: what is kept is too short for a prompt cut at a read.  *)
KeepHalf(s) ==
  IF Len(s) > Kept \div 2 THEN SubSeq(s, Len(s) - Kept \div 2 + 1, Len(s)) ELSE s

Keep(s) ==
  LET keep == IF Len(Prompt) > Kept THEN Len(Prompt) ELSE Kept
  IN  IF Len(s) > keep THEN SubSeq(s, Len(s) - keep + 1, Len(s)) ELSE s

FeedBytes(chunk) ==
  /\ Len(stream) + Len(chunk) <= MaxStream
  /\ stream' = stream \o chunk
  /\ tail' = Keep(tail \o chunk)

(* The collector is armed for a command. *)
ResetMatcher == stream # <<>> /\ stream' = <<>> /\ tail' = <<>>

MatcherNext ==
  \/ \E n \in 1..MaxStream : \E chunk \in [1..n -> Bytes] : FeedBytes(chunk)
  \/ ResetMatcher

AtPrompt == IsSuffix(Prompt, tail)

(* str::trim_end. *)
TrimEnd(s) ==
  LET solid == {i \in DOMAIN s : s[i] # Blank}
  IN  IF solid = {} THEN <<>> ELSE SubSeq(s, 1, Max(solid))

StripPrompt(s) ==
  LET text == TrimEnd(s)
      name == TrimEnd(Prompt)
  IN  IF IsSuffix(name, text) THEN TrimEnd(SubSeq(text, 1, Len(text) - Len(name))) ELSE text

-----------------------------------------------------------------------------
(* "Tracks whether the accumulated output currently ends with the exact    *)
(* prompt", however it was cut into reads; and then the text of the result *)
(* is what came before that one prompt, without the blanks in between.     *)
PromptIsExact ==
  /\ AtPrompt <=> IsSuffix(Prompt, stream)
  /\ AtPrompt =>
       StripPrompt(stream) = TrimEnd(SubSeq(stream, 1, Len(stream) - Len(Prompt)))

=============================================================================
