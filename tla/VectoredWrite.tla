--------------------------- MODULE VectoredWrite ---------------------------
(***************************************************************************)
(* Encoder::write_vectored (src/src/wire.rs:312-364).  It hands the header,*)
(* the encoded packet and the trailer to a std::io::Write as three         *)
(* IoSlices, without concatenating them.  A writer may take any non-empty  *)
(* prefix of the bytes it is offered, so the call keeps a cursor (segment, *)
(* offset) and offers again what is left.  What can go wrong is the cursor:*)
(* a byte sent twice, a byte skipped, an index past the last segment, or a *)
(* loop that never ends.                                                   *)
(*                                                                         *)
(* Segments are numbered 1..3 where the code numbers them 0..2.  The       *)
(* connection is reused: after Ok the caller sends the next frame to the   *)
(* same writer, which is what makes a miscounted frame damage the ones     *)
(* after it.                                                               *)
(***************************************************************************)
EXTENDS Integers, Sequences

CONSTANTS
  Byte,             (* Bytes, told apart only by their identity.           *)
  Headers,          (* The prefixes a caller may pass.                     *)
  Packets,          (* The packets the encoder may hold.                   *)
  Trailers,         (* The suffixes a caller may pass.                     *)
  MaxCalls          (* Bound: calls on one writer.                         *)

ASSUME SegmentsAssumption ==
  /\ Headers \subseteq Seq(Byte)
  /\ Packets \subseteq Seq(Byte)
  /\ Trailers \subseteq Seq(Byte)
ASSUME MaxCallsAssumption == MaxCalls \in Nat

VARIABLES
  segments,         (* <<prefix, self.bytes, suffix>>.                     *)
  segment, offset,  (* The cursor: first byte not yet taken.               *)
  written,          (* Bytes this call has seen the writer take.           *)
  remaining,        (* Progress not yet applied to the cursor.             *)
  pc,               (* Where the call is.                                  *)
  stream,           (* Every byte the writer has taken, over all calls.    *)
  accepted,         (* History: the frames whose call returned Ok.         *)
  calls             (* Calls begun.                                        *)

vars == <<segments, segment, offset, written, remaining, pc, stream, accepted, calls>>
cursor == <<segment, offset>>

Frame == segments[1] \o segments[2] \o segments[3]

(* The part of segment s that is offered: nothing before the cursor, the   *)
(* rest of the current segment, all of the later ones.  A part that is     *)
(* empty gets no IoSlice.                                                  *)
Slice(s) ==
  IF s < segment THEN << >>
  ELSE IF s = segment THEN SubSeq(segments[s], offset + 1, Len(segments[s]))
  ELSE segments[s]

(* Mutant: the trailer is offered before the packet.                       *)
MGathered == Slice(1) \o Slice(3) \o Slice(2)

Gathered == Slice(1) \o Slice(2) \o Slice(3)

Call(header, packet, trailer) ==
  /\ segments' = <<header, packet, trailer>>
  /\ segment' = 1
  /\ offset' = 0
  /\ written' = 0
  /\ remaining' = 0
  /\ pc' = "loop"
  /\ calls' = calls + 1

Init ==
  /\ segments \in {<<h, p, t>> : h \in Headers, p \in Packets, t \in Trailers}
  /\ segment = 1
  /\ offset = 0
  /\ written = 0
  /\ remaining = 0
  /\ pc = "loop"
  /\ stream = << >>
  /\ accepted = << >>
  /\ calls = 1

(* while segment < segments.len() && offset == segments[segment].len()     *)
SkipSegment ==
  /\ pc = "loop"
  /\ segment <= 3
  /\ offset = Len(segments[segment])
  /\ segment' = segment + 1
  /\ offset' = 0
  /\ UNCHANGED <<segments, written, remaining, pc, stream, accepted, calls>>

(* Mutant: the loop stops at the last segment instead of after it.         *)
MReturnBeforeTrailer ==
  /\ pc = "loop"
  /\ segment >= 3
  /\ pc' = "ok"
  /\ UNCHANGED <<segments, cursor, written, remaining, stream, accepted, calls>>

(* Both ways out of the outer loop return Ok(written).                     *)
ReturnOk ==
  /\ pc = "loop"
  /\ segment > 3
  /\ pc' = "ok"
  /\ UNCHANGED <<segments, cursor, written, remaining, stream, accepted, calls>>

Unsent == pc = "loop" /\ segment <= 3 /\ offset # Len(segments[segment])

(* Mutant: a writer that makes no progress is tried again.                 *)
MWriteZero ==
  /\ Unsent
  /\ \E progress \in 0 .. Len(Gathered) :
       /\ stream' = stream \o SubSeq(Gathered, 1, progress)
       /\ written' = written + progress
       /\ remaining' = progress
  /\ pc' = "advance"
  /\ UNCHANGED <<segments, cursor, accepted, calls>>

(* The writer takes a non-empty prefix of what it is offered.              *)
Write ==
  /\ Unsent
  /\ \E progress \in 1 .. Len(Gathered) :
       /\ stream' = stream \o SubSeq(Gathered, 1, progress)
       /\ written' = written + progress
       /\ remaining' = progress
  /\ pc' = "advance"
  /\ UNCHANGED <<segments, cursor, accepted, calls>>

(* The writer reports an error, or no progress, which becomes WriteZero.   *)
WriteFails ==
  /\ Unsent
  /\ pc' = "failed"
  /\ UNCHANGED <<segments, cursor, written, remaining, stream, accepted, calls>>

(* One turn of the loop that applies the progress to the cursor.  On a     *)
(* segment boundary the empty segments that follow are passed over.        *)
NextNonEmpty(s) ==
  CHOOSE n \in s .. 4 :
    /\ n <= 3 => segments[n] # << >>
    /\ \A m \in s .. n - 1 : segments[m] = << >>

Available == Len(segments[segment]) - offset

(* Mutant: a segment is passed over even when only a part of it was taken. *)
MAdvanceWhole ==
  /\ pc = "advance"
  /\ remaining > 0
  /\ remaining' = remaining - Available
  /\ segment' = NextNonEmpty(segment + 1)
  /\ offset' = 0
  /\ UNCHANGED <<segments, written, pc, stream, accepted, calls>>

(* Mutant: the offset survives the move to the next segment.               *)
MAdvanceKeepsOffset ==
  /\ pc = "advance"
  /\ remaining > 0
  /\ \/ /\ remaining < Available
        /\ offset' = offset + remaining
        /\ remaining' = 0
        /\ UNCHANGED segment
     \/ /\ remaining >= Available
        /\ remaining' = remaining - Available
        /\ segment' = NextNonEmpty(segment + 1)
        /\ UNCHANGED offset
  /\ UNCHANGED <<segments, written, pc, stream, accepted, calls>>

Advance ==
  /\ pc = "advance"
  /\ remaining > 0
  /\ \/ /\ remaining < Available
        /\ offset' = offset + remaining
        /\ remaining' = 0
        /\ UNCHANGED segment
     \/ /\ remaining >= Available
        /\ remaining' = remaining - Available
        /\ segment' = NextNonEmpty(segment + 1)
        /\ offset' = 0
  /\ UNCHANGED <<segments, written, pc, stream, accepted, calls>>

EndAdvance ==
  /\ pc = "advance"
  /\ remaining = 0
  /\ pc' = "loop"
  /\ UNCHANGED <<segments, cursor, written, remaining, stream, accepted, calls>>

(* The caller sends another frame on the same writer.                      *)
NextCall ==
  /\ pc = "ok"
  /\ calls < MaxCalls
  /\ accepted' = accepted \o Frame
  /\ \E h \in Headers, p \in Packets, t \in Trailers : Call(h, p, t)
  /\ UNCHANGED stream

Step == SkipSegment \/ ReturnOk \/ Write \/ WriteFails \/ Advance \/ EndAdvance

Next == Step \/ NextCall

Spec == Init /\ [][Next]_vars

(* A call in progress runs to its next step: the code never waits except   *)
(* inside the writer, which is taken to return.  Nothing obliges the       *)
(* caller to make another call.                                            *)
FairSpec == Spec /\ WF_vars(Step)
-----------------------------------------------------------------------------
TypeOK ==
  /\ segments \in {<<h, p, t>> : h \in Headers, p \in Packets, t \in Trailers}
  /\ segment \in 1 .. 4
  /\ offset \in Nat
  /\ written \in Nat
  /\ remaining \in Nat
  /\ pc \in {"loop", "advance", "ok", "failed"}
  /\ stream \in Seq(Byte)
  /\ accepted \in Seq(Byte)
  /\ calls \in Nat

(* The writer holds the accepted frames followed by exactly the first      *)
(* `written` bytes of the current one: no byte of any segment is repeated, *)
(* skipped or reordered by the gathering and the cursor (wire.rs:327-346). *)
StreamIsFramed ==
  /\ written <= Len(Frame)
  /\ stream = accepted \o SubSeq(Frame, 1, written)

(* Ok(written) means that the whole of header, packet and trailer has been *)
(* taken and that `written` is its length (wire.rs:363).                   *)
OkMeansWholeFrame ==
  pc = "ok" => /\ written = Len(Frame)
               /\ stream = accepted \o Frame

(* Applying a progress never indexes past the last segment nor underflows  *)
(* `segments[segment].len() - offset`, both of which panic                 *)
(* (wire.rs:347-361), and the writer is never offered an empty list.       *)
CursorInBounds ==
  /\ remaining > 0 => segment <= 3
  /\ segment <= 3 => offset <= Len(segments[segment])
  /\ Unsent => Len(Gathered) > 0

(* Every call ends: each turn of the outer loop either returns or moves    *)
(* the cursor, because a writer that makes no progress is an error.        *)
CallEnds == pc = "loop" ~> pc \in {"ok", "failed"}

Outcome == IF pc \in {"ok", "failed"} THEN pc ELSE "pending"

AllFrames == {h \o p \o t : h \in Headers, p \in Packets, t \in Trailers}

Contract == INSTANCE FrameStream WITH
  Frames <- AllFrames,
  frame <- Frame,
  outcome <- Outcome

(* The call implements the stream of whole frames its callers rely on:     *)
(* README.en.md:173, "a header, packet, and trailer can be sent with one   *)
(* vectored write without an intermediate concatenation".                  *)
ImplementsFrameStream == Contract!SSpec
=============================================================================
