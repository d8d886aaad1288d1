---------------------------- MODULE FrameStream ----------------------------
(***************************************************************************)
(* What Encoder::write_vectored promises its caller, without saying how:   *)
(* the writer receives the frames one after the other, each a header, a    *)
(* packet and a trailer sent as one run of bytes.  A call may stop with an *)
(* error, and then what the writer holds of its frame is a prefix of it.   *)
(***************************************************************************)
EXTENDS Sequences, Naturals

CONSTANTS
  Frames            (* The frames a caller may ask to send.                *)

VARIABLES
  frame,            (* The frame of the current call.                      *)
  accepted,         (* All the frames whose call returned Ok.              *)
  stream,           (* Every byte the writer has taken, in order.          *)
  outcome           (* How the current call stands.                        *)

svars == <<frame, accepted, stream, outcome>>

SInit ==
  /\ frame \in Frames
  /\ accepted = << >>
  /\ stream = << >>
  /\ outcome = "pending"

(* The writer takes some more bytes of the frame.                          *)
STake ==
  /\ outcome = "pending"
  /\ \E n \in 0 .. Len(frame) :
       /\ Len(accepted) + n > Len(stream)
       /\ stream' = accepted \o SubSeq(frame, 1, n)
  /\ UNCHANGED <<frame, accepted, outcome>>

(* Ok is returned only for a frame the writer holds whole.                 *)
SOk ==
  /\ outcome = "pending"
  /\ stream = accepted \o frame
  /\ outcome' = "ok"
  /\ UNCHANGED <<frame, accepted, stream>>

(* An error may end the call at any point, and takes no byte back.         *)
SFail ==
  /\ outcome = "pending"
  /\ outcome' = "failed"
  /\ UNCHANGED <<frame, accepted, stream>>

(* After an Ok the caller may send another frame.                          *)
SNextCall ==
  /\ outcome = "ok"
  /\ accepted' = accepted \o frame
  /\ frame' \in Frames
  /\ outcome' = "pending"
  /\ UNCHANGED stream

SNext == STake \/ SOk \/ SFail \/ SNextCall

SSpec == SInit /\ [][SNext]_svars

=============================================================================
