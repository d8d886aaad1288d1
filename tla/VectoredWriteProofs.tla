----------------------- MODULE VectoredWriteProofs -----------------------
(***************************************************************************)
(* For every choice of headers, packets and trailers, and any number of    *)
(* calls: write_vectored sends exactly the frame, its cursor stays in      *)
(* bounds, and it implements FrameStream.                                  *)
(***************************************************************************)
EXTENDS VectoredWrite, SequenceTheorems, TLAPS

(* Bytes of the frame that come before the cursor.                         *)
Position ==
  CASE segment = 1 -> offset
    [] segment = 2 -> Len(segments[1]) + offset
    [] segment = 3 -> Len(segments[1]) + Len(segments[2]) + offset
    [] segment = 4 -> Len(segments[1]) + Len(segments[2]) + Len(segments[3]) + offset

(* The cursor, the count of bytes and the progress still to be applied     *)
(* always account for each other; that is what makes the stream's          *)
(* invariant inductive.                                                    *)
CursorInv ==
  /\ segment <= 3 => offset <= Len(segments[segment])
  /\ segment = 4 => offset = 0
  /\ written = Position + remaining
  /\ pc # "advance" => remaining = 0
  /\ pc = "ok" => segment = 4

IInv == TypeOK /\ CursorInv /\ StreamIsFramed
-----------------------------------------------------------------------------
(* The rest of a sequence followed by another is the rest of both.         *)
LEMMA RestOfFirst ==
  ASSUME NEW S, NEW s \in Seq(S), NEW t \in Seq(S), NEW k \in 0 .. Len(s)
  PROVE  SubSeq(s, k + 1, Len(s)) \o t = SubSeq(s \o t, k + 1, Len(s) + Len(t))
<1> DEFINE left == SubSeq(s, k + 1, Len(s)) \o t
           right == SubSeq(s \o t, k + 1, Len(s) + Len(t))
<1>1. left \in Seq(S) /\ right \in Seq(S)
  OBVIOUS
<1>2. Len(left) = Len(right)
  OBVIOUS
<1>3. \A i \in 1 .. Len(left) : left[i] = right[i]
  OBVIOUS
<1> HIDE DEF left, right
<1>4. left = right
  BY <1>1, <1>2, <1>3, SeqEqual
<1> QED
  BY <1>4 DEF left, right

(* The rest of the second of two sequences is the rest of their            *)
(* concatenation, past the first.                                          *)
LEMMA RestOfSecond ==
  ASSUME NEW S, NEW s \in Seq(S), NEW t \in Seq(S), NEW k \in 0 .. Len(t)
  PROVE  SubSeq(t, k + 1, Len(t)) = SubSeq(s \o t, Len(s) + k + 1, Len(s) + Len(t))
OBVIOUS

(* Taking the first p elements of the rest continues the prefix.           *)
LEMMA PrefixContinues ==
  ASSUME NEW S, NEW a \in Seq(S), NEW f \in Seq(S),
         NEW w \in 0 .. Len(f), NEW p \in 1 .. Len(f) - w
  PROVE  /\ (a \o SubSeq(f, 1, w)) \o SubSeq(SubSeq(f, w + 1, Len(f)), 1, p)
              = a \o SubSeq(f, 1, w + p)
         /\ a \o SubSeq(f, 1, w + p) \in Seq(S)
<1> DEFINE taken == SubSeq(f, 1, w)
           more == SubSeq(SubSeq(f, w + 1, Len(f)), 1, p)
<1>1. taken \in Seq(S)
  OBVIOUS
<1>2. more \in Seq(S)
  OBVIOUS
<1>3. taken \o more = SubSeq(f, 1, w + p)
  <2>1. more = SubSeq(f, w + 1, w + p)
    OBVIOUS
  <2>2. taken \o SubSeq(f, w + 1, w + p) = SubSeq(f, 1, w + p)
    OBVIOUS
  <2> DEFINE u == SubSeq(f, w + 1, w + p)
             v == SubSeq(f, 1, w + p)
  <2>3. more = u /\ taken \o u = v
    BY <2>1, <2>2
  <2> HIDE DEF taken, more, u, v
  <2>4. taken \o more = v
    BY <2>3
  <2> QED
    BY <2>4 DEF v
<1> HIDE DEF taken, more
<1>4. (a \o taken) \o more = a \o (taken \o more)
  <2> HIDE DEF taken, more
  <2> QED BY <1>1, <1>2, ConcatAssociative, SMTT(30)
<1>5. a \o (taken \o more) \in Seq(S)
  BY <1>1, <1>2
<1> QED
  BY <1>3, <1>4, <1>5 DEF taken, more

(* A frame's three segments, and its length.                               *)
LEMMA FrameShape ==
  ASSUME TypeOK
  PROVE  /\ segments[1] \in Seq(Byte) /\ Len(segments[1]) \in Nat
         /\ segments[2] \in Seq(Byte) /\ Len(segments[2]) \in Nat
         /\ segments[3] \in Seq(Byte) /\ Len(segments[3]) \in Nat
         /\ segments[1] \o segments[2] \in Seq(Byte)
         /\ Len(segments[1] \o segments[2]) = Len(segments[1]) + Len(segments[2])
         /\ Frame = (segments[1] \o segments[2]) \o segments[3]
         /\ Frame \in Seq(Byte)
         /\ Len(Frame) = Len(segments[1]) + Len(segments[2]) + Len(segments[3])
<1>1. /\ segments[1] \in Seq(Byte)
      /\ segments[2] \in Seq(Byte)
      /\ segments[3] \in Seq(Byte)
  BY SegmentsAssumption DEF TypeOK
<1>2. /\ segments[1] \o segments[2] \in Seq(Byte)
      /\ Len(segments[1] \o segments[2]) = Len(segments[1]) + Len(segments[2])
  BY <1>1, ConcatProperties
<1>3. /\ Frame = (segments[1] \o segments[2]) \o segments[3]
      /\ (segments[1] \o segments[2]) \o segments[3] \in Seq(Byte)
      /\ Len((segments[1] \o segments[2]) \o segments[3])
           = Len(segments[1] \o segments[2]) + Len(segments[3])
  BY <1>1, <1>2, ConcatProperties DEF Frame
<1> QED
  BY <1>1, <1>2, <1>3, LenProperties

LEMMA PositionIsNat ==
  ASSUME TypeOK
  PROVE  Position \in Nat
<1> DEFINE a == Len(segments[1])
           b == Len(segments[2])
           c == Len(segments[3])
<1>1. a \in Nat /\ b \in Nat /\ c \in Nat
  BY FrameShape
<1>2. segment \in 1 .. 4 /\ offset \in Nat
  BY DEF TypeOK
<1>3. Position = CASE segment = 1 -> offset
                   [] segment = 2 -> a + offset
                   [] segment = 3 -> a + b + offset
                   [] segment = 4 -> a + b + c + offset
  BY DEF Position
<1> HIDE DEF a, b, c
<1> QED
  BY <1>1, <1>2, <1>3

(* What the writer is offered is exactly what is left of the frame.        *)
LEMMA GatheredIsTheRest ==
  ASSUME TypeOK, segment <= 3, offset <= Len(segments[segment])
  PROVE  /\ Position \in 0 .. Len(Frame)
         /\ Gathered = SubSeq(Frame, Position + 1, Len(Frame))
<1> DEFINE A == segments[1]
           B == segments[2]
           C == segments[3]
<1>0. /\ A \in Seq(Byte) /\ B \in Seq(Byte) /\ C \in Seq(Byte)
      /\ Len(A) \in Nat /\ Len(B) \in Nat /\ Len(C) \in Nat
      /\ A \o B \in Seq(Byte) /\ Len(A \o B) = Len(A) + Len(B)
      /\ Frame = (A \o B) \o C
      /\ Len(Frame) = Len(A) + Len(B) + Len(C)
  BY FrameShape
<1>o. offset \in Nat
  BY DEF TypeOK
<1> HIDE DEF A, B, C
<1>1. CASE segment = 1
  <2>1. offset \in 0 .. Len(A) /\ offset \in 0 .. Len(A \o B)
    BY <1>0, <1>o, <1>1 DEF A
  <2>2. Gathered = (SubSeq(A, offset + 1, Len(A)) \o B) \o C
    BY <1>1 DEF Gathered, Slice, A, B, C
  <2>3. SubSeq(A, offset + 1, Len(A)) \o B = SubSeq(A \o B, offset + 1, Len(A) + Len(B))
    BY <1>0, <2>1, RestOfFirst
  <2>4. SubSeq(A \o B, offset + 1, Len(A \o B)) \o C
          = SubSeq((A \o B) \o C, offset + 1, Len(A \o B) + Len(C))
    BY <1>0, <2>1, RestOfFirst
  <2>5. Position = offset
    BY <1>0, <1>o, <1>1 DEF Position
  <2>6. Gathered = SubSeq(Frame, offset + 1, Len(Frame))
    BY <1>0, <2>2, <2>3, <2>4
  <2> QED
    BY <1>0, <2>1, <2>5, <2>6
<1>2. CASE segment = 2
  <2>1. offset \in 0 .. Len(B) /\ Len(A) + offset \in 0 .. Len(A \o B)
    BY <1>0, <1>o, <1>2 DEF B
  <2>2. Gathered = (<< >> \o SubSeq(B, offset + 1, Len(B))) \o C
    BY <1>2 DEF Gathered, Slice, A, B, C
  <2>3. SubSeq(B, offset + 1, Len(B)) = SubSeq(A \o B, Len(A) + offset + 1, Len(A) + Len(B))
    BY <1>0, <2>1, RestOfSecond
  <2>4. SubSeq(A \o B, Len(A) + offset + 1, Len(A \o B)) \o C
          = SubSeq((A \o B) \o C, Len(A) + offset + 1, Len(A \o B) + Len(C))
    BY <1>0, <2>1, RestOfFirst
  <2>5. Position = Len(A) + offset
    BY <1>0, <1>o, <1>2 DEF Position, A, B
  <2>6. SubSeq(B, offset + 1, Len(B)) \in Seq(Byte)
    <3>1. \A i \in offset + 1 .. Len(B) : B[i] \in Byte
      BY <1>0, <1>o, ElementOfSeq
    <3> QED
      BY <1>0, <1>o, <3>1, SubSeqProperties
  <2>7. Gathered = SubSeq(B, offset + 1, Len(B)) \o C
    BY <2>2, <2>6, ConcatEmptySeq
  <2>8. Gathered = SubSeq(Frame, Len(A) + offset + 1, Len(Frame))
    BY <1>0, <2>3, <2>4, <2>7
  <2> QED
    BY <1>0, <2>1, <2>5, <2>8
<1>3. CASE segment = 3
  <2>1. offset \in 0 .. Len(C)
    BY <1>0, <1>o, <1>3 DEF C
  <2>2. Gathered = (<< >> \o << >>) \o SubSeq(C, offset + 1, Len(C))
    BY <1>3 DEF Gathered, Slice, A, B, C
  <2>3. SubSeq(C, offset + 1, Len(C))
          = SubSeq((A \o B) \o C, Len(A \o B) + offset + 1, Len(A \o B) + Len(C))
    BY <1>0, <2>1, RestOfSecond
  <2>5. Position = Len(A) + Len(B) + offset
    BY <1>3 DEF Position, A, B
  <2>6. SubSeq(C, offset + 1, Len(C)) \in Seq(Byte)
    <3>1. \A i \in offset + 1 .. Len(C) : C[i] \in Byte
      BY <1>0, <1>o, ElementOfSeq
    <3> QED
      BY <1>0, <1>o, <3>1, SubSeqProperties
  <2>7. Gathered = SubSeq(C, offset + 1, Len(C))
    <3>1. << >> \in Seq(Byte)
      BY EmptySeq
    <3> QED
      BY <2>2, <2>6, <3>1, ConcatEmptySeq
  <2>8. Gathered = SubSeq(Frame, Len(A) + Len(B) + offset + 1, Len(Frame))
    BY <1>0, <2>3, <2>7
  <2> QED
    BY <1>0, <2>1, <2>5, <2>8
<1> QED
  BY <1>1, <1>2, <1>3 DEF TypeOK
-----------------------------------------------------------------------------
LEMMA InitIInv == Init => IInv
<1> SUFFICES ASSUME Init PROVE IInv
  OBVIOUS
<1>1. TypeOK
  BY EmptySeq DEF Init, TypeOK
<1>2. CursorInv
  <2>1. Len(segments[1]) \in Nat
    BY <1>1, FrameShape
  <2> QED
    BY <2>1 DEF Init, CursorInv, Position
<1>3. StreamIsFramed
  <2>1. Len(Frame) \in Nat
    BY <1>1, FrameShape
  <2>2. SubSeq(Frame, 1, 0) = << >>
    BY SubSeqEmpty
  <2>3. << >> \o << >> = << >>
    BY EmptySeq, ConcatEmptySeq
  <2> QED
    BY <2>1, <2>2, <2>3 DEF Init, StreamIsFramed
<1> QED
  BY <1>1, <1>2, <1>3 DEF IInv

(* Passing over an empty or a finished segment leaves the position alone.  *)
LEMMA SkipPreserves ==
  ASSUME IInv, SkipSegment
  PROVE  IInv'
<1>0. /\ TypeOK /\ CursorInv /\ StreamIsFramed
      /\ segment \in 1 .. 4 /\ segment <= 3
      /\ Len(segments[1]) \in Nat /\ Len(segments[2]) \in Nat /\ Len(segments[3]) \in Nat
  BY FrameShape DEF IInv, TypeOK, SkipSegment
<1>1. TypeOK'
  BY <1>0 DEF TypeOK, SkipSegment
<1>2. segment' <= 3 => Len(segments[segment']) \in Nat
  BY <1>0 DEF SkipSegment
<1>3. Position' = Position
  <2>1. CASE segment = 1
    BY <1>0, <2>1 DEF SkipSegment, Position
  <2>2. CASE segment = 2
    BY <1>0, <2>2 DEF SkipSegment, Position
  <2>3. CASE segment = 3
    BY <1>0, <2>3 DEF SkipSegment, Position
  <2> QED
    BY <1>0, <2>1, <2>2, <2>3
<1>4. CursorInv'
  BY <1>0, <1>2, <1>3 DEF CursorInv, SkipSegment
<1>5. StreamIsFramed'
  BY <1>0 DEF StreamIsFramed, SkipSegment, Frame
<1> QED
  BY <1>1, <1>4, <1>5 DEF IInv

(* What the writer takes continues the frame where it stood.               *)
LEMMA WritePreserves ==
  ASSUME IInv, Write
  PROVE  IInv'
<1>0. TypeOK /\ CursorInv /\ StreamIsFramed
  BY DEF IInv
<1>u. /\ pc = "loop" /\ segment <= 3
      /\ segments' = segments /\ segment' = segment /\ offset' = offset
      /\ accepted' = accepted /\ calls' = calls /\ pc' = "advance"
  BY DEF Write, Unsent, cursor
<1>p. Position \in Nat
  BY <1>0, PositionIsNat
<1>1. /\ offset <= Len(segments[segment])
      /\ remaining = 0 /\ written = Position
  BY <1>0, <1>u, <1>p DEF CursorInv
<1>2. /\ Position \in 0 .. Len(Frame)
      /\ Gathered = SubSeq(Frame, Position + 1, Len(Frame))
  BY <1>0, <1>1, <1>u, GatheredIsTheRest
<1>3. Frame \in Seq(Byte) /\ Len(Frame) \in Nat
  BY <1>0, FrameShape, LenProperties
<1>4. \A i \in Position + 1 .. Len(Frame) : Frame[i] \in Byte
  BY <1>2, <1>3, ElementOfSeq
<1>5. Len(Gathered) = Len(Frame) - Position
  BY <1>2, <1>3, <1>4, SubSeqProperties
<1>6. PICK progress \in 1 .. Len(Gathered) :
        /\ stream' = stream \o SubSeq(Gathered, 1, progress)
        /\ written' = written + progress
        /\ remaining' = progress
  BY DEF Write
<1>7. /\ stream' = accepted \o SubSeq(Frame, 1, written + progress)
      /\ stream' \in Seq(Byte)
  <2>1. stream = accepted \o SubSeq(Frame, 1, written)
    BY <1>0 DEF StreamIsFramed
  <2>2. /\ accepted \in Seq(Byte)
        /\ written \in 0 .. Len(Frame)
        /\ progress \in 1 .. Len(Frame) - written
    BY <1>0, <1>1, <1>2, <1>5, <1>6 DEF TypeOK
  <2>3. /\ (accepted \o SubSeq(Frame, 1, written))
              \o SubSeq(SubSeq(Frame, written + 1, Len(Frame)), 1, progress)
             = accepted \o SubSeq(Frame, 1, written + progress)
        /\ accepted \o SubSeq(Frame, 1, written + progress) \in Seq(Byte)
    BY <1>3, <2>2, PrefixContinues
  <2> QED
    BY <1>1, <1>2, <1>6, <2>1, <2>3
<1>8. written + progress \in 0 .. Len(Frame)
  BY <1>1, <1>2, <1>3, <1>5, <1>6
<1>9. TypeOK'
  BY <1>0, <1>1, <1>p, <1>u, <1>6, <1>7 DEF TypeOK
<1>10. CursorInv'
  <2>1. Position' = Position
    BY <1>u DEF Position
  <2> QED
    BY <1>0, <1>1, <1>p, <1>u, <1>6, <2>1 DEF CursorInv
<1>11. StreamIsFramed'
  <2>1. Frame' = Frame
    BY <1>u DEF Frame
  <2>2. written' = written + progress
    BY <1>6
  <2> QED
    BY <1>u, <1>3, <1>7, <1>8, <2>1, <2>2 DEF StreamIsFramed
<1> QED
  BY <1>9, <1>10, <1>11 DEF IInv

(* The scan for the next segment that holds anything finds one, or the end.*)
LEMMA NextNonEmptyExists ==
  ASSUME TypeOK, NEW s \in 2 .. 4
  PROVE  /\ NextNonEmpty(s) \in s .. 4
         /\ \A m \in s .. NextNonEmpty(s) - 1 : segments[m] = << >>
<1> DEFINE P(n) == /\ n <= 3 => segments[n] # << >>
                   /\ \A m \in s .. n - 1 : segments[m] = << >>
<1>1. \E n \in s .. 4 : P(n)
  <2>1. CASE s <= 2 /\ segments[2] # << >>
    <3>1. 2 \in s .. 4 /\ P(2)
      BY <2>1
    <3> QED
      BY <3>1
  <2>2. CASE ~(s <= 2 /\ segments[2] # << >>) /\ s <= 3 /\ segments[3] # << >>
    <3>1. 3 \in s .. 4 /\ P(3)
      BY <2>2
    <3> QED
      BY <3>1
  <2>3. CASE ~(s <= 2 /\ segments[2] # << >>) /\ ~(s <= 3 /\ segments[3] # << >>)
    <3>1. 4 \in s .. 4 /\ P(4)
      BY <2>3
    <3> QED
      BY <3>1
  <2> QED
    BY <2>1, <2>2, <2>3
<1>2. NextNonEmpty(s) = CHOOSE n \in s .. 4 : P(n)
  BY DEF NextNonEmpty
<1> QED
  BY <1>1, <1>2

(* Applying progress moves the cursor by exactly the bytes it accounts for.*)
LEMMA AdvancePreserves ==
  ASSUME IInv, Advance
  PROVE  IInv'
<1> DEFINE a == Len(segments[1])
           b == Len(segments[2])
           c == Len(segments[3])
           to == NextNonEmpty(segment + 1)
<1>0. TypeOK /\ CursorInv /\ StreamIsFramed
  BY DEF IInv
<1>1. /\ a \in Nat /\ b \in Nat /\ c \in Nat
      /\ Len(Frame) = a + b + c
  BY <1>0, FrameShape
<1>2. /\ segment \in 1 .. 4 /\ offset \in Nat /\ remaining \in Nat /\ written \in Nat
      /\ written = Position + remaining
      /\ written <= Len(Frame)
      /\ segment <= 3 => offset <= Len(segments[segment])
      /\ segment = 4 => offset = 0
  BY <1>0 DEF TypeOK, CursorInv, StreamIsFramed
<1>u. /\ pc = "advance" /\ remaining > 0
      /\ segments' = segments /\ written' = written /\ pc' = pc
      /\ stream' = stream /\ accepted' = accepted /\ calls' = calls
  BY DEF Advance
<1>3. segment <= 3
  <2>1. segment = 4 => Position = a + b + c + 0
    BY <1>2 DEF Position
  <2> HIDE DEF a, b, c
  <2> QED
    BY <1>1, <1>2, <1>u, <2>1
<1>4. /\ segment = 1 => Available = a - offset
      /\ segment = 2 => Available = b - offset
      /\ segment = 3 => Available = c - offset
  BY <1>2, <1>3 DEF Available
<1>a. Available \in Nat /\ Available = Len(segments[segment]) - offset
  <2>1. Len(segments[segment]) \in Nat
    BY <1>1, <1>2, <1>3
  <2> QED
    BY <1>2, <1>3, <2>1 DEF Available
<1>5. /\ segment' \in 1 .. 4 /\ offset' \in Nat /\ remaining' \in Nat
      /\ Position' + remaining' = Position + remaining
      /\ segment' <= 3 => offset' <= Len(segments'[segment'])
      /\ segment' = 4 => offset' = 0
  <2>1. CASE /\ remaining < Available
             /\ offset' = offset + remaining
             /\ remaining' = 0
             /\ UNCHANGED segment
    <3>1. /\ Position = CASE segment = 1 -> offset
                          [] segment = 2 -> a + offset
                          [] segment = 3 -> a + b + offset
                          [] segment = 4 -> a + b + c + offset
          /\ Position' = CASE segment = 1 -> offset'
                           [] segment = 2 -> a + offset'
                           [] segment = 3 -> a + b + offset'
                           [] segment = 4 -> a + b + c + offset'
      BY <1>u, <2>1 DEF Position
    <3>2. offset' <= Len(segments'[segment'])
      <4>1. Len(segments[segment]) \in Nat
        BY <1>1, <1>2, <1>3
      <4>2. offset' <= Len(segments[segment])
        BY <1>2, <1>a, <2>1, <4>1
      <4> QED
        BY <1>u, <2>1, <4>2
    <3> HIDE DEF a, b, c
    <3>3. Position' = Position + remaining
      <4>1. CASE segment = 1
        BY <1>1, <1>2, <2>1, <3>1, <4>1
      <4>2. CASE segment = 2
        BY <1>1, <1>2, <2>1, <3>1, <4>2
      <4>3. CASE segment = 3
        BY <1>1, <1>2, <2>1, <3>1, <4>3
      <4> QED
        BY <1>2, <1>3, <4>1, <4>2, <4>3
    <3>4. Position \in Nat
      BY <1>0, PositionIsNat
    <3> QED
      BY <1>2, <1>3, <2>1, <3>2, <3>3, <3>4
  <2>2. CASE /\ remaining >= Available
             /\ remaining' = remaining - Available
             /\ segment' = to
             /\ offset' = 0
    <3>1. /\ to \in segment + 1 .. 4
          /\ \A m \in segment + 1 .. to - 1 : segments[m] = << >>
      BY <1>0, <1>2, <1>3, NextNonEmptyExists
    <3>2. /\ segment < 2 /\ to > 2 => b = 0
          /\ segment < 3 /\ to > 3 => c = 0
      BY <1>2, <3>1, EmptySeq
    <3>3. /\ Position = CASE segment = 1 -> offset
                          [] segment = 2 -> a + offset
                          [] segment = 3 -> a + b + offset
                          [] segment = 4 -> a + b + c + offset
          /\ Position' = CASE to = 1 -> 0
                           [] to = 2 -> a + 0
                           [] to = 3 -> a + b + 0
                           [] to = 4 -> a + b + c + 0
      BY <1>u, <2>2 DEF Position
    <3>4. segment' <= 3 => offset' <= Len(segments'[segment'])
      BY <1>1, <1>u, <2>2, <3>1
    <3> HIDE DEF a, b, c, to
    <3>5. Position' + (remaining - Available) = Position + remaining
      <4>1. CASE segment = 1
        <5>1. Position = offset /\ Available = a - offset
          BY <1>4, <3>3, <4>1
        <5>2. Position' = a
          BY <1>1, <3>1, <3>2, <3>3, <4>1
        <5> QED
          BY <1>1, <1>2, <5>1, <5>2
      <4>2. CASE segment = 2
        <5>1. Position = a + offset /\ Available = b - offset
          BY <1>4, <3>3, <4>2
        <5>2. Position' = a + b
          BY <1>1, <3>1, <3>2, <3>3, <4>2
        <5> QED
          BY <1>1, <1>2, <3>1, <5>1, <5>2
      <4>3. CASE segment = 3
        <5>1. Position = a + b + offset /\ Available = c - offset
          BY <1>4, <3>3, <4>3
        <5>2. Position' = a + b + c
          BY <1>1, <3>1, <3>2, <3>3, <4>3
        <5> QED
          BY <1>1, <1>2, <3>1, <5>1, <5>2
      <4> QED
        BY <1>2, <1>3, <4>1, <4>2, <4>3
    <3>6. remaining - Available \in Nat
      BY <1>2, <1>a, <2>2
    <3> QED
      BY <1>2, <1>3, <2>2, <3>1, <3>4, <3>5, <3>6
  <2> QED
    BY <2>1, <2>2 DEF Advance
<1>6. TypeOK'
  BY <1>0, <1>u, <1>5 DEF TypeOK
<1>7. CursorInv'
  BY <1>2, <1>u, <1>5 DEF CursorInv
<1>8. StreamIsFramed'
  BY <1>0, <1>u DEF StreamIsFramed, Frame
<1> QED
  BY <1>6, <1>7, <1>8 DEF IInv

(* The three steps that only move the program counter.                     *)
LEMMA ControlPreserves ==
  ASSUME IInv, ReturnOk \/ WriteFails \/ EndAdvance
  PROVE  IInv'
<1>0. TypeOK /\ CursorInv /\ StreamIsFramed /\ segment \in 1 .. 4
  BY DEF IInv, TypeOK
<1>1. /\ segments' = segments /\ segment' = segment /\ offset' = offset
      /\ written' = written /\ remaining' = remaining
      /\ stream' = stream /\ accepted' = accepted /\ calls' = calls
  BY DEF ReturnOk, WriteFails, EndAdvance, cursor
<1>2. /\ pc' \in {"loop", "ok", "failed"}
      /\ remaining = 0
      /\ pc' = "ok" => segment = 4
  BY <1>0 DEF ReturnOk, WriteFails, EndAdvance, Unsent, CursorInv
<1>3. TypeOK'
  BY <1>0, <1>1, <1>2 DEF TypeOK
<1>4. CursorInv'
  <2>1. Position' = Position
    BY <1>1 DEF Position
  <2> QED
    BY <1>0, <1>1, <1>2, <2>1 DEF CursorInv
<1>5. StreamIsFramed'
  BY <1>0, <1>1 DEF StreamIsFramed, Frame
<1> QED
  BY <1>3, <1>4, <1>5 DEF IInv

(* At the end of the loop the position is the length of the frame.         *)
LEMMA OkIsWhole ==
  ASSUME IInv, segment = 4, remaining = 0
  PROVE  written = Len(Frame) /\ stream = accepted \o Frame
<1>0. TypeOK /\ CursorInv /\ StreamIsFramed
  BY DEF IInv
<1>1. Position = Len(segments[1]) + Len(segments[2]) + Len(segments[3]) + 0
  BY <1>0 DEF CursorInv, Position
<1>2. written = Position + 0
  BY <1>0 DEF CursorInv
<1>3. written = Len(Frame)
  <2> DEFINE a == Len(segments[1])
             b == Len(segments[2])
             c == Len(segments[3])
  <2>1. a \in Nat /\ b \in Nat /\ c \in Nat /\ Len(Frame) = a + b + c
    BY <1>0, FrameShape
  <2>2. Position = a + b + c + 0
    BY <1>1
  <2> HIDE DEF a, b, c
  <2> QED
    BY <1>2, <2>1, <2>2
<1>4. Frame \in Seq(Byte)
  BY <1>0, FrameShape
<1>5. SubSeq(Frame, 1, Len(Frame)) = Frame
  BY <1>4, SubSeqFull
<1> QED
  BY <1>0, <1>3, <1>5 DEF StreamIsFramed

(* A new call starts from a stream that ends on a frame boundary.          *)
LEMMA NextCallPreserves ==
  ASSUME IInv, NextCall
  PROVE  IInv'
<1>0. TypeOK /\ CursorInv /\ StreamIsFramed
  BY DEF IInv
<1>1. stream = accepted \o Frame
  BY <1>0, OkIsWhole DEF NextCall, CursorInv
<1>2. PICK h \in Headers, p \in Packets, t \in Trailers : Call(h, p, t)
  BY DEF NextCall
<1>3. /\ accepted' = stream /\ stream' = stream
      /\ segments' = <<h, p, t>> /\ segment' = 1 /\ offset' = 0
      /\ written' = 0 /\ remaining' = 0 /\ pc' = "loop" /\ calls' = calls + 1
  BY <1>1, <1>2 DEF NextCall, Call
<1>4. stream \in Seq(Byte) /\ calls \in Nat
  BY <1>0 DEF TypeOK
<1>5. TypeOK'
  BY <1>3, <1>4 DEF TypeOK
<1>6. h \in Seq(Byte) /\ p \in Seq(Byte) /\ t \in Seq(Byte)
  BY SegmentsAssumption
<1>7. CursorInv'
  <2>1. Position' = 0 /\ Len(segments'[1]) = Len(h) /\ Len(h) \in Nat
    BY <1>3, <1>6 DEF Position
  <2> QED
    BY <1>3, <2>1 DEF CursorInv
<1>8. StreamIsFramed'
  <2>1. Frame' = (h \o p) \o t
    BY <1>3 DEF Frame
  <2>2. Len(Frame') \in Nat
    BY <1>6, <2>1
  <2>3. SubSeq(Frame', 1, 0) = << >>
    BY SubSeqEmpty
  <2>4. accepted' \o << >> = stream'
    BY <1>3, <1>4, ConcatEmptySeq
  <2>5. written' = 0
    BY <1>3
  <2>6. stream' = accepted' \o SubSeq(Frame', 1, written')
    BY <2>3, <2>4, <2>5
  <2> QED
    BY <2>2, <2>5, <2>6 DEF StreamIsFramed
<1> QED
  BY <1>5, <1>7, <1>8 DEF IInv

LEMMA NextIInv == IInv /\ [Next]_vars => IInv'
<1> SUFFICES ASSUME IInv, [Next]_vars
             PROVE  IInv'
  OBVIOUS
<1>1. CASE SkipSegment
  BY <1>1, SkipPreserves
<1>2. CASE ReturnOk \/ WriteFails \/ EndAdvance
  BY <1>2, ControlPreserves
<1>3. CASE Write
  BY <1>3, WritePreserves
<1>4. CASE Advance
  BY <1>4, AdvancePreserves
<1>5. CASE NextCall
  BY <1>5, NextCallPreserves
<1>6. CASE UNCHANGED vars
  <2>1. /\ TypeOK' = TypeOK
        /\ CursorInv' = CursorInv
        /\ StreamIsFramed' = StreamIsFramed
    BY <1>6 DEF vars, TypeOK, CursorInv, Position, StreamIsFramed, Frame
  <2> QED
    BY <2>1 DEF IInv
<1> QED
  BY <1>1, <1>2, <1>3, <1>4, <1>5, <1>6 DEF Next, Step

(* The inductive invariant holds of every reachable state.                 *)
THEOREM Invariance == Spec => []IInv
<1> QED
  BY InitIInv, NextIInv, PTL DEF Spec
-----------------------------------------------------------------------------
(* Type correctness of the call's state, for any segments and any number   *)
(* of calls.                                                               *)
THEOREM TypeCorrect == Spec => []TypeOK
<1>1. IInv => TypeOK
  BY DEF IInv
<1> QED
  BY <1>1, Invariance, PTL

(* The writer always holds the accepted frames and exactly the first       *)
(* `written` bytes of the current one (wire.rs:327-346).                   *)
THEOREM StreamCorrect == Spec => []StreamIsFramed
<1>1. IInv => StreamIsFramed
  BY DEF IInv
<1> QED
  BY <1>1, Invariance, PTL

(* Ok(n) is returned only once the writer holds the whole frame, and n is  *)
(* its length (wire.rs:363).                                               *)
THEOREM OkCorrect == Spec => []OkMeansWholeFrame
<1>1. IInv => OkMeansWholeFrame
  BY OkIsWhole DEF IInv, CursorInv, OkMeansWholeFrame
<1> QED
  BY <1>1, Invariance, PTL

(* No step of the call indexes past the last segment or underflows, and    *)
(* the writer is never offered nothing, which would be reported as a       *)
(* WriteZero error (wire.rs:327-361).                                      *)
THEOREM CursorSafe == Spec => []CursorInBounds
<1>1. IInv => CursorInBounds
  <2> SUFFICES ASSUME IInv PROVE CursorInBounds
    OBVIOUS
  <2>0. TypeOK /\ CursorInv /\ StreamIsFramed
    BY DEF IInv
  <2>p. Position \in Nat /\ segment \in 1 .. 4 /\ offset \in Nat /\ remaining \in Nat
    BY <2>0, PositionIsNat DEF TypeOK
  <2> DEFINE a == Len(segments[1])
             b == Len(segments[2])
             c == Len(segments[3])
  <2>l. a \in Nat /\ b \in Nat /\ c \in Nat /\ Len(Frame) = a + b + c
    BY <2>0, FrameShape
  <2>1. remaining > 0 => segment <= 3
    <3>1. segment = 4 => Position = a + b + c + 0
      BY <2>0 DEF CursorInv, Position
    <3>2. written = Position + remaining /\ written <= Len(Frame)
      BY <2>0 DEF CursorInv, StreamIsFramed
    <3> HIDE DEF a, b, c
    <3> QED
      BY <2>p, <2>l, <3>1, <3>2
  <2>2. segment <= 3 => offset <= Len(segments[segment])
    BY <2>0 DEF CursorInv
  <2>3. ASSUME Unsent
        PROVE  Len(Gathered) > 0
    <3>1. /\ segment <= 3 /\ offset <= Len(segments[segment])
          /\ offset # Len(segments[segment])
      BY <2>2, <2>3 DEF Unsent
    <3>2. /\ Position \in 0 .. Len(Frame)
          /\ Gathered = SubSeq(Frame, Position + 1, Len(Frame))
      BY <2>0, <3>1, GatheredIsTheRest
    <3>3. Position < Len(Frame)
      <4>1. Position = CASE segment = 1 -> offset
                         [] segment = 2 -> a + offset
                         [] segment = 3 -> a + b + offset
                         [] segment = 4 -> a + b + c + offset
        BY DEF Position
      <4>2. /\ segment = 1 => offset < a
            /\ segment = 2 => offset < b
            /\ segment = 3 => offset < c
        BY <2>p, <2>l, <3>1
      <4> HIDE DEF a, b, c
      <4> QED
        BY <2>p, <2>l, <3>1, <4>1, <4>2
    <3>4. Frame \in Seq(Byte)
      BY <2>0, FrameShape
    <3>5. Len(SubSeq(Frame, Position + 1, Len(Frame))) = Len(Frame) - Position
      BY <3>2, <3>4
    <3> QED
      BY <3>2, <3>3, <3>4, <3>5
  <2> QED
    BY <2>1, <2>2, <2>3 DEF CursorInBounds
<1> QED
  BY <1>1, Invariance, PTL
-----------------------------------------------------------------------------
(* Every run of the call is a run of the stream of whole frames: the       *)
(* writer takes a longer prefix of the current frame at each Write, Ok     *)
(* comes only after the last byte, and the other steps are invisible.      *)
THEOREM Refinement == Spec => ImplementsFrameStream
<1>1. Init => Contract!SInit
  <2> SUFFICES ASSUME Init PROVE Contract!SInit
    OBVIOUS
  <2>1. PICK h \in Headers, p \in Packets, t \in Trailers : segments = <<h, p, t>>
    BY DEF Init
  <2>2. Frame \in AllFrames
    BY <2>1 DEF Frame, AllFrames
  <2>3. pc = "loop" /\ accepted = << >> /\ stream = << >>
    BY DEF Init
  <2> QED
    BY <2>2, <2>3 DEF Contract!SInit, Outcome
<1>2. IInv /\ [Next]_vars => [Contract!SNext]_Contract!svars
  <2> SUFFICES ASSUME IInv, [Next]_vars
               PROVE  [Contract!SNext]_Contract!svars
    OBVIOUS
  <2>0. TypeOK /\ CursorInv /\ StreamIsFramed
    BY DEF IInv
  <2>1. CASE SkipSegment \/ Advance \/ EndAdvance \/ UNCHANGED vars
    <3>1. /\ segments' = segments /\ accepted' = accepted /\ stream' = stream
          /\ \/ pc' = pc
             \/ pc = "advance" /\ pc' = "loop"
      BY <2>1 DEF SkipSegment, Advance, EndAdvance, vars, cursor
    <3> QED
      BY <3>1 DEF Contract!svars, Frame, Outcome
  <2>2. CASE ReturnOk
    <3>1. /\ pc = "loop" /\ pc' = "ok" /\ segment = 4 /\ remaining = 0
          /\ segments' = segments /\ accepted' = accepted /\ stream' = stream
      BY <2>0, <2>2 DEF ReturnOk, CursorInv, TypeOK
    <3>2. stream = accepted \o Frame
      BY <3>1, OkIsWhole
    <3>3. Contract!SOk
      BY <3>1, <3>2 DEF Contract!SOk, Frame, Outcome
    <3> QED
      BY <3>3 DEF Contract!SNext
  <2>3. CASE WriteFails
    <3>1. /\ pc = "loop" /\ pc' = "failed"
          /\ segments' = segments /\ accepted' = accepted /\ stream' = stream
      BY <2>3 DEF WriteFails, Unsent
    <3>2. Contract!SFail
      BY <3>1 DEF Contract!SFail, Frame, Outcome
    <3> QED
      BY <3>2 DEF Contract!SNext
  <2>4. CASE Write
    <3>1. /\ pc = "loop" /\ pc' = "advance"
          /\ segments' = segments /\ accepted' = accepted
          /\ \E progress \in 1 .. Len(Gathered) : written' = written + progress
      BY <2>4 DEF Write, Unsent
    <3>2. IInv'
      BY <2>4, WritePreserves
    <3>a. TypeOK' /\ StreamIsFramed'
      BY <3>2 DEF IInv
    <3>b. written \in Nat /\ written' \in Nat /\ accepted \in Seq(Byte)
      BY <2>0, <3>a DEF TypeOK
    <3>c. Frame' = Frame
      BY <3>1 DEF Frame
    <3>d. written' <= Len(Frame') /\ stream' = accepted' \o SubSeq(Frame', 1, written')
      BY <3>a DEF StreamIsFramed
    <3>e. written <= Len(Frame) /\ stream = accepted \o SubSeq(Frame, 1, written)
      BY <2>0 DEF StreamIsFramed
    <3>f. Frame \in Seq(Byte) /\ Len(Frame) \in Nat
      BY <2>0, FrameShape, LenProperties
    <3>4. Len(stream) = Len(accepted) + written
      <4>1. Len(SubSeq(Frame, 1, written)) = written /\ SubSeq(Frame, 1, written) \in Seq(Byte)
        BY <3>b, <3>e, <3>f
      <4> QED
        BY <3>b, <3>e, <4>1, ConcatProperties
    <3>5. Len(Gathered) \in Nat
      <4>1. segment <= 3 /\ offset <= Len(segments[segment])
        BY <2>0, <2>4 DEF Write, Unsent, CursorInv
      <4>2. /\ Position \in 0 .. Len(Frame)
            /\ Gathered = SubSeq(Frame, Position + 1, Len(Frame))
        BY <2>0, <4>1, GatheredIsTheRest
      <4> QED
        BY <3>f, <4>2
    <3>6. /\ written' \in 0 .. Len(Frame)
          /\ Len(accepted) + written' > Len(stream)
      <4>1. written' > written
        BY <3>1, <3>5, <3>b
      <4>2. Len(accepted) \in Nat
        BY <3>b
      <4> QED
        BY <3>b, <3>c, <3>d, <3>f, <3>4, <4>1, <4>2
    <3>7. Contract!STake
      <4>1. stream' = accepted \o SubSeq(Frame, 1, written')
        BY <3>1, <3>c, <3>d
      <4> QED
        BY <3>1, <3>c, <3>6, <4>1 DEF Contract!STake, Outcome
    <3> QED
      BY <3>7 DEF Contract!SNext
  <2>5. CASE NextCall
    <3>1. PICK h \in Headers, p \in Packets, t \in Trailers : Call(h, p, t)
      BY <2>5 DEF NextCall
    <3>2. /\ Frame' \in AllFrames
          /\ pc' = "loop"
      BY <3>1 DEF Call, Frame, AllFrames
    <3>3. pc = "ok" /\ accepted' = accepted \o Frame /\ stream' = stream
      BY <2>5 DEF NextCall
    <3>4. Outcome = "ok" /\ Outcome' = "pending"
      BY <3>2, <3>3 DEF Outcome
    <3>5. Contract!SNextCall
      BY <3>2, <3>3, <3>4 DEF Contract!SNextCall
    <3> QED
      BY <3>5 DEF Contract!SNext
  <2> QED
    BY <2>1, <2>2, <2>3, <2>4, <2>5 DEF Next, Step
<1> QED
  BY <1>1, <1>2, Invariance, PTL DEF Spec, Contract!SSpec, ImplementsFrameStream
=============================================================================
