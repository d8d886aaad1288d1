------------------------------- MODULE VarInt -------------------------------
(***************************************************************************)
(* The variable-length integers of the wire format: least significant      *)
(* group first, one group per byte, the top bit of a byte says that another*)
(* byte follows.  The code has 7-bit groups, at most 10 bytes, and 64-bit  *)
(* values, of which the tenth byte holds one bit; the constants scale that *)
(* down and keep the odd top group.                                        *)
(***************************************************************************)
EXTENDS Integers, Sequences, FiniteSetsExt

CONSTANTS
  GroupBits,        (* Bits of a group: 7 in the code.                     *)
  Base,             (* 2^GroupBits: the continuation bit, 0x80.            *)
  MaxBytes,         (* MAX_VARINT_BYTES, 10.                               *)
  TopGroup,         (* Values the last group may take: 2, from 64 = 9*7+1. *)
  Weight            (* Weight[i] = Base^i, the place value of group i.     *)

Pow2[n \in Nat] == IF n = 0 THEN 1 ELSE 2 * Pow2[n - 1]

ASSUME VarIntAssumption ==
  /\ GroupBits \in Nat \ {0}
  /\ Base = Pow2[GroupBits]
  /\ Base \in Nat /\ Base > 1
  /\ MaxBytes \in Nat /\ MaxBytes > 1
  /\ TopGroup \in 2 .. Base

ASSUME WeightAssumption ==
  /\ Weight \in [0 .. MaxBytes - 1 -> Nat \ {0}]
  /\ Weight[0] = 1
  /\ \A i \in 1 .. MaxBytes - 1 : Weight[i] = Base * Weight[i - 1]
  /\ \A i \in 0 .. MaxBytes - 1 : Weight[i] <= Weight[MaxBytes - 1]

Byte == 0 .. 2 * Base - 1

Group(byte) == byte % Base          (* byte & 0x7f                         *)
Continues(byte) == byte >= Base     (* byte & 0x80 != 0                    *)

(* The integers of the wire are those below Limit: u64 in the code.        *)
Limit == TopGroup * Weight[MaxBytes - 1]

EncodeVarint[value \in Nat] ==
  IF value < Base THEN <<value>>
  ELSE <<Base + (value % Base)>> \o EncodeVarint[value \div Base]

(* u64::BITS - value.leading_zeros(): the position of the highest bit.     *)
Bits(value) ==
  CHOOSE n \in 0 .. GroupBits * MaxBytes :
    value < Pow2[n] /\ (n = 0 \/ value >= Pow2[n - 1])

(* Mutant: the length of a value with no partial group is rounded up.      *)
MVarintLen(value) == Bits(value) \div GroupBits + 1

(* The number of bytes: the bits of the value in groups, rounded up.       *)
VarintLen(value) ==
  IF Bits(value) = 0 THEN 1 ELSE (Bits(value) + GroupBits - 1) \div GroupBits

Ok(pos, val) == [err |-> "none", pos |-> pos, val |-> val]
Err(error, pos) == [err |-> error, pos |-> pos, val |-> << >>]

(* The groups of n bytes from position pos of packet s, at their places.   *)
GroupSum(s, pos, n) ==
  LET sum[i \in 0 .. n] ==
        IF i = 0 THEN 0 ELSE sum[i - 1] + Group(s[pos + i]) * Weight[i - 1]
  IN  sum[n]

(* Decoder::varint as one operation, for the modules that read integers:   *)
(* the outcome of the call that begins at position pos of packet s, which  *)
(* VarIntDecoder takes byte by byte.                                       *)
ReadVarint(s, pos) ==
  LET n == Min({i \in 1 .. MaxBytes :
                  i = MaxBytes \/ pos + i > Len(s) \/ ~Continues(s[pos + i])})
      last == s[pos + n]
  IN  IF pos + n > Len(s) THEN Err("UnexpectedEof", Len(s))
      ELSE IF n = MaxBytes /\ Group(last) >= TopGroup THEN Err("IntegerOverflow", pos + n)
      ELSE IF Continues(last) \/ (n > 1 /\ last = 0) THEN Err("InvalidVarInt", pos + n)
      ELSE Ok(pos + n, GroupSum(s, pos, n))
=============================================================================
