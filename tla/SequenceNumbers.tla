-------------------------- MODULE SequenceNumbers --------------------------
(***************************************************************************)
(* The 32-bit sequence numbers of RUDPLink: unsigned counters that wrap,   *)
(* compared by serial-number arithmetic (RUDPLink::isSequenceNewer).  The  *)
(* width is a parameter, so that TLC checks small ones and the proofs hold *)
(* for the code's 2^32: HalfRange = 2^31 is (UINT_MAX >> 1) + 1.           *)
(*                                                                         *)
(* The wrap is written as a case distinction instead of a remainder: both  *)
(* operands are already below SeqMod.                                      *)
(***************************************************************************)
EXTENDS Integers

CONSTANT HalfRange      \* half the number of sequence numbers

ASSUME HalfRangeAssumption == HalfRange \in Nat \ {0}

SeqMod == 2 * HalfRange

SeqNum == 0 .. SeqMod - 1

\* u32 addition and subtraction of a number below SeqMod.
Add(a, b) == IF a + b < SeqMod THEN a + b ELSE a + b - SeqMod
Sub(a, b) == IF a >= b THEN a - b ELSE a - b + SeqMod

\* Mutant: a comparison that forgets the wrap.
isSequenceNewer_NoWrap(incoming, having) == incoming >= having

\* Not older than having: the number the receiver waits for counts as newer.
isSequenceNewer(incoming, having) == Sub(incoming, having) <= HalfRange - 1
=============================================================================
