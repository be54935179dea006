-------------------------------- MODULE Wire --------------------------------
(***************************************************************************)
(* The integers of the generated protobuf code (types, *.pb.go).  Go's     *)
(* uint64 and int have WordBits bits and int32 has TagBits; the code has   *)
(* 64 and 32.  A uint64 is a member of 0 .. Word - 1, an int a member of   *)
(* -Half .. Half - 1, and every operation wraps as it does in Go.          *)
(* schedule.pb.go is taken as the reference for the helpers that the       *)
(* generator repeats in each of the six files.                             *)
(***************************************************************************)
EXTENDS Integers, Sequences

CONSTANTS
    WordBits,   \* bits of uint64 and of int
    TagBits,    \* bits of int32
    Nil         \* the nil pointer

Word == 2 ^ WordBits

Half == 2 ^ (WordBits - 1)

(***************************************************************************)
(* An int is wide enough for the constants of the code.  The conjuncts on  *)
(* the powers of two in use say what the provers do not know of            *)
(* exponentiation.                                                         *)
(***************************************************************************)
ASSUME WireAssumption ==
    /\ WordBits \in Nat \ {0}
    /\ TagBits \in Nat \ {0}
    /\ 2 ^ 0 = 1
    /\ \A n \in 0 .. WordBits + 6 : 2 ^ n \in Nat \ {0} /\ 2 ^ (n + 1) = 2 * 2 ^ n
    /\ 8 < Half

Byte == 0 .. 255

\* int(x) of a uint64 x
ToInt(x) == IF x < Half THEN x ELSE x - Word

\* a + b of two ints
Plus(a, b) ==
    LET sum == a + b
    IN  IF sum >= Half THEN sum - Word ELSE IF sum < -Half THEN sum + Word ELSE sum

\* int32(wire >> 3)
FieldNum(wire) ==
    LET n == (wire \div 8) % 2 ^ TagBits
    IN  IF n < 2 ^ (TagBits - 1) THEN n ELSE n - 2 ^ TagBits

\* int(wire & 0x7)
WireType(wire) == wire % 8

\* The mutation: the shift does not lose the bits beyond the word.
OrShiftedWide(v, b, shift) == v + (b % 128) * 2 ^ shift

\* v | uint64(b & 0x7F) << shift: what is shifted beyond the word is lost
OrShifted(v, b, shift) == (v + (b % 128) * 2 ^ shift) % Word

=============================================================================
