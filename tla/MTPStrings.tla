----------------------------- MODULE MTPStrings -----------------------------
(***************************************************************************)
(* Strings inside MTP datasets: a one-byte count and that many UTF-16      *)
(* units, the terminating zero counted.  The host writes them with         *)
(* encode_mtp_string and build_prop_list and reads them with mtp_str and   *)
(* decode_mtp_string, which do the same.  A file name is a sequence of     *)
(* bytes, a string on the wire a record of its count and its units.        *)
(***************************************************************************)
EXTENDS Naturals, Sequences, SequencesExt

CONSTANT CountCap   (* the largest count one byte holds, 255 *)

ASSUME CountCapAssumption == CountCap \in Nat \ {0}

Least(a, b) == IF a < b THEN a ELSE b

Empty == [count |-> 0, units |-> <<>>]

MutOverwritesLast(name) ==
  LET len == Least(Len(name), CountCap)
  IN [count |-> len, units |-> SubSeq(name, 1, len - 1) \o <<0>>]

(* encode_mtp_string: every byte becomes a unit of its own; the count, one     *)
(* more than there are bytes, is stored in a byte.                             *)
Encode(name) ==
  IF name = <<>>
    THEN Empty
    ELSE LET len == Least(Len(name), CountCap) + 1
         IN [count |-> len % (CountCap + 1),
             units |-> SubSeq(name, 1, len - 1) \o <<0>>]

Size(s) == 1 + 2 * Len(s.units)

(* How many units the readers take when the buffer has room for so many: they  *)
(* stop at the count, at the end of the buffer, and behind the first zero.     *)
Taken(s, room) ==
  LET n     == Least(s.count, room)
      zeros == {k \in 1..n : s.units[k] = 0}
  IN IF zeros = {} THEN n ELSE CHOOSE k \in zeros : \A j \in zeros : k <= j

(* The text in them: all but the zero. *)
Text(s, room) ==
  LET n == Taken(s, room)
  IN IF n > 0 /\ s.units[n] = 0 THEN SubSeq(s.units, 1, n - 1) ELSE SubSeq(s.units, 1, n)

MutOneByteTooWide(c) ==
  IF c < 256 THEN <<c>> ELSE <<192 + c \div 64, 128 + (c % 64)>>

(* A unit in UTF-8; each half of a surrogate pair is taken for a character.    *)
Utf8(c) ==
  IF c < 128 THEN <<c>>
  ELSE IF c < 2048 THEN <<192 + c \div 64, 128 + (c % 64)>>
  ELSE <<224 + c \div 4096, 128 + ((c \div 64) % 64), 128 + (c % 64)>>

(* The text in UTF-8, one unit after the other. *)
Decode(s, room) ==
  LET units == Text(s, room)
      out[k \in 0..Len(units)] == IF k = 0 THEN <<>> ELSE out[k - 1] \o Utf8(units[k])
  IN out[Len(units)]

------------------------------------------------------------------------------
(* What the decoder is checked against: bytes that are UTF-8, as the standard  *)
(* defines it and as stringWithUTF8String demands it (WebUI.mm:53).            *)
Follows(b, i, n) ==
  /\ i + n <= Len(b)
  /\ \A k \in 1..n : b[i + k] \in 128..191

IsUtf8(b) ==
  LET ok[i \in 1..(Len(b) + 1)] ==
        \/ i = Len(b) + 1
        \/ b[i] \in 0..127 /\ ok[i + 1]
        \/ b[i] \in 194..223 /\ Follows(b, i, 1) /\ ok[i + 2]
        \/ /\ b[i] \in 224..239 /\ Follows(b, i, 2) /\ ok[i + 3]
           /\ b[i] = 224 => b[i + 1] >= 160
           /\ b[i] = 237 => b[i + 1] < 160
  IN ok[1]

Surrogates == 55296..57343
==============================================================================
