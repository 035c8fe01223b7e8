-------------------------------- MODULE Hex --------------------------------
(***************************************************************************)
(* hex_encode and hex_decode (utils.hpp): the bytes of a message in JSON.  *)
(* A text is a sequence of tokens, a hex digit is a token.                 *)
(***************************************************************************)
EXTENDS Integers, Sequences

Lower == <<"0", "1", "2", "3", "4", "5", "6", "7",
           "8", "9", "a", "b", "c", "d", "e", "f">>
Upper == [Lower EXCEPT ![11] = "A", ![12] = "B", ![13] = "C",
                       ![14] = "D", ![15] = "E", ![16] = "F"]

\* The token c is digit d, in either case.
IsDigit(c, d) == c \in {Lower[d + 1], Upper[d + 1]}
Digit(c) == CHOOSE d \in 0 .. 15 : IsDigit(c, d)

\* Mutant: the digits of a byte change places.
HexEncodeSwapped(bytes) ==
  [i \in 1 .. 2 * Len(bytes) |->
     LET b == bytes[(i + 1) \div 2]
     IN  Lower[1 + (IF i % 2 = 0 THEN b \div 16 ELSE b % 16)]]

\* hex_encode
HexEncode(bytes) ==
  [i \in 1 .. 2 * Len(bytes) |->
     LET b == bytes[(i + 1) \div 2]
     IN  Lower[1 + (IF i % 2 = 1 THEN b \div 16 ELSE b % 16)]]

\* What hex_decode does not throw at, and what it returns.
IsHex(s) ==
  /\ Len(s) % 2 = 0
  /\ \A i \in 1 .. Len(s) : \E d \in 0 .. 15 : IsDigit(s[i], d)

HexDecode(s) ==
  [i \in 1 .. Len(s) \div 2 |-> 16 * Digit(s[2 * i - 1]) + Digit(s[2 * i])]
=============================================================================
