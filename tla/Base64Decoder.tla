---------------------------- MODULE Base64Decoder ----------------------------
(***************************************************************************)
(* DecodeBase64 (src/include/profile_service/utils/json_utils.hpp): one    *)
(* step per character.                                                     *)
(*                                                                         *)
(* A character is its place in base64_chars, Pad, or Foreign for any other.*)
(* val is an int that is shifted left without bound; >> and & 0xFF look at *)
(* it modulo a power of two, so it is kept modulo Word.                    *)
(***************************************************************************)
EXTENDS Integers, Sequences

CONSTANT Word   \* how many values an int has

ASSUME WordAssumption == Word \in Nat \ {0} /\ Word % 4096 = 0

Digits  == 0..63
Pad     == 64
Foreign == 65
Symbols == 0..65

Bytes == 0..255

VARIABLES
  text,     \* the parameter encoded
  at,       \* the next character
  val, valb,
  decoded   \* the bytes so far

decoder == <<text, at, val, valb, decoded>>

DecoderInit ==
  /\ text = <<>> /\ at = 1
  /\ val = 0 /\ valb = -6
  /\ decoded = <<>>

StartDecoding(encoded) ==
  /\ text' = encoded /\ at' = 1
  /\ val' = 0 /\ valb' = -6
  /\ decoded' = <<>>

DecodingEnds == at <= Len(text) => text[at] = Pad

\* Mutant of DecodeSymbol: a foreign character that is not stepped over.
DecodeSymbol_Stuck ==
  /\ ~DecodingEnds
  /\ IF text[at] = Foreign THEN UNCHANGED <<at, val, valb, decoded>>
     ELSE /\ at' = at + 1
          /\ val' = (val * 64 + text[at]) % Word
          /\ IF valb + 6 >= 0
             THEN /\ decoded' = Append(decoded, (val' \div 2^(valb + 6)) % 256)
                  /\ valb' = valb + 6 - 8
             ELSE valb' = valb + 6 /\ UNCHANGED decoded
  /\ UNCHANGED text

\* Mutant of DecodeSymbol: a buffer of 8 bits.
DecodeSymbol_Narrow ==
  /\ ~DecodingEnds
  /\ at' = at + 1
  /\ IF text[at] = Foreign THEN UNCHANGED <<val, valb, decoded>>
     ELSE /\ val' = (val * 64 + text[at]) % 256
          /\ IF valb + 6 >= 0
             THEN /\ decoded' = Append(decoded, (val' \div 2^(valb + 6)) % 256)
                  /\ valb' = valb + 6 - 8
             ELSE valb' = valb + 6 /\ UNCHANGED decoded
  /\ UNCHANGED text

\* Mutant of DecodeSymbol: the count not taken back after a byte.
DecodeSymbol_Counting ==
  /\ ~DecodingEnds
  /\ at' = at + 1
  /\ IF text[at] = Foreign THEN UNCHANGED <<val, valb, decoded>>
     ELSE /\ val' = (val * 64 + text[at]) % Word
          /\ valb' = valb + 6
          /\ decoded' = Append(decoded, (val' \div 2^(valb + 6)) % 256)
  /\ UNCHANGED text

DecodeSymbol ==
  /\ ~DecodingEnds
  /\ at' = at + 1
  /\ IF text[at] = Foreign THEN UNCHANGED <<val, valb, decoded>>
     ELSE /\ val' = (val * 64 + text[at]) % Word
          /\ IF valb + 6 >= 0
             THEN /\ decoded' = Append(decoded, (val' \div 2^(valb + 6)) % 256)
                  /\ valb' = valb + 6 - 8
             ELSE valb' = valb + 6 /\ UNCHANGED decoded
  /\ UNCHANGED text

\* Types of the loop's variables; valb is one of the counts left after a digit.
DecoderTypeOK ==
  /\ text \in Seq(Symbols) /\ at \in 1..(Len(text) + 1)
  /\ val \in 0..(Word - 1) /\ valb \in {-8, -6, -4, -2}
  /\ decoded \in Seq(Bytes)

(***************************************************************************)
(* The reference: six bits of each digit in a row, cut into octets.  lead  *)
(* zero bits precede them; RFC 4648 has none.                              *)
(***************************************************************************)
DigitsBefore(encoded, end) ==
  LET upTo[i \in 1..end] ==
        IF i = 1 THEN <<>>
        ELSE IF encoded[i - 1] \in Digits THEN Append(upTo[i - 1], encoded[i - 1])
        ELSE upTo[i - 1]
  IN  upTo[end]

Octets(digits, lead) ==
  LET Digit(i) == IF i = 0 THEN 0 ELSE digits[i]
      Octet(k) ==   \* the eight bits from bit 8(k - 1), in two digits at offset o
        LET bit == 6 + 8 * (k - 1) - lead
            o   == bit % 6
        IN  ((Digit(bit \div 6) * 64 + Digit(bit \div 6 + 1)) \div 2^(4 - o)) % 256
  IN  [k \in 1..((6 * Len(digits) + lead) \div 8) |-> Octet(k)]
===============================================================================
