------------------------------ MODULE Checksum ------------------------------
(***************************************************************************)
(* calculateChecksum and calculateChecksum2 of aenet.cpp: the Internet     *)
(* checksum over 16-bit words read from memory, summed in an unsigned long *)
(* (32 bits on Windows), folded twice, complemented, 0 replaced by 0xffff. *)
(* WordBits is 16 in the code; the accumulator is twice as wide.           *)
(***************************************************************************)
EXTENDS Integers, Sequences

CONSTANT WordBits

WordMod == 2 ^ WordBits
\* The accumulator wraps at 2^(2 * WordBits).  For 16-bit words that is
\* 2^32, beyond TLC's integers: there the wrap is left out, which is sound
\* because the packets summed are at most 16 words, and TLC stops with an
\* overflow error on any sum that would leave its range.
AccWrap(x) == IF 2 * WordBits < 31 THEN x % (2 ^ (2 * WordBits)) ELSE x
Words == 0 .. (WordMod - 1)

\* while (num_words-- > 0) sum += *(words++);  in the unsigned accumulator.
RECURSIVE AddWords(_, _)
AddWords(sum, ws) ==
    IF ws = <<>> THEN sum ELSE AddWords(AccWrap(sum + Head(ws)), Tail(ws))

\* Seeded fault: the carry is folded back only once.
FinishOneFold(sum) ==
    LET f1 == (sum \div WordMod) + (sum % WordMod)
        result == (WordMod - 1) - (f1 % WordMod)
    IN IF result = 0 THEN WordMod - 1 ELSE result

\* sum = (sum >> 16) + (sum & 0xFFFF); sum += sum >> 16;
\* result = (unsigned short) ~sum; if (result == 0) result = 0xffff;
Finish(sum) ==
    LET f1 == (sum \div WordMod) + (sum % WordMod)
        f2 == AccWrap(f1 + f1 \div WordMod)
        result == (WordMod - 1) - (f2 % WordMod)
    IN IF result = 0 THEN WordMod - 1 ELSE result

CalculateChecksum(ws) == Finish(AddWords(0, ws))

CalculateChecksum2(ws1, ws2) == Finish(AddWords(AddWords(0, ws1), ws2))

(***************************************************************************)
(* The reference: RFC 1071's one's-complement addition with end-around    *)
(* carry, word by word, and its complement.                               *)
(***************************************************************************)
OnesAdd(a, b) == IF a + b >= WordMod THEN a + b - WordMod + 1 ELSE a + b

RECURSIVE OnesSum(_)
OnesSum(ws) == IF ws = <<>> THEN 0 ELSE OnesAdd(Head(ws), OnesSum(Tail(ws)))

RefChecksum(ws) ==
    LET c == (WordMod - 1) - OnesSum(ws) IN IF c = 0 THEN WordMod - 1 ELSE c
=============================================================================
