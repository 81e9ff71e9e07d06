------------------------------ MODULE Numbers ------------------------------
(***************************************************************************)
(* Numbers as text: string2ll, ll2string and digits10 of redis_src/util.c, *)
(* and the length header that server/networking.c makes with them.  A long *)
(* long has Width bits.                                                    *)
(***************************************************************************)
EXTENDS Integers, Sequences, SequencesExt

CONSTANT Width      \* bits of a long long: 64, less here

ULLMax == 2 ^ Width - 1
LLMax  == 2 ^ (Width - 1) - 1
LLMin  == -LLMax - 1

Digits == <<"0", "1", "2", "3", "4", "5", "6", "7", "8", "9">>

IsDigit(c) == Contains(Digits, c)
DigitValue(c) == (CHOOSE d \in 1 .. 10 : Digits[d] = c) - 1
DigitOf(n) == Digits[n + 1]

-------------------------------------------------------------------------------
(* string2ll *)

Overflow == -1

(* Mutant of NextValue: only the product is tested. *)
NextValueProductOnly(v, c) ==
    IF v = Overflow \/ v > ULLMax \div 10 THEN Overflow
    ELSE (10 * v + DigitValue(c)) % (ULLMax + 1)

(* The two tests of the loop: before v *= 10 and before v += digit. *)
NextValue(v, c) ==
    IF v = Overflow \/ v > ULLMax \div 10 \/ 10 * v > ULLMax - DigitValue(c)
    THEN Overflow
    ELSE 10 * v + DigitValue(c)

NoNumber == [ok |-> FALSE, value |-> 0]

(* Strict: no sign but a minus, no leading zero, nothing after the digits. *)
String2ll(s) ==
    LET negative == s # <<>> /\ s[1] = "-"
        digits   == IF negative THEN Tail(s) ELSE s
        v        == FoldLeft(NextValue, 0, digits)
    IN  IF s = <<"0">> THEN [ok |-> TRUE, value |-> 0]
        ELSE IF \/ digits = <<>>
                \/ \E i \in DOMAIN digits : ~IsDigit(digits[i])
             THEN NoNumber
        ELSE IF \/ digits[1] = "0"
                \/ v = Overflow
                \/ v > (IF negative THEN LLMax + 1 ELSE LLMax)
             THEN NoNumber
        ELSE [ok |-> TRUE, value |-> IF negative THEN -v ELSE v]

-------------------------------------------------------------------------------
(* ll2string *)

(* digits10, for the numbers TLC has: below 2^31. *)
Digits10(v) ==
    CASE v < 10 -> 1
      [] v >= 10 /\ v < 100 -> 2
      [] v >= 100 /\ v < 1000 -> 3
      [] v >= 1000 /\ v < 10000 -> 4
      [] v >= 10000 /\ v < 1000000 -> IF v >= 100000 THEN 6 ELSE 5
      [] v >= 1000000 /\ v < 100000000 -> IF v >= 10000000 THEN 8 ELSE 7
      [] v >= 100000000 -> IF v >= 1000000000 THEN 10 ELSE 9

(* Two digits at a time, from the right; the last step writes one or two. *)
Decimal[v \in Nat] ==
    IF v < 10 THEN <<DigitOf(v)>>
    ELSE LET pair == <<DigitOf((v % 100) \div 10), DigitOf(v % 10)>>
         IN  IF v < 100 THEN pair ELSE Decimal[v \div 100] \o pair

(* The text in dst, or nothing when it does not fit: then dst is not       *)
(* written and the length returned is 0.  The digits are written from      *)
(* the position digits10 gives leftwards; "?" is a byte they miss.         *)
Ll2string(dstlen, n) ==
    LET value  == IF n < 0 THEN -n ELSE n
        minus  == IF n < 0 THEN <<"-">> ELSE <<>>
        length == Digits10(value) + Len(minus)
        body   == Decimal[value]
    IN  IF length >= dstlen
        THEN <<>>
        ELSE minus \o [i \in 1 .. length - Len(minus) - Len(body) |-> "?"] \o body

(* sdsll2str: digit by digit, from the right, and turned round.  The       *)
(* absolute value is taken as a long long: for the least one, which has    *)
(* none, as gcc computes it.                                               *)
Sdsll2str(n) ==
    LET value == IF n < 0 THEN -n ELSE n
        backwards[v \in Nat] ==
            <<DigitOf(v % 10)>> \o IF v < 10 THEN <<>> ELSE backwards[v \div 10]
    IN  Reverse(backwards[value] \o IF n < 0 THEN <<"-">> ELSE <<>>)

-------------------------------------------------------------------------------
(* addReplyLenHead: the prefix, the length and \r\n in a buffer of 10. *)

HeadSize == 10

LenHead(n) ==
    LET text == Ll2string(HeadSize - 1, n)
    IN  [bytes   |-> <<"$">> \o text \o <<"\r", "\n">>,
         overrun |-> Len(text) + 3 > HeadSize]
=============================================================================
