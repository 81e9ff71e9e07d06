---------------------------- MODULE Conversions ----------------------------
(***************************************************************************)
(* The inputs of modules Text and Numbers: a text that grows byte by byte, *)
(* or a number, and what the conversions promise of each.                  *)
(***************************************************************************)
EXTENDS Text, Numbers

CONSTANTS
    QuotingBytes,   \* the bytes of strings to be quoted
    Separators,     \* the separators of lists
    NumeralBytes,   \* the bytes of texts that may be numbers
    MaxText,        \* their longest length: bound of the model
    Lengths         \* the lengths of replies

VARIABLES topic, text, length

vars == <<topic, text, length>>

Init ==
    /\ topic \in {"quoting", "numeral", "header"}
    /\ text = <<>>
    /\ IF topic = "header" THEN length \in Lengths ELSE length = 0

Type(bytes, c) ==
    /\ Len(text) < MaxText
    /\ c \in bytes
    /\ text' = Append(text, c)
    /\ UNCHANGED <<topic, length>>

Next ==
    \/ topic = "quoting" /\ \E c \in QuotingBytes : Type(QuotingBytes, c)
    \/ topic = "numeral" /\ \E c \in NumeralBytes : Type(NumeralBytes, c)

(* What sdscatrepr has quoted, sdssplitargs reads back, whatever the bytes *)
(* are and whatever is quoted behind it on the line: sds.c:928 says so.    *)
(* What sdssplitlen has split, sdsjoinsds puts together, and no part has   *)
(* the separator in it.                                                    *)
TextInverted ==
    topic = "quoting" =>
        /\ \A i \in 0 .. Len(text) :
               LET first  == SubSeq(text, 1, i)
                   second == SubSeq(text, i + 1, Len(text))
               IN  SplitArgs(Repr(first) \o <<" ">> \o Repr(second))
                       = [ok |-> TRUE, args |-> <<first, second>>]
        /\ \A sep \in Separators :
               LET parts == SplitLen(text, sep)
               IN  /\ Join(parts, sep) = text
                   /\ \A i \in DOMAIN parts : Len(SplitLen(parts[i], sep)) <= 1

(* string2ll accepts exactly the texts that ll2string writes, the two      *)
(* ends of the range among them, and gives their number back: util.c:340.  *)
(* A text whose product or sum wraps is refused, not misread.  sdsll2str   *)
(* writes the same text.                                                   *)
NumeralsCanonical ==
    topic = "numeral" =>
        LET parsed == String2ll(text)
        IN  /\ parsed.ok => /\ parsed.value \in LLMin .. LLMax
                            /\ Ll2string(Width, parsed.value) = text
                            /\ Sdsll2str(parsed.value) = text
            /\ (\E n \in LLMin .. LLMax : Ll2string(Width, n) = text) => parsed.ok

(* The header of a reply is its length up to seven digits.  With eight     *)
(* addReplyLenHead writes one byte past its buffer, and with nine, which   *)
(* the parser allows, the number is missing.                               *)
HeadsBounded ==
    topic = "header" =>
        LET head == LenHead(length)
        IN  /\ head.overrun <=> length \in 10000000 .. 99999999
            /\ (length < 100000000) <=>
                   head.bytes = <<"$">> \o Decimal[length] \o <<"\r", "\n">>

(* The numbers the protocol and the replies are made of *)
NumbersRight == NumeralsCanonical /\ HeadsBounded
=============================================================================
