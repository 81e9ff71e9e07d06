-------------------------------- MODULE Text --------------------------------
(***************************************************************************)
(* The quoting of dynamic strings, sdscatrepr and sdssplitargs, and their  *)
(* splitting and joining, sdssplitlen and sdsjoin, of base_struct/sds.c.   *)
(* A string is the sequence of its bytes; a byte is a string of length     *)
(* one, and a byte that is not printable has a name ("byte ff" for 0xff).  *)
(* A C string ends with a zero byte, NUL here.                             *)
(***************************************************************************)
EXTENDS Integers, Sequences, SequencesExt

Nul == "NUL"

At(s, i) == IF i \in 1 .. Len(s) THEN s[i] ELSE Nul

IsSpace(c) == c \in {" ", "\n", "\r", "\t", "VT", "FF"}

(* What ends a word that is not quoted; isspace knows more. *)
EndsWord(c) == c \in {" ", "\n", "\r", "\t", Nul}

IsHexDigit(c) == c \in {"0", "1", "2", "3", "4", "5", "6", "7", "8", "9",
                        "a", "b", "c", "d", "e", "f", "A", "B", "C", "D", "E", "F"}

(* hex_digit_to_int of both digits, for the bytes that have a name here *)
Byte(h, l) == "byte " \o h \o l

Letters == [n |-> "\n", r |-> "\r", t |-> "\t", a |-> "BEL", b |-> "BS"]

NotPrintable == {"byte ff"}

-------------------------------------------------------------------------------
(* sdscatrepr: one byte of the string between the quotes. *)

(* Mutant of ReprByte: a backslash is not escaped. *)
ReprByteQuoteOnly(c) ==
    IF c = "\"" THEN <<"\\", c>>
    ELSE IF \E e \in DOMAIN Letters : Letters[e] = c
         THEN <<"\\", CHOOSE e \in DOMAIN Letters : Letters[e] = c>>
    ELSE IF c \in NotPrintable THEN <<"\\", "x", "f", "f">>
    ELSE <<c>>

ReprByte(c) ==
    IF c \in {"\\", "\""} THEN <<"\\", c>>
    ELSE IF \E e \in DOMAIN Letters : Letters[e] = c
         THEN <<"\\", CHOOSE e \in DOMAIN Letters : Letters[e] = c>>
    ELSE IF c \in NotPrintable THEN <<"\\", "x", "f", "f">>
    ELSE <<c>>

Repr(s) ==
    <<"\"">> \o FlattenSeq([i \in DOMAIN s |-> ReprByte(s[i])]) \o <<"\"">>

-------------------------------------------------------------------------------
(* sdssplitargs, as a fold over the positions of the line, the closing NUL *)
(* included.  mode says where the position is, skip how many more bytes    *)
(* the last escape takes, word is current and words is vector.             *)

Start == [mode |-> "blank", skip |-> 0, word |-> <<>>, words |-> <<>>]

Failed == [Start EXCEPT !.mode = "error"]

Taken(p, c, n) == [p EXCEPT !.word = Append(@, c), !.skip = n]

WordDone(p) ==
    [p EXCEPT !.mode = "blank", !.word = <<>>, !.words = Append(@, p.word)]

(* A closing quote must be followed by a space or nothing at all. *)
QuoteClosed(p, next) ==
    IF next = Nul \/ IsSpace(next) THEN WordDone(p) ELSE Failed

InDoubleQuotes(s, i, p) ==
    LET c == At(s, i)
        d == At(s, i + 1)
    IN  CASE c = "\\" /\ d = "x" /\ IsHexDigit(At(s, i + 2)) /\ IsHexDigit(At(s, i + 3)) ->
                 Taken(p, Byte(At(s, i + 2), At(s, i + 3)), 3)
          [] c = "\\" /\ d # Nul
                 /\ ~(d = "x" /\ IsHexDigit(At(s, i + 2)) /\ IsHexDigit(At(s, i + 3))) ->
                 Taken(p, IF d \in DOMAIN Letters THEN Letters[d] ELSE d, 1)
          [] c = "\"" -> QuoteClosed(p, d)
          [] c = Nul -> Failed
          [] OTHER -> Taken(p, c, 0)

InSingleQuotes(s, i, p) ==
    LET c == At(s, i)
        d == At(s, i + 1)
    IN  CASE c = "\\" /\ d = "'" -> Taken(p, d, 1)
          [] c = "'" -> QuoteClosed(p, d)
          [] c = Nul -> Failed
          [] OTHER -> Taken(p, c, 0)

Unquoted(s, i, p) ==
    LET c == At(s, i)
    IN  CASE EndsWord(c) -> WordDone(p)
          [] c = "\"" -> [p EXCEPT !.mode = "double"]
          [] c = "'" -> [p EXCEPT !.mode = "single"]
          [] OTHER -> [Taken(p, c, 0) EXCEPT !.mode = "word"]

Step(s, p, i) ==
    CASE p.mode = "error" -> p
      [] p.skip > 0 -> [p EXCEPT !.skip = @ - 1]
      [] p.mode = "double" /\ p.skip = 0 -> InDoubleQuotes(s, i, p)
      [] p.mode = "single" /\ p.skip = 0 -> InSingleQuotes(s, i, p)
      [] p.mode = "word" /\ p.skip = 0 -> Unquoted(s, i, p)
      [] p.mode = "blank" /\ p.skip = 0 ->
             IF At(s, i) = Nul \/ IsSpace(At(s, i)) THEN p ELSE Unquoted(s, i, p)

(* The words of a line; ok is FALSE where the C function returns NULL.     *)
(* (The set around the step has TLC evaluate p once.)                      *)
SplitArgs(s) ==
    LET end == FoldLeft(LAMBDA p, i : CHOOSE r \in {Step(s, x, i) : x \in {p}} : TRUE,
                        Start, [i \in 1 .. Len(s) + 1 |-> i])
    IN  [ok |-> end.mode # "error", args |-> end.words]

-------------------------------------------------------------------------------
(* sdssplitlen, as a fold over the positions where a separator fits, and   *)
(* sdsjoin, sdsjoinsds.  An empty text has no parts.                       *)

SplitLen(s, sep) ==
    LET at(p, j) ==
            IF j >= p.start /\ SubSeq(s, j, j + Len(sep) - 1) = sep
            THEN [start |-> j + Len(sep),
                  parts |-> Append(p.parts, SubSeq(s, p.start, j - 1))]
            ELSE p
        end == FoldLeft(at, [start |-> 1, parts |-> <<>>],
                        [j \in 1 .. Len(s) - Len(sep) + 1 |-> j])
    IN  IF s = <<>> THEN <<>> ELSE Append(end.parts, SubSeq(s, end.start, Len(s)))

Join(parts, sep) ==
    FlattenSeq([i \in DOMAIN parts |->
                   IF i < Len(parts) THEN parts[i] \o sep ELSE parts[i]])
=============================================================================
