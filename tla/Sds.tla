-------------------------------- MODULE Sds ---------------------------------
(***************************************************************************)
(* The dynamic strings of base_struct/sds.c and sds.h.  A string is a      *)
(* header, whose len and alloc have the bits of the header's type, and a   *)
(* buffer; type 5 has no alloc.  room is what was really allocated for the *)
(* bytes, and text what was written there before the terminator.  Every    *)
(* operation writes the terminator after text.  malloc does not fail.      *)
(***************************************************************************)
EXTENDS Integers, Sequences, SequencesExt, FiniteSetsExt

CONSTANTS
    Bits,           \* the bits of len in the types 5, 8, 16, 32 and 64
    MaxPrealloc,    \* SDS_MAX_PREALLOC, 1024 * 1024
    PrintBuffer,    \* sizeof(staticbuf), 1024
    Bytes,          \* the bytes of strings
    Nul,            \* the byte 0, one of them
    MaxText         \* bound of the model on the length of a string

VARIABLES
    str,            \* the string: type, len, alloc, room, text
    meant           \* history: what it should hold

vars == <<str, meant>>

Types == DOMAIN Bits
Capacity(type) == 2 ^ Bits[type]
Type5 == 1
Type8 == 2

(* sdslen, sdsalloc, sdsavail *)
Alloc(s) == IF s.type = Type5 THEN s.len ELSE s.alloc
Avail(s) == IF s.type = Type5 THEN 0 ELSE s.alloc - s.len

(* sdssetlen, sdsinclen and sdssetalloc keep the bits there is room for. *)
SetLen(s, n)   == [s EXCEPT !.len = n % Capacity(s.type)]
SetAlloc(s, n) == [s EXCEPT !.alloc = IF s.type = Type5 THEN 0 ELSE n % Capacity(s.type)]

(* Mutant of ReqType: a type holds one more than it does. *)
ReqTypeOneMore(size) == Min({t \in Types : size <= Capacity(t) \/ t = Len(Bits)})

(* sdsReqType *)
ReqType(size) == Min({t \in Types : size < Capacity(t) \/ t = Len(Bits)})

(* sdsnewlen: an empty string is for appending and gets type 8. *)
NewLen(t) ==
    LET type == IF t = <<>> THEN Type8 ELSE ReqType(Len(t))
        s    == [type |-> type, len |-> 0, alloc |-> 0, room |-> Len(t), text |-> t]
    IN  SetAlloc(SetLen(s, Len(t)), Len(t))

(* A buffer of another size, and the header for it *)
Resized(s, type, room) ==
    SetAlloc(SetLen([s EXCEPT !.type = type, !.room = room], s.len), room)

(* sdsMakeRoomFor *)
MakeRoomFor(s, addlen) ==
    LET need   == s.len + addlen
        newlen == IF need < MaxPrealloc THEN 2 * need ELSE need + MaxPrealloc
        type   == ReqType(newlen)
    IN  IF Avail(s) >= addlen THEN s
        ELSE Resized(s, IF type = Type5 THEN Type8 ELSE type, newlen)

(* sdsRemoveFreeSpace *)
RemoveFreeSpace(s) == Resized(s, ReqType(s.len), s.len)

(* The bytes are written at a place, and the length set to their end. *)
Written(s, at, t) == SetLen([s EXCEPT !.text = SubSeq(@, 1, at) \o t], at + Len(t))

(* sdscatlen, sdscat, sdscatsds *)
CatLen(s, t) == Written(MakeRoomFor(s, Len(t)), s.len, t)

(* sdscpylen, sdscpy *)
CpyLen(s, t) ==
    Written(IF Alloc(s) < Len(t) THEN MakeRoomFor(s, Len(t) - s.len) ELSE s, 0, t)

(* sdsgrowzero *)
GrowZero(s, len) ==
    IF len <= s.len THEN s
    ELSE Written(MakeRoomFor(s, len - s.len), s.len, [i \in 1 .. len - s.len |-> Nul])

(* sdscatvprintf: the buffer is doubled until its last byte but one is not *)
(* written; the text in it, cut to its size, is appended.                  *)
CatPrintf(s, t) ==
    LET size[n \in Nat] == IF Len(t) >= n - 1 THEN size[2 * n] ELSE n
    IN  CatLen(s, SubSeq(t, 1, Min({Len(t), size[PrintBuffer] - 1})))

(* sdscatfmt: each item of the format is one byte, or text (%s, a number). *)
(* There is room for a byte before an item is looked at, and for the text; *)
(* the place to write to is kept apart from len.                           *)
CatFmt(s, items) ==
    LET roomy(x)      == IF Avail(x) = 0 THEN MakeRoomFor(x, 1) ELSE x
        fits(x, t)    == IF Avail(x) < Len(t) THEN MakeRoomFor(x, Len(t)) ELSE x
        put(x, t)     == SetLen([x EXCEPT !.text = @ \o t], x.len + Len(t))
        item(x, e)    == IF e.plain THEN put(roomy(x), e.text)
                         ELSE put(fits(roomy(x), e.text), e.text)
    IN  FoldLeft(item, s, items)

(* sdsrange; the positions count from 0, negative ones from the end. *)
SdsRange(s, first, last) ==
    LET from   == IF first < 0 THEN Max({s.len + first, 0}) ELSE first
        to     == IF last < 0 THEN Max({s.len + last, 0}) ELSE last
        end    == IF to >= s.len THEN s.len - 1 ELSE to
        newlen == IF from > end \/ from >= s.len THEN 0 ELSE end - from + 1
    IN  IF s.len = 0 THEN s
        ELSE SetLen([s EXCEPT !.text = SubSeq(@, from + 1, from + newlen)], newlen)

(* sdstrim.  strchr finds the terminator of cset too. *)
Trim(s, cset) ==
    LET kept == {i \in 1 .. s.len : s.text[i] \notin cset \cup {Nul}}
        len  == IF kept = {} THEN 0 ELSE Max(kept) - Min(kept) + 1
    IN  SetLen([s EXCEPT !.text =
                   IF kept = {} THEN <<>> ELSE SubSeq(@, Min(kept), Max(kept))], len)

(* sdsupdatelen: up to the first byte 0, or the terminator *)
UpdateLen(s) ==
    LET nul == SelectInSeq(s.text, LAMBDA c : c = Nul)
        len == IF nul = 0 THEN Len(s.text) ELSE nul - 1
    IN  SetLen([s EXCEPT !.text = SubSeq(@, 1, len)], len)

(* sdsIncrLen to the left; the assertion refuses 0 for type 5, and more    *)
(* than there is.                                                          *)
Asserted(s, n) == n <= s.len /\ (s.type = Type5 => n > 0)
CutRight(s, n) == SetLen([s EXCEPT !.text = SubSeq(@, 1, s.len - n)], s.len - n)

(* sdsMakeRoomFor, bytes from a read, and sdsIncrLen to the right *)
ReadInto(s, size, t) == Written(MakeRoomFor(s, size), s.len, t)

-------------------------------------------------------------------------------
Texts == UNION {[1 .. n -> Bytes] : n \in 0 .. 2}

Items == [plain : {TRUE}, text : [1 .. 1 -> Bytes]] \cup [plain : {FALSE}, text : Texts]

Becomes(s, t) == Len(t) <= MaxText /\ str' = s /\ meant' = t

Init == str = NewLen(<<>>) /\ meant = <<>>

New == \E t \in Texts : Becomes(NewLen(t), t)
Dup == Becomes(NewLen(str.text), meant)
AppendText ==
    \E t \in Texts :
        \/ Becomes(CatLen(str, t), meant \o t)
        \/ ~Contains(t, Nul) /\ Becomes(CatPrintf(str, t), meant \o t)
        \/ \E size \in Len(t) .. 3 :
               t # <<>> /\ Becomes(ReadInto(str, size, t), meant \o t)
Format ==
    \E e1, e2 \in Items : Becomes(CatFmt(str, <<e1, e2>>), meant \o e1.text \o e2.text)
Copy == \E t \in Texts : Becomes(CpyLen(str, t), t)
Grow ==
    \E len \in 0 .. MaxText :
        Becomes(GrowZero(str, len), meant \o [i \in 1 .. len - Len(meant) |-> Nul])
Shrink ==
    \/ \E n \in 0 .. str.len :
           Asserted(str, n) /\ Becomes(CutRight(str, n), SubSeq(meant, 1, Len(meant) - n))
    \/ \E first, last \in -3 .. 3 :
           LET place(i) == IF i < 0 THEN Max({Len(meant) + i, 0}) ELSE i
           IN  Becomes(SdsRange(str, first, last),
                       SubSeq(meant, place(first) + 1, Min({place(last) + 1, Len(meant)})))
    \/ \E cset \in SUBSET (Bytes \ {Nul}) :
           LET first == SelectInSeq(meant, LAMBDA c : c \notin cset \cup {Nul})
               last  == SelectLastInSeq(meant, LAMBDA c : c \notin cset \cup {Nul})
           IN  Becomes(Trim(str, cset), IF first = 0 THEN <<>> ELSE SubSeq(meant, first, last))
    \/ Becomes(SetLen([str EXCEPT !.text = <<>>], 0), <<>>)
    \/ LET nul == SelectInSeq(meant, LAMBDA c : c = Nul)
       IN  Becomes(UpdateLen(str), IF nul = 0 THEN meant ELSE SubSeq(meant, 1, nul - 1))
Fit == Becomes(RemoveFreeSpace(str), meant)

Next == New \/ Dup \/ AppendText \/ Format \/ Copy \/ Grow \/ Shrink \/ Fit

-------------------------------------------------------------------------------
(* After any operations the string holds what they mean, its length did    *)
(* not wrap in its header, and the header never promises more bytes than   *)
(* were allocated: nothing is written past the end.                        *)
SdsIntact ==
    /\ SubSeq(str.text, 1, str.len) = meant
    /\ Len(str.text) <= str.room
    /\ Alloc(str) <= str.room /\ Avail(str) >= 0
=============================================================================
