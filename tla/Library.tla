------------------------------- MODULE Library ------------------------------
(***************************************************************************)
(* The parts that keep nothing of each other, side by side: a behaviour is *)
(* one of the list, of the skip list, of a dynamic string, of the          *)
(* conversions or of the sockets, and the others rest.                     *)
(***************************************************************************)
EXTENDS Integers, Sequences, FiniteSets

CONSTANTS
    Values, MaxLength,                                      \* of HList
    Powers, MaxLevel, MaxNodes,                             \* of SkipList
    Bits, MaxPrealloc, PrintBuffer, Bytes, NulByte, MaxText, \* of Sds
    Width, QuotingBytes, Separators, NumeralBytes, MaxConverted,
    Lengths,                                                \* of Conversions
    Descriptors, MaxAddresses, Count                        \* of Sockets

(* Lengths and descriptors are numbers.  The header of the greatest type   *)
(* holds twice what the longest string and a read behind it need.          *)
ASSUME LibraryAssumption ==
    /\ MaxLength \in Nat
    /\ Powers \subseteq Nat /\ MaxLevel \in Nat \ {0} /\ MaxNodes \in Nat
    /\ Bits \in Seq(Nat) /\ Len(Bits) >= 2
    /\ \A t \in DOMAIN Bits : 2 ^ Bits[t] \in Nat \ {0}
    /\ 2 ^ Bits[1] <= 2 ^ Bits[2]
    /\ MaxText \in Nat /\ 2 * (MaxText + 3) < 2 ^ Bits[Len(Bits)]
    /\ MaxPrealloc \in Nat /\ PrintBuffer \in Nat \ {0}
    /\ Descriptors \subseteq Nat /\ Count \in Nat

VARIABLES
    subject,
    nodes, head, tail, length, order, defined,
    next, power, count, twice,
    str, meant,
    topic, text, size,
    call, left, sock, open, lists, held, moved

listVars == <<nodes, head, tail, length, order, defined>>
skipVars == <<next, power, count, twice>>
sdsVars  == <<str, meant>>
textVars == <<topic, text, size>>
netVars  == <<call, left, sock, open, lists, held, moved>>

vars == <<subject, listVars, skipVars, sdsVars, textVars, netVars>>

List     == INSTANCE HList
Skip     == INSTANCE SkipList
Strings  == INSTANCE Sds WITH Nul <- NulByte
Convert  == INSTANCE Conversions WITH MaxText <- MaxConverted, length <- size
Net      == INSTANCE Sockets WITH s <- sock

Init ==
    /\ subject \in {"list", "skip list", "strings", "conversions", "sockets"}
    /\ List!Init /\ Skip!Init /\ Strings!Init /\ Net!Init
    /\ IF subject = "conversions" THEN Convert!Init
       ELSE topic = "" /\ text = <<>> /\ size = 0

Next ==
    \/ /\ subject = "list" /\ List!Next
       /\ UNCHANGED <<subject, skipVars, sdsVars, textVars, netVars>>
    \/ /\ subject = "skip list" /\ Skip!Next
       /\ UNCHANGED <<subject, listVars, sdsVars, textVars, netVars>>
    \/ /\ subject = "strings" /\ Strings!Next
       /\ UNCHANGED <<subject, listVars, skipVars, textVars, netVars>>
    \/ /\ subject = "conversions" /\ Convert!Next
       /\ UNCHANGED <<subject, listVars, skipVars, sdsVars, netVars>>
    \/ /\ subject = "sockets" /\ Net!Next
       /\ UNCHANGED <<subject, listVars, skipVars, sdsVars, textVars>>

Spec == Init /\ [][Next]_vars

(* ListIntact of module HList: hlist.c *)
ListIntact == List!ListIntact

(* SkipListIntact of module SkipList: hskiplist.c *)
SkipListIntact == Skip!SkipListIntact

(* SdsIntact of module Sds: sds.c and sds.h *)
SdsIntact == Strings!SdsIntact

(* TextInverted of module Conversions: the quoting and splitting of sds.c *)
TextInverted == Convert!TextInverted

(* NumbersRight of module Conversions: the numbers of util.c, sds.c and    *)
(* addReplyLenHead of networking.c                                         *)
NumbersRight == Convert!NumbersRight

(* SocketsRight of module Sockets: hnet.c *)
SocketsRight == Net!SocketsRight
=============================================================================
