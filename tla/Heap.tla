-------------------------------- MODULE Heap --------------------------------
(***************************************************************************)
(* The heap of base_struct/Hheap.c: dataSpace as a sequence, whose element *)
(* 1 is the root.  A heap holds names, which are numbers; key[x] is what   *)
(* Campare compares.                                                       *)
(***************************************************************************)
EXTENDS Integers, Sequences, SequencesExt

Heaps == Seq(Nat)

Swap(h, i, j) == [h EXCEPT ![i] = h[j], ![j] = h[i]]

AdjustUp(heap, key, at) ==
    LET up[p \in Heaps \X Nat] ==
            LET h == p[1]
                i == p[2]
            IN  IF i \notin 2 .. Len(h) \/ key[h[i \div 2]] <= key[h[i]] THEN h
                ELSE up[<<Swap(h, i, i \div 2), i \div 2>>]
    IN  up[<<heap, at>>]

(* The smaller child, the left one when they are equal. *)
Child(h, key, i) ==
    IF 2 * i + 1 <= Len(h) /\ key[h[2 * i]] > key[h[2 * i + 1]]
    THEN 2 * i + 1 ELSE 2 * i

AdjustDown(heap, key, at) ==
    LET down[p \in Heaps \X Nat] ==
            LET h == p[1]
                i == p[2]
                c == Child(h, key, i)
            IN  IF 2 * i \notin 2 .. Len(h) \/ key[h[i]] <= key[h[c]] THEN h
                ELSE down[<<Swap(h, i, c), c>>]
    IN  down[<<heap, at>>]

AddHeapVal(h, key, x) == AdjustUp(Append(h, x), key, Len(h) + 1)

(* Mutant of Cut: nothing is moved down. *)
CutOnly(h, key, i) == Front(Swap(h, i, Len(h)))

(* The last element takes the place of the i-th; then the ROOT is moved    *)
(* down, whatever i is.                                                    *)
Cut(h, key, i) == AdjustDown(Front(Swap(h, i, Len(h))), key, 1)

(* popHead and delHead, of a heap that is not empty *)
DelHead(h, key) == Cut(h, key, 1)

(* delMatch: the last match goes. *)
DelMatch(h, key, x) ==
    LET i == SelectLastInSeq(h, LAMBDA y : y = x)
    IN  IF i = 0 THEN h ELSE Cut(h, key, i)

IsMinHeap(h, key) == \A i \in 2 .. Len(h) : key[h[i \div 2]] <= key[h[i]]
=============================================================================
