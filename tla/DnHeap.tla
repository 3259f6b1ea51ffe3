------------------------------- MODULE DnHeap -------------------------------
(***************************************************************************)
(* The binary heaps of dummynet.  A heap is the sequence of its entries    *)
(* (element 0 of the code's array is element 1 here, so the father of i is *)
(* i \div 2).  The objects store the index they are at, all heaps of a     *)
(* scheduler in the same field heap_pos: an operation is given that        *)
(* function and gives [p |-> the entries, pos |-> the stored indices].     *)
(*                                                                         *)
(* Keys are virtual times: unsigned words of TsBits bits (64 in the code)  *)
(* that wrap around and are compared by the sign of their difference.      *)
(***************************************************************************)
EXTENDS Integers, Sequences

CONSTANT TsBits

ASSUME TsAssumption == TsBits \in Nat \ {0}

TS == 2 ^ TsBits

Plus(a, b) == (a + b) % TS

\* Mutant of DN_KEY_LT: the words are compared as they stand.
KeyLtUnsigned(a, b) == a < b

DN_KEY_LT(a, b) == (a - b) % TS >= TS \div 2

DN_KEY_LEQ(a, b) == a = b \/ DN_KEY_LT(a, b)

\* A difference of two times that is positive as a signed word.
Positive(d) == d % TS \in 1 .. TS \div 2 - 1

MAX64(x, y) == IF Positive(y - x) THEN y ELSE x

NoPos == 0   \* RESET_OFFSET

HEAP_FATHER(i) == i \div 2
HEAP_LEFT(i) == 2 * i

-----------------------------------------------------------------------------
\* The indices from i up to the root.
UpFrom(i) ==
  LET up[j \in Nat] == IF j = 0 THEN {} ELSE {j} \cup up[HEAP_FATHER(j)]
  IN  up[i]

\* SET_OFFSET for the entries at the indices is.
SetOffsets(p, pos, is) ==
  [o \in DOMAIN pos |->
     IF \E i \in is : p[i].obj = o
     THEN CHOOSE i \in is : p[i].obj = o
     ELSE pos[o]]

\* The loop of heap_insert: the entry at son moves up past every father whose
\* key is not smaller; the fathers it passes move down one level each.
BubbleUp(p, pos, son) ==
  LET rise[i \in Nat] ==
        IF i = 1 \/ DN_KEY_LT(p[HEAP_FATHER(i)].key, p[son].key)
        THEN i ELSE rise[HEAP_FATHER(i)]
      top  == rise[son]
      path == {i \in UpFrom(son) : i >= top}
      q    == [i \in DOMAIN p |->
                 IF i = top THEN p[son]
                 ELSE IF i \in path THEN p[HEAP_FATHER(i)] ELSE p[i]]
  IN  [p |-> q, pos |-> SetOffsets(q, pos, path)]

\* heap_insert of a new object; memory for a larger array is assumed (the
\* heaps start with 16 entries and double).
heap_insert(p, pos, key, o) ==
  BubbleUp(Append(p, [key |-> key, obj |-> o]), pos, Len(p) + 1)

HEAP_TOP(p) == p[1]

\* heap_extract of the entry at index father (the top, or the index stored in
\* the object): the hole goes down along the smallest children to the bottom,
\* where the last entry of the array fills it and bubbles up.
heap_extract(p, pos, father) ==
  LET max == Len(p)
      child(i) ==
        LET l == HEAP_LEFT(i)
        IN  IF l # max /\ DN_KEY_LT(p[l + 1].key, p[l].key) THEN l + 1 ELSE l
      sink[i \in Nat] == IF HEAP_LEFT(i) > max THEN i ELSE sink[child(i)]
      hole == sink[father]
      path == {i \in UpFrom(hole) : i >= father /\ i # hole}
      q    == [i \in DOMAIN p |->
                 IF i \in path THEN p[child(i)]
                 ELSE IF i = hole THEN p[max] ELSE p[i]]
      left == SubSeq(q, 1, max - 1)
      pos1 == SetOffsets(left, [pos EXCEPT ![p[father].obj] = NoPos], path)
  IN  IF hole = max THEN [p |-> left, pos |-> pos1]
                    ELSE BubbleUp(left, pos1, hole)

-----------------------------------------------------------------------------
\* What a heap is: no entry before its father, and every object of it at the
\* index it has stored.
HeapOrdered(p, pos) ==
  /\ \A i \in 2 .. Len(p) : DN_KEY_LEQ(p[HEAP_FATHER(i)].key, p[i].key)
  /\ \A i \in 1 .. Len(p) : pos[p[i].obj] = i

=============================================================================
