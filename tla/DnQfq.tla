-------------------------------- MODULE DnQfq --------------------------------
(***************************************************************************)
(* The QFQ scheduler of dummynet.  The flows are divided into groups by    *)
(* maximum packet length over weight; a group keeps its flows in buckets   *)
(* by rounded start time, and is itself in one of four sets: eligible or   *)
(* not (E, I), ready or blocked by a group with a larger index and an      *)
(* earlier finish time (R, B).  The bitmaps of the groups are sets of      *)
(* indices here.  The buckets of a group are a circular array with the bit *)
(* mask full_slots, both counted from the index front: here, the sequence  *)
(* of the buckets from the front to the last one with a flow.  It stands   *)
(* for the array while it is no longer than QFQ_MAX_SLOTS.  The times of a *)
(* group without flows are not read, and 0 here.                           *)
(***************************************************************************)
EXTENDS DnFlows, DnHeap

CONSTANTS
  QFQ_MAX_SLOTS,    \* 32 in the code
  QFQ_MAX_INDEX,    \* 19
  QFQ_MTU_SHIFT,    \* 11
  QFQ_MAX_WEIGHT,   \* 2^16
  QFQ_MAX_LEN       \* 2000

QFQ_MIN_SLOT_SHIFT == FRAC_BITS + QFQ_MTU_SHIFT - QFQ_MAX_INDEX

Groups == 0 .. QFQ_MAX_INDEX
slot_shift(g) == QFQ_MTU_SHIFT + FRAC_BITS - (QFQ_MAX_INDEX - g)

qfq_gt(a, b) == Positive(a - b)

qfq_round_down(ts, shift) == ts - (ts % 2 ^ shift)

\* The number of the highest bit of a word (__fls).
HighBit(x) == CHOOSE k \in 0 .. 31 : 2 ^ k <= x /\ x < 2 ^ (k + 1)

\* qfq_new_fsk: the parameters of a flow; qfq_new_queue: 1/weight, the weight
\* it stands for and their sum (which stays below QFQ_MAX_WSUM: above it the
\* call fails and leaves the flow without a group).
QfqWeight ==
  [f \in Flows |-> ipdn_bound_var(FlowsetOf[f].w, 1, 1, QFQ_MAX_WEIGHT)]

QfqLmax ==
  [f \in Flows |-> ipdn_bound_var(FlowsetOf[f].len, 1500, 1, QFQ_MAX_LEN)]

QfqInv == [f \in Flows |-> ONE_FP \div QfqWeight[f]]

iwsum == ONE_FP \div SumFunction([f \in Flows |-> ONE_FP \div QfqInv[f]])

\* The group of a flow.
qfq_calc_index(slot_size) ==
  LET size_map == slot_size \div 2 ^ QFQ_MIN_SLOT_SHIFT
      index    == HighBit(size_map) + 1
  IN  IF size_map = 0 THEN 0
      ELSE IF slot_size = 2 ^ (index + QFQ_MIN_SLOT_SHIFT - 1)
           THEN index - 1 ELSE index

grp == [f \in Flows |-> qfq_calc_index(QfqLmax[f] * QfqInv[f])]

EmptyGroup == [S |-> 0, F |-> 0, slots |-> <<>>]

qfq_new_sched ==
  [mq |-> [f \in Flows |-> <<>>], V |-> 0, iwsum |-> iwsum,
   inv_w |-> QfqInv, index |-> grp,
   S |-> [f \in Flows |-> 0], F |-> [f \in Flows |-> 0],
   ER |-> {}, IR |-> {}, EB |-> {}, IB |-> {},
   grp |-> [g \in Groups |-> EmptyGroup]]

-----------------------------------------------------------------------------
\* mask_from and qfq_ffs: the first group of a set at or after an index.
From(set, index) == {g \in set : g >= index}

qfq_ffs(set) == Min(set)

Blocked(s, g) ==
  LET mask == From(s.ER, g)
  IN  mask # {} /\ qfq_gt(s.grp[g].F, s.grp[qfq_ffs(mask)].F)

\* qfq_calc_state, and the set bit of the state in the bitmaps.
EnterState(s, g) ==
  IF qfq_gt(s.grp[g].S, s.V)
  THEN IF Blocked(s, g) THEN [s EXCEPT !.IB = @ \cup {g}]
                        ELSE [s EXCEPT !.IR = @ \cup {g}]
  ELSE IF Blocked(s, g) THEN [s EXCEPT !.EB = @ \cup {g}]
                        ELSE [s EXCEPT !.ER = @ \cup {g}]

\* Mutant of qfq_unblock_groups: a group that has gone away unblocks nobody.
UnblockOnlyFull(s, index, old_finish) ==
  IF s.grp[index].slots = <<>> THEN s
  ELSE LET below == {g \in Groups : g < index}
       IN  [s EXCEPT !.ER = @ \cup (s.EB \cap below), !.EB = @ \ below,
                     !.IR = @ \cup (s.IB \cap below), !.IB = @ \ below]

qfq_unblock_groups(s, index, old_finish) ==
  LET mask  == From(s.ER, index + 1)
      below == {g \in Groups : g < index}
  IN  IF mask # {} /\ ~qfq_gt(s.grp[qfq_ffs(mask)].F, old_finish) THEN s
      ELSE [s EXCEPT !.ER = @ \cup (s.EB \cap below), !.EB = @ \ below,
                     !.IR = @ \cup (s.IB \cap below), !.IB = @ \ below]

\* Mutant of qfq_make_eligible: the mask is one bit short (1 << fls).
MakeEligibleShort(s, old_V) ==
  LET slot(v) == v \div 2 ^ QFQ_MIN_SLOT_SHIFT
      high == CHOOSE k \in 0 .. TsBits :
                /\ slot(s.V) \div 2 ^ k # slot(old_V) \div 2 ^ k
                /\ slot(s.V) \div 2 ^ (k + 1) = slot(old_V) \div 2 ^ (k + 1)
      mask == {g \in Groups : g < high}
  IN  IF slot(s.V) = slot(old_V) THEN s
      ELSE [s EXCEPT !.ER = @ \cup (s.IR \cap mask), !.IR = @ \ mask,
                     !.EB = @ \cup (s.IB \cap mask), !.IB = @ \ mask]

\* The groups up to the highest bit in which the slots of the old and the new
\* V differ have become eligible.
qfq_make_eligible(s, old_V) ==
  LET slot(v) == v \div 2 ^ QFQ_MIN_SLOT_SHIFT
      high == CHOOSE k \in 0 .. TsBits :
                /\ slot(s.V) \div 2 ^ k # slot(old_V) \div 2 ^ k
                /\ slot(s.V) \div 2 ^ (k + 1) = slot(old_V) \div 2 ^ (k + 1)
      mask == {g \in Groups : g <= high}
  IN  IF slot(s.V) = slot(old_V) THEN s
      ELSE [s EXCEPT !.ER = @ \cup (s.IR \cap mask), !.IR = @ \ mask,
                     !.EB = @ \cup (s.IB \cap mask), !.IB = @ \ mask]

qfq_update_eligible(s, old_V) ==
  LET ineligible == s.IR \cup s.IB
      S == s.grp[qfq_ffs(ineligible)].S
      t == IF s.ER = {} /\ qfq_gt(S, s.V) THEN [s EXCEPT !.V = S] ELSE s
  IN  IF ineligible = {} THEN s ELSE qfq_make_eligible(t, old_V)

-----------------------------------------------------------------------------
\* The number of a bucket of the group G, counted from the front.
SlotOf(G, g, roundedS) == ((roundedS - G.S) % TS) \div 2 ^ slot_shift(g)

Empty(n) == [i \in 1 .. n |-> <<>>]

qfq_slot_insert(G, g, q, roundedS) ==
  LET slot == SlotOf(G, g, roundedS)
      n    == Max({Len(G.slots), slot + 1})
      all  == G.slots \o Empty(n - Len(G.slots))
  IN  [G EXCEPT !.slots = [all EXCEPT ![slot + 1] = <<q>> \o @]]

qfq_front_slot_remove(G) == [G EXCEPT !.slots[1] = Tail(@)]

\* The first bucket with a flow comes to the front.
qfq_slot_scan(G) ==
  LET full == {i \in DOMAIN G.slots : G.slots[i] # <<>>}
  IN  IF full = {} THEN EmptyGroup
      ELSE [G EXCEPT !.slots = SubSeq(@, Min(full), Len(@))]

\* Room for earlier buckets before the front.
qfq_slot_rotate(G, g, roundedS) ==
  [G EXCEPT !.slots = Empty(((G.S - roundedS) % TS) \div 2 ^ slot_shift(g))
                        \o @]

GroupTimes(G, g, roundedS) ==
  [G EXCEPT !.S = roundedS, !.F = Plus(roundedS, 2 ^ (slot_shift(g) + 1))]

FrontFlow(G) == Head(G.slots[1])

-----------------------------------------------------------------------------
\* qfq_update_start: a finish time that V has passed, or that is ahead by
\* more than a wrap around explains, is stale.
qfq_update_start(s, q) ==
  LET g        == s.index[q]
      roundedF == qfq_round_down(s.F[q], slot_shift(g))
      limit    == Plus(qfq_round_down(s.V, slot_shift(g)), 2 ^ slot_shift(g))
      mask     == From(s.ER, g)
      nextF    == s.grp[qfq_ffs(mask)].F
  IN  IF qfq_gt(s.F[q], s.V) /\ ~qfq_gt(roundedF, limit) THEN s.F[q]
      ELSE IF mask # {} /\ qfq_gt(roundedF, nextF)
           THEN IF qfq_gt(limit, nextF) THEN nextF ELSE limit
           ELSE s.V

\* The flow's group takes over an earlier start time, or its first flow.
QfqNewFront(s, g, roundedS) ==
  LET G == s.grp[g]
      t == IF G.slots # <<>>
           THEN [s EXCEPT !.grp[g] = qfq_slot_rotate(G, g, roundedS),
                          !.IR = @ \ {g}, !.IB = @ \ {g}]
           ELSE IF s.ER = {} /\ qfq_gt(roundedS, s.V)
                THEN [s EXCEPT !.V = roundedS] ELSE s
  IN  EnterState([t EXCEPT !.grp[g] = GroupTimes(@, g, roundedS)], g)

\* The flow, which had no packets, is put into a bucket of its group.
QfqJoin(s, q, g, roundedS) ==
  LET t == IF s.grp[g].slots # <<>> /\ ~qfq_gt(s.grp[g].S, s.S[q]) THEN s
           ELSE QfqNewFront(s, g, roundedS)
  IN  [t EXCEPT !.grp[g] = qfq_slot_insert(@, g, q, roundedS)]

\* The times of the packet that starts at S, in a queue it is already in.
QfqStart(s, q, len, S) ==
  QfqJoin([s EXCEPT !.S[q] = S, !.F[q] = Plus(S, len * s.inv_w[q])], q,
          s.index[q], qfq_round_down(S, slot_shift(s.index[q])))

qfq_enqueue(s, q, len) ==
  IF Backlogged(s, q) THEN dn_enqueue(s, q, len)
  ELSE QfqStart(dn_enqueue(s, q, len), q, len, qfq_update_start(s, q))

-----------------------------------------------------------------------------
\* qfq_update_class, on a state in which the packet is already gone: the times
\* of the flow, and the flow in the bucket of its next packet.
QfqClassTimes(s, q) ==
  [s EXCEPT !.S[q] = s.F[q],
            !.F[q] = IF Backlogged(s, q)
                     THEN Plus(@, Head(s.mq[q]) * s.inv_w[q]) ELSE @]

SameBucket(s, q, g) ==
  /\ Backlogged(s, q)
  /\ qfq_round_down(s.S[q], slot_shift(g)) = s.grp[g].S

QfqMoveClass(s, q, g) ==
  LET G == qfq_front_slot_remove(s.grp[g])
  IN  [s EXCEPT !.grp[g] =
         IF Backlogged(s, q)
         THEN qfq_slot_insert(G, g, q, qfq_round_down(s.S[q], slot_shift(g)))
         ELSE G]

\* The group of the served flow leaves ER, or takes the times of its new front
\* flow and the state that follows; who waited for it is unblocked.
QfqMoveGroup(s, g) ==
  LET F == s.grp[g].F
      G == qfq_slot_scan(s.grp[g])
      t == [s EXCEPT !.grp[g] = G, !.ER = @ \ {g}]
      roundedS == qfq_round_down(s.S[FrontFlow(G)], slot_shift(g))
  IN  IF G.slots = <<>>
      THEN qfq_unblock_groups(t, g, F)
      ELSE IF G.S = roundedS THEN [s EXCEPT !.grp[g] = G]
      ELSE qfq_unblock_groups(
             EnterState([t EXCEPT !.grp[g] = GroupTimes(G, g, roundedS)], g),
             g, F)

QfqMove(s, q, g) ==
  IF SameBucket(s, q, g) THEN s ELSE QfqMoveGroup(QfqMoveClass(s, q, g), g)

QfqServe(s, q, g) ==
  [m |-> Packet(s, q),
   s |-> qfq_update_eligible(
           QfqMove(QfqClassTimes([dn_dequeue(s, q) EXCEPT
                                    !.V = Plus(@, Head(s.mq[q]) * s.iwsum)], q),
                   q, g), s.V)]

qfq_dequeue(s) ==
  LET g == qfq_ffs(s.ER)
  IN  IF s.ER = {} THEN [m |-> NULL, s |-> s]
      ELSE QfqServe(s, FrontFlow(s.grp[g]), g)

-----------------------------------------------------------------------------
\* A group with flows is in exactly one of the four sets, an empty one in none,
\* and some group is in ER when there is one with flows.  A group has no more
\* buckets than the array, with a flow in the first and the last; its flows are
\* the ones with packets, each in the bucket of its start time.  The groups in
\* ER are eligible and sorted by finish time, so that the first is the one to
\* serve; a blocked group finishes later than a ready one with a larger index.
QfqConsistent(s) ==
  /\ \A g \in Groups :
       LET b == s.grp[g].slots
           busy == {q \in Flows : s.index[q] = g /\ Backlogged(s, q)}
       IN  /\ Cardinality({x \in {"ER", "IR", "EB", "IB"} : g \in s[x]})
                = IF b = <<>> THEN 0 ELSE 1
           /\ Len(b) <= QFQ_MAX_SLOTS
           /\ b # <<>> => Head(b) # <<>> /\ Last(b) # <<>>
           /\ Cardinality(busy) = Len(FlattenSeq(b))
           /\ \A q \in busy :
                LET i == SlotOf(s.grp[g], g,
                                qfq_round_down(s.S[q], slot_shift(g)))
                IN  i + 1 \in DOMAIN b /\ q \in Range(b[i + 1])
  /\ (\E g \in Groups : s.grp[g].slots # <<>>) => s.ER # {}
  /\ \A g \in s.ER : ~qfq_gt(s.grp[g].S, s.V)
  /\ \A g, h \in s.ER : g < h => ~qfq_gt(s.grp[g].F, s.grp[h].F)
  /\ \A g \in s.EB \cup s.IB : \E h \in From(s.ER, g) :
       qfq_gt(s.grp[g].F, s.grp[h].F)

=============================================================================
