--------------------------- MODULE SringGsoProofs ---------------------------
(***************************************************************************)
(* Proofs about a queue of the "sring_gso" device, for every size of the   *)
(* ring, of the contexts and of the packets, every wrap-around of the      *)
(* counters, with kicks or busy-waiting, with buffers the backend cannot   *)
(* translate, and with refills and allocations that fail.  What a theorem  *)
(* needs beyond that (the size of the ring, the errors of send) it states  *)
(* as a hypothesis.  An interface that is opened again after a close is    *)
(* left out: the counters of a receive queue are then stale, and TLC finds *)
(* each of the properties violated.                                        *)
(*                                                                         *)
(* Everything is measured from clear: Off(i) is how far slot i is ahead of *)
(* it, and the counters cut the ring into the buffers handed back, those   *)
(* of the round that is under way, the posted ones and the empty ones.     *)
(***************************************************************************)
EXTENDS SringGso, WrapArithProofs, FiniteSetTheorems, WellFoundedInduction

\* The buffers of a received packet fit in the context of "rxc": the context
\* holds the whole ring, or every buffer is usable and the largest packet fits.
\* In the code BPFHV_MAX_RX_BUFS is 64; a ring larger than that in which many
\* buffers are invalid lets rxc return the head of a packet without its end.
RxFits ==
  "rx" \in Dirs => N <= MaxBufs \/ ("rx" \notin BadBufs /\ Need <= MaxBufs)

\* A driver that holds back less than RefillAt buffers leaves enough in the ring
\* for a packet of any size.  In the code RefillAt is 16 and a ring may have 16
\* descriptors: there bpfhv_rx_clean may wait for buffers it holds back itself.
Roomy == RefillAt + Need <= N + 1

Off(i)    == Dist(N, i, clear)
Posted    == Sub(prod, clear)
Room      == N - Posted
First     == Sub(cons_first, clear)
Reached   == Sub(bcons, clear)
Known     == Sub(bprod, clear)

\* The backend is inside a round, so that cons_first is what it hands back next.
Handing == bpc \in {"look", "unmute", "recheck", "remute", "use", "recv",
                    "publish"}
InUse   == gpc # "reclaim" /\ dev # "down"

\* How many buffers from clear on the backend is done with.
Handled == IF Handing THEN First ELSE Completed

\* Who is where.
PlaceInv ==
  /\ dir \in {"tx", "rx"} \cap Dirs /\ busy_wait \in BOOLEAN
  /\ op \in {"none", "xmit", "poll", "open", "close"}
  /\ napi \in {"off", "idle", "sched", "missed"}
  /\ dev \in {"new", "down", "opening", "up", "closing"}
  /\ bpc \in {"halted", "start", "top", "begin", "notify"} \/ Handing
  /\ bpc = "recv" => dir = "rx"
  /\ gpc = "idle" <=> op = "none"
  /\ op = "open" <=> dev = "opening"
  /\ op = "open" => gpc \in {"refill", "kick", "enable"}
  /\ gpc = "enable" => op = "open"
  /\ op = "xmit" => /\ dir = "tx" /\ dev = "up"
                    /\ gpc \in {"clean", "map"} => todo \in 1 .. MaxFrags + 1
  /\ op = "poll" => dev \in {"up", "closing"}
  /\ op = "close" => dev = "closing" /\ bpc = "halted" /\ napi = "off"
  /\ gpc = "reclaim" => op = "close"
  /\ gpc \in {"refill", "complete"} => dir = "rx"
  /\ gpc = "complete" => op = "poll"
  /\ gpc \in {"map", "stop", "lost"} => op = "xmit"
  /\ gpc \in {"arm", "store", "check"} => op \in {"xmit", "poll"}
  /\ gpc = "kick" /\ dir = "tx" => op = "xmit"
  /\ dev \in {"new", "down"} => gpc = "idle"
  /\ dev \in {"new", "down", "opening"} => bpc = "halted" /\ napi = "off"
  /\ dev = "up" => napi # "off"
  /\ kick_pending => gpc \in {"arm", "store", "check", "stop"} /\ op = "xmit"
  /\ op = "poll" /\ (dir = "tx" \/ gpc \in {"clean", "refill", "kick", "complete"})
       => napi \in {"sched", "missed"}

\* The order of the counters, and the numbers of the backend's round: a transmit
\* round that is out of budget stands between two packets.
OrderInv ==
  /\ Posted <= N
  /\ InUse => Completed <= Posted
  /\ Handing => /\ Completed <= First /\ First <= Reached
                /\ Reached <= Known /\ Known <= Posted
                /\ count = 0 => cons_first = cons
  /\ bpc \in {"remute", "use"} => Reached < Known
  /\ bpc \in {"start", "top", "begin", "halted"} => count = 0
  /\ bpc = "publish" => bcons = cons_first \/ overrun
  /\ overrun => dir = "rx"
  /\ Handing /\ dir = "tx" /\ count >= Budget => bcons = cons_first
  /\ bpc = "notify" /\ count > 0 =>
       bcons = cons /\ Sub(cons, cons_first) <= N
  /\ dir = "tx" /\ ~InUse => cons = clear
  /\ dev = "down" => clear = prod
  /\ dev \in {"new", "opening"} =>
       /\ cons = clear
       /\ dir = "tx" => prod = clear

\* What the slots hold: sent or filled buffers up to where the backend is, posted
\* ones up to prod, nothing beyond.
SlotInv ==
  \A i \in Slots :
    /\ Off(i) >= Posted => desc[i].is = "empty"
    /\ InUse /\ Handled <= Off(i) /\ Off(i) < Posted
         => desc[i].is \in {"posted", "bad"}
    /\ InUse /\ ~overrun /\ Off(i) < Handled => desc[i].is \in {"done", "bad"}
    /\ dir \notin BadBufs => desc[i].is # "bad"

\* Where packets end: at prod on a transmit queue, at cons, and where the packet
\* in the backend's hands begins; that packet has no end yet.
EndsAt(x) == \A i \in Slots : Off(i) + 1 = x => desc[i].eop

EndInv ==
  /\ dir = "tx" => EndsAt(Posted)
  /\ InUse /\ ~overrun => EndsAt(Completed)
  /\ Handing /\ ~overrun => EndsAt(First)
  /\ dir = "tx" /\ Handing =>
       \A i \in Slots : First <= Off(i) /\ Off(i) < Reached => ~desc[i].eop

\* No packet is longer than a context: from every slot it is at most most slots
\* to an end.
Short(upto, most) ==
  \A i \in Slots : Off(i) < upto =>
    \E e \in Slots : /\ desc[e].eop /\ Off(e) < upto
                     /\ Off(i) <= Off(e) /\ Off(e) <= Off(i) + most

ShortInv ==
  /\ dir = "tx" => Short(Posted, MaxFrags)
  /\ dir = "rx" /\ InUse /\ ~overrun /\ RxFits => Short(Handled, MaxBufs - 1)

\* The types of the ring and of the backend's copies.
Types ==
  /\ prod \in Counter /\ cons \in Counter /\ clear \in Counter
  /\ bprod \in Counter /\ bcons \in Counter /\ cons_first \in Counter
  /\ intr_at \in Counter
  /\ desc \in [Slots -> [is : {"empty", "posted", "bad", "done"},
                         eop : BOOLEAN]]
  /\ count \in 0 .. Budget /\ overrun \in BOOLEAN

\* Receive: fewer descriptors than a largest packet needs, or one is bad.
Few(from, to) ==
  \/ Sub(to, from) < Need
  \/ \E i \in Slots : /\ desc[i].is = "bad"
                      /\ Sub(from, clear) <= Off(i) /\ Off(i) < Sub(to, clear)

FewInv ==
  dir = "rx" =>
    /\ bpc \in {"look", "unmute", "recheck", "remute", "use"}
         => Few(cons_first, bcons)
    /\ bpc = "recv" => \/ Sub(bcons, cons_first) <= Need
                       \/ Few(cons_first, bcons)

RingInv == Types /\ OrderInv /\ SlotInv /\ EndInv /\ ShortInv /\ FewInv

\* The types of the rest.
FlagsOK ==
  /\ kick_enabled \in BOOLEAN /\ intr_enabled \in BOOLEAN
  /\ kick_pending \in BOOLEAN /\ stopped \in BOOLEAN
  /\ kickfd \in BOOLEAN /\ irq \in BOOLEAN /\ can \in BOOLEAN
  /\ again \in BOOLEAN /\ stopreq \in BOOLEAN /\ stopping \in BOOLEAN
  /\ work \in BOOLEAN /\ oom \in BOOLEAN

RestOK ==
  /\ gpc \in {"idle", "clean", "map", "kick", "arm", "store", "check", "stop",
              "refill", "complete", "enable", "reclaim", "lost"}
  /\ todo \in 0 .. MaxFrags + 1 /\ min \in 0 .. N /\ polled \in Nat
  /\ FlagsOK

\* The driver's count of free buffers never exceeds the room in the ring, and
\* falls behind it only by the buffers of an rx_pkt_alloc that failed.
CountInv ==
  /\ free \in 0 .. Room
  /\ dir = "tx" \/ ~AllocFails => free = Room

\* The inductive invariant of the ring.
GInv == PlaceInv /\ RestOK /\ RingInv /\ CountInv

\* Receive: whoever goes to rest has collected everything and armed the
\* interrupt, or the backend is about to raise it.
ArmInv ==
  dir = "rx" =>
    /\ dev \in {"new", "opening"} => intr_enabled
    /\ gpc \in {"arm", "store", "check"} => min = 1
    /\ dev = "up" =>
         /\ gpc = "check" => intr_enabled \/ clear # cons
         /\ gpc = "idle" /\ napi = "idle" =>
              irq \/ (intr_enabled /\ (clear = cons \/ (bpc = "notify" /\ count > 0)))

\* Receive: a backend that stopped listening has enabled the kicks, and there
\* are too few buffers, or a kick is under way; a driver outside the refill
\* holds back less than RefillAt buffers.
Base == IF bpc = "publish" THEN cons_first ELSE cons

StarveInv ==
  dir = "rx" =>
    /\ dev = "up" /\ gpc \notin {"refill", "kick"} /\ ~oom => free < RefillAt
    /\ gpc = "enable" /\ ~oom => free = 0
    /\ ~busy_wait =>
         /\ bpc = "recheck" => kick_enabled
         /\ (Handing \/ bpc \in {"start", "begin"}) /\ bpc # "publish" => can
         /\ bpc = "publish" /\ ~can => bcons = cons_first
         /\ bpc \in {"publish", "notify", "top"} /\ ~can =>
              kickfd \/ (kick_enabled /\ (gpc = "kick" \/ Few(Base, prod)))

\* Transmit: a backend that goes to sleep without a reason to wake up by itself
\* has taken everything, or a kick is under way.
KickInv ==
  dir = "tx" /\ ~busy_wait =>
    /\ dev \in {"new", "opening"} \/ bpc \in {"start", "recheck"} => kick_enabled
    /\ bpc \in {"start", "publish", "notify", "top"} =>
         \/ count >= Budget \/ (again /\ bpc = "top") \/ ~can \/ kickfd
         \/ kick_enabled /\ (gpc = "kick" \/ kick_pending \/ Base = prod)

\* Transmit: the completion that interrupts is still ahead and in the first half
\* of the pending buffers, or the round that passed it is about to interrupt.
\* txi moves it to the middle of what is pending, which is never before the old
\* one: this is why bpfhv_start_xmit may ignore what txi answers.
Ahead == Completed <= Sub(intr_at, clear) /\ Sub(intr_at, clear) <= Posted \div 2
Back == Sub(cons, intr_at + 1)
Passed == /\ bpc = "notify" /\ count > 0 /\ Back < Sub(cons, cons_first)
          /\ Completed - 1 - Back <= Posted \div 2

EventInv ==
  dir = "tx" =>
    /\ gpc \in {"arm", "store", "check"} => min = 1 + Posted \div 2
    /\ gpc = "check" /\ op = "poll" =>
         intr_at = Add(clear, min - 1) \/ Completed >= min
    /\ dev = "up" => napi # "idle" \/ irq \/ Ahead \/ Passed
    /\ dev \in {"new", "opening"} => intr_at = clear
    /\ op = "xmit" => ~stopped
    /\ dev = "up" /\ stopped => op = "poll" \/ free < 2 + MaxFrags

-----------------------------------------------------------------------------
USE DEF rigid, bufVars, ringVars, flagVars, callVars, guestVars, fds, copyVars, beVars

\* The constants and the distances from clear.
LEMMA Consts ==
  /\ N \in Nat \ {0} /\ N < W /\ N <= W /\ W \in Nat \ {0} /\ W % N = 0
  /\ MaxBufs \in Nat \ {0} /\ PollBudget \in Nat \ {0} /\ Budget \in Nat \ {0}
  /\ MaxFrags \in Nat /\ MaxFrags + 1 <= MaxBufs
  /\ RefillAt \in Nat \ {0} /\ Need \in Nat \ {0}
  /\ 0 \in Counter /\ \A i \in Slots : i \in Int
BY GsoAssumption, WAssumption DEF Counter, Slots

\* Every step of the driver and of the backend keeps them in the places above.
LEMMA PlaceStep ==
  ASSUME ~MayReopen, PlaceInv, free \in Nat, oom \in BOOLEAN, [Next]_vars
  PROVE  PlaceInv'
<1> USE DEF PlaceInv, Handing
<1>1. CASE bpfhv_open
  BY <1>1 DEF bpfhv_open
<1>2. CASE OpenEnable
  BY <1>2 DEF OpenEnable, Return
<1>3. CASE bpfhv_start_xmit
  BY <1>3 DEF bpfhv_start_xmit
<1>4. CASE bpfhv_intr
  BY <1>4 DEF bpfhv_intr, Scheduled
<1>5. CASE bpfhv_poll
  BY <1>5 DEF bpfhv_poll
<1>6. CASE sring_gso_txc
  BY <1>6 DEF sring_gso_txc
<1>7. CASE sring_gso_rxc
  BY <1>7 DEF sring_gso_rxc
<1>43. CASE RxAllocFails
  BY <1>43 DEF RxAllocFails
<1>8. CASE CleanDone
  BY <1>8 DEF CleanDone, Return, napi_complete
<1>9. CASE XmitGivesUp
  BY <1>9 DEF XmitGivesUp, Return
<1>10. CASE XmitLost
  BY <1>10 DEF XmitLost
<1>11. CASE sring_gso_txp
  BY <1>11 DEF sring_gso_txp
<1>12. CASE sring_gso_rxp
  BY <1>12 DEF sring_gso_rxp
<1>13. CASE LooksAtKick
  <2>1. \/ dir = "tx" /\ gpc' = "arm" /\ op = "xmit"
        \/ /\ dir = "rx" /\ ~kick_pending'
           /\ gpc' \in (IF op = "open" THEN {"refill", "enable"}
                       ELSE {"refill", "clean"})
    <3>1. (free > 0 /\ ~oom) \/ free = 0 \/ oom
      OBVIOUS
    <3> HIDE DEF Handing
    <3> QED BY <1>13, <3>1 DEF LooksAtKick
  <2> QED BY <1>13, <2>1 DEF LooksAtKick
<1>14. CASE RxPollComplete
  BY <1>14 DEF RxPollComplete, napi_complete
<1>15. CASE sring_gso_xi
  BY <1>15 DEF sring_gso_xi
<1>16. CASE XiArms
  BY <1>16 DEF XiArms
<1>17. CASE XiCheck
  BY <1>17 DEF XiCheck, Return, napi_complete
<1>18. CASE XmitStops
  BY <1>18 DEF XmitStops, Return
<1>19. CASE bpfhv_close
  BY <1>19 DEF bpfhv_close
<1>20. CASE CloseNapiDisable
  BY <1>20 DEF CloseNapiDisable
<1>21. CASE sring_gso_txr
  BY <1>21 DEF sring_gso_txr
<1>22. CASE sring_gso_rxr
  BY <1>22 DEF sring_gso_rxr
<1>23. CASE CloseDone
  BY <1>23 DEF CloseDone, Return
<1>24. CASE PacketArrives
  BY <1>24 DEF PacketArrives
<1>44. CASE WorkerStarts
  BY <1>44 DEF WorkerStarts
<1>25. CASE process_packets_poll \/ PollOther
  BY <1>25 DEF process_packets_poll, PollOther, WakeUp
<1>26. CASE process_packets_spin
  BY <1>26 DEF process_packets_spin
<1>27. CASE RoundBegins
  BY <1>27 DEF RoundBegins
<1>28. CASE RoundLooks
  BY <1>28 DEF RoundLooks
<1>29. CASE RoundUnmutes
  BY <1>29 DEF RoundUnmutes
<1>30. CASE RoundRechecks
  BY <1>30 DEF RoundRechecks
<1>31. CASE RoundRemutes
  BY <1>31 DEF RoundRemutes
<1>32. CASE TxTakesFragment
  BY <1>32 DEF TxTakesFragment
<1>33. CASE TxSends
  BY <1>33 DEF TxSends
<1>34. CASE TxBlocks
  BY <1>34 DEF TxBlocks
<1>35. CASE TxOutOfBudget
  BY <1>35 DEF TxOutOfBudget
<1>36. CASE RxCollects
  BY <1>36 DEF RxCollects
<1>37. CASE RxOutOfBudget
  BY <1>37 DEF RxOutOfBudget
<1>38. CASE RxReceives
  BY <1>38 DEF RxReceives
<1>39. CASE RxNothing
  BY <1>39 DEF RxNothing
<1>40. CASE RoundPublishes
  BY <1>40 DEF RoundPublishes
<1>41. CASE RoundNotifies
  BY <1>41 DEF RoundNotifies
<1>42. CASE UNCHANGED vars
  BY <1>42 DEF vars
<1> QED BY <1>1, <1>2, <1>3, <1>4, <1>5, <1>6, <1>7, <1>8, <1>9, <1>10, <1>11,
     <1>12, <1>13, <1>14, <1>15, <1>16, <1>17, <1>18, <1>19, <1>20, <1>21,
     <1>22, <1>23, <1>24, <1>25, <1>26, <1>27, <1>28, <1>29, <1>30, <1>31,
     <1>32, <1>33, <1>34, <1>35, <1>36, <1>37, <1>38, <1>39, <1>40, <1>41,
     <1>42, <1>43, <1>44 DEF Next

-----------------------------------------------------------------------------
(***************************************************************************)
(* Slots and distances.                                                    *)
(***************************************************************************)
\* The counter at distance k from c.
LEMMA AddSub ==
  ASSUME NEW c \in Counter, NEW k \in 0 .. W - 1
  PROVE  Add(c, k) \in Counter /\ Sub(Add(c, k), c) = k
<1>1. Sub(c, c) = 0
  BY SubZero
<1>2. k \in 0 .. W - 1 - Sub(c, c)
  BY <1>1, Consts
<1> QED BY <1>1, <1>2, SubMoveAhead

\* A counter is its distance away.
LEMMA SubAdd ==
  ASSUME NEW a \in Counter, NEW c \in Counter
  PROVE  Add(c, Sub(a, c)) = a
<1>1. Sub(a, c) \in 0 .. W - 1
  BY SubType
<1>2. Add(c, Sub(a, c)) \in Counter /\ Sub(Add(c, Sub(a, c)), c) = Sub(a, c)
  BY <1>1, AddSub
<1> QED BY <1>2, SubInj

\* The distance between two counters ahead of a third.
LEMMA SubBetween ==
  ASSUME NEW a \in Counter, NEW b \in Counter, NEW c \in Counter,
         Sub(b, c) <= Sub(a, c)
  PROVE  Sub(a, b) = Sub(a, c) - Sub(b, c)
<1>1. Sub(b, c) \in 0 .. Sub(a, c)
  BY SubType
<1>2. Sub(a, Add(c, Sub(b, c))) = Sub(a, c) - Sub(b, c)
  BY <1>1, SubMoveBehind
<1> QED BY <1>2, SubAdd

\* The slot of the counter at distance k.
LEMMA SlotAt ==
  ASSUME NEW c \in Counter, NEW k \in 0 .. N - 1
  PROVE  /\ Add(c, k) % N \in Slots
         /\ \A i \in Slots : Dist(N, i, c) = k <=> i = Add(c, k) % N
<1>1. /\ N \in Nat \ {0} /\ W % N = 0 /\ c \in Int /\ k \in 0 .. W - 1
  BY Consts DEF Counter
<1>2. Add(c, k) \in Counter /\ Sub(Add(c, k), c) = k
  BY <1>1, AddSub
<1>3. Add(c, k) % N \in Slots /\ Dist(N, Add(c, k) % N, c) = k
  <2>1. Sub(Add(c, k), c) < N
    BY <1>1, <1>2
  <2> QED BY <1>1, <1>2, <2>1, DistOfCounter DEF Slots
<1>4. \A i \in Slots : Dist(N, i, c) = Dist(N, Add(c, k) % N, c)
                         => i = Add(c, k) % N
  BY <1>1, <1>3, DistInj DEF Slots
<1> QED BY <1>3, <1>4

\* The slot of a counter.
LEMMA SlotOf ==
  ASSUME NEW c \in Counter, NEW a \in Counter, Sub(a, c) < N
  PROVE  /\ a % N \in Slots
         /\ \A i \in Slots : Dist(N, i, c) = Sub(a, c) <=> i = a % N
<1>1. Sub(a, c) \in 0 .. W - 1 /\ N \in Nat
  BY SubType, Consts
<1>2. Sub(a, c) \in 0 .. N - 1
  BY <1>1
<1> QED BY <1>2, SlotAt, SubAdd

\* Distances from two counters.
LEMMA DistFrom ==
  ASSUME NEW c \in Counter, NEW a \in Counter, Sub(a, c) <= N, NEW i \in Slots
  PROVE  /\ Dist(N, i, c) \in 0 .. N - 1
         /\ Dist(N, i, a) = IF Sub(a, c) <= Dist(N, i, c)
                            THEN Dist(N, i, c) - Sub(a, c)
                            ELSE Dist(N, i, c) - Sub(a, c) + N
<1>1. Sub(a, c) \in 0 .. N /\ i \in Int /\ c \in Int
  BY SubType, Consts DEF Counter
<1>2. Dist(N, i, c) \in 0 .. N - 1
  BY <1>1, Consts, DistType, Zenon
<1>3. Dist(N, i, Add(c, Sub(a, c))) = IF Sub(a, c) <= Dist(N, i, c)
                            THEN Dist(N, i, c) - Sub(a, c)
                            ELSE Dist(N, i, c) - Sub(a, c) + N
  BY <1>1, Consts, DistMove
<1> QED BY <1>2, <1>3, SubAdd

\* SlotsFrom, and the number of a slot among them.
LEMMA InSlots ==
  ASSUME NEW c \in Counter, NEW n \in 0 .. N, NEW i \in Slots
  PROVE  /\ i \in SlotsFrom(c, n) <=> Dist(N, i, c) < n
         /\ Dist(N, i, c) < n =>
              (CHOOSE k \in 0 .. n - 1 : Add(c, k) % N = i) = Dist(N, i, c)
<1>1. Dist(N, i, c) \in 0 .. N - 1
  <2>1. i \in Int /\ c \in Int
    BY Consts DEF Counter
  <2> QED BY <2>1, Consts, DistType, Zenon
<1>2. \A k \in 0 .. n - 1 : Add(c, k) % N = i <=> Dist(N, i, c) = k
  <2> SUFFICES ASSUME NEW k \in 0 .. n - 1
               PROVE  Add(c, k) % N = i <=> Dist(N, i, c) = k
    OBVIOUS
  <2>1. k \in 0 .. N - 1
    BY Consts
  <2> QED BY <2>1, SlotAt
<1>3. i \in SlotsFrom(c, n) <=> Dist(N, i, c) < n
  <2>1. i \in SlotsFrom(c, n) => Dist(N, i, c) < n
    BY <1>2, Consts DEF SlotsFrom
  <2>2. ASSUME Dist(N, i, c) < n PROVE i \in SlotsFrom(c, n)
    <3>1. Dist(N, i, c) \in 0 .. n - 1
      BY <2>2, <1>1, Consts
    <3>2. Add(c, Dist(N, i, c)) % N = i
      BY <3>1, <1>2
    <3> QED BY <3>1, <3>2 DEF SlotsFrom
  <2> QED BY <2>1, <2>2
<1>4. ASSUME Dist(N, i, c) < n
      PROVE  (CHOOSE k \in 0 .. n - 1 : Add(c, k) % N = i) = Dist(N, i, c)
  <2>1. Dist(N, i, c) \in 0 .. n - 1
    BY <1>4, <1>1, Consts
  <2>2. Add(c, Dist(N, i, c)) % N = i
    BY <2>1, <1>2
  <2> DEFINE k0 == CHOOSE k \in 0 .. n - 1 : Add(c, k) % N = i
  <2>3. k0 \in 0 .. n - 1 /\ Add(c, k0) % N = i
    BY <2>1, <2>2
  <2> QED BY <2>3, <1>2
<1> QED BY <1>3, <1>4

\* A non-empty set of natural numbers has a smallest element.
LEMMA SmallestOf ==
  ASSUME NEW T \in SUBSET Nat, T # {}
  PROVE  \E x \in T : \A y \in T : x <= y
<1> DEFINE R == {ss \in Nat \X Nat : ss[1] < ss[2]}
<1>1. IsWellFoundedOn(R, Nat)
  BY NatLessThanWellFounded DEF OpToRel
<1>2. \E x \in T : \A y \in T : ~(<<y, x>> \in R)
  <2> HIDE DEF R
  <2> QED BY <1>1, WFMin
<1>3. PICK x \in T : \A y \in T : ~(<<y, x>> \in R)
  BY <1>2
<1>4. \A y \in T : x <= y
  <2> SUFFICES ASSUME NEW y \in T PROVE x <= y
    OBVIOUS
  <2>1. ~(y < x)
    BY <1>3
  <2> QED BY <2>1
<1> QED BY <1>4

\* How far txc, rxc and txr look for the end of a packet.
LEMMA ToEopFacts ==
  ASSUME NEW limit \in 1 .. N, clear \in Counter
  PROVE  LET n    == ToEop(limit)
             most == IF limit > MaxBufs THEN MaxBufs ELSE limit
         IN  /\ n \in 1 .. most
             /\ (\E i \in Slots : Off(i) < most /\ desc[i].eop) =>
                  /\ \A i \in Slots : Off(i) = n - 1 => desc[i].eop
                  /\ \A i \in Slots : desc[i].eop => n - 1 <= Off(i)
<1> DEFINE most == IF limit > MaxBufs THEN MaxBufs ELSE limit
           ends == {k \in 1 .. most : At(Add(clear, k - 1)).eop}
           n    == ToEop(limit)
<1>1. most \in 1 .. N /\ most \in 1 .. limit
  BY Consts
<1>2. n = IF ends = {} THEN most ELSE CHOOSE k \in ends : \A e \in ends : k <= e
  BY DEF ToEop
<1> HIDE DEF n, most
<1>3. \A i \in Slots, k \in 1 .. most :
        Off(i) = k - 1 => (desc[i].eop <=> k \in ends)
  <2> SUFFICES ASSUME NEW i \in Slots, NEW k \in 1 .. most, Off(i) = k - 1
               PROVE  desc[i].eop <=> k \in ends
    OBVIOUS
  <2>1. k - 1 \in 0 .. N - 1
    BY <1>1, Consts
  <2>2. i = Add(clear, k - 1) % N
    BY <2>1, SlotAt DEF Off
  <2> QED BY <2>2 DEF At
<1>4. \A i \in Slots : Off(i) \in 0 .. N - 1
  <2>1. clear \in Int
    BY Consts DEF Counter
  <2> QED BY <2>1, Consts, DistType, Zenon DEF Off
<1>5. CASE ends = {}
  <2>1. ~\E i \in Slots : Off(i) < most /\ desc[i].eop
    <3> SUFFICES ASSUME NEW i \in Slots, Off(i) < most, desc[i].eop PROVE FALSE
      OBVIOUS
    <3>1. Off(i) + 1 \in 1 .. most /\ Off(i) = (Off(i) + 1) - 1
      BY <1>1, <1>4
    <3> QED BY <3>1, <1>3, <1>5
  <2> QED BY <1>1, <1>2, <1>5, <2>1 DEF n, most
<1>6. CASE ends # {}
  <2>1. ends \in SUBSET Nat
    BY <1>1
  <2>2. \E k \in ends : \A e \in ends : k <= e
    BY <1>6, <2>1, SmallestOf
  <2>3. n \in ends /\ \A e \in ends : n <= e
    BY <1>6, <1>2, <2>2
  <2>4. n \in 1 .. most
    BY <2>3
  <2>5. \A i \in Slots : Off(i) = n - 1 => desc[i].eop
    BY <2>3, <2>4, <1>3
  <2>6. ASSUME NEW i \in Slots, desc[i].eop PROVE n - 1 <= Off(i)
    <3>1. CASE Off(i) < most
      <4>1. Off(i) + 1 \in 1 .. most /\ Off(i) = (Off(i) + 1) - 1
        BY <3>1, <1>1, <1>4
      <4>2. Off(i) + 1 \in ends
        BY <4>1, <2>6, <1>3
      <4> QED BY <4>2, <2>3, <2>4, <1>1, <1>4
    <3>2. CASE ~(Off(i) < most)
      BY <3>2, <2>4, <1>1, <1>4
    <3> QED BY <3>1, <3>2
  <2> QED BY <2>4, <2>5, <2>6 DEF n, most
<1> QED BY <1>5, <1>6

-----------------------------------------------------------------------------
(***************************************************************************)
(* The ring.                                                               *)
(***************************************************************************)
LEMMA RingFacts ==
  ASSUME GInv
  PROVE  /\ Types
         /\ Posted \in 0 .. N /\ Completed \in 0 .. W - 1
         /\ First \in 0 .. W - 1 /\ Reached \in 0 .. W - 1
         /\ Known \in 0 .. W - 1
         /\ bpc # "halted" => InUse
         /\ InUse => Completed \in 0 .. Posted
         /\ Handing => /\ InUse
                       /\ First \in Completed .. Posted
                       /\ Reached \in First .. Known
                       /\ Known \in Reached .. Posted
         /\ InUse => Handled \in Completed .. Posted
         /\ \A i \in Slots : Off(i) \in 0 .. N - 1
<1>1. Types /\ OrderInv /\ PlaceInv
  BY DEF GInv, RingInv
<1>2. /\ Posted \in 0 .. W - 1 /\ Completed \in 0 .. W - 1
      /\ First \in 0 .. W - 1 /\ Reached \in 0 .. W - 1 /\ Known \in 0 .. W - 1
  BY <1>1, SubType DEF Types, Posted, Completed, First, Reached, Known
<1>3. bpc # "halted" => InUse
  BY <1>1 DEF PlaceInv, InUse
<1>4. Handing => bpc # "halted"
  BY DEF Handing
<1>5. \A i \in Slots : Off(i) \in 0 .. N - 1
  <2>1. clear \in Int
    BY <1>1, Consts DEF Counter, Types
  <2> QED BY <2>1, Consts, DistType, Zenon DEF Off
<1> QED BY <1>1, <1>2, <1>3, <1>4, <1>5, Consts DEF OrderInv, Handled

\* Steps that leave the ring alone.
LEMMA RingFrame ==
  ASSUME GInv, UNCHANGED <<prod, cons, clear, desc, bprod, bcons, cons_first,
                           count, overrun, dir>>,
         intr_at' \in Counter,
         bpc' = bpc \/ {bpc, bpc'} \subseteq {"halted", "start", "top", "begin"},
         InUse' => InUse, ~InUse' /\ InUse /\ dir = "tx" => cons = clear,
         dev' = "down" => dev = "down" \/ clear = prod,
         dev' \in {"new", "opening"} => dev \in {"new", "opening"}
  PROVE  RingInv'
<1>1. /\ Posted' = Posted /\ Completed' = Completed /\ First' = First
      /\ Reached' = Reached /\ Known' = Known /\ (Handing' <=> Handing)
      /\ Handled' = Handled /\ \A i : Off(i)' = Off(i)
  BY DEF Posted, Completed, First, Reached, Known, Handled, Handing, Off
<1>2. Types /\ OrderInv /\ SlotInv /\ EndInv /\ ShortInv /\ FewInv
  BY DEF GInv, RingInv
<1>3. Types'
  BY <1>2 DEF Types
<1>4. OrderInv'
  BY <1>1, <1>2, Consts DEF OrderInv, Types
<1>5. SlotInv'
  BY <1>1, <1>2 DEF SlotInv
<1>6. EndInv'
  BY <1>1, <1>2 DEF EndInv, EndsAt
<1>7. ShortInv'
  BY <1>1, <1>2 DEF ShortInv, Short
<1>8. FewInv'
  BY <1>1, <1>2 DEF FewInv, Few
<1> QED BY <1>3, <1>4, <1>5, <1>6, <1>7, <1>8 DEF RingInv

\* The first n slots are emptied and clear moves past them.
LEMMA CollectMove ==
  ASSUME GInv, NEW n \in 0 .. Posted,
         clear' = Add(clear, n), desc' = Emptied(clear, n), prod' = prod
  PROVE  /\ clear' \in Counter /\ Posted' = Posted - n
         /\ \A i \in Slots :
              /\ Off(i)' = IF n <= Off(i) THEN Off(i) - n ELSE Off(i) - n + N
              /\ desc'[i] = IF Off(i) < n THEN [is |-> "empty", eop |-> FALSE]
                            ELSE desc[i]
         /\ desc' \in [Slots -> [is : {"empty", "posted", "bad", "done"},
                                 eop : BOOLEAN]]
         /\ \A c \in Counter : n <= Sub(c, clear) =>
              Sub(c, clear') = Sub(c, clear) - n
<1>1. /\ Posted \in 0 .. N /\ Types /\ n \in 0 .. N
      /\ \A i \in Slots : Off(i) \in 0 .. N - 1
  BY RingFacts, Consts
<1>2. clear \in Counter /\ prod \in Counter /\ n \in 0 .. Sub(prod, clear)
  BY <1>1 DEF Types, Posted
<1>3. clear' \in Counter /\ Posted' = Posted - n
  BY <1>2, SubMoveBehind DEF Posted
<1>4. ASSUME NEW i \in Slots
      PROVE  /\ Off(i)' = IF n <= Off(i) THEN Off(i) - n ELSE Off(i) - n + N
             /\ desc'[i] = IF Off(i) < n THEN [is |-> "empty", eop |-> FALSE]
                           ELSE desc[i]
  <2>1. i \in SlotsFrom(clear, n) <=> Dist(N, i, clear) < n
    BY <1>1, <1>2, InSlots
  <2>2. Off(i)' = Dist(N, i, Add(clear, n))
    BY DEF Off
  <2>3. i \in Int
    BY Consts
  <2>4. Dist(N, i, Add(clear, n)) = IF n <= Off(i) THEN Off(i) - n ELSE Off(i) - n + N
    BY <2>3, <1>1, <1>2, Consts, DistMove DEF Off
  <2> QED BY <2>1, <2>2, <2>4 DEF Emptied, Fill, Off
<1>5. desc' \in [Slots -> [is : {"empty", "posted", "bad", "done"},
                                 eop : BOOLEAN]]
  <2>1. desc \in [Slots -> [is : {"empty", "posted", "bad", "done"},
                                 eop : BOOLEAN]]
    BY <1>1 DEF Types
  <2> DEFINE e == [is |-> "empty", eop |-> FALSE]
  <2>2. e \in [is : {"empty", "posted", "bad", "done"}, eop : BOOLEAN]
    OBVIOUS
  <2>3. desc' = [i \in Slots |-> IF i \in SlotsFrom(clear, n) THEN e ELSE desc[i]]
    BY DEF Emptied, Fill
  <2> QED BY <2>1, <2>2, <2>3
<1>6. ASSUME NEW c \in Counter, n <= Sub(c, clear)
      PROVE  Sub(c, clear') = Sub(c, clear) - n
  <2>1. n \in 0 .. Sub(c, clear)
    BY <1>6, <1>2, SubType
  <2> QED BY <2>1, <1>2, SubMoveBehind
<1> QED BY <1>3, <1>4, <1>5, <1>6

\* txc and rxc: the guest collects n of the buffers handed back.
LEMMA CollectStep ==
  ASSUME GInv, NEW n \in 0 .. Completed, gpc = "clean",
         clear' = Add(clear, n), desc' = Emptied(clear, n), InUse',
         UNCHANGED <<dir, prod, cons, bpc, bprod, bcons, cons_first, count,
                     overrun, intr_at, op, dev>>
  PROVE  RingInv'
<1>1. /\ Types /\ OrderInv /\ SlotInv /\ EndInv /\ ShortInv /\ FewInv
      /\ PlaceInv
  BY DEF GInv, RingInv
<1>2. InUse /\ dev \notin {"new", "opening", "down"}
  BY <1>1 DEF InUse, PlaceInv
<1>f. /\ Posted \in 0 .. N /\ n \in 0 .. Posted
      /\ Completed \in n .. Posted /\ Handled \in Completed .. Posted
      /\ Handing => /\ First \in Completed .. Posted
                    /\ Reached \in First .. Known /\ Known \in Reached .. Posted
      /\ \A i \in Slots : Off(i) \in 0 .. N - 1
  BY <1>2, RingFacts
<1>m. /\ clear' \in Counter /\ Posted' = Posted - n
      /\ \A i \in Slots :
           /\ Off(i)' = IF n <= Off(i) THEN Off(i) - n ELSE Off(i) - n + N
           /\ desc'[i] = IF Off(i) < n THEN [is |-> "empty", eop |-> FALSE]
                         ELSE desc[i]
      /\ desc' \in [Slots -> [is : {"empty", "posted", "bad", "done"},
                              eop : BOOLEAN]]
      /\ \A c \in Counter : n <= Sub(c, clear) =>
           Sub(c, clear') = Sub(c, clear) - n
  BY <1>f, CollectMove
<1>3. /\ Completed' = Completed - n /\ (Handing' <=> Handing)
      /\ Handing => /\ First' = First - n /\ Reached' = Reached - n
                    /\ Known' = Known - n
  <2>1. n <= Sub(cons, clear) /\ cons \in Counter
    BY <1>f, <1>1 DEF Types, Completed
  <2>2. Completed' = Completed - n
    BY <2>1, <1>m DEF Completed
  <2>3. Handing => /\ n <= Sub(cons_first, clear) /\ cons_first \in Counter
                   /\ n <= Sub(bcons, clear) /\ bcons \in Counter
                   /\ n <= Sub(bprod, clear) /\ bprod \in Counter
    <3>1. Handing => n <= First /\ n <= Reached /\ n <= Known
      BY <1>f, Consts
    <3> QED BY <3>1, <1>1 DEF Types, First, Reached, Known
  <2>4. Handing => /\ First' = First - n /\ Reached' = Reached - n
                   /\ Known' = Known - n
    BY <2>3, <1>m DEF First, Reached, Known
  <2> QED BY <2>2, <2>4 DEF Handing
<1>4. Handled' = Handled - n
  BY <1>3 DEF Handled
<1>5. Types'
  BY <1>1, <1>m DEF Types
<1>6. OrderInv'
  <2>1. /\ Posted' <= N /\ Completed' <= Posted'
        /\ Handing => /\ Completed' <= First' /\ First' <= Reached'
                      /\ Reached' <= Known' /\ Known' <= Posted'
    BY <1>3, <1>f, <1>m, Consts
  <2>2. bpc \in {"remute", "use"} => Reached' < Known'
    BY <1>1, <1>3, <1>f, Consts DEF OrderInv, Handing
  <2> QED BY <1>1, <1>2, <1>3, <2>1, <2>2 DEF OrderInv
<1>7. SlotInv'
  BY <1>1, <1>2, <1>3, <1>4, <1>f, <1>m, Consts DEF SlotInv
\* An end ahead of the n slots stays where it is.
<1>8. ASSUME NEW x \in n .. Posted, EndsAt(x)
      PROVE  \A i \in Slots : Off(i)' + 1 = x - n => desc'[i].eop
  <2> SUFFICES ASSUME NEW i \in Slots, Off(i)' + 1 = x - n PROVE desc'[i].eop
    OBVIOUS
  <2>1. Off(i) \in 0 .. N - 1 /\ x \in n .. Posted /\ Posted <= N
    BY <1>f
  <2>2. /\ Off(i)' = IF n <= Off(i) THEN Off(i) - n ELSE Off(i) - n + N
        /\ n <= Off(i) => desc'[i] = desc[i]
    BY <2>1, <1>f, <1>m
  <2>3. n <= Off(i) /\ Off(i) + 1 = x
    BY <2>1, <2>2, <1>f, Consts
  <2> QED BY <2>2, <2>3, <1>8 DEF EndsAt
<1>9. EndInv'
  <2>1. dir = "tx" => EndsAt(Posted)'
    BY <1>1, <1>8, <1>f, <1>m DEF EndInv, EndsAt
  <2>2. ~overrun => EndsAt(Completed)'
    BY <1>1, <1>2, <1>8, <1>f, <1>3 DEF EndInv, EndsAt
  <2>3. Handing /\ ~overrun => EndsAt(First)'
    BY <1>1, <1>8, <1>f, <1>3, Consts DEF EndInv, EndsAt
  <2>4. dir = "tx" /\ Handing =>
         \A i \in Slots : First' <= Off(i)' /\ Off(i)' < Reached' => ~desc'[i].eop
    BY <1>1, <1>f, <1>m, <1>3, Consts DEF EndInv
  <2> QED BY <2>1, <2>2, <2>3, <2>4, <1>2, <1>3 DEF EndInv
<1>10. ASSUME NEW x \in n .. Posted, NEW most \in Int, Short(x, most)
       PROVE  \A i \in Slots : Off(i)' < x - n =>
                \E e \in Slots : /\ desc'[e].eop /\ Off(e)' < x - n
                                 /\ Off(i)' <= Off(e)' /\ Off(e)' <= Off(i)' + most
  <2> SUFFICES ASSUME NEW i \in Slots, Off(i)' < x - n
               PROVE  \E e \in Slots :
                        /\ desc'[e].eop /\ Off(e)' < x - n
                        /\ Off(i)' <= Off(e)' /\ Off(e)' <= Off(i)' + most
    OBVIOUS
  <2>1. Off(i) >= n /\ Off(i) < x /\ Off(i)' = Off(i) - n
    BY <1>f, <1>m, Consts
  <2>2. PICK e \in Slots : /\ desc[e].eop /\ Off(e) < x
                           /\ Off(i) <= Off(e) /\ Off(e) <= Off(i) + most
    BY <2>1, <1>10 DEF Short
  <2>3. Off(e) >= n /\ Off(e)' = Off(e) - n /\ desc'[e] = desc[e]
    BY <2>1, <2>2, <1>f, <1>m
  <2>4. Off(e)' < x - n /\ Off(i)' <= Off(e)' /\ Off(e)' <= Off(i)' + most
    BY <2>1, <2>2, <2>3, <1>f
  <2> QED BY <2>2, <2>3, <2>4
<1>11. ShortInv'
  <2>1. dir = "tx" => Short(Posted, MaxFrags)'
    <3>1. dir = "tx" => Short(Posted, MaxFrags)
      BY <1>1 DEF ShortInv
    <3>2. Posted \in n .. Posted /\ MaxFrags \in Int
      BY <1>f, Consts
    <3>3. dir = "tx" => \A i \in Slots : Off(i)' < Posted - n =>
            \E e \in Slots : /\ desc'[e].eop /\ Off(e)' < Posted - n
                             /\ Off(i)' <= Off(e)' /\ Off(e)' <= Off(i)' + MaxFrags
      BY <3>1, <3>2, <1>10, Zenon
    <3> QED BY <3>3, <1>m DEF Short
  <2>2. dir = "rx" /\ ~overrun /\ RxFits => Short(Handled, MaxBufs - 1)'
    <3>1. dir = "rx" /\ ~overrun /\ RxFits => Short(Handled, MaxBufs - 1)
      BY <1>1, <1>2 DEF ShortInv
    <3>2. Handled \in n .. Posted /\ MaxBufs - 1 \in Int
      BY <1>f, Consts
    <3>3. dir = "rx" /\ ~overrun /\ RxFits =>
            \A i \in Slots : Off(i)' < Handled - n =>
              \E e \in Slots :
                /\ desc'[e].eop /\ Off(e)' < Handled - n
                /\ Off(i)' <= Off(e)' /\ Off(e)' <= Off(i)' + (MaxBufs - 1)
      BY <3>1, <3>2, <1>10, Zenon
    <3> QED BY <3>3, <1>4 DEF Short
  <2> QED BY <2>1, <2>2 DEF ShortInv
<1>12. FewInv'
  <2>1. ASSUME Handing, Few(cons_first, bcons) PROVE Few(cons_first, bcons)'
    <3>1. CASE Sub(bcons, cons_first) < Need
      BY <3>1 DEF Few
    <3>2. CASE ~(Sub(bcons, cons_first) < Need)
      <4>1. PICK i \in Slots : desc[i].is = "bad" /\ First <= Off(i) /\ Off(i) < Reached
        BY <2>1, <3>2 DEF Few, First, Reached
      <4>2. desc'[i].is = "bad" /\ First' <= Off(i)' /\ Off(i)' < Reached'
        BY <2>1, <4>1, <1>3, <1>f, <1>m
      <4> QED BY <4>2 DEF Few, First, Reached
    <3> QED BY <3>1, <3>2
  <2> QED BY <2>1, <1>1 DEF FewInv, Handing
<1> QED BY <1>5, <1>6, <1>7, <1>9, <1>11, <1>12 DEF RingInv

\* txr and rxr, and an rxc that fails at the end: the guest takes n buffers back.
LEMMA ReclaimStep ==
  ASSUME GInv, NEW n \in 0 .. Posted, op = "close", gpc' = "reclaim",
         clear' = Add(clear, n), desc' = Emptied(clear, n),
         cons' \in Counter, dir = "tx" => cons' = clear',
         UNCHANGED <<dir, prod, bpc, bprod, bcons, cons_first, count,
                     overrun, intr_at, op, dev>>
  PROVE  RingInv'
<1>1. /\ Types /\ OrderInv /\ SlotInv /\ EndInv /\ ShortInv /\ FewInv
      /\ PlaceInv
  BY DEF GInv, RingInv
<1>2. ~InUse' /\ ~Handing /\ ~Handing' /\ bpc = "halted"
      /\ dev \notin {"new", "opening", "down"}
  BY <1>1 DEF InUse, PlaceInv, Handing
<1>f. /\ Posted \in 0 .. N /\ n \in 0 .. Posted
      /\ \A i \in Slots : Off(i) \in 0 .. N - 1
  BY RingFacts
<1>m. /\ clear' \in Counter /\ Posted' = Posted - n
      /\ \A i \in Slots :
           /\ Off(i)' = IF n <= Off(i) THEN Off(i) - n ELSE Off(i) - n + N
           /\ desc'[i] = IF Off(i) < n THEN [is |-> "empty", eop |-> FALSE]
                         ELSE desc[i]
      /\ desc' \in [Slots -> [is : {"empty", "posted", "bad", "done"},
                              eop : BOOLEAN]]
  BY <1>f, CollectMove
<1>5. Types'
  BY <1>1, <1>m DEF Types
<1>6. OrderInv'
  BY <1>1, <1>2, <1>f, <1>m, Consts DEF OrderInv
<1>7. SlotInv'
  BY <1>1, <1>2, <1>f, <1>m, Consts DEF SlotInv
<1>9. EndInv'
  BY <1>1, <1>2, <1>f, <1>m, Consts DEF EndInv, EndsAt
<1>11. ShortInv'
  <2> SUFFICES ASSUME dir = "tx", NEW i \in Slots, Off(i)' < Posted'
               PROVE  \E e \in Slots :
                        /\ desc'[e].eop /\ Off(e)' < Posted'
                        /\ Off(i)' <= Off(e)' /\ Off(e)' <= Off(i)' + MaxFrags
    BY <1>2 DEF ShortInv, Short
  <2>1. Off(i) >= n /\ Off(i) < Posted /\ Off(i)' = Off(i) - n
    BY <1>f, <1>m, Consts
  <2>2. PICK e \in Slots : /\ desc[e].eop /\ Off(e) < Posted
                           /\ Off(i) <= Off(e) /\ Off(e) <= Off(i) + MaxFrags
    BY <2>1, <1>1 DEF ShortInv, Short
  <2>3. Off(e) >= n /\ Off(e)' = Off(e) - n /\ desc'[e] = desc[e]
    BY <2>1, <2>2, <1>f, <1>m
  <2>4. Off(e)' < Posted' /\ Off(i)' <= Off(e)' /\ Off(e)' <= Off(i)' + MaxFrags
    BY <2>1, <2>2, <2>3, <1>f, <1>m, Consts
  <2> QED BY <2>2, <2>3, <2>4
<1>12. FewInv'
  BY <1>2 DEF FewInv
<1> QED BY <1>5, <1>6, <1>7, <1>9, <1>11, <1>12 DEF RingInv

\* txp and rxp: n buffers are posted; the last one of a packet to transmit ends
\* it.
LEMMA PostStep ==
  ASSUME GInv, NEW n \in 0 .. Room, InUse, InUse', prod' = Add(prod, n),
         dir = "tx" => n \in 1 .. MaxFrags + 1,
         dir = "tx" => dev \notin {"new", "opening"},
         desc' \in [Slots -> [is : {"empty", "posted", "bad", "done"},
                              eop : BOOLEAN]],
         \A i \in Slots :
           IF Posted <= Off(i) /\ Off(i) < Posted + n
           THEN /\ desc'[i].is \in {"posted", "bad"}
                /\ dir \notin BadBufs => desc'[i].is # "bad"
                /\ desc'[i].eop <=> dir = "tx" /\ Off(i) = Posted + n - 1
           ELSE desc'[i] = desc[i],
         UNCHANGED <<dir, clear, cons, bpc, bprod, bcons, cons_first, count,
                     overrun, intr_at, dev>>
  PROVE  RingInv'
<1>1. /\ Types /\ OrderInv /\ SlotInv /\ EndInv /\ ShortInv /\ FewInv
  BY DEF GInv, RingInv
<1>f. /\ Posted \in 0 .. N /\ Completed \in 0 .. Posted
      /\ Handled \in Completed .. Posted
      /\ Handing => /\ First \in Completed .. Posted
                    /\ Reached \in First .. Known /\ Known \in Reached .. Posted
      /\ \A i \in Slots : Off(i) \in 0 .. N - 1
  BY RingFacts
<1>2. n \in 0 .. N /\ Posted + n \in 0 .. N
  BY <1>f, Consts DEF Room
<1>3. prod' \in Counter /\ Posted' = Posted + n
  <2>1. n \in 0 .. W - 1 - Sub(prod, clear)
    BY <1>f, <1>2, Consts DEF Posted
  <2> QED BY <2>1, <1>1, SubMoveAhead DEF Types, Posted
<1>4. /\ Completed' = Completed /\ First' = First
      /\ Reached' = Reached /\ Known' = Known /\ (Handing' <=> Handing)
      /\ Handled' = Handled /\ \A i : Off(i)' = Off(i)
  BY DEF Completed, First, Reached, Known, Handled, Handing, Off
<1>5. Types'
  BY <1>1, <1>3 DEF Types
<1>6. OrderInv'
  <2>1. /\ Posted' <= N /\ Completed' <= Posted'
        /\ Handing => Known' <= Posted'
    BY <1>3, <1>4, <1>f, <1>2, Consts
  <2>2. dev = "down" => FALSE
    BY DEF InUse
  <2> QED BY <1>1, <1>4, <2>1, <2>2 DEF OrderInv
<1>7. SlotInv'
  BY <1>1, <1>3, <1>4, <1>f, <1>2, Consts DEF SlotInv
<1>8. EndInv'
  <2>1. dir = "tx" => EndsAt(Posted)'
    BY <1>3, <1>4, <1>f, <1>2 DEF EndsAt
  <2>2. ~overrun => EndsAt(Completed)'
    BY <1>1, <1>4, <1>f DEF EndInv, EndsAt
  <2>3. Handing /\ ~overrun => EndsAt(First)'
    BY <1>1, <1>4, <1>f, Consts DEF EndInv, EndsAt
  <2>4. dir = "tx" /\ Handing =>
         \A i \in Slots : First' <= Off(i)' /\ Off(i)' < Reached' => ~desc'[i].eop
    BY <1>1, <1>f, <1>4, Consts DEF EndInv
  <2> QED BY <2>1, <2>2, <2>3, <2>4, <1>4 DEF EndInv
<1>9. ShortInv'
  <2>1. ASSUME dir = "tx" PROVE Short(Posted, MaxFrags)'
    <3> SUFFICES ASSUME NEW i \in Slots, Off(i) < Posted + n
                 PROVE  \E e \in Slots :
                          /\ desc'[e].eop /\ Off(e) < Posted + n
                          /\ Off(i) <= Off(e) /\ Off(e) <= Off(i) + MaxFrags
      BY <1>3, <1>4 DEF Short
    <3>1. CASE Off(i) < Posted
      <4>1. PICK e \in Slots : /\ desc[e].eop /\ Off(e) < Posted
                               /\ Off(i) <= Off(e) /\ Off(e) <= Off(i) + MaxFrags
        BY <2>1, <3>1, <1>1 DEF ShortInv, Short
      <4>2. desc'[e] = desc[e] /\ Off(e) < Posted + n
        BY <4>1, <1>f, <1>2
      <4> QED BY <4>1, <4>2
    <3>2. CASE ~(Off(i) < Posted)
      <4>1. Posted + n - 1 \in 0 .. N - 1 /\ clear \in Counter
        BY <2>1, <1>f, <1>2, <1>1, Consts DEF Types
      <4>2. PICK e \in Slots : Off(e) = Posted + n - 1
        BY <4>1, SlotAt DEF Off
      <4>3. /\ Posted <= Off(e) /\ Off(e) < Posted + n /\ Off(i) <= Off(e)
            /\ Off(e) <= Off(i) + MaxFrags
        BY <2>1, <3>2, <4>2, <1>f, <1>2, Consts
      <4> QED BY <4>2, <4>3, <2>1
    <3> QED BY <3>1, <3>2
  <2>2. dir = "rx" /\ ~overrun /\ RxFits => Short(Handled, MaxBufs - 1)'
    <3> SUFFICES ASSUME dir = "rx", ~overrun, RxFits,
                        NEW i \in Slots, Off(i) < Handled
                 PROVE  \E e \in Slots :
                          /\ desc'[e].eop /\ Off(e) < Handled
                          /\ Off(i) <= Off(e) /\ Off(e) <= Off(i) + (MaxBufs - 1)
      BY <1>4 DEF Short
    <3>1. PICK e \in Slots :
            /\ desc[e].eop /\ Off(e) < Handled
            /\ Off(i) <= Off(e) /\ Off(e) <= Off(i) + (MaxBufs - 1)
      BY <1>1 DEF ShortInv, Short
    <3>2. desc'[e] = desc[e]
      BY <3>1, <1>f, Consts
    <3> QED BY <3>1, <3>2
  <2> QED BY <2>1, <2>2 DEF ShortInv
<1>10. FewInv'
  <2>1. ASSUME Handing, Few(cons_first, bcons) PROVE Few(cons_first, bcons)'
    <3>1. CASE Sub(bcons, cons_first) < Need
      BY <3>1 DEF Few
    <3>2. CASE ~(Sub(bcons, cons_first) < Need)
      <4>1. PICK i \in Slots : desc[i].is = "bad" /\ First <= Off(i) /\ Off(i) < Reached
        BY <2>1, <3>2 DEF Few, First, Reached
      <4>2. desc'[i] = desc[i]
        BY <2>1, <4>1, <1>f, Consts
      <4>3. desc'[i].is = "bad" /\ First' <= Off(i)' /\ Off(i)' < Reached'
        BY <4>1, <4>2, <1>4
      <4> QED BY <4>3 DEF Few, First, Reached
    <3> QED BY <3>1, <3>2
  <2> QED BY <2>1, <1>1 DEF FewInv, Handing
<1> QED BY <1>5, <1>6, <1>7, <1>8, <1>9, <1>10 DEF RingInv

\* The slots that txp and rxp fill.
LEMMA PostMove ==
  ASSUME GInv, NEW n \in 0 .. Room, NEW i \in Slots
  PROVE  /\ n \in 0 .. N
         /\ i \in SlotsFrom(prod, n) <=> Posted <= Off(i) /\ Off(i) < Posted + n
         /\ i \in SlotsFrom(prod, n) =>
              (CHOOSE k \in 0 .. n - 1 : Add(prod, k) % N = i) = Off(i) - Posted
<1>1. Types /\ Posted \in 0 .. N /\ Off(i) \in 0 .. N - 1
  BY RingFacts
<1>2. prod \in Counter /\ clear \in Counter /\ n \in 0 .. N /\ Posted + n \in 0 .. N
  BY <1>1, Consts DEF Types, Room
<1>3. /\ i \in SlotsFrom(prod, n) <=> Dist(N, i, prod) < n
      /\ Dist(N, i, prod) < n =>
           (CHOOSE k \in 0 .. n - 1 : Add(prod, k) % N = i) = Dist(N, i, prod)
  BY <1>2, InSlots
<1>4. Dist(N, i, prod) = IF Posted <= Off(i) THEN Off(i) - Posted
                         ELSE Off(i) - Posted + N
  <2>1. Sub(prod, clear) <= N
    BY <1>1 DEF Posted
  <2> QED BY <2>1, <1>2, DistFrom DEF Posted, Off
<1>5. Dist(N, i, prod) < n <=> Posted <= Off(i) /\ Off(i) < Posted + n
  BY <1>1, <1>2, <1>4, Consts
<1>6. Dist(N, i, prod) < n => Dist(N, i, prod) = Off(i) - Posted
  BY <1>5, <1>4
<1> QED BY <1>2, <1>3, <1>5, <1>6

\* How much txc and txr take: not past the end of a packet of the first x slots.
LEMMA TxPacket ==
  ASSUME GInv, dir = "tx", NEW x \in 1 .. Posted, EndsAt(x)
  PROVE  ToEop(N) \in 1 .. x
<1>1. /\ Types /\ Posted \in 0 .. N /\ ShortInv
      /\ \A i \in Slots : Off(i) \in 0 .. N - 1
  BY RingFacts DEF GInv, RingInv
<1>2. clear \in Counter /\ N \in 1 .. N /\ 0 \in 0 .. N - 1 /\ x - 1 \in 0 .. N - 1
  BY <1>1, Consts DEF Types
<1>3. PICK i \in Slots : Off(i) = x - 1
  BY <1>2, SlotAt DEF Off
<1>4. desc[i].eop
  BY <1>1, <1>3 DEF EndsAt
<1>5. PICK j \in Slots : Off(j) = 0
  BY <1>2, SlotAt DEF Off
<1>6. PICK e \in Slots : desc[e].eop /\ Off(e) < Posted /\ Off(e) <= Off(j) + MaxFrags
  BY <1>1, <1>5 DEF ShortInv, Short
<1> DEFINE most == IF N > MaxBufs THEN MaxBufs ELSE N
<1>7. Off(e) < most
  BY <1>1, <1>5, <1>6, Consts
<1>8. ToEop(N) \in 1 .. most /\ ToEop(N) - 1 <= Off(i)
  BY <1>2, <1>4, <1>6, <1>7, ToEopFacts, Zenon
<1> QED BY <1>3, <1>8, Consts

\* Advancing behind clear_met_cons: cons goes along when clear starts from it.
LEMMA MetCons ==
  ASSUME NEW c \in Counter, NEW n \in 1 .. N
  PROVE  clear_met_cons(c, c, Add(c, n))
<1>1. Add(c, n) \in Counter /\ Sub(Add(c, n), c) = n
  <2>1. n \in 0 .. W - 1
    BY Consts
  <2> QED BY <2>1, AddSub
<1>2. Sub(Add(c, n), c + 1) = Sub(Add(c, n), Add(c, 1))
  BY <1>1, Consts DEF Sub, Add, Counter
<1>3. Sub(Add(c, n), Add(c, 1)) = n - 1
  <2>1. 1 \in 0 .. Sub(Add(c, n), c)
    BY <1>1
  <2> QED BY <1>1, <2>1, SubMoveBehind
<1> QED BY <1>1, <1>2, <1>3 DEF clear_met_cons

\* The guest's steps on the ring.
LEMMA GuestRing ==
  ASSUME GInv,
         \/ sring_gso_txc \/ sring_gso_rxc \/ sring_gso_txp \/ sring_gso_rxp
         \/ sring_gso_txr \/ sring_gso_rxr \/ RxAllocFails
  PROVE  RingInv' /\ CountInv'
<1>1. Types /\ OrderInv /\ EndInv /\ PlaceInv /\ CountInv
  BY DEF GInv, RingInv
<1>2. /\ Posted \in 0 .. N /\ Completed \in 0 .. W - 1
      /\ Room \in 0 .. N /\ free \in 0 .. Room
      /\ InUse => Completed \in 0 .. Posted
      /\ Completed = 0 <=> cons = clear
      /\ Posted = 0 <=> prod = clear
      /\ prod \in Counter /\ cons \in Counter /\ clear \in Counter
  <2>1. Types /\ Posted \in 0 .. N /\ Completed \in 0 .. W - 1
        /\ (InUse => Completed \in 0 .. Posted)
    BY RingFacts
  <2>2. Room \in 0 .. N /\ free \in 0 .. Room
    BY <2>1, <1>1, Consts DEF Room, CountInv
  <2> QED BY <2>1, <2>2, SubZero, Consts DEF Types, Posted, Completed
\* The count, when n buffers leave the ring and m of them are counted.
<1>c. ASSUME NEW n \in 0 .. Posted, NEW m \in 0 .. n, clear' = Add(clear, n),
             desc' = Emptied(clear, n), prod' = prod, dir' = dir,
             free' = free + m, m = n \/ (dir = "rx" /\ AllocFails)
      PROVE  CountInv'
  <2>1. Posted' = Posted - n
    BY <1>c, CollectMove
  <2> QED BY <1>1, <1>2, <1>c, <2>1, Consts DEF CountInv, Room
\* The count, when n buffers are posted.
<1>d. ASSUME NEW n \in 0 .. free, prod' = Add(prod, n), clear' = clear,
             dir' = dir, free' = free - n
      PROVE  CountInv'
  <2>1. n \in 0 .. W - 1 - Sub(prod, clear)
    BY <1>2, Consts DEF Posted, Room
  <2>2. Posted' = Posted + n
    BY <2>1, <1>2, <1>d, SubMoveAhead DEF Posted
  <2> QED BY <1>1, <1>2, <1>d, <2>2, Consts DEF CountInv, Room
<1>3. ASSUME sring_gso_txc PROVE RingInv' /\ CountInv'
  <2>1. InUse /\ InUse' /\ dir = "tx" /\ ~overrun /\ Completed \in 1 .. Posted
    <3>1. InUse /\ InUse' /\ dir = "tx" /\ clear # cons
      BY <1>1, <1>3 DEF sring_gso_txc, InUse, PlaceInv
    <3>2. ~overrun
      BY <1>1, <3>1 DEF OrderInv, Types
    <3> QED BY <3>1, <3>2, <1>2
  <2>2. ToEop(N) \in 1 .. Completed
    BY <2>1, <1>1, TxPacket DEF EndInv
  <2>3. ToEop(N) \in 0 .. Completed
    BY <2>2, <1>2
  <2>4. ToEop(N) \in 0 .. Posted /\ ToEop(N) \in 0 .. ToEop(N)
    BY <2>1, <2>2, <1>2, Consts
  <2>5. CountInv'
    BY <2>4, <1>3, <1>c DEF sring_gso_txc
  <2> QED BY <2>1, <2>3, <2>5, <1>3, CollectStep DEF sring_gso_txc
<1>4. ASSUME sring_gso_rxc PROVE RingInv' /\ CountInv'
  <2>1. InUse /\ InUse' /\ Completed \in 1 .. N
    <3>1. InUse /\ InUse' /\ clear # cons
      BY <1>1, <1>4 DEF sring_gso_rxc, InUse, PlaceInv
    <3> QED BY <3>1, <1>2, Consts
  <2>2. ToEop(Completed) \in 0 .. Completed
    <3> DEFINE most == IF Completed > MaxBufs THEN MaxBufs ELSE Completed
    <3>1. ToEop(Completed) \in 1 .. most
      BY <2>1, <1>2, ToEopFacts, Zenon
    <3> QED BY <2>1, <3>1, Consts
  <2>3. ToEop(Completed) \in 0 .. Posted
    BY <2>1, <2>2, <1>2, Consts
  <2>4. CountInv'
    <3>1. ToEop(Completed) \in 0 .. ToEop(Completed)
      BY <2>2, <1>2, Consts
    <3> QED BY <2>3, <3>1, <1>4, <1>c DEF sring_gso_rxc
  <2> QED BY <2>1, <2>2, <2>4, <1>4, CollectStep DEF sring_gso_rxc
<1>9. ASSUME RxAllocFails PROVE RingInv' /\ CountInv'
  <2>1. InUse /\ Completed \in 1 .. N /\ dir = "rx" /\ op \in {"poll", "close"}
    <3>1. InUse /\ clear # cons /\ dir = "rx" /\ op \in {"poll", "close"}
      BY <1>1, <1>9 DEF RxAllocFails, InUse, PlaceInv
    <3> QED BY <3>1, <1>2, Consts
  <2>2. ToEop(Completed) \in 0 .. Completed
    <3> DEFINE most == IF Completed > MaxBufs THEN MaxBufs ELSE Completed
    <3>1. ToEop(Completed) \in 1 .. most
      BY <2>1, <1>2, ToEopFacts, Zenon
    <3> QED BY <2>1, <3>1, Consts
  <2>3. ToEop(Completed) \in 0 .. Posted
    BY <2>1, <2>2, <1>2, Consts
  <2>4. CountInv'
    <3>1. 0 \in 0 .. ToEop(Completed) /\ free + 0 = free
      BY <2>2, <1>2, Consts
    <3> QED BY <2>1, <2>3, <3>1, <1>9, <1>c DEF RxAllocFails
  <2>5. CASE op = "poll"
    <3>1. InUse'
      BY <2>1, <2>5, <1>9 DEF RxAllocFails, InUse
    <3> QED BY <2>2, <2>4, <3>1, <1>9, CollectStep DEF RxAllocFails
  <2>6. CASE op = "close"
    <3>1. gpc' = "reclaim" /\ cons' \in Counter
      BY <2>6, <1>2, <1>9 DEF RxAllocFails
    <3> QED BY <2>1, <2>3, <2>4, <2>6, <3>1, <1>9, ReclaimStep DEF RxAllocFails
  <2> QED BY <2>1, <2>5, <2>6
<1>5. ASSUME sring_gso_txr PROVE RingInv' /\ CountInv'
  <2>1. /\ dir = "tx" /\ Posted \in 1 .. Posted /\ cons = clear
        /\ gpc = "reclaim" /\ op = "close"
    BY <1>1, <1>2, <1>5, Consts DEF sring_gso_txr, InUse, OrderInv, PlaceInv
  <2>2. ToEop(N) \in 1 .. Posted
    BY <2>1, <1>1, TxPacket DEF EndInv
  <2>3. ToEop(N) \in 0 .. Posted /\ ToEop(N) \in 1 .. N
    BY <2>2, <1>2, Consts
  <2>4. cons' = clear' /\ Add(clear, ToEop(N)) \in Counter
    <3>1. clear_met_cons(clear, cons, Add(clear, ToEop(N)))
      BY <2>1, <2>3, <1>2, MetCons, Zenon
    <3>2. ToEop(N) \in 0 .. W - 1
      BY <2>3, Consts
    <3> QED BY <3>1, <3>2, <1>2, <1>5, AddSub DEF sring_gso_txr
  <2>5. CountInv'
    <3>1. ToEop(N) \in 0 .. ToEop(N)
      BY <2>3, Consts
    <3> QED BY <2>3, <3>1, <1>5, <1>c DEF sring_gso_txr
  <2> QED BY <2>1, <2>3, <2>4, <2>5, <1>5, ReclaimStep DEF sring_gso_txr
<1>6. ASSUME sring_gso_rxr PROVE RingInv' /\ CountInv'
  <2> DEFINE left == Sub(prod, clear)
             n == IF left > MaxBufs THEN MaxBufs ELSE left
  <2>1. n \in 0 .. Posted /\ n \in Int
    BY <1>2, Consts DEF Posted
  <2>3. /\ clear' = Add(clear, n) /\ desc' = Emptied(clear, n)
        /\ cons' = Add(clear, n) \/ cons' = cons
        /\ dir = "rx" /\ gpc' = "reclaim" /\ op = "close" /\ free' = free + n
        /\ UNCHANGED <<dir, prod, bpc, bprod, bcons, cons_first, count,
                       overrun, intr_at, op, dev>>
    BY <1>1, <1>6 DEF sring_gso_rxr, PlaceInv
  <2> HIDE DEF n
  <2>4. cons' \in Counter
    <3>1. n \in 0 .. W - 1
      BY <2>1, <1>2, Consts
    <3> QED BY <2>3, <3>1, <1>2, AddSub
  <2>5. CountInv'
    <3>1. n \in 0 .. n
      BY <2>1, <1>2, Consts
    <3> QED BY <2>1, <2>3, <3>1, <1>c
  <2> QED BY <2>1, <2>3, <2>4, <2>5, ReclaimStep
<1>7. ASSUME sring_gso_txp PROVE RingInv' /\ CountInv'
  <2>1. /\ InUse /\ InUse' /\ dir = "tx" /\ dev = "up"
        /\ todo \in 1 .. MaxFrags + 1
    BY <1>1, <1>7 DEF sring_gso_txp, InUse, PlaceInv
  <2>2. todo \in 0 .. Room /\ todo \in 0 .. free
    <3>1. free >= todo
      BY <1>7 DEF sring_gso_txp
    <3> QED BY <2>1, <3>1, <1>2, Consts
  <2>3. PICK bad \in SUBSET (IF "tx" \in BadBufs THEN 0 .. todo - 1 ELSE {}) :
          desc' = Fill(prod, todo,
                    LAMBDA k : [is |-> IF k \in bad THEN "bad" ELSE "posted",
                                eop |-> k = todo - 1])
    BY <1>7 DEF sring_gso_txp
  <2>4. ASSUME NEW i \in Slots
        PROVE  IF Posted <= Off(i) /\ Off(i) < Posted + todo
               THEN /\ desc'[i].is \in {"posted", "bad"}
                    /\ dir \notin BadBufs => desc'[i].is # "bad"
                    /\ desc'[i].eop <=> Off(i) = Posted + todo - 1
                    /\ desc'[i] \in [is : {"empty", "posted", "bad", "done"},
                                     eop : BOOLEAN]
               ELSE desc'[i] = desc[i]
    <3>1. /\ i \in SlotsFrom(prod, todo) <=>
               Posted <= Off(i) /\ Off(i) < Posted + todo
          /\ i \in SlotsFrom(prod, todo) =>
               (CHOOSE k \in 0 .. todo - 1 : Add(prod, k) % N = i) = Off(i) - Posted
      BY <2>2, PostMove
    <3>2. Off(i) \in 0 .. N - 1
      BY RingFacts
    <3>3. CASE i \in SlotsFrom(prod, todo)
      <4>1. desc'[i] = [is |-> IF Off(i) - Posted \in bad THEN "bad" ELSE "posted",
                        eop |-> Off(i) - Posted = todo - 1]
        BY <2>3, <3>1, <3>3 DEF Fill
      <4>2. Off(i) - Posted = todo - 1 <=> Off(i) = Posted + todo - 1
        BY <2>1, <3>2, <1>2, Consts
      <4>4. dir \notin BadBufs => bad = {}
        BY <2>1
      <4>3. PICK b \in BOOLEAN : b <=> Off(i) - Posted = todo - 1
        OBVIOUS
      <4>0. desc'[i] = [is |-> IF Off(i) - Posted \in bad THEN "bad" ELSE "posted",
                        eop |-> b]
        BY <4>1, <4>3, Zenon
      <4>5. /\ desc'[i].is = IF Off(i) - Posted \in bad THEN "bad" ELSE "posted"
            /\ desc'[i].eop <=> Off(i) - Posted = todo - 1
        BY <4>0, <4>3
      <4>6. desc'[i] \in [is : {"empty", "posted", "bad", "done"}, eop : BOOLEAN]
        BY <4>0
      <4> QED BY <4>2, <4>4, <4>5, <4>6, <3>1, <3>3
    <3>4. CASE i \notin SlotsFrom(prod, todo)
      BY <2>3, <3>1, <3>4 DEF Fill
    <3> QED BY <3>3, <3>4, Zenon
  <2>5. desc' \in [Slots -> [is : {"empty", "posted", "bad", "done"},
                             eop : BOOLEAN]]
    <3>1. \A i \in Slots : desc'[i] \in [is : {"empty", "posted", "bad", "done"},
                                         eop : BOOLEAN]
      BY <2>4, <1>1 DEF Types
    <3>2. desc' = [i \in Slots |-> desc'[i]]
      BY <2>3 DEF Fill
    <3> QED BY <3>1, <3>2
  <2>6. \A i \in Slots :
           IF Posted <= Off(i) /\ Off(i) < Posted + todo
           THEN /\ desc'[i].is \in {"posted", "bad"}
                /\ dir \notin BadBufs => desc'[i].is # "bad"
                /\ desc'[i].eop <=> dir = "tx" /\ Off(i) = Posted + todo - 1
           ELSE desc'[i] = desc[i]
    BY <2>4, <2>1
  <2>7. /\ prod' = Add(prod, todo) /\ free' = free - todo
        /\ UNCHANGED <<dir, clear, cons, bpc, bprod, bcons, cons_first, count,
                     overrun, intr_at, dev>>
    BY <1>7 DEF sring_gso_txp
  <2>8. CountInv'
    BY <2>2, <2>7, <1>d
  <2> QED BY <2>1, <2>2, <2>5, <2>6, <2>7, <2>8, PostStep
<1>8. ASSUME sring_gso_rxp PROVE RingInv' /\ CountInv'
  <2> DEFINE most == IF free > MaxBufs THEN MaxBufs ELSE free
  <2>1. InUse /\ InUse' /\ dir = "rx"
    BY <1>1, <1>8 DEF sring_gso_rxp, InUse, PlaceInv
  <2>0. PICK n \in 0 .. most :
          /\ \E bad \in SUBSET (IF "rx" \in BadBufs THEN 0 .. n - 1 ELSE {}) :
               desc' = Fill(prod, n,
                    LAMBDA k : [is |-> IF k \in bad THEN "bad" ELSE "posted",
                                eop |-> FALSE])
          /\ prod' = Add(prod, n) /\ free' = free - n
    BY <1>8 DEF sring_gso_rxp
  <2>2. n \in 0 .. Room /\ n \in 0 .. free
    BY <1>2, Consts
  <2>3. PICK bad \in SUBSET (IF "rx" \in BadBufs THEN 0 .. n - 1 ELSE {}) :
          desc' = Fill(prod, n,
                    LAMBDA k : [is |-> IF k \in bad THEN "bad" ELSE "posted",
                                eop |-> FALSE])
    BY <2>0
  <2>4. /\ prod' = Add(prod, n) /\ free' = free - n
        /\ UNCHANGED <<dir, clear, cons, bpc, bprod, bcons, cons_first, count,
                       overrun, intr_at, dev>>
    BY <2>0, <1>8 DEF sring_gso_rxp
  <2>5. ASSUME NEW i \in Slots
        PROVE  IF Posted <= Off(i) /\ Off(i) < Posted + n
               THEN /\ desc'[i].is \in {"posted", "bad"}
                    /\ dir \notin BadBufs => desc'[i].is # "bad"
                    /\ ~desc'[i].eop
                    /\ desc'[i] \in [is : {"empty", "posted", "bad", "done"},
                                     eop : BOOLEAN]
               ELSE desc'[i] = desc[i]
    <3>1. /\ i \in SlotsFrom(prod, n) <=> Posted <= Off(i) /\ Off(i) < Posted + n
          /\ i \in SlotsFrom(prod, n) =>
               (CHOOSE k \in 0 .. n - 1 : Add(prod, k) % N = i) = Off(i) - Posted
      BY <2>2, PostMove
    <3>3. CASE i \in SlotsFrom(prod, n)
      <4>1. desc'[i] = [is |-> IF Off(i) - Posted \in bad THEN "bad" ELSE "posted",
                        eop |-> FALSE]
        BY <2>3, <3>1, <3>3 DEF Fill
      <4>4. dir \notin BadBufs => bad = {}
        BY <2>1
      <4>5. /\ desc'[i].is = IF Off(i) - Posted \in bad THEN "bad" ELSE "posted"
            /\ ~desc'[i].eop
        BY <4>1
      <4>6. desc'[i] \in [is : {"empty", "posted", "bad", "done"}, eop : BOOLEAN]
        BY <4>1
      <4> QED BY <4>4, <4>5, <4>6, <3>1, <3>3
    <3>4. CASE i \notin SlotsFrom(prod, n)
      BY <2>3, <3>1, <3>4 DEF Fill
    <3> QED BY <3>3, <3>4, Zenon
  <2>6. desc' \in [Slots -> [is : {"empty", "posted", "bad", "done"},
                             eop : BOOLEAN]]
    <3>1. \A i \in Slots : desc'[i] \in [is : {"empty", "posted", "bad", "done"},
                                         eop : BOOLEAN]
      BY <2>5, <1>1 DEF Types
    <3>2. desc' = [i \in Slots |-> desc'[i]]
      BY <2>3 DEF Fill
    <3> QED BY <3>1, <3>2
  <2>7. \A i \in Slots :
           IF Posted <= Off(i) /\ Off(i) < Posted + n
           THEN /\ desc'[i].is \in {"posted", "bad"}
                /\ dir \notin BadBufs => desc'[i].is # "bad"
                /\ desc'[i].eop <=> dir = "tx" /\ Off(i) = Posted + n - 1
           ELSE desc'[i] = desc[i]
    BY <2>5, <2>1
  <2>8. CountInv'
    BY <2>2, <2>4, <1>d
  <2> QED BY <2>1, <2>2, <2>4, <2>6, <2>7, <2>8, PostStep
<1> QED BY <1>3, <1>4, <1>5, <1>6, <1>7, <1>8, <1>9

\* Steps of the backend's round that move only its own copies.
LEMMA RoundMove ==
  ASSUME GInv, Handing, Handing',
         UNCHANGED <<dir, prod, cons, clear, desc, intr_at, gpc, dev, count,
                     cons_first>>,
         overrun' = overrun \/ (overrun' = TRUE /\ dir = "rx"),
         bprod' \in Counter, bcons' \in Counter,
         First <= Reached', Reached' <= Known', Known' <= Posted,
         bpc' \in {"remute", "use"} => Reached' < Known',
         bpc' = "publish" => bcons' = cons_first \/ overrun',
         dir = "tx" /\ count >= Budget => bcons' = cons_first,
         dir = "tx" => \A i \in Slots : First <= Off(i) /\ Off(i) < Reached'
                                          => ~desc[i].eop,
         FewInv'
  PROVE  RingInv'
<1>1. /\ Types /\ OrderInv /\ SlotInv /\ EndInv /\ ShortInv /\ InUse
  BY RingFacts DEF GInv, RingInv
<1>2. /\ Posted' = Posted /\ Completed' = Completed /\ First' = First
      /\ Handled' = Handled /\ (\A i : Off(i)' = Off(i)) /\ InUse'
  BY <1>1 DEF Posted, Completed, First, Handled, Off, InUse
<1>3. Types'
  BY <1>1 DEF Types
<1>4. OrderInv'
  <2>1. bpc' \notin {"halted", "start", "top", "begin", "notify"}
    BY DEF Handing
  <2>2. overrun' => dir = "rx"
    BY <1>1 DEF OrderInv
  <2> QED BY <1>1, <1>2, <2>1, <2>2 DEF OrderInv
<1>5. SlotInv'
  BY <1>1, <1>2 DEF SlotInv
<1>6. EndInv'
  BY <1>1, <1>2 DEF EndInv, EndsAt
<1>7. ShortInv'
  BY <1>1, <1>2 DEF ShortInv, Short
<1> QED BY <1>3, <1>4, <1>5, <1>6, <1>7 DEF RingInv

\* A packet is sent or received: the next m descriptors are handed over.
LEMMA HandOver ==
  ASSUME GInv, Handing, bpc' = "look", count < Budget, count' = count + 1,
         NEW m \in 1 .. Known - First,
         cons_first' = Add(cons_first, m), bcons' = cons_first',
         UNCHANGED <<dir, prod, cons, clear, bprod, intr_at, gpc, dev, overrun>>,
         desc' \in [Slots -> [is : {"empty", "posted", "bad", "done"},
                              eop : BOOLEAN]],
         \A i \in Slots :
           /\ IF First <= Off(i) /\ Off(i) < First + m
              THEN desc'[i].is \in {"done", "bad"}
              ELSE desc'[i].is = desc[i].is
           /\ desc'[i].is = "bad" => desc[i].is = "bad"
           /\ dir = "tx" \/ ~(First <= Off(i) /\ Off(i) < First + m) =>
                desc'[i].eop = desc[i].eop
           /\ Off(i) = First + m - 1 => desc'[i].eop,
         dir = "rx" /\ RxFits => m <= MaxBufs
  PROVE  RingInv'
<1>1. /\ Types /\ OrderInv /\ SlotInv /\ EndInv /\ ShortInv /\ PlaceInv
  BY DEF GInv, RingInv
<1>f. /\ Posted \in 0 .. N /\ Completed \in 0 .. Posted /\ InUse
      /\ First \in Completed .. Posted /\ Known \in First .. Posted
      /\ \A i \in Slots : Off(i) \in 0 .. N - 1
  BY RingFacts, Consts
<1>2. /\ Posted' = Posted /\ Completed' = Completed /\ Handing' /\ Known' = Known
      /\ Handled = First /\ Handled' = First' /\ \A i : Off(i)' = Off(i)
      /\ Reached' = First' /\ InUse'
  BY <1>f DEF Posted, Completed, Handing, Known, Handled, First, Reached, Off,
     InUse
<1>3. First' = First + m /\ cons_first' \in Counter
  <2>1. m \in 0 .. W - 1 - Sub(cons_first, clear)
    BY <1>f, Consts DEF First
  <2> QED BY <2>1, <1>1, SubMoveAhead DEF First, Types
<1>4. Types'
  BY <1>1, <1>3, Consts DEF Types
<1>5. OrderInv'
  <2>1. count' > 0 /\ count' # 0
    BY <1>1 DEF Types
  <2>2. /\ Completed' <= First' /\ First' <= Reached' /\ Reached' <= Known'
    BY <1>f, <1>2, <1>3, Consts
  <2>3. Known' <= Posted'
    BY <1>f, <1>2, Consts
  <2> QED BY <1>1, <1>f, <1>2, <2>1, <2>2, <2>3 DEF OrderInv
<1>6. SlotInv'
  <2> SUFFICES ASSUME NEW i \in Slots
               PROVE  /\ Off(i) >= Posted => desc'[i].is = "empty"
                      /\ First + m <= Off(i) /\ Off(i) < Posted
                           => desc'[i].is \in {"posted", "bad"}
                      /\ ~overrun /\ Off(i) < First + m => desc'[i].is \in {"done", "bad"}
                      /\ dir \notin BadBufs => desc'[i].is # "bad"
    BY <1>2, <1>3 DEF SlotInv
  <2>1. First + m <= Posted
    BY <1>f, Consts
  <2>2. /\ Off(i) >= Posted => desc[i].is = "empty"
        /\ First <= Off(i) /\ Off(i) < Posted
             => desc[i].is \in {"posted", "bad"}
        /\ ~overrun /\ Off(i) < First => desc[i].is \in {"done", "bad"}
        /\ dir \notin BadBufs => desc[i].is # "bad"
    BY <1>1, <1>f, <1>2 DEF SlotInv
  <2> QED BY <2>1, <2>2, <1>f
<1>7. EndInv'
  <2>1. dir = "tx" => EndsAt(Posted)'
    BY <1>1, <1>2 DEF EndInv, EndsAt
  <2>2. ~overrun => EndsAt(Completed)'
    BY <1>1, <1>2, <1>f DEF EndInv, EndsAt
  <2>3. EndsAt(First)'
    BY <1>2, <1>3, <1>f DEF EndsAt
  <2>4. \A i \in Slots : ~(First' <= Off(i)' /\ Off(i)' < Reached')
    BY <1>2, <1>3, <1>f
  <2> QED BY <2>1, <2>2, <2>3, <2>4, <1>2 DEF EndInv
<1>8. ShortInv'
  <2>1. dir = "tx" => Short(Posted, MaxFrags)'
    BY <1>1, <1>2 DEF ShortInv, Short
  <2>2. dir = "rx" /\ ~overrun /\ RxFits => Short(Handled, MaxBufs - 1)'
    <3> SUFFICES ASSUME dir = "rx", ~overrun, RxFits,
                        NEW i \in Slots, Off(i) < First + m
                 PROVE  \E e \in Slots :
                          /\ desc'[e].eop /\ Off(e) < First + m
                          /\ Off(i) <= Off(e) /\ Off(e) <= Off(i) + (MaxBufs - 1)
      BY <1>2, <1>3 DEF Short
    <3>1. CASE Off(i) < First
      <4>1. PICK e \in Slots :
              /\ desc[e].eop /\ Off(e) < First
              /\ Off(i) <= Off(e) /\ Off(e) <= Off(i) + (MaxBufs - 1)
        BY <3>1, <1>1, <1>2, <1>f DEF ShortInv, Short
      <4>2. desc'[e].eop /\ Off(e) < First + m
        BY <4>1, <1>f, Consts
      <4> QED BY <4>1, <4>2
    <3>2. CASE ~(Off(i) < First)
      <4>1. First + m - 1 \in 0 .. N - 1 /\ clear \in Counter
        BY <1>f, <1>1, Consts DEF Types
      <4>2. PICK e \in Slots : Off(e) = First + m - 1
        BY <4>1, SlotAt DEF Off
      <4>3. /\ Off(e) < First + m /\ Off(i) <= Off(e)
            /\ Off(e) <= Off(i) + (MaxBufs - 1)
        BY <3>2, <4>2, <1>f, Consts
      <4> QED BY <4>2, <4>3
    <3> QED BY <3>1, <3>2
  <2> QED BY <2>1, <2>2 DEF ShortInv
<1>9. FewInv'
  <2>1. Sub(bcons', cons_first') < Need
    BY <1>3, SubZero, Consts
  <2> QED BY <2>1 DEF FewInv, Few
<1> QED BY <1>4, <1>5, <1>6, <1>7, <1>8, <1>9 DEF RingInv

\* The collected descriptors that are usable.
LEMMA UsableFacts ==
  ASSUME GInv, Handing, NEW upto \in Counter, First <= Sub(upto, clear),
         Sub(upto, clear) <= Posted, ~Few(cons_first, upto)
  PROVE  Cardinality(Usable(upto)) >= Need
<1> DEFINE d == Sub(upto, cons_first)
<1>1. Types /\ Posted \in 0 .. N /\ First \in 0 .. Posted
      /\ \A i \in Slots : Off(i) \in 0 .. N - 1
  BY RingFacts, Consts
<1>2. d = Sub(upto, clear) - First /\ d \in 0 .. N /\ Sub(upto, clear) \in 0 .. N
  <2>1. d = Sub(upto, clear) - First
    BY <1>1, SubBetween DEF Types, First
  <2>2. Sub(upto, clear) \in 0 .. W - 1
    BY <1>1, SubType DEF Types
  <2>3. Sub(upto, clear) \in 0 .. N
    BY <2>2, <1>1, Consts
  <2> HIDE DEF d
  <2> QED BY <2>1, <2>3, <1>1, Consts
<1>3. Need <= d
  BY <1>2, Consts DEF Few
<1>4. ASSUME NEW k \in 0 .. d - 1 PROVE At(Add(cons_first, k)).is # "bad"
  <2>1. k \in 0 .. N - 1 /\ cons_first \in Counter /\ clear \in Counter
    BY <1>2, <1>1, Consts DEF Types
  <2> DEFINE i == Add(cons_first, k) % N
  <2>2. i \in Slots /\ Dist(N, i, cons_first) = k
    BY <2>1, SlotAt
  <2> HIDE DEF i
  <2>3. Dist(N, i, cons_first) = IF First <= Off(i) THEN Off(i) - First
                                 ELSE Off(i) - First + N
    <3>1. Sub(cons_first, clear) <= N
      BY <1>1, Consts DEF First
    <3> QED BY <3>1, <2>1, <2>2, DistFrom DEF First, Off
  <2>4. First <= Off(i) /\ Off(i) < Sub(upto, clear)
    BY <2>2, <2>3, <1>1, <1>2, Consts
  <2>5. desc[i].is # "bad"
    BY <2>2, <2>4 DEF Few, First
  <2> QED BY <2>5 DEF At, i
<1>5. Usable(upto) = 0 .. d - 1
  BY <1>4 DEF Usable
<1>6. Cardinality(0 .. d - 1) = d
  <2> HIDE DEF d
  <2>1. 0 \in Int /\ d - 1 \in Int /\ d \in Int /\ d >= 1
    BY <1>2, <1>3, Consts
  <2>2. ~(0 > d - 1) /\ (d - 1) - 0 + 1 = d
    BY <2>1
  <2>3. Cardinality(0 .. d - 1) = IF 0 > d - 1 THEN 0 ELSE (d - 1) - 0 + 1
    <3>1. \A a, b \in Int : Cardinality(a .. b) = IF a > b THEN 0 ELSE b - a + 1
      BY FS_Interval, Zenon
    <3> QED BY <2>1, <3>1, Zenon
  <2> QED BY <2>2, <2>3
<1> QED BY <1>3, <1>5, <1>6

\* The slots of the packet in the backend's hands.
LEMMA HandedSlots ==
  ASSUME GInv, Handing, NEW m \in 0 .. Posted - First, NEW i \in Slots
  PROVE  /\ i \in SlotsFrom(cons_first, m) <=> First <= Off(i) /\ Off(i) < First + m
<1>1. Types /\ Posted \in 0 .. N /\ First \in 0 .. Posted /\ Off(i) \in 0 .. N - 1
  BY RingFacts, Consts
<1>2. cons_first \in Counter /\ clear \in Counter /\ m \in 0 .. N
  BY <1>1, Consts DEF Types
<1>3. i \in SlotsFrom(cons_first, m) <=> Dist(N, i, cons_first) < m
  BY <1>2, InSlots
<1>4. Dist(N, i, cons_first) = IF First <= Off(i) THEN Off(i) - First
                               ELSE Off(i) - First + N
  <2>1. Sub(cons_first, clear) <= N
    BY <1>1, Consts DEF First
  <2> QED BY <2>1, <1>2, DistFrom DEF First, Off
<1> QED BY <1>1, <1>2, <1>3, <1>4, Consts

\* The slot that the backend looks at.
LEMMA HeadSlot ==
  ASSUME GInv, Handing, Reached < Posted
  PROVE  /\ bcons % N \in Slots /\ At(bcons) = desc[bcons % N]
         /\ \A i \in Slots : Off(i) = Reached <=> i = bcons % N
         /\ Add(bcons, 1) \in Counter /\ Sub(Add(bcons, 1), clear) = Reached + 1
         /\ Sub(bcons, cons_first) = Reached - First
<1>1. Types /\ Posted \in 0 .. N /\ First \in 0 .. Posted /\ Reached \in First .. Posted
  BY RingFacts, Consts
<1>2. bcons \in Counter /\ clear \in Counter /\ cons_first \in Counter
  BY <1>1 DEF Types
<1>3. Sub(bcons, clear) < N /\ Sub(bcons, clear) < W - 1
  BY <1>1, Consts DEF Reached
<1>4. /\ bcons % N \in Slots
      /\ \A i \in Slots : Off(i) = Reached <=> i = bcons % N
  BY <1>2, <1>3, SlotOf DEF Off, Reached
<1>5. Add(bcons, 1) \in Counter /\ Sub(Add(bcons, 1), clear) = Reached + 1
  BY <1>2, <1>3, SubStepAhead DEF Reached
<1>6. Sub(bcons, cons_first) = Reached - First
  <2>1. Sub(cons_first, clear) <= Sub(bcons, clear)
    BY <1>1, Consts DEF Reached, First
  <2> QED BY <2>1, <1>2, SubBetween DEF Reached, First
<1> QED BY <1>4, <1>5, <1>6 DEF At

\* The backend's steps.
LEMMA BackendRing ==
  ASSUME GInv,
         \/ RoundBegins \/ RoundLooks \/ RoundUnmutes \/ RoundRechecks
         \/ RoundRemutes \/ TxTakesFragment \/ TxSends \/ TxBlocks
         \/ TxOutOfBudget \/ RxCollects \/ RxOutOfBudget \/ RxReceives
         \/ RxNothing \/ RoundPublishes \/ RoundNotifies
  PROVE  RingInv'
<1>1. /\ Types /\ OrderInv /\ SlotInv /\ EndInv /\ ShortInv /\ FewInv
      /\ PlaceInv
  BY DEF GInv, RingInv
<1>f. /\ Posted \in 0 .. N /\ Completed \in 0 .. W - 1
      /\ First \in 0 .. W - 1 /\ Reached \in 0 .. W - 1
      /\ Known \in 0 .. W - 1
      /\ bpc # "halted" => InUse /\ Completed \in 0 .. Posted
      /\ Handing => /\ InUse
                    /\ First \in Completed .. Posted
                    /\ Reached \in First .. Known
                    /\ Known \in Reached .. Posted
      /\ \A i \in Slots : Off(i) \in 0 .. N - 1
  BY RingFacts
<1>c. /\ prod \in Counter /\ cons \in Counter /\ clear \in Counter
      /\ bprod \in Counter /\ bcons \in Counter /\ cons_first \in Counter
      /\ count \in 0 .. Budget /\ Budget \in Nat \ {0}
  BY <1>1, Consts DEF Types
\* Copies that stand still keep what is known of them.
<1>s. Handing => /\ First <= Reached /\ Reached <= Known /\ Known <= Posted
  BY <1>f, Consts
<1>2. CASE RoundBegins
  <2>1. /\ bpc = "begin" /\ bpc' = "look" /\ Handing' /\ ~Handing /\ InUse
        /\ bprod' = prod /\ bcons' = cons /\ cons_first' = cons /\ count = 0
        /\ UNCHANGED <<dir, prod, cons, clear, desc, intr_at, gpc, dev, count,
                       overrun>>
    BY <1>2, <1>1, <1>f DEF RoundBegins, Handing, OrderInv
  <2>2. /\ Posted' = Posted /\ Completed' = Completed /\ First' = Completed
        /\ Reached' = Completed /\ Known' = Posted
        /\ Handled' = Handled /\ (\A i : Off(i)' = Off(i)) /\ InUse'
    BY <2>1 DEF Posted, Completed, First, Reached, Known, Handled, Off, InUse
  <2>3. Types'
    BY <1>1, <2>1 DEF Types
  <2>4. OrderInv'
    <3>1. Completed <= Completed /\ Completed <= Posted /\ ~(count >= Budget)
      BY <1>f, <1>c, <2>1
    <3>2. Posted <= N /\ (dev \in {"new", "opening"} => bpc = "halted") /\ dev # "down"
      BY <1>1, <2>1 DEF OrderInv, PlaceInv, InUse
    <3>3. /\ Posted' <= N /\ Completed' <= Posted' /\ Completed' <= First'
          /\ First' <= Reached' /\ Reached' <= Known' /\ Known' <= Posted'
          /\ cons_first' = cons' /\ ~(count' >= Budget)
          /\ dev' \notin {"new", "opening", "down"}
      BY <2>1, <2>2, <3>1, <3>2, <1>f
    <3>4. overrun' => dir' = "rx"
      BY <1>1, <2>1 DEF OrderInv
    <3> QED BY <2>1, <2>2, <3>3, <3>4 DEF OrderInv
  <2>5. SlotInv'
    BY <1>1, <2>1, <2>2 DEF SlotInv
  <2>6. EndInv'
    <3>1. \A i \in Slots : ~(Completed <= Off(i) /\ Off(i) < Completed)
      BY <1>f
    <3> QED BY <1>1, <2>1, <2>2, <3>1 DEF EndInv, EndsAt
  <2>7. ShortInv'
    BY <1>1, <2>1, <2>2 DEF ShortInv, Short
  <2>8. FewInv'
    <3>1. Sub(cons, cons) < Need
      BY <1>c, SubZero, Consts
    <3> QED BY <2>1, <3>1 DEF FewInv, Few
  <2> QED BY <2>3, <2>4, <2>5, <2>6, <2>7, <2>8 DEF RingInv
<1>3. CASE RoundLooks
  <2> DEFINE last == IF dir = "tx" /\ bcons = bprod THEN prod ELSE bprod
  <2>1. /\ bpc = "look" /\ bpc' \in {"use", "publish", "unmute"}
        /\ Handing /\ Handing'
        /\ bprod' = last /\ bprod' \in Counter
        /\ bcons' = bcons \/ bcons' = cons_first
        /\ bpc' # "publish" => bcons' = bcons
        /\ bpc' = "publish" => bcons' = cons_first
        /\ bpc' = "use" => bcons # last
        /\ UNCHANGED <<dir, prod, cons, clear, desc, intr_at, gpc, dev, count,
                       cons_first, overrun>>
    BY <1>3, <1>1, <1>c DEF RoundLooks, Handing, PlaceInv
  <2>2. /\ Known' = (IF dir = "tx" /\ bcons = bprod THEN Posted ELSE Known)
        /\ Reached' = Reached \/ Reached' = First
        /\ bpc' = "use" => Reached' = Reached /\ Reached # Known'
    <3>1. /\ Known' = (IF dir = "tx" /\ bcons = bprod THEN Posted ELSE Known)
          /\ Known' = Sub(last, clear)
      BY <2>1 DEF Known, Posted
    <3>2. Reached' = Reached \/ Reached' = First
      BY <2>1 DEF Reached, First
    <3>3. bpc' = "use" => Reached' = Reached /\ Reached # Sub(last, clear)
      <4>1. last \in Counter
        BY <1>c
      <4> HIDE DEF last
      <4> QED BY <2>1, <4>1, <1>c, SubInj DEF Reached
    <3> HIDE DEF last
    <3> QED BY <3>1, <3>2, <3>3
  <2>3. /\ First <= Reached' /\ Reached' <= Known' /\ Known' <= Posted
        /\ bpc' = "use" => Reached' < Known'
        /\ Reached' <= Reached
    BY <1>f, <2>1, <2>2
  <2>4. FewInv'
    <3>1. Sub(cons_first, cons_first) < Need
      BY <1>c, SubZero, Consts
    <3>2. Few(cons_first, bcons') \/ dir = "tx"
      BY <1>1, <2>1, <3>1 DEF FewInv, Few, PlaceInv
    <3> QED BY <2>1, <3>2 DEF FewInv, Few, Off
  <2>5. dir = "tx" /\ count >= Budget => bcons' = cons_first
    BY <1>1, <2>1 DEF OrderInv
  <2>6. dir = "tx" => \A i \in Slots : First <= Off(i) /\ Off(i) < Reached'
                                         => ~desc[i].eop
    <3>1. \A i \in Slots : Off(i) < Reached' => Off(i) < Reached
      BY <1>f, <2>2, <2>3
    <3> QED BY <1>1, <2>1, <3>1 DEF EndInv
  <2>7. bcons' \in Counter
    BY <2>1, <1>c
  <2> HIDE DEF last
  <2> QED BY <2>1, <2>3, <2>4, <2>5, <2>6, <2>7, RoundMove
\* The copies stay as they are.
<1>4. ASSUME Handing, Handing', bpc' # "recv", bpc # "recv", bpc' # "publish",
             UNCHANGED <<dir, prod, cons, clear, desc, intr_at, gpc, dev, count,
                         cons_first, bcons, overrun>>,
             bprod' = bprod \/ bprod' = prod, bpc # "publish",
             bpc' \in {"remute", "use"} => bpc = "remute" \/ bprod' # bcons,
             bpc = "remute" => bprod' = bprod
      PROVE  RingInv'
  <2>1. /\ Known' = Known \/ Known' = Posted
        /\ Reached' = Reached /\ bprod' \in Counter
    BY <1>4, <1>c DEF Known, Posted, Reached
  <2>2. /\ First <= Reached' /\ Reached' <= Known' /\ Known' <= Posted
    BY <1>4, <1>f, <2>1
  <2>6. bpc' \in {"remute", "use"} => Reached' < Known'
    <3>1. CASE bpc = "remute"
      BY <1>1, <1>4, <3>1 DEF OrderInv, Reached, Known
    <3>2. CASE bpc # "remute" /\ bprod' # bcons
      <4>1. Reached' # Known'
        BY <1>4, <1>c, <2>1, <3>2, SubInj DEF Reached, Known
      <4>2. Reached' \in Int /\ Known' \in Int
        BY <1>f, <2>1
      <4> QED BY <2>2, <4>1, <4>2
    <3> QED BY <3>1, <3>2, <1>4
  <2>3. FewInv'
    BY <1>1, <1>4 DEF FewInv, Few, Handing, Off
  <2>4. dir = "tx" /\ count >= Budget => bcons' = cons_first
    BY <1>1, <1>4 DEF OrderInv
  <2>5. dir = "tx" => \A i \in Slots : First <= Off(i) /\ Off(i) < Reached'
                                         => ~desc[i].eop
    BY <1>1, <1>4, <2>1 DEF EndInv
  <2> QED BY <1>4, <1>c, <2>1, <2>2, <2>3, <2>4, <2>5, <2>6, RoundMove
<1>5. CASE RoundUnmutes
  BY <1>4, <1>5 DEF RoundUnmutes, Handing
\* The copies of the packet that is given up go back to its start.
<1>6. ASSUME Handing, bpc' = "publish", bcons' = cons_first,
             UNCHANGED <<dir, prod, cons, clear, desc, intr_at, gpc, dev, count,
                         cons_first, overrun>>,
             bprod' = bprod \/ bprod' = prod
      PROVE  RingInv'
  <2>1. /\ Known' = Known \/ Known' = Posted
        /\ Reached' = First /\ bprod' \in Counter /\ bcons' \in Counter
        /\ Handing'
    BY <1>6, <1>c DEF Known, Posted, Reached, First, Handing
  <2>2. /\ First <= Reached' /\ Reached' <= Known' /\ Known' <= Posted
    BY <1>6, <1>f, <2>1
  <2>3. FewInv'
    BY <1>6 DEF FewInv
  <2>4. \A i \in Slots : ~(First <= Off(i) /\ Off(i) < Reached')
    BY <1>f, <2>1
  <2>5. dir = "tx" => \A i \in Slots : First <= Off(i) /\ Off(i) < Reached'
                                         => ~desc[i].eop
    BY <2>4
  <2> QED BY <1>6, <1>c, <2>1, <2>2, <2>3, <2>5, RoundMove
<1>7. CASE RoundRechecks
  <2>1. CASE bcons # prod
    BY <1>4, <1>7, <2>1 DEF RoundRechecks, Handing
  <2>2. CASE bcons = prod
    BY <1>6, <1>7, <2>2 DEF RoundRechecks, Handing
  <2> QED BY <2>1, <2>2
<1>8. CASE RoundRemutes
  BY <1>4, <1>8 DEF RoundRemutes, Handing
<1>9. CASE TxTakesFragment
  <2>1. /\ Handing /\ Handing' /\ Reached < Known /\ Reached < Posted
        /\ dir = "tx" /\ ~At(bcons).eop /\ bcons' = Add(bcons, 1) /\ bpc' = "look"
        /\ ~(count >= Budget)
        /\ UNCHANGED <<dir, prod, cons, clear, desc, intr_at, gpc, dev, count,
                       cons_first, bprod, overrun>>
    BY <1>9, <1>1, <1>f, <1>c DEF TxTakesFragment, Handing, OrderInv
  <2>2. /\ \A i \in Slots : Off(i) = Reached => ~desc[i].eop
        /\ bcons' \in Counter /\ Reached' = Reached + 1 /\ Known' = Known
    BY <2>1, HeadSlot DEF Reached, Known
  <2>3. First <= Reached' /\ Reached' <= Known' /\ Known' <= Posted
    BY <2>1, <2>2, <1>f
  <2>4. \A i \in Slots : First <= Off(i) /\ Off(i) < Reached' => ~desc[i].eop
    <3>1. \A i \in Slots : Off(i) < Reached' => Off(i) = Reached \/ Off(i) < Reached
      BY <1>f, <2>2
    <3> QED BY <3>1, <2>1, <2>2, <1>1 DEF EndInv
  <2>5. FewInv'
    BY <2>1 DEF FewInv
  <2> QED BY <1>c, <2>1, <2>2, <2>3, <2>4, <2>5, RoundMove
<1>10. CASE TxSends
  <2>1. /\ Handing /\ Reached < Known /\ Reached < Posted
        /\ dir = "tx" /\ At(bcons).eop /\ bcons' = Add(bcons, 1) /\ bpc' = "look"
        /\ count < Budget /\ count' = count + 1 /\ cons_first' = Add(bcons, 1)
        /\ UNCHANGED <<dir, prod, cons, clear, intr_at, gpc, dev, bprod, overrun>>
    BY <1>10, <1>1, <1>f, <1>c DEF TxSends, Handing, OrderInv
  <2> DEFINE m == Reached - First + 1
  <2>2. /\ \A i \in Slots : Off(i) = Reached => desc[i].eop
        /\ Sub(bcons, cons_first) + 1 = m
        /\ bcons' \in Counter /\ Sub(bcons', clear) = Reached + 1
    BY <2>1, HeadSlot
  <2>3. m \in 1 .. Known - First /\ m \in 0 .. Posted - First /\ m \in 0 .. W - 1
        /\ First + m = Reached + 1
    BY <2>1, <1>f, Consts
  <2>4. cons_first' = Add(cons_first, m) /\ bcons' = cons_first'
    <3>1. m \in 0 .. W - 1 - Sub(cons_first, clear)
      BY <2>1, <1>f, Consts DEF First
    <3>2. /\ Add(cons_first, m) \in Counter
          /\ Sub(Add(cons_first, m), clear) = First + m
      BY <3>1, <1>c, SubMoveAhead DEF First
    <3> QED BY <2>1, <2>2, <2>3, <3>2, <1>c, SubInj
  <2> DEFINE sent(i) == i \in SlotsFrom(cons_first, m) /\ desc[i].is = "posted"
  <2>5. desc' = [i \in Slots |-> IF sent(i) THEN [desc[i] EXCEPT !.is = "done"]
                                 ELSE desc[i]]
    BY <1>10, <2>2 DEF TxSends
  <2>6. \A i \in Slots : i \in SlotsFrom(cons_first, m) <=>
                           First <= Off(i) /\ Off(i) < First + m
    BY <2>1, <2>3, HandedSlots
  <2> HIDE DEF m, sent
  <2>7. ASSUME NEW i \in Slots
        PROVE  /\ desc'[i] \in [is : {"empty", "posted", "bad", "done"},
                                 eop : BOOLEAN]
               /\ desc'[i].is = IF sent(i) THEN "done" ELSE desc[i].is
               /\ desc'[i].eop = desc[i].eop
    <3>1. desc[i] \in [is : {"empty", "posted", "bad", "done"}, eop : BOOLEAN]
      BY <1>1 DEF Types
    <3> QED BY <2>5, <3>1
  <2>8. desc' \in [Slots -> [is : {"empty", "posted", "bad", "done"},
                             eop : BOOLEAN]]
    BY <2>5, <2>7
  <2>9. \A i \in Slots :
           /\ IF First <= Off(i) /\ Off(i) < First + m
              THEN desc'[i].is \in {"done", "bad"}
              ELSE desc'[i].is = desc[i].is
           /\ desc'[i].is = "bad" => desc[i].is = "bad"
           /\ dir = "tx" \/ ~(First <= Off(i) /\ Off(i) < First + m) =>
                desc'[i].eop = desc[i].eop
           /\ Off(i) = First + m - 1 => desc'[i].eop
    <3> SUFFICES ASSUME NEW i \in Slots
                 PROVE  /\ IF First <= Off(i) /\ Off(i) < First + m
                           THEN desc'[i].is \in {"done", "bad"}
                           ELSE desc'[i].is = desc[i].is
                        /\ desc'[i].is = "bad" => desc[i].is = "bad"
                        /\ Off(i) = First + m - 1 => desc'[i].eop
      BY <2>7
    <3>1. First <= Off(i) /\ Off(i) < First + m => desc[i].is \in {"posted", "bad"}
      <4>1. First <= Off(i) /\ Off(i) < First + m => Off(i) < Posted
        BY <1>f, <2>1, <2>3
      <4> QED BY <4>1, <2>1, <1>1, <1>f DEF SlotInv, Handled
    <3>2. Off(i) = First + m - 1 => desc[i].eop
      BY <2>2, <2>3, <1>f
    <3> QED BY <3>1, <3>2, <2>6, <2>7 DEF sent
  <2> QED BY <2>1, <2>3, <2>4, <2>8, <2>9, HandOver
<1>11. CASE TxBlocks
  BY <1>6, <1>11 DEF TxBlocks, Handing
<1>12. CASE TxOutOfBudget
  <2>1. bcons = cons_first
    BY <1>1, <1>12 DEF TxOutOfBudget, OrderInv, Handing
  <2> QED BY <1>6, <1>12, <2>1 DEF TxOutOfBudget, Handing
<1>13. CASE RxCollects
  <2>1. /\ Handing /\ Handing' /\ Reached < Known /\ Reached < Posted
        /\ dir = "rx" /\ bcons' = Add(bcons, 1) /\ bpc' \in {"look", "recv"}
        /\ bpc = "use"
        /\ UNCHANGED <<dir, prod, cons, clear, desc, intr_at, gpc, dev, count,
                       cons_first, bprod, overrun>>
    BY <1>13, <1>1, <1>f, <1>c DEF RxCollects, Handing, OrderInv
  <2>2. /\ Sub(bcons, cons_first) = Reached - First
        /\ bcons' \in Counter /\ Reached' = Reached + 1 /\ Known' = Known
    BY <2>1, HeadSlot DEF Reached, Known
  <2>3. First <= Reached' /\ Reached' <= Known' /\ Known' <= Posted
    BY <2>1, <2>2, <1>f
  <2>4. Sub(bcons', cons_first) = Reached + 1 - First
    <3>1. Sub(cons_first, clear) <= Sub(bcons', clear)
      BY <2>1, <2>3 DEF Reached, First
    <3>2. Sub(bcons', clear) = Reached + 1
      BY <2>1, <2>2 DEF Reached
    <3>3. Sub(bcons', cons_first) = Sub(bcons', clear) - Sub(cons_first, clear)
      BY <2>2, <3>1, <1>c, SubBetween
    <3> QED BY <3>2, <3>3, <1>f DEF First
  <2>5. bpc' = "look" => Few(cons_first, bcons')
    <3> SUFFICES ASSUME ~Few(cons_first, bcons'), bpc' = "look" PROVE FALSE
      OBVIOUS
    <3>1. First <= Sub(bcons', clear) /\ Sub(bcons', clear) <= Posted
      <4>1. Sub(bcons', clear) = Reached'
        BY <2>1 DEF Reached
      <4> QED BY <4>1, <2>1, <2>2, <2>3, <1>f
    <3>2. Cardinality(Usable(bcons')) >= Need
      BY <2>1, <2>2, <3>1, UsableFacts
    <3> QED BY <3>2, <1>13 DEF RxCollects
  <2>6. Sub(bcons', cons_first) <= Need \/ Few(cons_first, bcons')
    <3>1. Few(cons_first, bcons)
      BY <2>1, <1>1 DEF FewInv
    <3>2. CASE Sub(bcons, cons_first) < Need
      BY <3>2, <2>2, <2>4, <2>1, <1>f, Consts
    <3>3. CASE ~(Sub(bcons, cons_first) < Need)
      <4>1. PICK i \in Slots : desc[i].is = "bad" /\ First <= Off(i) /\ Off(i) < Reached
        BY <3>1, <3>3 DEF Few, First, Reached
      <4>2. Off(i) < Sub(bcons', clear)
        BY <4>1, <2>1, <2>2, <1>f DEF Reached
      <4> QED BY <4>1, <4>2 DEF Few, First
    <3> QED BY <3>2, <3>3
  <2>7. FewInv'
    BY <2>1, <2>5, <2>6 DEF FewInv, Few, Off
  <2> QED BY <1>c, <2>1, <2>2, <2>3, <2>7, RoundMove
<1>14. CASE RxOutOfBudget
  <2>1. /\ Handing /\ Handing' /\ dir = "rx" /\ bpc' = "publish" /\ overrun' = TRUE
        /\ UNCHANGED <<dir, prod, cons, clear, desc, intr_at, gpc, dev, count,
                       cons_first, bcons, bprod>>
    BY <1>14, <1>1 DEF RxOutOfBudget, Handing, PlaceInv
  <2>2. Reached' = Reached /\ Known' = Known /\ FewInv'
    BY <2>1 DEF Reached, Known, FewInv
  <2> QED BY <1>c, <1>s, <2>1, <2>2, RoundMove
<1>15. CASE RxNothing
  BY <1>6, <1>15 DEF RxNothing, Handing
<1>16. CASE RxReceives
  <2>1. PICK k \in Usable(bcons) :
       /\ desc' = [i \in Slots |->
                    IF i = Add(cons_first, k) % N
                    THEN [is |-> "done", eop |-> TRUE]
                    ELSE IF i \in SlotsFrom(cons_first, k) /\ desc[i].is # "bad"
                         THEN [is |-> "done", eop |-> FALSE] ELSE desc[i]]
       /\ bcons' = Add(cons_first, k + 1) /\ cons_first' = Add(cons_first, k + 1)
    BY <1>16 DEF RxReceives
  <2>2. /\ Handing /\ dir = "rx" /\ bpc = "recv" /\ bpc' = "look"
        /\ count < Budget /\ count' = count + 1
        /\ UNCHANGED <<dir, prod, cons, clear, intr_at, gpc, dev, bprod, overrun>>
    BY <1>16, <1>1 DEF RxReceives, Handing, PlaceInv
  <2>3. Sub(bcons, cons_first) = Reached - First
    <3>1. Sub(cons_first, clear) <= Sub(bcons, clear)
      BY <2>2, <1>s DEF Reached, First
    <3> QED BY <3>1, <1>c, SubBetween DEF Reached, First
  <2>4. k \in 0 .. Reached - First - 1
    BY <2>1, <2>3 DEF Usable
  <2>5. /\ k + 1 \in 1 .. Known - First /\ k \in 0 .. Posted - First
        /\ k \in 0 .. N - 1
    BY <2>2, <2>4, <1>f, Consts
  <2>6. \A i \in Slots : i \in SlotsFrom(cons_first, k) <=>
                           First <= Off(i) /\ Off(i) < First + k
    BY <2>2, <2>5, HandedSlots
  <2>7. \A i \in Slots : Off(i) = First + k <=> i = Add(cons_first, k) % N
    <3>1. k \in 0 .. W - 1 - Sub(cons_first, clear)
      BY <2>2, <2>5, <1>f, Consts DEF First
    <3>2. /\ Add(cons_first, k) \in Counter
          /\ Sub(Add(cons_first, k), clear) = First + k
      BY <3>1, <1>c, SubMoveAhead DEF First
    <3>3. Sub(Add(cons_first, k), clear) < N
      BY <2>2, <2>4, <3>2, <1>f, Consts
    <3> QED BY <3>2, <3>3, <1>c, SlotOf DEF Off
  <2>8. ASSUME NEW i \in Slots
        PROVE  /\ desc'[i] = IF Off(i) = First + k THEN [is |-> "done", eop |-> TRUE]
                             ELSE IF First <= Off(i) /\ Off(i) < First + k
                                     /\ desc[i].is # "bad"
                                  THEN [is |-> "done", eop |-> FALSE] ELSE desc[i]
    BY <2>1, <2>6, <2>7
  <2>9. desc' \in [Slots -> [is : {"empty", "posted", "bad", "done"},
                             eop : BOOLEAN]]
    <3>1. desc \in [Slots -> [is : {"empty", "posted", "bad", "done"},
                              eop : BOOLEAN]]
      BY <1>1 DEF Types
    <3>2. /\ [is |-> "done", eop |-> TRUE] \in
               [is : {"empty", "posted", "bad", "done"}, eop : BOOLEAN]
          /\ [is |-> "done", eop |-> FALSE] \in
               [is : {"empty", "posted", "bad", "done"}, eop : BOOLEAN]
      OBVIOUS
    <3>3. \A i \in Slots : desc'[i] \in
            [is : {"empty", "posted", "bad", "done"}, eop : BOOLEAN]
      BY <3>1, <3>2, <2>8
    <3> QED BY <3>3, <2>1
  <2>10. \A i \in Slots :
           /\ IF First <= Off(i) /\ Off(i) < First + (k + 1)
              THEN desc'[i].is \in {"done", "bad"}
              ELSE desc'[i].is = desc[i].is
           /\ desc'[i].is = "bad" => desc[i].is = "bad"
           /\ dir = "tx" \/ ~(First <= Off(i) /\ Off(i) < First + (k + 1)) =>
                desc'[i].eop = desc[i].eop
           /\ Off(i) = First + (k + 1) - 1 => desc'[i].eop
    <3> SUFFICES ASSUME NEW i \in Slots
                 PROVE  /\ IF First <= Off(i) /\ Off(i) < First + (k + 1)
                           THEN desc'[i].is \in {"done", "bad"}
                           ELSE desc'[i].is = desc[i].is
                        /\ desc'[i].is = "bad" => desc[i].is = "bad"
                        /\ ~(First <= Off(i) /\ Off(i) < First + (k + 1)) =>
                              desc'[i].eop = desc[i].eop
                        /\ Off(i) = First + (k + 1) - 1 => desc'[i].eop
      BY <2>2
    <3>1. CASE Off(i) = First + k
      <4>1. /\ First <= Off(i) /\ Off(i) < First + (k + 1)
            /\ First + (k + 1) - 1 = Off(i)
        BY <3>1, <2>5, <1>f
      <4> QED BY <2>8, <3>1, <4>1
    <3>2. CASE Off(i) # First + k
      <4>1. /\ First <= Off(i) /\ Off(i) < First + (k + 1) <=>
                 First <= Off(i) /\ Off(i) < First + k
            /\ First + (k + 1) - 1 # Off(i)
        BY <3>2, <2>5, <1>f
      <4>2. CASE First <= Off(i) /\ Off(i) < First + k /\ desc[i].is # "bad"
        BY <2>8, <3>2, <4>1, <4>2
      <4>3. CASE ~(First <= Off(i) /\ Off(i) < First + k /\ desc[i].is # "bad")
        <5>1. desc'[i] = desc[i]
          BY <2>8, <3>2, <4>3
        <5> QED BY <5>1, <4>1, <4>3
      <4> QED BY <4>2, <4>3
    <3> QED BY <3>1, <3>2
  <2>11. RxFits => k + 1 <= MaxBufs
    <3> SUFFICES ASSUME RxFits PROVE k + 1 <= MaxBufs
      OBVIOUS
    <3>1. CASE N <= MaxBufs
      BY <3>1, <2>5, Consts
    <3>2. CASE "rx" \notin BadBufs /\ Need <= MaxBufs
      <4>1. \A i \in Slots : desc[i].is # "bad"
        BY <3>2, <2>2, <1>1 DEF SlotInv
      <4>2. Sub(bcons, cons_first) <= Need \/ Sub(bcons, cons_first) < Need
        BY <4>1, <2>2, <1>1 DEF FewInv, Few
      <4> QED BY <3>2, <4>2, <2>2, <2>3, <2>4, <1>f, Consts
    <3> QED BY <3>1, <3>2, <2>2, <1>1 DEF RxFits, PlaceInv
  <2> QED BY <2>1, <2>2, <2>5, <2>9, <2>10, <2>11, HandOver
<1>17. CASE RoundPublishes
  <2>1. /\ Handing /\ ~Handing' /\ bpc = "publish" /\ bpc' = "notify"
        /\ cons' = (IF count > 0 THEN bcons ELSE cons) /\ cons_first' = cons
        /\ UNCHANGED <<dir, prod, clear, desc, intr_at, gpc, dev, bprod, bcons,
                       count, overrun>>
    BY <1>17 DEF RoundPublishes, Handing
  <2>2. /\ Posted' = Posted /\ (\A i : Off(i)' = Off(i)) /\ InUse' /\ InUse
    BY <2>1, <1>f DEF Posted, Off, InUse
  <2>3. /\ Completed' = (IF count > 0 THEN Reached ELSE First)
        /\ Handled' = Completed' /\ Handled = First
    BY <2>1, <1>1, <1>c DEF Completed, Reached, First, Handled, OrderInv
  <2>4. ~overrun => Completed' = First
    BY <2>1, <2>3, <1>1 DEF OrderInv, Reached, First
  <2>5. First <= Completed' /\ Completed' <= Posted
    BY <2>1, <2>3, <1>f
  <2>6. Types'
    BY <2>1, <1>1 DEF Types
  <2>7. OrderInv'
    <3>1. count > 0 => Sub(bcons, cons) <= N
      <4>1. Sub(cons, clear) <= Sub(bcons, clear)
        BY <2>1, <1>f DEF Completed, Reached
      <4>2. Sub(bcons, cons) = Reached - Completed
        BY <4>1, <1>c, SubBetween DEF Reached, Completed
      <4> QED BY <4>2, <2>1, <1>f, Consts
    <3>2. dev \notin {"new", "opening", "down"}
      BY <1>1, <2>1 DEF PlaceInv
    <3>3. Posted <= N /\ (overrun => dir = "rx")
      BY <1>1 DEF OrderInv
    <3> QED BY <2>1, <2>2, <2>5, <3>1, <3>2, <3>3 DEF OrderInv
  <2>8. SlotInv'
    <3> SUFFICES ASSUME NEW i \in Slots
                 PROVE  /\ Off(i) >= Posted => desc[i].is = "empty"
                        /\ Completed' <= Off(i) /\ Off(i) < Posted
                             => desc[i].is \in {"posted", "bad"}
                        /\ ~overrun /\ Off(i) < First => desc[i].is \in {"done", "bad"}
                        /\ dir \notin BadBufs => desc[i].is # "bad"
      BY <2>1, <2>2, <2>3, <2>4 DEF SlotInv
    <3>1. Completed' <= Off(i) => First <= Off(i)
      BY <2>1, <2>3, <2>5, <1>f
    <3> QED BY <3>1, <2>2, <2>3, <1>1 DEF SlotInv
  <2>9. EndInv'
    BY <1>1, <2>1, <2>2, <2>4 DEF EndInv, EndsAt
  <2>10. ShortInv'
    BY <1>1, <2>1, <2>2, <2>3, <2>4 DEF ShortInv, Short
  <2>11. FewInv'
    BY <2>1 DEF FewInv
  <2> QED BY <2>6, <2>7, <2>8, <2>9, <2>10, <2>11 DEF RingInv
<1>18. CASE RoundNotifies
  <2>1. /\ ~Handing /\ ~Handing' /\ bpc = "notify" /\ bpc' \in {"halted", "top"}
        /\ bprod' = 0 /\ bcons' = 0 /\ cons_first' = 0 /\ count' = 0
        /\ UNCHANGED <<dir, prod, cons, clear, desc, intr_at, gpc, dev, overrun>>
    BY <1>18 DEF RoundNotifies, Handing
  <2>2. /\ Posted' = Posted /\ Completed' = Completed /\ Handled' = Handled
        /\ (\A i : Off(i)' = Off(i)) /\ (InUse' <=> InUse)
    BY <2>1 DEF Posted, Completed, Handled, Off, InUse
  <2>3. Types'
    BY <2>1, <1>1, Consts DEF Types
  <2>4. OrderInv'
    BY <2>1, <2>2, <1>1, <1>c DEF OrderInv
  <2>5. SlotInv'
    BY <2>1, <2>2, <1>1 DEF SlotInv
  <2>6. EndInv'
    BY <2>1, <2>2, <1>1 DEF EndInv, EndsAt
  <2>7. ShortInv'
    BY <2>1, <2>2, <1>1 DEF ShortInv, Short
  <2>8. FewInv'
    BY <2>1 DEF FewInv
  <2> QED BY <2>3, <2>4, <2>5, <2>6, <2>7, <2>8 DEF RingInv
<1> QED BY <1>2, <1>3, <1>5, <1>7, <1>8, <1>9, <1>10, <1>11, <1>12, <1>13,
          <1>14, <1>15, <1>16, <1>17, <1>18

\* The ring under every step.
LEMMA RingStep ==
  ASSUME GInv, ~MayReopen, [Next]_vars PROVE RingInv'
<1>p. PlaceInv /\ intr_at \in Counter
  BY DEF GInv, RingInv, Types
<1>1. CASE bpfhv_open
  BY <1>1, <1>p, RingFrame DEF bpfhv_open, PlaceInv, InUse
<1>2. CASE OpenEnable
  BY <1>2, <1>p, RingFrame DEF OpenEnable, Return, PlaceInv, InUse
<1>3. CASE bpfhv_start_xmit
  BY <1>3, <1>p, RingFrame DEF bpfhv_start_xmit, PlaceInv, InUse
<1>4. CASE bpfhv_intr
  BY <1>4, <1>p, RingFrame DEF bpfhv_intr, PlaceInv, InUse
<1>5. CASE bpfhv_poll
  BY <1>5, <1>p, RingFrame DEF bpfhv_poll, PlaceInv, InUse
<1>6. CASE CleanDone
  BY <1>6, <1>p, RingFrame DEF CleanDone, Return, BudgetLeft, PlaceInv, InUse
<1>7. CASE XmitGivesUp
  BY <1>7, <1>p, RingFrame DEF XmitGivesUp, Return, PlaceInv, InUse
<1>8. CASE XmitLost
  BY <1>8, <1>p, RingFrame DEF XmitLost, PlaceInv, InUse
<1>9. CASE LooksAtKick
  BY <1>9, <1>p, RingFrame DEF LooksAtKick, PlaceInv, InUse
<1>10. CASE RxPollComplete
  BY <1>10, <1>p, RingFrame DEF RxPollComplete, PlaceInv, InUse
<1>11. CASE sring_gso_xi
  BY <1>11, <1>p, RingFrame DEF sring_gso_xi, PlaceInv, InUse
<1>12. CASE XiArms
  <2>1. Add(clear, min - 1) \in Counter
    <3>1. clear \in Int /\ min - 1 \in Int
      BY Consts DEF GInv, RestOK, RingInv, Types, Counter
    <3> QED BY <3>1, AddType
  <2> QED BY <1>12, <2>1, <1>p, RingFrame DEF XiArms, PlaceInv, InUse
<1>13. CASE XiCheck
  BY <1>13, <1>p, RingFrame DEF XiCheck, Return, PlaceInv, InUse
<1>14. CASE XmitStops
  BY <1>14, <1>p, RingFrame DEF XmitStops, Return, PlaceInv, InUse
<1>15. CASE bpfhv_close
  BY <1>15, <1>p, RingFrame DEF bpfhv_close, PlaceInv, InUse
<1>16. CASE CloseNapiDisable
  BY <1>16, <1>p, RingFrame DEF CloseNapiDisable, PlaceInv, InUse
<1>17. CASE CloseDone
  BY <1>17, <1>p, RingFrame DEF CloseDone, Return, PlaceInv, InUse
<1>18. CASE PacketArrives
  BY <1>18, <1>p, RingFrame DEF PacketArrives, PlaceInv, InUse
<1>25. CASE WorkerStarts
  BY <1>25, <1>p, RingFrame DEF WorkerStarts, PlaceInv, InUse
<1>19. CASE process_packets_poll
  BY <1>19, <1>p, RingFrame DEF process_packets_poll, WakeUp, PlaceInv, InUse
<1>20. CASE PollOther
  BY <1>20, <1>p, RingFrame DEF PollOther, WakeUp, PlaceInv, InUse
<1>21. CASE process_packets_spin
  BY <1>21, <1>p, RingFrame DEF process_packets_spin, PlaceInv, InUse
<1>22. CASE \/ sring_gso_txc \/ sring_gso_rxc \/ sring_gso_txp \/ sring_gso_rxp
            \/ sring_gso_txr \/ sring_gso_rxr \/ RxAllocFails
  BY <1>22, GuestRing
<1>23. CASE \/ RoundBegins \/ RoundLooks \/ RoundUnmutes \/ RoundRechecks
            \/ RoundRemutes \/ TxTakesFragment \/ TxSends \/ TxBlocks
            \/ TxOutOfBudget \/ RxCollects \/ RxOutOfBudget \/ RxReceives
            \/ RxNothing \/ RoundPublishes \/ RoundNotifies
  BY <1>23, BackendRing
<1>24. CASE UNCHANGED vars
  BY <1>24, <1>p, RingFrame DEF vars, InUse
<1> QED BY <1>1, <1>2, <1>3, <1>4, <1>5, <1>6, <1>7, <1>8, <1>9, <1>10, <1>11,
          <1>12, <1>13, <1>14, <1>15, <1>16, <1>17, <1>18, <1>19, <1>20,
          <1>21, <1>22, <1>23, <1>24, <1>25 DEF Next

\* The count under every step.
LEMMA CountStep ==
  ASSUME GInv, [Next]_vars PROVE CountInv'
<1>1. CASE \/ sring_gso_txc \/ sring_gso_rxc \/ sring_gso_txp \/ sring_gso_rxp
           \/ sring_gso_txr \/ sring_gso_rxr \/ RxAllocFails
  BY <1>1, GuestRing
<1>2. ASSUME UNCHANGED <<free, prod, clear, dir>> PROVE CountInv'
  BY <1>2 DEF GInv, CountInv, Room, Posted
<1>3. CASE \/ bpfhv_open \/ OpenEnable \/ bpfhv_start_xmit \/ bpfhv_intr
           \/ bpfhv_poll \/ CleanDone \/ XmitGivesUp \/ XmitLost
           \/ LooksAtKick \/ RxPollComplete \/ sring_gso_xi \/ XiArms
           \/ XiCheck \/ XmitStops \/ bpfhv_close \/ CloseNapiDisable
           \/ CloseDone
  BY <1>2, <1>3 DEF bpfhv_open, OpenEnable, bpfhv_start_xmit, bpfhv_intr,
     bpfhv_poll, CleanDone, XmitGivesUp, XmitLost, LooksAtKick, RxPollComplete,
     sring_gso_xi, XiArms, XiCheck, XmitStops, bpfhv_close, CloseNapiDisable,
     CloseDone
<1>4. CASE \/ PacketArrives \/ WorkerStarts \/ process_packets_poll
           \/ PollOther \/ process_packets_spin \/ RoundBegins \/ RoundLooks
           \/ RoundUnmutes \/ RoundRechecks \/ RoundRemutes
  BY <1>2, <1>4 DEF PacketArrives, WorkerStarts, process_packets_poll,
     PollOther, WakeUp, process_packets_spin, RoundBegins, RoundLooks,
     RoundUnmutes, RoundRechecks, RoundRemutes
<1>5. CASE \/ TxTakesFragment \/ TxSends \/ TxBlocks \/ TxOutOfBudget
           \/ RxCollects \/ RxOutOfBudget \/ RxReceives \/ RxNothing
           \/ RoundPublishes \/ RoundNotifies \/ UNCHANGED vars
  BY <1>2, <1>5 DEF TxTakesFragment, TxSends, TxBlocks, TxOutOfBudget,
     RxCollects, RxOutOfBudget, RxReceives, RxNothing, RoundPublishes,
     RoundNotifies, vars
<1> QED BY <1>1, <1>3, <1>4, <1>5 DEF Next

\* What is not the ring's keeps its type.
LEMMA RestStep ==
  ASSUME GInv, [Next]_vars PROVE RestOK'
<1>1. RestOK /\ PlaceInv
  BY DEF GInv
<1>2. HALF_PENDING_BUFS \in 0 .. N /\ free \in 0 .. N
  <2>1. Posted \in 0 .. N /\ free \in 0 .. N
    BY RingFacts, Consts DEF GInv, CountInv, Room
  <2>2. (N - free) \div 2 \in 0 .. N - 1
    BY <2>1, Consts
  <2> QED BY <2>1, <2>2, Consts DEF HALF_PENDING_BUFS
<1>f. FlagsOK
  BY <1>1 DEF RestOK
<1>4. CASE bpfhv_open
  BY <1>4, <1>1, <1>2, Consts DEF RestOK, FlagsOK, bpfhv_open
<1>5. CASE OpenEnable
  <2>1. FlagsOK'
    BY <1>5, <1>f, <1>1, Zenon DEF FlagsOK, PlaceInv, OpenEnable, Return
  <2> QED BY <1>5, <2>1, <1>1, <1>2, Consts DEF RestOK, OpenEnable, Return
<1>6. CASE bpfhv_start_xmit
  BY <1>6, <1>1, <1>2, Consts DEF RestOK, FlagsOK, bpfhv_start_xmit
<1>7. CASE bpfhv_intr
  <2>1. FlagsOK'
    BY <1>7, <1>f, <1>1, Zenon DEF FlagsOK, PlaceInv, bpfhv_intr
  <2> QED BY <1>7, <2>1, <1>1, <1>2, Consts DEF RestOK, bpfhv_intr
<1>8. CASE bpfhv_poll
  BY <1>8, <1>1, <1>2, Consts DEF RestOK, FlagsOK, bpfhv_poll
<1>9. CASE sring_gso_txc
  BY <1>9, <1>1, <1>2, Consts DEF RestOK, FlagsOK, sring_gso_txc
<1>10. CASE sring_gso_rxc
  BY <1>10, <1>1, <1>2, Consts DEF RestOK, FlagsOK, sring_gso_rxc
<1>47. CASE RxAllocFails
  BY <1>47, <1>1, <1>2, Consts DEF RestOK, FlagsOK, RxAllocFails
<1>11. CASE CleanDone
  BY <1>11, <1>1, <1>2, Consts DEF RestOK, FlagsOK, CleanDone, Return
<1>12. CASE XmitGivesUp
  BY <1>12, <1>1, <1>2, Consts DEF RestOK, FlagsOK, XmitGivesUp, Return
<1>13. CASE XmitLost
  BY <1>13, <1>1, <1>2, Consts DEF RestOK, FlagsOK, XmitLost
<1>14. CASE sring_gso_txp
  <2>1. FlagsOK'
    BY <1>14, <1>f, <1>1, Zenon DEF FlagsOK, PlaceInv, sring_gso_txp
  <2>2. gpc' = "kick" /\ todo' = 0 /\ min' = min /\ polled' = polled
    BY <1>14 DEF sring_gso_txp
  <2>3. todo' \in 0 .. MaxFrags + 1
    BY <2>2, Consts
  <2> QED BY <2>1, <2>2, <2>3, <1>1 DEF RestOK
<1>15. CASE sring_gso_rxp
  <2>1. oom' \in BOOLEAN
    BY <1>15, Zenon DEF sring_gso_rxp
  <2>2. /\ gpc' = "kick"
        /\ UNCHANGED <<kick_enabled, intr_enabled, kick_pending, stopped, kickfd,
                       irq, can, again, stopreq, stopping, work, todo, min,
                       polled>>
    BY <1>15 DEF sring_gso_rxp
  <2>3. FlagsOK'
    BY <2>1, <2>2, <1>f DEF FlagsOK
  <2> QED BY <2>2, <2>3, <1>1 DEF RestOK
<1>16. CASE LooksAtKick
  <2>1. FlagsOK'
    BY <1>16, <1>f, <1>1, Zenon DEF FlagsOK, PlaceInv, LooksAtKick
  <2>2. /\ min' \in {min, HALF_PENDING_BUFS} /\ todo' = todo /\ polled' = polled
        /\ dir = "tx" => gpc' = "arm"
        /\ dir = "rx" /\ free > 0 /\ ~oom => gpc' = "refill"
        /\ dir = "rx" /\ (free = 0 \/ oom) /\ op = "open" => gpc' = "enable"
        /\ dir = "rx" /\ (free = 0 \/ oom) /\ op # "open" => gpc' = "clean"
    BY <1>16 DEF LooksAtKick
  <2>3. ((free > 0 /\ ~oom) \/ (free = 0 \/ oom)) /\ dir \in {"tx", "rx"}
    BY <1>1, <1>2, Consts DEF PlaceInv
  <2> QED BY <2>1, <2>2, <2>3, <1>1, <1>2 DEF RestOK
<1>17. CASE RxPollComplete
  BY <1>17, <1>1, <1>2, Consts DEF RestOK, FlagsOK, RxPollComplete
<1>18. CASE sring_gso_xi
  BY <1>18, <1>1, <1>2, Consts DEF RestOK, FlagsOK, sring_gso_xi
<1>19. CASE XiArms
  BY <1>19, <1>1, <1>2, Consts DEF RestOK, FlagsOK, XiArms
<1>20. CASE XiCheck
  <2>1. FlagsOK'
    BY <1>20, <1>f, <1>1, Zenon DEF FlagsOK, PlaceInv, XiCheck, Return
  <2> QED BY <1>20, <2>1, <1>1, <1>2, Consts DEF RestOK, XiCheck, Return
<1>21. CASE XmitStops
  <2>1. FlagsOK'
    BY <1>21, <1>f, <1>1, Zenon DEF FlagsOK, PlaceInv, XmitStops, Return
  <2> QED BY <1>21, <2>1, <1>1, <1>2, Consts DEF RestOK, XmitStops, Return
<1>22. CASE bpfhv_close
  BY <1>22, <1>1, <1>2, Consts DEF RestOK, FlagsOK, bpfhv_close
<1>23. CASE CloseNapiDisable
  BY <1>23, <1>1, <1>2, Consts DEF RestOK, FlagsOK, CloseNapiDisable
<1>24. CASE sring_gso_txr
  BY <1>24, <1>1, <1>2, Consts DEF RestOK, FlagsOK, sring_gso_txr
<1>25. CASE sring_gso_rxr
  BY <1>25, <1>1, <1>2, Consts DEF RestOK, FlagsOK, sring_gso_rxr
<1>26. CASE CloseDone
  BY <1>26, <1>1, <1>2, Consts DEF RestOK, FlagsOK, CloseDone, Return
<1>27. CASE PacketArrives
  BY <1>27, <1>1, <1>2, Consts DEF RestOK, FlagsOK, PacketArrives
<1>48. CASE WorkerStarts
  <2>1. FlagsOK'
    BY <1>48, <1>f, <1>1, Zenon DEF FlagsOK, PlaceInv, WorkerStarts
  <2> QED BY <1>48, <2>1, <1>1, <1>2, Consts DEF RestOK, WorkerStarts
<1>28. CASE process_packets_poll
  BY <1>28, <1>1, <1>2, Consts DEF RestOK, FlagsOK, process_packets_poll,
     WakeUp
<1>29. CASE PollOther
  BY <1>29, <1>1, <1>2, Consts DEF RestOK, FlagsOK, PollOther, WakeUp
<1>30. CASE process_packets_spin
  BY <1>30, <1>1, <1>2, Consts DEF RestOK, FlagsOK, process_packets_spin
<1>31. CASE RoundBegins
  BY <1>31, <1>1, <1>2, Consts DEF RestOK, FlagsOK, RoundBegins
<1>32. CASE RoundLooks
  BY <1>32, <1>1, <1>2, Consts DEF RestOK, FlagsOK, RoundLooks
<1>33. CASE RoundUnmutes
  BY <1>33, <1>1, <1>2, Consts DEF RestOK, FlagsOK, RoundUnmutes
<1>34. CASE RoundRechecks
  <2>1. can' = can \/ can' = (dir = "tx" /\ can)
    BY <1>34 DEF RoundRechecks
  <2>2. can' \in BOOLEAN
    BY <2>1, <1>f, Zenon DEF FlagsOK
  <2>3. UNCHANGED <<kick_enabled, intr_enabled, kick_pending, stopped, kickfd,
                    irq, again, stopreq, stopping, work, oom>>
    BY <1>34 DEF RoundRechecks
  <2>4. FlagsOK'
    BY <2>2, <2>3, <1>f DEF FlagsOK
  <2>5. UNCHANGED <<gpc, todo, min, polled, count>>
    BY <1>34 DEF RoundRechecks
  <2> QED BY <2>4, <2>5, <1>1, <1>2, Consts DEF RestOK
<1>35. CASE RoundRemutes
  <2>1. FlagsOK'
    BY <1>35, <1>f, <1>1, Zenon DEF FlagsOK, PlaceInv, RoundRemutes
  <2> QED BY <1>35, <2>1, <1>1, <1>2, Consts DEF RestOK, RoundRemutes
<1>36. CASE TxTakesFragment
  BY <1>36, <1>1, <1>2, Consts DEF RestOK, FlagsOK, TxTakesFragment
<1>37. CASE TxSends
  BY <1>37, <1>1, <1>2, Consts DEF RestOK, FlagsOK, TxSends
<1>38. CASE TxBlocks
  <2>1. FlagsOK'
    BY <1>38, <1>f, <1>1, Zenon DEF FlagsOK, PlaceInv, TxBlocks
  <2> QED BY <1>38, <2>1, <1>1, <1>2, Consts DEF RestOK, TxBlocks
<1>39. CASE TxOutOfBudget
  BY <1>39, <1>1, <1>2, Consts DEF RestOK, FlagsOK, TxOutOfBudget
<1>40. CASE RxCollects
  BY <1>40, <1>1, <1>2, Consts DEF RestOK, FlagsOK, RxCollects
<1>41. CASE RxOutOfBudget
  BY <1>41, <1>1, <1>2, Consts DEF RestOK, FlagsOK, RxOutOfBudget
<1>42. CASE RxReceives
  <2>1. FlagsOK'
    BY <1>42, <1>f, <1>1, Zenon DEF FlagsOK, PlaceInv, RxReceives
  <2> QED BY <1>42, <2>1, <1>1, <1>2, Consts DEF RestOK, RxReceives
<1>43. CASE RxNothing
  BY <1>43, <1>1, <1>2, Consts DEF RestOK, FlagsOK, RxNothing
<1>44. CASE RoundPublishes
  BY <1>44, <1>1, <1>2, Consts DEF RestOK, FlagsOK, RoundPublishes
<1>45. CASE RoundNotifies
  BY <1>45, <1>1, <1>2, Consts DEF RestOK, FlagsOK, RoundNotifies
<1>46. CASE UNCHANGED vars
  BY <1>46, <1>1 DEF vars, RestOK, FlagsOK
<1> QED BY <1>4, <1>5, <1>6, <1>7, <1>8, <1>9, <1>10, <1>11, <1>12, <1>13,
          <1>14, <1>15, <1>16, <1>17, <1>18, <1>19, <1>20, <1>21, <1>22,
          <1>23, <1>24, <1>25, <1>26, <1>27, <1>28, <1>29, <1>30, <1>31,
          <1>32, <1>33, <1>34, <1>35, <1>36, <1>37, <1>38, <1>39, <1>40,
          <1>41, <1>42, <1>43, <1>44, <1>45, <1>46, <1>47, <1>48 DEF Next

-----------------------------------------------------------------------------
\* The invariant at the start.
LEMMA GInit == ASSUME Init PROVE GInv
<1>1. /\ prod = 0 /\ cons = 0 /\ clear = 0 /\ bprod = 0 /\ bcons = 0
      /\ cons_first = 0 /\ count = 0 /\ intr_at = 0 /\ overrun = FALSE
      /\ desc = [i \in Slots |-> [is |-> "empty", eop |-> FALSE]]
      /\ bpc = "halted" /\ gpc = "idle" /\ dev = "new"
  BY DEF Init, sring_gso_ctx_init
<1>2. Sub(0, 0) = 0
  BY Consts, SubZero
<1>3. PlaceInv
  BY GsoAssumption DEF Init, PlaceInv, Handing
<1>4. FlagsOK
  BY Zenon DEF FlagsOK, Init, sring_gso_ctx_init
<1>5. RestOK
  BY <1>1, <1>4, Consts DEF RestOK, Init
<1>6. Types
  <2>1. [is |-> "empty", eop |-> FALSE] \in
          [is : {"empty", "posted", "bad", "done"}, eop : BOOLEAN]
    OBVIOUS
  <2>2. desc \in [Slots -> [is : {"empty", "posted", "bad", "done"},
                            eop : BOOLEAN]]
    BY <1>1, <2>1
  <2>3. count \in 0 .. Budget
    BY <1>1, Consts
  <2> QED BY <1>1, <2>2, <2>3, Consts DEF Types
<1>7. Posted = 0 /\ Completed = 0 /\ ~Handing /\ Handled = 0
  BY <1>1, <1>2 DEF Posted, Completed, Handing, Handled
<1>8. OrderInv
  BY <1>1, <1>7, Consts DEF OrderInv, InUse
<1>9. \A i \in Slots : Off(i) \in 0 .. N - 1
  <2>1. clear \in Int
    BY <1>1
  <2> QED BY <2>1, Consts, DistType, Zenon DEF Off
<1>10. SlotInv /\ EndInv /\ ShortInv /\ FewInv
  <2>1. \A i \in Slots : desc[i].is = "empty" /\ Off(i) >= 0 /\ ~(Off(i) < 0)
                          /\ Off(i) + 1 # 0
    BY <1>1, <1>9
  <2>2. SlotInv
    BY <1>7, <2>1 DEF SlotInv
  <2>3. EndInv
    BY <1>7, <2>1 DEF EndInv, EndsAt
  <2>4. ShortInv
    BY <1>7, <2>1 DEF ShortInv, Short
  <2>5. FewInv
    BY <1>1 DEF FewInv
  <2> QED BY <2>2, <2>3, <2>4, <2>5
<1>11. CountInv
  BY <1>7, Consts DEF Init, CountInv, Room
<1> QED BY <1>3, <1>5, <1>6, <1>8, <1>10, <1>11 DEF GInv, RingInv

\* The invariant is kept.
LEMMA GStep == ASSUME GInv, ~MayReopen, [Next]_vars PROVE GInv'
<1>1. free \in Nat /\ oom \in BOOLEAN
  <2>1. Posted \in 0 .. N
    BY RingFacts
  <2> QED BY <2>1, Consts DEF GInv, CountInv, Room, RestOK, FlagsOK
<1>2. PlaceInv'
  BY <1>1, PlaceStep DEF GInv
<1>3. RestOK'
  BY RestStep
<1>4. RingInv'
  BY RingStep
<1>5. CountInv'
  BY CountStep
<1> QED BY <1>2, <1>3, <1>4, <1>5 DEF GInv

\* The buffers handed back are whole packets.
LEMMA WholeFromInv == ASSUME GInv, RxFits PROVE WholePackets
<1> SUFFICES ASSUME ~overrun, HandedBack # {}
             PROVE  /\ \A c \in HandedBack : At(c).is \in {"done", "bad"}
                    /\ At(Add(clear, Completed - 1)).eop
                    /\ \E k \in 0 .. Completed - 1 :
                         k < MaxBufs /\ At(Add(clear, k)).eop
  BY DEF WholePackets
<1>1. InUse /\ HandedBack = {Add(clear, k) : k \in 0 .. Completed - 1}
  BY DEF HandedBack, InUse
<1>2. /\ Types /\ SlotInv /\ EndInv /\ ShortInv /\ PlaceInv /\ Posted \in 0 .. N
      /\ Completed \in 0 .. Posted /\ Handled \in Completed .. Posted
      /\ \A i \in Slots : Off(i) \in 0 .. N - 1
  BY <1>1, RingFacts DEF GInv, RingInv
<1>3. Completed >= 1 /\ Completed - 1 \in 0 .. N - 1
  <2>1. 0 .. Completed - 1 # {}
    BY <1>1
  <2> QED BY <2>1, <1>2, Consts
<1>4. \A k \in 0 .. Completed - 1 :
        /\ Add(clear, k) % N \in Slots /\ Off(Add(clear, k) % N) = k
        /\ At(Add(clear, k)) = desc[Add(clear, k) % N]
  <2> SUFFICES ASSUME NEW k \in 0 .. Completed - 1
               PROVE  /\ Add(clear, k) % N \in Slots /\ Off(Add(clear, k) % N) = k
                      /\ At(Add(clear, k)) = desc[Add(clear, k) % N]
    OBVIOUS
  <2>1. k \in 0 .. N - 1 /\ clear \in Counter
    BY <1>2, Consts DEF Types
  <2> QED BY <2>1, SlotAt DEF Off, At
<1>5. \A c \in HandedBack : At(c).is \in {"done", "bad"}
  <2> SUFFICES ASSUME NEW k \in 0 .. Completed - 1
               PROVE  At(Add(clear, k)).is \in {"done", "bad"}
    BY <1>1
  <2>1. k < Handled
    BY <1>2, Consts
  <2> QED BY <2>1, <1>1, <1>2, <1>4 DEF SlotInv
<1>6. At(Add(clear, Completed - 1)).eop
  <2>1. Completed - 1 \in 0 .. Completed - 1 /\ (Completed - 1) + 1 = Completed
    BY <1>2, <1>3
  <2> QED BY <2>1, <1>1, <1>2, <1>4 DEF EndInv, EndsAt
<1>7. \E e \in Slots : desc[e].eop /\ Off(e) < MaxBufs
  <2>1. PICK j \in Slots : Off(j) = 0
    <3>1. 0 \in 0 .. Completed - 1
      BY <1>2, <1>3
    <3> QED BY <3>1, <1>4
  <2>2. 0 < Posted /\ 0 < Handled
    BY <1>2, <1>3, Consts
  <2>3. CASE dir = "tx"
    <3>1. PICK e \in Slots : desc[e].eop /\ Off(e) <= Off(j) + MaxFrags
      BY <2>1, <2>2, <2>3, <1>2 DEF ShortInv, Short
    <3> QED BY <3>1, <2>1, <1>2, Consts
  <2>4. CASE dir = "rx"
    <3>1. PICK e \in Slots : desc[e].eop /\ Off(e) <= Off(j) + (MaxBufs - 1)
      BY <2>1, <2>2, <2>4, <1>1, <1>2 DEF ShortInv, Short
    <3> QED BY <3>1, <2>1, <1>2, Consts
  <2> QED BY <2>3, <2>4, <1>2 DEF PlaceInv
<1>8. \E k \in 0 .. Completed - 1 : k < MaxBufs /\ At(Add(clear, k)).eop
  <2>1. PICK e \in Slots : desc[e].eop /\ Off(e) < MaxBufs
    BY <1>7
  <2>2. CASE Off(e) < Completed
    <3>1. Off(e) \in 0 .. Completed - 1 /\ clear \in Counter /\ Off(e) \in 0 .. N - 1
      BY <2>2, <1>2 DEF Types
    <3>2. e = Add(clear, Off(e)) % N
      BY <3>1, SlotAt DEF Off
    <3> QED BY <2>1, <3>1, <3>2, <1>4
  <2>3. CASE ~(Off(e) < Completed)
    <3>1. Completed - 1 \in 0 .. Completed - 1 /\ Completed - 1 < MaxBufs
      BY <2>1, <2>3, <1>2, <1>3, Consts
    <3> QED BY <3>1, <1>6
  <2> QED BY <2>2, <2>3
<1> QED BY <1>5, <1>6, <1>8

\* The invariant holds.
LEMMA GInvHolds == ASSUME ~MayReopen PROVE Spec => []GInv
<1>1. Init => GInv
  BY GInit
<1>2. GInv /\ [Next]_vars => GInv'
  BY GStep
<1> QED BY <1>1, <1>2, PTL DEF Spec

\* Every counter, flag and descriptor keeps its type, and the counters of a poll
\* and of a round stay in range, whatever the guest and the backend do.
THEOREM GsoTypes == ~MayReopen => (Spec => []TypeOK)
<1> SUFFICES ASSUME ~MayReopen PROVE Spec => []TypeOK
  OBVIOUS
<1>1. ASSUME GInv PROVE TypeOK
  <2>1. PlaceInv /\ FlagsOK /\ RestOK /\ Types
    BY <1>1 DEF GInv, RestOK, RingInv
  <2>2. {kick_enabled, intr_enabled, kick_pending, stopped, kickfd, irq, can,
         again, stopreq, stopping, work, overrun, oom} \subseteq BOOLEAN
    BY <2>1, Zenon DEF FlagsOK, Types
  <2>3. {prod, cons, clear, intr_at, bprod, bcons, cons_first} \subseteq Counter
    BY <2>1 DEF Types
  <2>5. free \in 0 .. N
    BY <1>1, RingFacts, Consts DEF GInv, CountInv, Room
  <2>4. bpc \in {"halted", "start", "top", "begin", "look", "unmute", "recheck",
                 "remute", "use", "recv", "publish", "notify"}
    BY <2>1 DEF PlaceInv, Handing
  <2> QED BY <2>1, <2>2, <2>3, <2>4, <2>5, Zenon DEF TypeOK, PlaceInv, RestOK,
  Types
<1> QED BY <1>1, GInvHolds, PTL

\* What txc and rxc find between clear and cons is whole packets, each within a
\* context, all of whose buffers were sent or filled (or were invalid), as long
\* as no receive round ran out of budget.
THEOREM WholePacketsHolds == ~MayReopen /\ RxFits => (Spec => []WholePackets)
<1> SUFFICES ASSUME ~MayReopen, RxFits PROVE Spec => []WholePackets
  OBVIOUS
<1>1. GInv => WholePackets
  BY WholeFromInv
<1> QED BY <1>1, GInvHolds, PTL

\* After bpfhv_close, txr or rxr has given back every buffer, on a transmit queue
\* cons went along through clear_met_cons, and the driver has counted all of them
\* back, unless this is a receive queue on which rx_pkt_alloc may fail.
THEOREM AllReclaimedHolds == ~MayReopen => (Spec => []AllReclaimed)
<1> SUFFICES ASSUME ~MayReopen PROVE Spec => []AllReclaimed
  OBVIOUS
<1>1. ASSUME GInv, dev = "down"
      PROVE  /\ clear = prod /\ (dir = "tx" => cons = prod)
             /\ dir = "tx" \/ ~AllocFails => free = N
  <2>1. clear = prod /\ (dir = "tx" => cons = prod) /\ clear \in Counter
    BY <1>1 DEF GInv, RingInv, OrderInv, InUse, Types
  <2>2. Room = N
    BY <2>1, SubZero, Consts DEF Room, Posted
  <2> QED BY <1>1, <2>1, <2>2 DEF GInv, CountInv
<1>2. GInv => AllReclaimed
  BY <1>1 DEF AllReclaimed
<1> QED BY <1>2, GInvHolds, PTL

-----------------------------------------------------------------------------
\* The interrupt of a receive queue under every step.
LEMMA ArmStep == ASSUME GInv, ArmInv, ~MayReopen, [Next]_vars PROVE ArmInv'
<1>1. PlaceInv /\ ArmInv /\ FlagsOK
  BY DEF GInv, RestOK
<1>2. /\ Completed \in 0 .. W - 1
      /\ Completed >= 1 <=> clear # cons
      /\ dev \in {"new", "opening"} => clear = cons
  <2>1. Types /\ OrderInv /\ Completed \in 0 .. W - 1
    BY RingFacts DEF GInv, RingInv
  <2>2. Completed = 0 <=> cons = clear
    BY <2>1, SubZero DEF Types, Completed
  <2> QED BY <2>1, <2>2 DEF OrderInv
<1>3. free \in Nat
  <2>1. Posted \in 0 .. N
    BY RingFacts
  <2> QED BY <2>1, Consts DEF GInv, CountInv, Room
<1>4. CASE bpfhv_open
  BY <1>4, <1>1, <1>2 DEF ArmInv, PlaceInv, bpfhv_open
<1>5. CASE OpenEnable
  BY <1>5, <1>1, <1>2 DEF ArmInv, PlaceInv, OpenEnable, Return
<1>6. CASE bpfhv_start_xmit
  BY <1>6, <1>1, <1>2 DEF ArmInv, PlaceInv, bpfhv_start_xmit
<1>7. CASE bpfhv_intr
  BY <1>7, <1>1, <1>2 DEF ArmInv, PlaceInv, bpfhv_intr, Scheduled
<1>8. CASE bpfhv_poll
  BY <1>8, <1>1, <1>2 DEF ArmInv, PlaceInv, bpfhv_poll
<1>9. CASE sring_gso_txc
  BY <1>9, <1>1, <1>2 DEF ArmInv, PlaceInv, sring_gso_txc
<1>10. CASE sring_gso_rxc
  BY <1>10, <1>1, <1>2 DEF ArmInv, PlaceInv, sring_gso_rxc
<1>47. CASE RxAllocFails
  BY <1>47, <1>1, <1>2 DEF ArmInv, PlaceInv, RxAllocFails
<1>11. CASE CleanDone
  BY <1>11, <1>1, <1>2 DEF ArmInv, PlaceInv, CleanDone, Return, napi_complete
<1>12. CASE XmitGivesUp
  BY <1>12, <1>1, <1>2 DEF ArmInv, PlaceInv, XmitGivesUp, Return
<1>13. CASE XmitLost
  BY <1>13, <1>1, <1>2 DEF ArmInv, PlaceInv, XmitLost
<1>14. CASE sring_gso_txp
  BY <1>14, <1>1, <1>2 DEF ArmInv, PlaceInv, sring_gso_txp
<1>15. CASE sring_gso_rxp
  BY <1>15, <1>1, <1>2 DEF ArmInv, PlaceInv, sring_gso_rxp
<1>16. CASE LooksAtKick
  <2>1. dir = "rx" => gpc' \in {"refill", "enable", "clean"}
    <3>1. (free > 0 /\ ~oom) \/ free = 0 \/ oom
      BY <1>3
    <3> QED BY <1>16, <3>1 DEF LooksAtKick
  <2> QED BY <1>16, <2>1, <1>1 DEF ArmInv, LooksAtKick
<1>17. CASE RxPollComplete
  BY <1>17, <1>1, <1>2 DEF ArmInv, PlaceInv, RxPollComplete
<1>18. CASE sring_gso_xi
  <2>1. dir = "rx" => \/ gpc' = "check" /\ clear # cons
                      \/ gpc' = "store"
    BY <1>18, <1>1, <1>2 DEF sring_gso_xi, ArmInv
  <2>2. dev \notin {"new", "opening"}
    BY <1>18, <1>1 DEF sring_gso_xi, PlaceInv
  <2> QED BY <1>18, <2>1, <2>2, <1>1 DEF ArmInv, sring_gso_xi
<1>19. CASE XiArms
  BY <1>19, <1>1, <1>2 DEF ArmInv, PlaceInv, XiArms
<1>20. CASE XiCheck
  BY <1>20, <1>1, <1>2 DEF ArmInv, PlaceInv, XiCheck, Return, napi_complete
<1>21. CASE XmitStops
  BY <1>21, <1>1, <1>2 DEF ArmInv, PlaceInv, XmitStops, Return
<1>22. CASE bpfhv_close
  BY <1>22, <1>1, <1>2 DEF ArmInv, PlaceInv, bpfhv_close
<1>23. CASE CloseNapiDisable
  BY <1>23, <1>1, <1>2 DEF ArmInv, PlaceInv, CloseNapiDisable
<1>24. CASE sring_gso_txr
  BY <1>24, <1>1, <1>2 DEF ArmInv, PlaceInv, sring_gso_txr
<1>25. CASE sring_gso_rxr
  BY <1>25, <1>1, <1>2 DEF ArmInv, PlaceInv, sring_gso_rxr
<1>26. CASE CloseDone
  BY <1>26, <1>1, <1>2 DEF ArmInv, PlaceInv, CloseDone, Return
<1>27. CASE PacketArrives
  BY <1>27, <1>1, <1>2 DEF ArmInv, PlaceInv, PacketArrives
<1>48. CASE WorkerStarts
  BY <1>48, <1>1, <1>2 DEF ArmInv, PlaceInv, WorkerStarts
<1>28. CASE process_packets_poll
  BY <1>28, <1>1, <1>2 DEF ArmInv, PlaceInv, process_packets_poll, WakeUp
<1>29. CASE PollOther
  BY <1>29, <1>1, <1>2 DEF ArmInv, PlaceInv, PollOther, WakeUp
<1>30. CASE process_packets_spin
  BY <1>30, <1>1, <1>2 DEF ArmInv, PlaceInv, process_packets_spin
<1>31. CASE RoundBegins
  BY <1>31, <1>1, <1>2 DEF ArmInv, PlaceInv, RoundBegins
<1>32. CASE RoundLooks
  BY <1>32, <1>1, <1>2 DEF ArmInv, PlaceInv, RoundLooks
<1>33. CASE RoundUnmutes
  BY <1>33, <1>1, <1>2 DEF ArmInv, PlaceInv, RoundUnmutes
<1>34. CASE RoundRechecks
  BY <1>34, <1>1, <1>2 DEF ArmInv, PlaceInv, RoundRechecks
<1>35. CASE RoundRemutes
  BY <1>35, <1>1, <1>2 DEF ArmInv, PlaceInv, RoundRemutes
<1>36. CASE TxTakesFragment
  BY <1>36, <1>1, <1>2 DEF ArmInv, PlaceInv, TxTakesFragment
<1>37. CASE TxSends
  BY <1>37, <1>1, <1>2 DEF ArmInv, PlaceInv, TxSends
<1>38. CASE TxBlocks
  BY <1>38, <1>1, <1>2 DEF ArmInv, PlaceInv, TxBlocks
<1>39. CASE TxOutOfBudget
  BY <1>39, <1>1, <1>2 DEF ArmInv, PlaceInv, TxOutOfBudget
<1>40. CASE RxCollects
  BY <1>40, <1>1, <1>2 DEF ArmInv, PlaceInv, RxCollects
<1>41. CASE RxOutOfBudget
  BY <1>41, <1>1, <1>2 DEF ArmInv, PlaceInv, RxOutOfBudget
<1>42. CASE RxReceives
  BY <1>42, <1>1, <1>2 DEF ArmInv, PlaceInv, RxReceives
<1>43. CASE RxNothing
  BY <1>43, <1>1, <1>2 DEF ArmInv, PlaceInv, RxNothing
<1>44. CASE RoundPublishes
  <2>1. clear # cons => clear' # cons'
    <3> SUFFICES ASSUME clear # cons PROVE clear # cons'
      BY <1>44 DEF RoundPublishes
    <3>1. Handing /\ Types /\ Reached >= Completed /\ Completed >= 1
      <4>1. Handing
        BY <1>44 DEF RoundPublishes, Handing
      <4> QED BY <4>1, <1>2, RingFacts, Consts
    <3>2. Reached # 0
      BY <3>1, <1>2, RingFacts
    <3>3. clear # bcons
      BY <3>1, <3>2, SubZero DEF Reached, Types
    <3> QED BY <1>44, <3>3 DEF RoundPublishes
  <2>2. count > 0 \/ cons' = cons
    BY <1>44 DEF RoundPublishes
  <2> QED BY <1>44, <1>1, <2>1, <2>2 DEF RoundPublishes, ArmInv
<1>45. CASE RoundNotifies
  BY <1>45, <1>1, <1>2 DEF ArmInv, PlaceInv, RoundNotifies
<1>46. CASE UNCHANGED vars
  BY <1>46, <1>1, <1>2 DEF ArmInv, vars
<1> QED BY <1>4, <1>5, <1>6, <1>7, <1>8, <1>9, <1>10, <1>11, <1>12, <1>13,
          <1>14, <1>15, <1>16, <1>17, <1>18, <1>19, <1>20, <1>21, <1>22,
          <1>23, <1>24, <1>25, <1>26, <1>27, <1>28, <1>29, <1>30, <1>31,
          <1>32, <1>33, <1>34, <1>35, <1>36, <1>37, <1>38, <1>39, <1>40,
          <1>41, <1>42, <1>43, <1>44, <1>45, <1>46, <1>47, <1>48 DEF Next

\* A driver at rest has collected what it received.
LEMMA PacketFromInv == ASSUME ArmInv, PlaceInv PROVE NoLostPacket
BY DEF ArmInv, NoLostPacket, PlaceInv

-----------------------------------------------------------------------------
\* Too few buffers for a packet remain too few when the guest collects.
LEMMA FewKept ==
  ASSUME GInv, NEW n \in 0 .. Completed, InUse,
         clear' = Add(clear, n), desc' = Emptied(clear, n), prod' = prod,
         NEW from \in Counter, Completed <= Sub(from, clear), Few(from, prod)
  PROVE  \/ Sub(prod, from) < Need
         \/ \E i \in Slots : /\ desc'[i].is = "bad"
                             /\ Sub(from, clear') <= Off(i)'
                             /\ Off(i)' < Sub(prod, clear')
<1>f. /\ Posted \in 0 .. N /\ n \in 0 .. Posted /\ Completed \in n .. Posted
      /\ \A i \in Slots : Off(i) \in 0 .. N - 1
  BY RingFacts
<1>m. /\ Posted' = Posted - n
      /\ \A i \in Slots :
           /\ Off(i)' = IF n <= Off(i) THEN Off(i) - n ELSE Off(i) - n + N
           /\ desc'[i] = IF Off(i) < n THEN [is |-> "empty", eop |-> FALSE]
                         ELSE desc[i]
      /\ \A c \in Counter : n <= Sub(c, clear) =>
           Sub(c, clear') = Sub(c, clear) - n
  BY <1>f, CollectMove
<1>t. Sub(from, clear) \in 0 .. W - 1
  BY RingFacts, SubType DEF Types
<1>1. CASE Sub(prod, from) < Need
  BY <1>1
<1>2. CASE ~(Sub(prod, from) < Need)
  <2>1. PICK i \in Slots : /\ desc[i].is = "bad" /\ Sub(from, clear) <= Off(i)
                           /\ Off(i) < Posted
    BY <1>2 DEF Few, Posted
  <2>2. Sub(from, clear') = Sub(from, clear) - n
    BY <1>f, <1>m, <1>t
  <2>3. Off(i)' = Off(i) - n /\ desc'[i] = desc[i]
    BY <2>1, <1>f, <1>m, <1>t
  <2>4. Sub(prod, clear') = Posted - n
    BY <1>m DEF Posted
  <2>5. Sub(from, clear') <= Off(i)' /\ Off(i)' < Sub(prod, clear')
    BY <2>1, <2>2, <2>3, <2>4, <1>f, <1>t
  <2> QED BY <2>1, <2>3, <2>5
<1> QED BY <1>1, <1>2

\* The kicks of a receive queue under every step.
LEMMA StarveStep ==
  ASSUME GInv, StarveInv, ~MayReopen, [Next]_vars PROVE StarveInv'
<1>1. PlaceInv /\ StarveInv
  BY DEF GInv
<1>2. free \in Nat /\ RefillAt \in Nat \ {0}
  <2>1. Posted \in 0 .. N
    BY RingFacts
  <2> QED BY <2>1, Consts DEF GInv, CountInv, Room
\* Too few buffers remain too few when the guest collects a packet.
<1>k. ASSUME gpc = "clean", clear # cons, clear' = Add(clear, ToEop(Completed)),
             desc' = Emptied(clear, ToEop(Completed)), Few(Base, prod),
             UNCHANGED <<prod, cons, bpc, cons_first>>
      PROVE  Few(Base, prod)'
  <2> DEFINE n == ToEop(Completed)
  <2>3. Types /\ InUse /\ Posted \in 0 .. N /\ Completed \in 0 .. Posted
        /\ Handled \in Completed .. Posted
    <3>1. InUse
      BY <1>k, <1>1 DEF InUse, PlaceInv
    <3> QED BY <3>1, RingFacts
  <2>4. n \in 0 .. Completed
    <3> DEFINE most == IF Completed > MaxBufs THEN MaxBufs ELSE Completed
    <3>1. Completed # 0
      BY <1>k, <2>3, SubZero DEF Completed, Types
    <3>2. Completed \in 1 .. N /\ clear \in Counter
      BY <2>3, <3>1, Consts DEF Types
    <3>3. n \in 1 .. most
      BY <3>2, ToEopFacts, Zenon
    <3> HIDE DEF n
    <3> QED BY <3>2, <3>3, Consts
  <2>2. clear' = Add(clear, n) /\ desc' = Emptied(clear, n)
    BY <1>k
  <2> HIDE DEF n
  <2>5. Base \in Counter /\ Completed <= Sub(Base, clear) /\ Base' = Base
    <3>1. CASE bpc = "publish"
      <4>1. Handled = Sub(Base, clear) /\ Base = cons_first
        BY <3>1 DEF Base, Handled, Handing, First
      <4> QED BY <4>1, <1>k, <2>3, <3>1 DEF Base, Types
    <3>2. CASE bpc # "publish"
      BY <3>2, <1>k, <2>3 DEF Base, Types, Completed
    <3> QED BY <3>1, <3>2
  <2>6. \/ Sub(prod, Base) < Need
        \/ \E i \in Slots : /\ desc'[i].is = "bad"
                            /\ Sub(Base, clear') <= Off(i)'
                            /\ Off(i)' < Sub(prod, clear')
    BY <2>2, <2>3, <2>4, <2>5, <1>k, FewKept
  <2> QED BY <1>k, <2>5, <2>6 DEF Few
<1>3. CASE bpfhv_open
  BY <1>3, <1>1, <1>2 DEF StarveInv, Handing, PlaceInv, Few, Base, Off,
     bpfhv_open
<1>4. CASE OpenEnable
  <2>1. dir = "rx" /\ ~oom => free' < RefillAt
    BY <1>4, <1>1, <1>2 DEF OpenEnable, StarveInv
  <2> QED BY <1>4, <2>1, <1>1 DEF OpenEnable, Return, StarveInv, PlaceInv,
  Handing
<1>5. CASE bpfhv_start_xmit
  BY <1>5, <1>1, <1>2 DEF StarveInv, Handing, PlaceInv, Few, Base, Off,
     bpfhv_start_xmit
<1>6. CASE bpfhv_intr
  BY <1>6, <1>1, <1>2 DEF StarveInv, Handing, PlaceInv, Few, Base, Off,
     bpfhv_intr, Scheduled
<1>7. CASE bpfhv_poll
  BY <1>7, <1>1, <1>2 DEF StarveInv, Handing, PlaceInv, Few, Base, Off,
     bpfhv_poll
<1>8. CASE sring_gso_txc
  BY <1>8, <1>1, <1>2 DEF StarveInv, Handing, PlaceInv, Few, Base, Off,
     sring_gso_txc
<1>9. CASE sring_gso_rxc
  <2>1. /\ gpc = "clean" /\ dir = "rx" /\ clear # cons
        /\ clear' = Add(clear, ToEop(Completed))
        /\ desc' = Emptied(clear, ToEop(Completed))
        /\ gpc' = IF free' >= RefillAt THEN "refill" ELSE "clean"
        /\ free' = free + ToEop(Completed)
        /\ UNCHANGED <<dir, busy_wait, prod, cons, kick_enabled, dev, kickfd, bpc,
                       bcons, cons_first, can, oom>>
    BY <1>9 DEF sring_gso_rxc
  <2>2. Few(Base, prod) => Few(Base, prod)'
    BY <2>1, <1>k
  <2>3. gpc' = "clean" => free' < RefillAt
    <3>1. ToEop(Completed) \in Nat
      <4>1. Types /\ Completed # 0 /\ Completed \in 0 .. N
        <5>1. InUse
          BY <2>1, <1>1 DEF InUse, PlaceInv
        <5> QED BY <5>1, <2>1, RingFacts, SubZero, Consts DEF Completed, Types
      <4>2. Completed \in 1 .. N /\ clear \in Counter
        BY <4>1, Consts DEF Types
      <4> DEFINE most == IF Completed > MaxBufs THEN MaxBufs ELSE Completed
      <4>3. ToEop(Completed) \in 1 .. most
        BY <4>2, ToEopFacts, Zenon
      <4> QED BY <4>2, <4>3, Consts
    <3>2. free' \in Int
      BY <2>1, <3>1, <1>2
    <3> QED BY <2>1, <3>2, <1>2
  <2> QED BY <2>1, <2>2, <2>3, <1>1 DEF StarveInv, Handing
<1>46. CASE RxAllocFails
  <2>1. /\ gpc = "clean" /\ dir = "rx" /\ clear # cons
        /\ clear' = Add(clear, ToEop(Completed))
        /\ desc' = Emptied(clear, ToEop(Completed))
        /\ gpc' \in {"complete", "reclaim"} /\ free' = free
        /\ UNCHANGED <<dir, busy_wait, prod, cons, kick_enabled, dev, kickfd, bpc,
                       bcons, cons_first, can, oom>>
    BY <1>46 DEF RxAllocFails
  <2>2. Few(Base, prod) => Few(Base, prod)'
    BY <2>1, <1>k
  <2> QED BY <2>1, <2>2, <1>1 DEF StarveInv, Handing
<1>10. CASE CleanDone
  BY <1>10, <1>1, <1>2 DEF StarveInv, Handing, PlaceInv, Few, Base, Off,
     CleanDone, Return, napi_complete
<1>11. CASE XmitGivesUp
  BY <1>11, <1>1, <1>2 DEF StarveInv, Handing, PlaceInv, Few, Base, Off,
     XmitGivesUp, Return
<1>12. CASE XmitLost
  BY <1>12, <1>1, <1>2 DEF StarveInv, Handing, PlaceInv, Few, Base, Off,
     XmitLost
<1>13. CASE sring_gso_txp
  BY <1>13, <1>1, <1>2 DEF StarveInv, Handing, PlaceInv, Few, Base, Off,
     sring_gso_txp
<1>14. CASE sring_gso_rxp
  BY <1>14, <1>1, <1>2 DEF StarveInv, Handing, PlaceInv, Few, Base, Off,
     sring_gso_rxp
<1>15. CASE LooksAtKick
  <2>1. dir = "rx" => \/ gpc' = "refill"
                      \/ gpc' \in {"enable", "clean"} /\ (free = 0 \/ oom)
    BY <1>15, <1>2 DEF LooksAtKick
  <2>2. /\ free' = free /\ oom' = oom /\ (Handing' <=> Handing)
        /\ Few(Base, prod)' <=> Few(Base, prod)
    BY <1>15 DEF LooksAtKick, Few, Base, Off, Handing
  <2>3. dir = "rx" /\ kick_enabled => kickfd'
    BY <1>15 DEF LooksAtKick
  <2>4. /\ UNCHANGED <<dir, busy_wait, dev, bpc, can, kick_enabled, bcons, cons_first>>
        /\ kickfd => kickfd'
    BY <1>15 DEF LooksAtKick
  <2> QED BY <2>1, <2>2, <2>3, <2>4, <1>1, <1>2 DEF StarveInv
<1>16. CASE RxPollComplete
  BY <1>16, <1>1, <1>2 DEF StarveInv, Handing, PlaceInv, Few, Base, Off,
     RxPollComplete
<1>17. CASE sring_gso_xi
  BY <1>17, <1>1, <1>2 DEF StarveInv, Handing, PlaceInv, Few, Base, Off,
     sring_gso_xi
<1>18. CASE XiArms
  BY <1>18, <1>1, <1>2 DEF StarveInv, Handing, PlaceInv, Few, Base, Off,
     XiArms
<1>19. CASE XiCheck
  BY <1>19, <1>1, <1>2 DEF StarveInv, Handing, PlaceInv, Few, Base, Off,
     XiCheck, Return, napi_complete
<1>20. CASE XmitStops
  BY <1>20, <1>1, <1>2 DEF StarveInv, Handing, PlaceInv, Few, Base, Off,
     XmitStops, Return
<1>21. CASE bpfhv_close
  BY <1>21, <1>1, <1>2 DEF StarveInv, Handing, PlaceInv, Few, Base, Off,
     bpfhv_close
<1>22. CASE CloseNapiDisable
  BY <1>22, <1>1, <1>2 DEF StarveInv, Handing, PlaceInv, Few, Base, Off,
     CloseNapiDisable
<1>23. CASE sring_gso_txr
  BY <1>23, <1>1, <1>2 DEF StarveInv, Handing, PlaceInv, Few, Base, Off,
     sring_gso_txr
<1>24. CASE sring_gso_rxr
  BY <1>24, <1>1, <1>2 DEF StarveInv, Handing, PlaceInv, Few, Base, Off,
     sring_gso_rxr
<1>25. CASE CloseDone
  BY <1>25, <1>1, <1>2 DEF StarveInv, Handing, PlaceInv, Few, Base, Off,
     CloseDone, Return
<1>26. CASE PacketArrives
  BY <1>26, <1>1, <1>2 DEF StarveInv, Handing, PlaceInv, Few, Base, Off,
     PacketArrives
<1>27. CASE process_packets_poll
  BY <1>27, <1>1, <1>2 DEF StarveInv, Handing, PlaceInv, Few, Base, Off,
     process_packets_poll, WakeUp
<1>28. CASE PollOther
  BY <1>28, <1>1, <1>2 DEF StarveInv, Handing, PlaceInv, Few, Base, Off,
     PollOther, WakeUp
<1>29. CASE process_packets_spin
  BY <1>29, <1>1, <1>2 DEF StarveInv, Handing, PlaceInv, Few, Base, Off,
     process_packets_spin
<1>30. CASE RoundBegins
  BY <1>30, <1>1, <1>2 DEF StarveInv, Handing, PlaceInv, Few, Base, Off,
     RoundBegins
<1>31. CASE RoundLooks
  BY <1>31, <1>1, <1>2 DEF StarveInv, Handing, PlaceInv, Few, Base, Off,
     RoundLooks
<1>32. CASE RoundUnmutes
  BY <1>32, <1>1, <1>2 DEF StarveInv, Handing, PlaceInv, Few, Base, Off,
     RoundUnmutes
<1>33. CASE RoundRechecks
  <2>1. dir = "rx" /\ bcons = prod => Few(cons_first, prod)
    <3>1. FewInv
      BY DEF GInv, RingInv
    <3> QED BY <1>33, <3>1 DEF FewInv, RoundRechecks
  <2>2. /\ free' = free /\ oom' = oom
        /\ Few(cons_first, prod) <=> Few(cons_first, prod)'
    BY <1>33 DEF RoundRechecks, Few, Off
  <2>3. CASE bcons = prod
    <3>1. /\ bpc = "recheck" /\ bpc' = "publish" /\ bcons' = cons_first
          /\ UNCHANGED <<dir, busy_wait, kick_enabled, gpc, dev, cons_first, kickfd>>
      BY <1>33, <2>3 DEF RoundRechecks
    <3>2. Base' = cons_first'
      BY <3>1 DEF Base
    <3> QED BY <3>1, <3>2, <2>1, <2>2, <2>3, <1>1 DEF StarveInv, Handing
  <2>4. CASE bcons # prod
    BY <1>33, <2>2, <2>4, <1>1 DEF RoundRechecks, StarveInv, Handing
  <2> QED BY <2>3, <2>4
<1>34. CASE RoundRemutes
  BY <1>34, <1>1, <1>2 DEF StarveInv, Handing, PlaceInv, Few, Base, Off,
     RoundRemutes
<1>35. CASE TxTakesFragment
  BY <1>35, <1>1, <1>2 DEF StarveInv, Handing, PlaceInv, Few, Base, Off,
     TxTakesFragment
<1>36. CASE TxSends
  BY <1>36, <1>1, <1>2 DEF StarveInv, Handing, PlaceInv, Few, Base, Off,
     TxSends
<1>37. CASE TxBlocks
  BY <1>37, <1>1, <1>2 DEF StarveInv, Handing, PlaceInv, Few, Base, Off,
     TxBlocks
<1>38. CASE TxOutOfBudget
  BY <1>38, <1>1, <1>2 DEF StarveInv, Handing, PlaceInv, Few, Base, Off,
     TxOutOfBudget
<1>39. CASE RxCollects
  BY <1>39, <1>1, <1>2 DEF StarveInv, Handing, PlaceInv, Few, Base, Off,
     RxCollects
<1>40. CASE RxOutOfBudget
  BY <1>40, <1>1, <1>2 DEF StarveInv, Handing, PlaceInv, Few, Base, Off,
     RxOutOfBudget
<1>41. CASE RxReceives
  BY <1>41, <1>1, <1>2 DEF StarveInv, Handing, PlaceInv, Few, Base, Off,
     RxReceives
<1>42. CASE RxNothing
  BY <1>42, <1>1, <1>2 DEF StarveInv, Handing, PlaceInv, Few, Base, Off,
     RxNothing
<1>43. CASE RoundPublishes
  <2>1. free' = free /\ oom' = oom /\ bpc = "publish" /\ bpc' = "notify"
    BY <1>43 DEF RoundPublishes
  <2>2. ~can /\ dir = "rx" /\ ~busy_wait => Base' = Base
    <3>1. count \in Nat /\ (count = 0 => cons_first = cons)
      BY <2>1 DEF GInv, RingInv, Types, OrderInv, Handing
    <3> QED BY <1>43, <3>1, <2>1, <1>1 DEF RoundPublishes, StarveInv, Base
  <2>3. Base' = Base => (Few(Base, prod)' <=> Few(Base, prod))
    BY <1>43 DEF RoundPublishes, Few, Off
  <2> QED BY <1>43, <2>1, <2>2, <2>3, <1>1 DEF RoundPublishes, StarveInv,
  Handing
<1>47. CASE WorkerStarts
  BY <1>47, <1>1, <1>2 DEF StarveInv, Handing, PlaceInv, Few, Base, Off,
     WorkerStarts
<1>44. CASE RoundNotifies
  BY <1>44, <1>1, <1>2 DEF StarveInv, Handing, PlaceInv, Few, Base, Off,
     RoundNotifies
<1>45. CASE UNCHANGED vars
  BY <1>45, <1>1, <1>2 DEF StarveInv, Handing, PlaceInv, Few, Base, Off,
     vars
<1> QED BY <1>3, <1>4, <1>5, <1>6, <1>7, <1>8, <1>9, <1>10, <1>11, <1>12,
          <1>13, <1>14, <1>15, <1>16, <1>17, <1>18, <1>19, <1>20, <1>21,
          <1>22, <1>23, <1>24, <1>25, <1>26, <1>27, <1>28, <1>29, <1>30,
          <1>31, <1>32, <1>33, <1>34, <1>35, <1>36, <1>37, <1>38, <1>39,
          <1>40, <1>41, <1>42, <1>43, <1>44, <1>45, <1>46, <1>47 DEF Next

\* A receive queue does not starve.
LEMMA StarvationFromInv ==
  ASSUME GInv, ArmInv, StarveInv, Roomy PROVE NoStarvation
<1> SUFFICES ASSUME dir = "rx", dev = "up", gpc = "idle", napi = "idle", ~irq,
                    bpc = "top", ~busy_wait, ~kickfd,
                    \A i \in Slots : desc[i].is # "bad", ~can, ~oom,
                    free = N - Sub(prod, clear)
             PROVE  FALSE
  BY DEF NoStarvation
<1>1. clear = cons /\ free < RefillAt /\ Few(cons, prod)
  BY DEF ArmInv, StarveInv, Base
<1>2. Posted < Need
  BY <1>1 DEF Few, Posted
<1>3. Posted \in 0 .. N
  BY RingFacts
<1>4. free = N - Posted
  BY DEF Posted
<1> QED BY <1>1, <1>2, <1>3, <1>4, Consts DEF Roomy

-----------------------------------------------------------------------------
\* The kicks of a transmit queue under every step.
LEMMA KickStep ==
  ASSUME GInv, KickInv, ~MayReopen, "error" \notin SendFails, [Next]_vars
  PROVE  KickInv'
<1>1. PlaceInv /\ KickInv /\ OrderInv /\ count \in 0 .. Budget /\ Budget \in Nat \ {0}
  BY Consts DEF GInv, RingInv, Types
<1>2. CASE bpfhv_open
  BY <1>2, <1>1 DEF KickInv, Base, PlaceInv, bpfhv_open
<1>3. CASE OpenEnable
  <2>1. dir = "tx" => cons = prod
    BY <1>3, <1>1 DEF OpenEnable, PlaceInv, OrderInv
  <2> QED BY <1>3, <2>1, <1>1 DEF OpenEnable, KickInv, Base, PlaceInv
<1>4. CASE bpfhv_start_xmit
  BY <1>4, <1>1 DEF KickInv, Base, PlaceInv, bpfhv_start_xmit
<1>5. CASE bpfhv_intr
  BY <1>5, <1>1 DEF KickInv, Base, PlaceInv, bpfhv_intr, Scheduled
<1>6. CASE bpfhv_poll
  BY <1>6, <1>1 DEF KickInv, Base, PlaceInv, bpfhv_poll
<1>7. CASE sring_gso_txc
  BY <1>7, <1>1 DEF KickInv, Base, PlaceInv, sring_gso_txc
<1>8. CASE sring_gso_rxc
  BY <1>8, <1>1 DEF KickInv, Base, PlaceInv, sring_gso_rxc
<1>45. CASE RxAllocFails
  BY <1>45, <1>1 DEF KickInv, Base, PlaceInv, RxAllocFails
<1>9. CASE CleanDone
  BY <1>9, <1>1 DEF KickInv, Base, PlaceInv, CleanDone, Return, napi_complete
<1>10. CASE XmitGivesUp
  BY <1>10, <1>1 DEF KickInv, Base, PlaceInv, XmitGivesUp, Return
<1>11. CASE XmitLost
  BY <1>11, <1>1 DEF KickInv, Base, PlaceInv, XmitLost
<1>12. CASE sring_gso_txp
  BY <1>12, <1>1 DEF KickInv, Base, PlaceInv, sring_gso_txp
<1>13. CASE sring_gso_rxp
  BY <1>13, <1>1 DEF KickInv, Base, PlaceInv, sring_gso_rxp
<1>14. CASE LooksAtKick
  BY <1>14, <1>1 DEF KickInv, Base, PlaceInv, LooksAtKick
<1>15. CASE RxPollComplete
  BY <1>15, <1>1 DEF KickInv, Base, PlaceInv, RxPollComplete
<1>16. CASE sring_gso_xi
  BY <1>16, <1>1 DEF KickInv, Base, PlaceInv, sring_gso_xi
<1>17. CASE XiArms
  BY <1>17, <1>1 DEF KickInv, Base, PlaceInv, XiArms
<1>18. CASE XiCheck
  BY <1>18, <1>1 DEF KickInv, Base, PlaceInv, XiCheck, Return, napi_complete
<1>19. CASE XmitStops
  BY <1>19, <1>1 DEF KickInv, Base, PlaceInv, XmitStops, Return
<1>20. CASE bpfhv_close
  BY <1>20, <1>1 DEF KickInv, Base, PlaceInv, bpfhv_close
<1>21. CASE CloseNapiDisable
  BY <1>21, <1>1 DEF KickInv, Base, PlaceInv, CloseNapiDisable
<1>22. CASE sring_gso_txr
  BY <1>22, <1>1 DEF KickInv, Base, PlaceInv, sring_gso_txr
<1>23. CASE sring_gso_rxr
  BY <1>23, <1>1 DEF KickInv, Base, PlaceInv, sring_gso_rxr
<1>24. CASE CloseDone
  BY <1>24, <1>1 DEF KickInv, Base, PlaceInv, CloseDone, Return
<1>25. CASE PacketArrives
  BY <1>25, <1>1 DEF KickInv, Base, PlaceInv, PacketArrives
<1>46. CASE WorkerStarts
  BY <1>46, <1>1 DEF KickInv, Base, PlaceInv, WorkerStarts
<1>26. CASE process_packets_poll
  BY <1>26, <1>1 DEF KickInv, Base, PlaceInv, process_packets_poll, WakeUp
<1>27. CASE PollOther
  BY <1>27, <1>1 DEF KickInv, Base, PlaceInv, PollOther, WakeUp
<1>28. CASE process_packets_spin
  BY <1>28, <1>1 DEF KickInv, Base, PlaceInv, process_packets_spin
<1>29. CASE RoundBegins
  BY <1>29, <1>1 DEF KickInv, Base, PlaceInv, RoundBegins
<1>30. CASE RoundLooks
  BY <1>30, <1>1 DEF KickInv, Base, PlaceInv, RoundLooks
<1>31. CASE RoundUnmutes
  BY <1>31, <1>1 DEF KickInv, Base, PlaceInv, RoundUnmutes
<1>32. CASE RoundRechecks
  <2>1. CASE bcons = prod /\ dir = "tx"
    <3>1. /\ Types /\ EndInv /\ Handing /\ First \in 0 .. Posted /\ Posted \in 0 .. N
          /\ First \in Int
      <4>1. Handing
        BY <1>32 DEF RoundRechecks, Handing
      <4> QED BY <4>1, RingFacts, Consts DEF GInv, RingInv
    <3>2. Reached = Posted
      BY <2>1 DEF Reached, Posted
    <3>3. First = Posted
      <4> SUFFICES ASSUME First < Posted PROVE FALSE
        BY <3>1
      <4>1. Posted - 1 \in 0 .. N - 1 /\ clear \in Counter
        BY <3>1, Consts DEF Types
      <4>2. PICK i \in Slots : Off(i) = Posted - 1
        BY <4>1, SlotAt DEF Off
      <4>3. First <= Off(i) /\ Off(i) < Reached /\ Off(i) + 1 = Posted
        BY <4>2, <3>1, <3>2
      <4> QED BY <4>3, <2>1, <3>1 DEF EndInv, EndsAt
    <3>4. cons_first = prod
      BY <3>1, <3>3, SubInj DEF Types, First, Posted
    <3> QED BY <1>32, <2>1, <3>4, <1>1 DEF RoundRechecks, KickInv, Base
  <2>2. CASE bcons # prod \/ dir # "tx"
    BY <1>32, <2>2, <1>1 DEF RoundRechecks, KickInv
  <2> QED BY <2>1, <2>2
<1>33. CASE RoundRemutes
  BY <1>33, <1>1 DEF KickInv, Base, PlaceInv, RoundRemutes
<1>34. CASE TxTakesFragment
  BY <1>34, <1>1 DEF KickInv, Base, PlaceInv, TxTakesFragment
<1>35. CASE TxSends
  BY <1>35, <1>1 DEF KickInv, Base, PlaceInv, TxSends
<1>36. CASE TxBlocks
  <2>1. dir = "tx" /\ ~busy_wait => bpc' = "publish" /\ ~can'
    BY <1>36, GsoAssumption DEF TxBlocks
  <2> QED BY <1>36, <2>1, <1>1 DEF KickInv, PlaceInv, TxBlocks
<1>37. CASE TxOutOfBudget
  BY <1>37, <1>1 DEF KickInv, Base, PlaceInv, TxOutOfBudget
<1>38. CASE RxCollects
  BY <1>38, <1>1 DEF KickInv, Base, PlaceInv, RxCollects
<1>39. CASE RxOutOfBudget
  BY <1>39, <1>1 DEF KickInv, Base, PlaceInv, RxOutOfBudget
<1>40. CASE RxReceives
  BY <1>40, <1>1 DEF KickInv, Base, PlaceInv, RxReceives
<1>41. CASE RxNothing
  BY <1>41, <1>1 DEF KickInv, Base, PlaceInv, RxNothing
<1>42. CASE RoundPublishes
  <2>1. dir = "tx" => bcons = cons_first /\ (count = 0 => cons = cons_first)
    BY <1>42, <1>1 DEF RoundPublishes, OrderInv, Handing
  <2>2. dir = "tx" => Base' = Base
    BY <1>42, <2>1, <1>1 DEF RoundPublishes, Base
  <2> QED BY <1>42, <2>2, <1>1 DEF RoundPublishes, KickInv
<1>43. CASE RoundNotifies
  BY <1>43, <1>1 DEF KickInv, Base, PlaceInv, RoundNotifies
<1>44. CASE UNCHANGED vars
  BY <1>44, <1>1 DEF KickInv, Base, PlaceInv, vars
<1> QED BY <1>2, <1>3, <1>4, <1>5, <1>6, <1>7, <1>8, <1>9, <1>10, <1>11,
          <1>12, <1>13, <1>14, <1>15, <1>16, <1>17, <1>18, <1>19, <1>20,
          <1>21, <1>22, <1>23, <1>24, <1>25, <1>26, <1>27, <1>28, <1>29,
          <1>30, <1>31, <1>32, <1>33, <1>34, <1>35, <1>36, <1>37, <1>38,
          <1>39, <1>40, <1>41, <1>42, <1>43, <1>44, <1>45, <1>46 DEF Next

\* The distance from the completion after x to a counter ahead of x.
LEMMA BackIs ==
  ASSUME NEW c \in Counter, NEW x \in Counter, NEW b \in Counter,
         Sub(x, b) < Sub(c, b)
  PROVE  Sub(c, x + 1) = Sub(c, b) - Sub(x, b) - 1
<1>1. Sub(c, x + 1) = Sub(c, Add(x, 1))
  BY Consts DEF Sub, Add, Counter
<1>2. Sub(x, b) \in 0 .. W - 1 /\ Sub(c, b) \in 0 .. W - 1
  BY SubType
<1>3. Sub(c, x) = Sub(c, b) - Sub(x, b)
  BY <1>2, SubBetween
<1>4. c # x
  BY <1>2
<1>5. Sub(c, Add(x, 1)) = Sub(c, x) - 1
  BY <1>4, SubStepBehind
<1> QED BY <1>1, <1>3, <1>5

\* The interrupt of a transmit queue under every step.
LEMMA EventStep ==
  ASSUME GInv, EventInv, ~MayReopen, [Next]_vars PROVE EventInv'
<1>1. PlaceInv /\ EventInv /\ OrderInv /\ min \in 0 .. N
  BY DEF GInv, RestOK, RingInv
<1>c. /\ prod \in Counter /\ cons \in Counter /\ clear \in Counter
      /\ intr_at \in Counter /\ bcons \in Counter /\ cons_first \in Counter
      /\ count \in 0 .. Budget
  BY DEF GInv, RingInv, Types
<1>2. /\ Posted \in 0 .. N /\ Completed \in 0 .. W - 1 /\ free \in 0 .. N
      /\ Posted \div 2 \in 0 .. Posted
      /\ Sub(intr_at, clear) \in 0 .. W - 1 /\ Back \in 0 .. W - 1
      /\ Sub(cons, cons_first) \in 0 .. W - 1
      /\ InUse => Completed \in 0 .. Posted
      /\ dir = "tx" => free = N - Posted
  <2>1. /\ Posted \in 0 .. N /\ Completed \in 0 .. W - 1
        /\ (InUse => Completed \in 0 .. Posted)
    BY RingFacts
  <2>2. Posted \div 2 \in 0 .. Posted
    BY <2>1
  <2>3. Back \in 0 .. W - 1
    BY <1>c, Consts DEF Back, Sub, Counter
  <2>4. Sub(intr_at, clear) \in 0 .. W - 1 /\ Sub(cons, cons_first) \in 0 .. W - 1
    BY <1>c, SubType
  <2>5. free \in 0 .. N /\ (dir = "tx" => free = N - Posted)
    BY <2>1, Consts DEF GInv, CountInv, Room
  <2> QED BY <2>1, <2>2, <2>3, <2>4, <2>5, Consts
<1>3. dir = "tx" => HALF_PENDING_BUFS = 1 + Posted \div 2
  <2>1. N - (N - Posted) = Posted
    BY <1>2, Consts
  <2> QED BY <2>1, <1>2 DEF HALF_PENDING_BUFS
\* Steps that leave the ring's counters and the interrupt's alone.
<1>4. ASSUME UNCHANGED <<dir, prod, clear, cons, intr_at, free>>,
             UNCHANGED <<bpc, count, cons_first>> \/ bpc # "notify"
      PROVE  /\ Posted' = Posted /\ Completed' = Completed
             /\ Ahead' <=> Ahead
             /\ Passed => Passed'
  BY <1>4 DEF Posted, Completed, Ahead, Passed, Back
<1>5. CASE bpfhv_open
  <2>1. /\ UNCHANGED <<dir, prod, clear, cons, intr_at, free>>
        /\ UNCHANGED <<bpc, count, cons_first>> \/ bpc # "notify"
    BY <1>5 DEF bpfhv_open
  <2> QED BY <1>5, <2>1, <1>1, <1>2, <1>3, <1>4 DEF EventInv, PlaceInv,
  bpfhv_open
<1>6. CASE OpenEnable
  <2>1. dir = "tx" => Ahead'
    <3>1. dir = "tx" => /\ intr_at' = clear' /\ cons' = clear' /\ clear' = clear
                        /\ prod' = clear
      BY <1>6, <1>1 DEF OpenEnable, PlaceInv, OrderInv, EventInv
    <3>2. Sub(clear, clear) = 0 /\ 0 <= 0 \div 2
      BY <1>c, SubZero
    <3> QED BY <3>1, <3>2 DEF Ahead, Posted, Completed
  <2> QED BY <1>6, <2>1, <1>1 DEF OpenEnable, Return, EventInv
<1>7. CASE bpfhv_start_xmit
  <2>1. /\ UNCHANGED <<dir, prod, clear, cons, intr_at, free>>
        /\ UNCHANGED <<bpc, count, cons_first>> \/ bpc # "notify"
    BY <1>7 DEF bpfhv_start_xmit
  <2> QED BY <1>7, <2>1, <1>1, <1>2, <1>3, <1>4 DEF EventInv, PlaceInv,
  bpfhv_start_xmit
<1>8. CASE bpfhv_intr
  <2>1. /\ UNCHANGED <<dir, prod, clear, cons, intr_at, free>>
        /\ UNCHANGED <<bpc, count, cons_first>> \/ bpc # "notify"
    BY <1>8 DEF bpfhv_intr, Scheduled
  <2> QED BY <1>8, <2>1, <1>1, <1>2, <1>3, <1>4 DEF EventInv, PlaceInv,
  bpfhv_intr, Scheduled
<1>9. CASE bpfhv_poll
  <2>1. /\ UNCHANGED <<dir, prod, clear, cons, intr_at, free>>
        /\ UNCHANGED <<bpc, count, cons_first>> \/ bpc # "notify"
    BY <1>9 DEF bpfhv_poll
  <2> QED BY <1>9, <2>1, <1>1, <1>2, <1>3, <1>4 DEF EventInv, PlaceInv,
  bpfhv_poll
<1>10. CASE sring_gso_txc
  <2> DEFINE n == ToEop(N)
  <2>1. /\ dir = "tx" /\ gpc = "clean" /\ gpc' = "clean"
        /\ clear' = Add(clear, n) /\ clear # cons
        /\ UNCHANGED <<dir, prod, cons, intr_at, op, stopped, napi, dev, irq,
                       bpc, count, cons_first>>
    BY <1>10 DEF sring_gso_txc
  <2>2. InUse /\ Completed # 0 /\ ~overrun
    <3>1. Completed # 0
      BY <2>1, <1>c, SubZero DEF Completed
    <3>2. overrun \in BOOLEAN
      BY DEF GInv, RingInv, Types
    <3> QED BY <2>1, <3>1, <3>2, <1>1 DEF InUse, PlaceInv, OrderInv
  <2>3. n \in 0 .. Completed
    <3>1. Completed \in 1 .. Posted /\ EndsAt(Completed)
      BY <2>1, <2>2, <1>2, Consts DEF GInv, RingInv, EndInv
    <3>2. n \in 1 .. Completed
      BY <2>1, <3>1, TxPacket
    <3> HIDE DEF n
    <3> QED BY <3>2, <1>2
  <2> HIDE DEF n
  <2>4. /\ Posted' = Posted - n /\ Completed' = Completed - n
        /\ n <= Sub(intr_at, clear) =>
             Sub(intr_at, clear') = Sub(intr_at, clear) - n
    <3>1. n \in 0 .. Sub(prod, clear) /\ n \in 0 .. Sub(cons, clear)
      BY <2>2, <2>3, <1>2, Consts DEF Posted, Completed
    <3>2. n <= Sub(intr_at, clear) => n \in 0 .. Sub(intr_at, clear)
      BY <2>3, <1>2
    <3>3. Posted' = Posted - n /\ Completed' = Completed - n
      BY <2>1, <3>1, <1>c, SubMoveBehind DEF Posted, Completed
    <3>4. n <= Sub(intr_at, clear) =>
             Sub(intr_at, clear') = Sub(intr_at, clear) - n
      BY <2>1, <3>2, <1>c, SubMoveBehind
    <3> QED BY <3>3, <3>4
  <2>5. Ahead => Ahead'
    <3> SUFFICES ASSUME Ahead PROVE Ahead'
      OBVIOUS
    <3> DEFINE a == Sub(intr_at, clear)
    <3>1. Completed <= a /\ a <= Posted \div 2 /\ a \in Int
      BY <1>2 DEF Ahead
    <3>2. Sub(intr_at, clear') = a - n
      BY <3>1, <2>3, <2>4, <1>2
    <3> HIDE DEF a
    <3>3. a - n <= (Posted - n) \div 2 /\ Completed - n <= a - n
      BY <3>1, <2>2, <2>3, <1>2
    <3>4. Sub(intr_at, clear)' = a - n
      BY <3>2, <2>1
    <3> QED BY <3>3, <3>4, <2>4 DEF Ahead
  <2>6. Passed => Passed'
    <3> SUFFICES ASSUME Passed PROVE Passed'
      OBVIOUS
    <3>1. Back' = Back /\ Sub(cons, cons_first)' = Sub(cons, cons_first)
          /\ bpc' = bpc /\ count' = count
      BY <2>1 DEF Back
    <3>2. (Completed - n) - 1 - Back <= (Posted - n) \div 2
      <4>1. Completed - 1 - Back <= Posted \div 2
        BY DEF Passed
      <4> QED BY <4>1, <2>2, <2>3, <1>2
    <3> QED BY <3>1, <3>2, <2>4 DEF Passed
  <2>7. dev = "up" => op = "xmit" \/ op = "poll"
    BY <2>1, <1>1 DEF PlaceInv
  <2>8. dev \notin {"new", "opening"}
    BY <2>1, <1>1 DEF PlaceInv
  <2> QED BY <2>1, <2>5, <2>6, <2>7, <2>8, <1>1 DEF EventInv
<1>11. CASE sring_gso_rxc
  BY <1>11 DEF sring_gso_rxc, EventInv
<1>48. CASE RxAllocFails
  BY <1>48 DEF RxAllocFails, EventInv
<1>12. CASE CleanDone
  <2>1. /\ UNCHANGED <<dir, prod, clear, cons, intr_at, free>>
        /\ UNCHANGED <<bpc, count, cons_first>> \/ bpc # "notify"
    BY <1>12 DEF CleanDone, Return, napi_complete
  <2> QED BY <1>12, <2>1, <1>1, <1>2, <1>3, <1>4 DEF EventInv, PlaceInv,
  CleanDone, Return, napi_complete
<1>13. CASE XmitGivesUp
  <2>1. /\ UNCHANGED <<dir, prod, clear, cons, intr_at, free>>
        /\ UNCHANGED <<bpc, count, cons_first>> \/ bpc # "notify"
    BY <1>13 DEF XmitGivesUp, Return
  <2> QED BY <1>13, <2>1, <1>1, <1>2, <1>3, <1>4 DEF EventInv, PlaceInv,
  XmitGivesUp, Return
<1>14. CASE XmitLost
  <2>1. /\ UNCHANGED <<dir, prod, clear, cons, intr_at, free>>
        /\ UNCHANGED <<bpc, count, cons_first>> \/ bpc # "notify"
    BY <1>14 DEF XmitLost
  <2> QED BY <1>14, <2>1, <1>1, <1>2, <1>3, <1>4 DEF EventInv, PlaceInv,
  XmitLost
<1>15. CASE sring_gso_txp
  <2>1. /\ dir = "tx" /\ gpc = "map" /\ gpc' = "kick" /\ todo \in 0 .. free
        /\ prod' = Add(prod, todo) /\ dev = "up" /\ op = "xmit"
        /\ UNCHANGED <<dir, clear, cons, intr_at, op, stopped, napi, dev, irq,
                       bpc, count, cons_first>>
    <3>1. free >= todo /\ gpc = "map"
      BY <1>15 DEF sring_gso_txp
    <3>2. op = "xmit" /\ dir = "tx" /\ dev = "up" /\ todo \in 1 .. MaxFrags + 1
      BY <3>1, <1>1 DEF PlaceInv
    <3>3. todo \in 0 .. free
      BY <3>1, <3>2, <1>2, Consts
    <3> QED BY <1>15, <3>1, <3>2, <3>3 DEF sring_gso_txp
  <2>2. Posted' = Posted + todo
    <3>1. todo \in 0 .. W - 1 - Sub(prod, clear)
      BY <2>1, <1>2, Consts DEF Posted
    <3> QED BY <2>1, <3>1, <1>c, SubMoveAhead DEF Posted
  <2>3. Posted \div 2 <= (Posted + todo) \div 2
    BY <2>1, <1>2
  <2>4. Ahead => Ahead'
    <3>1. Completed' = Completed /\ Sub(intr_at, clear)' = Sub(intr_at, clear)
      BY <2>1 DEF Completed
    <3>2. (Posted + todo) \div 2 \in Int
      BY <2>1, <1>2
    <3> QED BY <2>2, <2>3, <3>1, <3>2, <1>2, Consts DEF Ahead
  <2>5. Passed => Passed'
    <3>1. Completed' = Completed /\ Back' = Back /\ Sub(cons, cons_first)' = Sub(cons, cons_first)
      BY <2>1 DEF Completed, Back
    <3>2. (Posted + todo) \div 2 \in Int
      BY <2>1, <1>2
    <3>3. bpc' = bpc /\ count' = count
      BY <2>1
    <3> QED BY <2>2, <2>3, <3>1, <3>2, <3>3, <1>2, Consts DEF Passed
  <2>6. ~stopped
    BY <2>1, <1>1 DEF EventInv
  <2> QED BY <2>1, <2>4, <2>5, <2>6, <1>1 DEF EventInv
<1>16. CASE sring_gso_rxp
  <2>1. dir = "rx" /\ dir' = dir
    BY <1>16, <1>1 DEF sring_gso_rxp, PlaceInv
  <2> QED BY <2>1 DEF EventInv
<1>17. CASE LooksAtKick
  <2>1. /\ UNCHANGED <<dir, prod, clear, cons, intr_at, free>>
        /\ UNCHANGED <<bpc, count, cons_first, irq, dev, op, napi, stopped>>
        /\ dir = "tx" => gpc' = "arm" /\ min' = 1 + Posted \div 2
    BY <1>17, <1>3 DEF LooksAtKick
  <2> QED BY <2>1, <1>1, <1>2, <1>4 DEF EventInv
<1>18. CASE RxPollComplete
  <2>1. /\ UNCHANGED <<dir, prod, clear, cons, intr_at, free>>
        /\ UNCHANGED <<bpc, count, cons_first>> \/ bpc # "notify"
    BY <1>18 DEF RxPollComplete
  <2> QED BY <1>18, <2>1, <1>1, <1>2, <1>3, <1>4 DEF EventInv, PlaceInv,
  RxPollComplete
<1>19. CASE sring_gso_xi
  <2>1. /\ UNCHANGED <<dir, prod, clear, cons, intr_at, free>>
        /\ UNCHANGED <<bpc, count, cons_first>> \/ bpc # "notify"
    BY <1>19 DEF sring_gso_xi
  <2> QED BY <1>19, <2>1, <1>1, <1>2, <1>3, <1>4 DEF EventInv, PlaceInv,
  sring_gso_xi
<1>20. CASE XiArms
  <2> SUFFICES ASSUME dir = "tx" PROVE EventInv'
    BY <1>20 DEF XiArms, EventInv
  <2>1. /\ intr_at' = Add(clear, min - 1) /\ gpc = "store" /\ gpc' = "check"
        /\ UNCHANGED <<dir, prod, cons, clear, op, stopped, napi, dev, irq, min,
                       bpc, count, cons_first, free>>
    BY <1>20 DEF XiArms
  <2>2. min - 1 = Posted \div 2 /\ op \in {"xmit", "poll"} /\ InUse
    BY <2>1, <1>1, <1>2 DEF EventInv, PlaceInv, InUse
  <2>3. intr_at' \in Counter /\ Sub(intr_at', clear) = Posted \div 2
    <3>1. min - 1 \in 0 .. W - 1
      BY <2>2, <1>2, Consts
    <3> QED BY <2>1, <2>2, <3>1, <1>c, AddSub
  <2>4. Posted' = Posted /\ Completed' = Completed
        /\ Sub(cons, cons_first)' = Sub(cons, cons_first)
        /\ Sub(intr_at, clear)' = Sub(intr_at', clear)
        /\ Back' = Sub(cons, intr_at' + 1)
    BY <2>1 DEF Posted, Completed, Back
  <2>5. Completed <= Posted \div 2 => Ahead'
    BY <2>3, <2>4, <1>2 DEF Ahead
  <2>6. Ahead => Ahead'
    BY <2>5, <1>2 DEF Ahead
  <2>7. Passed => Ahead' \/ Passed'
    <3> SUFFICES ASSUME Passed, ~(Completed <= Posted \div 2) PROVE Passed'
      BY <2>5
    <3>1. Sub(intr_at', clear) < Sub(cons, clear)
      BY <2>3, <1>2 DEF Completed
    <3>2. Back' = Completed - Posted \div 2 - 1
      BY <2>3, <2>4, <3>1, <1>c, BackIs DEF Completed
    <3>3. Completed - 1 - Back <= Posted \div 2 /\ Back < Sub(cons, cons_first)
      BY DEF Passed
    <3>4. Back' < Sub(cons, cons_first) /\ Completed - 1 - Back' <= Posted \div 2
      BY <3>2, <3>3, <1>2
    <3>5. bpc' = "notify" /\ count' > 0
      BY <2>1 DEF Passed
    <3> QED BY <3>4, <3>5, <2>4 DEF Passed
  <2> QED BY <2>1, <2>2, <2>4, <2>6, <2>7, <1>1 DEF EventInv, PlaceInv
<1>21. CASE XiCheck
  <2> SUFFICES ASSUME dir = "tx" PROVE EventInv'
    BY <1>21 DEF XiCheck, EventInv
  <2>1. /\ UNCHANGED <<dir, prod, clear, cons, intr_at, free>>
        /\ UNCHANGED <<bpc, count, cons_first, irq, dev>>
        /\ gpc = "check" /\ gpc' \in {"stop", "idle"}
        /\ op' = (IF op = "xmit" THEN "xmit" ELSE "none")
        /\ stopped' = (stopped /\ ~(op = "poll" /\ free >= 2 + MaxFrags))
    BY <1>21 DEF XiCheck, Return
  <2>2. op \in {"xmit", "poll"} /\ dev # "opening" /\ dev # "new"
    BY <2>1, <1>1 DEF PlaceInv
  <2>3. dev = "up" => napi' # "idle" \/ irq' \/ Ahead' \/ Passed'
    <3>1. CASE op = "xmit"
      <4>1. napi' = napi
        BY <1>21, <3>1 DEF XiCheck
      <4> QED BY <4>1, <2>1, <1>1, <1>4 DEF EventInv
    <3>2. CASE op = "poll" /\ Completed >= min
      BY <1>21, <3>2 DEF XiCheck
    <3>3. CASE op = "poll" /\ ~(Completed >= min)
      <4>1. intr_at = Add(clear, min - 1) /\ min - 1 = Posted \div 2
        BY <2>1, <3>3, <1>1, <1>2 DEF EventInv
      <4>2. min - 1 \in 0 .. W - 1
        BY <4>1, <1>2, Consts
      <4>3. Sub(intr_at, clear) = Posted \div 2
        BY <4>1, <4>2, <1>c, AddSub
      <4>4. Ahead
        BY <4>1, <4>3, <3>3, <1>1, <1>2 DEF Ahead
      <4> QED BY <4>4, <2>1, <1>4
    <3> QED BY <2>2, <3>1, <3>2, <3>3
  <2>4. op = "poll" /\ stopped' => free < 2 + MaxFrags
    <3>1. free >= 2 + MaxFrags \/ free < 2 + MaxFrags
      BY <1>2, Consts
    <3> QED BY <2>1, <3>1, Zenon
  <2>5. op = "xmit" => ~stopped'
    BY <2>1, <1>1 DEF EventInv
  <2> QED BY <2>1, <2>2, <2>3, <2>4, <2>5 DEF EventInv
<1>22. CASE XmitStops
  <2>1. /\ UNCHANGED <<dir, prod, clear, cons, intr_at, free>>
        /\ UNCHANGED <<bpc, count, cons_first>> \/ bpc # "notify"
    BY <1>22 DEF XmitStops, Return
  <2> QED BY <1>22, <2>1, <1>1, <1>2, <1>3, <1>4 DEF EventInv, PlaceInv,
  XmitStops, Return
<1>23. CASE bpfhv_close
  <2>1. /\ UNCHANGED <<dir, prod, clear, cons, intr_at, free>>
        /\ UNCHANGED <<bpc, count, cons_first>> \/ bpc # "notify"
    BY <1>23 DEF bpfhv_close
  <2> QED BY <1>23, <2>1, <1>1, <1>2, <1>3, <1>4 DEF EventInv, PlaceInv,
  bpfhv_close
<1>24. CASE CloseNapiDisable
  <2>1. /\ UNCHANGED <<dir, prod, clear, cons, intr_at, free>>
        /\ UNCHANGED <<bpc, count, cons_first>> \/ bpc # "notify"
    BY <1>24 DEF CloseNapiDisable
  <2> QED BY <1>24, <2>1, <1>1, <1>2, <1>3, <1>4 DEF EventInv, PlaceInv,
  CloseNapiDisable
<1>25. CASE sring_gso_txr
  <2>1. dev = "closing" /\ dev' = dev /\ op = "close" /\ op' = op /\ gpc' = "reclaim"
    BY <1>25, <1>1 DEF sring_gso_txr, PlaceInv
  <2> QED BY <2>1 DEF EventInv
<1>26. CASE sring_gso_rxr
  BY <1>26 DEF sring_gso_rxr, EventInv
<1>27. CASE CloseDone
  <2>1. /\ UNCHANGED <<dir, prod, clear, cons, intr_at, free>>
        /\ UNCHANGED <<bpc, count, cons_first>> \/ bpc # "notify"
    BY <1>27 DEF CloseDone, Return
  <2> QED BY <1>27, <2>1, <1>1, <1>2, <1>3, <1>4 DEF EventInv, PlaceInv,
  CloseDone, Return
<1>28. CASE PacketArrives
  <2>1. /\ UNCHANGED <<dir, prod, clear, cons, intr_at, free>>
        /\ UNCHANGED <<bpc, count, cons_first>> \/ bpc # "notify"
    BY <1>28 DEF PacketArrives
  <2> QED BY <1>28, <2>1, <1>1, <1>2, <1>3, <1>4 DEF EventInv, PlaceInv,
  PacketArrives
<1>49. CASE WorkerStarts
  <2>1. /\ UNCHANGED <<dir, prod, clear, cons, intr_at, free>>
        /\ UNCHANGED <<bpc, count, cons_first>> \/ bpc # "notify"
    BY <1>49 DEF WorkerStarts
  <2> QED BY <1>49, <2>1, <1>1, <1>2, <1>3, <1>4 DEF EventInv, PlaceInv,
     WorkerStarts
<1>29. CASE process_packets_poll
  <2>1. /\ UNCHANGED <<dir, prod, clear, cons, intr_at, free>>
        /\ UNCHANGED <<bpc, count, cons_first>> \/ bpc # "notify"
    BY <1>29 DEF process_packets_poll, WakeUp
  <2> QED BY <1>29, <2>1, <1>1, <1>2, <1>3, <1>4 DEF EventInv, PlaceInv,
  process_packets_poll, WakeUp
<1>30. CASE PollOther
  <2>1. /\ UNCHANGED <<dir, prod, clear, cons, intr_at, free>>
        /\ UNCHANGED <<bpc, count, cons_first>> \/ bpc # "notify"
    BY <1>30 DEF PollOther, WakeUp
  <2> QED BY <1>30, <2>1, <1>1, <1>2, <1>3, <1>4 DEF EventInv, PlaceInv,
  PollOther, WakeUp
<1>31. CASE process_packets_spin
  <2>1. /\ UNCHANGED <<dir, prod, clear, cons, intr_at, free>>
        /\ UNCHANGED <<bpc, count, cons_first>> \/ bpc # "notify"
    BY <1>31 DEF process_packets_spin
  <2> QED BY <1>31, <2>1, <1>1, <1>2, <1>3, <1>4 DEF EventInv, PlaceInv,
  process_packets_spin
<1>32. CASE RoundBegins
  <2>1. /\ UNCHANGED <<dir, prod, clear, cons, intr_at, free>>
        /\ UNCHANGED <<bpc, count, cons_first>> \/ bpc # "notify"
    BY <1>32 DEF RoundBegins
  <2> QED BY <1>32, <2>1, <1>1, <1>2, <1>3, <1>4 DEF EventInv, PlaceInv,
  RoundBegins
<1>33. CASE RoundLooks
  <2>1. /\ UNCHANGED <<dir, prod, clear, cons, intr_at, free>>
        /\ UNCHANGED <<bpc, count, cons_first>> \/ bpc # "notify"
    BY <1>33 DEF RoundLooks
  <2> QED BY <1>33, <2>1, <1>1, <1>2, <1>3, <1>4 DEF EventInv, PlaceInv,
  RoundLooks
<1>34. CASE RoundUnmutes
  <2>1. /\ UNCHANGED <<dir, prod, clear, cons, intr_at, free>>
        /\ UNCHANGED <<bpc, count, cons_first>> \/ bpc # "notify"
    BY <1>34 DEF RoundUnmutes
  <2> QED BY <1>34, <2>1, <1>1, <1>2, <1>3, <1>4 DEF EventInv, PlaceInv,
  RoundUnmutes
<1>35. CASE RoundRechecks
  <2>1. /\ UNCHANGED <<dir, prod, clear, cons, intr_at, free>>
        /\ UNCHANGED <<bpc, count, cons_first>> \/ bpc # "notify"
    BY <1>35 DEF RoundRechecks
  <2> QED BY <1>35, <2>1, <1>1, <1>2, <1>3, <1>4 DEF EventInv, PlaceInv,
  RoundRechecks
<1>36. CASE RoundRemutes
  <2>1. /\ UNCHANGED <<dir, prod, clear, cons, intr_at, free>>
        /\ UNCHANGED <<bpc, count, cons_first>> \/ bpc # "notify"
    BY <1>36 DEF RoundRemutes
  <2> QED BY <1>36, <2>1, <1>1, <1>2, <1>3, <1>4 DEF EventInv, PlaceInv,
  RoundRemutes
<1>37. CASE TxTakesFragment
  <2>1. /\ UNCHANGED <<dir, prod, clear, cons, intr_at, free>>
        /\ UNCHANGED <<bpc, count, cons_first>> \/ bpc # "notify"
    BY <1>37 DEF TxTakesFragment
  <2> QED BY <1>37, <2>1, <1>1, <1>2, <1>3, <1>4 DEF EventInv, PlaceInv,
  TxTakesFragment
<1>38. CASE TxSends
  <2>1. /\ UNCHANGED <<dir, prod, clear, cons, intr_at, free>>
        /\ UNCHANGED <<bpc, count, cons_first>> \/ bpc # "notify"
    BY <1>38 DEF TxSends
  <2> QED BY <1>38, <2>1, <1>1, <1>2, <1>3, <1>4 DEF EventInv, PlaceInv,
  TxSends
<1>39. CASE TxBlocks
  <2>1. /\ UNCHANGED <<dir, prod, clear, cons, intr_at, free>>
        /\ UNCHANGED <<bpc, count, cons_first>> \/ bpc # "notify"
    BY <1>39 DEF TxBlocks
  <2> QED BY <1>39, <2>1, <1>1, <1>2, <1>3, <1>4 DEF EventInv, PlaceInv,
  TxBlocks
<1>40. CASE TxOutOfBudget
  <2>1. /\ UNCHANGED <<dir, prod, clear, cons, intr_at, free>>
        /\ UNCHANGED <<bpc, count, cons_first>> \/ bpc # "notify"
    BY <1>40 DEF TxOutOfBudget
  <2> QED BY <1>40, <2>1, <1>1, <1>2, <1>3, <1>4 DEF EventInv, PlaceInv,
  TxOutOfBudget
<1>41. CASE RxCollects
  <2>1. /\ UNCHANGED <<dir, prod, clear, cons, intr_at, free>>
        /\ UNCHANGED <<bpc, count, cons_first>> \/ bpc # "notify"
    BY <1>41 DEF RxCollects
  <2> QED BY <1>41, <2>1, <1>1, <1>2, <1>3, <1>4 DEF EventInv, PlaceInv,
  RxCollects
<1>42. CASE RxOutOfBudget
  <2>1. /\ UNCHANGED <<dir, prod, clear, cons, intr_at, free>>
        /\ UNCHANGED <<bpc, count, cons_first>> \/ bpc # "notify"
    BY <1>42 DEF RxOutOfBudget
  <2> QED BY <1>42, <2>1, <1>1, <1>2, <1>3, <1>4 DEF EventInv, PlaceInv,
  RxOutOfBudget
<1>43. CASE RxReceives
  <2>1. /\ UNCHANGED <<dir, prod, clear, cons, intr_at, free>>
        /\ UNCHANGED <<bpc, count, cons_first>> \/ bpc # "notify"
    BY <1>43 DEF RxReceives
  <2> QED BY <1>43, <2>1, <1>1, <1>2, <1>3, <1>4 DEF EventInv, PlaceInv,
  RxReceives
<1>44. CASE RxNothing
  <2>1. /\ UNCHANGED <<dir, prod, clear, cons, intr_at, free>>
        /\ UNCHANGED <<bpc, count, cons_first>> \/ bpc # "notify"
    BY <1>44 DEF RxNothing
  <2> QED BY <1>44, <2>1, <1>1, <1>2, <1>3, <1>4 DEF EventInv, PlaceInv,
  RxNothing
<1>45. CASE RoundPublishes
  <2>1. /\ bpc = "publish" /\ bpc' = "notify" /\ cons_first' = cons
        /\ cons' = (IF count > 0 THEN bcons ELSE cons)
        /\ UNCHANGED <<dir, prod, clear, intr_at, gpc, op, stopped, napi, dev,
                       irq, min, count, free>>
    BY <1>45 DEF RoundPublishes
  <2>2. Handing /\ ~Passed /\ Posted' = Posted
    BY <2>1 DEF Handing, Passed, Posted
  <2>3. Completed <= Reached /\ Reached \in 0 .. Posted
    BY <2>2, RingFacts, Consts
  <2>4. count > 0 => Completed' = Reached
    BY <2>1 DEF Completed, Reached
  <2>5. ~(count > 0) => Completed' = Completed
    BY <2>1 DEF Completed
  <2>6. Ahead => Ahead' \/ Passed'
    <3> SUFFICES ASSUME Ahead, ~Ahead' PROVE Passed'
      OBVIOUS
    <3> DEFINE a == Sub(intr_at, clear)
    <3>1. Completed <= a /\ a <= Posted \div 2 /\ a \in Int
      BY <1>2 DEF Ahead
    <3>2. count > 0 /\ ~(Reached <= a) /\ Sub(intr_at, clear)' = a
      BY <2>1, <2>2, <2>4, <2>5, <3>1 DEF Ahead
    <3>3. cons' = bcons /\ Back' = Sub(bcons, intr_at + 1)
      BY <2>1, <3>2 DEF Back
    <3>4. Sub(bcons, intr_at + 1) = Reached - a - 1
      <4>1. Sub(intr_at, clear) < Sub(bcons, clear)
        BY <3>1, <3>2, <2>3, <1>2 DEF Reached
      <4> QED BY <4>1, <1>c, BackIs DEF Reached
    <3>5. Sub(bcons, cons) = Reached - Completed
      <4>1. Sub(cons, clear) <= Sub(bcons, clear)
        BY <2>3 DEF Reached, Completed
      <4> QED BY <4>1, <1>c, SubBetween DEF Reached, Completed
    <3>6. Sub(cons, cons_first)' = Sub(bcons, cons)
      BY <2>1, <3>3
    <3> HIDE DEF a
    <3>7. Back' < Sub(cons, cons_first)' /\ Reached - 1 - Back' <= Posted \div 2
      BY <3>1, <3>2, <3>3, <3>4, <3>5, <3>6, <2>3, <1>2
    <3> QED BY <3>2, <3>7, <2>1, <2>2, <2>4 DEF Passed
  <2>7. Completed >= min => Completed' >= min
    BY <2>3, <2>4, <2>5, <1>1, <1>2, Consts
  <2>8. dev \notin {"new", "opening"}
    BY <2>1, <1>1 DEF PlaceInv
  <2> QED BY <2>1, <2>2, <2>6, <2>7, <2>8, <1>1 DEF EventInv
<1>46. CASE RoundNotifies
  <2>1. /\ bpc = "notify" /\ UNCHANGED <<dir, prod, clear, cons, intr_at, gpc, op,
                                       stopped, napi, dev, min, free>>
        /\ dir = "tx" /\ count > 0 /\ Sub(bcons, intr_at + 1) < Sub(bcons, cons_first)
             => irq'
        /\ irq => irq'
    BY <1>46 DEF RoundNotifies
  <2>2. dir = "tx" /\ Passed => irq'
    <3>1. Passed => bcons = cons
      BY <2>1, <1>1 DEF Passed, OrderInv
    <3> QED BY <2>1, <3>1 DEF Passed, Back
  <2>3. Posted' = Posted /\ Completed' = Completed /\ (Ahead' <=> Ahead)
    BY <2>1 DEF Posted, Completed, Ahead
  <2> QED BY <2>1, <2>2, <2>3, <1>1 DEF EventInv
<1>47. CASE UNCHANGED vars
  BY <1>47, <1>1, <1>2 DEF EventInv, PlaceInv, Ahead, Passed, Back, Posted,
     Completed, vars
<1> QED BY <1>5, <1>6, <1>7, <1>8, <1>9, <1>10, <1>11, <1>12, <1>13, <1>14,
          <1>15, <1>16, <1>17, <1>18, <1>19, <1>20, <1>21, <1>22, <1>23,
          <1>24, <1>25, <1>26, <1>27, <1>28, <1>29, <1>30, <1>31, <1>32,
          <1>33, <1>34, <1>35, <1>36, <1>37, <1>38, <1>39, <1>40, <1>41,
          <1>42, <1>43, <1>44, <1>45, <1>46, <1>47, <1>48,
          <1>49 DEF Next

\* A stopped transmit queue is not forgotten.
LEMMA StallFromInv ==
  ASSUME GInv, KickInv, EventInv, MaxFrags + 2 <= N PROVE NoStall
<1> SUFFICES ASSUME dir = "tx", stopped, dev = "up", gpc = "idle", napi = "idle",
                    ~irq, bpc = "top", ~kickfd, ~again, can, ~busy_wait
             PROVE  FALSE
  BY DEF NoStall
<1>1. PlaceInv /\ OrderInv
  BY DEF GInv, RingInv
<1>2. op = "none" /\ ~kick_pending /\ count = 0
  BY <1>1 DEF PlaceInv, OrderInv
<1>3. cons = prod
  BY <1>2, Consts DEF KickInv, Base
<1>4. Posted <= Posted \div 2
  <2>1. Ahead
    BY DEF EventInv, Passed
  <2>2. /\ Posted \in 0 .. N /\ Posted \div 2 \in Int
        /\ Sub(intr_at, clear) \in 0 .. W - 1
    <3>1. Posted \in 0 .. N /\ Types
      BY RingFacts
    <3> QED BY <3>1, SubType DEF Types
  <2>3. Completed = Posted
    BY <1>3 DEF Completed, Posted
  <2> QED BY <2>1, <2>2, <2>3 DEF Ahead
<1>5. Posted = 0
  <2>1. Posted \in 0 .. N
    BY RingFacts
  <2> QED BY <1>4, <2>1
<1>6. free < 2 + MaxFrags /\ free = N
  BY <1>2, <1>5, Consts DEF EventInv, GInv, CountInv, Room
<1> QED BY <1>6, Consts

\* The whole invariant of a receive queue, and of a transmit queue.
RxInv == GInv /\ ArmInv /\ StarveInv
TxInv == GInv /\ KickInv /\ EventInv

\* They hold at the start.
LEMMA SInit == ASSUME Init PROVE RxInv /\ TxInv
<1>1. GInv
  BY GInit
<1>2. ArmInv /\ StarveInv /\ KickInv /\ EventInv
  BY DEF Init, sring_gso_ctx_init, ArmInv, StarveInv, KickInv, EventInv,
     Handing
<1> QED BY <1>1, <1>2 DEF RxInv, TxInv

\* The first holds.
LEMMA RxInvHolds == ASSUME ~MayReopen PROVE Spec => []RxInv
<1>1. Init => RxInv
  BY SInit
<1>2. RxInv /\ [Next]_vars => RxInv'
  BY GStep, ArmStep, StarveStep DEF RxInv
<1> QED BY <1>1, <1>2, PTL DEF Spec

\* The second holds unless send fails for another reason than a full interface.
LEMMA TxInvHolds ==
  ASSUME ~MayReopen, "error" \notin SendFails PROVE Spec => []TxInv
<1>1. Init => TxInv
  BY SInit
<1>2. TxInv /\ [Next]_vars => TxInv'
  BY GStep, KickStep, EventStep DEF TxInv
<1> QED BY <1>1, <1>2, PTL DEF Spec

\* A sleeping backend that does not listen to its interface and a driver at rest
\* that holds back buffers never wait for each other, if the ring has enough of
\* them for a packet of any size besides the RefillAt - 1 that bpfhv_rx_clean may
\* hold back.  NoStarvation itself excepts a driver whose last refill ran out of
\* memory, or that has lost count of the buffers of a failed rx_pkt_alloc.
THEOREM NoStarvationHolds == ~MayReopen /\ Roomy => (Spec => []NoStarvation)
<1> SUFFICES ASSUME ~MayReopen, Roomy PROVE Spec => []NoStarvation
  OBVIOUS
<1>1. RxInv => NoStarvation
  BY StarvationFromInv DEF RxInv
<1> QED BY <1>1, RxInvHolds, PTL

\* A receive queue whose driver is at rest has no packet to collect, and rxi has
\* left its interrupt enabled: the second look at cons closes the race, also
\* after a poll that a failed rx_pkt_alloc cut short.
THEOREM NoLostPacketHolds == ~MayReopen => (Spec => []NoLostPacket)
<1> SUFFICES ASSUME ~MayReopen PROVE Spec => []NoLostPacket
  OBVIOUS
<1>1. RxInv => NoLostPacket
  BY PacketFromInv DEF RxInv, GInv
<1> QED BY <1>1, RxInvHolds, PTL

\* A transmit queue that bpfhv_start_xmit stopped is always started again: NAPI,
\* an interrupt, a kick or the backend is under way.  The completion that txi
\* arms is never beyond the middle of the pending buffers.  Two hypotheses: send
\* fails only because the interface is full, as after another error the backend
\* sleeps with the kicks off; and an empty ring holds the largest packet and one
\* descriptor more, or bpfhv_tx_poll would never wake the queue.
THEOREM NoStallHolds ==
  ~MayReopen /\ "error" \notin SendFails /\ MaxFrags + 2 <= N
    => (Spec => []NoStall)
<1> SUFFICES ASSUME ~MayReopen, "error" \notin SendFails, MaxFrags + 2 <= N
             PROVE  Spec => []NoStall
  OBVIOUS
<1>1. TxInv => NoStall
  BY StallFromInv DEF TxInv
<1> QED BY <1>1, TxInvHolds, PTL

=============================================================================
