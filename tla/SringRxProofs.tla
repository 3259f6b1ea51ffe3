---------------------------- MODULE SringRxProofs ----------------------------
(***************************************************************************)
(* The safety of the receive path, for every ring size N, counter width W, *)
(* batch size and budget, and every failure the model knows.               *)
(***************************************************************************)
EXTENDS SringRx, WrapArithProofs

(***************************************************************************)
(* Who is where: the context in bpfhv_rx_clean or bpfhv_rx_refill, the end *)
(* of a poll, the backend and the life of the device.  A device that has   *)
(* not been opened yet is as sring_rx_ctx_init left it; one that was       *)
(* closed stays closed.                                                    *)
(***************************************************************************)
Fresh == dev \in {"down", "opening"} /\ ~stopreq

HolderInv ==
  /\ gpc = "idle" <=> caller = "none"
  /\ gpc = "enable" => caller = "open"
  /\ gpc = "reclaim" => caller = "close"
  /\ gpc \in {"mask", "clean", "cleaned"} => caller # "open"
  /\ caller = "open" <=> dev = "opening"
  /\ caller = "poll" => /\ dev \in {"up", "closing", "disabling"}
                        /\ napi = "sched" /\ ppc # "complete"
  /\ caller = "close" => dev = "disabling" /\ napi = "off"
  /\ ppc = "complete" => napi = "sched"
  /\ gpc = "mask" <=> ipc["head"] # "idle"
  /\ ppc = "rearm" <=> ipc["tail"] # "idle"

LifeInv ==
  /\ dev \in {"down", "opening"} => napi = "off"
  /\ dev \in {"down", "opening", "disabling"} => bpc = "halted"
  /\ dev \in {"up", "closing"} => napi # "off"
  /\ dev \in {"opening", "up"} => ~stopreq
  /\ dev \in {"closing", "disabling"} => stopreq
  /\ dev = "down" => clear = prod
  /\ Fresh => ppc = "idle" /\ intr_enabled /\ clear = cons

\* The driver may complete buffers: not between the reclaim of a close and the
\* next open.
InUse == gpc # "reclaim" /\ dev # "down"

OrderInv ==
  /\ Sub(prod, clear) <= N /\ rx_free <= N - Sub(prod, clear)
  /\ ~AllocFails => rx_free = N - Sub(prod, clear)
  /\ InUse => Sub(cons, clear) <= Sub(prod, clear)
  /\ Pushing => /\ Sub(cons, clear) <= Sub(bcons, clear)
                /\ Sub(bcons, clear) <= Sub(bprod, clear)
                /\ Sub(bprod, clear) <= Sub(prod, clear)

SlotInv ==
  \A i \in Slots :
    LET d == Dist(N, i, clear)
    IN  /\ Sub(prod, clear) <= d => slot[i] = "empty"
        /\ InUse /\ d < Handled => slot[i] \in {"filled", "bad"}
        /\ InUse /\ Handled <= d /\ d < Sub(prod, clear)
             => slot[i] \in {"posted", "bad"}

\* As long as it has received nothing, the backend has only skipped buffers.
SkipInv ==
  /\ bpc = "notify" => count > 0 /\ bcons = cons
  /\ Pushing /\ count = 0 =>
       \A i \in Slots :
         LET d == Dist(N, i, clear)
         IN  Sub(cons, clear) <= d /\ d < Sub(bcons, clear) => slot[i] = "bad"

\* The counters that the ring is about, and the ones that it is not.
RingTypes ==
  /\ prod \in Counter /\ cons \in Counter /\ clear \in Counter
  /\ bprod \in Counter /\ bcons \in Counter
  /\ rx_free \in 0 .. N /\ count \in 0 .. Budget

RingInv == RingTypes /\ OrderInv /\ SlotInv /\ SkipInv

PlaceInv == PlacesOK /\ HolderInv /\ LifeInv

RInv == PlaceInv /\ RingInv

USE DEF options, ringVars, flagVars, napiVars, cleanVars, rxiVars, guestVars,
        drainVars, beVars

\* The places of all contexts, who may be where, and the life of the device.
LEMMA LifeStep ==
  ASSUME ~MayReopen, RInv, [Next]_vars
  PROVE  PlaceInv'
<1>t. PlacesOK /\ HolderInv /\ LifeInv /\ rx_free \in Nat
  BY RxAssumption DEF RInv, PlaceInv, RingInv, RingTypes
<1> USE DEF PlaceInv, PlacesOK, HolderInv, LifeInv, Fresh, Runs
<1>1. CASE PacketArrives
  BY <1>1, <1>t DEF PacketArrives
<1>2. CASE bpfhv_rx_intr
  BY <1>2, <1>t DEF bpfhv_rx_intr, napi_schedule
<1>3. CASE bpfhv_rx_poll
  BY <1>3, <1>t DEF bpfhv_rx_poll
<1>4. CASE bpfhv_rx_refill
  BY <1>4, <1>t DEF bpfhv_rx_refill, sring_rxp, RefillSize, Kinds
<1>5. CASE sring_rxp_kick
  BY <1>5, <1>t DEF sring_rxp_kick
<1>6. CASE sring_rxc
  BY <1>6, <1>t DEF sring_rxc, CleanBudget
<1>7. CASE RxcFails
  BY <1>7, <1>t DEF RxcFails, CleanBudget
<1>8. CASE RxCleanDone
  BY <1>8, <1>t DEF RxCleanDone
<1>9. CASE RxCleanReturn
  BY <1>9, <1>t DEF RxCleanReturn, Release, napi_complete
<1>10. CASE OpenEnable
  BY <1>10, <1>t DEF OpenEnable, Release
<1>11. CASE sring_rxr
  BY <1>11, <1>t DEF sring_rxr
<1>12. CASE CloseDone
  BY <1>12, <1>t DEF CloseDone, Release
<1>13. CASE RxPollComplete
  BY <1>13, <1>t DEF RxPollComplete, napi_complete
<1>14. CASE RxPollUnmask
  BY <1>14, <1>t DEF RxPollUnmask
<1>15. CASE RxPollResched
  BY <1>15, <1>t DEF RxPollResched, napi_schedule
<1>16. CASE bpfhv_open
  BY <1>16, <1>t DEF bpfhv_open
<1>17. CASE bpfhv_close
  BY <1>17, <1>t DEF bpfhv_close
<1>18. CASE CloseStopped
  BY <1>18, <1>t DEF CloseStopped
<1>19. CASE CloseNapiDisable
  BY <1>19, <1>t DEF CloseNapiDisable
<1>20. CASE process_packets_poll \/ TxKick
  BY <1>20, <1>t DEF process_packets_poll, TxKick, WakeUp
<1>21. CASE process_packets_spin \/ WorkerStarts
  BY <1>21, <1>t DEF process_packets_spin, WorkerStarts
<1>22. CASE sring_rxq_push
  BY <1>22, <1>t DEF sring_rxq_push
<1>23. CASE PushMute
  BY <1>23, <1>t DEF PushMute, PushFrame
<1>24. CASE PushOutOfBufs
  BY <1>24, <1>t DEF PushOutOfBufs, PushFrame
<1>25. CASE PushUnmute
  BY <1>25, <1>t DEF PushUnmute, PushFrame
<1>26. CASE PushRecheck
  BY <1>26, <1>t DEF PushRecheck, PushFrame
<1>27. CASE PushOutOfBudget
  BY <1>27, <1>t DEF PushOutOfBudget, PushFrame
<1>28. CASE PushSkip
  BY <1>28, <1>t DEF PushSkip, PushFrame, Receiving
<1>29. CASE PushRecv
  BY <1>29, <1>t DEF PushRecv, PushFrame, Receiving
<1>30. CASE PushRecvFails
  BY <1>30, <1>t DEF PushRecvFails, PushFrame, Receiving
<1>31. CASE PushPublish
  BY <1>31, <1>t DEF PushPublish, PushReturn
<1>32. CASE PushNotify
  BY <1>32, <1>t DEF PushNotify, PushReturn
<1>33. CASE UNCHANGED vars
  BY <1>33, <1>t DEF vars
<1>34. ASSUME NEW why \in RefillFails, RefillCutShort(why) PROVE PlaceInv'
  BY <1>34, <1>t DEF RefillCutShort, sring_rxp, RefillSize
<1>35. ASSUME NEW r \in Runs, sring_rxi(r) PROVE PlaceInv'
  BY <1>35, <1>t DEF sring_rxi, RxiFrame, Runs
<1>36. ASSUME NEW r \in Runs, sring_rxi_arm(r) PROVE PlaceInv'
  BY <1>36, <1>t DEF sring_rxi_arm, RxiFrame, Runs
<1>37. ASSUME NEW r \in Runs, sring_rxi_check(r) PROVE PlaceInv'
  BY <1>37, <1>t DEF sring_rxi_check, RxiFrame, Runs, RxiReturn
<1>38. ASSUME NEW r \in Runs, sring_rxi_mute(r) PROVE PlaceInv'
  BY <1>38, <1>t DEF sring_rxi_mute, RxiFrame, Runs, RxiReturn
<1> QED BY <1>1, <1>2, <1>3, <1>4, <1>5, <1>6, <1>7, <1>8, <1>9, <1>10, <1>11,
     <1>12, <1>13, <1>14, <1>15, <1>16, <1>17, <1>18, <1>19, <1>20, <1>21,
     <1>22, <1>23, <1>24, <1>25, <1>26, <1>27, <1>28, <1>29, <1>30, <1>31,
     <1>32, <1>33, <1>34, <1>35, <1>36, <1>37, <1>38 DEF Next, CleanStep,
     TailStep, PushStep, RxiStep, Runs

-----------------------------------------------------------------------------
\* The slot of a counter inside the ring is the one at the counter's distance.
LEMMA SlotOf ==
  ASSUME NEW c \in Counter, NEW a \in Counter, Sub(a, c) < N
  PROVE  /\ Slot(a) \in Slots
         /\ \A i \in Slots : Dist(N, i, c) = Sub(a, c) <=> i = Slot(a)
<1>1. N \in Nat \ {0} /\ W % N = 0 /\ c \in Int
  BY RxAssumption, WAssumption DEF Counter
<1>2. Slot(a) \in Slots /\ Dist(N, Slot(a), c) = Sub(a, c)
  BY <1>1, DistOfCounter DEF Slot, Slots
<1>3. \A i \in Slots : Dist(N, i, c) = Dist(N, Slot(a), c) => i = Slot(a)
  BY <1>1, <1>2, DistInj DEF Slots
<1> QED BY <1>2, <1>3

\* The driver's formula for the slots that rxp and rxr handle.
LEMMA MaskedDist ==
  ASSUME NEW c \in Counter, NEW i \in Slots PROVE Sub(i, c) % N = Dist(N, i, c)
<1>1. N \in Nat \ {0} /\ W % N = 0 /\ i \in Counter
  BY RxAssumption, WAssumption DEF Counter, Slots
<1> QED BY <1>1, DistOfSub

\* What holds of the counters at any time.
LEMMA RingFacts ==
  ASSUME RInv
  PROVE  /\ N \in Nat \ {0} /\ N < W /\ W \in Nat /\ W % N = 0
         /\ Budget \in Nat \ {0} /\ count \in 0 .. Budget
         /\ prod \in Counter /\ cons \in Counter /\ clear \in Counter
         /\ bprod \in Counter /\ bcons \in Counter
         /\ Sub(prod, clear) \in 0 .. N /\ rx_free \in 0 .. N - Sub(prod, clear)
         /\ Sub(cons, clear) \in 0 .. W - 1
         /\ Pushing => /\ InUse
                       /\ Sub(bcons, clear) \in
                            Sub(cons, clear) .. Sub(prod, clear)
                       /\ Sub(bprod, clear) \in
                            Sub(bcons, clear) .. Sub(prod, clear)
         /\ InUse => /\ Sub(cons, clear) \in 0 .. Sub(prod, clear)
                     /\ Handled \in Sub(cons, clear) .. Sub(prod, clear)
         /\ \A i \in Slots : Dist(N, i, clear) \in 0 .. N - 1
<1>1. \A i \in Slots : Dist(N, i, clear) \in 0 .. N - 1
  <2>1. /\ N \in Nat \ {0} /\ clear \in Int
        /\ \A i \in Slots : i \in Int
    BY RxAssumption, WAssumption DEF Slots, RInv, RingInv, RingTypes, Counter
  <2> QED BY <2>1, DistType, Zenon
<1>2. Pushing => InUse
  BY DEF RInv, PlaceInv, HolderInv, LifeInv, Pushing, InUse
<1> QED BY <1>1, <1>2, SubType, RxAssumption, WAssumption
        DEF RInv, RingInv, RingTypes, OrderInv, Handled

\* The ring under every step: one step per way to move a counter.
LEMMA RingStep ==
  ASSUME RInv, ~MayReopen, [Next]_vars PROVE RingInv'
<1>f. /\ N \in Nat \ {0} /\ N < W /\ W \in Nat /\ W % N = 0
      /\ Budget \in Nat \ {0} /\ count \in 0 .. Budget
      /\ prod \in Counter /\ cons \in Counter /\ clear \in Counter
      /\ bprod \in Counter /\ bcons \in Counter
      /\ Sub(prod, clear) \in 0 .. N /\ rx_free \in 0 .. N - Sub(prod, clear)
      /\ Sub(cons, clear) \in 0 .. W - 1
      /\ Pushing => /\ InUse
                    /\ Sub(bcons, clear) \in
                         Sub(cons, clear) .. Sub(prod, clear)
                    /\ Sub(bprod, clear) \in
                         Sub(bcons, clear) .. Sub(prod, clear)
      /\ InUse => /\ Sub(cons, clear) \in 0 .. Sub(prod, clear)
                  /\ Handled \in Sub(cons, clear) .. Sub(prod, clear)
  BY RingFacts
<1>d. \A i \in Slots : Dist(N, i, clear) \in 0 .. N - 1
  BY RingFacts
<1>r. RingTypes /\ OrderInv /\ SlotInv /\ SkipInv
  BY DEF RInv, RingInv
<1>s. slot \in [Slots -> {"empty", "posted", "bad", "filled"}]
  BY DEF RInv, PlaceInv, PlacesOK
<1>h. /\ gpc \notin {"idle", "reclaim"} => InUse
      /\ gpc = "reclaim" => ~Pushing
      /\ dev = "down" => ~Pushing /\ clear = prod
      /\ dev = "down" /\ ~stopreq => clear = cons
      /\ bpc # "halted" => InUse
      /\ gpc = "enable" => ~Pushing
      /\ ipc["head"] # "idle" => gpc = "mask"
  BY DEF RInv, PlaceInv, PlacesOK, HolderInv, LifeInv, Fresh, InUse, Pushing
\* clear moves by one: everything is one step closer, and the slot it leaves is
\* empty.
<1>1. ASSUME clear # cons, gpc = "clean", clear' = Add(clear, 1),
             slot' = [slot EXCEPT ![Slot(clear)] = "empty"],
             rx_free' = rx_free + 1 \/ (AllocFails /\ rx_free' = rx_free),
             InUse', UNCHANGED <<prod, cons, bpc, bprod, bcons, count>>
      PROVE  RingInv'
  <2>1. Sub(clear, clear) = 0 /\ InUse
    BY <1>1, <1>f, <1>h, SubZero
  <2>2. /\ Slot(clear) \in Slots
        /\ \A i \in Slots : Dist(N, i, clear) = 0 <=> i = Slot(clear)
    BY <2>1, <1>f, SlotOf
  <2>3. \A i \in Slots : Dist(N, i, clear') =
          IF Dist(N, i, clear) = 0 THEN N - 1 ELSE Dist(N, i, clear) - 1
    BY <1>1, <1>f, DistStep DEF Slots
  <2>4. \A i \in Slots : slot'[i] = IF i = Slot(clear) THEN "empty" ELSE slot[i]
    BY <1>1, <1>s
  <2>5. /\ Sub(cons, clear') = Sub(cons, clear) - 1 /\ Sub(cons, clear) >= 1
        /\ clear' \in Counter
    BY <1>1, <1>f, SubStepBehind
  <2>6. Sub(prod, clear') = Sub(prod, clear) - 1 /\ Sub(prod, clear) >= 1
    <3>1. prod # clear
      BY <2>1, <2>5, <1>f, SubZero
    <3> QED BY <3>1, <1>1, <1>f, SubStepBehind
  <2>7. Pushing => /\ Sub(bcons, clear') = Sub(bcons, clear) - 1
                   /\ Sub(bprod, clear') = Sub(bprod, clear) - 1
    <3>1. Pushing => bcons # clear /\ bprod # clear
      BY <2>5, <1>f, SubZero
    <3> QED BY <3>1, <1>1, <1>f, SubStepBehind
  <2>8. Handled' = Handled - 1 /\ Handled >= 1 /\ (Pushing' <=> Pushing)
    BY <1>1, <2>1, <2>5, <2>7, <1>f DEF Handled, Pushing
  <2>9. RingTypes' /\ OrderInv'
    BY <1>1, <2>1, <2>5, <2>6, <2>7, <2>8, <1>f, <1>r DEF RingTypes, OrderInv
  <2>10. SlotInv'
    BY <1>1, <1>r, <2>1, <2>2, <2>3, <2>4, <2>6, <2>8, <1>f, <1>d
       DEF SlotInv, Slots
  <2>11. SkipInv'
    BY <1>1, <1>r, <2>2, <2>3, <2>4, <2>5, <2>7, <2>8, <1>f, <1>d
       DEF SkipInv, Slots
  <2> QED BY <2>9, <2>10, <2>11 DEF RingInv
<1>2. CASE sring_rxc
  BY <1>1, <1>2, <1>h DEF sring_rxc, InUse
<1>3. CASE RxcFails
  BY <1>1, <1>3, <1>h DEF RxcFails, InUse
\* k buffers are published into the first slots of the room.
<1>4. ASSUME gpc = "refill", NEW k \in 0 .. rx_free,
             NEW kind \in {"posted", "bad"}, sring_rxp(k, kind)
      PROVE  RingInv'
  <2>1. /\ prod' = Add(prod, k) /\ rx_free' = rx_free - k
        /\ InUse /\ InUse' /\ (Pushing' <=> Pushing)
        /\ UNCHANGED <<cons, clear, bpc, bprod, bcons, count>>
    BY <1>4, <1>h DEF sring_rxp, InUse, Pushing
  <2>2. prod' \in Counter /\ Sub(prod', clear) = Sub(prod, clear) + k
    <3>1. k \in 0 .. W - 1 - Sub(prod, clear)
      BY <1>4, <1>f
    <3> QED BY <2>1, <3>1, <1>f, SubMoveAhead
  <2>3. \A i \in Slots :
          Dist(N, i, prod) < k <=> /\ Sub(prod, clear) <= Dist(N, i, clear)
                                   /\ Dist(N, i, clear) < Sub(prod, clear) + k
    <3> SUFFICES ASSUME NEW i \in Slots
                 PROVE  Dist(N, i, prod) < k <=>
                          /\ Sub(prod, clear) <= Dist(N, i, clear)
                          /\ Dist(N, i, clear) < Sub(prod, clear) + k
      OBVIOUS
    <3>1. prod = Add(clear, Sub(prod, clear))
      <4>1. Sub(prod, clear) \in 0 .. W
        BY <1>f
      <4>2. Add(clear, Sub(prod, clear)) =
              IF clear + Sub(prod, clear) < W THEN clear + Sub(prod, clear)
              ELSE clear + Sub(prod, clear) - W
        BY <4>1, <1>f, AddDef, Zenon
      <4>3. Sub(prod, clear) =
              IF clear <= prod THEN prod - clear ELSE prod - clear + W
        BY <1>f, SubDef, Zenon
      <4> QED BY <4>2, <4>3, <1>f DEF Counter
    <3>2. N <= W /\ i \in Int /\ Sub(prod, clear) \in 0 .. N
      BY <1>f DEF Slots
    <3>3. Dist(N, i, prod) = IF Sub(prod, clear) <= Dist(N, i, clear)
                             THEN Dist(N, i, clear) - Sub(prod, clear)
                             ELSE Dist(N, i, clear) - Sub(prod, clear) + N
      BY <3>1, <3>2, <1>f, DistMove
    <3> QED BY <3>3, <1>f, <1>d
  <2>4. \A i \in Slots :
          slot'[i] = IF Dist(N, i, prod) < k THEN kind ELSE slot[i]
    BY <1>4, <1>f, MaskedDist DEF sring_rxp
  <2>5. Handled' = Handled
    BY <2>1 DEF Handled
  <2>6. RingTypes' /\ OrderInv'
    BY <2>1, <2>2, <1>f, <1>r DEF RingTypes, OrderInv
  <2>7. SlotInv'
    BY <2>1, <2>2, <2>3, <2>4, <2>5, <1>f, <1>d, <1>r DEF SlotInv, Slots
  <2>8. SkipInv'
    BY <2>1, <2>3, <2>4, <1>f, <1>d, <1>r DEF SkipInv, Slots
  <2> QED BY <2>6, <2>7, <2>8 DEF RingInv
<1>5. CASE bpfhv_rx_refill
  <2>1. RefillSize \in 0 .. rx_free
    BY <1>f, RxAssumption DEF RefillSize
  <2> QED BY <1>4, <1>5, <2>1 DEF bpfhv_rx_refill, Kinds
<1>6. ASSUME NEW why \in RefillFails, RefillCutShort(why) PROVE RingInv'
  <2>1. 0 .. RefillSize - 1 \subseteq 0 .. rx_free
    BY <1>f, RxAssumption DEF RefillSize
  <2> QED BY <1>4, <1>6, <2>1 DEF RefillCutShort
\* k buffers are reclaimed; cons may end up anywhere.
<1>7. CASE sring_rxr
  <2> DEFINE k == IF Sub(prod, clear) > MaxBufs
                  THEN MaxBufs ELSE Sub(prod, clear)
  <2>1. k \in 0 .. Sub(prod, clear)
    BY <1>f, RxAssumption
  <2>2. /\ gpc = "reclaim" /\ clear' = Add(clear, k) /\ rx_free' = rx_free + k
        /\ cons' \in {clear', cons}
        /\ slot' = [i \in Slots |->
                      IF Sub(i, clear) % N < k THEN "empty" ELSE slot[i]]
        /\ UNCHANGED <<prod, bpc, bprod, bcons, count, gpc, dev>>
    BY <1>7 DEF sring_rxr
  <2> HIDE DEF k
  <2>3. clear' \in Counter /\ Sub(prod, clear') = Sub(prod, clear) - k
    BY <2>1, <2>2, <1>f, SubMoveBehind
  <2>4. \A i \in Slots :
          slot'[i] = IF Dist(N, i, clear) < k THEN "empty" ELSE slot[i]
    BY <2>2, <1>f, MaskedDist
  <2>5. \A i \in Slots : Dist(N, i, clear') =
          IF k <= Dist(N, i, clear) THEN Dist(N, i, clear) - k
          ELSE Dist(N, i, clear) - k + N
    <3>1. N <= W /\ k \in 0 .. N /\ \A i \in Slots : i \in Int
      BY <1>f, <2>1 DEF Slots
    <3> QED BY <3>1, <2>2, <1>f, DistMove
  <2>6. ~InUse' /\ ~Pushing'
    BY <2>2, <1>h DEF InUse, Pushing
  <2>7. RingTypes' /\ OrderInv'
    BY <2>1, <2>2, <2>3, <2>6, <1>f, <1>r DEF RingTypes, OrderInv
  <2>8. SlotInv'
    <3>1. UNCHANGED prod
      BY <2>2
    <3> QED BY <2>1, <2>3, <2>4, <2>5, <2>6, <3>1, <1>f, <1>d, <1>r
            DEF SlotInv, Slots
  <2>9. SkipInv'
    BY <2>6 DEF SkipInv, Pushing
  <2> QED BY <2>7, <2>8, <2>9 DEF RingInv
\* The backend uses, or skips, the first buffer it has not reached.
<1>8. ASSUME Receiving, bcons' = Add(bcons, 1),
             UNCHANGED <<prod, cons, clear, rx_free, bpc, bprod, gpc, dev>>,
             \/ slot[Slot(bcons)] = "bad" /\ UNCHANGED <<slot, count>>
             \/ /\ slot' = [slot EXCEPT ![Slot(bcons)] = "filled"]
                /\ count' = count + 1
      PROVE  RingInv'
  <2>1. /\ Pushing /\ Pushing' /\ Handled = Sub(bcons, clear)
        /\ Handled' = Sub(bcons', clear) /\ InUse /\ InUse'
        /\ bcons # bprod /\ count < Budget /\ bpc = "loop"
    BY <1>8, <1>h DEF Pushing, Handled, Receiving, InUse
  <2>2. Sub(bcons, clear) < Sub(bprod, clear)
    BY <2>1, <1>f, SubInj, SubType
  <2>3. bcons' \in Counter /\ Sub(bcons', clear) = Sub(bcons, clear) + 1
    BY <1>8, <2>1, <2>2, <1>f, SubStepAhead
  <2>4. /\ Slot(bcons) \in Slots
        /\ \A i \in Slots :
             Dist(N, i, clear) = Sub(bcons, clear) <=> i = Slot(bcons)
    BY <2>1, <2>2, <1>f, SlotOf
  <2>5. slot'[Slot(bcons)] \in {"bad", "filled"}
        /\ \A i \in Slots : i # Slot(bcons) => slot'[i] = slot[i]
    BY <1>8, <1>s, <2>4
  <2>6. RingTypes' /\ OrderInv'
    BY <1>8, <2>1, <2>2, <2>3, <1>f, <1>r DEF RingTypes, OrderInv
  <2>7. SlotInv'
    BY <1>8, <2>1, <2>2, <2>3, <2>4, <2>5, <1>f, <1>d, <1>r DEF SlotInv, Slots
  <2>8. count' = 0 => count = 0 /\ slot'[Slot(bcons)] = "bad" /\ UNCHANGED slot
    BY <1>8, <1>f
  <2>9. SkipInv'
    BY <1>8, <2>1, <2>3, <2>4, <2>8, <1>f, <1>d, <1>r DEF SkipInv, Slots
  <2> QED BY <2>6, <2>7, <2>9 DEF RingInv
<1>9. CASE PushSkip
  BY <1>8, <1>9 DEF PushSkip, PushFrame
<1>10. CASE PushRecv
  BY <1>8, <1>10 DEF PushRecv, PushFrame
\* A push begins at cons, and ends there or publishes what it has done.
<1> USE DEF RingInv, RingTypes, OrderInv, SlotInv, SkipInv, Handled, Pushing,
        InUse, Slots
<1>11. CASE sring_rxq_push
  BY <1>11, <1>f, <1>d, <1>h, <1>r DEF sring_rxq_push
<1>12. CASE PushRecheck
  BY <1>12, <1>f, <1>d, <1>h, <1>r DEF PushRecheck, PushFrame
<1>13. CASE PushPublish
  <2>1. CASE count > 0
    BY <1>13, <2>1, <1>f, <1>d, <1>h, <1>r DEF PushPublish
  <2>2. CASE ~(count > 0)
    BY <1>13, <2>2, <1>f, <1>d, <1>h, <1>r, WAssumption
       DEF PushPublish, PushReturn, Counter
  <2> QED BY <2>1, <2>2
<1>14. CASE PushNotify
  BY <1>14, <1>f, <1>d, <1>h, <1>r, WAssumption
     DEF PushNotify, PushReturn, Counter
\* The first open finds the ring empty.
<1>15. CASE bpfhv_open
  BY <1>15, <1>f, <1>d, <1>h, <1>r, SubZero DEF bpfhv_open
\* Nothing else touches a slot or the counters that tell whose it is.
<1>16. ASSUME UNCHANGED <<prod, clear, cons, rx_free, slot, bprod, bcons,
                          count>>,
              Pushing' <=> Pushing, InUse' => InUse,
              bpc' # "notify" \/ UNCHANGED bpc
       PROVE  RingInv'
  BY <1>16, <1>r
<1>17. CASE UNCHANGED vars
  BY <1>17, <1>16 DEF vars
<1>18. CASE PacketArrives
  BY <1>18, <1>h, <1>16 DEF PacketArrives
<1>19. CASE bpfhv_rx_intr
  BY <1>19, <1>h, <1>16 DEF bpfhv_rx_intr, napi_schedule
<1>20. CASE bpfhv_rx_poll
  BY <1>20, <1>h, <1>16 DEF bpfhv_rx_poll
<1>21. CASE sring_rxp_kick
  BY <1>21, <1>h, <1>16 DEF sring_rxp_kick
<1>22. CASE RxCleanDone
  BY <1>22, <1>h, <1>16 DEF RxCleanDone
<1>23. CASE RxCleanReturn
  BY <1>23, <1>h, <1>16 DEF RxCleanReturn, Release, napi_complete
<1>24. CASE OpenEnable
  BY <1>24, <1>h, <1>16 DEF OpenEnable, Release
<1>25. CASE CloseDone
  BY <1>25, <1>h, <1>16 DEF CloseDone, Release
<1>26. CASE RxPollComplete
  BY <1>26, <1>h, <1>16 DEF RxPollComplete, napi_complete
<1>27. CASE RxPollUnmask
  BY <1>27, <1>h, <1>16 DEF RxPollUnmask
<1>28. CASE RxPollResched
  BY <1>28, <1>h, <1>16 DEF RxPollResched, napi_schedule
<1>29. CASE bpfhv_close
  BY <1>29, <1>h, <1>16 DEF bpfhv_close
<1>30. CASE CloseStopped
  BY <1>30, <1>h, <1>16 DEF CloseStopped
<1>31. CASE CloseNapiDisable
  BY <1>31, <1>h, <1>16 DEF CloseNapiDisable
<1>32. CASE process_packets_poll \/ TxKick
  BY <1>32, <1>h, <1>16 DEF process_packets_poll, TxKick, WakeUp
<1>33. CASE process_packets_spin \/ WorkerStarts
  BY <1>33, <1>h, <1>16 DEF process_packets_spin, WorkerStarts
<1>34. CASE PushMute
  BY <1>34, <1>h, <1>16 DEF PushMute, PushFrame
<1>35. CASE PushOutOfBufs
  BY <1>35, <1>h, <1>16 DEF PushOutOfBufs, PushFrame
<1>36. CASE PushUnmute
  BY <1>36, <1>h, <1>16 DEF PushUnmute, PushFrame
<1>37. CASE PushOutOfBudget
  BY <1>37, <1>h, <1>16 DEF PushOutOfBudget, PushFrame
<1>38. CASE PushRecvFails
  BY <1>38, <1>h, <1>16 DEF PushRecvFails, PushFrame, Receiving
<1>39. ASSUME NEW r \in Runs, RxiStep(r) PROVE RingInv'
  BY <1>39, <1>h, <1>16 DEF RxiStep, sring_rxi, sring_rxi_arm, sring_rxi_check,
     sring_rxi_mute, RxiReturn, RxiFrame, Runs
<1> QED BY <1>2, <1>3, <1>5, <1>6, <1>7, <1>9, <1>10, <1>11, <1>12, <1>13,
     <1>14, <1>15, <1>17, <1>18, <1>19, <1>20, <1>21, <1>22, <1>23, <1>24,
     <1>25, <1>26, <1>27, <1>28, <1>29, <1>30, <1>31, <1>32, <1>33, <1>34,
     <1>35, <1>36, <1>37, <1>38, <1>39 DEF Next, CleanStep, TailStep,
     PushStep, Runs

-----------------------------------------------------------------------------
\* The device before it is first opened.
LEMMA InitRInv == Init => RInv
<1> SUFFICES ASSUME Init PROVE RInv
  OBVIOUS
<1> USE DEF Init, sring_rx_ctx_init
<1>1. Sub(0, 0) = 0 /\ 0 \in Counter
  BY SubZero, WAssumption DEF Counter
<1>2. PlacesOK /\ HolderInv /\ LifeInv
  BY DEF PlacesOK, HolderInv, LifeInv, Fresh, Runs
<1>3. RingTypes /\ OrderInv /\ SkipInv
  BY <1>1, RxAssumption DEF RingTypes, OrderInv, SkipInv, Pushing, InUse
<1>4. SlotInv
  BY DEF SlotInv, InUse
<1> QED BY <1>2, <1>3, <1>4 DEF RInv, PlaceInv, RingInv

\* Every step keeps the places of the actors and the state of the ring, until
\* the interface is opened a second time.
LEMMA NextRInv == ASSUME ~MayReopen PROVE RInv /\ [Next]_vars => RInv'
BY LifeStep, RingStep DEF RInv

\* So they hold in every state of a device that is opened once.
LEMMA RInvHolds == ASSUME ~MayReopen PROVE Spec => []RInv
BY InitRInv, NextRInv, PTL DEF Spec

(***************************************************************************)
(* rxc completes only buffers that sring_rxq_push has used or refused, for *)
(* every ring size, batch size and failure, until the device is opened a   *)
(* second time: rxr calls clear_met_cons with its arguments swapped, and   *)
(* leaves cons where the next open does not expect it.                     *)
(***************************************************************************)
THEOREM CompletedWereUsedHolds ==
  ASSUME ~MayReopen PROVE Spec => []CompletedWereUsed
<1>1. RInv => CompletedWereUsed
  <2> SUFFICES ASSUME RInv, gpc = "clean", clear # cons
               PROVE  slot[Slot(clear)] \in {"filled", "bad"}
    BY DEF CompletedWereUsed
  <2>1. InUse
    BY DEF RInv, PlaceInv, PlacesOK, HolderInv, LifeInv, InUse
  <2>2. Sub(clear, clear) = 0 /\ Sub(cons, clear) >= 1 /\ Handled >= 1
    BY <2>1, RingFacts, SubZero
  <2>3. Slot(clear) \in Slots /\ Dist(N, Slot(clear), clear) = 0
    BY <2>2, RingFacts, SlotOf
  <2> QED BY <2>1, <2>2, <2>3, RingFacts DEF RInv, RingInv, SlotInv
<1> QED BY RInvHolds, <1>1, PTL

(***************************************************************************)
(* The counters of the receive ring never overtake one another, and        *)
(* rx_free_bufs is the room left, unless rx_pkt_alloc fails: the buffer it *)
(* loses is never counted again.                                           *)
(***************************************************************************)
THEOREM RingOrderHolds ==
  ASSUME ~MayReopen, ~AllocFails PROVE Spec => []RingOrder
<1>1. RInv => RingOrder
  BY DEF RInv, RingInv, OrderInv, RingOrder, InUse
<1> QED BY RInvHolds, <1>1, PTL

(***************************************************************************)
(* A device that is closed has all its receive buffers back, and none is   *)
(* left in the ring, whatever the size of the batches that rxr reclaims.   *)
(***************************************************************************)
THEOREM AllReclaimedHolds ==
  ASSUME ~MayReopen, ~AllocFails PROVE Spec => []AllReclaimed
<1>1. RInv => AllReclaimed
  <2> SUFFICES ASSUME RInv, dev = "down" PROVE AllReclaimed
    BY DEF AllReclaimed
  <2>1. Sub(prod, clear) = 0
    BY RingFacts, SubZero DEF RInv, PlaceInv, LifeInv
  <2>2. rx_free = N
    BY <2>1, RingFacts DEF RInv, RingInv, OrderInv
  <2>3. \A i \in Slots : slot[i] = "empty"
    BY <2>1, RingFacts DEF RInv, RingInv, SlotInv
  <2> QED BY <2>2, <2>3 DEF AllReclaimed
<1> QED BY RInvHolds, <1>1, PTL

-----------------------------------------------------------------------------
Quiet == \A i \in Slots : slot[i] # "posted"

\* The polling backend has stopped listening to the interface only with kicks
\* enabled and every buffer announced.
KickInv ==
  ~busy_wait =>
    /\ bpc \in {"start", "mute", "loop", "unmute", "recheck"} => can_receive
    /\ bpc = "recheck" => kick_enabled
    /\ bpc \in {"publish", "notify", "top"} =>
         \/ can_receive \/ kickfd
         \/ kick_enabled /\ (Quiet \/ gpc = "kick")

\* An open device whose polls are all over has its interrupt pending, or
\* enabled and nothing to complete that the backend has not yet to announce.
\* The end of a poll finds that out for itself, unless another poll follows.
ArmInv ==
  /\ seen \in [Runs -> Counter]
  /\ dev = "up" =>
       /\ gpc = "idle" /\ ppc = "idle" /\ napi = "idle"
            => irq \/ (intr_enabled /\ (clear = cons \/ bpc = "notify"))
       /\ ppc = "rearm" /\ napi = "idle" =>
            /\ min_completed = 1
            /\ ipc["tail"] \in {"arm", "check"} => seen["tail"] = clear
            /\ ipc["tail"] = "check" => intr_enabled

\* A push that has caught up with prod has left no buffer behind.
LEMMA CaughtUp == ASSUME RInv, Pushing, bcons = prod PROVE Quiet
<1>1. InUse /\ Handled = Sub(prod, clear)
  BY RingFacts DEF Handled
<1> QED BY <1>1, RingFacts DEF RInv, RingInv, SlotInv, Quiet

\* How the doorbell protocol goes on.
LEMMA KickStep == ASSUME RInv, KickInv, [Next]_vars PROVE KickInv'
<1>0. /\ slot \in [Slots -> {"empty", "posted", "bad", "filled"}]
      /\ dev = "down" => gpc # "kick"
      /\ ipc["head"] # "idle" => gpc # "kick"
  BY DEF RInv, PlaceInv, PlacesOK, HolderInv
<1> USE DEF KickInv, Quiet
<1>1. CASE PacketArrives
  BY <1>1 DEF PacketArrives, Slots
<1>2. CASE bpfhv_rx_intr
  BY <1>2 DEF bpfhv_rx_intr, napi_schedule, Slots
<1>3. CASE bpfhv_rx_poll
  BY <1>3 DEF bpfhv_rx_poll, Slots
<1>4. CASE bpfhv_rx_refill
  BY <1>4 DEF bpfhv_rx_refill, sring_rxp, RefillSize, Kinds, Slots
<1>5. CASE sring_rxp_kick
  BY <1>5 DEF sring_rxp_kick, Slots
<1>6. CASE sring_rxc
  <2>1. \A i \in Slots : slot'[i] = slot[i] \/ slot'[i] = "empty"
    BY <1>6, <1>0 DEF sring_rxc
  <2> QED BY <1>6, <2>1 DEF sring_rxc, Slots
<1>7. CASE RxcFails
  <2>1. \A i \in Slots : slot'[i] = slot[i] \/ slot'[i] = "empty"
    BY <1>7, <1>0 DEF RxcFails
  <2> QED BY <1>7, <2>1 DEF RxcFails, Slots
<1>8. CASE RxCleanDone
  BY <1>8 DEF RxCleanDone, Slots
<1>9. CASE RxCleanReturn
  BY <1>9 DEF RxCleanReturn, Release, napi_complete, Slots
<1>10. CASE OpenEnable
  BY <1>10 DEF OpenEnable, Release, Slots
<1>11. CASE sring_rxr
  <2>1. \A i \in Slots : slot'[i] = slot[i] \/ slot'[i] = "empty"
    BY <1>11, <1>0 DEF sring_rxr
  <2> QED BY <1>11, <2>1 DEF sring_rxr, Slots
<1>12. CASE CloseDone
  BY <1>12 DEF CloseDone, Release, Slots
<1>13. CASE RxPollComplete
  BY <1>13 DEF RxPollComplete, napi_complete, Slots
<1>14. CASE RxPollUnmask
  BY <1>14 DEF RxPollUnmask, Slots
<1>15. CASE RxPollResched
  BY <1>15 DEF RxPollResched, napi_schedule, Slots
<1>16. CASE bpfhv_open
  BY <1>16, <1>0 DEF bpfhv_open, Slots
<1>17. CASE bpfhv_close
  BY <1>17 DEF bpfhv_close, Slots
<1>18. CASE CloseStopped
  BY <1>18 DEF CloseStopped, Slots
<1>19. CASE CloseNapiDisable
  BY <1>19 DEF CloseNapiDisable, Slots
<1>20. CASE process_packets_poll \/ TxKick
  BY <1>20 DEF process_packets_poll, TxKick, WakeUp, Slots
<1>21. CASE process_packets_spin \/ WorkerStarts
  BY <1>21 DEF process_packets_spin, WorkerStarts, Slots
<1>22. CASE sring_rxq_push
  BY <1>22 DEF sring_rxq_push, Slots
<1>23. CASE PushMute
  BY <1>23 DEF PushMute, PushFrame, Slots
<1>24. CASE PushOutOfBufs
  BY <1>24 DEF PushOutOfBufs, PushFrame, Slots
<1>25. CASE PushUnmute
  BY <1>25 DEF PushUnmute, PushFrame, Slots
<1>26. CASE PushRecheck
  <2>1. prod = bcons => Quiet
    BY <1>26, CaughtUp DEF PushRecheck, Pushing
  <2> QED BY <1>26, <2>1 DEF PushRecheck, PushFrame, Slots
<1>27. CASE PushOutOfBudget
  BY <1>27 DEF PushOutOfBudget, PushFrame, Slots
<1>28. CASE PushSkip
  BY <1>28 DEF PushSkip, PushFrame, Receiving, Slots
<1>29. CASE PushRecv
  BY <1>29 DEF PushRecv, PushFrame, Receiving, Slots
<1>30. CASE PushRecvFails
  BY <1>30 DEF PushRecvFails, PushFrame, Receiving, Slots
<1>31. CASE PushPublish
  BY <1>31 DEF PushPublish, PushReturn, Slots
<1>32. CASE PushNotify
  BY <1>32 DEF PushNotify, PushReturn, Slots
<1>33. CASE UNCHANGED vars
  BY <1>33 DEF vars, Slots
<1>34. ASSUME NEW why \in RefillFails, RefillCutShort(why) PROVE KickInv'
  BY <1>34 DEF RefillCutShort, sring_rxp, RefillSize, Slots
<1>35. ASSUME NEW r \in Runs, sring_rxi(r) PROVE KickInv'
  BY <1>35 DEF sring_rxi, RxiFrame, Runs, Slots
<1>36. ASSUME NEW r \in Runs, sring_rxi_arm(r) PROVE KickInv'
  BY <1>36 DEF sring_rxi_arm, RxiFrame, Runs, Slots
<1>37. ASSUME NEW r \in Runs, sring_rxi_check(r) PROVE KickInv'
  BY <1>37, <1>0 DEF sring_rxi_check, RxiFrame, Runs, RxiReturn, Slots
<1>38. ASSUME NEW r \in Runs, sring_rxi_mute(r) PROVE KickInv'
  BY <1>38, <1>0 DEF sring_rxi_mute, RxiFrame, Runs, RxiReturn, Slots
<1> QED BY <1>1, <1>2, <1>3, <1>4, <1>5, <1>6, <1>7, <1>8, <1>9, <1>10, <1>11,
     <1>12, <1>13, <1>14, <1>15, <1>16, <1>17, <1>18, <1>19, <1>20, <1>21,
     <1>22, <1>23, <1>24, <1>25, <1>26, <1>27, <1>28, <1>29, <1>30, <1>31,
     <1>32, <1>33, <1>34, <1>35, <1>36, <1>37, <1>38 DEF Next, CleanStep,
     TailStep, PushStep, RxiStep, Runs

(***************************************************************************)
(* The polling backend never waits for receive buffers that are there, for *)
(* every size of ring and batch, and whatever cuts a refill short.         *)
(***************************************************************************)
THEOREM NoLostKickHolds == ASSUME ~MayReopen PROVE Spec => []NoLostKick
<1>1. Init => KickInv
  BY DEF Init, KickInv
<1>2. RInv /\ KickInv /\ [Next]_vars => KickInv'
  BY KickStep
<1>3. KickInv => NoLostKick
  BY DEF KickInv, Quiet, NoLostKick
<1> QED BY RInvHolds, <1>1, <1>2, <1>3, PTL DEF Spec

\* How the interrupt protocol goes on.
LEMMA ArmStep == ASSUME RInv, ArmInv, [Next]_vars PROVE ArmInv'
<1>0. /\ PlacesOK /\ HolderInv /\ LifeInv
      /\ clear \in Counter /\ cons \in Counter /\ 0 \in Counter
      /\ Sub(cons, clear) \in Nat /\ (Sub(cons, clear) = 0 => cons = clear)
  BY RingFacts, SubZero, WAssumption DEF RInv, PlaceInv, Counter
<1> USE DEF ArmInv, PlacesOK, HolderInv, LifeInv, Fresh, Runs
<1>1. CASE PacketArrives
  BY <1>1, <1>0 DEF PacketArrives
<1>2. CASE bpfhv_rx_intr
  BY <1>2, <1>0 DEF bpfhv_rx_intr, napi_schedule
<1>3. CASE bpfhv_rx_poll
  BY <1>3, <1>0 DEF bpfhv_rx_poll
<1>4. CASE bpfhv_rx_refill
  BY <1>4, <1>0 DEF bpfhv_rx_refill, sring_rxp, RefillSize, Kinds
<1>5. CASE sring_rxp_kick
  BY <1>5, <1>0 DEF sring_rxp_kick
<1>6. CASE sring_rxc
  BY <1>6, <1>0 DEF sring_rxc, CleanBudget
<1>7. CASE RxcFails
  BY <1>7, <1>0 DEF RxcFails, CleanBudget
<1>8. CASE RxCleanDone
  BY <1>8, <1>0 DEF RxCleanDone
<1>9. CASE RxCleanReturn
  BY <1>9, <1>0 DEF RxCleanReturn, Release, napi_complete
<1>10. CASE OpenEnable
  BY <1>10, <1>0 DEF OpenEnable, Release
<1>11. CASE sring_rxr
  BY <1>11, <1>0 DEF sring_rxr
<1>12. CASE CloseDone
  BY <1>12, <1>0 DEF CloseDone, Release
<1>13. CASE RxPollComplete
  BY <1>13, <1>0 DEF RxPollComplete, napi_complete
<1>14. CASE RxPollUnmask
  BY <1>14, <1>0 DEF RxPollUnmask
<1>15. CASE RxPollResched
  BY <1>15, <1>0 DEF RxPollResched, napi_schedule
<1>16. CASE bpfhv_open
  BY <1>16, <1>0 DEF bpfhv_open
<1>17. CASE bpfhv_close
  BY <1>17, <1>0 DEF bpfhv_close
<1>18. CASE CloseStopped
  BY <1>18, <1>0 DEF CloseStopped
<1>19. CASE CloseNapiDisable
  BY <1>19, <1>0 DEF CloseNapiDisable
<1>20. CASE process_packets_poll \/ TxKick
  BY <1>20, <1>0 DEF process_packets_poll, TxKick, WakeUp
<1>21. CASE process_packets_spin \/ WorkerStarts
  BY <1>21, <1>0 DEF process_packets_spin, WorkerStarts
<1>22. CASE sring_rxq_push
  BY <1>22, <1>0 DEF sring_rxq_push
<1>23. CASE PushMute
  BY <1>23, <1>0 DEF PushMute, PushFrame
<1>24. CASE PushOutOfBufs
  BY <1>24, <1>0 DEF PushOutOfBufs, PushFrame
<1>25. CASE PushUnmute
  BY <1>25, <1>0 DEF PushUnmute, PushFrame
<1>26. CASE PushRecheck
  BY <1>26, <1>0 DEF PushRecheck, PushFrame
<1>27. CASE PushOutOfBudget
  BY <1>27, <1>0 DEF PushOutOfBudget, PushFrame
<1>28. CASE PushSkip
  BY <1>28, <1>0 DEF PushSkip, PushFrame, Receiving
<1>29. CASE PushRecv
  BY <1>29, <1>0 DEF PushRecv, PushFrame, Receiving
<1>30. CASE PushRecvFails
  BY <1>30, <1>0 DEF PushRecvFails, PushFrame, Receiving
<1>31. CASE PushPublish
  BY <1>31, <1>0 DEF PushPublish, PushReturn
<1>32. CASE PushNotify
  BY <1>32, <1>0 DEF PushNotify, PushReturn
<1>33. CASE UNCHANGED vars
  BY <1>33, <1>0 DEF vars
<1>34. ASSUME NEW why \in RefillFails, RefillCutShort(why) PROVE ArmInv'
  BY <1>34, <1>0 DEF RefillCutShort, sring_rxp, RefillSize
<1>35. ASSUME NEW r \in Runs, sring_rxi(r) PROVE ArmInv'
  BY <1>35, <1>0 DEF sring_rxi, RxiFrame, Runs
<1>36. ASSUME NEW r \in Runs, sring_rxi_arm(r) PROVE ArmInv'
  BY <1>36, <1>0 DEF sring_rxi_arm, RxiFrame, Runs
<1>37. ASSUME NEW r \in Runs, sring_rxi_check(r) PROVE ArmInv'
  BY <1>37, <1>0 DEF sring_rxi_check, RxiFrame, Runs, RxiReturn
<1>38. ASSUME NEW r \in Runs, sring_rxi_mute(r) PROVE ArmInv'
  BY <1>38, <1>0 DEF sring_rxi_mute, RxiFrame, Runs, RxiReturn
<1> QED BY <1>1, <1>2, <1>3, <1>4, <1>5, <1>6, <1>7, <1>8, <1>9, <1>10, <1>11,
     <1>12, <1>13, <1>14, <1>15, <1>16, <1>17, <1>18, <1>19, <1>20, <1>21,
     <1>22, <1>23, <1>24, <1>25, <1>26, <1>27, <1>28, <1>29, <1>30, <1>31,
     <1>32, <1>33, <1>34, <1>35, <1>36, <1>37, <1>38 DEF Next, CleanStep,
     TailStep, PushStep, RxiStep, Runs

\* In every state a receive queue that is idle has its interrupt armed or will
\* be polled.
LEMMA ArmInvHolds == ASSUME ~MayReopen PROVE Spec => []ArmInv
<1>1. Init => ArmInv
  BY WAssumption DEF Init, ArmInv, Counter
<1>2. RInv /\ ArmInv /\ [Next]_vars => ArmInv'
  BY ArmStep
<1> QED BY RInvHolds, <1>1, <1>2, PTL DEF Spec

(***************************************************************************)
(* A received packet is always on its way up, however the end of one poll  *)
(* and the next poll overlap on the shared min_completed_bufs and          *)
(* intr_enabled.                                                           *)
(***************************************************************************)
THEOREM NoLostPacketHolds == ASSUME ~MayReopen PROVE Spec => []NoLostPacket
<1>1. RInv /\ ArmInv => NoLostPacket
  BY DEF RInv, PlaceInv, PlacesOK, LifeInv, ArmInv, NoLostPacket
<1> QED BY RInvHolds, ArmInvHolds, <1>1, PTL

(***************************************************************************)
(* An idle driver has its interrupts on, or one pending.                   *)
(***************************************************************************)
THEOREM IdleIsArmedHolds == ASSUME ~MayReopen PROVE Spec => []IdleIsArmed
<1>1. ArmInv => IdleIsArmed
  BY DEF ArmInv, IdleIsArmed
<1> QED BY ArmInvHolds, <1>1, PTL

=============================================================================
