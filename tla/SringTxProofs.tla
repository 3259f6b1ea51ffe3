---------------------------- MODULE SringTxProofs ----------------------------
(***************************************************************************)
(* The transmit path of sring, for every ring size N, every counter width  *)
(* W and every choice of the environment: type correctness; the order of   *)
(* the ring's counters; what each slot holds, and with it that a closed    *)
(* device has taken every buffer back; and that the backend never sleeps   *)
(* on packets nobody will tell it about.                                   *)
(***************************************************************************)
EXTENDS SringTx, WrapArithProofs

(***************************************************************************)
(* The order of the counters is kept by txr only because the backend is    *)
(* halted when the driver reclaims, so that much of the life cycle is part *)
(* of the inductive invariant.                                             *)
(***************************************************************************)
ReclaimHalted ==
  /\ gpc = "reclaim" => caller = "close"
  /\ caller = "close" => dev = "closing" /\ bpc = "halted"

IInv == TypeOK /\ RingOrder /\ ReclaimHalted

\* The device as it is created satisfies the invariant.
LEMMA InitIInv == Init => IInv
<1> SUFFICES ASSUME Init PROVE IInv
  OBVIOUS
<1>1. 0 \in Counter
  BY WAssumption DEF Counter
<1>2. Sub(0, 0) = 0
  BY <1>1, SubZero
<1>3. TypeOK
  <2>1. CountersOK
    BY <1>1, TxAssumption DEF Init, sring_tx_ctx_init, CountersOK
  <2>2. PlacesOK
    BY DEF Init, sring_tx_ctx_init, PlacesOK
  <2>3. FlagsOK
    BY TxAssumption, Zenon DEF Init, sring_tx_ctx_init, FlagsOK, Flag
  <2> QED BY <2>1, <2>2, <2>3 DEF TypeOK
<1>4. RingOrder
  BY <1>2, TxAssumption DEF Init, sring_tx_ctx_init, RingOrder, Draining
<1>5. ReclaimHalted
  BY DEF Init, ReclaimHalted
<1> QED BY <1>3, <1>4, <1>5 DEF IInv


USE DEF options, ringVars, devVars, lockVars, tailVars, beVars, guestVars

\* The program counters and modes stay in their sets: one step per actor.
LEMMA PlacesStep == PlacesOK /\ [Next]_vars => PlacesOK'
<1> SUFFICES ASSUME PlacesOK, [Next]_vars PROVE PlacesOK'
  OBVIOUS
<1> USE DEF PlacesOK
<1>1. ASSUME NEW b \in BOOLEAN, bpfhv_start_xmit(b) PROVE PlacesOK'
  BY <1>1 DEF bpfhv_start_xmit
<1>2. CASE StartXmitStep
  BY <1>2 DEF StartXmitStep, StartXmitGiveUp, sring_txp, sring_txp_kick,
     StartXmitStop, StartXmitBell, Release, Slots
<1>3. CASE sring_txc \/ TxCleanDone
  BY <1>3 DEF sring_txc, TxCleanDone, sring_tx_get_one
<1>4. CASE sring_txi \/ sring_txi_arm \/ sring_txi_check
  BY <1>4 DEF sring_txi, sring_txi_arm, sring_txi_check, AfterTxi
<1>5. CASE TxPollUnlock \/ TxPollTail \/ bpfhv_tx_poll \/ bpfhv_tx_intr
  BY <1>5 DEF TxPollUnlock, TxPollTail, TxPollComplete, TxPollResched,
     TxPollWake, bpfhv_tx_poll, bpfhv_tx_intr, Release, napi_schedule,
     napi_complete
<1>6. CASE \/ sring_txr \/ CloseDone \/ bpfhv_close \/ CloseNapiDisable
          \/ bpfhv_open
  BY <1>6 DEF sring_txr, CloseDone, bpfhv_close, CloseNapiDisable, bpfhv_open,
     sring_tx_get_one, Release
<1>7. CASE DrainStep \/ PollOut \/ PollIn
  BY <1>7 DEF DrainStep, WorkerStarts, PollOut, PollIn,
     process_packets_poll, WakeUp,
     process_packets_spin, sring_txq_drain, DrainMute, DrainMeetsProd,
     DrainUnmute, DrainRecheck, DrainOutOfBudget, DrainSkip, DrainSend,
     DrainPublish, DrainNotify, DrainReturn
<1>8. ASSUME NEW e \in SendFails, DrainSendFails(e) PROVE PlacesOK'
  BY <1>8 DEF DrainSendFails
<1>9. CASE UNCHANGED vars
  BY <1>9 DEF vars
<1> QED BY <1>1, <1>2, <1>3, <1>4, <1>5, <1>6, <1>7, <1>8, <1>9
     DEF Next, LockedStep


(***************************************************************************)
(* The flags stay Boolean.  Flag is kept folded: the provers then treat a  *)
(* flag as any other value instead of splitting on all of them.            *)
(***************************************************************************)
LEMMA FlagsStep == FlagsOK /\ [Next]_vars => FlagsOK'
<1> SUFFICES ASSUME FlagsOK, [Next]_vars PROVE FlagsOK'
  OBVIOUS
<1> USE DEF FlagsOK
<1>a. TRUE \in Flag /\ FALSE \in Flag
  BY DEF Flag
<1>b. \A p, q : (p \/ q) \in Flag /\ (p /\ q) \in Flag /\ (~p) \in Flag
  BY Zenon DEF Flag
<1>1. ASSUME NEW b \in BOOLEAN, bpfhv_start_xmit(b) PROVE FlagsOK'
  <2>1. b \in Flag
    BY DEF Flag
  <2> QED BY <1>1, <2>1 DEF bpfhv_start_xmit
<1>2. CASE StartXmitStep
  BY <1>2, <1>a, <1>b DEF StartXmitStep, StartXmitGiveUp, sring_txp,
     sring_txp_kick, StartXmitStop, StartXmitBell, Release
<1>3. CASE sring_txc \/ TxCleanDone
  BY <1>3, <1>b DEF sring_txc, TxCleanDone
<1>4. CASE sring_txi \/ sring_txi_arm \/ sring_txi_check
  <2>1. CASE sring_txi
    BY <2>1, <1>b DEF sring_txi
  <2>2. CASE sring_txi_arm
    BY <2>2, <1>a DEF sring_txi_arm
  <2>3. CASE sring_txi_check
    BY <2>3, <1>b DEF sring_txi_check
  <2> QED BY <1>4, <2>1, <2>2, <2>3
<1>5. CASE TxPollUnlock
  <2>1. more' = enough /\ enough' = FALSE
    BY <1>5 DEF TxPollUnlock, Release
  <2>2. wakeup' = (tx_free >= Thresh)
    BY <1>5 DEF TxPollUnlock
  <2>3. more' \in Flag /\ enough' \in Flag
    BY <2>1, <1>a
  <2>4. wakeup' \in Flag
    BY <2>2 DEF Flag
  <2> QED BY <1>5, <2>3, <2>4 DEF TxPollUnlock, Release
<1>6. CASE TxPollTail \/ bpfhv_tx_poll \/ bpfhv_tx_intr
  BY <1>6, <1>a, <1>b DEF TxPollTail, TxPollComplete, TxPollResched,
     TxPollWake, bpfhv_tx_poll, bpfhv_tx_intr, napi_schedule, napi_complete
<1>7. CASE \/ sring_txr \/ CloseDone \/ bpfhv_close \/ CloseNapiDisable
          \/ bpfhv_open
  BY <1>7, <1>a, <1>b DEF sring_txr, CloseDone, bpfhv_close,
     CloseNapiDisable, bpfhv_open, Release
<1>8. CASE DrainStep \/ PollOut \/ PollIn
  BY <1>8, <1>a, <1>b DEF DrainStep, WorkerStarts, PollOut, PollIn,
     process_packets_poll,
     WakeUp, process_packets_spin, sring_txq_drain, DrainMute,
     DrainMeetsProd, DrainUnmute, DrainRecheck, DrainOutOfBudget, DrainSkip,
     DrainSend, DrainPublish, DrainNotify, DrainReturn
<1>9. ASSUME NEW e \in SendFails, DrainSendFails(e) PROVE FlagsOK'
  BY <1>9, <1>b DEF DrainSendFails
<1>10. CASE UNCHANGED vars
  BY <1>10 DEF vars
<1> QED BY <1>1, <1>2, <1>3, <1>4, <1>5, <1>6, <1>7, <1>8, <1>9, <1>10
     DEF Next, LockedStep

\* The driver reclaims only while the backend is halted.
LEMMA ReclaimStep == PlacesOK /\ ReclaimHalted /\ [Next]_vars => ReclaimHalted'
<1> SUFFICES ASSUME PlacesOK, ReclaimHalted, [Next]_vars PROVE ReclaimHalted'
  OBVIOUS
<1> USE DEF PlacesOK, ReclaimHalted
<1>1. ASSUME NEW b \in BOOLEAN, bpfhv_start_xmit(b) PROVE ReclaimHalted'
  BY <1>1 DEF bpfhv_start_xmit
<1>2. CASE StartXmitStep
  BY <1>2 DEF StartXmitStep, StartXmitGiveUp, sring_txp, sring_txp_kick,
     StartXmitStop, StartXmitBell, Release
<1>3. CASE sring_txc \/ TxCleanDone
  BY <1>3 DEF sring_txc, TxCleanDone
<1>4. CASE sring_txi \/ sring_txi_arm \/ sring_txi_check
  BY <1>4 DEF sring_txi, sring_txi_arm, sring_txi_check, AfterTxi
<1>5. CASE TxPollUnlock \/ TxPollTail \/ bpfhv_tx_poll \/ bpfhv_tx_intr
  BY <1>5 DEF TxPollUnlock, TxPollTail, TxPollComplete, TxPollResched,
     TxPollWake, bpfhv_tx_poll, bpfhv_tx_intr, Release
<1>6. CASE \/ sring_txr \/ CloseDone \/ bpfhv_close \/ CloseNapiDisable
          \/ bpfhv_open
  BY <1>6 DEF sring_txr, CloseDone, bpfhv_close, CloseNapiDisable, bpfhv_open,
     Release
<1>7. CASE DrainStep \/ PollOut \/ PollIn
  BY <1>7 DEF DrainStep, WorkerStarts, PollOut, PollIn,
     process_packets_poll, WakeUp,
     process_packets_spin, sring_txq_drain, DrainMute, DrainMeetsProd,
     DrainUnmute, DrainRecheck, DrainOutOfBudget, DrainSkip, DrainSend,
     DrainPublish, DrainNotify
<1>8. ASSUME NEW e \in SendFails, DrainSendFails(e) PROVE ReclaimHalted'
  BY <1>8 DEF DrainSendFails
<1>9. CASE UNCHANGED vars
  BY <1>9 DEF vars
<1> QED BY <1>1, <1>2, <1>3, <1>4, <1>5, <1>6, <1>7, <1>8, <1>9
     DEF Next, LockedStep

-----------------------------------------------------------------------------
(***************************************************************************)
(* The counters and their order.  Steps that move no counter are settled   *)
(* by NothingMoves; the others move exactly one counter by one, or copy    *)
(* one counter into another.                                               *)
(***************************************************************************)
Ordered == CountersOK /\ RingOrder

\* A step that leaves every counter alone keeps their order.
LEMMA NothingMoves ==
  ASSUME Ordered, Draining' => Draining,
         UNCHANGED <<prod, cons, clear, tx_free>>,
         intr_at' \in Counter, old_cons' \in Counter,
         count' \in 0 .. Budget, bprod' \in Counter, bcons' \in Counter,
         Draining' => UNCHANGED <<bprod, bcons>>
  PROVE  Ordered'
BY DEF Ordered, CountersOK, RingOrder

\* How the guest's steps move the counters.
LEMMA GuestOrderStep ==
  ASSUME IInv,
         \/ \E b \in BOOLEAN : bpfhv_start_xmit(b)
         \/ LockedStep \/ TxPollTail \/ bpfhv_tx_poll \/ bpfhv_tx_intr
         \/ bpfhv_close \/ CloseNapiDisable \/ bpfhv_open
  PROVE  Ordered'
<1> USE DEF IInv, TypeOK
<1>0. Ordered
  BY DEF Ordered
<1>t. /\ Sub(prod, clear) \in 0 .. N /\ Sub(cons, clear) \in 0 .. N
      /\ N \in Nat \ {0} /\ N < W /\ W \in Nat
  BY WAssumption, TxAssumption, SubType DEF CountersOK, RingOrder
\* One completed buffer is taken back: clear moves, and everybody ahead of it
\* is one step closer.
<1>1. CASE sring_txc
  <2>1. /\ clear # cons /\ clear' = Add(clear, 1) /\ tx_free' = tx_free + 1
        /\ UNCHANGED <<prod, cons, intr_at, bpc, bprod, bcons, old_cons, count>>
    BY <1>1 DEF sring_txc, sring_tx_get_one
  <2>2. Sub(cons, clear) # 0 /\ Sub(prod, clear) # 0 /\ prod # clear
    BY <2>1, <1>t, SubZero, SubType DEF CountersOK, RingOrder
  <2>3. /\ clear' \in Counter
        /\ Sub(prod, clear') = Sub(prod, clear) - 1
        /\ Sub(cons, clear') = Sub(cons, clear) - 1
    BY <2>1, <2>2, SubStepBehind DEF CountersOK
  <2>4. CountersOK'
    BY <2>1, <2>2, <2>3, <1>t DEF CountersOK, RingOrder
  <2>5. ASSUME Draining
        PROVE  /\ Sub(bcons, clear') = Sub(bcons, clear) - 1
               /\ Sub(bprod, clear') = Sub(bprod, clear) - 1
    <3>1. bcons # clear /\ bprod # clear
      BY <2>2, <2>5, SubZero, SubType DEF CountersOK, RingOrder
    <3> QED BY <3>1, <2>1, SubStepBehind DEF CountersOK
  <2>6. RingOrder'
    BY <2>1, <2>3, <2>5, <1>t, SubType DEF RingOrder, Draining, CountersOK
  <2> QED BY <2>4, <2>6 DEF Ordered
\* A packet is published: prod moves into the room tx_free vouches for.
<1>2. CASE sring_txp
  <2>1. /\ tx_free >= 1 /\ prod' = Add(prod, 1) /\ tx_free' = tx_free - 1
        /\ UNCHANGED <<cons, clear, intr_at, bpc, bprod, bcons, old_cons, count>>
    BY <1>2 DEF sring_txp
  <2>2. Sub(prod, clear) < W - 1
    BY <2>1, <1>t DEF RingOrder, CountersOK
  <2>3. prod' \in Counter /\ Sub(prod', clear) = Sub(prod, clear) + 1
    BY <2>1, <2>2, SubStepAhead DEF CountersOK
  <2>4. CountersOK'
    BY <2>1, <2>3, <1>t DEF CountersOK
  <2>5. RingOrder'
    BY <2>1, <2>3, <1>t, SubType DEF RingOrder, Draining, CountersOK
  <2> QED BY <2>4, <2>5 DEF Ordered
\* A buffer is reclaimed: clear pushes cons ahead of it, and no backend is
\* there to disagree.
<1>3. CASE sring_txr
  <2>1. /\ clear # prod /\ clear' = Add(clear, 1) /\ tx_free' = tx_free + 1
        /\ cons' = IF clear = cons THEN Add(clear, 1) ELSE cons
        /\ UNCHANGED <<prod, intr_at, bpc, bprod, bcons, old_cons, count>>
    BY <1>3 DEF sring_txr, sring_tx_get_one
  <2>2. ~Draining'
    BY <1>3, <2>1 DEF sring_txr, ReclaimHalted, Draining
  <2>3. clear' \in Counter /\ Sub(prod, clear') = Sub(prod, clear) - 1
        /\ Sub(prod, clear) >= 1
    BY <2>1, SubStepBehind DEF CountersOK
  <2>4. cons' \in Counter /\ Sub(cons', clear') <= Sub(prod, clear')
    <3>1. CASE clear = cons
      BY <3>1, <2>1, <2>3, <1>t, SubZero DEF CountersOK
    <3>2. CASE clear # cons
      <4>1. Sub(cons, clear') = Sub(cons, clear) - 1
        BY <3>2, <2>1, SubStepBehind DEF CountersOK
      <4> QED BY <4>1, <3>2, <2>1, <2>3, <1>t DEF CountersOK, RingOrder
    <3> QED BY <3>1, <3>2
  <2>5. CountersOK'
    BY <2>1, <2>3, <2>4, <1>t DEF CountersOK, RingOrder
  <2>6. RingOrder'
    BY <2>1, <2>2, <2>3, <2>4, <1>t DEF RingOrder, CountersOK
  <2> QED BY <2>5, <2>6 DEF Ordered
<1>4. CASE sring_txi_arm
  <2>1. clear \in Int /\ HALF_PENDING_BUFS - 1 \in Int
    BY <1>t, WAssumption DEF HALF_PENDING_BUFS, CountersOK, Counter
  <2>2. intr_at' \in Counter
    BY <1>4, <2>1, AddType DEF sring_txi_arm
  <2> QED BY <1>4, <2>2, <1>0, NothingMoves DEF sring_txi_arm, CountersOK, Draining
<1>5. CASE bpfhv_open
  BY <1>5, <1>0, NothingMoves DEF bpfhv_open, CountersOK, Draining
<1>6. CASE \/ \E b \in BOOLEAN : bpfhv_start_xmit(b)
           \/ StartXmitGiveUp \/ sring_txp_kick \/ StartXmitStop
           \/ StartXmitBell \/ TxCleanDone \/ sring_txi \/ sring_txi_check
           \/ TxPollUnlock \/ CloseDone \/ TxPollTail \/ bpfhv_tx_poll
           \/ bpfhv_tx_intr \/ bpfhv_close \/ CloseNapiDisable
  <2>1. UNCHANGED <<prod, cons, clear, tx_free, intr_at, bpc, bprod, bcons,
                    old_cons, count>>
    BY <1>6 DEF bpfhv_start_xmit, StartXmitGiveUp, sring_txp_kick,
       StartXmitStop, StartXmitBell, TxCleanDone, sring_txi,
       sring_txi_check, TxPollUnlock, CloseDone, TxPollTail,
       TxPollComplete, TxPollResched, TxPollWake, bpfhv_tx_poll,
       bpfhv_tx_intr, bpfhv_close, CloseNapiDisable
  <2> QED BY <2>1, <1>0, NothingMoves DEF CountersOK, Draining
<1> QED BY <1>1, <1>2, <1>3, <1>4, <1>5, <1>6 DEF LockedStep, StartXmitStep

\* How the backend's steps move the counters.
LEMMA BackendOrderStep ==
  ASSUME IInv,
         DrainStep \/ PollOut \/ PollIn \/ \E e \in SendFails : DrainSendFails(e)
  PROVE  Ordered'
<1> USE DEF IInv, TypeOK
<1>0. Ordered
  BY DEF Ordered
<1>t. /\ Sub(prod, clear) \in 0 .. N
      /\ N \in Nat \ {0} /\ N < W /\ W \in Nat /\ Budget \in Nat \ {0}
  BY WAssumption, TxAssumption, SubType DEF CountersOK, RingOrder
\* The backend takes one buffer: its private cons moves towards its copy of
\* prod, which it has not met.
<1>1. ASSUME bpc = "loop", bcons # bprod, bcons' = Add(bcons, 1),
             UNCHANGED <<prod, cons, clear, intr_at, tx_free, bpc, bprod,
                         old_cons>>,
             count' \in 0 .. Budget
      PROVE  Ordered'
  <2>1. Draining
    BY <1>1 DEF Draining
  <2>2. Sub(bcons, clear) < Sub(bprod, clear)
    BY <1>1, <2>1, SubInj, SubType DEF CountersOK, RingOrder
  <2>3. Sub(bcons, clear) < W - 1
    BY <2>1, <2>2, <1>t, SubType DEF CountersOK, RingOrder
  <2>4. bcons' \in Counter /\ Sub(bcons', clear) = Sub(bcons, clear) + 1
    BY <1>1, <2>3, SubStepAhead DEF CountersOK
  <2>5. CountersOK'
    BY <1>1, <2>4 DEF CountersOK
  <2>6. RingOrder'
    BY <1>1, <2>1, <2>2, <2>4, <1>t, SubType DEF RingOrder, CountersOK
  <2> QED BY <2>5, <2>6 DEF Ordered
<1>2. CASE DrainSend
  BY <1>1, <1>2, <1>t DEF DrainSend, CountersOK
<1>3. CASE DrainSkip
  BY <1>1, <1>3 DEF DrainSkip, CountersOK
\* The copies are taken, or the copy of prod is refreshed.
<1>4. CASE sring_txq_drain
  <2>1. /\ bprod' = prod /\ bcons' = cons /\ count' = 0
        /\ UNCHANGED <<prod, cons, clear, intr_at, tx_free, old_cons>>
    BY <1>4 DEF sring_txq_drain
  <2> QED BY <2>1, <1>t, SubType DEF Ordered, CountersOK, RingOrder
<1>5. CASE DrainMeetsProd \/ DrainRecheck
  <2>1. /\ bprod' = prod /\ Draining
        /\ UNCHANGED <<prod, cons, clear, intr_at, tx_free, bcons, old_cons, count>>
    BY <1>5 DEF DrainMeetsProd, DrainRecheck, Draining
  <2> QED BY <2>1, <1>t, SubType DEF Ordered, CountersOK, RingOrder
\* cons catches up with the private copy, which is still behind prod.
<1>6. CASE DrainPublish
  <2>1. CASE count > 0
    <3>1. /\ cons' = bcons /\ old_cons' = cons /\ Draining
          /\ UNCHANGED <<prod, clear, intr_at, tx_free, bprod, bcons, count>>
      BY <1>6, <2>1 DEF DrainPublish, Draining
    <3> QED BY <3>1, <1>t, SubType DEF Ordered, CountersOK, RingOrder
  <2>2. CASE ~(count > 0)
    <3>1. /\ ~Draining' /\ bprod' = 0 /\ bcons' = 0 /\ old_cons' = 0 /\ count' = 0
          /\ UNCHANGED <<prod, cons, clear, intr_at, tx_free>>
      BY <1>6, <2>2 DEF DrainPublish, DrainReturn, Draining
    <3> QED BY <3>1, <1>0, <1>t, NothingMoves DEF CountersOK, Counter
  <2> QED BY <2>1, <2>2
<1>7. CASE DrainNotify
  <2>1. /\ ~Draining' /\ bprod' = 0 /\ bcons' = 0 /\ old_cons' = 0 /\ count' = 0
        /\ UNCHANGED <<prod, cons, clear, intr_at, tx_free>>
    BY <1>7 DEF DrainNotify, DrainReturn, Draining
  <2> QED BY <2>1, <1>0, <1>t, NothingMoves DEF CountersOK, Counter
<1>8. CASE \/ WorkerStarts \/ process_packets_poll \/ PollOut \/ PollIn
           \/ process_packets_spin \/ DrainMute \/ DrainUnmute
           \/ DrainOutOfBudget \/ \E e \in SendFails : DrainSendFails(e)
  <2>1. /\ Draining' => Draining
        /\ UNCHANGED <<prod, cons, clear, tx_free, intr_at, bprod, bcons,
                       old_cons, count>>
    BY <1>8 DEF WorkerStarts, process_packets_poll, PollOut, PollIn, WakeUp,
       process_packets_spin, DrainMute, DrainUnmute, DrainOutOfBudget,
       DrainSendFails, Draining
  <2> QED BY <2>1, <1>0, NothingMoves DEF CountersOK
<1> QED BY <1>2, <1>3, <1>4, <1>5, <1>6, <1>7, <1>8 DEF DrainStep

-----------------------------------------------------------------------------
\* Every step of guest and backend keeps the invariant.
LEMMA NextIInv == IInv /\ [Next]_vars => IInv'
<1> SUFFICES ASSUME IInv, [Next]_vars PROVE IInv'
  OBVIOUS
<1>1. PlacesOK' /\ FlagsOK' /\ ReclaimHalted'
  BY PlacesStep, FlagsStep, ReclaimStep DEF IInv, TypeOK
<1>2. Ordered'
  <2>1. CASE Next
    BY <2>1, GuestOrderStep, BackendOrderStep DEF Next
  <2>2. CASE UNCHANGED vars
    BY <2>2, NothingMoves
       DEF vars, IInv, TypeOK, Ordered, CountersOK, Draining
  <2> QED BY <2>1, <2>2
<1> QED BY <1>1, <1>2 DEF IInv, TypeOK, Ordered

(***************************************************************************)
(* Type correctness of the transmit path: whatever the ring size, the      *)
(* counter width and the environment, counters stay in range and the       *)
(* driver's tx_free_bufs stays between 0 and the ring size.                *)
(***************************************************************************)
THEOREM Typing == Spec => []TypeOK
<1>1. IInv => TypeOK
  BY DEF IInv
<1> QED BY InitIInv, NextIInv, <1>1, PTL DEF Spec

(***************************************************************************)
(* clear, cons, the backend's copies and prod never overtake one another   *)
(* and never span more than the ring: driver (txp, txc, txr) and backend   *)
(* (sring_txq_drain) agree on who owns what at every wrap-around, and      *)
(* tx_free_bufs is exactly the room left.                                  *)
(***************************************************************************)
THEOREM RingOrderHolds == Spec => []RingOrder
<1>1. IInv => RingOrder
  BY DEF IInv
<1> QED BY InitIInv, NextIInv, <1>1, PTL DEF Spec

-----------------------------------------------------------------------------
(***************************************************************************)
(* What the descriptors hold.  ReclaimHalted is part of a longer story:    *)
(* the holder of the transmit lock, the poll and the device agree on who   *)
(* may still touch the ring when the device goes down.                     *)
(***************************************************************************)
HolderInv ==
  /\ gpc = "unlock" => caller = "poll"
  /\ gpc # "idle" /\ caller = "poll" => napi = "sched" /\ ppc # "complete"
  /\ ppc = "complete" => napi = "sched"
  /\ caller = "close" => napi = "off"
  /\ dev = "down" => /\ napi = "off" /\ gpc = "idle" /\ bpc = "halted"
                     /\ clear = prod

\* What the slot holds, at its distance from clear: buffers that the backend is
\* done with, then buffers it has not reached, then room.
SlotInv ==
  \A i \in Slots :
    LET d == Dist(N, i, clear)
    IN  /\ d < Handled => slot[i] \in {"sent", "bad"}
        /\ Handled <= d /\ d < N - tx_free => slot[i] \in {"posted", "bad"}
        /\ N - tx_free <= d => slot[i] = "empty"

\* As long as it has sent nothing, the backend has only skipped buffers: cons
\* stays behind them, and the next drain skips them again.
SkipInv ==
  /\ bpc = "notify" => count > 0 /\ bcons = cons
  /\ Draining /\ count = 0 =>
       \A i \in Slots :
         LET d == Dist(N, i, clear)
         IN  Sub(cons, clear) <= d /\ d < Sub(bcons, clear) => slot[i] = "bad"

Quiet == \A i \in Slots : slot[i] # "posted"

\* The polling backend goes to sleep, or back to its loop, only with kicks
\* enabled and every packet announced, unless it knows that it must come back
\* or kicks were off before it started.
Told ==
  \/ kickfd \/ ~can_send \/ unheard
  \/ kick_enabled /\ (Quiet \/ gpc = "kick" \/ kick_pending)

\* What a thread that enables the kicks finds.
ToldAtStart == kickfd \/ unheard \/ Quiet \/ gpc = "kick" \/ kick_pending

KickInv ==
  ~busy_wait =>
    /\ bpc = "start" => ToldAtStart
    /\ bpc = "recheck" => kick_enabled
    /\ bpc \in {"publish", "notify"} => Told \/ count >= Budget
    /\ bpc = "top" => Told \/ again

SInv == IInv /\ HolderInv /\ SlotInv /\ SkipInv

\* The lock, NAPI and the device: one step per action that moves them.
LEMMA HolderStep ==
  PlacesOK /\ ReclaimHalted /\ HolderInv /\ [Next]_vars => HolderInv'
<1> SUFFICES ASSUME PlacesOK, ReclaimHalted, HolderInv, [Next]_vars
             PROVE  HolderInv'
  OBVIOUS
<1> USE DEF PlacesOK, ReclaimHalted, HolderInv
<1>1. ASSUME NEW b \in BOOLEAN, bpfhv_start_xmit(b) PROVE HolderInv'
  BY <1>1 DEF bpfhv_start_xmit
<1>2. CASE StartXmitStep
  BY <1>2 DEF StartXmitStep, StartXmitGiveUp, sring_txp, sring_txp_kick,
     StartXmitStop, StartXmitBell, Release
<1>3. CASE sring_txc \/ TxCleanDone
  BY <1>3 DEF sring_txc, TxCleanDone
<1>4. CASE sring_txi \/ sring_txi_arm \/ sring_txi_check
  BY <1>4 DEF sring_txi, sring_txi_arm, sring_txi_check, AfterTxi
<1>5. CASE TxPollUnlock
  BY <1>5 DEF TxPollUnlock, Release
<1>6. CASE TxPollTail
  BY <1>6 DEF TxPollTail, TxPollComplete, TxPollResched, TxPollWake,
     napi_schedule, napi_complete
<1>7. CASE bpfhv_tx_poll \/ bpfhv_tx_intr
  BY <1>7 DEF bpfhv_tx_poll, bpfhv_tx_intr, napi_schedule
<1>8. CASE sring_txr \/ CloseDone \/ bpfhv_close \/ CloseNapiDisable
  BY <1>8 DEF sring_txr, CloseDone, bpfhv_close, CloseNapiDisable, Release
<1>9. CASE bpfhv_open
  BY <1>9 DEF bpfhv_open
<1>10. CASE DrainStep \/ PollOut \/ PollIn
  BY <1>10 DEF DrainStep, WorkerStarts, PollOut, PollIn,
     process_packets_poll, WakeUp,
     process_packets_spin, sring_txq_drain, DrainMute, DrainMeetsProd,
     DrainUnmute, DrainRecheck, DrainOutOfBudget, DrainSkip, DrainSend,
     DrainPublish, DrainNotify
<1>11. ASSUME NEW e \in SendFails, DrainSendFails(e) PROVE HolderInv'
  BY <1>11 DEF DrainSendFails
<1>12. CASE UNCHANGED vars
  BY <1>12 DEF vars
<1> QED BY <1>1, <1>2, <1>3, <1>4, <1>5, <1>6, <1>7, <1>8, <1>9, <1>10, <1>11,
     <1>12 DEF Next, LockedStep

-----------------------------------------------------------------------------
\* The slot of a counter inside the ring is the one at the counter's distance.
LEMMA SlotOf ==
  ASSUME NEW c \in Counter, NEW a \in Counter, Sub(a, c) < N
  PROVE  /\ Slot(a) \in Slots
         /\ \A i \in Slots : Dist(N, i, c) = Sub(a, c) <=> i = Slot(a)
<1>1. N \in Nat \ {0} /\ W % N = 0 /\ c \in Int
  BY TxAssumption, WAssumption DEF Counter
<1>2. Slot(a) \in Slots /\ Dist(N, Slot(a), c) = Sub(a, c)
  BY <1>1, DistOfCounter DEF Slot, Slots
<1>3. \A i \in Slots : Dist(N, i, c) = Dist(N, Slot(a), c) => i = Slot(a)
  BY <1>1, <1>2, DistInj DEF Slots
<1> QED BY <1>2, <1>3

\* What holds of the counters and the slots at any time.
LEMMA RingFacts ==
  ASSUME IInv
  PROVE  /\ N \in Nat \ {0} /\ N < W /\ W \in Nat /\ Budget \in Nat \ {0}
         /\ tx_free \in 0 .. N /\ count \in 0 .. Budget
         /\ prod \in Counter /\ cons \in Counter /\ clear \in Counter
         /\ bprod \in Counter /\ bcons \in Counter
         /\ Sub(prod, clear) = N - tx_free
         /\ Sub(cons, clear) \in 0 .. N - tx_free
         /\ Draining => /\ Sub(bcons, clear) \in Sub(cons, clear) .. N - tx_free
                        /\ Sub(bprod, clear) \in Sub(bcons, clear) .. N - tx_free
         /\ Handled \in Sub(cons, clear) .. N - tx_free
         /\ \A i \in Slots : Dist(N, i, clear) \in 0 .. N - 1
<1>1. \A i \in Slots : Dist(N, i, clear) \in 0 .. N - 1
  <2>1. /\ N \in Nat \ {0} /\ clear \in Int
        /\ \A i \in Slots : i \in Int
    BY TxAssumption, WAssumption DEF Slots, IInv, TypeOK, CountersOK, Counter
  <2> QED BY <2>1, DistType, Zenon
<1> QED BY <1>1, SubType, TxAssumption, WAssumption
        DEF IInv, TypeOK, CountersOK, RingOrder, Handled

\* What a step of guest or backend may do to a slot: the steps that touch one.
LEMMA SlotStep ==
  ASSUME IInv, HolderInv, SlotInv, SkipInv, Next PROVE SlotInv' /\ SkipInv'
<1>f. /\ N \in Nat \ {0} /\ N < W /\ W \in Nat /\ Budget \in Nat \ {0}
      /\ tx_free \in 0 .. N /\ count \in 0 .. Budget
      /\ prod \in Counter /\ cons \in Counter /\ clear \in Counter
      /\ bprod \in Counter /\ bcons \in Counter
      /\ Sub(prod, clear) = N - tx_free
      /\ Sub(cons, clear) \in 0 .. N - tx_free
      /\ Draining => /\ Sub(bcons, clear) \in Sub(cons, clear) .. N - tx_free
                     /\ Sub(bprod, clear) \in Sub(bcons, clear) .. N - tx_free
      /\ Handled \in Sub(cons, clear) .. N - tx_free
  BY RingFacts
<1>d. \A i \in Slots : Dist(N, i, clear) \in 0 .. N - 1
  BY RingFacts
<1>s. slot \in [Slots -> {"empty", "posted", "bad", "sent"}]
  BY DEF IInv, TypeOK, PlacesOK
\* clear moves: everything is one step closer, and the slot it leaves is empty.
<1>1. ASSUME sring_tx_get_one, clear # prod,
             UNCHANGED <<prod, bpc, bprod, bcons, count>>,
             \/ clear # cons /\ UNCHANGED cons
             \/ clear = cons /\ cons' = Add(clear, 1) /\ ~Draining
      PROVE  SlotInv' /\ SkipInv'
  <2>1. /\ Sub(clear, clear) = 0 /\ clear' = Add(clear, 1)
        /\ tx_free' = tx_free + 1
    BY <1>1, <1>f, SubZero DEF sring_tx_get_one
  <2>2. /\ Slot(clear) \in Slots
        /\ \A i \in Slots : Dist(N, i, clear) = 0 <=> i = Slot(clear)
    BY <2>1, <1>f, SlotOf
  <2>3. \A i \in Slots : Dist(N, i, clear') =
          IF Dist(N, i, clear) = 0 THEN N - 1 ELSE Dist(N, i, clear) - 1
    BY <2>1, <1>f, DistStep, TxAssumption DEF Slots
  <2>4. \A i \in Slots : slot'[i] = IF i = Slot(clear) THEN "empty" ELSE slot[i]
    BY <1>1, <1>s DEF sring_tx_get_one
  <2>5. Sub(prod, clear) \in 1 .. N
    BY <1>1, <1>f, SubStepBehind
  <2>6. CASE clear # cons /\ UNCHANGED cons
    <3>1. Sub(cons, clear') = Sub(cons, clear) - 1 /\ Sub(cons, clear) >= 1
      BY <2>1, <2>6, <1>f, SubStepBehind
    <3>2. Draining => Sub(bcons, clear') = Sub(bcons, clear) - 1
      <4>1. Draining => bcons # clear
        BY <3>1, <1>f, SubZero
      <4> QED BY <4>1, <2>1, <1>f, SubStepBehind
    <3>3. Handled' = Handled - 1 /\ Handled >= 1
      BY <1>1, <2>6, <3>1, <3>2, <1>f DEF Handled, Draining
    <3>4. SlotInv'
      BY <2>1, <2>2, <2>3, <2>4, <2>5, <3>3, <1>f, <1>d DEF SlotInv, Slots
    <3>5. SkipInv'
      BY <1>1, <2>1, <2>2, <2>3, <2>4, <2>5, <2>6, <3>1, <3>2, <1>f, <1>d
         DEF SkipInv, Slots, Draining
    <3> QED BY <3>4, <3>5
  <2>7. CASE clear = cons /\ cons' = Add(clear, 1) /\ ~Draining
    <3>1. Handled' = 0 /\ Handled = 0
      BY <1>1, <2>1, <2>7, <1>f, SubZero, SubStepBehind DEF Handled, Draining
    <3>2. SlotInv'
      BY <2>1, <2>2, <2>3, <2>4, <2>5, <3>1, <1>f, <1>d DEF SlotInv, Slots
    <3>3. SkipInv'
      BY <1>1, <2>7 DEF SkipInv, Draining
    <3> QED BY <3>2, <3>3
  <2> QED BY <1>1, <2>6, <2>7
<1>2. CASE sring_txc
  BY <1>1, <1>2, <1>f, SubZero DEF sring_txc
<1>3. CASE sring_txr
  BY <1>1, <1>3 DEF sring_txr, IInv, ReclaimHalted, Draining
\* A packet is published into the first slot of the room.
<1>4. CASE sring_txp
  <2>1. /\ tx_free' = tx_free - 1 /\ tx_free >= 1
        /\ UNCHANGED <<cons, clear, bpc, bprod, bcons, count>>
    BY <1>4 DEF sring_txp
  <2>2. /\ Slot(prod) \in Slots
        /\ \A i \in Slots : Dist(N, i, clear) = N - tx_free <=> i = Slot(prod)
    BY <2>1, <1>f, SlotOf
  <2>3. PICK s \in {"posted", "bad"} : slot' = [slot EXCEPT ![Slot(prod)] = s]
    BY <1>4 DEF sring_txp
  <2>4. \A i \in Slots : slot'[i] = IF i = Slot(prod) THEN s ELSE slot[i]
    BY <2>3, <1>s
  <2>5. Handled' = Handled /\ (Draining' <=> Draining)
    BY <2>1 DEF Handled, Draining
  <2>6. SlotInv'
    BY <2>1, <2>2, <2>4, <2>5, <1>f, <1>d DEF SlotInv, Slots
  <2>7. SkipInv'
    BY <2>1, <2>2, <2>4, <2>5, <1>f, <1>d DEF SkipInv, Slots
  <2> QED BY <2>6, <2>7
\* The backend handles the first buffer it has not reached.
<1>5. ASSUME bpc = "loop", bcons # bprod, bcons' = Add(bcons, 1),
             UNCHANGED <<prod, cons, clear, tx_free, bpc>>,
             \/ slot[Slot(bcons)] = "bad" /\ UNCHANGED <<slot, count>>
             \/ /\ slot' = [slot EXCEPT ![Slot(bcons)] = "sent"]
                /\ count' = count + 1
      PROVE  SlotInv' /\ SkipInv'
  <2>1. Draining /\ Draining' /\ Handled = Sub(bcons, clear)
        /\ Handled' = Sub(bcons', clear)
    BY <1>5 DEF Draining, Handled
  <2>2. Sub(bcons, clear) < Sub(bprod, clear)
    BY <1>5, <2>1, <1>f, SubInj, SubType
  <2>3. Sub(bcons', clear) = Sub(bcons, clear) + 1
    BY <1>5, <2>1, <2>2, <1>f, SubStepAhead
  <2>4. /\ Slot(bcons) \in Slots
        /\ \A i \in Slots : Dist(N, i, clear) = Sub(bcons, clear) <=> i = Slot(bcons)
    BY <2>1, <2>2, <1>f, SlotOf
  <2>5. slot'[Slot(bcons)] \in {"bad", "sent"}
        /\ \A i \in Slots : i # Slot(bcons) => slot'[i] = slot[i]
    BY <1>5, <1>s, <2>4
  <2>6. SlotInv'
    BY <1>5, <2>1, <2>2, <2>3, <2>4, <2>5, <1>f, <1>d DEF SlotInv, Slots
  <2>7. count' = 0 => count = 0 /\ slot'[Slot(bcons)] = "bad" /\ UNCHANGED slot
    BY <1>5, <1>f
  <2>8. SkipInv'
    BY <1>5, <2>1, <2>3, <2>4, <2>7, <1>f, <1>d DEF SkipInv, Slots
  <2> QED BY <2>6, <2>8
<1>6. CASE DrainSend
  BY <1>5, <1>6 DEF DrainSend
<1>7. CASE DrainSkip
  BY <1>5, <1>7 DEF DrainSkip
\* A drain begins at cons, and ends there or publishes what it has done.
<1>8. CASE sring_txq_drain
  BY <1>8, <1>f, <1>d DEF sring_txq_drain, SlotInv, SkipInv, Handled, Draining, Slots
<1>9. CASE DrainPublish
  <2>1. CASE count > 0
    BY <1>9, <2>1, <1>f, <1>d DEF DrainPublish, SlotInv, SkipInv, Handled,
       Draining, Slots
  <2>2. CASE ~(count > 0)
    BY <1>9, <2>2, <1>f, <1>d DEF DrainPublish, DrainReturn, SlotInv, SkipInv,
       Handled, Draining, Slots
  <2> QED BY <2>1, <2>2
<1>10. CASE DrainNotify
  BY <1>10, <1>f, <1>d DEF DrainNotify, DrainReturn, SlotInv, SkipInv, Handled,
     Draining, Slots
\* Nothing else touches a slot or the counters that tell whose it is.
<1>11. ASSUME UNCHANGED <<clear, cons, tx_free, slot, bcons, count>>,
              Draining' <=> Draining, bpc' # "notify" \/ UNCHANGED bpc
       PROVE  SlotInv' /\ SkipInv'
  BY <1>11 DEF SlotInv, SkipInv, Handled, Slots
<1>12. CASE \/ \E b \in BOOLEAN : bpfhv_start_xmit(b)
            \/ StartXmitGiveUp \/ sring_txp_kick \/ StartXmitStop
            \/ StartXmitBell \/ TxCleanDone \/ sring_txi \/ sring_txi_arm
            \/ sring_txi_check \/ TxPollUnlock \/ CloseDone \/ TxPollTail
            \/ bpfhv_tx_poll \/ bpfhv_tx_intr \/ bpfhv_close \/ CloseNapiDisable
  <2>1. UNCHANGED <<clear, cons, tx_free, slot, bpc, bcons, count>>
    BY <1>12 DEF bpfhv_start_xmit, StartXmitGiveUp, sring_txp_kick,
       StartXmitStop, StartXmitBell, TxCleanDone, sring_txi, sring_txi_arm,
       sring_txi_check, TxPollUnlock, CloseDone, TxPollTail,
       TxPollComplete, TxPollResched, TxPollWake, bpfhv_tx_poll,
       bpfhv_tx_intr, bpfhv_close, CloseNapiDisable
  <2> QED BY <2>1, <1>11 DEF Draining
<1>13. CASE bpfhv_open
  BY <1>13, <1>11 DEF bpfhv_open, Draining, HolderInv
<1>14. CASE \/ WorkerStarts \/ process_packets_poll \/ PollOut \/ PollIn
            \/ process_packets_spin \/ DrainMute \/ DrainMeetsProd
            \/ DrainUnmute \/ DrainRecheck \/ DrainOutOfBudget
            \/ \E e \in SendFails : DrainSendFails(e)
  BY <1>14, <1>11 DEF WorkerStarts, process_packets_poll, PollOut, PollIn, WakeUp,
     process_packets_spin, DrainMute, DrainMeetsProd, DrainUnmute,
     DrainRecheck, DrainOutOfBudget, DrainSendFails, Draining
<1> QED BY <1>2, <1>3, <1>4, <1>6, <1>7, <1>8, <1>9, <1>10, <1>12, <1>13, <1>14
     DEF Next, LockedStep, StartXmitStep, DrainStep

\* The ring as it is created: all of it is room.
LEMMA InitSInv == Init => SInv
<1> SUFFICES ASSUME Init PROVE SInv
  OBVIOUS
<1>1. IInv
  BY InitIInv
<1>2. HolderInv /\ SkipInv
  BY DEF Init, sring_tx_ctx_init, HolderInv, SkipInv, Draining
<1>3. SlotInv
  <2>1. tx_free = N /\ Handled = 0 /\ \A i \in Slots : slot[i] = "empty"
    BY SubZero, WAssumption
       DEF Init, sring_tx_ctx_init, Handled, Draining, Counter
  <2> QED BY <1>1, <2>1, RingFacts DEF SlotInv
<1> QED BY <1>1, <1>2, <1>3 DEF SInv

\* Every step keeps what the slots hold in line with the counters.
LEMMA NextSInv == SInv /\ [Next]_vars => SInv'
<1> SUFFICES ASSUME SInv, [Next]_vars PROVE SInv'
  OBVIOUS
<1>1. IInv' /\ HolderInv'
  BY NextIInv, HolderStep DEF SInv, IInv, TypeOK
<1>2. SlotInv' /\ SkipInv'
  <2>1. CASE Next
    BY <2>1, SlotStep DEF SInv
  <2>2. CASE UNCHANGED vars
    BY <2>2 DEF vars, SInv, SlotInv, SkipInv, Handled, Draining, Slots
  <2> QED BY <2>1, <2>2
<1> QED BY <1>1, <1>2 DEF SInv

\* In every state each slot holds what the counters say it holds.
LEMMA SInvHolds == Spec => []SInv
BY InitSInv, NextSInv, PTL DEF Spec

(***************************************************************************)
(* Every descriptor is in the hands the counters say, for every ring size  *)
(* and counter width: txc takes back only what sring_txq_drain has         *)
(* handled, txp overwrites only what was taken back, and a buffer that the *)
(* backend skipped without sending anything is met again.                  *)
(***************************************************************************)
THEOREM OwnershipHolds == Spec => []Ownership
<1>1. SInv => Ownership
  <2> SUFFICES ASSUME SInv, NEW d \in 0 .. N - 1
               PROVE  LET s == slot[Slot(Add(clear, d))]
                      IN  /\ d < Handled => s \in {"sent", "bad"}
                          /\ Handled <= d /\ d < N - tx_free
                               => s \in {"posted", "bad"}
                          /\ N - tx_free <= d => s = "empty"
    BY DEF Ownership
  <2>1. clear \in Counter /\ N \in Nat \ {0} /\ N < W /\ W \in Nat
    BY RingFacts DEF SInv
  <2>2. Add(clear, d) \in Counter /\ Sub(Add(clear, d), clear) = d
    <3>1. Add(clear, d) = IF clear + d < W THEN clear + d ELSE clear + d - W
      BY <2>1, AddDef
    <3>2. Add(clear, d) \in Counter
      BY <2>1, <3>1 DEF Counter
    <3> QED BY <2>1, <3>1, <3>2, SubDef DEF Counter
  <2>3. /\ Slot(Add(clear, d)) \in Slots
        /\ Dist(N, Slot(Add(clear, d)), clear) = d
    BY <2>1, <2>2, SlotOf
  <2> QED BY <2>3 DEF SInv, SlotInv
<1> QED BY SInvHolds, <1>1, PTL

(***************************************************************************)
(* When bpfhv_close is done no transmit buffer is left in the ring: txr    *)
(* finds all that txc did not, and leaves cons where the next open's       *)
(* backend expects it.                                                     *)
(***************************************************************************)
THEOREM AllReclaimedHolds == Spec => []AllReclaimed
<1>1. SInv => AllReclaimed
  <2> SUFFICES ASSUME SInv, dev = "down" PROVE AllReclaimed
    BY DEF AllReclaimed
  <2>1. IInv /\ clear = prod
    BY DEF SInv, HolderInv
  <2>2. tx_free = N /\ cons = prod
    BY <2>1, RingFacts, SubZero
  <2>3. \A i \in Slots : slot[i] = "empty"
    BY <2>1, <2>2, RingFacts DEF SInv, SlotInv
  <2> QED BY <2>2, <2>3 DEF AllReclaimed
<1> QED BY SInvHolds, <1>1, PTL

-----------------------------------------------------------------------------
\* A drain that has caught up with prod has left no packet behind.
LEMMA CaughtUp ==
  ASSUME SInv, IF Draining THEN bcons = prod ELSE cons = prod PROVE Quiet
<1>1. Handled = N - tx_free
  BY RingFacts DEF SInv, Handled
<1> QED BY <1>1, RingFacts DEF SInv, SlotInv, Quiet

\* How the doorbell protocol goes on: between the backend's double check and
\* its sleep, every packet is announced by the driver that publishes it.
LEMMA KickStep ==
  ASSUME "error" \notin SendFails, SInv, KickInv, [Next]_vars PROVE KickInv'
<1>0. PlacesOK /\ slot \in [Slots -> {"empty", "posted", "bad", "sent"}]
      /\ count \in 0 .. Budget /\ Budget \in Nat \ {0}
  BY RingFacts DEF SInv, IInv, TypeOK, PlacesOK
<1> USE DEF KickInv, Told, ToldAtStart, Quiet
<1>1. ASSUME NEW b \in BOOLEAN, bpfhv_start_xmit(b) PROVE KickInv'
  BY <1>1 DEF bpfhv_start_xmit, Slots
<1>2. CASE StartXmitGiveUp
  BY <1>2 DEF StartXmitGiveUp, Release, Slots
<1>3. CASE sring_txp
  BY <1>3 DEF sring_txp
<1>4. CASE sring_txp_kick
  BY <1>4 DEF sring_txp_kick, Slots
<1>5. CASE StartXmitStop
  BY <1>5 DEF StartXmitStop, Slots
<1>6. CASE StartXmitBell
  BY <1>6 DEF StartXmitBell, Release, Slots
<1>7. CASE sring_txc \/ sring_txr
  <2>1. \A i \in Slots : slot'[i] = slot[i] \/ slot'[i] = "empty"
    BY <1>7, <1>0 DEF sring_txc, sring_txr, sring_tx_get_one
  <2> QED BY <1>7, <2>1 DEF sring_txc, sring_txr, Slots
<1>8. CASE TxCleanDone
  BY <1>8 DEF TxCleanDone, Slots
<1>9. CASE sring_txi \/ sring_txi_arm \/ sring_txi_check
  BY <1>9 DEF sring_txi, sring_txi_arm, sring_txi_check, Slots
<1>10. CASE TxPollUnlock \/ TxPollTail \/ bpfhv_tx_poll
  BY <1>10 DEF TxPollUnlock, TxPollTail, TxPollComplete, TxPollResched,
     TxPollWake, bpfhv_tx_poll, Release, Slots
<1>11. CASE bpfhv_tx_intr
  BY <1>11 DEF bpfhv_tx_intr, Slots
<1>12. CASE CloseDone \/ bpfhv_close \/ CloseNapiDisable
  BY <1>12 DEF CloseDone, bpfhv_close, CloseNapiDisable, Release, Slots
\* A reopened device has an empty ring.
<1>13. CASE bpfhv_open
  <2>1. ~Draining /\ clear = prod
    BY <1>13 DEF bpfhv_open, SInv, HolderInv, Draining
  <2>2. cons = prod
    BY <2>1, RingFacts, SubZero DEF SInv
  <2>3. Quiet
    BY <2>1, <2>2, CaughtUp
  <2> QED BY <1>13, <2>3 DEF bpfhv_open, Slots
\* The backend's loop.
<1>14. CASE process_packets_poll \/ PollOut \/ PollIn \/ process_packets_spin
  BY <1>14 DEF process_packets_poll, PollOut, PollIn, WakeUp,
     process_packets_spin
<1>15. CASE sring_txq_drain
  BY <1>15 DEF sring_txq_drain
<1>16. CASE DrainMute
  BY <1>16 DEF DrainMute
<1>17. CASE DrainMeetsProd
  BY <1>17 DEF DrainMeetsProd
<1>18. CASE DrainUnmute
  BY <1>18 DEF DrainUnmute
\* The double check: kicks are on, and nothing was published before they were.
<1>19. CASE DrainRecheck
  <2>1. prod = bcons => Quiet
    BY <1>19, CaughtUp DEF DrainRecheck, Draining
  <2> QED BY <1>19, <2>1 DEF DrainRecheck, Slots
<1>20. CASE DrainOutOfBudget
  BY <1>20 DEF DrainOutOfBudget
<1>21. CASE DrainSkip
  BY <1>21 DEF DrainSkip
<1>22. CASE DrainSend
  BY <1>22 DEF DrainSend
<1>23. ASSUME NEW e \in SendFails, DrainSendFails(e) PROVE KickInv'
  BY <1>23, TxAssumption DEF DrainSendFails
<1>24. CASE DrainPublish
  BY <1>24, <1>0 DEF DrainPublish, DrainReturn, Slots
<1>25. CASE DrainNotify
  BY <1>25 DEF DrainNotify, DrainReturn, Slots
\* The new thread enables the kicks; what was published before is announced,
\* or was published with kicks off.
<1>26. CASE WorkerStarts
  BY <1>26 DEF WorkerStarts, Slots
<1>27. CASE UNCHANGED vars
  BY <1>27 DEF vars, Slots
<1> QED BY <1>1, <1>2, <1>3, <1>4, <1>5, <1>6, <1>7, <1>8, <1>9, <1>10, <1>11,
     <1>12, <1>13, <1>14, <1>15, <1>16, <1>17, <1>18, <1>19, <1>20, <1>21,
     <1>22, <1>23, <1>24, <1>25, <1>26, <1>27
     DEF Next, LockedStep, StartXmitStep, DrainStep

(***************************************************************************)
(* The polling backend never sleeps on a packet nobody will tell it about, *)
(* however the stores to prod and kick_enabled and the double checks of    *)
(* sring_txp and sring_txq_drain interleave, over any number of closings   *)
(* and reopenings.  One exception is part of the property: a packet        *)
(* published with the kicks off that a previous thread left, before the    *)
(* new one enables them.  The hypothesis excludes the failure of be->send  *)
(* other than EAGAIN, after which the code goes to sleep with kicks        *)
(* disabled.                                                               *)
(***************************************************************************)
THEOREM NoLostKickHolds ==
  ASSUME "error" \notin SendFails PROVE Spec => []NoLostKick
<1>1. Init => KickInv
  BY Zenon DEF Init, sring_tx_ctx_init, KickInv, Told, ToldAtStart, Quiet,
     Slots
<1>2. SInv /\ KickInv /\ [Next]_vars => KickInv'
  BY KickStep
<1>3. KickInv => NoLostKick
  BY DEF KickInv, Told, Quiet, NoLostKick, Asleep, Announced
<1> QED BY SInvHolds, <1>1, <1>2, <1>3, PTL DEF Spec

=============================================================================
