----------------------------- MODULE BufferQueue -----------------------------
(***************************************************************************)
(* What a queue of a BPFHV device promises to the driver, whatever ring    *)
(* the hypervisor chose: the contract of the programs txp, txc, txr (or    *)
(* rxp, rxc, rxr) of include/bpfhv.h.                                      *)
(*                                                                         *)
(* Every buffer is in one place.  The guest posts buffers; the backend     *)
(* takes them in the order of posting, hands them back in the order it is  *)
(* done with them, and the guest completes them in that order.  Buffers    *)
(* not yet taken can only be reclaimed once the device is disabled.        *)
(***************************************************************************)
EXTENDS Integers, Sequences, FiniteSets

CONSTANTS
  Buffers,
  Lossy    \* may a completion fail once the ring has given the buffer up?

VARIABLES
  guest,   \* the set of buffers the driver holds
  posted,  \* published, not taken by the backend, oldest first
  taken,   \* the set of buffers the backend is working on
  used,    \* handed back by the backend, not completed, oldest first
  enabled  \* is the device enabled?

bqVars == <<guest, posted, taken, used, enabled>>

Init ==
  /\ guest = Buffers /\ posted = <<>> /\ taken = {} /\ used = <<>>
  /\ enabled = FALSE

Publish(b) ==
  /\ b \in guest
  /\ guest' = guest \ {b} /\ posted' = Append(posted, b)
  /\ UNCHANGED <<taken, used, enabled>>

Take ==
  /\ enabled /\ posted # <<>>
  /\ taken' = taken \cup {Head(posted)} /\ posted' = Tail(posted)
  /\ UNCHANGED <<guest, used, enabled>>

HandBack(b) ==
  /\ b \in taken
  /\ taken' = taken \ {b} /\ used' = Append(used, b)
  /\ UNCHANGED <<guest, posted, enabled>>

\* Taken and handed back in one step.
Consume ==
  /\ enabled /\ posted # <<>>
  /\ posted' = Tail(posted) /\ used' = Append(used, Head(posted))
  /\ UNCHANGED <<guest, taken, enabled>>

Complete ==
  /\ used # <<>>
  /\ guest' = guest \cup {Head(used)} /\ used' = Tail(used)
  /\ UNCHANGED <<posted, taken, enabled>>

\* The buffer is nowhere any more.
Lose ==
  /\ Lossy /\ used # <<>> /\ used' = Tail(used)
  /\ UNCHANGED <<guest, posted, taken, enabled>>

\* The last completions are collected before anything is reclaimed.
Reclaim ==
  /\ ~enabled /\ used = <<>> /\ posted # <<>>
  /\ guest' = guest \cup {Head(posted)} /\ posted' = Tail(posted)
  /\ UNCHANGED <<taken, used, enabled>>

Enable ==
  /\ ~enabled /\ enabled' = TRUE
  /\ UNCHANGED <<guest, posted, taken, used>>

\* What the backend took and did not hand back is the guest's to reclaim.
Disable ==
  /\ enabled /\ enabled' = FALSE
  /\ taken' = {}
  /\ \E s \in [1 .. Cardinality(taken) -> taken] :
       /\ {s[k] : k \in DOMAIN s} = taken
       /\ posted' = s \o posted
  /\ UNCHANGED <<guest, used>>

Next ==
  \/ \E b \in Buffers : Publish(b) \/ HandBack(b)
  \/ Take \/ Consume \/ Complete \/ Lose \/ Reclaim \/ Enable \/ Disable

Spec == Init /\ [][Next]_bqVars
=============================================================================
