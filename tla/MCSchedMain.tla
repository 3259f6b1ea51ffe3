---------------------------- MODULE MCSchedMain ----------------------------
(***************************************************************************)
(* Small instances of the packet schedulers.                               *)
(***************************************************************************)
EXTENDS SchedMain

Fs(w, len, flows) ==
  [w |-> w, w_h |-> w, w_steps |-> 1, len |-> len, len_h |-> len,
   l_steps |-> 1, flows |-> flows]

\* Weights 1, 1 and 2; for QFQ the first flow is in a group of its own (its
\* packets are longer), the other two share one.  The sum of the weights is a
\* power of two: with as few fractional bits as here its inverse would not be
\* exact.
MCFsConfig == <<Fs(1, 2, 1), Fs(1, 1, 1), Fs(2, 2, 1)>>

\* QFQ takes seven packets to block a group.
MCMaxEnqueue == [a \in Algs |-> IF a = "qfq" THEN 9 ELSE 6]

=============================================================================
