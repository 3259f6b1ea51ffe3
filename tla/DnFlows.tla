------------------------------ MODULE DnFlows ------------------------------
(***************************************************************************)
(* What the scheduling algorithms of dummynet share in this program: the   *)
(* flows and their parameters, as the option "-flowsets" describes them,   *)
(* and the queue of packets every flow has.  A packet is its length; the   *)
(* queue it is in is its flow.                                             *)
(***************************************************************************)
EXTENDS Integers, Sequences, SequencesExt, FiniteSetsExt

CONSTANTS
  FsConfig,   \* the flowset list: a sequence of records [w, w_h, w_steps,
              \* len, len_h, l_steps, flows]
  QueueMax,   \* the hard-wired queue size (20000)
  FRAC_BITS   \* fractional bits of the virtual times

ONE_FP == 2 ^ FRAC_BITS

\* One element of the list, with the defaults for what is missing (0), gives
\* a flowset for each step of the weight and each step of the length.
Steps(lo, hi, n, i) == lo + ((hi - lo) * i) \div (IF n = 1 THEN 1 ELSE n - 1)

FlowsetsOf(e) ==
  LET w     == IF e.w <= 0 THEN 1 ELSE e.w
      len   == IF e.len <= 0 THEN 1000 ELSE e.len
      flows == IF e.flows = 0 THEN 1 ELSE e.flows
  IN  [k \in 1 .. e.w_steps * e.l_steps |->
         [w   |-> Steps(w, e.w_h, e.w_steps, (k - 1) \div e.l_steps),
          len |-> Steps(len, e.len_h, e.l_steps, (k - 1) % e.l_steps),
          n   |-> flows]]

Flowsets == FlattenSeq([i \in DOMAIN FsConfig |-> FlowsetsOf(FsConfig[i])])

\* first_flow and next_flow: the flows are numbered flowset by flowset.
NextFlow(k) == SumFunction([i \in 1 .. k |-> Flowsets[i].n])

Flows == 0 .. NextFlow(Len(Flowsets)) - 1

\* The flowset a flow is linked to.
FlowsetOf ==
  [f \in Flows |->
     Flowsets[CHOOSE k \in DOMAIN Flowsets :
                NextFlow(k - 1) <= f /\ f < NextFlow(k)]]

ipdn_bound_var(v, dflt, lo, hi) ==
  IF v < lo THEN dflt ELSE IF v > hi THEN hi ELSE v

NULL == [flow |-> -1, len |-> 0]

-----------------------------------------------------------------------------
\* dn_enqueue and dn_dequeue on a scheduler state s with the field mq (the
\* counter ni.length is the length of the sequence).
Full(s, q) == Len(s.mq[q]) >= QueueMax

dn_enqueue(s, q, len) == [s EXCEPT !.mq[q] = Append(@, len)]

dn_dequeue(s, q) == [s EXCEPT !.mq[q] = Tail(@)]

Backlogged(s, q) == s.mq[q] # <<>>

\* The packet a dequeue of q returns.
Packet(s, q) == [flow |-> q, len |-> Head(s.mq[q])]

=============================================================================
