------------------------------ MODULE WrapArith ------------------------------
(***************************************************************************)
(* Arithmetic on the free-running unsigned counters that the guest and the *)
(* backend keep in shared memory (prod, cons, clear, intr_at).  The code   *)
(* uses uint32_t: every sum and difference is taken modulo 2^32.  Here the *)
(* modulus is the constant W, so that a model can use a counter that wraps *)
(* after a few steps.                                                      *)
(***************************************************************************)
EXTENDS Integers

CONSTANT W    \* number of values of a counter (2^32 in the code)

ASSUME WAssumption == W \in Nat \ {0}

Counter == 0 .. W - 1

\* a + k, as the unsigned type computes it.
Add(a, k) == (a + k) % W

\* (uint32_t)(a - b): how far counter a is ahead of counter b.
Sub(a, b) == (a - b) % W

=============================================================================
