--------------------------- MODULE WrapArithProofs ---------------------------
(***************************************************************************)
(* Facts about the wrapping counters, for every modulus W, and about the   *)
(* slots of a ring that they index.  They replace remainders by case       *)
(* splits, which is all the later proofs need.                             *)
(***************************************************************************)
EXTENDS WrapArith, TLAPS

\* The remainder of a number of 0 .. 2W - 1.
LEMMA ModSmall ==
  ASSUME NEW x \in Int, 0 <= x, x < 2 * W
  PROVE  x % W = IF x < W THEN x ELSE x - W
BY WAssumption

\* A difference of two counters is the distance forward from b to a.
LEMMA SubDef ==
  \A a, b \in Counter : Sub(a, b) = IF b <= a THEN a - b ELSE a - b + W
BY WAssumption DEF Sub, Counter

\* Advancing a counter by less than its range wraps at most once.
LEMMA AddDef ==
  \A a \in Counter, k \in 0 .. W :
    Add(a, k) = IF a + k < W THEN a + k ELSE a + k - W
BY WAssumption DEF Add, Counter

\* A counter stays a counter.
LEMMA AddType == \A a, k \in Int : Add(a, k) \in Counter
BY WAssumption DEF Add, Counter

\* A distance is less than a full turn.
LEMMA SubType == \A a, b \in Counter : Sub(a, b) \in 0 .. W - 1
BY SubDef, WAssumption DEF Counter

\* No distance: the counters have met.
LEMMA SubZero == \A a, b \in Counter : (Sub(a, b) = 0) <=> (a = b)
BY SubDef, WAssumption DEF Counter

\* Two counters at the same distance from a third have met.
LEMMA SubInj == \A a, b, c \in Counter : Sub(a, c) = Sub(b, c) => a = b
BY SubDef, WAssumption DEF Counter

\* Moving the counter behind forward brings the one ahead a step closer.
LEMMA SubStepBehind ==
  ASSUME NEW a \in Counter, NEW b \in Counter, a # b
  PROVE  /\ Sub(a, b) \in 1 .. W - 1
         /\ Add(b, 1) \in Counter
         /\ Sub(a, Add(b, 1)) = Sub(a, b) - 1
<1>1. Add(b, 1) = IF b + 1 < W THEN b + 1 ELSE b + 1 - W
  BY AddDef, WAssumption DEF Counter
<1>2. Add(b, 1) \in Counter
  BY <1>1, WAssumption DEF Counter
<1>3. Sub(a, Add(b, 1)) =
        IF Add(b, 1) <= a THEN a - Add(b, 1) ELSE a - Add(b, 1) + W
  BY <1>2, SubDef
<1>4. Sub(a, b) = IF b <= a THEN a - b ELSE a - b + W
  BY SubDef
<1> QED BY <1>1, <1>2, <1>3, <1>4, WAssumption DEF Counter

\* Moving the counter ahead forward, while it is not a full turn ahead.
LEMMA SubStepAhead ==
  ASSUME NEW a \in Counter, NEW b \in Counter, Sub(a, b) < W - 1
  PROVE  /\ Add(a, 1) \in Counter
         /\ Sub(Add(a, 1), b) = Sub(a, b) + 1
<1>1. Add(a, 1) = IF a + 1 < W THEN a + 1 ELSE a + 1 - W
  BY AddDef, WAssumption DEF Counter
<1>2. Add(a, 1) \in Counter
  BY <1>1, WAssumption DEF Counter
<1>3. Sub(Add(a, 1), b) =
        IF b <= Add(a, 1) THEN Add(a, 1) - b ELSE Add(a, 1) - b + W
  BY <1>2, SubDef
<1>4. Sub(a, b) = IF b <= a THEN a - b ELSE a - b + W
  BY SubDef
<1> QED BY <1>1, <1>2, <1>3, <1>4, WAssumption DEF Counter

\* Moving the counter behind forward by k, not past the one ahead.
LEMMA SubMoveBehind ==
  ASSUME NEW a \in Counter, NEW b \in Counter, NEW k \in 0 .. Sub(a, b)
  PROVE  /\ Add(b, k) \in Counter
         /\ Sub(a, Add(b, k)) = Sub(a, b) - k
<1>0. Sub(a, b) \in 0 .. W - 1
  BY SubType
<1>1. Add(b, k) = IF b + k < W THEN b + k ELSE b + k - W
  BY <1>0, AddDef, WAssumption DEF Counter
<1>2. Add(b, k) \in Counter
  BY <1>0, <1>1, WAssumption DEF Counter
<1>3. Sub(a, Add(b, k)) =
        IF Add(b, k) <= a THEN a - Add(b, k) ELSE a - Add(b, k) + W
  BY <1>2, SubDef
<1>4. Sub(a, b) = IF b <= a THEN a - b ELSE a - b + W
  BY SubDef
<1> QED BY <1>0, <1>1, <1>2, <1>3, <1>4, WAssumption DEF Counter

\* Moving the counter ahead forward by k, within a full turn.
LEMMA SubMoveAhead ==
  ASSUME NEW a \in Counter, NEW b \in Counter, NEW k \in 0 .. W - 1 - Sub(a, b)
  PROVE  /\ Add(a, k) \in Counter
         /\ Sub(Add(a, k), b) = Sub(a, b) + k
<1>0. Sub(a, b) \in 0 .. W - 1
  BY SubType
<1>1. Add(a, k) = IF a + k < W THEN a + k ELSE a + k - W
  BY <1>0, AddDef, WAssumption DEF Counter
<1>2. Add(a, k) \in Counter
  BY <1>0, <1>1, WAssumption DEF Counter
<1>3. Sub(Add(a, k), b) =
        IF b <= Add(a, k) THEN Add(a, k) - b ELSE Add(a, k) - b + W
  BY <1>2, SubDef
<1>4. Sub(a, b) = IF b <= a THEN a - b ELSE a - b + W
  BY SubDef
<1> QED BY <1>0, <1>1, <1>2, <1>3, <1>4, WAssumption DEF Counter

\* Division with remainder.
LEMMA DivMod ==
  ASSUME NEW n \in Nat \ {0}, NEW x \in Int
  PROVE  x % n \in 0 .. n - 1 /\ \E q \in Int : x = q * n + (x % n)
<1>1. x % n \in 0 .. n - 1
  OBVIOUS
<1>2. x \div n \in Int /\ x = n * (x \div n) + (x % n)
  OBVIOUS
<1>3. x = (x \div n) * n + (x % n)
  BY <1>2
<1> QED BY <1>1, <1>2, <1>3

\* The remainder is the only one.
LEMMA ModUnique ==
  ASSUME NEW n \in Nat \ {0}, NEW q \in Int, NEW r \in 0 .. n - 1
  PROVE  (q * n + r) % n = r
OBVIOUS

\* Whole turns do not change a remainder.
LEMMA ModShift ==
  ASSUME NEW n \in Nat \ {0}, NEW x \in Int, NEW q \in Int
  PROVE  (x + q * n) % n = x % n
<1>1. PICK p \in Int : x = p * n + (x % n)
  BY DivMod
<1>2. x % n \in 0 .. n - 1
  BY DivMod
<1>3. x + q * n = (p + q) * n + (x % n)
  BY <1>1, <1>2
<1>4. ((p + q) * n + (x % n)) % n = x % n
  BY <1>2, ModUnique
<1> QED BY <1>3, <1>4

-----------------------------------------------------------------------------
\* How far slot i of a ring of n slots is ahead of the slot of counter c.
Dist(n, i, c) == (i - c) % n

\* The distance is less than the ring's size.
LEMMA DistType ==
  \A n \in Nat \ {0}, i, c \in Int : Dist(n, i, c) \in 0 .. n - 1
BY DEF Dist

\* The slot of counter a is as far ahead as a itself, if the counter wraps at
\* a multiple of the ring's size.
LEMMA DistOfCounter ==
  ASSUME NEW n \in Nat \ {0}, W % n = 0, NEW a \in Counter, NEW c \in Counter,
         Sub(a, c) < n
  PROVE  a % n \in 0 .. n - 1 /\ Dist(n, a % n, c) = Sub(a, c)
<1>0. a \in Int /\ c \in Int /\ W \in Int
  BY WAssumption DEF Counter
<1>1. PICK q \in Int : a = q * n + (a % n)
  BY <1>0, DivMod, Zenon
<1>2. PICK k \in Int : W = k * n
  <2>1. PICK k \in Int : W = k * n + (W % n)
    BY <1>0, DivMod, Zenon
  <2>2. k * n + 0 = k * n
    OBVIOUS
  <2> QED BY <2>1, <2>2, <1>0
<1>3. a % n \in 0 .. n - 1
  BY <1>0
<1>4. Sub(a, c) \in 0 .. n - 1
  BY SubType, WAssumption DEF Counter
<1>5. CASE c <= a
  <2>1. (a % n) - c = Sub(a, c) + (-q) * n
    BY <1>1, <1>3, <1>5, SubDef, <1>0
  <2>2. -q \in Int /\ Sub(a, c) \in Int
    BY <1>4
  <2>3. (Sub(a, c) + (-q) * n) % n = Sub(a, c) % n
    BY <2>2, ModShift, Zenon
  <2> QED BY <1>3, <1>4, <2>1, <2>3 DEF Dist
<1>6. CASE ~(c <= a)
  <2>1. (a % n) - c = Sub(a, c) + (-q - k) * n
    BY <1>1, <1>2, <1>3, <1>6, SubDef, <1>0
  <2>2. -q - k \in Int /\ Sub(a, c) \in Int
    BY <1>4
  <2>3. (Sub(a, c) + (-q - k) * n) % n = Sub(a, c) % n
    BY <2>2, ModShift, Zenon
  <2> QED BY <1>3, <1>4, <2>1, <2>3 DEF Dist
<1> QED BY <1>5, <1>6

\* When the counter moves by k, every slot is k steps closer, and the ones it
\* leaves behind are the farthest.
LEMMA DistMove ==
  ASSUME NEW n \in Nat \ {0}, W % n = 0, n <= W, NEW c \in Counter,
         NEW k \in 0 .. n, NEW i \in Int
  PROVE  Dist(n, i, Add(c, k)) =
           IF k <= Dist(n, i, c) THEN Dist(n, i, c) - k ELSE Dist(n, i, c) - k + n
<1> DEFINE d == (i - c) % n
<1>0. i - c \in Int /\ c \in Int /\ W \in Int
  BY WAssumption DEF Counter
<1>1. PICK t \in Int : W = t * n
  <2>1. PICK t \in Int : W = t * n + (W % n)
    BY <1>0, DivMod, Zenon
  <2>2. t * n + 0 = t * n
    OBVIOUS
  <2> QED BY <2>1, <2>2, <1>0
<1>2. PICK q \in Int : i - c = q * n + d
  BY <1>0, DivMod, Zenon
<1>3. d \in 0 .. n - 1
  BY <1>0
<1> HIDE DEF d
<1>4. PICK m \in Int : i - Add(c, k) = (d - k) + m * n
  <2>1. CASE c + k < W
    <3>1. Add(c, k) = c + k
      BY <2>1, AddDef, WAssumption DEF Counter
    <3>2. i - (c + k) = (d - k) + q * n
      BY <1>0, <1>2, <1>3
    <3> QED BY <3>1, <3>2
  <2>2. CASE ~(c + k < W)
    <3>1. Add(c, k) = c + k - W
      BY <2>2, AddDef, WAssumption DEF Counter
    <3>2. (q + t) * n = q * n + W
      BY <1>1
    <3>3. i - (c + k - W) = (d - k) + (q + t) * n
      BY <1>0, <1>2, <1>3, <3>2
    <3>4. q + t \in Int
      OBVIOUS
    <3> QED BY <3>1, <3>3, <3>4, Zenon
  <2> QED BY <2>1, <2>2
<1>5. (i - Add(c, k)) % n = (d - k) % n
  <2>1. d - k \in Int
    BY <1>3
  <2>2. ((d - k) + m * n) % n = (d - k) % n
    BY <2>1, ModShift, Zenon
  <2> QED BY <2>2, <1>4
<1>6. (d - k) % n = IF k <= d THEN d - k ELSE d - k + n
  <2>1. CASE k <= d
    BY <1>3, <2>1
  <2>2. CASE ~(k <= d)
    <3>1. d - k = (-1) * n + (d - k + n)
      BY <1>3
    <3>2. d - k + n \in 0 .. n - 1
      BY <1>3, <2>2
    <3>3. ((-1) * n + (d - k + n)) % n = d - k + n
      <4>1. PICK p \in Int, r \in 0 .. n - 1 : p = -1 /\ r = d - k + n
        BY <3>2
      <4>2. (p * n + r) % n = r
        BY ModUnique
      <4> QED BY <4>1, <4>2
    <3> QED BY <2>2, <3>1, <3>3
  <2> QED BY <2>1, <2>2
<1> QED BY <1>5, <1>6 DEF Dist, d

\* A step of the counter: the slot it leaves becomes the farthest.
LEMMA DistStep ==
  ASSUME NEW n \in Nat \ {0}, W % n = 0, n <= W, NEW c \in Counter, NEW i \in Int
  PROVE  Dist(n, i, Add(c, 1)) =
           IF Dist(n, i, c) = 0 THEN n - 1 ELSE Dist(n, i, c) - 1
<1>1. 1 \in 0 .. n /\ c \in Int
  BY DEF Counter
<1>2. Dist(n, i, c) \in 0 .. n - 1
  BY <1>1, DistType, Zenon
<1>3. Dist(n, i, Add(c, 1)) =
        IF 1 <= Dist(n, i, c) THEN Dist(n, i, c) - 1 ELSE Dist(n, i, c) - 1 + n
  BY <1>1, DistMove, Zenon
<1> QED BY <1>2, <1>3

\* The distance from a counter, computed as the code does: wrap, then mask.
LEMMA DistOfSub ==
  ASSUME NEW n \in Nat \ {0}, W % n = 0, NEW i \in Counter, NEW c \in Counter
  PROVE  Sub(i, c) % n = Dist(n, i, c)
<1>0. i - c \in Int /\ W \in Int /\ Sub(i, c) \in Int
  BY WAssumption, SubType DEF Counter
<1>1. PICK t \in Int : W = t * n
  <2>1. PICK t \in Int : W = t * n + (W % n)
    BY <1>0, DivMod, Zenon
  <2>2. t * n + 0 = t * n
    OBVIOUS
  <2> QED BY <2>1, <2>2, <1>0
<1>2. CASE c <= i
  <2>1. Sub(i, c) = i - c
    BY <1>2, SubDef
  <2> QED BY <2>1 DEF Dist
<1>3. CASE ~(c <= i)
  <2>1. Sub(i, c) = (i - c) + t * n
    BY <1>1, <1>3, SubDef
  <2>2. ((i - c) + t * n) % n = (i - c) % n
    BY <1>0, ModShift, Zenon
  <2> QED BY <2>1, <2>2 DEF Dist
<1> QED BY <1>2, <1>3

\* Two slots at the same distance are one.
LEMMA DistInj ==
  ASSUME NEW n \in Nat \ {0}, NEW c \in Int,
         NEW i \in 0 .. n - 1, NEW j \in 0 .. n - 1,
         Dist(n, i, c) = Dist(n, j, c)
  PROVE  i = j
<1>0. i - c \in Int /\ j - c \in Int
  OBVIOUS
<1>1. PICK p \in Int : i - c = p * n + ((i - c) % n)
  BY <1>0, DivMod, Zenon
<1>2. PICK q \in Int : j - c = q * n + ((j - c) % n)
  BY <1>0, DivMod, Zenon
<1>3. (i - c) % n \in 0 .. n - 1
  BY <1>0
<1>4. i = (p - q) * n + j
  BY <1>1, <1>2, <1>3 DEF Dist
<1>5. i % n = j /\ i % n = i
  BY <1>4, ModUnique
<1> QED BY <1>5

=============================================================================
