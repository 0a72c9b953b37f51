--------------------------- MODULE RingArithmetic ---------------------------
(***************************************************************************)
(* Facts about positions in a ring of N slots, shared by the proofs about  *)
(* the command rings and about the stream's cyclic buffer.                 *)
(***************************************************************************)
EXTENDS Integers, TLAPS

(* A position in the ring is its own remainder. *)
LEMMA ModSmall ==
  ASSUME NEW N \in Nat, NEW a \in 0..N-1
  PROVE  a % N = a
  OBVIOUS

(* Adding at most a lap to a position wraps at most once. *)
LEMMA ModSum ==
  ASSUME NEW N \in Nat, N > 0, NEW a \in 0..N-1, NEW k \in 0..N-1
  PROVE  (a + k) % N = IF a + k < N THEN a + k ELSE a + k - N
  OBVIOUS

(* The next position: the wrap of the `% size` in the code. *)
LEMMA ModNext ==
  ASSUME NEW N \in Nat, N > 0, NEW a \in 0..N-1
  PROVE  /\ (a + 1) % N = IF a + 1 = N THEN 0 ELSE a + 1
         /\ (a + 1) % N \in 0..N-1
  OBVIOUS

(* In a ring of two slots or more, the next position is another one. *)
LEMMA ModNextMoves ==
  ASSUME NEW N \in Nat, N >= 2, NEW a \in 0..N-1
  PROVE  (a + 1) % N # a
  BY ModNext

(* The position k + 1 ahead is the position k ahead of the next one. *)
LEMMA ModShift ==
  ASSUME NEW N \in Nat, N > 0, NEW a \in 0..N-1, NEW k \in 0..N-1
  PROVE  /\ (((a + 1) % N) + k) % N = (a + k + 1) % N
         /\ (((a + k) % N) + 1) % N = (a + k + 1) % N
<1>1. (a + k + 1) % N = IF a + k + 1 < N THEN a + k + 1 ELSE a + k + 1 - N
  <2>1. CASE k + 1 < N
    BY <2>1, ModSum, k + 1 \in 0..N-1, a + (k + 1) = a + k + 1
  <2>2. CASE k + 1 = N
    <3>1. (a + N) % N = a
      OBVIOUS
    <3>2. QED
      BY <2>2, <3>1
  <2>3. QED
    BY <2>1, <2>2
<1>2. (((a + 1) % N) + k) % N = IF a + k + 1 < N THEN a + k + 1 ELSE a + k + 1 - N
  <2>1. CASE a + 1 < N
    <3>1. (a + 1) % N = a + 1 /\ a + 1 \in 0..N-1
      BY <2>1, ModNext
    <3>2. QED
      BY <3>1, ModSum, a + 1 + k = a + k + 1
  <2>2. CASE a + 1 = N
    BY <2>2, ModNext, ModSum
  <2>3. QED
    BY <2>1, <2>2
<1>3. (((a + k) % N) + 1) % N = IF a + k + 1 < N THEN a + k + 1 ELSE a + k + 1 - N
  <2>1. CASE a + k < N
    BY <2>1, ModSum, ModNext, a + k \in 0..N-1
  <2>2. CASE a + k >= N
    BY <2>2, ModSum, ModNext, a + k - N \in 0..N-1
  <2>3. QED
    BY <2>1, <2>2
<1>4. QED
  BY <1>1, <1>2, <1>3

(* Two positions less than a lap ahead of the same one differ when their   *)
(* distances do.                                                           *)
LEMMA ModDistinct ==
  ASSUME NEW N \in Nat, N > 0, NEW a \in 0..N-1,
         NEW j \in 0..N-1, NEW k \in 0..N-1, j # k
  PROVE  (a + j) % N # (a + k) % N
  BY ModSum
(***************************************************************************)
(* Remainders of unbounded counters.                                       *)
(***************************************************************************)

LEMMA ModDiv ==
  ASSUME NEW N \in Nat, N > 0, NEW a \in Int
  PROVE  /\ a % N \in 0..N-1
         /\ a = N * (a \div N) + (a % N)
         /\ a \div N \in Int
  OBVIOUS

(* A quotient and a remainder determine each other. *)
LEMMA ModUnique ==
  ASSUME NEW N \in Nat, N > 0, NEW q \in Int, NEW m \in 0..N-1
  PROVE  (N * q + m) % N = m
<1> DEFINE a == N * q + m
           p == a \div N
           r == a % N
<1>1. r \in 0..N-1 /\ N * q + m = N * p + r /\ p \in Int
  BY a \in Int, ModDiv
<1>. HIDE DEF a, p, r
<1>2. p = q
  <2>1. CASE p > q
    BY <1>1, <2>1, N * p >= N * q + N
  <2>2. CASE q > p
    BY <1>1, <2>2, N * q >= N * p + N
  <2>3. QED
    BY <1>1, <2>1, <2>2
<1>3. r = m
  BY <1>1, <1>2
<1>4. QED
  BY <1>3 DEF r, a

(* Whole laps do not count. *)
LEMMA ModLap ==
  ASSUME NEW N \in Nat, N > 0, NEW q \in Int, NEW x \in Int
  PROVE  (N * q + x) % N = x % N
<1>1. x % N \in 0..N-1 /\ x = N * (x \div N) + (x % N) /\ x \div N \in Int
  BY ModDiv
<1>2. N * q + x = N * (q + x \div N) + (x % N)
  BY <1>1
<1>3. QED
  BY <1>1, <1>2, ModUnique, q + x \div N \in Int

(* A cursor that is advanced modulo N follows its counter. *)
LEMMA ModPlus ==
  ASSUME NEW N \in Nat, N > 0, NEW a \in Int, NEW j \in Int
  PROVE  ((a % N) + j) % N = (a + j) % N
<1>1. a % N \in 0..N-1 /\ a = N * (a \div N) + (a % N) /\ a \div N \in Int
  BY ModDiv
<1>2. a + j = N * (a \div N) + ((a % N) + j)
  BY <1>1
<1>3. PICK q \in Int, y \in Int : q = a \div N /\ y = (a % N) + j
  BY <1>1
<1>4. (N * q + y) % N = y % N
  BY ModLap
<1>5. QED
  BY <1>2, <1>3, <1>4

(* Two counters less than a lap apart are at different positions, and      *)
(* their distance can be read off the positions.                           *)
LEMMA ModApart ==
  ASSUME NEW N \in Nat, N > 0, NEW a \in Int, NEW b \in Int, a <= b, b < a + N
  PROVE  /\ a % N = b % N => a = b
         /\ b - a = IF a % N <= b % N THEN (b % N) - (a % N) ELSE N + (b % N) - (a % N)
<1> DEFINE p == a % N
           k == b - a
<1>1. p \in 0..N-1 /\ k \in 0..N-1
  BY ModDiv
<1>2. b % N = (p + k) % N
  <2>1. ((a % N) + (b - a)) % N = (a + (b - a)) % N
    BY ModPlus, b - a \in Int
  <2>2. a + (b - a) = b
    OBVIOUS
  <2>3. QED
    BY <2>1, <2>2
<1>3. b % N = IF p + k < N THEN p + k ELSE p + k - N
  <2> HIDE DEF p, k
  <2>1. QED
    BY <1>1, <1>2, ModSum
<1>4. /\ p = b % N => k = 0
      /\ k = IF p <= b % N THEN (b % N) - p ELSE N + (b % N) - p
  <2> HIDE DEF p, k
  <2>1. QED
    BY <1>1, <1>3
<1>5. k = 0 => a = b
  OBVIOUS
<1>6. QED
  BY <1>4, <1>5
=============================================================================
