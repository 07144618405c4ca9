----------------------------- MODULE TmuProofs -----------------------------
(***************************************************************************)
(* The timers count as if they stepped tick by tick, in either build and    *)
(* for every word, clock and order of accesses.  sh4_tmu_advance_channel     *)
(* counts underflow by underflow and EagerTimer tick by tick; both are       *)
(* recursive, so their meaning is found by induction over the ticks.        *)
(***************************************************************************)
EXTENDS Tmu, TLAPS, WellFoundedInduction

-----------------------------------------------------------------------------
(* Induction over numbers, for a set instead of a predicate.                *)
Less == {p \in Nat \X Nat : p[1] < p[2]}

(* Every set of numbers that is not empty has a least one.                *)
LEMMA LeastNumber ==
  ASSUME NEW T, T \subseteq Nat, T # {}
  PROVE  \E x \in T : \A y \in T : x <= y
<1>1. IsWellFoundedOn(Less, Nat)
  <2>1. OpToRel(<, Nat) = Less
    BY DEF OpToRel, Less
  <2> QED
    BY <2>1, NatLessThanWellFounded
<1>2. PICK x \in T : \A y \in T : ~(<<y, x>> \in Less)
  BY <1>1, WFMin
<1>3. ASSUME NEW y \in T PROVE x <= y
  <2>1. <<y, x>> \in Nat \X Nat
    OBVIOUS
  <2>2. ~(y < x)
    BY <1>2, <2>1 DEF Less
  <2> QED
    BY <2>2
<1> QED
  BY <1>3

(* Induction, from the least number that is not in the set.               *)
LEMMA Induction ==
  ASSUME NEW S, 0 \in S, \A n \in Nat : n \in S => n + 1 \in S
  PROVE  \A n \in Nat : n \in S
<1> DEFINE T == {n \in Nat : n \notin S}
<1> SUFFICES ASSUME T # {} PROVE FALSE
  OBVIOUS
<1>1. T \subseteq Nat
  OBVIOUS
<1> HIDE DEF T
<1>2. PICK x \in T : \A y \in T : x <= y
  BY <1>1, LeastNumber
<1>3. x \in Nat /\ x # 0
  BY <1>1, <1>2 DEF T
<1>4. x - 1 \in Nat /\ ~(x <= x - 1)
  BY <1>3
<1>5. x - 1 \in S
  BY <1>2, <1>4 DEF T
<1>6. (x - 1) + 1 \in S
  BY <1>4, <1>5
<1> QED
  BY <1>2, <1>3, <1>6 DEF T

(* Strong induction.                                                       *)
LEMMA Descent ==
  ASSUME NEW S, \A n \in Nat : (\A m \in 0..n - 1 : m \in S) => n \in S
  PROVE  \A n \in Nat : n \in S
<1> DEFINE T == {n \in Nat : n \notin S}
<1> SUFFICES ASSUME T # {} PROVE FALSE
  OBVIOUS
<1>1. T \subseteq Nat
  OBVIOUS
<1> HIDE DEF T
<1>2. PICK x \in T : \A y \in T : x <= y
  BY <1>1, LeastNumber
<1>3. x \in Nat /\ x \notin S
  BY <1>2 DEF T
<1>4. ASSUME NEW m \in 0..x - 1 PROVE m \in S
  <2>1. m \in Nat /\ ~(x <= m)
    BY <1>3
  <2> QED
    BY <1>2, <2>1 DEF T
<1> QED
  BY <1>3, <1>4

-----------------------------------------------------------------------------
(* Arithmetic of ticks.                                                    *)
LEMMA Division ==
  ASSUME NEW p \in Nat \ {0}, NEW k \in Nat
  PROVE  k \div p \in Nat /\ k % p \in Nat /\ k = p * (k \div p) + (k % p) /\ k % p < p
OBVIOUS

(* And that nothing else does.                                            *)
LEMMA Quotient ==
  ASSUME NEW p \in Nat \ {0}, NEW q \in Nat, NEW r \in Nat, r < p
  PROVE  (p * q + r) \div p = q /\ (p * q + r) % p = r
OBVIOUS

(* Cycles passed at once are the ticks of the first part, and those of the  *)
(* rest it leaves together with the second.                                *)
LEMMA Ticks ==
  ASSUME NEW p \in Nat \ {0}, NEW a \in Nat, NEW b \in Nat
  PROVE  /\ (a + b) \div p = (a \div p) + (((a % p) + b) \div p)
         /\ (a + b) % p = ((a % p) + b) % p
<1> DEFINE q == a \div p
           r == a % p
           c == r + b
           s == c \div p
           t == c % p
<1>1. q \in Nat /\ r \in Nat /\ a = p * q + r
  BY Division
<1>2. c \in Nat
  BY <1>1
<1> HIDE DEF c
<1>3. s \in Nat /\ t \in Nat /\ c = p * s + t /\ t < p
  BY <1>2, Division
<1> HIDE DEF q, r, s, t
<1>4. p * (q + s) = p * q + p * s /\ q + s \in Nat
  BY <1>1, <1>3
<1>5. a + b = p * (q + s) + t
  BY <1>1, <1>3, <1>4 DEF c
<1>6. (a + b) \div p = q + s /\ (a + b) % p = t
  BY <1>3, <1>4, <1>5, Quotient
<1> QED
  BY <1>6 DEF q, r, s, t, c

-----------------------------------------------------------------------------
(* Channels of the unit and timers as the guest knows them.                 *)
Timers == [tcor : Values, tcnt : Values, tcr : Controls, rest : Nat]

Chans == [tcor : Values, tcnt : Values, tcr : Controls, rest : Nat, lazy : Nat]

View(ch) == [tcor |-> ch.tcor, tcnt |-> ch.tcnt, tcr |-> ch.tcr, rest |-> ch.rest]

(* A counter holds the numbers below Word.                                *)
LEMMA Counts ==
  /\ Word \in Nat \ {0}
  /\ \A v \in Values : v \in Nat /\ v < Word
  /\ \A v \in Nat : v < Word => v \in Values
BY TmuAssumption DEF Values

(* Setting the underflow flag changes nothing else of a control.          *)
LEMMA RaisedFlag ==
  ASSUME NEW k \in Controls, NEW u \in BOOLEAN
  PROVE  /\ [k EXCEPT !.unf = u] \in Controls /\ [k EXCEPT !.unf = u].tpsc = k.tpsc
         /\ [k EXCEPT !.unf = u].unie = k.unie /\ [k EXCEPT !.unf = u].unf = u
BY DEF Controls

(* Timers are equal when all their registers are.                         *)
LEMMA SameTimer ==
  ASSUME NEW t \in Timers, NEW u \in Timers, t.tcor = u.tcor, t.tcnt = u.tcnt, t.rest = u.rest,
         t.tcr.tpsc = u.tcr.tpsc, t.tcr.unie = u.tcr.unie, t.tcr.unf = u.tcr.unf
  PROVE  t = u
<1>1. t.tcr = u.tcr
  <2>1. t.tcr \in Controls /\ u.tcr \in Controls
    BY DEF Timers
  <2> QED
    BY <2>1 DEF Controls
<1> QED
  BY <1>1 DEF Timers

(* What one tick does to a timer.                                         *)
LEMMA DownKeeps ==
  ASSUME NEW t \in Timers
  PROVE  /\ Eager!Down(t) \in Timers
         /\ Eager!Down(t).tcor = t.tcor /\ Eager!Down(t).rest = t.rest
         /\ Eager!Down(t).tcr.tpsc = t.tcr.tpsc /\ Eager!Down(t).tcr.unie = t.tcr.unie
         /\ t.tcnt = 0 => Eager!Down(t).tcnt = t.tcor /\ Eager!Down(t).tcr.unf = TRUE
         /\ t.tcnt # 0 => Eager!Down(t).tcnt = t.tcnt - 1 /\ Eager!Down(t).tcr = t.tcr
<1>1. t.tcnt \in Nat /\ t.tcnt < Word /\ t.tcor \in Values /\ t.tcr \in Controls
  BY Counts DEF Timers
<1>2. CASE t.tcnt = 0
  <2> DEFINE c == t.tcor
             k == t.tcr
             r == [k EXCEPT !.unf = TRUE]
             s == [t EXCEPT !.tcnt = c]
             x == [s EXCEPT !.tcr = r]
  <2>1. Eager!Down(t) = x
    BY <1>2, Zenon DEF Eager!Down, Timers
  <2>2. r \in Controls /\ r.tpsc = k.tpsc /\ r.unie = k.unie /\ r.unf = TRUE
    BY <1>1, RaisedFlag
  <2>3. c \in Values /\ c = t.tcor /\ k = t.tcr
    BY <1>1
  <2> HIDE DEF c, k, r
  <2>4. s \in Timers /\ s.tcor = t.tcor /\ s.tcnt = c /\ s.rest = t.rest
    BY <2>3 DEF Timers
  <2> HIDE DEF s
  <2>5. x \in Timers /\ x.tcor = t.tcor /\ x.tcnt = c /\ x.tcr = r /\ x.rest = t.rest
    BY <2>2, <2>4 DEF Timers
  <2> HIDE DEF x
  <2> QED
    BY <1>2, <2>1, <2>2, <2>3, <2>5
<1>3. CASE t.tcnt # 0
  <2>1. Eager!Down(t) = [t EXCEPT !.tcnt = t.tcnt - 1]
    BY <1>3, Zenon DEF Eager!Down
  <2>2. t.tcnt - 1 \in Values
    BY <1>1, <1>3, Counts
  <2> QED
    BY <1>3, <2>1, <2>2 DEF Timers
<1> QED
  BY <1>2, <1>3

(* The steps of a timer, as a sequence of n of them.                        *)
Stepping(f, t, n) == f = [k \in 0..n |-> IF k = 0 THEN t ELSE Eager!Down(f[k - 1])]

(* There is such a sequence of any length,                                *)
LEMMA SteppingExists ==
  ASSUME NEW t
  PROVE  \A n \in Nat : \E f : Stepping(f, t, n)
<1> DEFINE S == {n \in Nat : \E f : Stepping(f, t, n)}
<1>1. 0 \in S
  <2> DEFINE f == [k \in 0..0 |-> t]
  <2>1. Stepping(f, t, 0)
    BY DEF Stepping
  <2> QED
    BY <2>1
<1>2. ASSUME NEW n \in Nat, n \in S PROVE n + 1 \in S
  <2>1. PICK f : Stepping(f, t, n)
    BY <1>2
  <2> DEFINE g == [k \in 0..n + 1 |-> IF k = n + 1 THEN Eager!Down(f[n]) ELSE f[k]]
             h == [k \in 0..n + 1 |-> IF k = 0 THEN t ELSE Eager!Down(g[k - 1])]
  <2>2. ASSUME NEW k \in 0..n + 1 PROVE g[k] = h[k]
    <3>1. CASE k = 0
      BY <2>1, <3>1 DEF Stepping
    <3>2. CASE k = n + 1
      <4>1. k - 1 = n /\ k - 1 \in 0..n + 1 /\ k - 1 # n + 1 /\ k # 0
        BY <3>2
      <4>2. g[k - 1] = f[n]
        BY <4>1
      <4> QED
        BY <3>2, <4>1, <4>2
    <3>3. CASE k # 0 /\ k # n + 1
      <4>1. k - 1 \in 0..n + 1 /\ k - 1 # n + 1 /\ k \in 0..n
        BY <3>3
      <4>2. g[k - 1] = f[k - 1] /\ g[k] = f[k]
        BY <3>3, <4>1
      <4>3. f[k] = Eager!Down(f[k - 1])
        BY <2>1, <3>3, <4>1 DEF Stepping
      <4> QED
        BY <3>3, <4>2, <4>3
    <3> QED
      BY <3>1, <3>2, <3>3
  <2>3. g = h
    BY <2>2, Zenon
  <2>4. Stepping(g, t, n + 1)
    BY <2>3, Zenon DEF Stepping
  <2> QED
    BY <2>4
<1> HIDE DEF S
<1>3. \A n \in Nat : n \in S
  BY <1>1, <1>2, Induction
<1> QED
  BY <1>3 DEF S

(* and a longer one continues a shorter one.                              *)
LEMMA SteppingUnique ==
  ASSUME NEW t, NEW m \in Nat, NEW n \in Nat, m <= n, NEW f, NEW g, Stepping(f, t, m), Stepping(g, t, n)
  PROVE  \A k \in 0..m : f[k] = g[k]
<1> DEFINE S == {k \in Nat : k <= m => f[k] = g[k]}
<1>1. 0 \in S
  BY DEF Stepping
<1>2. ASSUME NEW k \in Nat, k \in S PROVE k + 1 \in S
  <2> SUFFICES ASSUME k + 1 <= m PROVE f[k + 1] = g[k + 1]
    OBVIOUS
  <2>1. k + 1 \in 0..m /\ k + 1 \in 0..n /\ k + 1 # 0 /\ (k + 1) - 1 = k /\ k <= m
    OBVIOUS
  <2>2. f[k + 1] = Eager!Down(f[k]) /\ g[k + 1] = Eager!Down(g[k])
    BY <2>1 DEF Stepping
  <2> QED
    BY <1>2, <2>1, <2>2
<1> HIDE DEF S
<1>3. \A k \in Nat : k \in S
  BY <1>1, <1>2, Induction
<1> QED
  BY <1>3 DEF S

(* The equations of After.                                                  *)
LEMMA AfterSteps ==
  ASSUME NEW t
  PROVE  /\ Eager!After(t, 0) = t
         /\ \A n \in Nat : Eager!After(t, n + 1) = Eager!Down(Eager!After(t, n))
<1> DEFINE F(n) == CHOOSE f : Stepping(f, t, n)
<1>1. ASSUME NEW n \in Nat PROVE Stepping(F(n), t, n) /\ Eager!After(t, n) = F(n)[n]
  <2>1. Stepping(F(n), t, n)
    BY SteppingExists
  <2>2. Eager!After(t, n) = F(n)[n]
    BY DEF Eager!After, Stepping
  <2> QED
    BY <2>1, <2>2
<1> HIDE DEF F
<1>2. Eager!After(t, 0) = t
  <2>1. F(0)[0] = t
    BY <1>1 DEF Stepping
  <2> QED
    BY <1>1, <2>1
<1>3. ASSUME NEW n \in Nat PROVE Eager!After(t, n + 1) = Eager!Down(Eager!After(t, n))
  <2>1. n + 1 \in Nat /\ n + 1 # 0 /\ n + 1 \in 0..n + 1 /\ (n + 1) - 1 = n /\ n \in 0..n /\ n <= n + 1
    OBVIOUS
  <2>2. Stepping(F(n), t, n) /\ Stepping(F(n + 1), t, n + 1)
    BY <1>1, <2>1
  <2>3. F(n)[n] = F(n + 1)[n]
    BY <2>1, <2>2, SteppingUnique
  <2>4. F(n + 1)[n + 1] = Eager!Down(F(n + 1)[n])
    BY <2>1, <2>2 DEF Stepping
  <2> QED
    BY <1>1, <2>1, <2>3, <2>4
<1> QED
  BY <1>2, <1>3

(* Ticks change the count and raise the flag, nothing else.               *)
LEMMA AfterKeeps ==
  ASSUME NEW t \in Timers
  PROVE  \A n \in Nat : /\ Eager!After(t, n) \in Timers
                        /\ Eager!After(t, n).tcor = t.tcor /\ Eager!After(t, n).rest = t.rest
                        /\ Eager!After(t, n).tcr.tpsc = t.tcr.tpsc /\ Eager!After(t, n).tcr.unie = t.tcr.unie
                        /\ t.tcr.unf => Eager!After(t, n).tcr.unf
<1> DEFINE A(n) == Eager!After(t, n)
           S == {n \in Nat : /\ A(n) \in Timers /\ A(n).tcor = t.tcor /\ A(n).rest = t.rest
                             /\ A(n).tcr.tpsc = t.tcr.tpsc /\ A(n).tcr.unie = t.tcr.unie
                             /\ t.tcr.unf => A(n).tcr.unf}
<1>1. A(0) = t /\ \A n \in Nat : A(n + 1) = Eager!Down(A(n))
  BY AfterSteps
<1> HIDE DEF A
<1>2. 0 \in S
  BY <1>1
<1>3. ASSUME NEW n \in Nat, n \in S PROVE n + 1 \in S
  <2> DEFINE a == A(n)
             b == Eager!Down(a)
  <2>1. /\ a \in Timers /\ a.tcor = t.tcor /\ a.rest = t.rest /\ a.tcr.tpsc = t.tcr.tpsc /\ a.tcr.unie = t.tcr.unie
        /\ t.tcr.unf => a.tcr.unf
    BY <1>3
  <2>2. A(n + 1) = b
    BY <1>1
  <2> HIDE DEF a
  <2>3. /\ b \in Timers /\ b.tcor = a.tcor /\ b.rest = a.rest /\ b.tcr.tpsc = a.tcr.tpsc /\ b.tcr.unie = a.tcr.unie
        /\ b.tcr.unf = TRUE \/ b.tcr = a.tcr
    BY <2>1, DownKeeps
  <2> HIDE DEF b
  <2>4. t.tcr.unf => b.tcr.unf
    BY <2>1, <2>3
  <2> QED
    BY <2>1, <2>2, <2>3, <2>4
<1> HIDE DEF S
<1>4. \A n \in Nat : n \in S
  BY <1>2, <1>3, Induction
<1> QED
  BY <1>4 DEF S, A

(* Ticks add up.                                                          *)
LEMMA AfterComposes ==
  ASSUME NEW t, NEW m \in Nat
  PROVE  \A n \in Nat : Eager!After(t, m + n) = Eager!After(Eager!After(t, m), n)
<1> DEFINE S == {n \in Nat : Eager!After(t, m + n) = Eager!After(Eager!After(t, m), n)}
<1>1. 0 \in S
  BY AfterSteps
<1>2. ASSUME NEW n \in Nat, n \in S PROVE n + 1 \in S
  <2>1. m + (n + 1) = (m + n) + 1 /\ m + n \in Nat
    OBVIOUS
  <2>2. Eager!After(t, (m + n) + 1) = Eager!Down(Eager!After(t, m + n))
    BY <2>1, AfterSteps
  <2>3. Eager!After(Eager!After(t, m), n + 1) = Eager!Down(Eager!After(Eager!After(t, m), n))
    BY AfterSteps
  <2> QED
    BY <1>2, <2>1, <2>2, <2>3
<1> HIDE DEF S
<1>3. \A n \in Nat : n \in S
  BY <1>1, <1>2, Induction
<1> QED
  BY <1>3 DEF S

(* Up to the underflow a timer counts down.                                 *)
LEMMA AfterWithin ==
  ASSUME NEW t \in Timers
  PROVE  \A n \in Nat : n <= t.tcnt => Eager!After(t, n).tcnt = t.tcnt - n /\ Eager!After(t, n).tcr = t.tcr
<1> DEFINE A(n) == Eager!After(t, n)
           S == {n \in Nat : n <= t.tcnt => A(n).tcnt = t.tcnt - n /\ A(n).tcr = t.tcr}
<1>1. A(0) = t /\ \A n \in Nat : A(n + 1) = Eager!Down(A(n)) /\ A(n) \in Timers
  BY AfterSteps, AfterKeeps
<1>2. t.tcnt \in Nat
  BY Counts DEF Timers
<1> HIDE DEF A
<1>3. 0 \in S
  BY <1>1, <1>2
<1>4. ASSUME NEW n \in Nat, n \in S PROVE n + 1 \in S
  <2> SUFFICES ASSUME n + 1 <= t.tcnt PROVE A(n + 1).tcnt = t.tcnt - (n + 1) /\ A(n + 1).tcr = t.tcr
    OBVIOUS
  <2>1. A(n).tcnt = t.tcnt - n /\ A(n).tcr = t.tcr /\ A(n).tcnt # 0
    BY <1>2, <1>4
  <2>2. Eager!Down(A(n)).tcnt = A(n).tcnt - 1 /\ Eager!Down(A(n)).tcr = A(n).tcr
    BY <1>1, <2>1, DownKeeps
  <2> QED
    BY <1>1, <1>2, <2>1, <2>2
<1> HIDE DEF S
<1>5. \A n \in Nat : n \in S
  BY <1>3, <1>4, Induction
<1> QED
  BY <1>5 DEF S, A

(* The tick after that reloads it and raises its flag.                      *)
LEMMA AfterUnderflow ==
  ASSUME NEW t \in Timers
  PROVE  /\ Eager!After(t, t.tcnt + 1) \in Timers
         /\ Eager!After(t, t.tcnt + 1).tcnt = t.tcor /\ Eager!After(t, t.tcnt + 1).tcr.unf = TRUE
<1> DEFINE A(n) == Eager!After(t, n)
<1>1. t.tcnt \in Nat
  BY Counts DEF Timers
<1>2. A(t.tcnt).tcnt = t.tcnt - t.tcnt /\ A(t.tcnt).tcor = t.tcor /\ A(t.tcnt) \in Timers
  BY <1>1, AfterWithin, AfterKeeps
<1>3. A(t.tcnt + 1) = Eager!Down(A(t.tcnt))
  BY <1>1, AfterSteps
<1> HIDE DEF A
<1>4. A(t.tcnt + 1) \in Timers /\ A(t.tcnt + 1).tcnt = t.tcor /\ A(t.tcnt + 1).tcr.unf = TRUE
  <2> DEFINE a == A(t.tcnt)
  <2>1. a \in Timers /\ a.tcnt = 0 /\ a.tcor = t.tcor
    BY <1>1, <1>2
  <2>2. A(t.tcnt + 1) = Eager!Down(a)
    BY <1>3
  <2> HIDE DEF a
  <2> QED
    BY <2>1, <2>2, DownKeeps
<1> QED
  BY <1>4 DEF A

(* What the count and the control become depends on nothing else.           *)
LEMMA AfterAlike ==
  ASSUME NEW t \in Timers, NEW u \in Timers, t.tcor = u.tcor, t.tcnt = u.tcnt
  PROVE  \A n \in Nat : /\ Eager!After(t, n).tcnt = Eager!After(u, n).tcnt
                        /\ t.tcr = u.tcr => Eager!After(t, n).tcr = Eager!After(u, n).tcr
<1> DEFINE A(n) == Eager!After(t, n)
           B(n) == Eager!After(u, n)
           S == {n \in Nat : A(n).tcnt = B(n).tcnt /\ (t.tcr = u.tcr => A(n).tcr = B(n).tcr)}
<1>1. A(0) = t /\ B(0) = u
  BY AfterSteps
<1>2. ASSUME NEW n \in Nat
      PROVE  /\ A(n + 1) = Eager!Down(A(n)) /\ B(n + 1) = Eager!Down(B(n))
             /\ A(n) \in Timers /\ B(n) \in Timers /\ A(n).tcor = t.tcor /\ B(n).tcor = u.tcor
  BY AfterSteps, AfterKeeps
<1> HIDE DEF A, B
<1>3. 0 \in S
  BY <1>1
<1>4. ASSUME NEW n \in Nat, n \in S PROVE n + 1 \in S
  <2> DEFINE a == A(n)
             b == B(n)
  <2>1. a \in Timers /\ b \in Timers /\ a.tcor = b.tcor /\ a.tcnt = b.tcnt
    BY <1>2, <1>4
  <2>2. A(n + 1) = Eager!Down(a) /\ B(n + 1) = Eager!Down(b)
    BY <1>2
  <2>3. t.tcr = u.tcr => a.tcr = b.tcr
    BY <1>4
  <2> HIDE DEF a, b
  <2> DEFINE c == Eager!Down(a)
             d == Eager!Down(b)
  <2>6. /\ c \in Timers /\ c.tcr.tpsc = a.tcr.tpsc /\ c.tcr.unie = a.tcr.unie
        /\ a.tcnt = 0 => c.tcnt = a.tcor /\ c.tcr.unf = TRUE
        /\ a.tcnt # 0 => c.tcnt = a.tcnt - 1 /\ c.tcr = a.tcr
    BY <2>1, DownKeeps
  <2>7. /\ d \in Timers /\ d.tcr.tpsc = b.tcr.tpsc /\ d.tcr.unie = b.tcr.unie
        /\ b.tcnt = 0 => d.tcnt = b.tcor /\ d.tcr.unf = TRUE
        /\ b.tcnt # 0 => d.tcnt = b.tcnt - 1 /\ d.tcr = b.tcr
    BY <2>1, DownKeeps
  <2> HIDE DEF c, d
  <2>4. c.tcnt = d.tcnt
    BY <2>1, <2>6, <2>7
  <2>5. a.tcr = b.tcr => c.tcr = d.tcr
    <3>1. c.tcr \in Controls /\ d.tcr \in Controls
      BY <2>6, <2>7 DEF Timers
    <3>2. c.tcr = [tpsc |-> c.tcr.tpsc, unie |-> c.tcr.unie, unf |-> c.tcr.unf]
      BY <3>1 DEF Controls
    <3>3. d.tcr = [tpsc |-> d.tcr.tpsc, unie |-> d.tcr.unie, unf |-> d.tcr.unf]
      BY <3>1 DEF Controls
    <3>4. CASE a.tcnt = 0
      BY <2>1, <2>6, <2>7, <3>2, <3>3, <3>4
    <3>5. CASE a.tcnt # 0
      BY <2>1, <2>6, <2>7, <3>5
    <3> QED
      BY <3>4, <3>5
  <2> QED
    BY <2>2, <2>3, <2>4, <2>5 DEF c, d
<1> HIDE DEF S
<1>5. \A n \in Nat : n \in S
  BY <1>3, <1>4, Induction
<1> QED
  BY <1>5 DEF S, A, B

-----------------------------------------------------------------------------
(* The recursion of sh4_tmu_advance_channel.                                *)
Counting(f, reload, n) ==
  f = [d \in 0..n |-> [v \in Values |-> IF d < v + 1 THEN v - d ELSE f[d - (v + 1)][reload]]]

(* A timer with this count and this reload value.                           *)
Fresh(reload, v) == [tcor |-> reload, tcnt |-> v, tcr |-> [tpsc |-> 0, unie |-> FALSE, unf |-> FALSE], rest |-> 0]

LEMMA FreshIs ==
  ASSUME NEW reload \in Values, NEW v \in Values
  PROVE  Fresh(reload, v) \in Timers /\ Fresh(reload, v).tcor = reload /\ Fresh(reload, v).tcnt = v
BY TmuAssumption DEF Fresh, Timers, Controls

(* The steps of a timer obey it.                                            *)
LEMMA FreshCounts ==
  ASSUME NEW reload \in Values, NEW v \in Values, NEW d \in Nat
  PROVE  /\ d < v + 1 => Eager!After(Fresh(reload, v), d).tcnt = v - d
         /\ ~(d < v + 1) => /\ d - (v + 1) \in 0..d - 1
                            /\ Eager!After(Fresh(reload, v), d).tcnt = Eager!After(Fresh(reload, reload), d - (v + 1)).tcnt
<1> DEFINE t == Fresh(reload, v)
           u == Fresh(reload, reload)
<1>1. t \in Timers /\ t.tcor = reload /\ t.tcnt = v /\ u \in Timers /\ u.tcor = reload /\ u.tcnt = reload /\ v \in Nat
  BY FreshIs, Counts
<1> HIDE DEF t, u
<1>2. d < v + 1 => Eager!After(t, d).tcnt = v - d
  BY <1>1, AfterWithin
<1>3. ASSUME ~(d < v + 1)
      PROVE  d - (v + 1) \in 0..d - 1 /\ Eager!After(t, d).tcnt = Eager!After(u, d - (v + 1)).tcnt
  <2> DEFINE e == d - (v + 1)
             w == Eager!After(t, v + 1)
  <2>1. e \in 0..d - 1 /\ e \in Nat /\ v + 1 \in Nat /\ (v + 1) + e = d
    BY <1>1, <1>3
  <2>2. Eager!After(t, (v + 1) + e) = Eager!After(w, e)
    <3> HIDE DEF e
    <3> QED
      BY <2>1, AfterComposes
  <2>3. w \in Timers /\ w.tcnt = reload /\ w.tcor = reload
    BY <1>1, <2>1, AfterUnderflow, AfterKeeps
  <2> HIDE DEF e, w
  <2>4. Eager!After(w, e).tcnt = Eager!After(u, e).tcnt
    BY <1>1, <2>1, <2>3, AfterAlike
  <2> QED
    BY <2>1, <2>2, <2>4 DEF e
<1> QED
  BY <1>2, <1>3 DEF t, u

(* So the recursion has a solution,                                       *)
LEMMA CountingExists ==
  ASSUME NEW reload \in Values, NEW n \in Nat
  PROVE  \E f : Counting(f, reload, n)
<1> DEFINE a(v, d) == Eager!After(Fresh(reload, v), d).tcnt
           f == [d \in 0..n |-> [v \in Values |-> a(v, d)]]
           g == [d \in 0..n |-> [v \in Values |-> IF d < v + 1 THEN v - d ELSE f[d - (v + 1)][reload]]]
<1>1. ASSUME NEW d \in 0..n, NEW v \in Values
      PROVE  a(v, d) = IF d < v + 1 THEN v - d ELSE f[d - (v + 1)][reload]
  <2>1. d \in Nat /\ (~(d < v + 1) => d - (v + 1) \in 0..d - 1 /\ d - (v + 1) \in 0..n)
    BY FreshCounts
  <2>2. ~(d < v + 1) => f[d - (v + 1)][reload] = a(reload, d - (v + 1))
    <3> HIDE DEF a
    <3> QED
      BY <2>1
  <2>3. /\ d < v + 1 => a(v, d) = v - d
        /\ ~(d < v + 1) => a(v, d) = a(reload, d - (v + 1))
    BY <2>1, FreshCounts
  <2> HIDE DEF a, f
  <2> QED
    BY <2>2, <2>3
<1>2. f = g
  <2>1. \A d \in 0..n : [v \in Values |-> a(v, d)] = [v \in Values |-> IF d < v + 1 THEN v - d ELSE f[d - (v + 1)][reload]]
    <3> HIDE DEF a, f
    <3> QED
      BY <1>1
  <2> HIDE DEF a
  <2> QED
    BY <2>1, Zenon
<1>3. Counting(f, reload, n)
  BY <1>2, Zenon DEF Counting
<1> QED
  BY <1>3

(* and its value is the count of the eager timer after that many ticks.   *)
LEMMA CountingIs ==
  ASSUME NEW reload \in Values, NEW n \in Nat, NEW f, Counting(f, reload, n)
  PROVE  \A d \in 0..n : \A v \in Values : f[d][v] = Eager!After(Fresh(reload, v), d).tcnt
<1> DEFINE a(v, d) == Eager!After(Fresh(reload, v), d).tcnt
           S == {d \in Nat : d <= n => \A v \in Values : f[d][v] = a(v, d)}
<1>1. ASSUME NEW v \in Values, NEW d \in Nat
      PROVE  /\ d < v + 1 => a(v, d) = v - d
             /\ ~(d < v + 1) => d - (v + 1) \in 0..d - 1 /\ a(v, d) = a(reload, d - (v + 1))
  BY FreshCounts
<1> HIDE DEF a
<1>2. ASSUME NEW d \in Nat, \A m \in 0..d - 1 : m \in S PROVE d \in S
  <2> SUFFICES ASSUME d <= n, NEW v \in Values PROVE f[d][v] = a(v, d)
    OBVIOUS
  <2>1. f[d][v] = IF d < v + 1 THEN v - d ELSE f[d - (v + 1)][reload]
    <3>1. d \in 0..n
      OBVIOUS
    <3>2. f[d] = [w \in Values |-> IF d < w + 1 THEN w - d ELSE f[d - (w + 1)][reload]]
      BY <3>1, Zenon DEF Counting
    <3> QED
      BY <3>2
  <2>2. CASE d < v + 1
    BY <1>1, <2>1, <2>2
  <2>3. CASE ~(d < v + 1)
    <3>1. d - (v + 1) \in 0..d - 1 /\ a(v, d) = a(reload, d - (v + 1))
      BY <1>1, <2>3
    <3>2. d - (v + 1) \in S /\ d - (v + 1) <= n
      BY <1>2, <3>1
    <3>3. f[d - (v + 1)][reload] = a(reload, d - (v + 1))
      BY <3>2
    <3> QED
      BY <2>1, <2>3, <3>1, <3>3
  <2> QED
    BY <2>2, <2>3
<1> HIDE DEF S
<1>3. \A d \in Nat : d \in S
  BY <1>2, Descent
<1> QED
  BY <1>3 DEF S, a

-----------------------------------------------------------------------------
(* The two timers agree.                                                    *)
LEMMA ViewIs ==
  ASSUME NEW ch \in Chans
  PROVE  /\ View(ch) \in Timers /\ View(ch).tcor = ch.tcor /\ View(ch).tcnt = ch.tcnt
         /\ View(ch).tcr = ch.tcr /\ View(ch).rest = ch.rest
BY DEF View, Chans, Timers

(* Timers with equal fields are equal.                                    *)
LEMMA SameTimers ==
  ASSUME NEW t \in Timers, NEW u \in Timers, t.tcor = u.tcor, t.tcnt = u.tcnt, t.tcr = u.tcr, t.rest = u.rest
  PROVE  t = u
BY DEF Timers

(* The flag is raised by the first underflow, and no tick lowers it.        *)
LEMMA AfterFlag ==
  ASSUME NEW t \in Timers, NEW n \in Nat
  PROVE  Eager!After(t, n).tcr.unf = (t.tcr.unf \/ n > t.tcnt)
<1> DEFINE a == Eager!After(t, n)
<1>1. t.tcnt \in Nat /\ t.tcr \in Controls
  BY Counts DEF Timers
<1>2. t.tcr.unf \in BOOLEAN
  BY <1>1 DEF Controls
<1>3. a \in Timers /\ (t.tcr.unf => a.tcr.unf)
  BY AfterKeeps
<1>4. a.tcr.unf \in BOOLEAN
  <2>1. a.tcr \in Controls
    BY <1>3 DEF Timers
  <2> QED
    BY <2>1 DEF Controls
<1>5. CASE n <= t.tcnt
  <2>1. a.tcr = t.tcr
    BY <1>5, AfterWithin
  <2>2. ~(n > t.tcnt)
    BY <1>1, <1>5
  <2> HIDE DEF a
  <2>3. a.tcr.unf = (t.tcr.unf \/ n > t.tcnt)
    BY <1>2, <2>1, <2>2, Zenon
  <2> QED
    BY <2>3 DEF a
<1>6. CASE n > t.tcnt
  <2> DEFINE m == t.tcnt + 1
             e == n - m
             w == Eager!After(t, m)
  <2>1. m \in Nat /\ e \in Nat /\ m + e = n
    BY <1>1, <1>6
  <2>2. w \in Timers /\ w.tcr.unf = TRUE
    BY AfterUnderflow
  <2> HIDE DEF m, e
  <2>3. a = Eager!After(w, e)
    BY <2>1, AfterComposes
  <2> HIDE DEF w, a
  <2>4. a.tcr.unf
    BY <2>1, <2>2, <2>3, AfterKeeps
  <2>5. a.tcr.unf = (t.tcr.unf \/ n > t.tcnt)
    BY <1>2, <1>4, <1>6, <2>4, Zenon
  <2> QED
    BY <2>5 DEF a
<1> QED
  BY <1>1, <1>5, <1>6

(* sh4_tmu_advance_channel is that many ticks.                              *)
LEMMA AdvanceIsAfter ==
  ASSUME NEW ch \in Chans, NEW n \in Nat
  PROVE  /\ sh4_tmu_advance_channel(ch, n) \in Chans
         /\ sh4_tmu_advance_channel(ch, n).lazy = ch.lazy
         /\ View(sh4_tmu_advance_channel(ch, n)) = Eager!After(View(ch), n)
<1> DEFINE t == View(ch)
           a == Eager!After(t, n)
           count == CHOOSE f : Counting(f, ch.tcor, n)
           c == count[n][ch.tcnt]
           u == ch.tcr.unf \/ n > ch.tcnt
           x == [ch EXCEPT !.tcnt = c, !.tcr.unf = u]
<1>1. sh4_tmu_advance_channel(ch, n) = x
  BY DEF sh4_tmu_advance_channel, Counting
<1>2. /\ t \in Timers /\ t.tcor = ch.tcor /\ t.tcnt = ch.tcnt /\ t.tcr = ch.tcr /\ t.rest = ch.rest
      /\ ch.tcor \in Values /\ ch.tcnt \in Values
  BY ViewIs DEF Chans
<1>3. Counting(count, ch.tcor, n)
  BY <1>2, CountingExists
<1> HIDE DEF count, t
<1>4. a \in Timers /\ a.tcor = t.tcor /\ a.rest = t.rest /\ a.tcr.tpsc = t.tcr.tpsc /\ a.tcr.unie = t.tcr.unie
  BY <1>2, AfterKeeps
<1>5. c = a.tcnt
  <2> DEFINE f == Fresh(ch.tcor, ch.tcnt)
  <2>1. f \in Timers /\ f.tcor = t.tcor /\ f.tcnt = t.tcnt
    BY <1>2, FreshIs
  <2>2. c = Eager!After(f, n).tcnt
    <3>1. n \in 0..n
      OBVIOUS
    <3> QED
      BY <1>2, <1>3, <3>1, CountingIs
  <2> HIDE DEF f
  <2>3. Eager!After(f, n).tcnt = a.tcnt
    BY <1>2, <2>1, AfterAlike
  <2> QED
    BY <2>2, <2>3
<1>6. u = a.tcr.unf
  <2>1. a.tcr.unf = (t.tcr.unf \/ n > t.tcnt)
    BY <1>2, AfterFlag
  <2>2. t.tcr = ch.tcr /\ t.tcnt = ch.tcnt
    BY <1>2
  <2> HIDE DEF a
  <2> QED
    BY <2>1, <2>2, Zenon
<1>7. a.tcr \in Controls
  BY <1>4 DEF Timers
<1>8. u \in BOOLEAN /\ c \in Values
  <2> HIDE DEF u, c, a
  <2>1. a.tcr.unf \in BOOLEAN
    BY <1>7 DEF Controls
  <2>2. a.tcnt \in Values
    BY <1>4 DEF Timers
  <2> QED
    BY <1>5, <1>6, <2>1, <2>2
<1> HIDE DEF a, c, u
<1> DEFINE k == ch.tcr
           r == [k EXCEPT !.unf = u]
           s == [ch EXCEPT !.tcnt = c]
           y == [s EXCEPT !.tcr = r]
<1>12. sh4_tmu_advance_channel(ch, n) = y
  BY <1>1, Zenon DEF Chans
<1>13. r \in Controls /\ r.tpsc = ch.tcr.tpsc /\ r.unie = ch.tcr.unie /\ r.unf = u
  <2>1. k \in Controls
    BY DEF Chans
  <2> HIDE DEF k
  <2>2. r \in Controls /\ r.tpsc = k.tpsc /\ r.unie = k.unie /\ r.unf = u
    BY <1>8, <2>1, RaisedFlag
  <2> QED
    BY <2>2 DEF k
<1> HIDE DEF k, r
<1>14. s \in Chans /\ s.tcor = ch.tcor /\ s.tcnt = c /\ s.rest = ch.rest /\ s.lazy = ch.lazy
  BY <1>8 DEF Chans
<1> HIDE DEF s
<1>15. y \in Chans /\ y.tcor = ch.tcor /\ y.tcnt = c /\ y.tcr = r /\ y.rest = ch.rest /\ y.lazy = ch.lazy
  BY <1>13, <1>14 DEF Chans
<1> HIDE DEF y
<1>9. /\ y \in Chans /\ y.tcor = ch.tcor /\ y.tcnt = c /\ y.rest = ch.rest /\ y.lazy = ch.lazy
      /\ y.tcr.tpsc = ch.tcr.tpsc /\ y.tcr.unie = ch.tcr.unie /\ y.tcr.unf = u
  BY <1>13, <1>15
<1>10. y.tcr = a.tcr
  <2>1. y.tcr \in Controls
    BY <1>9 DEF Chans
  <2>2. y.tcr = [tpsc |-> y.tcr.tpsc, unie |-> y.tcr.unie, unf |-> y.tcr.unf]
    BY <2>1 DEF Controls
  <2>3. a.tcr = [tpsc |-> a.tcr.tpsc, unie |-> a.tcr.unie, unf |-> a.tcr.unf]
    BY <1>7 DEF Controls
  <2>4. y.tcr.tpsc = a.tcr.tpsc /\ y.tcr.unie = a.tcr.unie /\ y.tcr.unf = a.tcr.unf
    BY <1>2, <1>4, <1>6, <1>9
  <2> QED
    BY <2>2, <2>3, <2>4, Zenon
<1>11. View(y) = a
  <2>1. View(y) \in Timers /\ View(y).tcor = y.tcor /\ View(y).tcnt = y.tcnt /\ View(y).tcr = y.tcr /\ View(y).rest = y.rest
    BY <1>9, ViewIs
  <2> QED
    BY <1>2, <1>4, <1>5, <1>9, <1>10, <2>1, SameTimers
<1> QED
  BY <1>9, <1>11, <1>12 DEF a, t

(* The channel counts an internal clock.                                    *)
Clocked(t) == t.tcr.tpsc \in Clocks

(* A channel with a clock has a period.                                   *)
LEMMA PeriodIs ==
  ASSUME NEW t, Clocked(t)
  PROVE  Period[t.tcr.tpsc] \in Nat \ {0}
BY TmuAssumption DEF Clocked

(* What cycles do to a timer.                                             *)
LEMMA PassedIs ==
  ASSUME NEW t \in Timers, Clocked(t), NEW cycles \in Nat
  PROVE  LET p == Period[t.tcr.tpsc]
             a == Eager!After(t, (t.rest + cycles) \div p)
             x == Eager!Passed(t, cycles)
         IN  /\ x \in Timers /\ x.tcor = a.tcor /\ x.tcnt = a.tcnt /\ x.tcr = a.tcr /\ x.rest = (t.rest + cycles) % p
             /\ x.tcor = t.tcor /\ x.tcr.tpsc = t.tcr.tpsc /\ x.tcr.unie = t.tcr.unie
             /\ a \in Timers /\ (t.rest + cycles) \div p \in Nat /\ p \in Nat \ {0}
<1> DEFINE p == Period[t.tcr.tpsc]
           k == t.rest + cycles
           q == k \div p
           r == k % p
           a == Eager!After(t, q)
           x == Eager!Passed(t, cycles)
<1>1. p \in Nat \ {0} /\ k \in Nat
  BY PeriodIs DEF Timers
<1>2. x = [a EXCEPT !.rest = r]
  BY DEF Eager!Passed
<1> HIDE DEF p, k
<1>3. q \in Nat /\ r \in Nat
  BY <1>1, Division
<1> HIDE DEF q, r
<1>4. a \in Timers /\ a.tcor = t.tcor /\ a.tcr.tpsc = t.tcr.tpsc /\ a.tcr.unie = t.tcr.unie
  BY <1>3, AfterKeeps
<1> HIDE DEF a, x
<1>5. x \in Timers /\ x.tcor = a.tcor /\ x.tcnt = a.tcnt /\ x.tcr = a.tcr /\ x.rest = r
  BY <1>2, <1>3, <1>4 DEF Timers
<1>6. p \in Nat \ {0} /\ x.tcor = t.tcor /\ x.tcr.tpsc = t.tcr.tpsc /\ x.tcr.unie = t.tcr.unie
  BY <1>1, <1>4, <1>5
<1> QED
  BY <1>3, <1>4, <1>5, <1>6, Zenon DEF p, k, q, r, a, x

(* Cycles passed at once or in two parts are the same.                      *)
LEMMA PassedTwice ==
  ASSUME NEW t \in Timers, Clocked(t), NEW m \in Nat, NEW n \in Nat
  PROVE  Eager!Passed(Eager!Passed(t, m), n) = Eager!Passed(t, m + n)
<1> DEFINE p == Period[t.tcr.tpsc]
           q == (t.rest + m) \div p
           r == (t.rest + m) % p
           a == Eager!After(t, q)
           x == Eager!Passed(t, m)
           s == (r + n) \div p
           b == Eager!After(x, s)
           y == Eager!Passed(x, n)
           d == (t.rest + (m + n)) \div p
           e == Eager!After(t, d)
           z == Eager!Passed(t, m + n)
<1>1. t.rest \in Nat /\ m + n \in Nat /\ t.rest + m \in Nat /\ (t.rest + m) + n = t.rest + (m + n)
  BY DEF Timers
<1>2. /\ x \in Timers /\ x.tcor = a.tcor /\ x.tcnt = a.tcnt /\ x.tcr = a.tcr /\ x.rest = r
      /\ x.tcor = t.tcor /\ x.tcr.tpsc = t.tcr.tpsc /\ a \in Timers /\ q \in Nat /\ p \in Nat \ {0}
  BY PassedIs
<1>3. /\ z \in Timers /\ z.tcor = t.tcor /\ z.tcnt = e.tcnt /\ z.tcr = e.tcr
      /\ z.rest = (t.rest + (m + n)) % p /\ d \in Nat
  BY <1>1, PassedIs
<1>4. Clocked(x)
  <2> HIDE DEF x
  <2> QED
    BY <1>2 DEF Clocked
<1>5. /\ y \in Timers /\ y.tcor = t.tcor /\ y.tcnt = b.tcnt /\ y.tcr = b.tcr
      /\ y.rest = (r + n) % p /\ s \in Nat
  <2>1. LET pp == Period[x.tcr.tpsc]
            ee == Eager!After(x, (x.rest + n) \div pp)
        IN  /\ y \in Timers /\ y.tcor = x.tcor /\ y.tcnt = ee.tcnt /\ y.tcr = ee.tcr
            /\ y.rest = (x.rest + n) % pp /\ (x.rest + n) \div pp \in Nat
    BY <1>2, <1>4, PassedIs
  <2>2. Period[x.tcr.tpsc] = p /\ x.rest = r
    BY <1>2
  <2> HIDE DEF x, y, r, p
  <2> QED
    BY <1>2, <2>1, <2>2
<1>6. d = q + s /\ (t.rest + (m + n)) % p = (r + n) % p
  <2> DEFINE k == t.rest + m
  <2>1. k \in Nat /\ k + n = t.rest + (m + n)
    BY <1>1
  <2> HIDE DEF k, p
  <2>2. (k + n) \div p = (k \div p) + (((k % p) + n) \div p) /\ (k + n) % p = ((k % p) + n) % p
    BY <1>2, <2>1, Ticks
  <2> QED
    BY <2>1, <2>2 DEF k
<1> HIDE DEF p, q, r, s, d, x, y, z
<1>7. e = Eager!After(a, s)
  BY <1>2, <1>5, <1>6, AfterComposes
<1>8. Eager!After(x, s).tcnt = Eager!After(a, s).tcnt /\ Eager!After(x, s).tcr = Eager!After(a, s).tcr
  <2> HIDE DEF a
  <2> QED
    BY <1>2, <1>5, AfterAlike
<1>9. y = z
  <2>1. y.tcnt = z.tcnt /\ y.tcr = z.tcr
    BY <1>3, <1>5, <1>7, <1>8
  <2>2. y.rest = z.rest /\ y.tcor = z.tcor
    BY <1>3, <1>5, <1>6
  <2> QED
    BY <1>3, <1>5, <2>1, <2>2, SameTimers
<1> QED
  BY <1>9 DEF y, z, x

(* The tick counts a channel as the cycles pass it.                       *)
LEMMA CountedIsPassed ==
  ASSUME NEW ch \in Chans, Clocked(ch), NEW cycles \in Nat
  PROVE  /\ Counted(ch, cycles) \in Chans /\ Counted(ch, cycles).lazy = ch.lazy
         /\ View(Counted(ch, cycles)) = Eager!Passed(View(ch), cycles)
<1> DEFINE t == View(ch)
           p == Period[ch.tcr.tpsc]
           k == ch.rest + cycles
           q == k \div p
           r == k % p
           before == [ch EXCEPT !.rest = r]
           x == Counted(ch, cycles)
           a == Eager!After(t, q)
           b == Eager!After(View(before), q)
           y == Eager!Passed(t, cycles)
<1>1. x = sh4_tmu_advance_channel(before, q)
  BY DEF Counted
<1>2. t \in Timers /\ t.tcor = ch.tcor /\ t.tcnt = ch.tcnt /\ t.tcr = ch.tcr /\ t.rest = ch.rest
  BY ViewIs
<1>3. p \in Nat \ {0} /\ k \in Nat
  BY PeriodIs DEF Chans
<1>4. Clocked(t)
  <2> HIDE DEF t
  <2> QED
    BY <1>2 DEF Clocked
<1>5. y \in Timers /\ y.tcor = a.tcor /\ y.tcnt = a.tcnt /\ y.tcr = a.tcr /\ y.rest = r /\ q \in Nat /\ a.tcor = t.tcor
  <2>1. LET pp == Period[t.tcr.tpsc]
            aa == Eager!After(t, (t.rest + cycles) \div pp)
        IN  /\ y \in Timers /\ y.tcor = aa.tcor /\ y.tcnt = aa.tcnt /\ y.tcr = aa.tcr
            /\ y.rest = (t.rest + cycles) % pp /\ (t.rest + cycles) \div pp \in Nat /\ y.tcor = t.tcor
    BY <1>2, <1>4, PassedIs
  <2>2. Period[t.tcr.tpsc] = p /\ t.rest = ch.rest
    BY <1>2
  <2> HIDE DEF t, y, p
  <2> QED
    BY <2>1, <2>2
<1> HIDE DEF p, k
<1>6. r \in Nat
  BY <1>3, Division
<1> HIDE DEF q, r
<1>7. /\ before \in Chans /\ before.tcor = ch.tcor /\ before.tcnt = ch.tcnt /\ before.tcr = ch.tcr
      /\ before.rest = r /\ before.lazy = ch.lazy
  BY <1>6 DEF Chans
<1> HIDE DEF before, t, x, y
<1>8. x \in Chans /\ x.lazy = ch.lazy /\ View(x) = b
  BY <1>1, <1>5, <1>7, AdvanceIsAfter
<1> DEFINE v == View(before)
<1>9. v \in Timers /\ v.tcor = t.tcor /\ v.tcnt = t.tcnt /\ v.tcr = t.tcr /\ v.rest = r
  BY <1>2, <1>7, ViewIs
<1> HIDE DEF v
<1>10. LET c == Eager!After(v, q) IN c \in Timers /\ c.tcor = a.tcor /\ c.tcnt = a.tcnt /\ c.tcr = a.tcr /\ c.rest = r
  BY <1>2, <1>5, <1>9, AfterAlike, AfterKeeps
<1>11. Eager!After(v, q) = y
  BY <1>5, <1>10, SameTimers
<1> QED
  BY <1>8, <1>11 DEF x, y, t, v

-----------------------------------------------------------------------------
(* Settling.                                                               *)
Settled(ch) == View(sh4_tmu_materialize_lazy(ch))

(* Settling makes up for the cycles collected and leaves none.            *)
LEMMA MaterializeIs ==
  ASSUME NEW ch \in Chans
  PROVE  /\ sh4_tmu_materialize_lazy(ch) \in Chans /\ sh4_tmu_materialize_lazy(ch).lazy = 0
         /\ sh4_tmu_materialize_lazy(ch).tcr.tpsc = ch.tcr.tpsc /\ sh4_tmu_materialize_lazy(ch).tcr.unie = ch.tcr.unie
         /\ ch.lazy = 0 => sh4_tmu_materialize_lazy(ch) = ch
         /\ ch.lazy # 0 /\ Clocked(ch) => Settled(ch) = Eager!Passed(View(ch), ch.lazy)
<1> DEFINE m == sh4_tmu_materialize_lazy(ch)
           more == ch.rest + ch.lazy
           kept == [ch EXCEPT !.lazy = 0, !.rest = more]
           bare == [ch EXCEPT !.lazy = 0]
           x == Counted(bare, ch.lazy)
<1>1. ch.lazy \in Nat /\ more \in Nat
  BY DEF Chans
<1>2. CASE ch.lazy = 0
  <2>1. m = ch
    BY <1>2, Zenon DEF sh4_tmu_materialize_lazy
  <2> HIDE DEF m
  <2>2. m \in Chans /\ m.lazy = 0 /\ m.tcr = ch.tcr
    BY <1>2, <2>1
  <2> QED
    BY <1>2, <2>1, <2>2 DEF m
<1>3. CASE ch.lazy # 0 /\ ~Clocked(ch)
  <2>1. m = kept
    BY <1>3, Zenon DEF sh4_tmu_materialize_lazy, Clocked
  <2> HIDE DEF m, more
  <2>2. kept \in Chans /\ kept.lazy = 0 /\ kept.tcr = ch.tcr
    BY <1>1 DEF Chans
  <2> HIDE DEF kept
  <2>3. m \in Chans /\ m.lazy = 0 /\ m.tcr = ch.tcr
    BY <2>1, <2>2
  <2> QED
    BY <1>3, <2>3 DEF m
<1>4. CASE ch.lazy # 0 /\ Clocked(ch)
  <2>1. m = x
    BY <1>4, Zenon DEF sh4_tmu_materialize_lazy, Clocked
  <2>2. /\ bare \in Chans /\ bare.lazy = 0 /\ bare.tcr = ch.tcr
        /\ bare.tcor = ch.tcor /\ bare.tcnt = ch.tcnt /\ bare.rest = ch.rest
    BY DEF Chans
  <2>3. View(bare) = View(ch)
    BY <2>2, Zenon DEF View
  <2>4. Clocked(bare)
    <3> HIDE DEF bare
    <3> QED
      BY <1>4, <2>2 DEF Clocked
  <2> HIDE DEF bare, m
  <2>5. x \in Chans /\ x.lazy = bare.lazy /\ View(x) = Eager!Passed(View(bare), ch.lazy)
    BY <1>1, <2>2, <2>4, CountedIsPassed
  <2> HIDE DEF x
  <2>6. x.tcr.tpsc = ch.tcr.tpsc /\ x.tcr.unie = ch.tcr.unie
    <3> DEFINE t == View(ch)
               y == Eager!Passed(t, ch.lazy)
    <3>1. t \in Timers /\ t.tcr = ch.tcr
      BY ViewIs
    <3>2. Clocked(t)
      <4> HIDE DEF t
      <4> QED
        BY <1>4, <3>1 DEF Clocked
    <3> HIDE DEF t
    <3>3. y.tcr.tpsc = t.tcr.tpsc /\ y.tcr.unie = t.tcr.unie
      BY <1>1, <3>1, <3>2, PassedIs
    <3>4. View(x) = y
      BY <2>3, <2>5 DEF t
    <3> HIDE DEF y
    <3>5. View(x).tcr = x.tcr
      BY <2>5, ViewIs
    <3> QED
      BY <3>1, <3>3, <3>4, <3>5
  <2>7. m \in Chans /\ m.lazy = 0 /\ m.tcr.tpsc = ch.tcr.tpsc /\ m.tcr.unie = ch.tcr.unie
    BY <2>1, <2>2, <2>5, <2>6
  <2>8. View(m) = Eager!Passed(View(ch), ch.lazy)
    BY <2>1, <2>3, <2>5
  <2> QED
    BY <1>4, <2>7, <2>8 DEF m, Settled
<1> QED
  BY <1>2, <1>3, <1>4

(* Settling twice is settling once.                                       *)
LEMMA SettledIs ==
  ASSUME NEW ch \in Chans
  PROVE  /\ Settled(ch) \in Timers /\ Settled(ch).tcr.tpsc = ch.tcr.tpsc
         /\ Settled(sh4_tmu_materialize_lazy(ch)) = Settled(ch)
         /\ ch.lazy = 0 => Settled(ch) = View(ch)
<1> DEFINE m == sh4_tmu_materialize_lazy(ch)
<1>1. m \in Chans /\ m.lazy = 0 /\ m.tcr.tpsc = ch.tcr.tpsc /\ (ch.lazy = 0 => m = ch)
  BY MaterializeIs
<1> HIDE DEF m
<1>2. sh4_tmu_materialize_lazy(m) = m
  BY <1>1, MaterializeIs
<1>3. View(m) \in Timers /\ View(m).tcr = m.tcr
  BY <1>1, ViewIs
<1> QED
  BY <1>1, <1>2, <1>3 DEF Settled, m

(* Cycles collected are cycles passed.                                      *)
LEMMA CollectedIsPassed ==
  ASSUME NEW ch \in Chans, Clocked(ch), NEW cycles \in Nat \ {0}
  PROVE  /\ [ch EXCEPT !.lazy = @ + cycles] \in Chans
         /\ [ch EXCEPT !.lazy = @ + cycles].tcr = ch.tcr
         /\ Settled([ch EXCEPT !.lazy = @ + cycles]) = Eager!Passed(Settled(ch), cycles)
<1> DEFINE old == ch.lazy
           new == old + cycles
           x == [ch EXCEPT !.lazy = new]
           t == View(ch)
<1>1. old \in Nat /\ new \in Nat \ {0} /\ cycles \in Nat
  BY DEF Chans
<1>2. x = [ch EXCEPT !.lazy = @ + cycles]
  BY Zenon DEF Chans
<1> HIDE DEF new
<1>3. x \in Chans /\ x.lazy = new /\ x.tcr = ch.tcr /\ x.tcor = ch.tcor /\ x.tcnt = ch.tcnt /\ x.rest = ch.rest
  BY <1>1 DEF Chans
<1> HIDE DEF x
<1>4. View(x) = t /\ Clocked(x)
  BY <1>3 DEF View, Clocked
<1>5. t \in Timers /\ t.tcr = ch.tcr
  BY ViewIs
<1> HIDE DEF t
<1>6. Clocked(t)
  BY <1>5 DEF Clocked
<1>7. Settled(x) = Eager!Passed(t, new)
  BY <1>1, <1>3, <1>4, MaterializeIs
<1>8. CASE old = 0
  <2>1. Settled(ch) = t /\ new = cycles
    BY <1>1, <1>8, SettledIs DEF t, new
  <2> QED
    BY <1>2, <1>3, <1>7, <2>1
<1>9. CASE old # 0
  <2>1. Settled(ch) = Eager!Passed(t, old)
    BY <1>9, MaterializeIs DEF t
  <2>2. Eager!Passed(Eager!Passed(t, old), cycles) = Eager!Passed(t, new)
    BY <1>1, <1>5, <1>6, PassedTwice DEF new
  <2> QED
    BY <1>2, <1>3, <1>7, <2>1, <2>2
<1> QED
  BY <1>8, <1>9

-----------------------------------------------------------------------------
(* The invariant.                                                          *)

Type ==
  /\ pending \in Nat /\ tstr \in SUBSET Channels
  /\ tmu \in [Channels -> Chans]

(* A full batch is handed on at once, and the modes agree.                  *)
IInv == Type /\ pending < Batch /\ LazyHasOneMeaning

(* Only TMU0 has cycles to settle, and it has a clock while it has.         *)
LEMMA LazyIsClocked ==
  ASSUME IInv
  PROVE  /\ \A c \in Channels : tmu[c] \in Chans /\ tmu[c].lazy \in Nat
         /\ \A c \in Channels : tmu[c].lazy # 0 => c = 0 /\ LazyMode
         /\ LazyMode => tstr = {0} /\ Clocked(tmu[0])
         /\ 0 \in Channels
<1>1. \A c \in Channels : tmu[c] \in Chans /\ tmu[c].lazy \in Nat
  BY DEF IInv, Type, Chans
<1>2. \A c \in Channels : tmu[c].lazy # 0 => c = 0 /\ LazyMode
  BY <1>1 DEF IInv, LazyHasOneMeaning
<1>3. LazyMode => tstr = {0} /\ Clocked(tmu[0])
  BY TmuAssumption DEF LazyMode, Clocked
<1> QED
  BY <1>1, <1>2, <1>3, TmuAssumption

(* The tick: every running channel passes the cycles, collected or counted. *)
LEMMA TickPasses ==
  ASSUME IInv, NEW cycles \in Nat \ {0}, NEW ticked, ticked = sh4_tmu_tick(cycles)
  PROVE  /\ ticked \in [Channels -> Chans]
         /\ \A c \in Channels : ticked[c].lazy # 0 => c = 0 /\ LazyMode
         /\ ticked[0].tcr.tpsc = tmu[0].tcr.tpsc /\ ticked[0].tcr.unie = tmu[0].tcr.unie
         /\ \A c \in Channels : Settled(ticked[c]) =
              IF c \in tstr /\ Settled(tmu[c]).tcr.tpsc \in Clocks
              THEN Eager!Passed(Settled(tmu[c]), cycles) ELSE Settled(tmu[c])
<1>1. /\ \A c \in Channels : tmu[c] \in Chans /\ tmu[c].lazy \in Nat
      /\ \A c \in Channels : tmu[c].lazy # 0 => c = 0 /\ LazyMode
      /\ LazyMode => tstr = {0} /\ Clocked(tmu[0])
      /\ 0 \in Channels /\ tmu \in [Channels -> Chans]
  BY LazyIsClocked DEF IInv, Type
<1>2. \A c \in Channels : Settled(tmu[c]).tcr.tpsc = tmu[c].tcr.tpsc
  BY <1>1, SettledIs
<1>3. CASE LazyMode
  <2> DEFINE more == [tmu[0] EXCEPT !.lazy = @ + cycles]
  <2>1. ticked = [tmu EXCEPT ![0] = more]
    BY <1>3, Zenon DEF sh4_tmu_tick
  <2>2. more \in Chans /\ more.tcr = tmu[0].tcr /\ Settled(more) = Eager!Passed(Settled(tmu[0]), cycles)
    BY <1>1, <1>3, CollectedIsPassed
  <2> HIDE DEF more
  <2>3. ticked \in [Channels -> Chans] /\ ticked[0] = more /\ \A c \in Channels \ {0} : ticked[c] = tmu[c]
    BY <1>1, <2>1, <2>2
  <2>4. \A c \in Channels : ticked[c].lazy # 0 => c = 0 /\ LazyMode
    BY <1>1, <1>3, <2>3
  <2>5. ASSUME NEW c \in Channels
        PROVE  Settled(ticked[c]) = IF c \in tstr /\ Settled(tmu[c]).tcr.tpsc \in Clocks
                                    THEN Eager!Passed(Settled(tmu[c]), cycles) ELSE Settled(tmu[c])
    <3>1. CASE c = 0
      <4>1. c \in tstr /\ Settled(tmu[c]).tcr.tpsc \in Clocks
        BY <1>1, <1>2, <1>3, <3>1 DEF Clocked
      <4> QED
        BY <2>2, <2>3, <3>1, <4>1
    <3>2. CASE c # 0
      <4>1. c \notin tstr
        BY <1>1, <1>3, <3>2
      <4> QED
        BY <2>3, <3>2, <4>1
    <3> QED
      BY <3>1, <3>2
  <2> QED
    BY <2>2, <2>3, <2>4, <2>5
<1>4. CASE ~LazyMode
  <2> DEFINE counted(c) == Counted(tmu[c], cycles)
  <2>1. ticked = [c \in Channels |-> IF c \in tstr /\ Clocked(tmu[c]) THEN counted(c) ELSE tmu[c]]
    BY <1>4, Zenon DEF sh4_tmu_tick, Clocked
  <2>2. \A c \in Channels : tmu[c].lazy = 0 /\ Settled(tmu[c]) = View(tmu[c])
    BY <1>1, <1>4, SettledIs
  <2>3. ASSUME NEW c \in Channels, Clocked(tmu[c])
        PROVE  /\ counted(c) \in Chans /\ counted(c).lazy = 0
               /\ View(counted(c)) = Eager!Passed(View(tmu[c]), cycles)
               /\ counted(c).tcr.tpsc = tmu[c].tcr.tpsc /\ counted(c).tcr.unie = tmu[c].tcr.unie
    <3> DEFINE t == View(tmu[c])
               y == Eager!Passed(t, cycles)
               x == counted(c)
    <3>1. x \in Chans /\ x.lazy = 0 /\ View(x) = y
      BY <1>1, <2>2, <2>3, CountedIsPassed
    <3>2. t \in Timers /\ t.tcr = tmu[c].tcr
      BY <1>1, ViewIs
    <3> HIDE DEF x, t
    <3>3. Clocked(t)
      BY <2>3, <3>2 DEF Clocked
    <3>4. y.tcr.tpsc = t.tcr.tpsc /\ y.tcr.unie = t.tcr.unie
      BY <3>2, <3>3, PassedIs
    <3>5. View(x).tcr = x.tcr
      BY <3>1, ViewIs
    <3> HIDE DEF y
    <3>6. x.tcr.tpsc = tmu[c].tcr.tpsc /\ x.tcr.unie = tmu[c].tcr.unie
      BY <3>1, <3>2, <3>4, <3>5
    <3> QED
      BY <3>1, <3>6 DEF x, y, t
  <2> HIDE DEF counted
  <2>4. ASSUME NEW c \in Channels
        PROVE  /\ ticked[c] \in Chans /\ ticked[c].lazy = 0
               /\ ticked[c].tcr.tpsc = tmu[c].tcr.tpsc /\ ticked[c].tcr.unie = tmu[c].tcr.unie
               /\ Settled(ticked[c]) = IF c \in tstr /\ Settled(tmu[c]).tcr.tpsc \in Clocks
                                       THEN Eager!Passed(Settled(tmu[c]), cycles) ELSE Settled(tmu[c])
    <3>1. CASE c \in tstr /\ Clocked(tmu[c])
      <4>1. ticked[c] = counted(c)
        BY <2>1, <3>1
      <4>2. Settled(tmu[c]).tcr.tpsc \in Clocks
        BY <1>2, <3>1 DEF Clocked
      <4>3. counted(c) \in Chans /\ counted(c).lazy = 0
        BY <2>3, <3>1
      <4>4. Settled(counted(c)) = Eager!Passed(Settled(tmu[c]), cycles)
        BY <2>2, <2>3, <3>1, <4>3, SettledIs
      <4> QED
        BY <2>3, <3>1, <4>1, <4>2, <4>3, <4>4
    <3>2. CASE ~(c \in tstr /\ Clocked(tmu[c]))
      <4>1. ticked[c] = tmu[c]
        BY <2>1, <3>2
      <4>2. ~(c \in tstr /\ Settled(tmu[c]).tcr.tpsc \in Clocks)
        BY <1>2, <3>2 DEF Clocked
      <4> QED
        BY <1>1, <2>2, <4>1, <4>2
    <3> QED
      BY <3>1, <3>2
  <2>5. ticked \in [Channels -> Chans]
    <3>1. ticked = [c \in Channels |-> ticked[c]]
      BY <2>1
    <3> QED
      BY <2>4, <3>1
  <2> QED
    BY <1>1, <2>4, <2>5
<1> QED
  BY <1>3, <1>4

(* The reset state.                                                       *)
LEMMA InitInv == Init => IInv
<1> SUFFICES ASSUME Init PROVE IInv
  OBVIOUS
<1> DEFINE k == [tpsc |-> 0, unie |-> FALSE, unf |-> FALSE]
           t == [tcor |-> Word - 1, tcnt |-> Word - 1, tcr |-> k, rest |-> 0, lazy |-> 0]
<1>1. k \in Controls
  BY TmuAssumption DEF Controls
<1>2. Word - 1 \in Values
  BY Counts DEF Values
<1> HIDE DEF k
<1>3. t \in Chans /\ t.lazy = 0
  BY <1>1, <1>2 DEF Chans
<1>4. tmu = [c \in Channels |-> t]
  BY DEF Init, k
<1> HIDE DEF t
<1>5. tmu \in [Channels -> Chans] /\ \A c \in Channels : tmu[c].lazy = 0
  BY <1>3, <1>4
<1>6. pending = 0 /\ tstr = {} /\ Batch \in Nat \ {0} /\ 0 \in Channels
  BY TmuAssumption DEF Init
<1> QED
  BY <1>5, <1>6 DEF IInv, Type, LazyHasOneMeaning

(* A step that leaves no cycles over a changed mode.                        *)
LEMMA KeepsMeaning ==
  ASSUME tmu' \in [Channels -> Chans], pending' \in Nat, pending' < Batch, tstr' \in SUBSET Channels,
         \A c \in Channels : tmu'[c].lazy # 0 => c = 0 /\ LazyMode'
  PROVE  IInv'
<1>1. \A c \in Channels : tmu'[c].lazy \in Nat
  BY DEF Chans
<1>2. LazyHasOneMeaning'
  <2>1. \A c \in Channels \ {0} : tmu'[c].lazy = 0
    OBVIOUS
  <2>2. tmu'[0].lazy > 0 => LazyMode'
    <3>1. 0 \in Channels
      BY TmuAssumption
    <3>2. tmu'[0].lazy > 0 => tmu'[0].lazy # 0
      BY <1>1, <3>1
    <3> QED
      BY <3>1, <3>2
  <2> QED
    BY <2>1, <2>2 DEF LazyHasOneMeaning
<1> QED
  BY <1>2 DEF IInv, Type

(* An access settles the channel it is about.                               *)
LEMMA AccessInv ==
  ASSUME IInv, NEW c \in Channels, NEW x \in Chans, x.lazy = 0, tmu' = [tmu EXCEPT ![c] = x],
         UNCHANGED <<lazyBuild, pending, tstr>>
  PROVE  IInv'
<1>1. /\ tmu \in [Channels -> Chans] /\ pending \in Nat /\ pending < Batch /\ tstr \in SUBSET Channels
      /\ \A d \in Channels : tmu[d].lazy # 0 => d = 0 /\ LazyMode
  BY LazyIsClocked DEF IInv, Type
<1>2. tmu' \in [Channels -> Chans] /\ tmu'[c] = x /\ \A d \in Channels \ {c} : tmu'[d] = tmu[d]
  BY <1>1
<1>3. ASSUME NEW d \in Channels, tmu'[d].lazy # 0 PROVE d = 0 /\ LazyMode'
  <2>1. d # c
    BY <1>2, <1>3
  <2>2. d = 0 /\ LazyMode /\ tmu'[0] = tmu[0]
    BY <1>1, <1>2, <1>3, <2>1
  <2> QED
    BY <2>2 DEF LazyMode
<1> QED
  BY <1>1, <1>2, <1>3, KeepsMeaning

(* What the accesses leave of a channel.                                    *)
LEMMA AccessIs ==
  ASSUME IInv, NEW c \in Channels
  PROVE  /\ Settle(c) \in Chans /\ Settle(c).lazy = 0
         /\ View(Settle(c)) = Settled(tmu[c]) /\ View(Settle(c)) \in Timers
         /\ \A v \in Written[c] : v \in Values
         /\ \A v \in Controlled[c] : v \in Controls
<1>1. tmu[c] \in Chans
  BY DEF IInv, Type
<1>2. Settle(c) \in Chans /\ Settle(c).lazy = 0
  BY <1>1, MaterializeIs DEF Settle
<1>3. View(Settle(c)) = Settled(tmu[c])
  BY DEF Settle, Settled
<1>4. Written[c] \subseteq Values /\ Controlled[c] \subseteq Controls
  BY TmuAssumption DEF Values
<1> QED
  BY <1>1, <1>2, <1>3, <1>4, SettledIs

(* Writes of TCOR, TCR and TCNT, seen by the guest.                       *)
LEMMA ReloadedIs ==
  ASSUME NEW ch \in Chans, NEW v \in Values
  PROVE  /\ [ch EXCEPT !.tcor = v] \in Chans /\ [ch EXCEPT !.tcor = v].lazy = ch.lazy
         /\ View([ch EXCEPT !.tcor = v]) = [View(ch) EXCEPT !.tcor = v]
<1> DEFINE x == [ch EXCEPT !.tcor = v]
<1>1. x \in Chans /\ x.lazy = ch.lazy /\ x.tcor = v /\ x.tcnt = ch.tcnt /\ x.tcr = ch.tcr /\ x.rest = ch.rest
  BY DEF Chans
<1>2. [View(ch) EXCEPT !.tcor = v] = [tcor |-> v, tcnt |-> ch.tcnt, tcr |-> ch.tcr, rest |-> ch.rest]
  BY DEF View
<1> HIDE DEF x
<1>3. View(x) = [tcor |-> v, tcnt |-> ch.tcnt, tcr |-> ch.tcr, rest |-> ch.rest]
  BY <1>1 DEF View
<1> QED
  BY <1>1, <1>2, <1>3 DEF x

LEMMA ControlledIs ==
  ASSUME NEW ch \in Chans, NEW v \in Controls
  PROVE  /\ [ch EXCEPT !.tcr = v] \in Chans /\ [ch EXCEPT !.tcr = v].lazy = ch.lazy
         /\ View([ch EXCEPT !.tcr = v]) = [View(ch) EXCEPT !.tcr = v]
<1> DEFINE x == [ch EXCEPT !.tcr = v]
<1>1. x \in Chans /\ x.lazy = ch.lazy /\ x.tcor = ch.tcor /\ x.tcnt = ch.tcnt /\ x.tcr = v /\ x.rest = ch.rest
  BY DEF Chans
<1>2. [View(ch) EXCEPT !.tcr = v] = [tcor |-> ch.tcor, tcnt |-> ch.tcnt, tcr |-> v, rest |-> ch.rest]
  BY DEF View
<1> HIDE DEF x
<1>3. View(x) = [tcor |-> ch.tcor, tcnt |-> ch.tcnt, tcr |-> v, rest |-> ch.rest]
  BY <1>1 DEF View
<1> QED
  BY <1>1, <1>2, <1>3 DEF x

LEMMA RecountedIs ==
  ASSUME NEW ch \in Chans, NEW v \in Values
  PROVE  /\ [ch EXCEPT !.tcnt = v, !.rest = 0] \in Chans /\ [ch EXCEPT !.tcnt = v, !.rest = 0].lazy = ch.lazy
         /\ View([ch EXCEPT !.tcnt = v, !.rest = 0]) = [View(ch) EXCEPT !.tcnt = v, !.rest = 0]
<1> DEFINE y == [ch EXCEPT !.tcnt = v]
           x == [y EXCEPT !.rest = 0]
           t == View(ch)
           s == [t EXCEPT !.tcnt = v]
<1>1. x = [ch EXCEPT !.tcnt = v, !.rest = 0]
  BY Zenon
<1>2. y \in Chans /\ y.lazy = ch.lazy /\ y.tcor = ch.tcor /\ y.tcnt = v /\ y.tcr = ch.tcr
  BY DEF Chans
<1> HIDE DEF y
<1>3. x \in Chans /\ x.lazy = ch.lazy /\ x.tcor = ch.tcor /\ x.tcnt = v /\ x.tcr = ch.tcr /\ x.rest = 0
  BY <1>2 DEF Chans
<1>4. s = [tcor |-> ch.tcor, tcnt |-> v, tcr |-> ch.tcr, rest |-> ch.rest]
  BY DEF View
<1>5. [t EXCEPT !.tcnt = v, !.rest = 0] = [s EXCEPT !.rest = 0]
  BY Zenon
<1> HIDE DEF s
<1>6. [s EXCEPT !.rest = 0] = [tcor |-> ch.tcor, tcnt |-> v, tcr |-> ch.tcr, rest |-> 0]
  BY <1>4
<1> HIDE DEF x
<1>7. View(x) = [tcor |-> ch.tcor, tcnt |-> v, tcr |-> ch.tcr, rest |-> 0]
  BY <1>3 DEF View
<1> QED
  BY <1>1, <1>3, <1>5, <1>6, <1>7 DEF t

-----------------------------------------------------------------------------
(* Steps.                                                                  *)
Timer == [c \in Channels |-> Settled(tmu[c])]

(* A tick below the batch passes nothing, a full one passes the batch.    *)
LEMMA TickSteps ==
  ASSUME IInv, NEW cycles \in 1..Block, Tick(cycles)
  PROVE  /\ IInv'
         /\ \/ handed' = 0 /\ UNCHANGED <<tstr, seen, Timer>>
            \/ \E n \in 1..Batch + Block :
                 /\ handed' = n /\ UNCHANGED <<tstr, seen>>
                 /\ Timer' = [c \in Channels |-> IF c \in tstr /\ Timer[c].tcr.tpsc \in Clocks
                                                 THEN Eager!Passed(Timer[c], n) ELSE Timer[c]]
<1> DEFINE n == pending + cycles
<1>1. /\ tmu \in [Channels -> Chans] /\ pending \in Nat /\ pending < Batch /\ tstr \in SUBSET Channels
      /\ \A d \in Channels : tmu[d] \in Chans /\ (tmu[d].lazy # 0 => d = 0 /\ LazyMode)
      /\ 0 \in Channels
  BY LazyIsClocked DEF IInv, Type
<1>2. Batch \in Nat \ {0} /\ Block \in Nat \ {0} /\ cycles \in Nat \ {0}
  BY TmuAssumption
<1>3. n \in Nat \ {0} /\ n \in 1..Batch + Block
  BY <1>1, <1>2
<1>4. UNCHANGED <<lazyBuild, tstr, seen>>
  BY DEF Tick
<1>5. CASE n < Batch
  <2>1. pending' = n /\ handed' = 0 /\ tmu' = tmu
    BY <1>5 DEF Tick
  <2> HIDE DEF n
  <2>2. LazyMode' = LazyMode
    BY <1>4, <2>1 DEF LazyMode
  <2>3. IInv'
    BY <1>1, <1>3, <1>4, <1>5, <2>1, <2>2, KeepsMeaning
  <2>4. Timer' = Timer
    BY <2>1 DEF Timer
  <2> QED
    BY <1>4, <2>1, <2>3, <2>4
<1>6. CASE ~(n < Batch)
  <2> DEFINE ticked == sh4_tmu_tick(n)
             last == sh4_tmu_materialize_lazy(ticked[0])
             Now(c) == IF c \in tstr /\ Timer[c].tcr.tpsc \in Clocks THEN Eager!Passed(Timer[c], n) ELSE Timer[c]
  <2>1. pending' = 0 /\ handed' = n /\ (tmu' = ticked \/ tmu' = [ticked EXCEPT ![0] = last])
    BY <1>6, Zenon DEF Tick
  <2>2. /\ ticked \in [Channels -> Chans]
        /\ \A c \in Channels : ticked[c].lazy # 0 => c = 0 /\ LazyMode
        /\ ticked[0].tcr.tpsc = tmu[0].tcr.tpsc /\ ticked[0].tcr.unie = tmu[0].tcr.unie
        /\ \A c \in Channels : Settled(ticked[c]) =
             IF c \in tstr /\ Settled(tmu[c]).tcr.tpsc \in Clocks
             THEN Eager!Passed(Settled(tmu[c]), n) ELSE Settled(tmu[c])
    BY <1>3, TickPasses
  <2>3. \A c \in Channels : Settled(ticked[c]) = Now(c)
    BY <2>2 DEF Timer
  <2> HIDE DEF n, ticked, Now
  <2>4. last \in Chans /\ last.lazy = 0 /\ last.tcr.tpsc = ticked[0].tcr.tpsc /\ last.tcr.unie = ticked[0].tcr.unie
    BY <1>1, <2>2, MaterializeIs
  <2>5. Settled(last) = Settled(ticked[0])
    BY <1>1, <2>2, SettledIs
  <2> HIDE DEF last
  <2>6. /\ tmu' \in [Channels -> Chans]
        /\ \A c \in Channels : tmu'[c].lazy # 0 => c = 0 /\ LazyMode
        /\ tmu'[0].tcr.tpsc = tmu[0].tcr.tpsc /\ tmu'[0].tcr.unie = tmu[0].tcr.unie
        /\ \A c \in Channels : Settled(tmu'[c]) = Now(c)
    <3>1. CASE tmu' = ticked
      BY <2>2, <2>3, <3>1
    <3>2. CASE tmu' = [ticked EXCEPT ![0] = last]
      <4>1. tmu' \in [Channels -> Chans] /\ tmu'[0] = last /\ \A c \in Channels \ {0} : tmu'[c] = ticked[c]
        BY <1>1, <2>2, <2>4, <3>2
      <4>2. ASSUME NEW c \in Channels
            PROVE  (tmu'[c].lazy # 0 => c = 0 /\ LazyMode) /\ Settled(tmu'[c]) = Now(c)
        <5>1. CASE c = 0
          BY <2>3, <2>4, <2>5, <4>1, <5>1
        <5>2. CASE c # 0
          BY <2>2, <2>3, <4>1, <5>2
        <5> QED
          BY <5>1, <5>2
      <4> QED
        BY <2>2, <2>4, <4>1, <4>2
    <3> QED
      BY <2>1, <3>1, <3>2
  <2>7. LazyMode' = LazyMode
    BY <1>4, <2>6 DEF LazyMode
  <2>8. IInv'
    BY <1>1, <1>2, <1>4, <2>1, <2>6, <2>7, KeepsMeaning
  <2>9. Timer' = [c \in Channels |-> Now(c)]
    BY <2>6 DEF Timer
  <2> QED
    BY <1>3, <1>4, <2>1, <2>8, <2>9 DEF Now
<1> QED
  BY <1>5, <1>6

(* TSTR settles every channel.                                              *)
LEMMA StartSteps ==
  ASSUME IInv, NEW channels \in SUBSET Channels, WriteTstr(channels)
  PROVE  IInv' /\ Timer' = Timer
<1>1. tmu \in [Channels -> Chans] /\ pending \in Nat /\ pending < Batch
  BY DEF IInv, Type
<1>2. tstr' = channels /\ pending' = pending /\ tmu' = [c \in Channels |-> sh4_tmu_materialize_lazy(tmu[c])]
  BY DEF WriteTstr
<1>3. \A c \in Channels : /\ sh4_tmu_materialize_lazy(tmu[c]) \in Chans /\ sh4_tmu_materialize_lazy(tmu[c]).lazy = 0
                          /\ Settled(sh4_tmu_materialize_lazy(tmu[c])) = Settled(tmu[c])
  BY <1>1, MaterializeIs, SettledIs
<1>4. tmu' \in [Channels -> Chans] /\ \A c \in Channels : tmu'[c].lazy = 0 /\ Settled(tmu'[c]) = Settled(tmu[c])
  BY <1>2, <1>3
<1>5. IInv'
  BY <1>1, <1>2, <1>4, KeepsMeaning
<1>6. Timer' = Timer
  BY <1>4 DEF Timer
<1> QED
  BY <1>5, <1>6

(* An access to a channel shows or changes its settled state.               *)
LEMMA AccessSteps ==
  ASSUME IInv, NEW c \in Channels, NEW x \in Chans, x.lazy = 0, tmu' = [tmu EXCEPT ![c] = x],
         UNCHANGED <<lazyBuild, pending, tstr>>
  PROVE  IInv' /\ Timer' = [Timer EXCEPT ![c] = View(x)]
<1>1. tmu \in [Channels -> Chans]
  BY DEF IInv, Type
<1>2. tmu'[c] = x /\ \A d \in Channels \ {c} : tmu'[d] = tmu[d]
  BY <1>1
<1>3. Settled(x) = View(x)
  BY SettledIs
<1>4. Timer' = [Timer EXCEPT ![c] = View(x)]
  <2> DEFINE y == View(x)
  <2>1. Timer' = [d \in Channels |-> Settled(tmu'[d])]
    BY DEF Timer
  <2>2. \A d \in Channels : Settled(tmu'[d]) = IF d = c THEN y ELSE Settled(tmu[d])
    BY <1>2, <1>3
  <2> HIDE DEF y
  <2> QED
    BY <2>1, <2>2 DEF Timer, y
<1>5. IInv'
  BY AccessInv
<1> QED
  BY <1>4, <1>5

(* A read returns the settled state and does not change it.               *)
LEMMA ReadSteps ==
  ASSUME IInv, NEW c \in Channels, Read(c)
  PROVE  IInv' /\ Timer' = Timer /\ seen' = [tcnt |-> Timer[c].tcnt, unf |-> Timer[c].tcr.unf]
<1> DEFINE x == Settle(c)
<1>1. tmu' = [tmu EXCEPT ![c] = x] /\ UNCHANGED <<lazyBuild, pending, tstr>>
  BY Zenon DEF Read, Settle
<1>2. x \in Chans /\ x.lazy = 0 /\ View(x) = Timer[c]
  BY AccessIs DEF Timer
<1>3. tmu \in [Channels -> Chans]
  BY DEF IInv, Type
<1> HIDE DEF x
<1>4. IInv' /\ Timer' = [Timer EXCEPT ![c] = View(x)]
  BY <1>1, <1>2, AccessSteps
<1>5. Timer' = Timer
  BY <1>2, <1>4 DEF Timer
<1>6. tmu'[c] = x /\ View(x).tcnt = x.tcnt /\ View(x).tcr = x.tcr
  BY <1>1, <1>2, <1>3, ViewIs
<1>7. seen' = [tcnt |-> tmu'[c].tcnt, unf |-> tmu'[c].tcr.unf]
  BY DEF Read
<1> QED
  BY <1>2, <1>4, <1>5, <1>6, <1>7

(* A write changes the register it names of the settled state.            *)
LEMMA WriteSteps ==
  ASSUME IInv, NEW c \in Channels
  PROVE  /\ \A v \in Written[c] : WriteTcor(c, v) => IInv' /\ Timer' = [Timer EXCEPT ![c].tcor = v]
         /\ \A v \in Written[c] : WriteTcnt(c, v) => IInv' /\ Timer' = [Timer EXCEPT ![c].tcnt = v, ![c].rest = 0]
         /\ \A v \in Controlled[c] : WriteTcr(c, v) => IInv' /\ Timer' = [Timer EXCEPT ![c].tcr = v]
<1> DEFINE s == Settle(c)
<1>1. /\ s \in Chans /\ s.lazy = 0 /\ View(s) = Timer[c] /\ View(s) \in Timers
      /\ \A v \in Written[c] : v \in Values
      /\ \A v \in Controlled[c] : v \in Controls
  BY AccessIs DEF Timer
<1>2. ASSUME NEW v \in Written[c], WriteTcor(c, v) PROVE IInv' /\ Timer' = [Timer EXCEPT ![c].tcor = v]
  <2> DEFINE x == [s EXCEPT !.tcor = v]
  <2>1. tmu' = [tmu EXCEPT ![c] = x] /\ UNCHANGED <<lazyBuild, pending, tstr>>
    BY <1>2, Zenon DEF WriteTcor
  <2> HIDE DEF s
  <2>2. x \in Chans /\ x.lazy = 0 /\ View(x) = [View(s) EXCEPT !.tcor = v]
    BY <1>1, <1>2, ReloadedIs
  <2> HIDE DEF x
  <2>3. IInv' /\ Timer' = [Timer EXCEPT ![c] = View(x)]
    BY <2>1, <2>2, AccessSteps
  <2>4. View(x) = [Timer[c] EXCEPT !.tcor = v]
    BY <1>1, <2>2
  <2> QED
    BY <2>3, <2>4, Zenon
<1>3. ASSUME NEW v \in Written[c], WriteTcnt(c, v)
      PROVE  IInv' /\ Timer' = [Timer EXCEPT ![c].tcnt = v, ![c].rest = 0]
  <2> DEFINE x == [s EXCEPT !.tcnt = v, !.rest = 0]
  <2>1. tmu' = [tmu EXCEPT ![c] = x] /\ UNCHANGED <<lazyBuild, pending, tstr>>
    BY <1>3, Zenon DEF WriteTcnt
  <2> HIDE DEF s
  <2>2. x \in Chans /\ x.lazy = 0 /\ View(x) = [View(s) EXCEPT !.tcnt = v, !.rest = 0]
    BY <1>1, <1>3, RecountedIs
  <2> HIDE DEF x
  <2>3. IInv' /\ Timer' = [Timer EXCEPT ![c] = View(x)]
    BY <2>1, <2>2, AccessSteps
  <2>4. View(x) = [Timer[c] EXCEPT !.tcnt = v, !.rest = 0]
    BY <1>1, <2>2
  <2> QED
    BY <2>3, <2>4, Zenon
<1>4. ASSUME NEW v \in Controlled[c], WriteTcr(c, v) PROVE IInv' /\ Timer' = [Timer EXCEPT ![c].tcr = v]
  <2> DEFINE x == [s EXCEPT !.tcr = v]
  <2>1. tmu' = [tmu EXCEPT ![c] = x] /\ UNCHANGED <<lazyBuild, pending, tstr>>
    BY <1>4, Zenon DEF WriteTcr
  <2> HIDE DEF s
  <2>2. x \in Chans /\ x.lazy = 0 /\ View(x) = [View(s) EXCEPT !.tcr = v]
    BY <1>1, <1>4, ControlledIs
  <2> HIDE DEF x
  <2>3. IInv' /\ Timer' = [Timer EXCEPT ![c] = View(x)]
    BY <2>1, <2>2, AccessSteps
  <2>4. View(x) = [Timer[c] EXCEPT !.tcr = v]
    BY <1>1, <2>2
  <2> QED
    BY <2>3, <2>4, Zenon
<1> QED
  BY <1>2, <1>3, <1>4

(* Every step is one of the eager timer's, or changes nothing it has.       *)
LEMMA EagerInit == Init => Eager!Init
<1> SUFFICES ASSUME Init PROVE Eager!Init
  OBVIOUS
<1> DEFINE k == [tpsc |-> 0, unie |-> FALSE, unf |-> FALSE]
           t == [tcor |-> Word - 1, tcnt |-> Word - 1, tcr |-> k, rest |-> 0]
           ch == [tcor |-> Word - 1, tcnt |-> Word - 1, tcr |-> k, rest |-> 0, lazy |-> 0]
<1>1. tmu = [c \in Channels |-> ch]
  BY DEF Init
<1>2. View(ch) = t /\ ch.lazy = 0
  BY DEF View
<1>3. ch \in Chans
  <2>1. k \in Controls
    BY TmuAssumption DEF Controls
  <2>2. Word - 1 \in Values
    BY Counts DEF Values
  <2> HIDE DEF k
  <2> QED
    BY <2>1, <2>2 DEF Chans
<1> HIDE DEF ch, t
<1>4. Settled(ch) = t
  BY <1>2, <1>3, SettledIs
<1>5. Timer = [c \in Channels |-> t]
  BY <1>1, <1>4 DEF Timer
<1>6. tstr = {} /\ handed = 0 /\ seen = [tcnt |-> 0, unf |-> FALSE]
  BY DEF Init
<1>7. Timer = [c \in Channels |->
        [tcor |-> Word - 1, tcnt |-> Word - 1, tcr |-> [tpsc |-> 0, unie |-> FALSE, unf |-> FALSE], rest |-> 0]]
  BY <1>5 DEF t
<1> QED
  BY <1>6, <1>7, Zenon DEF Eager!Init, Timer, Settled, View

(* Every step keeps the invariant and is a step of the eager timer.       *)
LEMMA StepSimulates ==
  ASSUME IInv, [Next]_vars
  PROVE  IInv' /\ [Eager!Next]_<<tstr, Timer, seen, handed>>
<1>1. ASSUME NEW cycles \in 1..Block, Tick(cycles) PROVE IInv' /\ Eager!Next
  <2>1. CASE handed' = 0 /\ UNCHANGED <<tstr, seen, Timer>>
    <3>1. handed' = 0 /\ UNCHANGED <<tstr, Timer, seen>>
      BY <2>1
    <3>2. Eager!Next
      BY <3>1, Zenon DEF Eager!Next, Timer, Settled, View
    <3> QED
      BY <1>1, <3>2, TickSteps
  <2>2. ASSUME NEW n \in 1..Batch + Block, handed' = n, UNCHANGED <<tstr, seen>>,
               Timer' = [c \in Channels |-> IF c \in tstr /\ Timer[c].tcr.tpsc \in Clocks
                                            THEN Eager!Passed(Timer[c], n) ELSE Timer[c]]
        PROVE  Eager!Next
    <3>1. Eager!Pass(n)
      BY <2>2, Zenon DEF Eager!Pass, Timer, Settled, View
    <3> QED
      BY <3>1, Zenon DEF Eager!Next
  <2> QED
    BY <1>1, <2>1, <2>2, TickSteps
<1>2. ASSUME NEW channels \in SUBSET Channels, WriteTstr(channels) PROVE IInv' /\ Eager!Next
  <2>1. IInv' /\ Timer' = Timer
    BY <1>2, StartSteps
  <2>2. tstr' = channels /\ handed' = 0 /\ seen' = seen
    BY <1>2 DEF WriteTstr
  <2>3. Eager!Start(channels)
    BY <2>1, <2>2, Zenon DEF Eager!Start, Timer, Settled, View
  <2> QED
    BY <2>1, <2>3, Zenon DEF Eager!Next
<1>3. ASSUME NEW c \in Channels, Read(c) PROVE IInv' /\ Eager!Next
  <2>1. IInv' /\ Timer' = Timer /\ seen' = [tcnt |-> Timer[c].tcnt, unf |-> Timer[c].tcr.unf]
    BY <1>3, ReadSteps
  <2>2. tstr' = tstr /\ handed' = 0
    BY <1>3 DEF Read
  <2>3. Eager!Read(c)
    BY <2>1, <2>2, Zenon DEF Eager!Read, Timer, Settled, View
  <2> QED
    BY <2>1, <2>3, Zenon DEF Eager!Next
<1>4. ASSUME NEW c \in Channels, NEW v \in Written[c], WriteTcor(c, v) PROVE IInv' /\ Eager!Next
  <2>1. IInv' /\ Timer' = [Timer EXCEPT ![c].tcor = v]
    BY <1>4, WriteSteps
  <2>2. tstr' = tstr /\ handed' = 0 /\ seen' = seen
    BY <1>4 DEF WriteTcor
  <2>3. Eager!Reload(c, v)
    BY <2>1, <2>2, Zenon DEF Eager!Reload, Timer, Settled, View
  <2>4. v \in Eager!Values
    BY AccessIs DEF Values, Eager!Values
  <2> QED
    BY <2>1, <2>3, <2>4, Zenon DEF Eager!Next
<1>5. ASSUME NEW c \in Channels, NEW v \in Written[c], WriteTcnt(c, v) PROVE IInv' /\ Eager!Next
  <2>1. IInv' /\ Timer' = [Timer EXCEPT ![c].tcnt = v, ![c].rest = 0]
    BY <1>5, WriteSteps
  <2>2. tstr' = tstr /\ handed' = 0 /\ seen' = seen
    BY <1>5 DEF WriteTcnt
  <2>3. Eager!Count(c, v)
    BY <2>1, <2>2, Zenon DEF Eager!Count, Timer, Settled, View
  <2>4. v \in Eager!Values
    BY AccessIs DEF Values, Eager!Values
  <2> QED
    BY <2>1, <2>3, <2>4, Zenon DEF Eager!Next
<1>6. ASSUME NEW c \in Channels, NEW v \in Controlled[c], WriteTcr(c, v) PROVE IInv' /\ Eager!Next
  <2>1. IInv' /\ Timer' = [Timer EXCEPT ![c].tcr = v]
    BY <1>6, WriteSteps
  <2>2. tstr' = tstr /\ handed' = 0 /\ seen' = seen
    BY <1>6 DEF WriteTcr
  <2>3. Eager!Control(c, v)
    BY <2>1, <2>2, Zenon DEF Eager!Control, Timer, Settled, View
  <2>4. v \in Eager!Controls
    BY AccessIs DEF Controls, Eager!Controls
  <2> QED
    BY <2>1, <2>3, <2>4, Zenon DEF Eager!Next
<1>7. ASSUME UNCHANGED vars PROVE IInv' /\ UNCHANGED <<tstr, Timer, seen, handed>>
  BY <1>7 DEF vars, IInv, Type, LazyHasOneMeaning, LazyMode, Timer
<1> QED
  BY <1>1, <1>2, <1>3, <1>4, <1>5, <1>6, <1>7 DEF Next

-----------------------------------------------------------------------------
(***************************************************************************)
(* A count, a reload value, a control and a remainder never leave their      *)
(* ranges, and a full batch is always handed on.                           *)
(***************************************************************************)
THEOREM TypeCorrect == Spec => [](Type /\ pending < Batch)
<1>1. IInv /\ [Next]_vars => IInv'
  BY StepSimulates
<1>2. IInv => Type /\ pending < Batch
  BY DEF IInv
<1> QED
  BY InitInv, <1>1, <1>2, PTL DEF Spec

(***************************************************************************)
(* Cycles are left unsettled only in the mode whose divisor they will be     *)
(* divided by, whatever registers the guest writes and whenever.            *)
(***************************************************************************)
THEOREM OneMeaning == Spec => []LazyHasOneMeaning
<1>1. IInv /\ [Next]_vars => IInv'
  BY StepSimulates
<1>2. IInv => LazyHasOneMeaning
  BY DEF IInv
<1> QED
  BY InitInv, <1>1, <1>2, PTL DEF Spec

(***************************************************************************)
(* What the guest reads of its timers is what counters that step tick by     *)
(* tick show: counting underflow by underflow, dividing collected cycles    *)
(* only when they are settled, and the batches of the ticks change nothing. *)
(***************************************************************************)
THEOREM CountsCorrect == Spec => CountsEagerly
<1>1. IInv /\ [Next]_vars => IInv' /\ [Eager!Next]_<<tstr, Timer, seen, handed>>
  BY StepSimulates
<1>2. Spec => Eager!Init /\ [][Eager!Next]_<<tstr, Timer, seen, handed>>
  BY InitInv, EagerInit, <1>1, PTL DEF Spec
<1> QED
  BY <1>2, PTL DEF CountsEagerly, Eager!EagerSpec, Timer, Settled, View

-----------------------------------------------------------------------------
(* The count in closed form.                                               *)
Closed(v, reload, n) == IF n <= v THEN v - n ELSE reload - ((n - v - 1) % (reload + 1))

LEMMA ClosedSteps ==
  ASSUME NEW v \in Nat, NEW reload \in Nat, NEW n \in Nat
  PROVE  /\ Closed(v, reload, 0) = v /\ Closed(v, reload, n) \in Nat
         /\ Closed(v, reload, n) = 0 => Closed(v, reload, n + 1) = reload
         /\ Closed(v, reload, n) # 0 => Closed(v, reload, n + 1) = Closed(v, reload, n) - 1
<1> DEFINE p == reload + 1
           k == n - v - 1
           q == k \div p
           r == k % p
<1>1. p \in Nat \ {0} /\ Closed(v, reload, 0) = v
  BY DEF Closed
<1>2. CASE n < v
  <2>1. n <= v /\ n + 1 <= v /\ v - n \in Nat /\ v - n # 0 /\ v - (n + 1) = v - n - 1
    BY <1>2
  <2>2. Closed(v, reload, n) = v - n /\ Closed(v, reload, n + 1) = v - (n + 1)
    BY <2>1 DEF Closed
  <2> QED
    BY <1>1, <2>1, <2>2
<1>3. CASE n = v
  <2>1. 0 = p * 0 + 0 /\ 0 < p
    BY <1>1
  <2>2. 0 % p = 0
    BY <1>1, <2>1, Quotient
  <2>3. Closed(v, reload, n) = 0 /\ Closed(v, reload, n + 1) = reload - (0 % p)
    BY <1>3 DEF Closed
  <2> QED
    BY <1>1, <2>2, <2>3
<1>4. CASE n > v
  <2>1. k \in Nat /\ n - v = k + 1 /\ ~(n <= v) /\ ~(n + 1 <= v) /\ (n + 1) - v - 1 = k + 1
    BY <1>4
  <2>2. Closed(v, reload, n) = reload - r /\ Closed(v, reload, n + 1) = reload - ((k + 1) % p)
    BY <2>1 DEF Closed
  <2> HIDE DEF k, p
  <2>3. q \in Nat /\ r \in Nat /\ k = p * q + r /\ r < p
    BY <1>1, <2>1, Division
  <2> HIDE DEF q, r
  <2>4. CASE r = reload
    <3>1. k + 1 = p * (q + 1) + 0 /\ 0 < p /\ q + 1 \in Nat
      BY <1>1, <2>1, <2>3, <2>4 DEF p
    <3>2. (k + 1) % p = 0
      BY <1>1, <3>1, Quotient
    <3> QED
      BY <1>1, <2>2, <2>4, <3>2
  <2>5. CASE r # reload
    <3>1. k + 1 = p * q + (r + 1) /\ r + 1 < p /\ r + 1 \in Nat /\ r < reload
      BY <1>1, <2>1, <2>3, <2>5 DEF p
    <3>2. (k + 1) % p = r + 1
      <4>1. \A x \in Nat : x < p => (p * q + x) % p = x
        BY <1>1, <2>3, Quotient
      <4> QED
        BY <3>1, <4>1
    <3>3. reload - r # 0 /\ reload - (r + 1) = reload - r - 1 /\ reload - r \in Nat
      BY <2>3, <3>1
    <3> QED
      BY <1>1, <2>2, <3>2, <3>3
  <2> QED
    BY <2>4, <2>5
<1> QED
  BY <1>2, <1>3, <1>4

(***************************************************************************)
(* What sh4_tmu_advance_channel leaves in TCNT and UNF, however many times   *)
(* it goes round its loop: the count runs down once and then through         *)
(* periods of TCOR + 1 ticks.                                              *)
(***************************************************************************)
THEOREM AdvanceInClosedForm ==
  ASSUME NEW ch \in Chans, NEW n \in Nat
  PROVE  /\ sh4_tmu_advance_channel(ch, n).tcnt = Closed(ch.tcnt, ch.tcor, n)
         /\ sh4_tmu_advance_channel(ch, n).tcr.unf = (ch.tcr.unf \/ n > ch.tcnt)
<1> DEFINE t == View(ch)
           A(m) == Eager!After(t, m)
           S == {m \in Nat : A(m).tcnt = Closed(ch.tcnt, ch.tcor, m)}
<1>1. t \in Timers /\ t.tcor = ch.tcor /\ t.tcnt = ch.tcnt /\ t.tcr = ch.tcr
  BY ViewIs
<1>2. ch.tcnt \in Nat /\ ch.tcor \in Nat
  BY Counts DEF Chans
<1>3. A(0) = t /\ \A m \in Nat : A(m + 1) = Eager!Down(A(m))
  BY AfterSteps
<1>4. \A m \in Nat : A(m) \in Timers /\ A(m).tcor = ch.tcor
  BY <1>1, AfterKeeps
<1> HIDE DEF t, A
<1>5. 0 \in S
  BY <1>1, <1>2, <1>3, ClosedSteps
<1>6. ASSUME NEW m \in Nat, m \in S PROVE m + 1 \in S
  <2>1. /\ A(m).tcnt = 0 => A(m + 1).tcnt = ch.tcor
        /\ A(m).tcnt # 0 => A(m + 1).tcnt = A(m).tcnt - 1
    BY <1>3, <1>4, DownKeeps
  <2>2. A(m).tcnt = Closed(ch.tcnt, ch.tcor, m)
    BY <1>6
  <2>3. A(m + 1).tcnt = Closed(ch.tcnt, ch.tcor, m + 1)
    <3>1. /\ Closed(ch.tcnt, ch.tcor, m) = 0 => Closed(ch.tcnt, ch.tcor, m + 1) = ch.tcor
          /\ Closed(ch.tcnt, ch.tcor, m) # 0 =>
               Closed(ch.tcnt, ch.tcor, m + 1) = Closed(ch.tcnt, ch.tcor, m) - 1
      <4> DEFINE v == ch.tcnt
                 w == ch.tcor
      <4>1. v \in Nat /\ w \in Nat /\ m \in Nat
        BY <1>2, <1>6
      <4> HIDE DEF v, w
      <4>2. /\ Closed(v, w, m) = 0 => Closed(v, w, m + 1) = w
            /\ Closed(v, w, m) # 0 => Closed(v, w, m + 1) = Closed(v, w, m) - 1
        BY <4>1, ClosedSteps
      <4> QED
        BY <4>2 DEF v, w
    <3> DEFINE a == A(m).tcnt
               b == A(m + 1).tcnt
               c == Closed(ch.tcnt, ch.tcor, m)
               d == Closed(ch.tcnt, ch.tcor, m + 1)
    <3>2. /\ a = c
          /\ a = 0 => b = ch.tcor
          /\ a # 0 => b = a - 1
          /\ c = 0 => d = ch.tcor
          /\ c # 0 => d = c - 1
      BY <2>1, <2>2, <3>1
    <3> HIDE DEF a, b, c, d
    <3>3. b = d
      BY <3>2
    <3> QED
      BY <3>3 DEF b, d
  <2> QED
    BY <2>3
<1> HIDE DEF S
<1>7. n \in S
  BY <1>5, <1>6, Induction
<1>8. A(n).tcnt = Closed(ch.tcnt, ch.tcor, n) /\ A(n).tcr.unf = (ch.tcr.unf \/ n > ch.tcnt)
  BY <1>1, <1>7, AfterFlag DEF S, A
<1>9. /\ sh4_tmu_advance_channel(ch, n) \in Chans
      /\ View(sh4_tmu_advance_channel(ch, n)) = A(n)
  BY AdvanceIsAfter DEF A, t
<1> DEFINE x == sh4_tmu_advance_channel(ch, n)
<1> HIDE DEF x
<1>10. x.tcnt = A(n).tcnt /\ x.tcr = A(n).tcr
  BY <1>9, ViewIs DEF x
<1> QED
  BY <1>8, <1>10 DEF x
=============================================================================
