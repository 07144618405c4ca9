----------------------------- MODULE LapmProofs -----------------------------
(* Proofs about the link layer, for every modulus, window and bound.         *)
EXTENDS LapmClaims, TLAPS

LEMMA Constants ==
  /\ Modulus \in Nat \ {0} /\ MaxWindow \in Nat \ {0} /\ FirstWindow \in Nat \ {0} /\ GuestWindow \in Nat \ {0}
  /\ MaxWindow < Modulus /\ FirstWindow <= MaxWindow /\ GuestWindow < Modulus
  /\ PppUnits \in Nat /\ GuestUnits \in Nat /\ MaxLosses \in Nat /\ MaxSetups \in Nat
  BY LapmAssumption

-----------------------------------------------------------------------------
(* Arithmetic of sequence numbers.                                          *)

(* The quotient and the remainder by Modulus are unique.                    *)
LEMMA Division ==
  ASSUME NEW m \in Nat \ {0}, NEW k \in Nat
  PROVE  k \div m \in Nat /\ k = m * (k \div m) + (k % m) /\ k % m \in 0..m - 1
  OBVIOUS

LEMMA Remainder ==
  ASSUME NEW m \in Nat \ {0}, NEW q \in Nat, NEW r \in 0..m - 1, NEW k \in Nat, k = m * q + r
  PROVE  k % m = r
  OBVIOUS

LEMMA Reduced ==
  ASSUME NEW k \in Nat
  PROVE  /\ Number(k) \in Numbers
         /\ k < Modulus => Number(k) = k
         /\ k >= Modulus /\ k < 2 * Modulus => Number(k) = k - Modulus
  <1> DEFINE m == Modulus
  <1>1. m \in Nat \ {0} BY Constants
  <1>2. k % m \in 0..m - 1 BY <1>1, Division
  <1>3. k < m => k % m = k
    <2>1. m * 0 = 0 BY <1>1
    <2> SUFFICES ASSUME k < m PROVE k % m = k OBVIOUS
    <2> HIDE DEF m
    <2>2. k \in 0..m - 1 /\ 0 \in Nat /\ k = m * 0 + k BY <1>1, <2>1
    <2> QED BY <1>1, <2>2, Remainder
  <1>4. k >= m /\ k < 2 * m => k % m = k - m
    <2>1. m * 1 = m BY <1>1
    <2> SUFFICES ASSUME k >= m /\ k < 2 * m PROVE k % m = k - m OBVIOUS
    <2> HIDE DEF m
    <2>2. k - m \in 0..m - 1 /\ 1 \in Nat /\ k = m * 1 + (k - m) BY <1>1, <2>1
    <2> QED BY <1>1, <2>2, Remainder
  <1> QED BY <1>2, <1>3, <1>4 DEF Number, Numbers

LEMMA Distance ==
  ASSUME NEW x \in Numbers, NEW y \in Numbers
  PROVE  /\ v42_seq_distance(x, y) = IF y >= x THEN y - x ELSE y - x + Modulus
         /\ v42_seq_distance(x, y) \in Nat /\ v42_seq_distance(x, y) < Modulus
  <1>1. x \in Nat /\ y \in Nat /\ x < Modulus /\ y < Modulus BY Constants DEF Numbers
  <1>2. y + Modulus - x \in Nat /\ y + Modulus - x < 2 * Modulus BY <1>1, Constants
  <1>3. v42_seq_distance(x, y) = Number(y + Modulus - x) BY DEF v42_seq_distance, Number
  <1> QED BY <1>1, <1>2, <1>3, Reduced, Constants

LEMMA AdvanceIs ==
  ASSUME NEW x \in Numbers
  PROVE  Advance(x) \in Numbers /\ Advance(x) = IF x + 1 = Modulus THEN 0 ELSE x + 1
  <1>1. x + 1 \in Nat /\ x + 1 <= Modulus BY Constants DEF Numbers
  <1>2. Number(x + 1) \in Numbers /\ (x + 1 < Modulus => Number(x + 1) = x + 1) /\ (x + 1 >= Modulus => Number(x + 1) = 0)
    BY <1>1, Reduced, Constants
  <1> QED BY <1>1, <1>2, Constants DEF Advance

(* A count moved on by d.                                                   *)
LEMMA Moved ==
  ASSUME NEW a \in Nat, NEW d \in Nat, d < Modulus
  PROVE  Number(a + d) = IF Number(a) + d < Modulus THEN Number(a) + d ELSE Number(a) + d - Modulus
  <1> DEFINE m == Modulus
             q == a \div m
             r == a % m
  <1>1. m \in Nat \ {0} BY Constants
  <1>2. q \in Nat /\ a = m * q + r /\ r \in 0..m - 1 BY <1>1, Division
  <1>3. CASE r + d < m
    <2>1. a + d = m * q + (r + d) /\ r + d \in 0..m - 1 BY <1>1, <1>2, <1>3
    <2>2. a + d \in Nat OBVIOUS
    <2> HIDE DEF m, q, r
    <2>3. (a + d) % m = r + d BY <1>1, <1>2, <2>1, <2>2, Remainder
    <2> QED BY <2>3, <1>3 DEF m, r, Number
  <1>4. CASE r + d >= m
    <2> DEFINE p == q + 1
               s == r + d - m
               k == a + d
    <2>1. m * p = m * q + m BY <1>1, <1>2
    <2>2. k = m * p + s /\ s \in 0..m - 1 /\ p \in Nat /\ k \in Nat BY <1>1, <1>2, <1>4, <2>1
    <2> HIDE DEF m, q, r, p, s, k
    <2>3. k % m = s BY <1>1, <2>2, Remainder
    <2>5. (a + d) % m = r + d - m BY <2>3 DEF k, s
    <2>6. ~(r + d < m) BY <1>1, <1>2, <1>4
    <2> QED BY <2>5, <2>6 DEF m, r, Number
  <1> QED BY <1>1, <1>2, <1>3, <1>4

(* Counts less than a modulus apart are told apart by their numbers.         *)
LEMMA Between ==
  ASSUME NEW a \in Nat, NEW b \in Nat, a <= b, b - a < Modulus
  PROVE  v42_seq_distance(Number(a), Number(b)) = b - a
  <1>1. b - a \in Nat /\ a + (b - a) = b OBVIOUS
  <1>2. Number(b) = IF Number(a) + (b - a) < Modulus THEN Number(a) + (b - a) ELSE Number(a) + (b - a) - Modulus
    BY <1>1, Moved
  <1>3. Number(a) \in Numbers /\ Number(b) \in Numbers BY Reduced
  <1>4. v42_seq_distance(Number(a), Number(b)) =
          IF Number(b) >= Number(a) THEN Number(b) - Number(a) ELSE Number(b) - Number(a) + Modulus
    BY <1>3, Distance
  <1> QED BY <1>2, <1>3, <1>4, Constants DEF Numbers

LEMMA Forward ==
  ASSUME NEW a \in Nat, NEW x \in Numbers
  PROVE  Number(a + v42_seq_distance(Number(a), x)) = x
  <1>1. Number(a) \in Numbers BY Reduced
  <1> DEFINE d == v42_seq_distance(Number(a), x)
  <1>2. d = (IF x >= Number(a) THEN x - Number(a) ELSE x - Number(a) + Modulus) /\ d \in Nat /\ d < Modulus
    BY <1>1, Distance
  <1>3. Number(a + d) = IF Number(a) + d < Modulus THEN Number(a) + d ELSE Number(a) + d - Modulus BY <1>2, Moved
  <1> HIDE DEF d
  <1>4. Number(a + d) = x BY <1>1, <1>2, <1>3, Constants DEF Numbers
  <1> QED BY <1>4 DEF d

LEMMA Backward ==
  ASSUME NEW x \in Numbers, NEW n \in Nat, v42_seq_distance(x, Number(n)) <= n
  PROVE  x = Number(n - v42_seq_distance(x, Number(n)))
  <1> DEFINE d == v42_seq_distance(x, Number(n))
  <1>1. Number(n) \in Numbers BY Reduced
  <1>2. d = (IF Number(n) >= x THEN Number(n) - x ELSE Number(n) - x + Modulus) /\ d \in Nat /\ d < Modulus
    BY <1>1, Distance
  <1>3. n - d \in Nat /\ (n - d) + d = n BY <1>2
  <1>4. Number(n - d) \in Numbers BY <1>3, Reduced
  <1>5. Number((n - d) + d) = IF Number(n - d) + d < Modulus THEN Number(n - d) + d ELSE Number(n - d) + d - Modulus
    BY <1>2, <1>3, Moved
  <1> HIDE DEF d
  <1>6. Number(n) = IF Number(n - d) + d < Modulus THEN Number(n - d) + d ELSE Number(n - d) + d - Modulus BY <1>3, <1>5
  <1>7. x = Number(n - d) BY <1>1, <1>2, <1>4, <1>6, Constants DEF Numbers
  <1> QED BY <1>7 DEF d

-----------------------------------------------------------------------------
(* Queues of frames.                                                        *)
Any ==
  [type : {"UA", "SABME", "XID", "DISC", "RR", "RNR", "REJ", "SREJ", "I"}, ns : Numbers, nr : Numbers, arg : Nat]

Numbered == {"RR", "RNR", "REJ", "SREJ", "I"}

(* The frames of the present connection: those with no UA from there on.    *)
Live(q) == {i \in 1..Len(q) : \A j \in i..Len(q) : q[j].type # "UA"}

NoUA(q) == \A i \in 1..Len(q) : q[i].type # "UA"

(* The information that is live: each frame carries the unit of its number,  *)
(* no unit is a window or more behind the receiver, nor behind a unit that   *)
(* is ahead of it in the queue.                                             *)
InWindow(q, base_, top, window, got) ==
  /\ \A i \in Live(q) : q[i].type = "I" =>
       /\ base_ < q[i].arg /\ q[i].arg <= top
       /\ q[i].ns = Number(q[i].arg - base_ - 1)
       /\ base_ + got < q[i].arg + window
  /\ \A i, j \in Live(q) : j < i /\ q[i].type = "I" /\ q[j].type = "I" => q[j].arg < q[i].arg + window

(* The acknowledgements that are live grow, up to limit from first on.       *)
Growing(q, first, limit) ==
  /\ \A i \in Live(q) : q[i].type \in Numbered => v42_seq_distance(first, q[i].nr) <= limit
  /\ \A i, j \in Live(q) : j < i /\ q[i].type \in Numbered /\ q[j].type \in Numbered =>
       v42_seq_distance(first, q[j].nr) <= v42_seq_distance(first, q[i].nr)

LEMMA FramesAreAny ==
  /\ FramesDown \subseteq Any /\ FramesUp \subseteq Any
  /\ \A q \in Seq(FramesDown) : q \in Seq(Any)
  /\ \A q \in Seq(FramesUp) : q \in Seq(Any)
  <1>1. ASSUME NEW f \in FramesDown PROVE f \in Any BY DEF FramesDown, Any
  <1>2. ASSUME NEW f \in FramesUp PROVE f \in Any BY DEF FramesUp, Any
  <1> QED BY <1>1, <1>2

LEMMA TailIs ==
  ASSUME NEW S, NEW q \in Seq(S), q # << >>
  PROVE  /\ Tail(q) \in Seq(S) /\ Head(q) \in S /\ Head(q) = q[1] /\ Len(Tail(q)) = Len(q) - 1 /\ Len(q) \in Nat \ {0}
         /\ \A i \in 1..Len(Tail(q)) : i + 1 \in 1..Len(q) /\ Tail(q)[i] = q[i + 1]
  OBVIOUS

LEMMA ConcatIs ==
  ASSUME NEW S, NEW q \in Seq(S), NEW r \in Seq(S)
  PROVE  /\ q \o r \in Seq(S) /\ Len(q \o r) = Len(q) + Len(r) /\ Len(q) \in Nat /\ Len(r) \in Nat
         /\ \A i \in 1..Len(q) : (q \o r)[i] = q[i]
         /\ \A i \in 1..Len(q \o r) : i <= Len(q) \/ (i - Len(q) \in 1..Len(r) /\ (q \o r)[i] = r[i - Len(q)])
  OBVIOUS

LEMMA AppendIs ==
  ASSUME NEW S, NEW q \in Seq(S), NEW f \in S
  PROVE  Append(q, f) = q \o <<f>> /\ <<f>> \in Seq(S) /\ Len(<<f>>) = 1 /\ <<f>>[1] = f
  OBVIOUS

LEMMA LiveTail ==
  ASSUME NEW q \in Seq(Any), q # << >>, NEW i \in Live(Tail(q))
  PROVE  i \in Nat /\ i >= 1 /\ i + 1 \in Live(q) /\ Tail(q)[i] = q[i + 1]
  <1>1. i \in 1..Len(Tail(q)) /\ Len(Tail(q)) = Len(q) - 1 /\ Len(q) \in Nat \ {0} /\ Tail(q)[i] = q[i + 1]
    BY TailIs DEF Live
  <1>2. ASSUME NEW j \in i + 1..Len(q) PROVE q[j].type # "UA"
    <2>1. j - 1 \in i..Len(Tail(q)) /\ j - 1 \in 1..Len(Tail(q)) /\ (j - 1) + 1 = j BY <1>1
    <2>2. Tail(q)[j - 1] = q[j] BY <2>1, TailIs
    <2> QED BY <2>1, <2>2 DEF Live
  <1> QED BY <1>1, <1>2 DEF Live

LEMMA LiveConcat ==
  ASSUME NEW q \in Seq(Any), NEW r \in Seq(Any), NEW i \in Live(q \o r)
  PROVE  /\ i \in Nat /\ Len(q) \in Nat
         /\ i <= Len(q) => i \in Live(q) /\ (q \o r)[i] = q[i]
         /\ i > Len(q) => i - Len(q) \in 1..Len(r) /\ (q \o r)[i] = r[i - Len(q)]
  <1> DEFINE c == q \o r
  <1>1. i \in 1..Len(c) /\ \A j \in i..Len(c) : c[j].type # "UA" BY DEF Live
  <1>2. Len(c) = Len(q) + Len(r) /\ Len(q) \in Nat /\ Len(r) \in Nat BY ConcatIs
  <1>3. CASE i <= Len(q)
    <2>1. c[i] = q[i] BY <1>1, <1>3, ConcatIs, <1>2
    <2>2. ASSUME NEW j \in i..Len(q) PROVE q[j].type # "UA"
      <3>1. j \in i..Len(c) /\ j \in 1..Len(q) BY <1>1, <1>2
      <3>2. c[j] = q[j] BY <3>1, ConcatIs
      <3> QED BY <1>1, <3>1, <3>2
    <2>3. i \in Live(q) BY <1>1, <1>2, <1>3, <2>2 DEF Live
    <2> QED BY <1>1, <1>2, <1>3, <2>1, <2>3
  <1>4. CASE ~(i <= Len(q))
    <2>1. i - Len(q) \in 1..Len(r) /\ c[i] = r[i - Len(q)] BY <1>1, <1>4, ConcatIs
    <2> QED BY <1>1, <1>2, <1>4, <2>1
  <1> QED BY <1>3, <1>4

LEMMA LiveWithoutUA ==
  ASSUME NEW q \in Seq(Any), NoUA(q)
  PROVE  Live(q) = 1..Len(q)
  <1>1. Len(q) \in Nat OBVIOUS
  <1> QED BY <1>1 DEF NoUA, Live

LEMMA LiveAfterUA ==
  ASSUME NEW q \in Seq(Any), NEW f \in Any, f.type = "UA"
  PROVE  Live(Append(q, f)) = {}
  <1>1. Len(Append(q, f)) = Len(q) + 1 /\ Len(q) \in Nat /\ Append(q, f)[Len(q) + 1] = f OBVIOUS
  <1>2. \A i \in 1..Len(Append(q, f)) : Len(q) + 1 \in i..Len(Append(q, f)) BY <1>1
  <1> QED BY <1>1, <1>2 DEF Live

-----------------------------------------------------------------------------
LEMMA WindowTail ==
  ASSUME NEW q \in Seq(Any), q # << >>, NEW b \in Nat, NEW top \in Nat, NEW w \in Nat, NEW got \in Nat,
         InWindow(q, b, top, w, got)
  PROVE  InWindow(Tail(q), b, top, w, got)
  <1>1. ASSUME NEW i \in Live(Tail(q)), Tail(q)[i].type = "I"
        PROVE  /\ b < Tail(q)[i].arg /\ Tail(q)[i].arg <= top
               /\ Tail(q)[i].ns = Number(Tail(q)[i].arg - b - 1)
               /\ b + got < Tail(q)[i].arg + w
    <2>1. i + 1 \in Live(q) /\ Tail(q)[i] = q[i + 1] BY LiveTail
    <2> QED BY <1>1, <2>1 DEF InWindow
  <1>2. ASSUME NEW i \in Live(Tail(q)), NEW j \in Live(Tail(q)), j < i, Tail(q)[i].type = "I", Tail(q)[j].type = "I"
        PROVE  Tail(q)[j].arg < Tail(q)[i].arg + w
    <2>1. i + 1 \in Live(q) /\ Tail(q)[i] = q[i + 1] /\ i \in Nat BY LiveTail
    <2>2. j + 1 \in Live(q) /\ Tail(q)[j] = q[j + 1] /\ j \in Nat BY LiveTail
    <2>3. j + 1 < i + 1 BY <1>2, <2>1, <2>2
    <2> QED BY <1>2, <2>1, <2>2, <2>3 DEF InWindow
  <1> QED BY <1>1, <1>2 DEF InWindow

(* The receiver takes the frame at the head.                                *)
LEMMA WindowTake ==
  ASSUME NEW q \in Seq(Any), q # << >>, NEW b \in Nat, NEW top \in Nat, NEW w \in Nat, NEW got \in Nat,
         InWindow(q, b, top, w, got), 1 \in Live(q), Head(q).type = "I", Head(q).arg = b + got + 1
  PROVE  InWindow(Tail(q), b, top, w, got + 1)
  <1>1. InWindow(Tail(q), b, top, w, got) BY WindowTail
  <1>2. ASSUME NEW i \in Live(Tail(q)), Tail(q)[i].type = "I"
        PROVE  b + (got + 1) < Tail(q)[i].arg + w
    <2>1. i + 1 \in Live(q) /\ Tail(q)[i] = q[i + 1] /\ i \in Nat /\ i >= 1 BY LiveTail
    <2>2. 1 < i + 1 /\ q[1] = Head(q) BY <2>1
    <2>3. q[1].arg < q[i + 1].arg + w BY <1>2, <2>1, <2>2 DEF InWindow
    <2>4. i + 1 \in 1..Len(q) BY <2>1 DEF Live
    <2>8. q[i + 1] \in Any BY <2>4
    <2>5. q[i + 1].arg \in Nat BY <2>8 DEF Any
    <2>6. q[1].arg = b + got + 1 BY <2>2
    <2>7. b + (got + 1) < q[i + 1].arg + w BY <2>3, <2>5, <2>6
    <2> QED BY <2>1, <2>7
  <1> QED BY <1>1, <1>2 DEF InWindow

(* The sender puts in frames of its window.                                 *)
LEMMA WindowConcat ==
  ASSUME NEW q \in Seq(Any), NEW r \in Seq(Any), NEW b \in Nat, NEW old \in Nat, NEW top \in Nat, NEW w \in Nat, NEW got \in Nat,
         InWindow(q, b, old, w, got), old <= top, b + got <= top,
         \A i \in 1..Len(r) : r[i].type = "I" =>
           b < r[i].arg /\ r[i].arg <= top /\ r[i].ns = Number(r[i].arg - b - 1) /\ top < r[i].arg + w
  PROVE  InWindow(q \o r, b, top, w, got)
  <1> DEFINE c == q \o r
  <1>0. c \in Seq(Any) BY ConcatIs
  <1>1. ASSUME NEW i \in Live(c)
        PROVE  /\ c[i].arg \in Nat
               /\ c[i].type = "I" => /\ b < c[i].arg /\ c[i].arg <= top
                                     /\ c[i].ns = Number(c[i].arg - b - 1)
                                     /\ b + got < c[i].arg + w
               /\ c[i].type = "I" /\ i > Len(q) => top < c[i].arg + w
    <2>1. c[i].arg \in Nat
      <3>1. i \in 1..Len(c) BY DEF Live
      <3>2. c[i] \in Any BY <1>0, <3>1
      <3> QED BY <3>2 DEF Any
    <2>2. CASE i <= Len(q)
      <3>1. i \in Live(q) /\ c[i] = q[i] BY <2>2, LiveConcat
      <3>9. i \in Nat /\ Len(q) \in Nat BY LiveConcat
      <3>8. ~(i > Len(q)) BY <2>2, <3>9
      <3> HIDE DEF c
      <3> QED BY <2>1, <3>1, <3>8 DEF InWindow
    <2>3. CASE i > Len(q)
      <3>1. i - Len(q) \in 1..Len(r) /\ c[i] = r[i - Len(q)] BY <2>3, LiveConcat
      <3> HIDE DEF c
      <3> DEFINE k == i - Len(q)
      <3> HIDE DEF k
      <3>2. k \in 1..Len(r) /\ c[i] = r[k] BY <3>1 DEF k
      <3> QED BY <2>1, <3>2
    <2>4. i \in Nat /\ Len(q) \in Nat BY LiveConcat
    <2> HIDE DEF c
    <2>5. i <= Len(q) \/ i > Len(q) BY <2>4
    <2> QED BY <2>2, <2>3, <2>5
  <1>2. ASSUME NEW i \in Live(c), NEW j \in Live(c), j < i, c[i].type = "I", c[j].type = "I"
        PROVE  c[j].arg < c[i].arg + w
    <2>1. CASE i > Len(q)
      <3> HIDE DEF c
      <3>1. c[i].arg \in Nat /\ top < c[i].arg + w BY <1>1, <1>2, <2>1
      <3>2. c[j].arg \in Nat /\ c[j].arg <= top BY <1>1, <1>2
      <3> QED BY <3>1, <3>2
    <2>2. CASE i <= Len(q)
      <3>1. i \in Nat /\ j \in Nat /\ Len(q) \in Nat BY LiveConcat
      <3>2. i \in Live(q) /\ c[i] = q[i] BY <2>2, <3>1, LiveConcat
      <3>3. j <= Len(q) BY <1>2, <2>2, <3>1
      <3>4. j \in Live(q) /\ c[j] = q[j] BY <3>3, LiveConcat
      <3> HIDE DEF c
      <3> QED BY <1>2, <3>2, <3>4 DEF InWindow
    <2>3. i > Len(q) \/ i <= Len(q) BY LiveConcat
    <2> QED BY <2>1, <2>2, <2>3
  <1> HIDE DEF c
  <1>3. InWindow(c, b, top, w, got) BY <1>1, <1>2 DEF InWindow
  <1> QED BY <1>3 DEF c

LEMMA GrowingTail ==
  ASSUME NEW q \in Seq(Any), q # << >>, NEW x \in Numbers, NEW lim \in Nat, Growing(q, x, lim)
  PROVE  Growing(Tail(q), x, lim)
  <1>1. ASSUME NEW i \in Live(Tail(q)), Tail(q)[i].type \in Numbered
        PROVE  v42_seq_distance(x, Tail(q)[i].nr) <= lim
    <2>1. i + 1 \in Live(q) /\ Tail(q)[i] = q[i + 1] BY LiveTail
    <2> QED BY <1>1, <2>1 DEF Growing
  <1>2. ASSUME NEW i \in Live(Tail(q)), NEW j \in Live(Tail(q)), j < i, Tail(q)[i].type \in Numbered, Tail(q)[j].type \in Numbered
        PROVE  v42_seq_distance(x, Tail(q)[j].nr) <= v42_seq_distance(x, Tail(q)[i].nr)
    <2>1. i + 1 \in Live(q) /\ Tail(q)[i] = q[i + 1] /\ i \in Nat BY LiveTail
    <2>2. j + 1 \in Live(q) /\ Tail(q)[j] = q[j + 1] /\ j \in Nat BY LiveTail
    <2>3. j + 1 < i + 1 BY <1>2, <2>1, <2>2
    <2> QED BY <1>2, <2>1, <2>2, <2>3 DEF Growing
  <1> QED BY <1>1, <1>2 DEF Growing

(* The number at the head is taken: the others count from there.            *)
LEMMA GrowingTake ==
  ASSUME NEW q \in Seq(Any), q # << >>, NEW x \in Numbers, NEW lim \in Nat, Growing(q, x, lim), lim < Modulus,
         1 \in Live(q), Head(q).type \in Numbered
  PROVE  /\ v42_seq_distance(x, Head(q).nr) <= lim
         /\ Growing(Tail(q), Head(q).nr, lim - v42_seq_distance(x, Head(q).nr))
  <1> DEFINE y == Head(q).nr
             d == v42_seq_distance(x, y)
  <1>1. Head(q) = q[1] /\ Head(q) \in Any BY TailIs
  <1>2. y \in Numbers BY <1>1 DEF Any
  <1>3. d <= lim /\ d \in Nat BY <1>1, <1>2, Distance DEF Growing
  <1>4. ASSUME NEW i \in Live(Tail(q)), Tail(q)[i].type \in Numbered
        PROVE  /\ Tail(q)[i].nr \in Numbers /\ i + 1 \in Live(q) /\ i \in Nat /\ Tail(q)[i] = q[i + 1]
               /\ v42_seq_distance(y, Tail(q)[i].nr) = v42_seq_distance(x, Tail(q)[i].nr) - d
               /\ v42_seq_distance(x, Tail(q)[i].nr) <= lim
               /\ v42_seq_distance(x, Tail(q)[i].nr) \in Nat
    <2> DEFINE z == Tail(q)[i].nr
    <2>1. i + 1 \in Live(q) /\ Tail(q)[i] = q[i + 1] /\ i \in Nat /\ i >= 1 BY LiveTail
    <2>2. i \in 1..Len(Tail(q)) /\ Tail(q) \in Seq(Any) BY TailIs DEF Live
    <2>3. Tail(q)[i] \in Any BY <2>2
    <2>4. z \in Numbers BY <2>3 DEF Any
    <2>5. d <= v42_seq_distance(x, z) /\ v42_seq_distance(x, z) <= lim
      <3>1. 1 < i + 1 BY <2>1
      <3>2. q[1].type \in Numbered /\ q[i + 1].type \in Numbered BY <1>1, <1>4, <2>1
      <3> QED BY <1>1, <2>1, <3>1, <3>2 DEF Growing
    <2> HIDE DEF z, d, y
    <2>6. v42_seq_distance(y, z) = v42_seq_distance(x, z) - d
      <3>1. /\ d = IF y >= x THEN y - x ELSE y - x + Modulus
            /\ v42_seq_distance(x, z) = IF z >= x THEN z - x ELSE z - x + Modulus
            /\ v42_seq_distance(y, z) = IF z >= y THEN z - y ELSE z - y + Modulus
        BY <1>2, <2>4, Distance DEF d
      <3> QED BY <1>2, <2>4, <2>5, <3>1, Constants DEF Numbers
    <2> QED BY <2>1, <2>4, <2>5, <2>6, Distance DEF z
  <1> HIDE DEF d, y
  <1>5. ASSUME NEW i \in Live(Tail(q)), Tail(q)[i].type \in Numbered
        PROVE  v42_seq_distance(y, Tail(q)[i].nr) <= lim - d
    <2>1. /\ v42_seq_distance(y, Tail(q)[i].nr) = v42_seq_distance(x, Tail(q)[i].nr) - d
          /\ v42_seq_distance(x, Tail(q)[i].nr) <= lim
          /\ v42_seq_distance(x, Tail(q)[i].nr) \in Nat
      BY <1>4, <1>5
    <2> DEFINE e == v42_seq_distance(x, Tail(q)[i].nr)
               u == v42_seq_distance(y, Tail(q)[i].nr)
    <2> HIDE DEF e, u
    <2>2. u = e - d /\ e <= lim /\ e \in Nat BY <2>1 DEF e, u
    <2>3. u <= lim - d BY <1>3, <2>2
    <2> QED BY <2>3 DEF u
  <1>6. ASSUME NEW i \in Live(Tail(q)), NEW j \in Live(Tail(q)), j < i, Tail(q)[i].type \in Numbered, Tail(q)[j].type \in Numbered
        PROVE  v42_seq_distance(y, Tail(q)[j].nr) <= v42_seq_distance(y, Tail(q)[i].nr)
    <2>1. /\ i + 1 \in Live(q) /\ i \in Nat /\ Tail(q)[i] = q[i + 1]
          /\ v42_seq_distance(y, Tail(q)[i].nr) = v42_seq_distance(x, Tail(q)[i].nr) - d
          /\ v42_seq_distance(x, Tail(q)[i].nr) \in Nat
      BY <1>4, <1>6
    <2>2. /\ j + 1 \in Live(q) /\ j \in Nat /\ Tail(q)[j] = q[j + 1]
          /\ v42_seq_distance(y, Tail(q)[j].nr) = v42_seq_distance(x, Tail(q)[j].nr) - d
          /\ v42_seq_distance(x, Tail(q)[j].nr) \in Nat
      BY <1>4, <1>6
    <2>3. j + 1 < i + 1 BY <1>6, <2>1, <2>2
    <2>4. v42_seq_distance(x, Tail(q)[j].nr) <= v42_seq_distance(x, Tail(q)[i].nr)
      BY <1>6, <2>1, <2>2, <2>3 DEF Growing
    <2> DEFINE e == v42_seq_distance(x, Tail(q)[i].nr)
               g == v42_seq_distance(x, Tail(q)[j].nr)
               u == v42_seq_distance(y, Tail(q)[i].nr)
               h == v42_seq_distance(y, Tail(q)[j].nr)
    <2> HIDE DEF e, g, u, h
    <2>5. u = e - d /\ e \in Nat BY <2>1 DEF e, u
    <2>6. h = g - d /\ g \in Nat BY <2>2 DEF g, h
    <2>7. g <= e BY <2>4 DEF e, g
    <2>8. h <= u BY <1>3, <2>5, <2>6, <2>7
    <2> QED BY <2>8 DEF h, u
  <1>7. Growing(Tail(q), y, lim - d) BY <1>5, <1>6 DEF Growing
  <1> QED BY <1>3, <1>7 DEF d, y

(* New numbers acknowledge all there is.                                    *)
LEMMA GrowingConcat ==
  ASSUME NEW q \in Seq(Any), NEW r \in Seq(Any), NEW x \in Numbers, NEW old \in Nat, NEW lim \in Nat,
         Growing(q, x, old), old <= lim,
         \A i \in 1..Len(r) : r[i].type \in Numbered => v42_seq_distance(x, r[i].nr) = lim
  PROVE  Growing(q \o r, x, lim)
  <1> DEFINE c == q \o r
  <1>0. c \in Seq(Any) BY ConcatIs
  <1>1. ASSUME NEW i \in Live(c), c[i].type \in Numbered
        PROVE  /\ v42_seq_distance(x, c[i].nr) \in Nat
               /\ v42_seq_distance(x, c[i].nr) <= lim
               /\ i > Len(q) => v42_seq_distance(x, c[i].nr) = lim
    <2>1. v42_seq_distance(x, c[i].nr) \in Nat
      <3>1. i \in 1..Len(c) BY DEF Live
      <3>2. c[i] \in Any BY <1>0, <3>1
      <3> QED BY <3>2, Distance DEF Any
    <2>2. CASE i <= Len(q)
      <3>1. i \in Live(q) /\ c[i] = q[i] BY <2>2, LiveConcat
      <3>9. i \in Nat /\ Len(q) \in Nat BY LiveConcat
      <3>8. ~(i > Len(q)) BY <2>2, <3>9
      <3> HIDE DEF c
      <3>2. v42_seq_distance(x, q[i].nr) <= old BY <1>1, <3>1 DEF Growing
      <3> QED BY <2>1, <3>1, <3>2, <3>8
    <2>3. CASE i > Len(q)
      <3>1. i - Len(q) \in 1..Len(r) /\ c[i] = r[i - Len(q)] BY <2>3, LiveConcat
      <3> HIDE DEF c
      <3> DEFINE k == i - Len(q)
      <3> HIDE DEF k
      <3>2. k \in 1..Len(r) /\ c[i] = r[k] BY <3>1 DEF k
      <3> QED BY <1>1, <2>1, <3>2
    <2>4. i \in Nat /\ Len(q) \in Nat BY LiveConcat
    <2> HIDE DEF c
    <2>5. i <= Len(q) \/ i > Len(q) BY <2>4
    <2> QED BY <2>2, <2>3, <2>5
  <1>2. ASSUME NEW i \in Live(c), NEW j \in Live(c), j < i, c[i].type \in Numbered, c[j].type \in Numbered
        PROVE  v42_seq_distance(x, c[j].nr) <= v42_seq_distance(x, c[i].nr)
    <2>1. CASE i > Len(q)
      <3> HIDE DEF c
      <3> QED BY <1>1, <1>2, <2>1
    <2>2. CASE i <= Len(q)
      <3>1. i \in Nat /\ j \in Nat /\ Len(q) \in Nat BY LiveConcat
      <3>2. i \in Live(q) /\ c[i] = q[i] BY <2>2, <3>1, LiveConcat
      <3>3. j <= Len(q) BY <1>2, <2>2, <3>1
      <3>4. j \in Live(q) /\ c[j] = q[j] BY <3>3, LiveConcat
      <3> HIDE DEF c
      <3> QED BY <1>2, <3>2, <3>4 DEF Growing
    <2>3. i > Len(q) \/ i <= Len(q) BY LiveConcat
    <2> QED BY <2>1, <2>2, <2>3
  <1> HIDE DEF c
  <1>3. Growing(c, x, lim) BY <1>1, <1>2 DEF Growing
  <1> QED BY <1>3 DEF c

-----------------------------------------------------------------------------
Out(l) == v42_seq_distance(l.tx_ack, l.tx_seq)

(* The stored frames are those outstanding; sent counts all ever sent, bound *)
(* those of former connections.                                             *)
Tx(l, f, b) ==
  /\ \A s \in Numbers :
       l.sent[s] = IF v42_seq_distance(l.tx_ack, s) < Out(l) THEN f + 1 - v42_seq_distance(s, l.tx_seq) ELSE 0
  /\ Out(l) <= MaxWindow /\ Out(l) <= f - b /\ l.tx_seq = Number(f - b)

LEMMA LinkFields ==
  ASSUME NEW l \in Links
  PROVE  /\ l.tx_seq \in Numbers /\ l.rx_seq \in Numbers /\ l.tx_ack \in Numbers /\ l.ready \in BOOLEAN
         /\ l.window \in 1..MaxWindow /\ l.sent \in [Numbers -> 0..PppUnits]
         /\ l.phase \in {"establish", "connected", "release"}
         /\ Out(l) \in Nat /\ Out(l) < Modulus
  <1>1. l.tx_seq \in Numbers /\ l.tx_ack \in Numbers BY DEF Links
  <1>2. Out(l) \in Nat /\ Out(l) < Modulus BY <1>1, Distance DEF Out
  <1> QED BY <1>1, <1>2 DEF Links

LEMMA AckIs ==
  ASSUME NEW l \in Links, NEW nr \in Numbers, NEW m, m = v42_ack_to(l, nr),
         v42_seq_distance(l.tx_ack, nr) <= Out(l)
  PROVE  /\ m.tx_ack = nr /\ m.tx_seq = l.tx_seq /\ m.rx_seq = l.rx_seq /\ m.ready = l.ready /\ m.phase = l.phase
         /\ m.window = l.window /\ m \in Links
         /\ \A s \in Numbers : m.sent[s] = IF v42_seq_distance(l.tx_ack, s) < v42_seq_distance(l.tx_ack, nr) THEN 0 ELSE l.sent[s]
  <1> DEFINE cleared == [s \in Numbers |->
                    IF v42_seq_distance(l.tx_ack, s) < v42_seq_distance(l.tx_ack, nr) THEN 0 ELSE l.sent[s]]
  <1>1. m = [l EXCEPT !.tx_ack = nr, !.sent = cleared] BY Zenon DEF v42_ack_to, Out, Links
  <1>2. cleared \in [Numbers -> 0..PppUnits] /\ \A s \in Numbers : cleared[s] = IF v42_seq_distance(l.tx_ack, s) < v42_seq_distance(l.tx_ack, nr) THEN 0 ELSE l.sent[s]
    BY LinkFields, Constants
  <1> HIDE DEF cleared
  <1>3. m \in Links /\ m.sent = cleared /\ m.tx_ack = nr /\ m.tx_seq = l.tx_seq /\ m.rx_seq = l.rx_seq /\ m.ready = l.ready /\ m.phase = l.phase
         /\ m.window = l.window BY <1>1, <1>2 DEF Links
  <1> QED BY <1>2, <1>3

LEMMA AckKeeps ==
  ASSUME NEW l \in Links, NEW nr \in Numbers, NEW m, m = v42_ack_to(l, nr), NEW f \in Nat, NEW b \in Nat, Tx(l, f, b)
  PROVE  /\ m \in Links /\ Tx(m, f, b)
         /\ m.tx_seq = l.tx_seq /\ m.rx_seq = l.rx_seq /\ m.ready = l.ready /\ m.phase = l.phase /\ m.window = l.window
         /\ v42_seq_distance(l.tx_ack, nr) <= Out(l) =>
              m.tx_ack = nr /\ Out(m) = Out(l) - v42_seq_distance(l.tx_ack, nr)
  <1>1. CASE v42_seq_distance(l.tx_ack, nr) <= Out(l)
    <2> DEFINE a == l.tx_ack
               t == l.tx_seq
    <2>1. /\ m.tx_ack = nr /\ m.tx_seq = t /\ m \in Links
          /\ \A s \in Numbers : m.sent[s] = IF v42_seq_distance(a, s) < v42_seq_distance(a, nr) THEN 0 ELSE l.sent[s]
      BY <1>1, AckIs
    <2>2. a \in Numbers /\ t \in Numbers BY LinkFields
    <2>3. Out(l) = v42_seq_distance(a, t) /\ Out(m) = v42_seq_distance(nr, t) BY <2>1 DEF Out
    <2>4. \A s \in Numbers : l.sent[s] = IF v42_seq_distance(a, s) < Out(l) THEN f + 1 - v42_seq_distance(s, t) ELSE 0
      BY DEF Tx
    <2> HIDE DEF a, t
    <2>5. /\ v42_seq_distance(a, t) = IF t >= a THEN t - a ELSE t - a + Modulus
          /\ v42_seq_distance(a, nr) = IF nr >= a THEN nr - a ELSE nr - a + Modulus
          /\ v42_seq_distance(nr, t) = IF t >= nr THEN t - nr ELSE t - nr + Modulus
      BY <2>2, Distance
    <2>6. Out(m) = Out(l) - v42_seq_distance(a, nr) BY <1>1, <2>2, <2>3, <2>5, Constants DEF Numbers, a
    <2>7. ASSUME NEW s \in Numbers
          PROVE  m.sent[s] = IF v42_seq_distance(nr, s) < Out(m) THEN f + 1 - v42_seq_distance(s, t) ELSE 0
      <3>1. /\ v42_seq_distance(a, s) = IF s >= a THEN s - a ELSE s - a + Modulus
            /\ v42_seq_distance(nr, s) = IF s >= nr THEN s - nr ELSE s - nr + Modulus
        BY <2>2, Distance
      <3>2. v42_seq_distance(nr, s) < Out(m) <=>
              v42_seq_distance(a, s) < Out(l) /\ ~(v42_seq_distance(a, s) < v42_seq_distance(a, nr))
        BY <1>1, <2>2, <2>3, <2>5, <3>1, Constants DEF Numbers, a
      <3>3. m.sent[s] = IF v42_seq_distance(a, s) < v42_seq_distance(a, nr) THEN 0 ELSE l.sent[s] BY <2>1
      <3>4. l.sent[s] = IF v42_seq_distance(a, s) < Out(l) THEN f + 1 - v42_seq_distance(s, t) ELSE 0 BY <2>4
      <3> QED BY <3>2, <3>3, <3>4, Zenon
    <2>8. Out(m) <= Out(l) /\ Out(m) \in Nat BY <2>1, <2>2, <2>6, Distance, LinkFields
    <2>9. Tx(m, f, b)
      <3>1. Out(l) <= MaxWindow /\ Out(l) <= f - b /\ t = Number(f - b) BY DEF Tx, t
      <3>2. Out(m) <= MaxWindow /\ Out(m) <= f - b BY <2>8, <3>1, LinkFields, Constants
      <3> QED BY <2>1, <2>7, <3>1, <3>2 DEF Tx
    <2> QED BY <1>1, <2>1, <2>6, <2>9, AckIs DEF a, t
  <1>2. CASE ~(v42_seq_distance(l.tx_ack, nr) <= Out(l))
    <2>1. m = l BY <1>2 DEF v42_ack_to, Out
    <2> QED BY <1>2, <2>1
  <1> QED BY <1>1, <1>2

-----------------------------------------------------------------------------
(* What a frame that is sent again looks like.                              *)
Again(l, f, x) ==
  /\ x \in FramesDown /\ x.type = "I" /\ x.nr = l.rx_seq /\ x.ns \in Numbers
  /\ v42_seq_distance(l.tx_ack, x.ns) < Out(l) /\ x.arg = f + 1 - v42_seq_distance(x.ns, l.tx_seq)

LEMMA StoredAgain ==
  ASSUME NEW l \in Links, NEW f \in Nat, NEW b \in Nat, Tx(l, f, b), NEW s \in Numbers,
         v42_seq_distance(l.tx_ack, s) < Out(l)
  PROVE  Again(l, f, IFrame(s, l.rx_seq, l.sent[s]))
  <1>1. l.sent[s] = f + 1 - v42_seq_distance(s, l.tx_seq) BY DEF Tx
  <1>2. l.sent[s] \in Nat /\ l.rx_seq \in Numbers BY LinkFields, Constants
  <1> QED BY <1>1, <1>2 DEF Again, IFrame, Frame, FramesDown

LEMMA Retransmits ==
  ASSUME NEW l \in Links, NEW f \in Nat, NEW b \in Nat, b <= f, Tx(l, f, b), NEW nr \in Numbers,
         NEW r, r = v42_retransmit_from(l, nr)
  PROVE  r \in Seq(FramesDown) /\ \A i \in 1..Len(r) : Again(l, f, r[i])
  <1> DEFINE a == l.tx_ack
             t == l.tx_seq
             o == Out(l)
             skipped == IF l.sent[nr] = 0 THEN v42_seq_distance(nr, a) ELSE 0
             count == v42_seq_distance(nr, t) - skipped
             seq(i) == Number(nr + skipped + i - 1)
  <1>1. r = [i \in 1..count |-> IFrame(seq(i), l.rx_seq, l.sent[seq(i)])] BY DEF v42_retransmit_from
  <1>2. a \in Numbers /\ t \in Numbers /\ o = v42_seq_distance(a, t) /\ o \in Nat /\ o < Modulus BY LinkFields DEF Out
  <1>3. l.sent[nr] = IF v42_seq_distance(a, nr) < o THEN f + 1 - v42_seq_distance(nr, t) ELSE 0 BY DEF Tx
  <1>4. o <= f - b BY DEF Tx
  <1> HIDE DEF a, t, o
  <1>5. /\ v42_seq_distance(a, t) = IF t >= a THEN t - a ELSE t - a + Modulus
        /\ v42_seq_distance(nr, t) = IF t >= nr THEN t - nr ELSE t - nr + Modulus
        /\ v42_seq_distance(nr, a) = IF a >= nr THEN a - nr ELSE a - nr + Modulus
        /\ v42_seq_distance(a, nr) = IF nr >= a THEN nr - a ELSE nr - a + Modulus
    BY <1>2, Distance
  <1> DEFINE at == v42_seq_distance(a, t)
             nt == v42_seq_distance(nr, t)
             na == v42_seq_distance(nr, a)
             an == v42_seq_distance(a, nr)
  <1>6. at \in Nat /\ nt \in Nat /\ na \in Nat /\ an \in Nat BY <1>2, Distance
  <1>7. l.sent[nr] = 0 <=> ~(an < o)
    <2> HIDE DEF at, nt, na
    <2>1. an < o => nt <= o
      BY <1>2, <1>5, <1>6, Constants DEF Numbers, at, nt
    <2> QED BY <1>2, <1>3, <1>4, <1>6, <2>1 DEF nt
  <1>8. skipped = (IF an < o THEN 0 ELSE na) /\ skipped \in Nat /\ count = nt - skipped /\ count \in Int BY <1>6, <1>7
  <1> HIDE DEF skipped, count
  <1>9. ASSUME NEW i \in 1..count
        PROVE  seq(i) \in Numbers /\ v42_seq_distance(a, seq(i)) < o
    <2>1. /\ nr \in Nat /\ i \in Nat /\ i >= 1 /\ i <= nt - skipped /\ nr < Modulus
      BY <1>6, <1>8, Constants DEF Numbers
    <2> DEFINE k == nr + skipped + i - 1
    <2>2. k \in Nat /\ k < 2 * Modulus BY <1>2, <1>5, <1>8, <2>1, Constants DEF Numbers
    <2>3. Number(k) \in Numbers /\ Number(k) = IF k < Modulus THEN k ELSE k - Modulus BY <2>2, Reduced, Constants
    <2> DEFINE s == Number(k)
    <2> HIDE DEF s
    <2>4. s \in Numbers /\ s = IF k < Modulus THEN k ELSE k - Modulus BY <2>3 DEF s
    <2>5. v42_seq_distance(a, s) = IF s >= a THEN s - a ELSE s - a + Modulus BY <1>2, <2>4, Distance
    <2>6. v42_seq_distance(a, s) < o BY <1>2, <1>5, <1>8, <2>1, <2>4, <2>5, Constants DEF Numbers
    <2> QED BY <2>4, <2>6 DEF s
  <1> DEFINE st(i) == seq(i)
  <1>10. ASSUME NEW i \in 1..count PROVE Again(l, f, IFrame(seq(i), l.rx_seq, l.sent[seq(i)]))
    <2>1. seq(i) \in Numbers /\ v42_seq_distance(l.tx_ack, seq(i)) < Out(l) BY <1>9 DEF a, o
    <2> HIDE DEF seq
    <2> QED BY <2>1, StoredAgain
  <1> DEFINE x(i) == IFrame(seq(i), l.rx_seq, l.sent[seq(i)])
  <1>11. \A i \in 1..count : Again(l, f, x(i)) BY <1>10
  <1>12. r = [i \in 1..count |-> x(i)] BY <1>1
  <1>13. \A i \in 1..count : x(i) \in FramesDown BY <1>11 DEF Again
  <1> HIDE DEF x, seq
  <1>14. CASE count \in Nat
    <2>1. r \in Seq(FramesDown) /\ Len(r) = count BY <1>12, <1>13, <1>14
    <2> QED BY <1>11, <1>12, <2>1
  <1>15. CASE count \notin Nat
    <2>1. 1..count = {} BY <1>8, <1>15
    <2>2. r = << >> BY <1>12, <2>1
    <2> QED BY <2>2
  <1> QED BY <1>14, <1>15

-----------------------------------------------------------------------------
Total(g) == g.base + g.sent

(* PPP has got the units of the connection up to now, and the guest is less  *)
(* than a window ahead.                                                    *)
Rx(l, got, q, up, total) ==
  /\ l.rx_seq = Number(Len(got)) /\ \A i \in 1..Len(got) : got[i] = up + i
  /\ up + Len(got) <= total /\ total <= up + Len(got) + GuestWindow
  /\ InWindow(q, up, total, GuestWindow, Len(got))

Peer(g, acc, down, f) ==
  /\ g.acked <= g.next /\ g.next <= g.sent /\ g.sent <= g.acked + GuestWindow /\ Total(g) <= GuestUnits
  /\ \A i \in 1..Len(acc) : acc[i] = down + i
  /\ down + Len(acc) <= f
  /\ g.st = "setup" => g.sent = 0 /\ acc = << >>

(* A SABME or DISC is the last frame of the guest until the UA is heard, and *)
(* there is one of them at a time.                                         *)
Hand(g, q, r) ==
  /\ \A i \in 1..Len(q) : /\ q[i].type = "SABME" => g.st = "setup" /\ i = Len(q)
                          /\ q[i].type = "DISC" => g.st = "release" /\ i = Len(q)
  /\ ~NoUA(r) => g.st \in {"setup", "release"} /\ q = << >>
  /\ \A i, j \in 1..Len(r) : r[i].type = "UA" /\ r[j].type = "UA" => i = j

(* The two ends are on one connection.                                      *)
Synced(g, r) == g.st = "up" \/ (g.st = "setup" /\ ~NoUA(r))

Agree(l, f, up, down, got, q, r, g, acc) ==
  /\ g.base = up /\ g.acked <= Len(got) /\ f - down - Len(acc) <= Out(l)
  /\ InWindow(r, down, f, MaxWindow, Len(acc))
  /\ Growing(r, Number(g.acked), Len(got) - g.acked)
  /\ Growing(q, l.tx_ack, Out(l) - (f - down - Len(acc)))

Offers(q) == \A i \in 1..Len(q) : q[i].type = "XID" => q[i].arg \in 1..MaxWindow

IInv ==
  /\ TypeOK /\ Offers(to_bridge)
  /\ Tx(v42, framed, base.down)
  /\ Rx(v42, ppp_got, to_bridge, base.up, Total(guest))
  /\ Peer(guest, g_got, base.down, framed)
  /\ Hand(guest, to_bridge, to_guest)
  /\ Synced(guest, to_guest) => Agree(v42, framed, base.up, base.down, ppp_got, to_bridge, to_guest, guest, g_got)

LEMMA Types ==
  ASSUME TypeOK
  PROVE  /\ v42 \in Links /\ queued \in Nat /\ framed \in Nat /\ framed <= queued /\ queued <= PppUnits
         /\ to_guest \in Seq(FramesDown) /\ to_bridge \in Seq(FramesUp)
         /\ to_guest \in Seq(Any) /\ to_bridge \in Seq(Any)
         /\ ppp_got \in Seq(1..GuestUnits) /\ g_got \in Seq(1..PppUnits)
         /\ guest \in Guests /\ Len(ppp_got) \in Nat /\ Len(g_got) \in Nat
         /\ guest.base \in Nat /\ guest.sent \in Nat /\ guest.next \in Nat /\ guest.acked \in Nat
         /\ base.up \in Nat /\ base.down \in Nat /\ base \in [down : 0..PppUnits, up : 0..GuestUnits]
         /\ losses \in 0..MaxLosses /\ setups \in 0..MaxSetups
         /\ Total(guest) \in Nat
  <1>1. guest \in Guests /\ base \in [down : 0..PppUnits, up : 0..GuestUnits] BY DEF TypeOK
  <1>2. guest.base \in Nat /\ guest.sent \in Nat /\ guest.next \in Nat /\ guest.acked \in Nat BY <1>1, Constants DEF Guests
  <1>3. base.up \in Nat /\ base.down \in Nat BY <1>1, Constants
  <1>4. to_guest \in Seq(Any) /\ to_bridge \in Seq(Any) BY FramesAreAny DEF TypeOK
  <1>5. queued \in Nat /\ framed \in Nat /\ framed <= queued /\ queued <= PppUnits BY Constants DEF TypeOK
  <1>6. Total(guest) \in Nat BY <1>2 DEF Total
  <1> QED BY <1>1, <1>2, <1>3, <1>4, <1>5, <1>6 DEF TypeOK

-----------------------------------------------------------------------------
LEMMA HandTailUp ==
  ASSUME NEW g, NEW q \in Seq(Any), NEW r \in Seq(Any), q # << >>, Hand(g, q, r)
  PROVE  Hand(g, Tail(q), r) /\ NoUA(r)
  <1>1. NoUA(r) BY DEF Hand
  <1>2. ASSUME NEW i \in 1..Len(Tail(q))
        PROVE  /\ Tail(q)[i].type = "SABME" => g.st = "setup" /\ i = Len(Tail(q))
               /\ Tail(q)[i].type = "DISC" => g.st = "release" /\ i = Len(Tail(q))
    <2>1. i + 1 \in 1..Len(q) /\ Tail(q)[i] = q[i + 1] /\ Len(Tail(q)) = Len(q) - 1 /\ Len(q) \in Nat BY TailIs
    <2> DEFINE n == Len(Tail(q))
    <2> HIDE DEF n
    <2>3. i \in Nat /\ n = Len(q) - 1 /\ Len(q) \in Nat BY <2>1 DEF n
    <2>4. i + 1 = Len(q) => i = n BY <2>3
    <2>2. i + 1 = Len(q) => i = Len(Tail(q)) BY <2>4 DEF n
    <2> QED BY <2>1, <2>2 DEF Hand
  <1> QED BY <1>1, <1>2 DEF Hand

LEMMA HandTailDown ==
  ASSUME NEW g, NEW q \in Seq(Any), NEW r \in Seq(Any), r # << >>, Hand(g, q, r)
  PROVE  /\ Hand(g, q, Tail(r))
         /\ NoUA(r) => NoUA(Tail(r))
         /\ Head(r).type = "UA" => NoUA(Tail(r))
  <1>1. /\ \A i \in 1..Len(Tail(r)) : i + 1 \in 1..Len(r) /\ Tail(r)[i] = r[i + 1]
        /\ 1 \in 1..Len(r) /\ Head(r) = r[1] /\ Len(r) \in Nat
    BY TailIs
  <1>2. NoUA(r) => NoUA(Tail(r)) BY <1>1 DEF NoUA
  <1>3. ASSUME Head(r).type = "UA" PROVE NoUA(Tail(r))
    <2> SUFFICES ASSUME NEW i \in 1..Len(Tail(r)), Tail(r)[i].type = "UA" PROVE FALSE BY DEF NoUA
    <2>1. i + 1 \in 1..Len(r) /\ r[i + 1].type = "UA" /\ r[1].type = "UA" /\ 1 \in 1..Len(r) BY <1>1, <1>3
    <2>2. i + 1 = 1 BY <2>1 DEF Hand
    <2> QED BY <2>2
  <1>4. ASSUME NEW i \in 1..Len(Tail(r)), NEW j \in 1..Len(Tail(r)), Tail(r)[i].type = "UA", Tail(r)[j].type = "UA"
        PROVE  i = j
    <2>1. i + 1 \in 1..Len(r) /\ r[i + 1].type = "UA" /\ j + 1 \in 1..Len(r) /\ r[j + 1].type = "UA" BY <1>1, <1>4
    <2>2. i + 1 = j + 1 BY <2>1 DEF Hand
    <2> QED BY <2>2
  <1> QED BY <1>2, <1>3, <1>4 DEF Hand

(* The bridge sends frames other than UA.                                   *)
LEMMA HandSends ==
  ASSUME NEW g, NEW q \in Seq(Any), NEW r \in Seq(Any), NEW x \in Seq(Any), Hand(g, q, r), NoUA(x)
  PROVE  Hand(g, q, r \o x) /\ (NoUA(r \o x) <=> NoUA(r))
  <1>1. /\ \A i \in 1..Len(r) : (r \o x)[i] = r[i] /\ i \in 1..Len(r \o x)
        /\ \A i \in 1..Len(r \o x) : (r \o x)[i].type = "UA" => i \in 1..Len(r)
    <2>1. Len(r \o x) = Len(r) + Len(x) /\ Len(r) \in Nat /\ Len(x) \in Nat /\ \A i \in 1..Len(r) : (r \o x)[i] = r[i] BY ConcatIs
    <2>2. ASSUME NEW i \in 1..Len(r \o x), (r \o x)[i].type = "UA" PROVE i \in 1..Len(r)
      <3>1. i <= Len(r) \/ (i - Len(r) \in 1..Len(x) /\ (r \o x)[i] = x[i - Len(r)]) BY ConcatIs
      <3>2. i <= Len(r) BY <2>2, <3>1 DEF NoUA
      <3> QED BY <2>1, <3>2
    <2>3. \A i \in 1..Len(r) : i \in 1..Len(r \o x) BY <2>1
    <2> QED BY <2>1, <2>2, <2>3
  <1>2. NoUA(r \o x) <=> NoUA(r) BY <1>1 DEF NoUA
  <1>3. ASSUME NEW i \in 1..Len(r \o x), NEW j \in 1..Len(r \o x), (r \o x)[i].type = "UA", (r \o x)[j].type = "UA"
        PROVE  i = j
    <2>1. i \in 1..Len(r) /\ j \in 1..Len(r) BY <1>1, <1>3
    <2>2. r[i].type = "UA" /\ r[j].type = "UA" BY <1>1, <1>3, <2>1
    <2> QED BY <2>1, <2>2 DEF Hand
  <1> QED BY <1>2, <1>3 DEF Hand

(* The guest sends a frame while it is up, or its last one.                 *)
LEMMA HandAppend ==
  ASSUME NEW g, NEW h, NEW q \in Seq(Any), NEW r \in Seq(Any), NEW x \in Any, Hand(g, q, r),
         g.st \notin {"setup", "release"} \/ (q = << >> /\ r = << >>),
         x.type = "SABME" => h.st = "setup", x.type = "DISC" => h.st = "release"
  PROVE  Hand(h, Append(q, x), r) /\ NoUA(r)
  <1>1. NoUA(r) BY DEF Hand, NoUA
  <1>2. \A i \in 1..Len(q) : q[i].type \notin {"SABME", "DISC"} BY DEF Hand
  <1>3. /\ Len(Append(q, x)) = Len(q) + 1 /\ Len(q) \in Nat /\ Append(q, x)[Len(q) + 1] = x
        /\ \A i \in 1..Len(q) : Append(q, x)[i] = q[i]
    OBVIOUS
  <1>4. ASSUME NEW i \in 1..Len(Append(q, x))
        PROVE  /\ Append(q, x)[i].type = "SABME" => h.st = "setup" /\ i = Len(Append(q, x))
               /\ Append(q, x)[i].type = "DISC" => h.st = "release" /\ i = Len(Append(q, x))
    <2>1. CASE i = Len(q) + 1 BY <1>3, <2>1
    <2>2. CASE i # Len(q) + 1
      <3>1. i \in 1..Len(q) BY <1>3, <2>2
      <3> QED BY <1>2, <1>3, <3>1
    <2> QED BY <2>1, <2>2
  <1> QED BY <1>1, <1>4 DEF Hand, NoUA

LEMMA OffersTail ==
  ASSUME NEW q \in Seq(Any), q # << >>, Offers(q)
  PROVE  Offers(Tail(q))
  BY TailIs DEF Offers

LEMMA OffersAppend ==
  ASSUME NEW q \in Seq(Any), NEW x \in Any, Offers(q), x.type = "XID" => x.arg \in 1..MaxWindow
  PROVE  Offers(Append(q, x))
  <1>1. /\ Len(Append(q, x)) = Len(q) + 1 /\ Len(q) \in Nat /\ Append(q, x)[Len(q) + 1] = x
        /\ \A i \in 1..Len(q) : Append(q, x)[i] = q[i]
    OBVIOUS
  <1>2. \A i \in 1..Len(Append(q, x)) : i = Len(q) + 1 \/ i \in 1..Len(q) BY <1>1
  <1> QED BY <1>1, <1>2 DEF Offers

(* Queues without information or numbers.                                   *)
LEMMA EmptyIsFine ==
  ASSUME NEW b, NEW top, NEW w, NEW got, NEW x, NEW lim
  PROVE  InWindow(<< >>, b, top, w, got) /\ Growing(<< >>, x, lim) /\ NoUA(<< >>) /\ Offers(<< >>)
  <1>1. 1..Len(<< >>) = {} OBVIOUS
  <1>2. Live(<< >>) = {} BY <1>1 DEF Live
  <1> QED BY <1>1, <1>2 DEF InWindow, Growing, NoUA, Offers

LEMMA AfterUA ==
  ASSUME NEW q \in Seq(Any), NEW f \in Any, f.type = "UA", NEW b, NEW top, NEW w, NEW got, NEW x, NEW lim
  PROVE  InWindow(Append(q, f), b, top, w, got) /\ Growing(Append(q, f), x, lim)
  <1>1. Live(Append(q, f)) = {} BY LiveAfterUA
  <1> QED BY <1>1 DEF InWindow, Growing

(* One frame put in by the guest.                                           *)
LEMMA WindowAppend ==
  ASSUME NEW q \in Seq(Any), NEW x \in Any, NEW b \in Nat, NEW old \in Nat, NEW top \in Nat, NEW w \in Nat, NEW got \in Nat,
         InWindow(q, b, old, w, got), old <= top, b + got <= top,
         x.type = "I" => b < x.arg /\ x.arg <= top /\ x.ns = Number(x.arg - b - 1) /\ top < x.arg + w
  PROVE  InWindow(Append(q, x), b, top, w, got)
  <1>1. Append(q, x) = q \o <<x>> /\ <<x>> \in Seq(Any) /\ Len(<<x>>) = 1 /\ <<x>>[1] = x BY AppendIs
  <1>2. \A i \in 1..Len(<<x>>) : <<x>>[i] = x BY <1>1
  <1> HIDE DEF InWindow
  <1>3. InWindow(q \o <<x>>, b, top, w, got) BY <1>1, <1>2, WindowConcat
  <1> QED BY <1>1, <1>3

LEMMA GrowingAppend ==
  ASSUME NEW q \in Seq(Any), NEW x \in Any, NEW y \in Numbers, NEW old \in Nat, NEW lim \in Nat,
         Growing(q, y, old), old <= lim, x.type \in Numbered => v42_seq_distance(y, x.nr) = lim
  PROVE  Growing(Append(q, x), y, lim)
  <1>1. Append(q, x) = q \o <<x>> /\ <<x>> \in Seq(Any) /\ Len(<<x>>) = 1 /\ <<x>>[1] = x BY AppendIs
  <1>2. \A i \in 1..Len(<<x>>) : <<x>>[i] = x BY <1>1
  <1>3. Growing(q \o <<x>>, y, lim) BY <1>1, <1>2, GrowingConcat
  <1> QED BY <1>1, <1>3

-----------------------------------------------------------------------------
(* A new frame under the next number.                                       *)
LEMMA PumpKeeps ==
  ASSUME NEW l \in Links, NEW f \in Nat, NEW b \in Nat, b <= f, f < PppUnits, Tx(l, f, b), WindowOpen(l),
         NEW m, m = [l EXCEPT !.sent[l.tx_seq] = f + 1, !.tx_seq = Advance(@)]
  PROVE  /\ m \in Links /\ Tx(m, f + 1, b) /\ Out(m) = Out(l) + 1
         /\ m.tx_ack = l.tx_ack /\ m.rx_seq = l.rx_seq
  <1> DEFINE a == l.tx_ack
             t == l.tx_seq
             u == Advance(t)
             stored == [l.sent EXCEPT ![t] = f + 1]
  <1>1. a \in Numbers /\ t \in Numbers /\ u \in Numbers BY LinkFields, AdvanceIs
  <1>2. stored \in [Numbers -> 0..PppUnits] /\ \A s \in Numbers : stored[s] = IF s = t THEN f + 1 ELSE l.sent[s]
    BY <1>1, LinkFields, Constants
  <1>3. m = [l EXCEPT !.sent = stored, !.tx_seq = u] BY Zenon DEF Links
  <1> HIDE DEF stored, u
  <1>4. m \in Links /\ m.sent = stored /\ m.tx_seq = u /\ m.tx_ack = a /\ m.rx_seq = l.rx_seq
    BY <1>1, <1>2, <1>3 DEF Links
  <1>5. u = IF t + 1 = Modulus THEN 0 ELSE t + 1 BY <1>1, AdvanceIs DEF u
  <1>6. Out(l) < MaxWindow /\ Out(l) \in Nat
    <2>1. Out(l) < l.window /\ l.window \in 1..MaxWindow /\ Out(l) \in Nat BY LinkFields DEF WindowOpen, Out
    <2> QED BY <2>1, Constants
  <1>7. Out(l) = v42_seq_distance(a, t) /\ Out(m) = v42_seq_distance(a, u) BY <1>4 DEF Out
  <1>8. \A s \in Numbers : l.sent[s] = IF v42_seq_distance(a, s) < Out(l) THEN f + 1 - v42_seq_distance(s, t) ELSE 0
    BY DEF Tx
  <1>9. t = Number(f - b) /\ Out(l) <= f - b BY DEF Tx
  <1> HIDE DEF a, t
  <1>10. /\ v42_seq_distance(a, t) = IF t >= a THEN t - a ELSE t - a + Modulus
         /\ v42_seq_distance(a, u) = IF u >= a THEN u - a ELSE u - a + Modulus
    BY <1>1, Distance
  <1>11. Out(m) = Out(l) + 1 BY <1>1, <1>5, <1>6, <1>7, <1>10, Constants DEF Numbers
  <1>12. ASSUME NEW s \in Numbers
         PROVE  m.sent[s] = IF v42_seq_distance(a, s) < Out(m) THEN (f + 1) + 1 - v42_seq_distance(s, u) ELSE 0
    <2>1. /\ v42_seq_distance(a, s) = IF s >= a THEN s - a ELSE s - a + Modulus
          /\ v42_seq_distance(s, t) = IF t >= s THEN t - s ELSE t - s + Modulus
          /\ v42_seq_distance(s, u) = IF u >= s THEN u - s ELSE u - s + Modulus
      BY <1>1, Distance
    <2>2. m.sent[s] = IF s = t THEN f + 1 ELSE l.sent[s] BY <1>2, <1>4
    <2>3. l.sent[s] = IF v42_seq_distance(a, s) < Out(l) THEN f + 1 - v42_seq_distance(s, t) ELSE 0 BY <1>8
    <2>4. CASE s = t
      <3>1. v42_seq_distance(a, s) < Out(m) BY <1>1, <1>7, <1>11, <2>4, <1>6
      <3>2. v42_seq_distance(s, u) = 1 BY <1>1, <1>5, <1>6, <2>1, <2>4, Constants DEF Numbers
      <3> QED BY <2>2, <2>4, <3>1, <3>2
    <2>5. CASE s # t /\ v42_seq_distance(a, s) < Out(l)
      <3>1. v42_seq_distance(a, s) < Out(m) BY <1>1, <1>6, <1>11, <2>5, Distance
      <3>2. v42_seq_distance(s, u) = v42_seq_distance(s, t) + 1 /\ v42_seq_distance(s, t) \in Nat
        BY <1>1, <1>5, <1>6, <1>7, <1>10, <2>1, <2>5, Constants DEF Numbers
      <3> QED BY <2>2, <2>3, <2>5, <3>1, <3>2
    <2>6. CASE s # t /\ ~(v42_seq_distance(a, s) < Out(l))
      <3>1. ~(v42_seq_distance(a, s) < Out(m))
        BY <1>1, <1>5, <1>6, <1>7, <1>10, <1>11, <2>1, <2>6, Constants DEF Numbers
      <3> QED BY <2>2, <2>3, <2>6, <3>1
    <2> QED BY <2>4, <2>5, <2>6
  <1>13. u = Number((f + 1) - b)
    <2>1. f - b \in Nat /\ (f - b) + 1 = (f + 1) - b OBVIOUS
    <2>2. Number((f - b) + 1) = IF Number(f - b) + 1 < Modulus THEN Number(f - b) + 1 ELSE Number(f - b) + 1 - Modulus
      BY <2>1, <1>6, Moved, Constants
    <2>3. Number((f + 1) - b) = IF t + 1 < Modulus THEN t + 1 ELSE t + 1 - Modulus BY <1>9, <2>1, <2>2
    <2> QED BY <1>1, <1>5, <2>3, Constants DEF Numbers
  <1>14. Tx(m, f + 1, b)
    <2>1. Out(m) <= MaxWindow /\ Out(m) <= (f + 1) - b BY <1>6, <1>9, <1>11, Constants
    <2>2. \A s \in Numbers : m.sent[s] = IF v42_seq_distance(m.tx_ack, s) < Out(m) THEN (f + 1) + 1 - v42_seq_distance(s, m.tx_seq) ELSE 0
      BY <1>4, <1>12
    <2> QED BY <1>4, <1>13, <2>1, <2>2 DEF Tx
  <1> QED BY <1>4, <1>11, <1>14 DEF a

-----------------------------------------------------------------------------
(* The number of what the receiver has acknowledges exactly that.            *)
LEMMA AckNumber ==
  ASSUME NEW l \in Links, NEW f \in Nat, NEW b \in Nat, Tx(l, f, b), NEW n \in Nat, b + n <= f, f - b - n <= Out(l)
  PROVE  v42_seq_distance(l.tx_ack, Number(n)) = Out(l) - (f - b - n) /\ Out(l) - (f - b - n) \in Nat
  <1>1. f - b \in Nat BY DEF Tx
  <1>2. l.tx_ack \in Numbers /\ Out(l) \in Nat /\ Out(l) < Modulus /\ Out(l) <= f - b BY LinkFields DEF Tx
  <1>3. Out(l) = v42_seq_distance(l.tx_ack, Number(f - b)) BY DEF Tx, Out
  <1>4. l.tx_ack = Number(f - b - Out(l)) BY <1>1, <1>2, <1>3, Backward
  <1> DEFINE o == Out(l)
             k == f - b - o
  <1> HIDE DEF o
  <1>5. o \in Nat /\ o < Modulus /\ o <= f - b /\ f - b - n <= o BY <1>2 DEF o
  <1>6. k \in Nat /\ k <= n /\ n - k = o - (f - b - n) /\ n - k <= o BY <1>1, <1>5
  <1>7. n - k < Modulus BY <1>5, <1>6, Constants
  <1>8. l.tx_ack = Number(k) BY <1>4 DEF o
  <1> HIDE DEF k
  <1>9. v42_seq_distance(Number(k), Number(n)) = n - k /\ n - k \in Nat BY <1>6, <1>7, Between
  <1> QED BY <1>6, <1>8, <1>9 DEF o

(* What a stored frame carries is the unit of its number.                   *)
LEMMA AgainFits ==
  ASSUME NEW l \in Links, NEW f \in Nat, NEW b \in Nat, Tx(l, f, b), NEW x, Again(l, f, x)
  PROVE  /\ x \in FramesDown /\ x.type = "I" /\ x.nr = l.rx_seq
         /\ b < x.arg /\ x.arg <= f /\ x.ns = Number(x.arg - b - 1) /\ f < x.arg + MaxWindow
  <1> DEFINE a == l.tx_ack
             t == l.tx_seq
             s == x.ns
             k == v42_seq_distance(s, t)
  <1>1. a \in Numbers /\ t \in Numbers /\ s \in Numbers BY LinkFields DEF Again
  <1>2. Out(l) = v42_seq_distance(a, t) /\ Out(l) <= f - b /\ Out(l) <= MaxWindow /\ t = Number(f - b) BY DEF Tx, Out
  <1>3. v42_seq_distance(a, s) < Out(l) /\ x.arg = f + 1 - k BY DEF Again
  <1>4. /\ v42_seq_distance(a, t) = IF t >= a THEN t - a ELSE t - a + Modulus
        /\ v42_seq_distance(a, s) = IF s >= a THEN s - a ELSE s - a + Modulus
        /\ v42_seq_distance(s, t) = IF t >= s THEN t - s ELSE t - s + Modulus
        /\ k \in Nat /\ Out(l) \in Nat
    BY <1>1, Distance, LinkFields
  <1> HIDE DEF a, t, s
  <1>5. k >= 1 /\ k <= Out(l) BY <1>1, <1>2, <1>3, <1>4, Constants DEF Numbers
  <1>6. s = Number(f - b - k)
    <2>1. f - b \in Nat /\ k <= f - b BY <1>2, <1>4, <1>5
    <2>2. k = v42_seq_distance(s, Number(f - b)) BY <1>2
    <2> HIDE DEF k
    <2> QED BY <1>1, <2>1, <2>2, Backward
  <1> HIDE DEF k
  <1>7. x.arg - b - 1 = f - b - k /\ b < x.arg /\ x.arg <= f /\ f < x.arg + MaxWindow BY <1>2, <1>3, <1>4, <1>5, Constants
  <1> QED BY <1>6, <1>7 DEF Again, s

(* The receiver tells units by their numbers.                               *)
LEMMA NumberTells ==
  ASSUME NEW n \in Nat, NEW m \in Nat, Number(n) = Number(m), n - m < Modulus, m - n < Modulus
  PROVE  n = m
  <1>1. CASE n <= m
    <2>1. v42_seq_distance(Number(n), Number(m)) = m - n BY <1>1, Between
    <2>2. v42_seq_distance(Number(n), Number(n)) = n - n BY Between, Constants
    <2> QED BY <2>1, <2>2
  <1>2. CASE m <= n
    <2>1. v42_seq_distance(Number(m), Number(n)) = n - m BY <1>2, Between
    <2>2. v42_seq_distance(Number(n), Number(n)) = n - n BY Between, Constants
    <2> QED BY <2>1, <2>2
  <1> QED BY <1>1, <1>2

-----------------------------------------------------------------------------
(* What PPP has and the guest has not seen acknowledged is in its window.    *)
LEMMA Unseen ==
  ASSUME IInv, Synced(guest, to_guest)
  PROVE  /\ Len(ppp_got) - guest.acked \in Nat /\ Len(ppp_got) - guest.acked < Modulus
         /\ Number(guest.acked) \in Numbers /\ Number(Len(ppp_got)) \in Numbers
         /\ v42_seq_distance(Number(guest.acked), Number(Len(ppp_got))) = Len(ppp_got) - guest.acked
  <1> DEFINE n == Len(ppp_got)
             a == guest.acked
  <1>1. n \in Nat /\ a \in Nat /\ guest.sent \in Nat /\ guest.base \in Nat /\ base.up \in Nat BY Types DEF IInv
  <1>2. guest.base = base.up /\ a <= n BY DEF IInv, Agree
  <1>3. base.up + n <= guest.base + guest.sent BY DEF IInv, Rx, Total
  <1>4. guest.sent <= a + GuestWindow BY DEF IInv, Peer
  <1>5. n - a \in Nat /\ n - a < Modulus BY <1>1, <1>2, <1>3, <1>4, Constants
  <1> HIDE DEF n, a
  <1>6. v42_seq_distance(Number(a), Number(n)) = n - a BY <1>1, <1>2, <1>5, Between
  <1>7. Number(a) \in Numbers /\ Number(n) \in Numbers BY <1>1, Reduced
  <1> QED BY <1>5, <1>6, <1>7 DEF n, a

(* What the guest has accepted and the bridge has not seen acknowledged.     *)
LEMMA Unheard ==
  ASSUME IInv, Synced(guest, to_guest)
  PROVE  /\ Out(v42) - (framed - base.down - Len(g_got)) \in Nat
         /\ Out(v42) - (framed - base.down - Len(g_got)) <= Out(v42)
         /\ v42_seq_distance(v42.tx_ack, Number(Len(g_got))) = Out(v42) - (framed - base.down - Len(g_got))
         /\ v42.tx_ack \in Numbers /\ Out(v42) \in Nat /\ Out(v42) < Modulus
         /\ framed - base.down - Len(g_got) \in Nat
  <1>1. v42 \in Links /\ framed \in Nat /\ base.down \in Nat /\ Len(g_got) \in Nat BY Types DEF IInv
  <1>2. base.down + Len(g_got) <= framed /\ framed - base.down - Len(g_got) <= Out(v42) /\ Tx(v42, framed, base.down)
    BY DEF IInv, Peer, Agree
  <1>3. /\ v42_seq_distance(v42.tx_ack, Number(Len(g_got))) = Out(v42) - (framed - base.down - Len(g_got))
        /\ Out(v42) - (framed - base.down - Len(g_got)) \in Nat
    BY <1>1, <1>2, AckNumber
  <1>4. v42.tx_ack \in Numbers /\ Out(v42) \in Nat /\ Out(v42) < Modulus BY <1>1, LinkFields
  <1>5. framed - base.down - Len(g_got) \in Nat BY <1>1, <1>2
  <1> DEFINE k == framed - base.down - Len(g_got)
             o == Out(v42)
  <1> HIDE DEF k, o
  <1>6. o - k <= o BY <1>4, <1>5 DEF k, o
  <1> QED BY <1>3, <1>4, <1>5, <1>6 DEF k, o

LEMMA InformationIs ==
  ASSUME NEW ns \in Numbers, NEW nr \in Numbers, NEW u \in Nat
  PROVE  /\ IFrame(ns, nr, u) \in FramesDown /\ IFrame(ns, nr, u) \in FramesUp /\ IFrame(ns, nr, u) \in Any
         /\ IFrame(ns, nr, u).type = "I" /\ IFrame(ns, nr, u).ns = ns /\ IFrame(ns, nr, u).nr = nr
         /\ IFrame(ns, nr, u).arg = u
  BY DEF IFrame, Frame, FramesDown, FramesUp, Any

LEMMA SupervisoryIs ==
  ASSUME NEW type \in {"RR", "RNR", "REJ", "SREJ"}, NEW nr \in Numbers, NEW p \in Nat
  PROVE  /\ type \in {"RR", "REJ"} => SFrame(type, nr, p) \in FramesDown
         /\ SFrame(type, nr, p) \in FramesUp /\ SFrame(type, nr, p) \in Any
         /\ SFrame(type, nr, p).type = type /\ SFrame(type, nr, p).nr = nr
  <1>1. 0 \in Numbers BY Constants DEF Numbers
  <1> QED BY <1>1 DEF SFrame, Frame, FramesDown, FramesUp, Any

LEMMA UnnumberedIs ==
  ASSUME NEW type, NEW p \in Nat
  PROVE  /\ type \in {"UA", "XID"} => UFrame(type, p) \in FramesDown
         /\ type \in {"SABME", "XID", "DISC"} => UFrame(type, p) \in FramesUp
         /\ type \in {"UA", "SABME", "XID", "DISC"} => UFrame(type, p) \in Any
         /\ UFrame(type, p).type = type /\ UFrame(type, p).arg = p
  <1>1. 0 \in Numbers BY Constants DEF Numbers
  <1> QED BY <1>1 DEF UFrame, Frame, FramesDown, FramesUp, Any

LEMMA OneIsNotUA ==
  ASSUME NEW x, x.type # "UA"
  PROVE  NoUA(<<x>>)
  BY DEF NoUA

(* The bridge puts one frame into the queue.                                *)
LEMMA SendsOne ==
  ASSUME NEW g, NEW q \in Seq(Any), NEW r \in Seq(Any), NEW x \in Any, x.type # "UA", Hand(g, q, r)
  PROVE  Hand(g, q, Append(r, x)) /\ (Synced(g, Append(r, x)) <=> Synced(g, r))
  <1>1. Append(r, x) = r \o <<x>> /\ <<x>> \in Seq(Any) BY AppendIs
  <1>2. NoUA(<<x>>) BY OneIsNotUA
  <1>3. Hand(g, q, r \o <<x>>) /\ (NoUA(r \o <<x>>) <=> NoUA(r)) BY <1>1, <1>2, HandSends
  <1> QED BY <1>1, <1>3 DEF Synced

-----------------------------------------------------------------------------
LEMMA PumpInv ==
  ASSUME IInv, Pump
  PROVE  IInv'
  <1> DEFINE x == IFrame(v42.tx_seq, v42.rx_seq, framed + 1)
             f == framed + 1
             d == base.down
  <1>1. /\ framed < queued /\ WindowOpen(v42) /\ framed' = f
        /\ v42' = [v42 EXCEPT !.sent[v42.tx_seq] = framed + 1, !.tx_seq = Advance(@)]
        /\ to_guest' = Append(to_guest, x)
        /\ UNCHANGED <<queued, ppp_got, to_bridge, guest, g_got, base, losses, setups>>
    BY DEF Pump, line
  <1>2. /\ v42 \in Links /\ framed \in Nat /\ queued \in Nat /\ queued <= PppUnits /\ d \in Nat
        /\ to_guest \in Seq(FramesDown) /\ to_guest \in Seq(Any) /\ to_bridge \in Seq(Any) /\ f \in Nat /\ Len(g_got) \in Nat
    BY Types DEF IInv
  <1>3. d + Len(g_got) <= framed /\ Tx(v42, framed, d) BY DEF IInv, Peer
  <1>4. d <= framed /\ framed < PppUnits
    <2> DEFINE c == Len(g_got)
    <2>1. d + c <= framed /\ c \in Nat /\ d \in Nat /\ framed \in Nat BY <1>2, <1>3
    <2>2. framed < queued /\ queued <= PppUnits /\ queued \in Nat /\ PppUnits \in Nat BY <1>1, <1>2, Constants
    <2> HIDE DEF c, d
    <2> QED BY <2>1, <2>2
  <1>5. /\ v42' \in Links /\ Tx(v42', f, d) /\ Out(v42') = Out(v42) + 1
        /\ v42'.tx_ack = v42.tx_ack /\ v42'.rx_seq = v42.rx_seq
    BY <1>1, <1>2, <1>3, <1>4, PumpKeeps
  <1>6. v42.tx_seq \in Numbers /\ v42.rx_seq \in Numbers /\ v42.tx_seq = Number(framed - d) /\ v42.rx_seq = Number(Len(ppp_got))
    BY <1>2, <1>3, LinkFields DEF Tx, IInv, Rx
  <1>7. x \in FramesDown /\ x \in Any /\ x.type = "I" /\ x.ns = v42.tx_seq /\ x.nr = v42.rx_seq /\ x.arg = f
    BY <1>2, <1>6, InformationIs
  <1> HIDE DEF x
  <1>8. to_guest' \in Seq(FramesDown) BY <1>1, <1>2, <1>7
  <1>9. TypeOK'
    <2>1. framed' \in 0..queued' BY <1>1, <1>2
    <2> QED BY <1>1, <1>5, <1>8, <2>1 DEF IInv, TypeOK
  <1>10. Hand(guest, to_bridge, to_guest') /\ (Synced(guest, to_guest') <=> Synced(guest, to_guest))
    BY <1>1, <1>2, <1>7, SendsOne DEF IInv
  <1>11. Peer(guest, g_got, d, f) BY <1>2 DEF IInv, Peer
  <1>12. Rx(v42', ppp_got, to_bridge, base.up, Total(guest)) BY <1>5 DEF IInv, Rx
  <1>13. ASSUME Synced(guest, to_guest)
         PROVE  Agree(v42', f, base.up, d, ppp_got, to_bridge, to_guest', guest, g_got)
    <2>1. Agree(v42, framed, base.up, d, ppp_got, to_bridge, to_guest, guest, g_got) BY <1>13 DEF IInv
    <2>2. InWindow(Append(to_guest, x), d, f, MaxWindow, Len(g_got))
      <3>1. framed <= f /\ d + Len(g_got) <= f BY <1>2, <1>3
      <3>2. d < x.arg /\ x.arg <= f /\ x.ns = Number(x.arg - d - 1) /\ f < x.arg + MaxWindow
        BY <1>2, <1>4, <1>6, <1>7, Constants
      <3>3. InWindow(to_guest, d, framed, MaxWindow, Len(g_got)) BY <2>1 DEF Agree
      <3> HIDE DEF f, d
      <3>4. MaxWindow \in Nat BY Constants
      <3> QED BY <1>2, <1>7, <3>1, <3>2, <3>3, <3>4, WindowAppend
    <2>3. Growing(Append(to_guest, x), Number(guest.acked), Len(ppp_got) - guest.acked)
      <3>1. Growing(to_guest, Number(guest.acked), Len(ppp_got) - guest.acked) BY <2>1 DEF Agree
      <3>2. v42_seq_distance(Number(guest.acked), x.nr) = Len(ppp_got) - guest.acked BY <1>6, <1>7, <1>13, Unseen
      <3>3. Len(ppp_got) - guest.acked \in Nat /\ Number(guest.acked) \in Numbers BY <1>13, Unseen
      <3> QED BY <1>2, <1>7, <3>1, <3>2, <3>3, GrowingAppend
    <2> DEFINE o == Out(v42)
               k == framed - d - Len(g_got)
    <2>4. o \in Nat /\ k \in Nat /\ k <= o BY <1>13, <2>1, Unheard DEF Agree
    <2>5. f - d - Len(g_got) = k + 1
      <3> DEFINE c == Len(g_got)
      <3>1. framed \in Nat /\ d \in Nat /\ c \in Nat /\ f = framed + 1 /\ k = framed - d - c BY <1>2
      <3> HIDE DEF d, c, f, k
      <3>2. f - d - c = k + 1 BY <3>1
      <3> QED BY <3>2 DEF c
    <2>6. Growing(to_bridge, v42.tx_ack, o - k) BY <2>1 DEF Agree
    <2> HIDE DEF o, k
    <2>7. Out(v42') = o + 1 BY <1>5 DEF o
    <2>8. (o + 1) - (k + 1) = o - k /\ k + 1 <= o + 1 BY <2>4
    <2>9. guest.base = base.up /\ guest.acked <= Len(ppp_got) BY <2>1 DEF Agree
    <2> QED BY <1>1, <1>5, <2>2, <2>3, <2>5, <2>6, <2>7, <2>8, <2>9 DEF Agree
  <1>14. Offers(to_bridge) BY DEF IInv
  <1> QED BY <1>1, <1>5, <1>9, <1>10, <1>11, <1>12, <1>13, <1>14 DEF IInv

LEMMA PollInv ==
  ASSUME IInv, Poll
  PROVE  IInv'
  <1> DEFINE x == SFrame("RR", v42.rx_seq, 1)
  <1>1. /\ to_guest = << >> /\ to_guest' = <<x>>
        /\ UNCHANGED <<v42, queued, framed, ppp_got, to_bridge, guest, g_got, base, losses, setups>>
    BY DEF Poll, line
  <1>2. v42 \in Links /\ to_bridge \in Seq(Any) /\ to_guest \in Seq(Any) /\ base.down \in Nat /\ framed \in Nat /\ Len(g_got) \in Nat
    BY Types DEF IInv
  <1>3. v42.rx_seq \in Numbers /\ v42.rx_seq = Number(Len(ppp_got)) BY <1>2, LinkFields DEF IInv, Rx
  <1>4. x \in FramesDown /\ x \in Any /\ x.type = "RR" /\ x.nr = v42.rx_seq BY <1>3, SupervisoryIs
  <1> HIDE DEF x
  <1>5. to_guest' = Append(to_guest, x) BY <1>1
  <1>6. TypeOK' BY <1>1, <1>4 DEF IInv, TypeOK
  <1>7. Hand(guest, to_bridge, to_guest') /\ (Synced(guest, to_guest') <=> Synced(guest, to_guest))
    BY <1>2, <1>4, <1>5, SendsOne DEF IInv
  <1>8. ASSUME Synced(guest, to_guest)
        PROVE  Agree(v42, framed, base.up, base.down, ppp_got, to_bridge, to_guest', guest, g_got)
    <2>1. Agree(v42, framed, base.up, base.down, ppp_got, to_bridge, to_guest, guest, g_got) BY <1>8 DEF IInv
    <2>2. InWindow(Append(to_guest, x), base.down, framed, MaxWindow, Len(g_got))
      <3>1. InWindow(to_guest, base.down, framed, MaxWindow, Len(g_got)) /\ base.down + Len(g_got) <= framed
        BY <2>1 DEF Agree, IInv, Peer
      <3>2. MaxWindow \in Nat /\ framed <= framed BY <1>2, Constants
      <3> QED BY <1>2, <1>4, <3>1, <3>2, WindowAppend
    <2>3. Growing(Append(to_guest, x), Number(guest.acked), Len(ppp_got) - guest.acked)
      <3>1. Growing(to_guest, Number(guest.acked), Len(ppp_got) - guest.acked) BY <2>1 DEF Agree
      <3>2. v42_seq_distance(Number(guest.acked), x.nr) = Len(ppp_got) - guest.acked BY <1>3, <1>4, <1>8, Unseen
      <3>3. Len(ppp_got) - guest.acked \in Nat /\ Number(guest.acked) \in Numbers BY <1>8, Unseen
      <3> QED BY <1>2, <1>4, <3>1, <3>2, <3>3, GrowingAppend
    <2> QED BY <1>5, <2>1, <2>2, <2>3 DEF Agree
  <1> QED BY <1>1, <1>6, <1>7, <1>8 DEF IInv

LEMMA PppQueuesInv ==
  ASSUME IInv, PppQueues
  PROVE  IInv'
  <1>1. queued < PppUnits /\ queued' = queued + 1 /\ UNCHANGED <<v42, framed, to_guest, ppp_got, to_bridge, guest, g_got, base, losses, setups>>
    BY DEF PppQueues, line
  <1>2. queued' \in 0..PppUnits /\ framed' \in 0..queued'
    <2>1. queued \in 0..PppUnits /\ framed \in 0..queued /\ PppUnits \in Nat BY Constants DEF IInv, TypeOK
    <2>2. queued < PppUnits /\ queued' = queued + 1 /\ framed' = framed BY <1>1
    <2> QED BY <2>1, <2>2
  <1>3. TypeOK' BY <1>1, <1>2 DEF IInv, TypeOK
  <1> QED BY <1>1, <1>3 DEF IInv

-----------------------------------------------------------------------------
(* The guest sets up anew: what it had sent becomes its base.                *)
LEMMA GuestSetsUpInv ==
  ASSUME IInv, GuestSetsUp
  PROVE  IInv'
  <1> DEFINE x == UFrame("SABME", 0)
             t == guest.base + guest.sent
  <1>0. /\ setups < MaxSetups /\ setups' = setups + 1
        /\ guest.st \in {"setup", "release"} => to_bridge = << >> /\ to_guest = << >>
        /\ guest' = [st |-> "setup", base |-> t, sent |-> 0, next |-> 0, acked |-> 0, rej |-> FALSE, busy |-> FALSE]
        /\ g_got' = << >> /\ to_bridge' = Append(to_bridge, x)
        /\ UNCHANGED <<v42, queued, framed, to_guest, ppp_got, base, losses>>
    BY DEF GuestSetsUp, Quiet
  <1>1. setups' \in 0..MaxSetups
    <2>1. setups < MaxSetups /\ setups' = setups + 1 BY <1>0
    <2>2. setups \in 0..MaxSetups /\ MaxSetups \in Nat BY Constants DEF IInv, TypeOK
    <2> QED BY <2>1, <2>2
  <1>2. /\ to_guest \in Seq(Any) /\ to_bridge \in Seq(Any) /\ to_bridge \in Seq(FramesUp)
        /\ base.up \in Nat /\ base.down \in Nat /\ framed \in Nat /\ Len(ppp_got) \in Nat /\ Len(g_got) \in Nat
        /\ Total(guest) \in Nat /\ guest.base \in Nat /\ guest.sent \in Nat
    BY Types DEF IInv
  <1>3. t <= GuestUnits /\ t \in Nat BY <1>2 DEF IInv, Peer, Total
  <1>4. x \in FramesUp /\ x \in Any /\ x.type = "SABME" BY UnnumberedIs
  <1> HIDE DEF x, t
  <1>5. /\ guest'.st = "setup" /\ guest'.base = t /\ guest'.sent = 0 /\ guest'.next = 0 /\ guest'.acked = 0
        /\ guest' \in Guests
    BY <1>0, <1>3, Constants DEF Guests
  <1>6. TypeOK'
    <2>1. to_bridge' \in Seq(FramesUp) BY <1>0, <1>2, <1>4
    <2>2. g_got' \in Seq(1..PppUnits) BY <1>0
    <2> QED BY <1>0, <1>1, <1>5, <2>1, <2>2 DEF IInv, TypeOK
  <1>7. Hand(guest', to_bridge', to_guest) /\ NoUA(to_guest)
    <2>1. Hand(guest, to_bridge, to_guest) BY DEF IInv
    <2>2. x.type # "DISC" BY <1>4
    <2> QED BY <1>0, <1>2, <1>4, <1>5, <2>1, <2>2, HandAppend
  <1>8. ~Synced(guest', to_guest') BY <1>0, <1>5, <1>7 DEF Synced
  <1>9. Total(guest') = Total(guest) BY <1>2, <1>3, <1>5 DEF Total, t
  <1>10. Rx(v42, ppp_got, to_bridge', base.up, Total(guest'))
    <2>1. InWindow(to_bridge, base.up, Total(guest), GuestWindow, Len(ppp_got)) /\ base.up + Len(ppp_got) <= Total(guest)
      BY DEF IInv, Rx
    <2>2. Total(guest) <= Total(guest) /\ x.type # "I" /\ GuestWindow \in Nat BY <1>2, <1>4, Constants
    <2>3. InWindow(Append(to_bridge, x), base.up, Total(guest), GuestWindow, Len(ppp_got))
      BY <1>2, <1>4, <2>1, <2>2, WindowAppend
    <2> QED BY <1>0, <1>9, <2>3 DEF IInv, Rx
  <1>11. Peer(guest', g_got', base.down, framed)
    <2>1. Len(g_got') = 0 /\ base.down <= framed BY <1>0, <1>2 DEF IInv, Peer
    <2>2. Total(guest') <= GuestUnits BY <1>9 DEF IInv, Peer
    <2> QED BY <1>0, <1>2, <1>5, <2>1, <2>2, Constants DEF Peer
  <1>12. Offers(to_bridge') BY <1>0, <1>2, <1>4, OffersAppend DEF IInv
  <1> QED BY <1>0, <1>6, <1>7, <1>8, <1>10, <1>11, <1>12 DEF IInv

LEMMA GuestNegotiatesInv ==
  ASSUME IInv, NEW w \in 1..MaxWindow, GuestNegotiates(w)
  PROVE  IInv'
  <1> DEFINE x == UFrame("XID", w)
  <1>0. /\ guest.st = "down" /\ to_bridge = << >> /\ to_guest = << >> /\ to_bridge' = <<x>>
        /\ UNCHANGED <<v42, queued, framed, to_guest, ppp_got, guest, g_got, base, losses, setups>>
    BY DEF GuestNegotiates, Quiet, line
  <1>1. w \in Nat BY Constants
  <1>2. x \in FramesUp /\ x \in Any /\ x.type = "XID" /\ x.arg = w BY <1>1, UnnumberedIs
  <1> HIDE DEF x
  <1>3. /\ to_guest \in Seq(Any) /\ to_bridge \in Seq(Any) /\ to_bridge \in Seq(FramesUp)
        /\ base.up \in Nat /\ Len(ppp_got) \in Nat /\ Total(guest) \in Nat
    BY Types DEF IInv
  <1>4. to_bridge' = Append(to_bridge, x) BY <1>0
  <1>5. TypeOK'
    <2>1. to_bridge' \in Seq(FramesUp) BY <1>3, <1>2, <1>4
    <2> QED BY <1>0, <2>1 DEF IInv, TypeOK
  <1>6. Hand(guest, to_bridge', to_guest) BY <1>0, <1>2, <1>3, <1>4, HandAppend DEF IInv
  <1>7. Rx(v42, ppp_got, to_bridge', base.up, Total(guest))
    <2>1. InWindow(to_bridge, base.up, Total(guest), GuestWindow, Len(ppp_got)) /\ base.up + Len(ppp_got) <= Total(guest)
      BY DEF IInv, Rx
    <2>2. InWindow(Append(to_bridge, x), base.up, Total(guest), GuestWindow, Len(ppp_got))
      <3>1. Total(guest) <= Total(guest) /\ x.type # "I" /\ GuestWindow \in Nat BY <1>2, <1>3, Constants
      <3> QED BY <1>2, <1>3, <2>1, <3>1, WindowAppend
    <2> QED BY <1>4, <2>2 DEF IInv, Rx
  <1>8. Offers(to_bridge') BY <1>2, <1>3, <1>4, OffersAppend DEF IInv
  <1>9. ~Synced(guest, to_guest) BY <1>0 DEF Synced
  <1> QED BY <1>0, <1>5, <1>6, <1>7, <1>8, <1>9 DEF IInv

(* The guest is up and puts in one more frame.                              *)
LEMMA UpAppend ==
  ASSUME IInv, guest.st = "up", NEW x \in FramesUp, x.type \in {"RR", "RNR", "REJ", "SREJ", "I"},
         NEW h, h.st = "up", NEW total \in Nat, Total(guest) <= total,
         x.type = "I" => base.up < x.arg /\ x.arg <= total /\ x.ns = Number(x.arg - base.up - 1) /\ total < x.arg + GuestWindow,
         total <= base.up + Len(ppp_got) + GuestWindow, x.nr = Number(Len(g_got))
  PROVE  /\ Append(to_bridge, x) \in Seq(FramesUp)
         /\ Hand(h, Append(to_bridge, x), to_guest)
         /\ Rx(v42, ppp_got, Append(to_bridge, x), base.up, total)
         /\ Offers(Append(to_bridge, x))
         /\ Growing(Append(to_bridge, x), v42.tx_ack, Out(v42) - (framed - base.down - Len(g_got)))
  <1>1. /\ to_guest \in Seq(Any) /\ to_bridge \in Seq(Any) /\ to_bridge \in Seq(FramesUp)
        /\ base.up \in Nat /\ Len(ppp_got) \in Nat /\ Total(guest) \in Nat /\ x \in Any
    BY Types, FramesAreAny DEF IInv
  <1>2. Append(to_bridge, x) \in Seq(FramesUp) BY <1>1
  <1>3. Hand(h, Append(to_bridge, x), to_guest)
    <2>1. Hand(guest, to_bridge, to_guest) BY DEF IInv
    <2> QED BY <1>1, <2>1, HandAppend
  <1>4. Rx(v42, ppp_got, Append(to_bridge, x), base.up, total)
    <2>1. InWindow(to_bridge, base.up, Total(guest), GuestWindow, Len(ppp_got)) /\ base.up + Len(ppp_got) <= Total(guest)
      BY DEF IInv, Rx
    <2>2. base.up + Len(ppp_got) <= total BY <1>1, <2>1
    <2>3. InWindow(Append(to_bridge, x), base.up, total, GuestWindow, Len(ppp_got))
      BY <1>1, <2>1, <2>2, WindowAppend, Constants
    <2> QED BY <2>2, <2>3 DEF IInv, Rx
  <1>5. Offers(Append(to_bridge, x)) BY <1>1, OffersAppend DEF IInv
  <1>6. Growing(Append(to_bridge, x), v42.tx_ack, Out(v42) - (framed - base.down - Len(g_got)))
    <2>1. Synced(guest, to_guest) BY DEF Synced
    <2> DEFINE lim == Out(v42) - (framed - base.down - Len(g_got))
    <2>2. Growing(to_bridge, v42.tx_ack, lim) BY <2>1 DEF IInv, Agree
    <2>3. lim \in Nat /\ v42_seq_distance(v42.tx_ack, x.nr) = lim /\ v42.tx_ack \in Numbers BY <2>1, Unheard
    <2> HIDE DEF lim
    <2>4. Growing(Append(to_bridge, x), v42.tx_ack, lim)
      <3>1. to_bridge \in Seq(Any) /\ x \in Any BY <1>1
      <3>2. lim <= lim BY <2>3
      <3> QED BY <2>2, <2>3, <3>1, <3>2, GrowingAppend
    <2> QED BY <2>4 DEF lim
  <1> QED BY <1>2, <1>3, <1>4, <1>5, <1>6

-----------------------------------------------------------------------------
(* Nothing of the guest is seen by others but its frames.                   *)
LEMMA GuestReleasesInv ==
  ASSUME IInv, GuestReleases
  PROVE  IInv'
  <1> DEFINE x == UFrame("DISC", 0)
  <1>0. /\ guest.st = "up" /\ guest' = [guest EXCEPT !.st = "release"] /\ to_bridge' = Append(to_bridge, x)
        /\ UNCHANGED <<v42, queued, framed, to_guest, ppp_got, g_got, base, losses, setups>>
    BY DEF GuestReleases, line
  <1>1. x \in FramesUp /\ x \in Any /\ x.type = "DISC" BY UnnumberedIs
  <1> HIDE DEF x
  <1>2. /\ to_guest \in Seq(Any) /\ to_bridge \in Seq(Any) /\ to_bridge \in Seq(FramesUp) /\ guest \in Guests
        /\ base.up \in Nat /\ Len(ppp_got) \in Nat /\ Total(guest) \in Nat
    BY Types DEF IInv
  <1>3. /\ guest' \in Guests /\ guest'.st = "release" /\ guest'.base = guest.base /\ guest'.sent = guest.sent
        /\ guest'.next = guest.next /\ guest'.acked = guest.acked
    BY <1>0, <1>2 DEF Guests
  <1>4. TypeOK'
    <2>1. to_bridge' \in Seq(FramesUp) BY <1>0, <1>1, <1>2
    <2> QED BY <1>0, <1>3, <2>1 DEF IInv, TypeOK
  <1>5. Hand(guest', to_bridge', to_guest) BY <1>0, <1>1, <1>2, <1>3, HandAppend DEF IInv
  <1>6. Total(guest') = Total(guest) BY <1>3 DEF Total
  <1>7. Rx(v42, ppp_got, to_bridge', base.up, Total(guest'))
    <2>1. InWindow(to_bridge, base.up, Total(guest), GuestWindow, Len(ppp_got)) /\ base.up + Len(ppp_got) <= Total(guest)
      BY DEF IInv, Rx
    <2>2. Total(guest) <= Total(guest) /\ x.type # "I" /\ GuestWindow \in Nat BY <1>1, <1>2, Constants
    <2>3. InWindow(Append(to_bridge, x), base.up, Total(guest), GuestWindow, Len(ppp_got))
      BY <1>1, <1>2, <2>1, <2>2, WindowAppend
    <2> QED BY <1>0, <1>6, <2>3 DEF IInv, Rx
  <1>8. Offers(to_bridge') BY <1>0, <1>1, <1>2, OffersAppend DEF IInv
  <1>9. ~Synced(guest', to_guest) BY <1>3 DEF Synced
  <1>10. Peer(guest', g_got, base.down, framed) BY <1>3, <1>6 DEF IInv, Peer
  <1> QED BY <1>0, <1>4, <1>5, <1>7, <1>8, <1>9, <1>10 DEF IInv

LEMMA GuestSendsInv ==
  ASSUME IInv, GuestSends
  PROVE  IInv'
  <1> DEFINE nx == guest.next
             sn == guest.sent
             ac == guest.acked
             gb == guest.base
             got == Len(ppp_got)
             u == gb + nx + 1
             x == IFrame(Number(nx), Number(Len(g_got)), u)
             n == IF sn = nx THEN sn + 1 ELSE sn
             total == gb + n
  <1>0. /\ guest.st = "up" /\ nx < ac + GuestWindow /\ gb + nx < GuestUnits
        /\ to_bridge' = Append(to_bridge, x)
        /\ guest' = [guest EXCEPT !.next = @ + 1, !.sent = IF @ = guest.next THEN @ + 1 ELSE @]
        /\ UNCHANGED <<v42, queued, framed, to_guest, ppp_got, g_got, base, losses, setups>>
    BY DEF GuestSends, line
  <1>1. /\ to_bridge \in Seq(FramesUp) /\ guest \in Guests
        /\ base.up \in Nat /\ got \in Nat /\ Total(guest) \in Nat /\ Len(g_got) \in Nat
        /\ gb \in Nat /\ sn \in Nat /\ nx \in Nat /\ ac \in Nat
    BY Types DEF IInv
  <1>2. ac <= nx /\ nx <= sn /\ sn <= ac + GuestWindow /\ gb + sn <= GuestUnits
    BY DEF IInv, Peer, Total
  <1>3. Synced(guest, to_guest) BY <1>0 DEF Synced
  <1>4. Agree(v42, framed, base.up, base.down, ppp_got, to_bridge, to_guest, guest, g_got) BY <1>3 DEF IInv
  <1>5. gb = base.up /\ ac <= got BY <1>4 DEF Agree
  <1>9. guest' = [guest EXCEPT !.next = nx + 1, !.sent = n] BY <1>0, <1>1, Zenon DEF Guests
  <1>20. Number(nx) \in Numbers /\ Number(Len(g_got)) \in Numbers BY <1>1, Reduced
  <1>21. Total(guest) = gb + sn BY DEF Total
  <1> HIDE DEF nx, sn, ac, gb, got, n, u, total
  <1>7. /\ n \in 0..GuestUnits /\ nx + 1 \in 0..GuestUnits /\ ac <= nx + 1 /\ nx + 1 <= n /\ n <= ac + GuestWindow
        /\ total \in Nat /\ total <= GuestUnits /\ gb + sn <= total /\ total <= gb + got + GuestWindow
        /\ u \in Nat /\ gb < u /\ u <= total /\ total < u + GuestWindow /\ u - gb - 1 = nx
    <2>1. n = (IF sn = nx THEN sn + 1 ELSE sn) /\ u = gb + nx + 1 /\ total = gb + n BY DEF n, u, total
    <2>2. nx < ac + GuestWindow /\ gb + nx < GuestUnits BY <1>0
    <2>3. gb \in Nat /\ sn \in Nat /\ nx \in Nat /\ ac \in Nat /\ got \in Nat BY <1>1
    <2>4. ac <= got BY <1>5
    <2>5. GuestWindow \in Nat \ {0} /\ GuestUnits \in Nat BY Constants
    <2>6. CASE sn = nx BY <1>2, <2>1, <2>2, <2>3, <2>4, <2>5, <2>6
    <2>7. CASE sn # nx BY <1>2, <2>1, <2>2, <2>3, <2>4, <2>5, <2>7
    <2> QED BY <2>6, <2>7
  <1>6. x \in FramesUp /\ x.type = "I" /\ x.ns = Number(nx) /\ x.nr = Number(Len(g_got)) /\ x.arg = u
    BY <1>7, <1>20, InformationIs
  <1> HIDE DEF x
  <1>10. /\ guest' \in Guests /\ guest'.st = "up" /\ guest'.base = gb /\ guest'.sent = n
         /\ guest'.next = nx + 1 /\ guest'.acked = ac
    BY <1>0, <1>1, <1>7, <1>9 DEF Guests, gb, ac
  <1>11. Total(guest') = total BY <1>10 DEF Total, total
  <1>12. base.up < x.arg /\ x.arg <= total /\ x.ns = Number(x.arg - base.up - 1) /\ total < x.arg + GuestWindow
    BY <1>5, <1>6, <1>7
  <1>18. x.type \in {"RR", "RNR", "REJ", "SREJ", "I"} /\ Total(guest) <= total /\ total <= base.up + Len(ppp_got) + GuestWindow
    BY <1>5, <1>6, <1>7, <1>21 DEF got
  <1>13. /\ to_bridge' \in Seq(FramesUp)
         /\ Hand(guest', to_bridge', to_guest)
         /\ Rx(v42, ppp_got, to_bridge', base.up, total)
         /\ Offers(to_bridge')
         /\ Growing(to_bridge', v42.tx_ack, Out(v42) - (framed - base.down - Len(g_got)))
    BY <1>0, <1>6, <1>7, <1>10, <1>12, <1>18, UpAppend
  <1>14. TypeOK' BY <1>0, <1>10, <1>13 DEF IInv, TypeOK
  <1>15. Peer(guest', g_got, base.down, framed)
    <2>1. Total(guest') <= GuestUnits BY <1>7, <1>11
    <2>2. guest'.st # "setup" BY <1>10
    <2> QED BY <1>7, <1>10, <2>1, <2>2 DEF IInv, Peer
  <1>16. Agree(v42, framed, base.up, base.down, ppp_got, to_bridge', to_guest, guest', g_got)
    BY <1>4, <1>10, <1>13 DEF Agree, gb, ac
  <1> QED BY <1>0, <1>11, <1>13, <1>14, <1>15, <1>16 DEF IInv

LEMMA GuestBacksUpInv ==
  ASSUME IInv, GuestBacksUp
  PROVE  IInv'
  <1>0. /\ guest' = [guest EXCEPT !.next = guest.acked]
        /\ UNCHANGED <<v42, queued, framed, to_guest, to_bridge, ppp_got, g_got, base, losses, setups>>
    BY DEF GuestBacksUp, line
  <1>1. guest \in Guests /\ guest.acked \in Nat /\ guest.next \in Nat /\ guest.sent \in Nat BY Types DEF IInv
  <1>2. /\ guest' \in Guests /\ guest'.st = guest.st /\ guest'.base = guest.base /\ guest'.sent = guest.sent
        /\ guest'.next = guest.acked /\ guest'.acked = guest.acked
    BY <1>0, <1>1 DEF Guests
  <1>3. Total(guest') = Total(guest) BY <1>2 DEF Total
  <1>4. Peer(guest', g_got, base.down, framed) BY <1>1, <1>2, <1>3 DEF IInv, Peer
  <1>5. Hand(guest', to_bridge, to_guest) /\ (Synced(guest', to_guest) <=> Synced(guest, to_guest))
    BY <1>2 DEF IInv, Hand, Synced
  <1>6. TypeOK' BY <1>0, <1>2 DEF IInv, TypeOK
  <1>7. ASSUME Synced(guest, to_guest)
        PROVE  Agree(v42, framed, base.up, base.down, ppp_got, to_bridge, to_guest, guest', g_got)
    BY <1>2, <1>7 DEF IInv, Agree
  <1> QED BY <1>0, <1>3, <1>4, <1>5, <1>6, <1>7 DEF IInv

LEMMA GuestReadyInv ==
  ASSUME IInv, GuestReady
  PROVE  IInv'
  <1> DEFINE x == SFrame("REJ", Number(Len(g_got)), 0)
  <1>0. /\ guest.st = "up" /\ to_bridge' = Append(to_bridge, x)
        /\ guest' = [guest EXCEPT !.busy = FALSE, !.rej = TRUE]
        /\ UNCHANGED <<v42, queued, framed, to_guest, ppp_got, g_got, base, losses, setups>>
    BY DEF GuestReady, line
  <1>1. /\ to_bridge \in Seq(FramesUp) /\ guest \in Guests /\ Len(g_got) \in Nat /\ Total(guest) \in Nat
    BY Types DEF IInv
  <1>2. x \in FramesUp /\ x.type = "REJ" /\ x.nr = Number(Len(g_got)) BY <1>1, Reduced, SupervisoryIs
  <1> HIDE DEF x
  <1>3. /\ guest' \in Guests /\ guest'.st = "up" /\ guest'.base = guest.base /\ guest'.sent = guest.sent
        /\ guest'.next = guest.next /\ guest'.acked = guest.acked
    BY <1>0, <1>1 DEF Guests
  <1>4. Total(guest') = Total(guest) /\ Total(guest) <= Total(guest) BY <1>1, <1>3 DEF Total
  <1>5. Total(guest) <= base.up + Len(ppp_got) + GuestWindow BY DEF IInv, Rx
  <1>6. /\ to_bridge' \in Seq(FramesUp)
        /\ Hand(guest', to_bridge', to_guest)
        /\ Rx(v42, ppp_got, to_bridge', base.up, Total(guest))
        /\ Offers(to_bridge')
        /\ Growing(to_bridge', v42.tx_ack, Out(v42) - (framed - base.down - Len(g_got)))
    BY <1>0, <1>1, <1>2, <1>3, <1>4, <1>5, UpAppend
  <1>7. TypeOK' BY <1>0, <1>3, <1>6 DEF IInv, TypeOK
  <1>8. Peer(guest', g_got, base.down, framed) BY <1>0, <1>3, <1>4 DEF IInv, Peer
  <1>9. Synced(guest, to_guest) BY <1>0 DEF Synced
  <1>10. Agree(v42, framed, base.up, base.down, ppp_got, to_bridge', to_guest, guest', g_got)
    BY <1>3, <1>6, <1>9 DEF IInv, Agree
  <1> QED BY <1>0, <1>4, <1>6, <1>7, <1>8, <1>10 DEF IInv

-----------------------------------------------------------------------------
LEMMA NothingLeft ==
  ASSUME NEW S, NEW q \in Seq(S), Len(q) = 0
  PROVE  q = << >>
  OBVIOUS

(* The bridge takes a frame from the line.                                  *)
LEMMA HeardUp ==
  ASSUME IInv, to_bridge # << >>
  PROVE  LET f == Head(to_bridge)
             q == Tail(to_bridge)
         IN  /\ f \in FramesUp /\ f \in Any /\ q \in Seq(FramesUp) /\ q \in Seq(Any)
             /\ Offers(q) /\ Hand(guest, q, to_guest) /\ NoUA(to_guest)
             /\ 1 \in Live(to_bridge) /\ f = to_bridge[1]
             /\ InWindow(q, base.up, Total(guest), GuestWindow, Len(ppp_got))
             /\ f.type = "XID" => f.arg \in 1..MaxWindow
             /\ f.type = "SABME" => guest.st = "setup" /\ q = << >>
             /\ f.type = "DISC" => guest.st = "release" /\ q = << >>
  <1> DEFINE f == Head(to_bridge)
             q == Tail(to_bridge)
  <1>1. /\ to_bridge \in Seq(FramesUp) /\ to_bridge \in Seq(Any) /\ to_guest \in Seq(Any)
        /\ base.up \in Nat /\ Total(guest) \in Nat /\ Len(ppp_got) \in Nat
    BY Types DEF IInv
  <1>2. f \in FramesUp /\ q \in Seq(FramesUp) /\ f = to_bridge[1] /\ Len(q) = Len(to_bridge) - 1 /\ 1 \in 1..Len(to_bridge)
        /\ Len(to_bridge) \in Nat
    BY <1>1, TailIs
  <1>3. f \in Any /\ q \in Seq(Any) BY <1>2, FramesAreAny
  <1>4. Hand(guest, to_bridge, to_guest) /\ Offers(to_bridge) BY DEF IInv
  <1>5. Hand(guest, q, to_guest) /\ NoUA(to_guest) /\ Offers(q) BY <1>1, <1>4, HandTailUp, OffersTail
  <1>6. 1 \in Live(to_bridge)
    <2>1. \A i \in 1..Len(to_bridge) : to_bridge[i] \in FramesUp BY <1>1
    <2>2. NoUA(to_bridge) BY <2>1 DEF NoUA, FramesUp
    <2> QED BY <1>1, <1>2, <2>2, LiveWithoutUA
  <1>7. InWindow(q, base.up, Total(guest), GuestWindow, Len(ppp_got))
    <2>1. InWindow(to_bridge, base.up, Total(guest), GuestWindow, Len(ppp_got)) BY DEF IInv, Rx
    <2> QED BY <1>1, <2>1, WindowTail, Constants
  <1>8. 1 = Len(to_bridge) => q = << >>
    <2> DEFINE n == Len(to_bridge)
               k == Len(q)
    <2>1. k = n - 1 /\ n \in Nat BY <1>2
    <2> HIDE DEF n, k
    <2>2. 1 = n => k = 0 BY <2>1
    <2> QED BY <1>2, <2>2, NothingLeft DEF n, k
  <1>9. /\ f.type = "XID" => f.arg \in 1..MaxWindow
        /\ f.type = "SABME" => guest.st = "setup" /\ q = << >>
        /\ f.type = "DISC" => guest.st = "release" /\ q = << >>
    <2> HIDE DEF q
    <2> QED BY <1>2, <1>4, <1>8 DEF Hand, Offers
  <1> QED BY <1>2, <1>3, <1>5, <1>6, <1>7, <1>9

(* What follows depends on the counters of the link only.                   *)
LEMMA SameNumbers ==
  ASSUME NEW l, NEW m, NEW f, NEW b, m.tx_ack = l.tx_ack, m.tx_seq = l.tx_seq, m.sent = l.sent
  PROVE  Out(m) = Out(l) /\ (Tx(l, f, b) => Tx(m, f, b))
  BY DEF Out, Tx

LEMMA AckHeard ==
  ASSUME IInv, to_bridge # << >>, Head(to_bridge).type \in Numbered, NEW l, l = v42_ack_to(v42, Head(to_bridge).nr)
  PROVE  /\ l \in Links /\ Tx(l, framed, base.down) /\ l.rx_seq = v42.rx_seq
         /\ Synced(guest, to_guest) =>
              /\ framed - base.down - Len(g_got) <= Out(l)
              /\ Growing(Tail(to_bridge), l.tx_ack, Out(l) - (framed - base.down - Len(g_got)))
  <1> DEFINE nr == Head(to_bridge).nr
             d == v42_seq_distance(v42.tx_ack, nr)
             o == Out(v42)
             k == framed - base.down - Len(g_got)
  <1>1. /\ v42 \in Links /\ framed \in Nat /\ base.down \in Nat /\ to_bridge \in Seq(Any)
        /\ Tx(v42, framed, base.down)
    BY Types DEF IInv
  <1>2. nr \in Numbers BY HeardUp DEF Any
  <1>3. /\ l \in Links /\ Tx(l, framed, base.down) /\ l.rx_seq = v42.rx_seq
        /\ d <= o => l.tx_ack = nr /\ Out(l) = o - d
    BY <1>1, <1>2, AckKeeps
  <1>4. ASSUME Synced(guest, to_guest)
        PROVE  k <= Out(l) /\ Growing(Tail(to_bridge), l.tx_ack, Out(l) - k)
    <2>1. k \in Nat /\ o - k \in Nat /\ o - k <= o /\ v42.tx_ack \in Numbers /\ o \in Nat /\ o < Modulus BY <1>4, Unheard
    <2>2. Growing(to_bridge, v42.tx_ack, o - k) BY <1>4 DEF IInv, Agree
    <2>3. d \in Nat BY <1>2, <2>1, Distance
    <2> HIDE DEF o, k
    <2>4. o - k < Modulus BY <2>1, Constants
    <2>5. 1 \in Live(to_bridge) BY HeardUp
    <2>6. d <= o - k /\ Growing(Tail(to_bridge), nr, (o - k) - d) BY <1>1, <2>1, <2>2, <2>4, <2>5, GrowingTake
    <2> HIDE DEF d, nr
    <2>7. d <= o BY <2>1, <2>3, <2>6
    <2>8. l.tx_ack = nr /\ Out(l) = o - d BY <1>3, <2>7
    <2>9. (o - d) - k = (o - k) - d /\ k <= o - d BY <2>1, <2>3, <2>6
    <2> QED BY <2>6, <2>8, <2>9
  <1> QED BY <1>3, <1>4

(* The bridge answers with frames of its window, under the number of what    *)
(* PPP has by then.                                                         *)
LEMMA BridgeSends ==
  ASSUME IInv, Synced(guest, to_guest), NEW r \in Seq(FramesDown),
         NEW got \in Nat, Len(ppp_got) <= got, base.up + got <= Total(guest),
         \A i \in 1..Len(r) : r[i].type \in Numbered => r[i].nr = Number(got),
         \A i \in 1..Len(r) : r[i].type = "I" =>
            /\ base.down < r[i].arg /\ r[i].arg <= framed /\ r[i].ns = Number(r[i].arg - base.down - 1)
            /\ framed < r[i].arg + MaxWindow
  PROVE  /\ InWindow(to_guest \o r, base.down, framed, MaxWindow, Len(g_got))
         /\ Growing(to_guest \o r, Number(guest.acked), got - guest.acked)
         /\ guest.acked <= got
  <1>1. /\ to_guest \in Seq(Any) /\ r \in Seq(Any) /\ base.down \in Nat /\ framed \in Nat /\ Len(g_got) \in Nat
        /\ guest.acked \in Nat /\ guest.sent \in Nat /\ base.up \in Nat /\ Len(ppp_got) \in Nat
    BY Types, FramesAreAny DEF IInv
  <1>2. Agree(v42, framed, base.up, base.down, ppp_got, to_bridge, to_guest, guest, g_got) BY DEF IInv
  <1>3. base.down + Len(g_got) <= framed /\ guest.sent <= guest.acked + GuestWindow BY DEF IInv, Peer
  <1>4. guest.base = base.up /\ guest.acked <= Len(ppp_got) BY <1>2 DEF Agree
  <1>5. InWindow(to_guest \o r, base.down, framed, MaxWindow, Len(g_got))
    <2>1. InWindow(to_guest, base.down, framed, MaxWindow, Len(g_got)) BY <1>2 DEF Agree
    <2>2. framed <= framed /\ MaxWindow \in Nat BY <1>1, Constants
    <2> QED BY <1>1, <1>3, <2>1, <2>2, WindowConcat
  <1> DEFINE a == guest.acked
             n == Len(ppp_got)
             s == guest.sent
             b == base.up
  <1>6. b + got <= b + s BY <1>4 DEF Total
  <1>7. Growing(to_guest, Number(a), n - a) BY <1>2 DEF Agree
  <1>8. a \in Nat /\ n \in Nat /\ s \in Nat /\ b \in Nat /\ a <= n /\ s <= a + GuestWindow BY <1>1, <1>3, <1>4
  <1> HIDE DEF a, n, s, b
  <1>9. n <= got BY DEF n
  <1>10. n - a \in Nat /\ got - a \in Nat /\ n - a <= got - a /\ got - a < Modulus /\ a <= got BY <1>6, <1>8, <1>9, Constants
  <1>11. v42_seq_distance(Number(a), Number(got)) = got - a /\ Number(a) \in Numbers BY <1>8, <1>10, Between, Reduced
  <1>12. Growing(to_guest \o r, Number(a), got - a)
    <2>1. \A i \in 1..Len(r) : r[i].type \in Numbered => v42_seq_distance(Number(a), r[i].nr) = got - a BY <1>11
    <2> QED BY <1>1, <1>7, <1>10, <1>11, <2>1, GrowingConcat
  <1> QED BY <1>5, <1>10, <1>12 DEF a

-----------------------------------------------------------------------------
LEMMA SabmeInv ==
  ASSUME IInv, to_bridge # << >>, to_bridge' = Tail(to_bridge), Head(to_bridge).type = "SABME", HandleSabme,
         UNCHANGED <<queued, framed, guest, g_got, line>>
  PROVE  IInv'
  <1> DEFINE x == UFrame("UA", 0)
             none == [s \in Numbers |-> 0]
  <1>0. /\ v42' = v42_reset_link_state([v42 EXCEPT !.phase = "connected"])
        /\ to_guest' = Append(to_guest, x) /\ ppp_got' = << >> /\ base' = [down |-> framed, up |-> guest.base]
        /\ UNCHANGED <<queued, framed, guest, g_got, losses, setups>>
    BY DEF HandleSabme, line
  <1>1. /\ v42 \in Links /\ framed \in Nat /\ framed <= queued /\ queued <= PppUnits /\ queued \in Nat
        /\ to_guest \in Seq(FramesDown) /\ to_guest \in Seq(Any) /\ guest \in Guests
        /\ guest.acked \in Nat /\ guest.sent \in Nat /\ guest.base \in Nat /\ guest.next \in Nat
    BY Types DEF IInv
  <1>2. guest.st = "setup" /\ to_bridge' = << >> /\ NoUA(to_guest) BY HeardUp
  <1>3. guest.sent = 0 /\ g_got = << >> /\ guest.acked = 0 BY <1>1, <1>2 DEF IInv, Peer
  <1>4. x \in FramesDown /\ x \in Any /\ x.type = "UA" BY UnnumberedIs
  <1> HIDE DEF x
  <1>5. 0 \in Numbers /\ none \in [Numbers -> 0..PppUnits] /\ \A s \in Numbers : none[s] = 0 BY Constants DEF Numbers
  <1>6. v42' = [v42 EXCEPT !.phase = "connected", !.tx_seq = 0, !.rx_seq = 0, !.tx_ack = 0, !.ready = TRUE, !.sent = none]
    BY <1>0, <1>1, Zenon DEF v42_reset_link_state, Links
  <1> HIDE DEF none
  <1>7. v42' \in Links /\ v42'.tx_seq = 0 /\ v42'.rx_seq = 0 /\ v42'.tx_ack = 0 /\ v42'.sent = none
    <2>1. v42 \in Links BY <1>1
    <2>2. v42' \in Links BY <1>5, <1>6, <2>1 DEF Links
    <2>3. v42'.tx_seq = 0 /\ v42'.rx_seq = 0 /\ v42'.tx_ack = 0 /\ v42'.sent = none BY <1>6, <2>1 DEF Links
    <2> QED BY <2>2, <2>3
  <1>8. base'.down = framed /\ base'.up = guest.base /\ base' \in [down : 0..PppUnits, up : 0..GuestUnits]
    BY <1>0, <1>1, Constants DEF Guests
  <1>9. TypeOK'
    <2>1. to_guest' \in Seq(FramesDown) /\ ppp_got' \in Seq(1..GuestUnits) /\ to_bridge' \in Seq(FramesUp)
      <3>1. << >> \in Seq(FramesUp) /\ << >> \in Seq(1..GuestUnits) OBVIOUS
      <3>2. Append(to_guest, x) \in Seq(FramesDown) BY <1>1, <1>4
      <3> QED BY <1>0, <1>2, <3>1, <3>2
    <2> QED BY <1>0, <1>7, <1>8, <2>1 DEF IInv, TypeOK
  <1>10. Number(0) = 0 /\ v42_seq_distance(0, 0) = 0
    <2>1. Number(0) = 0 BY Reduced, Constants
    <2> QED BY <1>5, <2>1, Distance
  <1>11. Out(v42') = 0 BY <1>7, <1>10 DEF Out
  <1>12. Tx(v42', framed, framed)
    <2>1. \A s \in Numbers : v42_seq_distance(0, s) \in Nat BY <1>5, Distance
    <2>2. \A s \in Numbers : v42'.sent[s] = 0 /\ ~(v42_seq_distance(v42'.tx_ack, s) < 0) BY <1>5, <1>7, <2>1
    <2>3. framed - framed = 0 BY <1>1
    <2> QED BY <1>7, <1>10, <1>11, <2>2, <2>3, Constants DEF Tx
  <1>13. Total(guest) = guest.base BY <1>1, <1>3 DEF Total
  <1>14. Len(ppp_got') = 0 /\ Len(g_got) = 0 BY <1>0, <1>3
  <1>15. Rx(v42', ppp_got', to_bridge', guest.base, Total(guest))
    <2>1. InWindow(to_bridge', guest.base, Total(guest), GuestWindow, Len(ppp_got')) BY <1>2, EmptyIsFine
    <2> QED BY <1>1, <1>7, <1>10, <1>13, <1>14, <2>1, Constants DEF Rx
  <1>16. Peer(guest, g_got, framed, framed) BY <1>1, <1>3, <1>14 DEF IInv, Peer
  <1>17. Hand(guest, to_bridge', to_guest')
    <2>1. \A i \in 1..Len(to_guest') : to_guest'[i].type = "UA" => i = Len(to_guest) + 1
      <3>1. /\ Len(to_guest') = Len(to_guest) + 1 /\ Len(to_guest) \in Nat
            /\ \A i \in 1..Len(to_guest) : to_guest'[i] = to_guest[i]
        BY <1>0, <1>1
      <3>2. \A i \in 1..Len(to_guest') : i = Len(to_guest) + 1 \/ i \in 1..Len(to_guest) BY <3>1
      <3> QED BY <1>2, <3>1, <3>2 DEF NoUA
    <2>2. 1..Len(to_bridge') = {} BY <1>2
    <2> QED BY <1>2, <2>1, <2>2 DEF Hand
  <1>18. Agree(v42', framed, guest.base, framed, ppp_got', to_bridge', to_guest', guest, g_got)
    <2>1. framed - framed - Len(g_got) = 0 BY <1>1, <1>14
    <2>2. /\ InWindow(to_guest', framed, framed, MaxWindow, Len(g_got))
          /\ Growing(to_guest', Number(guest.acked), Len(ppp_got') - guest.acked)
      BY <1>0, <1>1, <1>4, AfterUA
    <2>3. Growing(to_bridge', v42'.tx_ack, Out(v42') - (framed - framed - Len(g_got))) BY <1>2, EmptyIsFine
    <2> QED BY <1>3, <1>11, <1>14, <2>1, <2>2, <2>3 DEF Agree
  <1>19. Offers(to_bridge') BY <1>2, EmptyIsFine
  <1> QED BY <1>0, <1>8, <1>9, <1>12, <1>15, <1>16, <1>17, <1>18, <1>19 DEF IInv

LEMMA XidInv ==
  ASSUME IInv, to_bridge # << >>, to_bridge' = Tail(to_bridge), Head(to_bridge).type = "XID", HandleXid(Head(to_bridge)),
         UNCHANGED <<queued, framed, guest, g_got, line>>
  PROVE  IInv'
  <1> DEFINE f == Head(to_bridge)
  <1>0. /\ v42' = [v42 EXCEPT !.window = f.arg] /\ to_guest' = Append(to_guest, f)
        /\ UNCHANGED <<ppp_got, base, queued, framed, guest, g_got, losses, setups>>
    BY DEF HandleXid, line
  <1>1. /\ v42 \in Links /\ to_guest \in Seq(FramesDown) /\ to_guest \in Seq(Any) /\ to_bridge \in Seq(Any)
        /\ base.up \in Nat /\ Len(ppp_got) \in Nat /\ Total(guest) \in Nat
    BY Types DEF IInv
  <1>2. /\ f \in FramesUp /\ f \in Any /\ to_bridge' \in Seq(FramesUp) /\ to_bridge' \in Seq(Any)
        /\ Offers(to_bridge') /\ Hand(guest, to_bridge', to_guest) /\ NoUA(to_guest)
        /\ InWindow(to_bridge', base.up, Total(guest), GuestWindow, Len(ppp_got))
        /\ f.arg \in 1..MaxWindow
    BY HeardUp
  <1>3. f.type = "XID" /\ f \in FramesDown BY <1>2 DEF FramesUp, FramesDown
  <1> HIDE DEF f
  <1>4. /\ v42' \in Links /\ v42'.tx_seq = v42.tx_seq /\ v42'.tx_ack = v42.tx_ack /\ v42'.rx_seq = v42.rx_seq
        /\ v42'.sent = v42.sent
    BY <1>0, <1>1, <1>2 DEF Links
  <1>5. Out(v42') = Out(v42) /\ Tx(v42', framed, base.down) BY <1>4, SameNumbers DEF IInv
  <1>6. to_guest' \in Seq(FramesDown) BY <1>0, <1>1, <1>3
  <1>7. TypeOK' BY <1>0, <1>2, <1>4, <1>6 DEF IInv, TypeOK
  <1>8. Hand(guest, to_bridge', to_guest') /\ (Synced(guest, to_guest') <=> Synced(guest, to_guest))
    BY <1>0, <1>1, <1>2, <1>3, SendsOne
  <1>9. Rx(v42', ppp_got, to_bridge', base.up, Total(guest)) BY <1>2, <1>4 DEF IInv, Rx
  <1>10. ASSUME Synced(guest, to_guest)
         PROVE  Agree(v42', framed, base.up, base.down, ppp_got, to_bridge', to_guest', guest, g_got)
    <2>1. Agree(v42, framed, base.up, base.down, ppp_got, to_bridge, to_guest, guest, g_got) BY <1>10 DEF IInv
    <2>2. to_guest' = to_guest \o <<f>> /\ <<f>> \in Seq(FramesDown) /\ Len(<<f>>) = 1 /\ <<f>>[1] = f
      BY <1>0, <1>1, <1>3, AppendIs
    <2>3. \A i \in 1..Len(<<f>>) : <<f>>[i].type \notin Numbered /\ <<f>>[i].type # "I" BY <1>3, <2>2 DEF Numbered
    <2>4. Len(ppp_got) <= Len(ppp_got) /\ base.up + Len(ppp_got) <= Total(guest) BY <1>1 DEF IInv, Rx
    <2>5. /\ InWindow(to_guest', base.down, framed, MaxWindow, Len(g_got))
          /\ Growing(to_guest', Number(guest.acked), Len(ppp_got) - guest.acked)
      BY <1>1, <1>10, <2>2, <2>3, <2>4, BridgeSends
    <2>6. Growing(to_bridge', v42.tx_ack, Out(v42) - (framed - base.down - Len(g_got)))
      BY <1>1, <1>10, <2>1, GrowingTail, Unheard DEF Agree
    <2> QED BY <1>4, <1>5, <2>1, <2>5, <2>6 DEF Agree
  <1> QED BY <1>0, <1>2, <1>5, <1>7, <1>8, <1>9, <1>10 DEF IInv

LEMMA DiscInv ==
  ASSUME IInv, to_bridge # << >>, to_bridge' = Tail(to_bridge), Head(to_bridge).type = "DISC", HandleDisc,
         UNCHANGED <<queued, framed, guest, g_got, line>>
  PROVE  IInv'
  <1> DEFINE x == UFrame("UA", 0)
  <1>0. /\ v42' = [v42 EXCEPT !.phase = "release"] /\ to_guest' = Append(to_guest, x)
        /\ UNCHANGED <<ppp_got, base, queued, framed, guest, g_got, losses, setups>>
    BY DEF HandleDisc, line
  <1>1. v42 \in Links /\ to_guest \in Seq(FramesDown) /\ to_guest \in Seq(Any) BY Types DEF IInv
  <1>2. guest.st = "release" /\ to_bridge' = << >> /\ NoUA(to_guest) BY HeardUp
  <1>3. x \in FramesDown /\ x \in Any /\ x.type = "UA" BY UnnumberedIs
  <1> HIDE DEF x
  <1>4. /\ v42' \in Links /\ v42'.tx_seq = v42.tx_seq /\ v42'.tx_ack = v42.tx_ack /\ v42'.rx_seq = v42.rx_seq
        /\ v42'.sent = v42.sent
    BY <1>0, <1>1 DEF Links
  <1>5. Tx(v42', framed, base.down) BY <1>4, SameNumbers DEF IInv
  <1>6. to_guest' \in Seq(FramesDown) /\ to_bridge' \in Seq(FramesUp)
    <2>1. << >> \in Seq(FramesUp) OBVIOUS
    <2>2. Append(to_guest, x) \in Seq(FramesDown) BY <1>1, <1>3
    <2> QED BY <1>0, <1>2, <2>1, <2>2
  <1>7. TypeOK' BY <1>0, <1>4, <1>6 DEF IInv, TypeOK
  <1>8. Hand(guest, to_bridge', to_guest')
    <2>1. \A i \in 1..Len(to_guest') : to_guest'[i].type = "UA" => i = Len(to_guest) + 1
      <3>1. /\ Len(to_guest') = Len(to_guest) + 1 /\ Len(to_guest) \in Nat
            /\ \A i \in 1..Len(to_guest) : to_guest'[i] = to_guest[i]
        BY <1>0, <1>1
      <3>2. \A i \in 1..Len(to_guest') : i = Len(to_guest) + 1 \/ i \in 1..Len(to_guest) BY <3>1
      <3> QED BY <1>2, <3>1, <3>2 DEF NoUA
    <2>2. 1..Len(to_bridge') = {} BY <1>2
    <2> QED BY <1>2, <2>1, <2>2 DEF Hand
  <1>9. Rx(v42', ppp_got, to_bridge', base.up, Total(guest)) BY <1>2, <1>4, EmptyIsFine DEF IInv, Rx
  <1>10. ~Synced(guest, to_guest') BY <1>2 DEF Synced
  <1>11. Offers(to_bridge') BY <1>2, EmptyIsFine
  <1> QED BY <1>0, <1>5, <1>7, <1>8, <1>9, <1>10, <1>11 DEF IInv

-----------------------------------------------------------------------------
LEMMA SupervisoryInv ==
  ASSUME IInv, to_bridge # << >>, to_bridge' = Tail(to_bridge), Head(to_bridge).type \in {"RR", "RNR", "REJ", "SREJ"},
         HandleSupervisory(Head(to_bridge)), UNCHANGED <<queued, framed, guest, g_got, line>>
  PROVE  IInv'
  <1> DEFINE f == Head(to_bridge)
             l == v42_ack_to(v42, f.nr)
             ready == CASE f.type \in {"RR", "REJ"} -> TRUE [] f.type = "RNR" -> FALSE [] OTHER -> l.ready
             r == CASE f.type = "REJ" -> v42_retransmit_from(l, f.nr)
                    [] f.type = "SREJ" /\ l.sent[f.nr] # 0 -> <<IFrame(f.nr, l.rx_seq, l.sent[f.nr])>>
                    [] OTHER -> << >>
  <1>0. /\ v42' = [l EXCEPT !.ready = ready] /\ to_guest' = to_guest \o r
        /\ UNCHANGED <<ppp_got, base, queued, framed, guest, g_got, losses, setups>>
    BY DEF HandleSupervisory, line
  <1>1. /\ framed \in Nat /\ base.down \in Nat /\ base.up \in Nat /\ Len(g_got) \in Nat /\ Len(ppp_got) \in Nat
        /\ to_guest \in Seq(FramesDown) /\ to_guest \in Seq(Any) /\ v42 \in Links /\ Total(guest) \in Nat
    BY Types DEF IInv
  <1>2. /\ f \in Any /\ to_bridge' \in Seq(FramesUp) /\ Offers(to_bridge') /\ Hand(guest, to_bridge', to_guest)
        /\ NoUA(to_guest) /\ InWindow(to_bridge', base.up, Total(guest), GuestWindow, Len(ppp_got))
    BY HeardUp
  <1>3. f.nr \in Numbers BY <1>2 DEF Any
  <1>4. f.type \in Numbered BY DEF Numbered
  <1>5. /\ l \in Links /\ Tx(l, framed, base.down) /\ l.rx_seq = v42.rx_seq
        /\ Synced(guest, to_guest) =>
             /\ framed - base.down - Len(g_got) <= Out(l)
             /\ Growing(to_bridge', l.tx_ack, Out(l) - (framed - base.down - Len(g_got)))
    BY <1>4, AckHeard
  <1>6. base.down <= framed BY <1>1 DEF IInv, Peer
  <1>7. f.type \in {"RR", "RNR", "REJ", "SREJ"} OBVIOUS
  <1> HIDE DEF l, f
  <1>8. r \in Seq(FramesDown) /\ \A i \in 1..Len(r) : Again(l, framed, r[i])
    <2>1. CASE f.type = "REJ"
      <3>1. r = v42_retransmit_from(l, f.nr) BY <2>1
      <3> QED BY <1>1, <1>3, <1>5, <1>6, <3>1, Retransmits
    <2>2. CASE f.type = "SREJ" /\ l.sent[f.nr] # 0
      <3>1. r = <<IFrame(f.nr, l.rx_seq, l.sent[f.nr])>> BY <2>2
      <3>2. v42_seq_distance(l.tx_ack, f.nr) < Out(l) BY <1>3, <1>5, <2>2 DEF Tx
      <3>3. Again(l, framed, IFrame(f.nr, l.rx_seq, l.sent[f.nr])) BY <1>1, <1>3, <1>5, <3>2, StoredAgain
      <3> DEFINE x == IFrame(f.nr, l.rx_seq, l.sent[f.nr])
      <3>4. x \in FramesDown BY <3>3 DEF Again
      <3> HIDE DEF x
      <3>5. <<x>> \in Seq(FramesDown) /\ \A i \in 1..Len(<<x>>) : <<x>>[i] = x BY <3>4
      <3> QED BY <3>1, <3>3, <3>5 DEF x
    <2>3. CASE f.type # "REJ" /\ ~(f.type = "SREJ" /\ l.sent[f.nr] # 0)
      <3>1. r = << >> BY <2>3
      <3>2. << >> \in Seq(FramesDown) /\ 1..Len(<< >>) = {} OBVIOUS
      <3> HIDE DEF r
      <3> QED BY <3>1, <3>2
    <2> QED BY <2>1, <2>2, <2>3
  <1>9. ready \in BOOLEAN
    <2>1. l.ready \in BOOLEAN BY <1>5, LinkFields
    <2>2. CASE f.type \in {"RR", "REJ"} BY <2>2
    <2>3. CASE f.type = "RNR" BY <2>3
    <2>4. CASE f.type = "SREJ" BY <2>1, <2>4
    <2> QED BY <1>7, <2>2, <2>3, <2>4
  <1> HIDE DEF r, ready
  <1>10. /\ v42' \in Links /\ v42'.tx_seq = l.tx_seq /\ v42'.tx_ack = l.tx_ack /\ v42'.rx_seq = l.rx_seq
         /\ v42'.sent = l.sent
    BY <1>0, <1>5, <1>9 DEF Links
  <1>11. Out(v42') = Out(l) /\ Tx(v42', framed, base.down) BY <1>5, <1>10, SameNumbers
  <1>12. \A i \in 1..Len(r) : /\ r[i].type = "I" /\ r[i].nr = l.rx_seq
                              /\ base.down < r[i].arg /\ r[i].arg <= framed /\ r[i].ns = Number(r[i].arg - base.down - 1)
                              /\ framed < r[i].arg + MaxWindow
    BY <1>1, <1>5, <1>8, AgainFits
  <1>13. to_guest' \in Seq(FramesDown) /\ r \in Seq(Any)
    <2>1. r \in Seq(Any) BY <1>8, FramesAreAny
    <2>2. to_guest \o r \in Seq(FramesDown) BY <1>1, <1>8, ConcatIs
    <2> QED BY <1>0, <2>1, <2>2
  <1>14. TypeOK' BY <1>0, <1>2, <1>10, <1>13 DEF IInv, TypeOK
  <1>15. NoUA(r) BY <1>12 DEF NoUA
  <1>16. to_bridge' \in Seq(Any) BY <1>2, FramesAreAny
  <1>17. Hand(guest, to_bridge', to_guest') /\ (Synced(guest, to_guest') <=> Synced(guest, to_guest))
    BY <1>0, <1>1, <1>2, <1>13, <1>15, <1>16, HandSends DEF Synced
  <1>18. l.rx_seq = Number(Len(ppp_got)) BY <1>5 DEF IInv, Rx
  <1>19. Rx(v42', ppp_got, to_bridge', base.up, Total(guest)) BY <1>2, <1>10, <1>18 DEF IInv, Rx
  <1>20. ASSUME Synced(guest, to_guest)
         PROVE  Agree(v42', framed, base.up, base.down, ppp_got, to_bridge', to_guest', guest, g_got)
    <2>1. Agree(v42, framed, base.up, base.down, ppp_got, to_bridge, to_guest, guest, g_got) BY <1>20 DEF IInv
    <2>2. Len(ppp_got) <= Len(ppp_got) /\ base.up + Len(ppp_got) <= Total(guest) BY <1>1 DEF IInv, Rx
    <2>3. \A i \in 1..Len(r) : r[i].type \in Numbered => r[i].nr = Number(Len(ppp_got)) BY <1>12, <1>18
    <2>4. /\ InWindow(to_guest', base.down, framed, MaxWindow, Len(g_got))
          /\ Growing(to_guest', Number(guest.acked), Len(ppp_got) - guest.acked)
      BY <1>0, <1>1, <1>8, <1>12, <1>20, <2>2, <2>3, BridgeSends
    <2> QED BY <1>5, <1>10, <1>11, <1>20, <2>1, <2>4 DEF Agree
  <1> QED BY <1>0, <1>2, <1>11, <1>14, <1>17, <1>19, <1>20 DEF IInv

-----------------------------------------------------------------------------
(* A frame under the expected number carries the next unit: go-back-N with a *)
(* window smaller than the modulus.                                        *)
LEMMA ExpectedIsNext ==
  ASSUME IInv, to_bridge # << >>, Head(to_bridge).type = "I", Head(to_bridge).ns = v42.rx_seq
  PROVE  /\ Head(to_bridge).arg = base.up + Len(ppp_got) + 1
         /\ base.up + (Len(ppp_got) + 1) <= Total(guest)
         /\ Head(to_bridge).arg \in 1..GuestUnits
         /\ Total(guest) <= base.up + (Len(ppp_got) + 1) + GuestWindow
         /\ InWindow(Tail(to_bridge), base.up, Total(guest), GuestWindow, Len(ppp_got) + 1)
  <1> DEFINE a == Head(to_bridge).arg
             b == base.up
             n == Len(ppp_got)
             t == Total(guest)
  <1>1. b \in Nat /\ n \in Nat /\ t \in Nat /\ to_bridge \in Seq(Any) BY Types DEF IInv
  <1>2. a \in Nat /\ 1 \in Live(to_bridge) /\ Head(to_bridge) = to_bridge[1] BY HeardUp DEF Any
  <1>3. InWindow(to_bridge, b, t, GuestWindow, n) /\ v42.rx_seq = Number(n) /\ t <= b + n + GuestWindow BY DEF IInv, Rx
  <1>4. b < a /\ a <= t /\ Number(n) = Number(a - b - 1) /\ b + n < a + GuestWindow BY <1>2, <1>3 DEF InWindow
  <1>5. t <= GuestUnits BY DEF IInv, Peer
  <1> HIDE DEF a, b, n, t
  <1> DEFINE k == a - b - 1
  <1>6. k \in Nat /\ n - k < Modulus /\ k - n < Modulus /\ Number(n) = Number(k) BY <1>1, <1>2, <1>3, <1>4, Constants
  <1> HIDE DEF k
  <1>7. n = k BY <1>1, <1>6, NumberTells
  <1>8. a = b + n + 1 BY <1>1, <1>2, <1>7 DEF k
  <1>9. b + (n + 1) <= t /\ a \in 1..GuestUnits /\ t <= b + (n + 1) + GuestWindow
    BY <1>1, <1>2, <1>3, <1>4, <1>5, <1>8, Constants
  <1>10. InWindow(Tail(to_bridge), b, t, GuestWindow, n + 1)
    <2>1. Head(to_bridge).arg = b + n + 1 BY <1>8 DEF a
    <2> QED BY <1>1, <1>2, <1>3, <2>1, WindowTake, Constants
  <1> QED BY <1>8, <1>9, <1>10 DEF a, b, n, t

(* The number after that of n is that of n + 1.                             *)
LEMMA AdvanceNumber ==
  ASSUME NEW n \in Nat
  PROVE  Advance(Number(n)) = Number(n + 1)
  <1>1. Number(n) \in Numbers BY Reduced
  <1>2. Advance(Number(n)) = IF Number(n) + 1 = Modulus THEN 0 ELSE Number(n) + 1 BY <1>1, AdvanceIs
  <1>3. CASE Modulus > 1
    <2>1. Number(n + 1) = IF Number(n) + 1 < Modulus THEN Number(n) + 1 ELSE Number(n) + 1 - Modulus BY <1>3, Moved
    <2> QED BY <1>1, <1>2, <2>1, Constants DEF Numbers
  <1>4. CASE ~(Modulus > 1)
    <2>1. Modulus = 1 BY <1>4, Constants
    <2>2. Number(n + 1) \in Numbers BY Reduced
    <2> QED BY <1>1, <1>2, <2>1, <2>2 DEF Numbers
  <1> QED BY <1>3, <1>4

LEMMA InformationInv ==
  ASSUME IInv, to_bridge # << >>, to_bridge' = Tail(to_bridge), Head(to_bridge).type = "I",
         HandleInformation(Head(to_bridge)), UNCHANGED <<queued, framed, guest, g_got, line>>
  PROVE  IInv'
  <1> DEFINE f == Head(to_bridge)
             l == v42_ack_to(v42, f.nr)
             in == f.ns = v42.rx_seq
             rx == IF in THEN Advance(l.rx_seq) ELSE l.rx_seq
             m == [l EXCEPT !.phase = "connected", !.rx_seq = rx]
             x == SFrame(IF in THEN "RR" ELSE "REJ", m.rx_seq, 0)
             got == IF in THEN Len(ppp_got) + 1 ELSE Len(ppp_got)
  <1>0. /\ v42' = m /\ ppp_got' = (IF in THEN Append(ppp_got, f.arg) ELSE ppp_got)
        /\ to_guest' = to_guest \o <<x>>
        /\ UNCHANGED <<base, queued, framed, guest, g_got, losses, setups>>
    <2>1. m = [v42_ack_to(v42, f.nr) EXCEPT !.phase = "connected", !.rx_seq = IF InOrder(v42, f) THEN Advance(@) ELSE @]
      BY Zenon DEF InOrder
    <2>2. Answer(m, f) = <<x>> BY DEF Answer, InOrder
    <2> QED BY <2>1, <2>2, Zenon DEF HandleInformation, line, InOrder
  <1>1. /\ framed \in Nat /\ base.down \in Nat /\ base.up \in Nat /\ Len(g_got) \in Nat /\ Len(ppp_got) \in Nat
        /\ to_guest \in Seq(FramesDown) /\ to_guest \in Seq(Any) /\ v42 \in Links /\ Total(guest) \in Nat
        /\ ppp_got \in Seq(1..GuestUnits)
    BY Types DEF IInv
  <1>2. /\ f \in Any /\ to_bridge' \in Seq(FramesUp) /\ Offers(to_bridge') /\ Hand(guest, to_bridge', to_guest)
        /\ NoUA(to_guest) /\ InWindow(to_bridge', base.up, Total(guest), GuestWindow, Len(ppp_got))
    BY HeardUp
  <1>4. f.type \in Numbered BY DEF Numbered
  <1>5. /\ l \in Links /\ Tx(l, framed, base.down) /\ l.rx_seq = v42.rx_seq
        /\ Synced(guest, to_guest) =>
             /\ framed - base.down - Len(g_got) <= Out(l)
             /\ Growing(to_bridge', l.tx_ack, Out(l) - (framed - base.down - Len(g_got)))
    BY <1>4, AckHeard
  <1>6. in => /\ f.arg = base.up + Len(ppp_got) + 1
              /\ base.up + (Len(ppp_got) + 1) <= Total(guest)
              /\ f.arg \in 1..GuestUnits
              /\ Total(guest) <= base.up + (Len(ppp_got) + 1) + GuestWindow
              /\ InWindow(to_bridge', base.up, Total(guest), GuestWindow, Len(ppp_got) + 1)
    BY ExpectedIsNext
  <1>7. v42.rx_seq = Number(Len(ppp_got)) BY DEF IInv, Rx
  <1> HIDE DEF l, f, in
  <1>8. rx = Number(got) /\ rx \in Numbers /\ got \in Nat
    <2>1. Number(Len(ppp_got)) \in Numbers /\ Number(Len(ppp_got) + 1) \in Numbers BY <1>1, Reduced
    <2>2. Advance(Number(Len(ppp_got))) = Number(Len(ppp_got) + 1) BY <1>1, AdvanceNumber
    <2> QED BY <1>1, <1>5, <1>7, <2>1, <2>2
  <1> HIDE DEF rx
  <1>9. m \in Links /\ m.tx_seq = l.tx_seq /\ m.tx_ack = l.tx_ack /\ m.sent = l.sent /\ m.rx_seq = rx
    BY <1>5, <1>8 DEF Links
  <1>10. x \in FramesDown /\ x \in Any /\ x.type \in {"RR", "REJ"} /\ x.nr = Number(got) BY <1>8, <1>9, SupervisoryIs
  <1> HIDE DEF m, x
  <1>11. Out(m) = Out(l) /\ Tx(m, framed, base.down) BY <1>5, <1>9, SameNumbers
  <1>12. ppp_got' \in Seq(1..GuestUnits) /\ Len(ppp_got') = got /\ \A i \in 1..Len(ppp_got') : ppp_got'[i] = base.up + i
    <2>1. \A i \in 1..Len(ppp_got) : ppp_got[i] = base.up + i BY DEF IInv, Rx
    <2>2. CASE in
      <3>1. ppp_got' = Append(ppp_got, f.arg) /\ got = Len(ppp_got) + 1 BY <1>0, <2>2
      <3>2. f.arg \in 1..GuestUnits /\ f.arg = base.up + Len(ppp_got) + 1 BY <1>6, <2>2
      <3> DEFINE y == f.arg
      <3> HIDE DEF y, got
      <3>3. y \in 1..GuestUnits /\ ppp_got' = Append(ppp_got, y) BY <3>1, <3>2 DEF y
      <3>4. /\ ppp_got' \in Seq(1..GuestUnits) /\ Len(ppp_got') = Len(ppp_got) + 1 /\ ppp_got'[Len(ppp_got) + 1] = y
            /\ \A i \in 1..Len(ppp_got) : ppp_got'[i] = ppp_got[i]
        BY <1>1, <3>3
      <3>5. \A i \in 1..Len(ppp_got') : i \in 1..Len(ppp_got) \/ i = Len(ppp_got) + 1 BY <1>1, <3>4
      <3>6. y = base.up + (Len(ppp_got) + 1)
        <4> DEFINE b == base.up
                   n == Len(ppp_got)
        <4>1. y = b + n + 1 /\ b \in Nat /\ n \in Nat BY <1>1, <3>2 DEF y
        <4> HIDE DEF b, n
        <4>2. y = b + (n + 1) BY <4>1
        <4> QED BY <4>2 DEF b, n
      <3> QED BY <2>1, <3>1, <3>4, <3>5, <3>6
    <2>3. CASE ~in BY <1>0, <1>1, <2>1, <2>3
    <2> QED BY <2>2, <2>3
  <1>13. /\ base.up + got <= Total(guest) /\ Total(guest) <= base.up + got + GuestWindow /\ Len(ppp_got) <= got
         /\ InWindow(to_bridge', base.up, Total(guest), GuestWindow, got)
    <2>1. base.up + Len(ppp_got) <= Total(guest) /\ Total(guest) <= base.up + Len(ppp_got) + GuestWindow BY DEF IInv, Rx
    <2>2. CASE in BY <1>1, <1>6, <2>2
    <2>3. CASE ~in BY <1>1, <1>2, <2>1, <2>3
    <2> QED BY <2>2, <2>3
  <1> HIDE DEF got
  <1>14. to_guest' = Append(to_guest, x) /\ <<x>> \in Seq(FramesDown) /\ Len(<<x>>) = 1 /\ <<x>>[1] = x
    BY <1>0, <1>1, <1>10, AppendIs
  <1>15. to_guest' \in Seq(FramesDown) BY <1>1, <1>10, <1>14
  <1>16. TypeOK' BY <1>0, <1>2, <1>9, <1>12, <1>15 DEF IInv, TypeOK
  <1>17. to_bridge' \in Seq(Any) BY <1>2, FramesAreAny
  <1>18. Hand(guest, to_bridge', to_guest') /\ (Synced(guest, to_guest') <=> Synced(guest, to_guest))
    BY <1>1, <1>2, <1>10, <1>14, <1>17, SendsOne
  <1>19. Rx(m, ppp_got', to_bridge', base.up, Total(guest)) BY <1>8, <1>9, <1>12, <1>13 DEF Rx
  <1>20. ASSUME Synced(guest, to_guest)
         PROVE  Agree(m, framed, base.up, base.down, ppp_got', to_bridge', to_guest', guest, g_got)
    <2>1. Agree(v42, framed, base.up, base.down, ppp_got, to_bridge, to_guest, guest, g_got) BY <1>20 DEF IInv
    <2>2. \A i \in 1..Len(<<x>>) : <<x>>[i] = x BY <1>14
    <2>3. x.type # "I" BY <1>10
    <2>4. /\ InWindow(to_guest', base.down, framed, MaxWindow, Len(g_got))
          /\ Growing(to_guest', Number(guest.acked), got - guest.acked)
          /\ guest.acked <= got
      <3> DEFINE r == <<x>>
      <3>1. r \in Seq(FramesDown) BY <1>14
      <3>2. \A i \in 1..Len(r) : r[i].type \in Numbered => r[i].nr = Number(got) BY <1>10, <2>2
      <3>3. \A i \in 1..Len(r) : r[i].type # "I" BY <2>2, <2>3
      <3>4. to_guest' = to_guest \o r BY <1>0
      <3> HIDE DEF r
      <3> QED BY <1>8, <1>13, <1>20, <3>1, <3>2, <3>3, <3>4, BridgeSends
    <2> QED BY <1>5, <1>9, <1>11, <1>12, <1>20, <2>1, <2>4 DEF Agree
  <1> QED BY <1>0, <1>2, <1>11, <1>16, <1>18, <1>19, <1>20 DEF IInv

LEMMA HandleFrameInv ==
  ASSUME IInv, v42_handle_frame
  PROVE  IInv'
  <1> DEFINE f == Head(to_bridge)
  <1>1. to_bridge # << >> /\ to_bridge' = Tail(to_bridge) /\ UNCHANGED <<queued, framed, guest, g_got, line>>
    BY DEF v42_handle_frame
  <1>2. CASE f.type = "SABME" /\ HandleSabme BY <1>1, <1>2, SabmeInv
  <1>3. CASE f.type = "XID" /\ HandleXid(f) BY <1>1, <1>3, XidInv
  <1>4. CASE f.type = "DISC" /\ HandleDisc BY <1>1, <1>4, DiscInv
  <1>5. CASE f.type \in {"RR", "RNR", "REJ", "SREJ"} /\ HandleSupervisory(f) BY <1>1, <1>5, SupervisoryInv
  <1>6. CASE f.type = "I" /\ HandleInformation(f) BY <1>1, <1>6, InformationInv
  <1> QED BY <1>2, <1>3, <1>4, <1>5, <1>6 DEF v42_handle_frame

-----------------------------------------------------------------------------
LEMMA HeardDown ==
  ASSUME IInv, to_guest # << >>
  PROVE  LET f == Head(to_guest)
             r == Tail(to_guest)
         IN  /\ f \in FramesDown /\ f \in Any /\ r \in Seq(FramesDown) /\ r \in Seq(Any) /\ f = to_guest[1]
             /\ Hand(guest, to_bridge, r) /\ (NoUA(to_guest) => NoUA(r)) /\ (f.type = "UA" => NoUA(r) /\ ~NoUA(to_guest))
             /\ guest.st \notin {"setup", "release"} => NoUA(to_guest) /\ 1 \in Live(to_guest)
  <1> DEFINE f == Head(to_guest)
             r == Tail(to_guest)
  <1>1. to_guest \in Seq(FramesDown) /\ to_bridge \in Seq(Any) /\ to_guest \in Seq(Any) BY Types DEF IInv
  <1>2. f \in FramesDown /\ r \in Seq(FramesDown) /\ f = to_guest[1] /\ 1 \in 1..Len(to_guest) BY <1>1, TailIs
  <1>3. f \in Any /\ r \in Seq(Any) BY <1>2, FramesAreAny
  <1>4. Hand(guest, to_bridge, to_guest) BY DEF IInv
  <1>5. Hand(guest, to_bridge, r) /\ (NoUA(to_guest) => NoUA(r)) /\ (f.type = "UA" => NoUA(r)) BY <1>1, <1>4, HandTailDown
  <1>6. f.type = "UA" => ~NoUA(to_guest) BY <1>2 DEF NoUA
  <1>7. guest.st \notin {"setup", "release"} => NoUA(to_guest) BY <1>4 DEF Hand
  <1>8. NoUA(to_guest) => 1 \in Live(to_guest) BY <1>1, <1>2, LiveWithoutUA
  <1> QED BY <1>2, <1>3, <1>5, <1>6, <1>7, <1>8

(* The frame at the head is lost or ignored.                                *)
LEMMA IgnoredInv ==
  ASSUME IInv, to_guest # << >>, to_guest' = Tail(to_guest), losses' \in 0..MaxLosses, setups' \in 0..MaxSetups,
         UNCHANGED <<v42, queued, framed, ppp_got, to_bridge, guest, g_got, base>>
  PROVE  IInv'
  <1>1. /\ to_guest \in Seq(Any) /\ base.down \in Nat /\ framed \in Nat /\ Len(ppp_got) \in Nat /\ Len(g_got) \in Nat
    BY Types DEF IInv
  <1>2. to_guest' \in Seq(FramesDown) /\ Hand(guest, to_bridge, to_guest') /\ (NoUA(to_guest) => NoUA(to_guest'))
    BY HeardDown
  <1>3. TypeOK' BY <1>2 DEF IInv, TypeOK
  <1>4. ASSUME Synced(guest, to_guest')
        PROVE  Agree(v42, framed, base.up, base.down, ppp_got, to_bridge, to_guest', guest, g_got)
    <2>1. Synced(guest, to_guest) BY <1>2, <1>4 DEF Synced
    <2>2. Agree(v42, framed, base.up, base.down, ppp_got, to_bridge, to_guest, guest, g_got) BY <2>1 DEF IInv
    <2>3. InWindow(to_guest', base.down, framed, MaxWindow, Len(g_got)) BY <1>1, <2>2, WindowTail, Constants DEF Agree
    <2>4. Growing(to_guest', Number(guest.acked), Len(ppp_got) - guest.acked)
      BY <1>1, <2>1, <2>2, GrowingTail, Unseen DEF Agree
    <2> QED BY <2>2, <2>3, <2>4 DEF Agree
  <1> QED BY <1>2, <1>3, <1>4 DEF IInv

LEMMA LoseFrameInv ==
  ASSUME IInv, LoseFrame
  PROVE  IInv'
  <1>0. /\ UNCHANGED <<v42, queued, framed, ppp_got, guest, g_got, base, setups>>
        /\ losses < MaxLosses /\ losses' = losses + 1
    BY DEF LoseFrame
  <1>1. losses' \in 0..MaxLosses
    <2>1. losses < MaxLosses /\ losses' = losses + 1 BY <1>0
    <2>2. losses \in 0..MaxLosses /\ MaxLosses \in Nat BY Constants DEF IInv, TypeOK
    <2> QED BY <2>1, <2>2
  <1>2. /\ to_guest \in Seq(FramesDown) /\ to_bridge \in Seq(FramesUp) /\ to_guest \in Seq(Any) /\ to_bridge \in Seq(Any)
        /\ base.up \in Nat /\ base.down \in Nat /\ framed \in Nat /\ Len(ppp_got) \in Nat /\ Len(g_got) \in Nat /\ Total(guest) \in Nat
    BY Types DEF IInv
  <1>3. CASE to_guest # << >> /\ to_guest' = Tail(to_guest) /\ UNCHANGED to_bridge
    <2>1. setups' \in 0..MaxSetups BY <1>0 DEF IInv, TypeOK
    <2> QED BY <1>0, <1>1, <1>3, <2>1, IgnoredInv
  <1>4. CASE to_bridge # << >> /\ to_bridge' = Tail(to_bridge) /\ UNCHANGED to_guest
    <2>1. to_bridge' \in Seq(FramesUp) BY <1>2, <1>4, TailIs
    <2>2. TypeOK' BY <1>0, <1>1, <1>4, <2>1 DEF IInv, TypeOK
    <2>3. Hand(guest, to_bridge', to_guest) BY <1>2, <1>4, HandTailUp DEF IInv
    <2>4. ASSUME Synced(guest, to_guest)
          PROVE  Agree(v42, framed, base.up, base.down, ppp_got, to_bridge', to_guest, guest, g_got)
      <3>2. Agree(v42, framed, base.up, base.down, ppp_got, to_bridge, to_guest, guest, g_got) BY <2>4 DEF IInv
      <3>4. Growing(to_bridge', v42.tx_ack, Out(v42) - (framed - base.down - Len(g_got)))
        BY <1>2, <1>4, <2>4, <3>2, GrowingTail, Unheard DEF Agree
      <3> QED BY <3>2, <3>4 DEF Agree
    <2>5. InWindow(to_bridge', base.up, Total(guest), GuestWindow, Len(ppp_got))
      <3>1. InWindow(to_bridge, base.up, Total(guest), GuestWindow, Len(ppp_got)) BY DEF IInv, Rx
      <3> QED BY <1>2, <1>4, <3>1, WindowTail, Constants
    <2>6. Rx(v42, ppp_got, to_bridge', base.up, Total(guest)) BY <2>5 DEF IInv, Rx
    <2>7. Offers(to_bridge') BY <1>2, <1>4, OffersTail DEF IInv
    <2> QED BY <1>0, <1>4, <2>2, <2>3, <2>4, <2>6, <2>7 DEF IInv
  <1> QED BY <1>3, <1>4 DEF LoseFrame

(* The UA of a connection or of its end.                                    *)
LEMMA AgreedInv ==
  ASSUME IInv, to_guest # << >>, to_guest' = Tail(to_guest), Head(to_guest).type = "UA", guest.st \in {"setup", "release"},
         guest' = [guest EXCEPT !.st = IF @ = "setup" THEN "up" ELSE "down"],
         UNCHANGED <<v42, queued, framed, ppp_got, to_bridge, g_got, base, losses, setups>>
  PROVE  IInv'
  <1>1. /\ to_guest \in Seq(Any) /\ base.down \in Nat /\ framed \in Nat /\ Len(ppp_got) \in Nat /\ Len(g_got) \in Nat
        /\ guest \in Guests
    BY Types DEF IInv
  <1>2. to_guest' \in Seq(FramesDown) /\ NoUA(to_guest') /\ ~NoUA(to_guest) BY HeardDown
  <1>3. /\ guest' \in Guests /\ guest'.st = (IF guest.st = "setup" THEN "up" ELSE "down") /\ guest'.base = guest.base
        /\ guest'.sent = guest.sent /\ guest'.next = guest.next /\ guest'.acked = guest.acked
    BY <1>1 DEF Guests
  <1>4. TypeOK' BY <1>2, <1>3 DEF IInv, TypeOK
  <1>5. Hand(guest', to_bridge, to_guest')
    <2>1. to_bridge = << >> BY <1>2 DEF IInv, Hand
    <2>2. 1..Len(to_bridge) = {} BY <2>1
    <2> QED BY <1>2, <2>2 DEF Hand, NoUA
  <1>6. Total(guest') = Total(guest) BY <1>3 DEF Total
  <1>7. Peer(guest', g_got, base.down, framed) BY <1>3, <1>6 DEF IInv, Peer
  <1>8. ASSUME Synced(guest', to_guest')
        PROVE  Agree(v42, framed, base.up, base.down, ppp_got, to_bridge, to_guest', guest', g_got)
    <2>1. Synced(guest, to_guest) BY <1>2, <1>3, <1>8 DEF Synced
    <2>2. Agree(v42, framed, base.up, base.down, ppp_got, to_bridge, to_guest, guest, g_got) BY <2>1 DEF IInv
    <2>3. InWindow(to_guest', base.down, framed, MaxWindow, Len(g_got)) BY <1>1, <2>2, WindowTail, Constants DEF Agree
    <2>4. Growing(to_guest', Number(guest.acked), Len(ppp_got) - guest.acked)
      BY <1>1, <2>1, <2>2, GrowingTail, Unseen DEF Agree
    <2> QED BY <1>3, <2>2, <2>3, <2>4 DEF Agree
  <1> QED BY <1>4, <1>5, <1>6, <1>7, <1>8 DEF IInv

-----------------------------------------------------------------------------
LEMMA AckedIs ==
  ASSUME IInv, to_guest # << >>, guest.st = "up", Head(to_guest).type \in Numbered
  PROVE  LET a == Acked(Head(to_guest).nr)
         IN  /\ a \in Nat /\ guest.acked <= a /\ a <= Len(ppp_got) /\ a <= guest.sent
             /\ Growing(Tail(to_guest), Number(a), Len(ppp_got) - a)
  <1> DEFINE nr == Head(to_guest).nr
             c == guest.acked
             n == Len(ppp_got)
             s == guest.sent
             d == v42_seq_distance(Number(c), nr)
  <1>1. c \in Nat /\ n \in Nat /\ s \in Nat /\ guest.base \in Nat /\ to_guest \in Seq(Any) BY Types DEF IInv
  <1>2. Synced(guest, to_guest) BY DEF Synced
  <1>3. nr \in Numbers /\ 1 \in Live(to_guest) BY HeardDown DEF Any
  <1>4. n - c \in Nat /\ n - c < Modulus /\ Number(c) \in Numbers BY <1>2, Unseen
  <1>5. Growing(to_guest, Number(c), n - c) /\ guest.base = base.up BY <1>2 DEF IInv, Agree
  <1>6. base.up + n <= guest.base + s BY DEF IInv, Rx, Total
  <1>7. d \in Nat /\ Number(c + d) = nr BY <1>1, <1>3, <1>4, Distance, Forward
  <1>8. Acked(nr) = IF c + d <= s THEN c + d ELSE c BY DEF Acked
  <1> DEFINE lim == n - c
  <1>9. lim \in Nat /\ lim < Modulus /\ Growing(to_guest, Number(c), lim) BY <1>4, <1>5
  <1>10. n <= s
    <2> DEFINE b == guest.base
    <2>1. b + n <= b + s /\ b \in Nat BY <1>1, <1>5, <1>6
    <2> HIDE DEF b, n, s
    <2> QED BY <1>1, <2>1
  <1> HIDE DEF lim
  <1>11. d <= lim /\ Growing(Tail(to_guest), nr, lim - d) BY <1>1, <1>3, <1>4, <1>9, GrowingTake
  <1> HIDE DEF c, n, s, d, nr
  <1>12. c + d <= s /\ lim - d = n - (c + d) /\ c + d <= n /\ c + d \in Nat /\ c <= c + d
    <2>1. lim = n - c BY DEF lim
    <2> QED BY <1>1, <1>7, <1>10, <1>11, <2>1
  <1>13. Acked(nr) = c + d BY <1>8, <1>12
  <1>14. Growing(Tail(to_guest), Number(c + d), n - (c + d)) BY <1>7, <1>11, <1>12
  <1>15. /\ c + d \in Nat /\ c <= c + d /\ c + d <= n /\ c + d <= s BY <1>12
  <1> QED BY <1>13, <1>14, <1>15 DEF c, n, s, nr

LEMMA GrowingMore ==
  ASSUME NEW q \in Seq(Any), NEW x \in Numbers, NEW old \in Nat, NEW lim \in Nat, Growing(q, x, old), old <= lim
  PROVE  Growing(q, x, lim)
  <1>1. ASSUME NEW i \in Live(q), q[i].type \in Numbered
        PROVE  v42_seq_distance(x, q[i].nr) <= lim
    <2>1. i \in 1..Len(q) BY DEF Live
    <2>2. q[i] \in Any BY <2>1
    <2>3. v42_seq_distance(x, q[i].nr) \in Nat BY <2>2, Distance DEF Any
    <2>4. v42_seq_distance(x, q[i].nr) <= old BY <1>1 DEF Growing
    <2> DEFINE d == v42_seq_distance(x, q[i].nr)
    <2> HIDE DEF d
    <2>5. d \in Nat /\ d <= old BY <2>3, <2>4 DEF d
    <2>6. d <= lim BY <2>5
    <2> QED BY <2>6 DEF d
  <1> QED BY <1>1 DEF Growing

(* The guest has heard a numbered frame, has accepted what it carried or     *)
(* not, and may answer with the number of what it has by then.              *)
LEMMA NumberedInv ==
  ASSUME IInv, to_guest # << >>, guest.st = "up", Head(to_guest).type \in Numbered, to_guest' = Tail(to_guest),
         UNCHANGED <<v42, queued, framed, ppp_got, base, losses, setups>>,
         guest' \in Guests, guest'.st = "up", guest'.base = guest.base, guest'.sent = guest.sent,
         guest'.acked = Acked(Head(to_guest).nr), guest'.acked <= guest'.next, guest'.next <= guest'.sent,
         g_got' \in Seq(1..PppUnits), Len(g_got) <= Len(g_got'), \A i \in 1..Len(g_got') : g_got'[i] = base.down + i,
         base.down + Len(g_got') <= framed,
         InWindow(Tail(to_guest), base.down, framed, MaxWindow, Len(g_got')),
         \/ to_bridge' = to_bridge
         \/ \E type \in {"RR", "RNR", "REJ", "SREJ"} :
              to_bridge' = Append(to_bridge, SFrame(type, Number(Len(g_got')), 0))
  PROVE  IInv'
  <1> DEFINE a == guest'.acked
             n == Len(ppp_got)
             b == Len(g_got')
             k == framed - base.down - Len(g_got)
             j == framed - base.down - b
             o == Out(v42)
  <1>1. /\ to_bridge \in Seq(FramesUp) /\ to_bridge \in Seq(Any) /\ to_guest \in Seq(Any) /\ base.down \in Nat
        /\ base.up \in Nat /\ framed \in Nat /\ n \in Nat /\ Len(g_got) \in Nat /\ guest.acked \in Nat /\ guest.sent \in Nat
        /\ v42 \in Links /\ Total(guest) \in Nat
    BY Types DEF IInv
  <1>2. a \in Nat /\ guest.acked <= a /\ a <= n /\ Growing(to_guest', Number(a), n - a) BY AckedIs
  <1>3. Synced(guest, to_guest) BY DEF Synced
  <1>4. Agree(v42, framed, base.up, base.down, ppp_got, to_bridge, to_guest, guest, g_got) BY <1>3 DEF IInv
  <1>5. /\ to_guest' \in Seq(FramesDown) /\ to_guest' \in Seq(Any) /\ Hand(guest, to_bridge, to_guest') /\ NoUA(to_guest)
        /\ NoUA(to_guest')
    BY HeardDown
  <1>6. o - k \in Nat /\ v42.tx_ack \in Numbers /\ k \in Nat /\ o \in Nat BY <1>3, Unheard
  <1>7. Tx(v42, framed, base.down) /\ base.down + b <= framed /\ b \in Nat BY DEF IInv
  <1>8. j <= k /\ j \in Nat /\ j <= o /\ o - k <= o - j /\ o - j \in Nat
    <2> DEFINE c == Len(g_got)
               e == base.down
    <2>1. c \in Nat /\ e \in Nat /\ c <= b /\ k = framed - e - c /\ j = framed - e - b /\ e + b <= framed BY <1>1, <1>7
    <2> HIDE DEF c, e, b, k, j, o
    <2> QED BY <1>1, <1>6, <1>7, <2>1
  <1>9. v42_seq_distance(v42.tx_ack, Number(b)) = o - j
    <2>1. framed - base.down - b <= Out(v42) BY <1>8
    <2> HIDE DEF b
    <2> QED BY <1>1, <1>7, <2>1, AckNumber
  <1>10. Number(b) \in Numbers BY <1>7, Reduced
  <1>11. Growing(to_bridge, v42.tx_ack, o - k) BY <1>4 DEF Agree
  <1> HIDE DEF a, n, b, k, j, o
  <1>12. /\ to_bridge' \in Seq(FramesUp) /\ Offers(to_bridge') /\ Hand(guest', to_bridge', to_guest')
         /\ InWindow(to_bridge', base.up, Total(guest), GuestWindow, n)
         /\ Growing(to_bridge', v42.tx_ack, o - j)
    <2>1. InWindow(to_bridge, base.up, Total(guest), GuestWindow, n) /\ base.up + n <= Total(guest) BY DEF IInv, Rx, n
    <2>2. CASE to_bridge' = to_bridge
      <3>1. Growing(to_bridge, v42.tx_ack, o - j) BY <1>1, <1>6, <1>8, <1>11, GrowingMore
      <3>2. Hand(guest', to_bridge, to_guest') BY <1>5 DEF Hand
      <3> QED BY <1>1, <2>1, <2>2, <3>1, <3>2 DEF IInv
    <2>3. ASSUME NEW type \in {"RR", "RNR", "REJ", "SREJ"}, to_bridge' = Append(to_bridge, SFrame(type, Number(b), 0))
          PROVE  /\ to_bridge' \in Seq(FramesUp) /\ Offers(to_bridge') /\ Hand(guest', to_bridge', to_guest')
                 /\ InWindow(to_bridge', base.up, Total(guest), GuestWindow, n)
                 /\ Growing(to_bridge', v42.tx_ack, o - j)
      <3> DEFINE x == SFrame(type, Number(b), 0)
      <3>1. x \in FramesUp /\ x \in Any /\ x.type = type /\ x.nr = Number(b) BY <1>10, SupervisoryIs
      <3> HIDE DEF x
      <3>2. to_bridge' = Append(to_bridge, x) /\ x.type \notin {"I", "XID", "SABME", "DISC"} BY <2>3, <3>1 DEF x
      <3>3. Append(to_bridge, x) \in Seq(FramesUp) BY <1>1, <3>1
      <3>4. Offers(Append(to_bridge, x)) BY <1>1, <3>1, <3>2, OffersAppend DEF IInv
      <3>5. Hand(guest', Append(to_bridge, x), to_guest') BY <1>1, <1>5, <3>1, <3>2, HandAppend
      <3>6. InWindow(Append(to_bridge, x), base.up, Total(guest), GuestWindow, n)
        <4>1. Total(guest) <= Total(guest) /\ GuestWindow \in Nat BY <1>1, Constants
        <4> QED BY <1>1, <2>1, <3>1, <3>2, <4>1, WindowAppend
      <3>7. Growing(Append(to_bridge, x), v42.tx_ack, o - j)
        <4>1. v42_seq_distance(v42.tx_ack, x.nr) = o - j BY <1>9, <3>1
        <4> QED BY <1>1, <1>6, <1>8, <1>11, <3>1, <4>1, GrowingAppend
      <3> QED BY <3>2, <3>3, <3>4, <3>5, <3>6, <3>7
    <2> QED BY <2>2, <2>3 DEF b
  <1>13. TypeOK' BY <1>5, <1>12 DEF IInv, TypeOK
  <1>14. Total(guest') = Total(guest) BY DEF Total
  <1>15. Peer(guest', g_got', base.down, framed)
    <2>1. guest.sent <= guest.acked + GuestWindow /\ Total(guest) <= GuestUnits BY DEF IInv, Peer
    <2>2. guest'.sent <= guest'.acked + GuestWindow
      <3> DEFINE s == guest.sent
                 c == guest.acked
      <3>1. s <= c + GuestWindow /\ s \in Nat /\ c \in Nat /\ c <= a /\ a \in Nat BY <1>1, <1>2, <2>1
      <3> HIDE DEF s, c
      <3>2. s <= a + GuestWindow BY <3>1, Constants
      <3> QED BY <3>2 DEF s, a
    <2> QED BY <1>14, <2>1, <2>2 DEF Peer
  <1>16. Agree(v42, framed, base.up, base.down, ppp_got, to_bridge', to_guest', guest', g_got')
    <2>1. guest'.base = base.up /\ a <= n BY <1>2, <1>4 DEF Agree
    <2>2. j <= o BY <1>8
    <2> QED BY <1>2, <1>12, <2>1, <2>2 DEF Agree, a, n, j, o, b
  <1> QED BY <1>12, <1>13, <1>14, <1>15, <1>16 DEF IInv, Rx, n

-----------------------------------------------------------------------------
(* A frame under the number the guest expects carries the next unit.         *)
LEMMA GuestExpects ==
  ASSUME IInv, to_guest # << >>, guest.st = "up", Head(to_guest).type = "I", Head(to_guest).ns = Number(Len(g_got))
  PROVE  /\ Head(to_guest).arg = base.down + Len(g_got) + 1
         /\ base.down + (Len(g_got) + 1) <= framed
         /\ Head(to_guest).arg \in 1..PppUnits
         /\ InWindow(Tail(to_guest), base.down, framed, MaxWindow, Len(g_got) + 1)
  <1> DEFINE a == Head(to_guest).arg
             b == base.down
             n == Len(g_got)
             t == framed
             o == Out(v42)
  <1>1. b \in Nat /\ n \in Nat /\ t \in Nat /\ to_guest \in Seq(Any) /\ t <= queued /\ queued <= PppUnits /\ queued \in Nat
    BY Types DEF IInv
  <1>2. a \in Nat /\ 1 \in Live(to_guest) /\ Head(to_guest) = to_guest[1] BY HeardDown DEF Any
  <1>3. Synced(guest, to_guest) BY DEF Synced
  <1>4. InWindow(to_guest, b, t, MaxWindow, n) /\ t - b - n <= o BY <1>3 DEF IInv, Agree
  <1>5. o <= MaxWindow /\ o \in Nat BY <1>3, Unheard DEF IInv, Tx
  <1>6. b < a /\ a <= t /\ Number(n) = Number(a - b - 1) /\ b + n < a + MaxWindow BY <1>2, <1>4 DEF InWindow
  <1> HIDE DEF a, b, n, t, o
  <1> DEFINE k == a - b - 1
  <1>7. k \in Nat /\ n - k < Modulus /\ k - n < Modulus /\ Number(n) = Number(k) BY <1>1, <1>2, <1>4, <1>5, <1>6, Constants
  <1> HIDE DEF k
  <1>8. n = k BY <1>1, <1>7, NumberTells
  <1>9. a = b + n + 1 BY <1>1, <1>2, <1>8 DEF k
  <1>10. b + (n + 1) <= t /\ a \in 1..PppUnits BY <1>1, <1>2, <1>6, <1>9, Constants
  <1>11. InWindow(Tail(to_guest), b, t, MaxWindow, n + 1)
    <2>1. Head(to_guest).arg = b + n + 1 BY <1>9 DEF a
    <2> QED BY <1>1, <1>2, <1>4, <2>1, WindowTake, Constants
  <1> QED BY <1>9, <1>10, <1>11 DEF a, b, n, t

LEMMA HearsInformationInv ==
  ASSUME IInv, to_guest # << >>, to_guest' = Tail(to_guest), guest.st = "up", Head(to_guest).type = "I",
         GuestHearsInformation(Head(to_guest)), UNCHANGED <<v42, queued, framed, ppp_got, base, line>>
  PROVE  IInv'
  <1> DEFINE f == Head(to_guest)
             a == Acked(f.nr)
             g == [guest EXCEPT !.acked = a, !.next = Later(@, a)]
             later == Later(guest.next, a)
             replies(type) == to_bridge' = Append(to_bridge, SFrame(type, Number(Len(g_got')), 0))
  <1>1. /\ to_guest \in Seq(Any) /\ base.down \in Nat /\ framed \in Nat /\ Len(g_got) \in Nat /\ guest \in Guests
        /\ g_got \in Seq(1..PppUnits) /\ guest.next \in Nat /\ guest.sent \in Nat /\ guest.acked \in Nat
    BY Types DEF IInv
  <1>2. f.type \in Numbered BY DEF Numbered
  <1>3. a \in Nat /\ a <= guest.sent BY <1>2, AckedIs
  <1>4. guest.next <= guest.sent /\ guest.sent \in 0..GuestUnits BY <1>1 DEF IInv, Peer, Guests
  <1>5. a <= later /\ later <= guest.sent /\ later \in 0..GuestUnits /\ a \in 0..GuestUnits
    BY <1>1, <1>3, <1>4, Constants DEF Later
  <1>6. g = [guest EXCEPT !.acked = a, !.next = later] BY <1>1, Zenon DEF Guests
  <1>7. UNCHANGED <<v42, queued, framed, ppp_got, base, losses, setups>> BY DEF line
  <1> HIDE DEF a, later, f
  <1>8. /\ g \in Guests /\ g.acked = a /\ g.next = later /\ g.st = guest.st /\ g.base = guest.base /\ g.sent = guest.sent
    BY <1>1, <1>5, <1>6 DEF Guests
  <1> HIDE DEF g
  <1>9. ASSUME guest' = g \/ (\E r \in BOOLEAN : guest' = [g EXCEPT !.rej = r])
               \/ (\E r \in BOOLEAN, y \in BOOLEAN : guest' = [g EXCEPT !.rej = r, !.busy = y])
        PROVE  /\ guest' \in Guests /\ guest'.acked = a /\ guest'.next = later /\ guest'.st = "up"
               /\ guest'.base = guest.base /\ guest'.sent = guest.sent
    <2>1. CASE guest' = g BY <1>8, <2>1
    <2>2. ASSUME NEW r \in BOOLEAN, guest' = [g EXCEPT !.rej = r]
          PROVE  /\ guest' \in Guests /\ guest'.acked = a /\ guest'.next = later /\ guest'.st = "up"
                 /\ guest'.base = guest.base /\ guest'.sent = guest.sent
      BY <1>8, <2>2 DEF Guests
    <2>3. ASSUME NEW r \in BOOLEAN, NEW y \in BOOLEAN, guest' = [g EXCEPT !.rej = r, !.busy = y]
          PROVE  /\ guest' \in Guests /\ guest'.acked = a /\ guest'.next = later /\ guest'.st = "up"
                 /\ guest'.base = guest.base /\ guest'.sent = guest.sent
      BY <1>8, <2>3 DEF Guests
    <2> QED BY <1>9, <2>1, <2>2, <2>3
  <1>10. InWindow(Tail(to_guest), base.down, framed, MaxWindow, Len(g_got))
    <2>1. Synced(guest, to_guest) BY DEF Synced
    <2>2. InWindow(to_guest, base.down, framed, MaxWindow, Len(g_got)) BY <2>1 DEF IInv, Agree
    <2> QED BY <1>1, <2>2, WindowTail, Constants
  <1>11. (\A i \in 1..Len(g_got) : g_got[i] = base.down + i) /\ base.down + Len(g_got) <= framed BY DEF IInv, Peer
  <1>12. ASSUME UNCHANGED g_got, guest' \in Guests, guest'.acked = a, guest'.next = later, guest'.st = "up",
                guest'.base = guest.base, guest'.sent = guest.sent,
                UNCHANGED to_bridge \/ \E type \in {"RR", "RNR", "REJ", "SREJ"} : replies(type)
         PROVE  IInv'
    <2>1. Len(g_got) <= Len(g_got') BY <1>1, <1>12
    <2>2. guest'.acked = Acked(Head(to_guest).nr) /\ guest'.acked <= guest'.next /\ guest'.next <= guest'.sent
      BY <1>5, <1>12 DEF a, f
    <2>3. Head(to_guest).type \in Numbered BY <1>2 DEF f
    <2>4. /\ g_got' \in Seq(1..PppUnits) /\ \A i \in 1..Len(g_got') : g_got'[i] = base.down + i
          /\ base.down + Len(g_got') <= framed /\ InWindow(Tail(to_guest), base.down, framed, MaxWindow, Len(g_got'))
      BY <1>1, <1>10, <1>11, <1>12
    <2> QED BY <1>7, <1>12, <2>1, <2>2, <2>3, <2>4, NumberedInv
  <1>13. CASE guest.busy /\ guest' = g /\ UNCHANGED <<g_got, to_bridge>> BY <1>9, <1>12, <1>13
  <1>14. CASE /\ f.ns = Number(Len(g_got)) /\ g_got' = Append(g_got, f.arg)
              /\ \/ guest' = [g EXCEPT !.rej = FALSE] /\ replies("RR")
                 \/ guest' = [g EXCEPT !.rej = FALSE, !.busy = TRUE] /\ replies("RNR")
    <2>1. /\ guest' \in Guests /\ guest'.acked = a /\ guest'.next = later /\ guest'.st = "up"
          /\ guest'.base = guest.base /\ guest'.sent = guest.sent
      BY <1>9, <1>14
    <2>2. /\ f.arg = base.down + Len(g_got) + 1 /\ base.down + (Len(g_got) + 1) <= framed /\ f.arg \in 1..PppUnits
          /\ InWindow(Tail(to_guest), base.down, framed, MaxWindow, Len(g_got) + 1)
      BY <1>14, GuestExpects DEF f
    <2> DEFINE y == f.arg
               n == Len(g_got)
    <2> HIDE DEF y
    <2>3. /\ g_got' \in Seq(1..PppUnits) /\ Len(g_got') = n + 1 /\ g_got'[n + 1] = y
          /\ \A i \in 1..n : g_got'[i] = g_got[i]
      <3>1. y \in 1..PppUnits /\ g_got' = Append(g_got, y) BY <1>14, <2>2 DEF y
      <3> QED BY <1>1, <3>1
    <2>4. n \in Nat /\ n <= n + 1 BY <1>1
    <2>5. y = base.down + (n + 1)
      <3> DEFINE b == base.down
      <3>1. y = b + n + 1 /\ b \in Nat BY <1>1, <2>2 DEF y
      <3> HIDE DEF b, n
      <3>2. y = b + (n + 1) BY <2>4, <3>1
      <3> QED BY <3>2 DEF b
    <2>6. \A i \in 1..n : g_got[i] = base.down + i BY <1>11
    <2> HIDE DEF n
    <2>7. \A i \in 1..Len(g_got') : g_got'[i] = base.down + i
      <3>1. \A i \in 1..n + 1 : i \in 1..n \/ i = n + 1 BY <2>4
      <3> QED BY <2>3, <2>5, <2>6, <3>1
    <2>8. guest'.acked = Acked(Head(to_guest).nr) /\ guest'.acked <= guest'.next /\ guest'.next <= guest'.sent
      BY <1>5, <2>1 DEF a, f
    <2>9. Head(to_guest).type \in Numbered BY <1>2 DEF f
    <2>10. \E type \in {"RR", "RNR", "REJ", "SREJ"} :
              to_bridge' = Append(to_bridge, SFrame(type, Number(Len(g_got')), 0))
      BY <1>14
    <2>11. Len(g_got) <= Len(g_got') /\ base.down + Len(g_got') <= framed
           /\ InWindow(Tail(to_guest), base.down, framed, MaxWindow, Len(g_got'))
      BY <2>2, <2>3, <2>4 DEF n
    <2> QED BY <1>7, <2>1, <2>3, <2>7, <2>8, <2>9, <2>10, <2>11, NumberedInv
  <1>15. CASE /\ UNCHANGED g_got
              /\ \/ guest.rej /\ guest' = g /\ UNCHANGED to_bridge
                 \/ ~guest.rej /\ guest' = [g EXCEPT !.rej = TRUE] /\ (replies("REJ") \/ replies("SREJ"))
    <2>1. /\ guest' \in Guests /\ guest'.acked = a /\ guest'.next = later /\ guest'.st = "up"
          /\ guest'.base = guest.base /\ guest'.sent = guest.sent
      BY <1>9, <1>15
    <2> QED BY <1>12, <1>15, <2>1
  <1>16. \/ guest.busy /\ guest' = g /\ UNCHANGED <<g_got, to_bridge>>
         \/ /\ f.ns = Number(Len(g_got)) /\ g_got' = Append(g_got, f.arg)
            /\ \/ guest' = [g EXCEPT !.rej = FALSE] /\ replies("RR")
               \/ guest' = [g EXCEPT !.rej = FALSE, !.busy = TRUE] /\ replies("RNR")
         \/ /\ UNCHANGED g_got
            /\ \/ guest.rej /\ guest' = g /\ UNCHANGED to_bridge
               \/ ~guest.rej /\ guest' = [g EXCEPT !.rej = TRUE] /\ (replies("REJ") \/ replies("SREJ"))
    BY Zenon DEF GuestHearsInformation, g, f, a
  <1> QED BY <1>13, <1>14, <1>15, <1>16

LEMMA HearsSupervisoryInv ==
  ASSUME IInv, to_guest # << >>, to_guest' = Tail(to_guest), guest.st = "up", Head(to_guest).type \in {"RR", "REJ"},
         GuestHearsSupervisory(Head(to_guest)), UNCHANGED <<v42, queued, framed, ppp_got, base, line>>
  PROVE  IInv'
  <1> DEFINE f == Head(to_guest)
             a == Acked(f.nr)
             next == IF f.type = "REJ" THEN a ELSE Later(guest.next, a)
  <1>1. /\ to_guest \in Seq(Any) /\ base.down \in Nat /\ framed \in Nat /\ Len(g_got) \in Nat /\ guest \in Guests
        /\ g_got \in Seq(1..PppUnits) /\ guest.next \in Nat /\ guest.sent \in Nat /\ guest.acked \in Nat
    BY Types DEF IInv
  <1>2. Head(to_guest).type \in Numbered BY DEF Numbered
  <1>3. a \in Nat /\ a <= guest.sent BY <1>2, AckedIs
  <1>4. guest.next <= guest.sent /\ guest.sent \in 0..GuestUnits BY <1>1 DEF IInv, Peer, Guests
  <1> HIDE DEF a
  <1>5. a <= next /\ next <= guest.sent /\ next \in 0..GuestUnits /\ a \in 0..GuestUnits
    BY <1>1, <1>3, <1>4, Constants DEF Later
  <1>6. guest' = [guest EXCEPT !.acked = a, !.next = next]
    <2>1. guest' = [guest EXCEPT !.acked = Acked(f.nr),
                            !.next = IF f.type = "REJ" THEN Acked(f.nr) ELSE Later(@, Acked(f.nr))]
      BY Zenon DEF GuestHearsSupervisory
    <2> QED BY <1>1, <2>1, Zenon DEF Guests, a
  <1> HIDE DEF next
  <1>7. /\ guest' \in Guests /\ guest'.acked = a /\ guest'.next = next /\ guest'.st = "up"
        /\ guest'.base = guest.base /\ guest'.sent = guest.sent
    BY <1>1, <1>5, <1>6 DEF Guests
  <1>8. InWindow(Tail(to_guest), base.down, framed, MaxWindow, Len(g_got))
    <2>1. Synced(guest, to_guest) BY DEF Synced
    <2>2. InWindow(to_guest, base.down, framed, MaxWindow, Len(g_got)) BY <2>1 DEF IInv, Agree
    <2> QED BY <1>1, <2>2, WindowTail, Constants
  <1>9. (\A i \in 1..Len(g_got) : g_got[i] = base.down + i) /\ base.down + Len(g_got) <= framed BY DEF IInv, Peer
  <1>10. UNCHANGED g_got /\ UNCHANGED <<v42, queued, framed, ppp_got, base, losses, setups>>
    BY DEF GuestHearsSupervisory, line
  <1>11. \/ to_bridge' = to_bridge
         \/ \E type \in {"RR", "RNR", "REJ", "SREJ"} :
              to_bridge' = Append(to_bridge, SFrame(type, Number(Len(g_got')), 0))
    <2>1. CASE f.arg = 1
      <3>1. to_bridge' = Append(to_bridge, SFrame(IF guest.busy THEN "RNR" ELSE "RR", Number(Len(g_got)), 0))
        BY <2>1 DEF GuestHearsSupervisory
      <3>2. (IF guest.busy THEN "RNR" ELSE "RR") \in {"RR", "RNR", "REJ", "SREJ"} OBVIOUS
      <3> QED BY <1>10, <3>1, <3>2
    <2>2. CASE f.arg # 1 BY <2>2 DEF GuestHearsSupervisory
    <2> QED BY <2>1, <2>2
  <1>12. guest'.acked = Acked(Head(to_guest).nr) /\ guest'.acked <= guest'.next /\ guest'.next <= guest'.sent
    BY <1>5, <1>7 DEF a
  <1>13. /\ g_got' \in Seq(1..PppUnits) /\ Len(g_got) <= Len(g_got') /\ \A i \in 1..Len(g_got') : g_got'[i] = base.down + i
         /\ base.down + Len(g_got') <= framed /\ InWindow(Tail(to_guest), base.down, framed, MaxWindow, Len(g_got'))
    BY <1>1, <1>8, <1>9, <1>10
  <1> QED BY <1>2, <1>7, <1>10, <1>11, <1>12, <1>13, NumberedInv

LEMMA GuestHearsInv ==
  ASSUME IInv, GuestHears
  PROVE  IInv'
  <1> DEFINE f == Head(to_guest)
  <1>1. to_guest # << >> /\ to_guest' = Tail(to_guest) /\ UNCHANGED <<v42, queued, framed, ppp_got, base, line>>
    BY DEF GuestHears
  <1>2. CASE guest.st = "up" /\ f.type = "I" /\ GuestHearsInformation(f) BY <1>1, <1>2, HearsInformationInv
  <1>3. CASE guest.st = "up" /\ f.type \in {"RR", "REJ"} /\ GuestHearsSupervisory(f) BY <1>1, <1>3, HearsSupervisoryInv
  <1>4. CASE /\ f.type = "UA" /\ guest.st \in {"setup", "release"}
             /\ guest' = [guest EXCEPT !.st = IF @ = "setup" THEN "up" ELSE "down"]
             /\ UNCHANGED <<g_got, to_bridge>>
    BY <1>1, <1>4, AgreedInv DEF line
  <1>5. CASE UNCHANGED <<guest, g_got, to_bridge>>
    <2>1. losses' \in 0..MaxLosses /\ setups' \in 0..MaxSetups BY <1>1, Types DEF line, IInv
    <2> QED BY <1>1, <1>5, <2>1, IgnoredInv
  <1> QED BY <1>2, <1>3, <1>4, <1>5 DEF GuestHears

-----------------------------------------------------------------------------
LEMMA InitInv ==
  ASSUME Init
  PROVE  IInv
  <1> DEFINE none == [s \in Numbers |-> 0]
  <1>1. /\ v42 = [phase |-> "establish", tx_seq |-> 0, rx_seq |-> 0, tx_ack |-> 0, ready |-> TRUE,
                  window |-> FirstWindow, sent |-> none]
        /\ queued = 0 /\ framed = 0 /\ to_guest = << >> /\ ppp_got = << >>
        /\ to_bridge = << >> /\ g_got = << >>
        /\ guest = [st |-> "down", base |-> 0, sent |-> 0, next |-> 0, acked |-> 0, rej |-> FALSE, busy |-> FALSE]
        /\ base = [down |-> 0, up |-> 0]
        /\ losses = 0 /\ setups = 0
    BY DEF Init
  <1>2. 0 \in Numbers /\ none \in [Numbers -> 0..PppUnits] /\ \A s \in Numbers : none[s] = 0 BY Constants DEF Numbers
  <1> HIDE DEF none
  <1>3. FirstWindow \in 1..MaxWindow /\ 0 \in 0..PppUnits /\ 0 \in 0..GuestUnits /\ 0 \in 0..MaxLosses /\ 0 \in 0..MaxSetups
    BY Constants
  <1>4. v42 \in Links /\ v42.tx_seq = 0 /\ v42.tx_ack = 0 /\ v42.rx_seq = 0 /\ v42.sent = none BY <1>1, <1>2, <1>3 DEF Links
  <1>5. guest \in Guests /\ guest.st = "down" /\ guest.base = 0 /\ guest.sent = 0 /\ guest.next = 0 /\ guest.acked = 0
    BY <1>1, <1>3 DEF Guests
  <1>6. base \in [down : 0..PppUnits, up : 0..GuestUnits] /\ base.up = 0 /\ base.down = 0 BY <1>1, <1>3
  <1>7. /\ to_guest \in Seq(FramesDown) /\ to_bridge \in Seq(FramesUp) /\ ppp_got \in Seq(1..GuestUnits)
        /\ g_got \in Seq(1..PppUnits) /\ Len(ppp_got) = 0 /\ Len(g_got) = 0
    <2>1. << >> \in Seq(FramesDown) /\ << >> \in Seq(FramesUp) /\ << >> \in Seq(1..GuestUnits) /\ << >> \in Seq(1..PppUnits)
          /\ Len(<< >>) = 0
      OBVIOUS
    <2> QED BY <1>1, <2>1
  <1>8. TypeOK
    <2>1. queued \in 0..PppUnits /\ framed \in 0..queued /\ losses \in 0..MaxLosses /\ setups \in 0..MaxSetups BY <1>1, <1>3
    <2> QED BY <1>4, <1>5, <1>6, <1>7, <2>1 DEF TypeOK
  <1>9. Number(0) = 0 /\ v42_seq_distance(0, 0) = 0
    <2>1. Number(0) = 0 BY Reduced, Constants
    <2> QED BY <1>2, <2>1, Distance
  <1>10. Out(v42) = 0 BY <1>4, <1>9 DEF Out
  <1>11. Tx(v42, framed, base.down)
    <2>1. \A s \in Numbers : v42_seq_distance(0, s) \in Nat BY <1>2, Distance
    <2>2. \A s \in Numbers : v42.sent[s] = 0 /\ ~(v42_seq_distance(v42.tx_ack, s) < 0) BY <1>2, <1>4, <2>1
    <2> QED BY <1>1, <1>4, <1>6, <1>9, <1>10, <2>2, Constants DEF Tx
  <1>12. Total(guest) = 0 BY <1>5 DEF Total
  <1>13. Rx(v42, ppp_got, to_bridge, base.up, Total(guest))
    <2>1. InWindow(to_bridge, base.up, Total(guest), GuestWindow, Len(ppp_got)) BY <1>1, EmptyIsFine
    <2> QED BY <1>4, <1>6, <1>7, <1>9, <1>12, <2>1, Constants DEF Rx
  <1>14. Peer(guest, g_got, base.down, framed) BY <1>1, <1>5, <1>6, <1>7, <1>12, Constants DEF Peer
  <1>15. Hand(guest, to_bridge, to_guest) /\ NoUA(to_guest)
    <2>1. 1..Len(to_bridge) = {} /\ 1..Len(to_guest) = {} BY <1>1
    <2> QED BY <2>1 DEF Hand, NoUA
  <1>16. ~Synced(guest, to_guest) BY <1>5 DEF Synced
  <1>17. Offers(to_bridge) BY <1>1, EmptyIsFine
  <1> QED BY <1>8, <1>11, <1>13, <1>14, <1>15, <1>16, <1>17 DEF IInv

LEMMA NextInv ==
  ASSUME IInv, [Next]_vars
  PROVE  IInv'
  <1>1. CASE v42_handle_frame BY <1>1, HandleFrameInv
  <1>2. CASE Pump BY <1>2, PumpInv
  <1>3. CASE Poll BY <1>3, PollInv
  <1>4. CASE PppQueues BY <1>4, PppQueuesInv
  <1>5. CASE GuestSetsUp BY <1>5, GuestSetsUpInv
  <1>6. ASSUME NEW w \in 1..MaxWindow, GuestNegotiates(w) PROVE IInv' BY <1>6, GuestNegotiatesInv
  <1>7. CASE GuestReleases BY <1>7, GuestReleasesInv
  <1>8. CASE GuestSends BY <1>8, GuestSendsInv
  <1>9. CASE GuestBacksUp BY <1>9, GuestBacksUpInv
  <1>10. CASE GuestReady BY <1>10, GuestReadyInv
  <1>11. CASE GuestHears BY <1>11, GuestHearsInv
  <1>12. CASE LoseFrame BY <1>12, LoseFrameInv
  <1>13. CASE UNCHANGED vars BY <1>13 DEF vars, IInv, TypeOK
  <1> QED BY <1>1, <1>2, <1>3, <1>4, <1>5, <1>6, <1>7, <1>8, <1>9, <1>10, <1>11, <1>12, <1>13 DEF Next

(* The invariant of the link, on both of its ends and both lines.           *)
THEOREM Invariance == Spec => []IInv
  BY InitInv, NextInv, PTL DEF Spec

(* Sequence numbers stay reduced modulo 128, and what is stored and sent are *)
(* frames and units that exist.                                             *)
THEOREM TypeCorrect == Spec => []TypeOK
  <1>1. IInv => TypeOK BY DEF IInv
  <1> QED BY Invariance, <1>1, PTL

-----------------------------------------------------------------------------
LEMMA ResendableHolds ==
  ASSUME IInv
  PROVE  Resendable
  <1>1. /\ v42 \in Links /\ framed \in Nat /\ base.down \in Nat /\ Len(g_got) \in Nat /\ Tx(v42, framed, base.down)
    BY Types DEF IInv
  <1>2. StoredAreOutstanding BY <1>1 DEF Tx, Out, StoredAreOutstanding, Outstanding
  <1>3. ASSUME guest.st = "up", NEW u \in base.down + Len(g_got) + 1 .. framed
        PROVE  \E s \in Numbers : v42.sent[s] = u
    <2> DEFINE n == u - base.down - 1
               s == Number(n)
               o == Out(v42)
               k == framed + 1 - u
    <2>1. Synced(guest, to_guest) BY <1>3 DEF Synced
    <2>2. framed - base.down - Len(g_got) <= o BY <2>1 DEF IInv, Agree
    <2>3. o \in Nat /\ o < Modulus /\ v42.tx_ack \in Numbers BY <2>1, Unheard
    <2>4. /\ n \in Nat /\ base.down + n <= framed /\ framed - base.down - n = k /\ k <= o /\ k \in Nat /\ k >= 1
          /\ framed - base.down \in Nat /\ n <= framed - base.down /\ (framed - base.down) - n = k
      <3> DEFINE b == base.down
                 a == Len(g_got)
                 t == framed
      <3>1. /\ b \in Nat /\ a \in Nat /\ t \in Nat /\ o \in Nat /\ t - b - a <= o /\ u \in b + a + 1 .. t
            /\ n = u - b - 1 /\ k = t + 1 - u
        BY <1>1, <2>2, <2>3
      <3> HIDE DEF b, a, t, n, k, o
      <3>2. /\ n \in Nat /\ b + n <= t /\ t - b - n = k /\ k <= o /\ k \in Nat /\ k >= 1
            /\ t - b \in Nat /\ n <= t - b /\ (t - b) - n = k
        BY <3>1
      <3> QED BY <3>2 DEF b, t
    <2>5. s \in Numbers BY <2>4, Reduced
    <2>6. k < Modulus BY <2>3, <2>4, Constants
    <2>7. v42_seq_distance(v42.tx_ack, s) = o - k
      <3>1. framed - base.down - n <= Out(v42) BY <2>4
      <3> HIDE DEF n
      <3>2. v42_seq_distance(v42.tx_ack, Number(n)) = Out(v42) - (framed - base.down - n) BY <1>1, <2>4, <3>1, AckNumber
      <3> QED BY <2>4, <3>2
    <2>8. v42_seq_distance(s, v42.tx_seq) = k
      <3>1. v42.tx_seq = Number(framed - base.down) BY <1>1 DEF Tx
      <3> DEFINE t == framed - base.down
      <3>2. t \in Nat /\ n <= t /\ t - n = k BY <2>4
      <3> HIDE DEF n, t, k
      <3>3. v42_seq_distance(Number(n), Number(t)) = t - n BY <2>4, <2>6, <3>2, Between
      <3> QED BY <3>1, <3>2, <3>3 DEF t
    <2>9. v42_seq_distance(v42.tx_ack, s) < Out(v42)
      <3> HIDE DEF o, k
      <3>1. o - k < o BY <2>3, <2>4
      <3> QED BY <2>7, <3>1 DEF o
    <2>10. v42.sent[s] = framed + 1 - k
      <3> HIDE DEF s, k
      <3> QED BY <1>1, <2>5, <2>8, <2>9 DEF Tx
    <2>11. framed + 1 - k = u BY <1>1
    <2> QED BY <2>5, <2>10, <2>11
  <1> QED BY <1>2, <1>3 DEF Resendable, UnacceptedIsStored

(* A frame can be resent until the guest has it: v42_sent_valid marks just   *)
(* the outstanding numbers, and they hold all that it lacks.                *)
THEOREM StoredCorrect == Spec => []Resendable
  BY Invariance, ResendableHolds, PTL

-----------------------------------------------------------------------------
(* What has come out of a pipe counts from where its connection began.       *)
LEMMA TakenIs ==
  ASSUME NEW S, NEW s \in Seq(S), NEW b \in Nat, \A i \in 1..Len(s) : s[i] = b + i
  PROVE  /\ [i \in 1..Len(s) |-> s[i] - b] = [i \in 1..Len(s) |-> i]
         /\ Len([i \in 1..Len(s) |-> s[i] - b]) = Len(s)
         /\ Len(s) = 0 => [i \in 1..Len(s) |-> s[i] - b] = << >>
  <1>1. \A i \in 1..Len(s) : s[i] - b = i OBVIOUS
  <1>2. Len(s) \in Nat OBVIOUS
  <1>3. [i \in 1..Len(s) |-> s[i] - b] = [i \in 1..Len(s) |-> i] BY <1>1
  <1>4. Len([i \in 1..Len(s) |-> s[i] - b]) = Len(s) BY <1>2
  <1>5. Len(s) = 0 => [i \in 1..Len(s) |-> s[i] - b] = << >> OBVIOUS
  <1> QED BY <1>3, <1>4, <1>5

LEMMA UpStep ==
  ASSUME IInv, [Next]_vars
  PROVE  \/ UNCHANGED <<base, ppp_got>> /\ Total(guest) <= Total(guest')
         \/ UNCHANGED base /\ Total(guest') = Total(guest) /\ Len(ppp_got') = Len(ppp_got) + 1
         \/ ppp_got' = << >> /\ Total(guest') = base'.up
  <1>0. /\ guest \in Guests /\ guest.base \in Nat /\ guest.sent \in Nat /\ guest.next \in Nat /\ Total(guest) \in Nat
        /\ ppp_got \in Seq(1..GuestUnits)
    BY Types DEF IInv
  <1>1. ASSUME UNCHANGED <<base, ppp_got>>, guest'.base = guest.base, guest'.sent = guest.sent
        PROVE  UNCHANGED <<base, ppp_got>> /\ Total(guest) <= Total(guest')
    <2>1. Total(guest') = Total(guest) BY <1>1 DEF Total
    <2> QED BY <1>0, <1>1, <2>1
  <1>2. CASE v42_handle_frame
    <2> DEFINE f == Head(to_bridge)
    <2>1. guest' = guest /\ to_bridge # << >> BY <1>2 DEF v42_handle_frame
    <2>2. CASE f.type = "SABME" /\ HandleSabme
      <3>1. guest.st = "setup" BY <2>1, <2>2, HeardUp
      <3>2. guest.sent = 0 BY <3>1 DEF IInv, Peer
      <3>3. ppp_got' = << >> /\ base'.up = guest.base BY <2>2 DEF HandleSabme
      <3>4. Total(guest') = guest.base BY <1>0, <2>1, <3>2 DEF Total
      <3> QED BY <3>3, <3>4
    <2>3. CASE f.type = "XID" /\ HandleXid(f) BY <1>1, <2>1, <2>3 DEF HandleXid
    <2>4. CASE f.type = "DISC" /\ HandleDisc BY <1>1, <2>1, <2>4 DEF HandleDisc
    <2>5. CASE f.type \in {"RR", "RNR", "REJ", "SREJ"} /\ HandleSupervisory(f)
      BY <1>1, <2>1, <2>5, Zenon DEF HandleSupervisory
    <2>6. CASE f.type = "I" /\ HandleInformation(f)
      <3>1. base' = base /\ (ppp_got' = ppp_got \/ ppp_got' = Append(ppp_got, f.arg)) BY <2>6, Zenon DEF HandleInformation
      <3>2. CASE ppp_got' = ppp_got BY <1>1, <2>1, <3>1, <3>2
      <3>3. CASE ppp_got' = Append(ppp_got, f.arg)
        <4> DEFINE y == f.arg
        <4> HIDE DEF y
        <4>1. ppp_got' = Append(ppp_got, y) BY <3>3 DEF y
        <4>2. Len(ppp_got') = Len(ppp_got) + 1 BY <1>0, <4>1
        <4> QED BY <2>1, <3>1, <4>2
      <3> QED BY <3>1, <3>2, <3>3
    <2> QED BY <1>2, <2>2, <2>3, <2>4, <2>5, <2>6 DEF v42_handle_frame
  <1>3. CASE Pump BY <1>1, <1>3 DEF Pump
  <1>4. CASE Poll BY <1>1, <1>4 DEF Poll
  <1>5. CASE PppQueues BY <1>1, <1>5 DEF PppQueues
  <1>6. CASE GuestSetsUp
    <2> DEFINE t == guest.base + guest.sent
    <2>1. guest' = [st |-> "setup", base |-> t, sent |-> 0, next |-> 0, acked |-> 0, rej |-> FALSE, busy |-> FALSE]
          /\ UNCHANGED <<base, ppp_got>>
      BY <1>6 DEF GuestSetsUp
    <2>2. t \in Nat /\ Total(guest) = t BY <1>0 DEF Total
    <2> HIDE DEF t
    <2>3. Total(guest') = t BY <2>1, <2>2 DEF Total
    <2> QED BY <2>1, <2>2, <2>3
  <1>7. ASSUME NEW w \in 1..MaxWindow, GuestNegotiates(w)
        PROVE  UNCHANGED <<base, ppp_got>> /\ Total(guest) <= Total(guest')
    BY <1>1, <1>7 DEF GuestNegotiates
  <1>8. CASE GuestReleases
    <2>1. guest' = [guest EXCEPT !.st = "release"] /\ UNCHANGED <<base, ppp_got>> BY <1>8 DEF GuestReleases
    <2> QED BY <1>0, <1>1, <2>1 DEF Guests
  <1>9. CASE GuestSends
    <2> DEFINE n == IF guest.sent = guest.next THEN guest.sent + 1 ELSE guest.sent
    <2>1. guest' = [guest EXCEPT !.next = guest.next + 1, !.sent = n] /\ UNCHANGED <<base, ppp_got>>
      <3>1. guest' = [guest EXCEPT !.next = @ + 1, !.sent = IF @ = guest.next THEN @ + 1 ELSE @] /\ UNCHANGED <<base, ppp_got>>
        BY <1>9 DEF GuestSends
      <3> QED BY <1>0, <3>1, Zenon DEF Guests
    <2>2. n \in Nat /\ guest.sent <= n BY <1>0
    <2> HIDE DEF n
    <2>3. guest'.base = guest.base /\ guest'.sent = n BY <1>0, <2>1 DEF Guests
    <2> DEFINE b == guest.base
               s == guest.sent
    <2>4. Total(guest) = b + s /\ Total(guest') = b + n /\ b \in Nat /\ s \in Nat /\ s <= n BY <1>0, <2>2, <2>3 DEF Total
    <2> HIDE DEF b, s
    <2> QED BY <2>1, <2>2, <2>4
  <1>10. CASE GuestBacksUp
    <2>1. guest' = [guest EXCEPT !.next = guest.acked] /\ UNCHANGED <<base, ppp_got>> BY <1>10 DEF GuestBacksUp
    <2> QED BY <1>0, <1>1, <2>1 DEF Guests
  <1>11. CASE GuestReady
    <2>1. guest' = [guest EXCEPT !.busy = FALSE, !.rej = TRUE] /\ UNCHANGED <<base, ppp_got>> BY <1>11 DEF GuestReady
    <2> QED BY <1>0, <1>1, <2>1 DEF Guests
  <1>12. CASE GuestHears
    <2> DEFINE f == Head(to_guest)
               a == Acked(f.nr)
               g == [guest EXCEPT !.acked = a, !.next = Later(@, a)]
    <2>1. UNCHANGED <<base, ppp_got>> BY <1>12 DEF GuestHears
    <2>2. CASE GuestHearsInformation(f)
      <3>1. guest' = g \/ guest' = [g EXCEPT !.rej = FALSE] \/ guest' = [g EXCEPT !.rej = FALSE, !.busy = TRUE]
            \/ guest' = [g EXCEPT !.rej = TRUE]
        BY <2>2, Zenon DEF GuestHearsInformation
      <3> DEFINE later == Later(guest.next, a)
      <3>2. g = [guest EXCEPT !.acked = a, !.next = later] BY <1>0, Zenon DEF Guests
      <3> HIDE DEF a, later
      <3>3. /\ g \in [st : {"down", "setup", "up", "release"}, base : 0..GuestUnits, sent : 0..GuestUnits, next : {later},
                      acked : {a}, rej : BOOLEAN, busy : BOOLEAN]
            /\ g.base = guest.base /\ g.sent = guest.sent
        BY <1>0, <3>2 DEF Guests
      <3> HIDE DEF g
      <3>4. guest'.base = guest.base /\ guest'.sent = guest.sent BY <3>1, <3>3
      <3> QED BY <1>1, <2>1, <3>4
    <2>3. CASE GuestHearsSupervisory(f)
      <3> DEFINE next == IF f.type = "REJ" THEN a ELSE Later(guest.next, a)
      <3>1. guest' = [guest EXCEPT !.acked = a, !.next = next]
        <4>1. guest' = [guest EXCEPT !.acked = Acked(f.nr),
                            !.next = IF f.type = "REJ" THEN Acked(f.nr) ELSE Later(@, Acked(f.nr))]
          BY <2>3, Zenon DEF GuestHearsSupervisory
        <4> QED BY <1>0, <4>1, Zenon DEF Guests
      <3> HIDE DEF next, a
      <3>2. guest'.base = guest.base /\ guest'.sent = guest.sent BY <1>0, <3>1 DEF Guests
      <3> QED BY <1>1, <2>1, <3>2
    <2>4. CASE guest' = [guest EXCEPT !.st = IF @ = "setup" THEN "up" ELSE "down"]
      <3>1. guest'.base = guest.base /\ guest'.sent = guest.sent BY <1>0, <2>4 DEF Guests
      <3> QED BY <1>1, <2>1, <3>1
    <2>5. CASE guest' = guest BY <1>1, <2>1, <2>5
    <2> QED BY <1>12, <2>2, <2>3, <2>4, <2>5 DEF GuestHears
  <1>13. CASE LoseFrame BY <1>1, <1>13 DEF LoseFrame
  <1>14. CASE UNCHANGED vars BY <1>1, <1>14 DEF vars
  <1> QED BY <1>2, <1>3, <1>4, <1>5, <1>6, <1>7, <1>8, <1>9, <1>10, <1>11, <1>12, <1>13, <1>14 DEF Next

(* Towards PPP: within a connection every unit once and in order, whatever   *)
(* is lost, repeated or rejected; a new connection begins anew.             *)
THEOREM UpLinkCorrect == Spec => UpLink
  <1>1. Init => Up!Init
    <2> SUFFICES ASSUME Init PROVE Up!Init OBVIOUS
    <2>1. guest.base = 0 /\ guest.sent = 0 /\ base.up = 0 /\ ppp_got = << >> BY DEF Init
    <2>2. Len(ppp_got) = 0 BY <2>1
    <2>3. [i \in 1..Len(ppp_got) |-> ppp_got[i] - base.up] = << >> BY <2>2
    <2> QED BY <2>1, <2>3 DEF Up!Init
  <1>2. IInv /\ IInv' /\ [Next]_vars => [Up!LinkNext]_(Up!vars)
    <2> SUFFICES ASSUME IInv, IInv', [Next]_vars PROVE [Up!LinkNext]_(Up!vars) OBVIOUS
    <2> DEFINE o == guest.base + guest.sent - base.up
               p == guest'.base + guest'.sent - base'.up
               s == [i \in 1..Len(ppp_got) |-> ppp_got[i] - base.up]
               t == [i \in 1..Len(ppp_got') |-> ppp_got'[i] - base'.up]
               n == Len(ppp_got)
               m == Len(ppp_got')
    <2>1. ppp_got \in Seq(1..GuestUnits) /\ base.up \in Nat /\ \A i \in 1..Len(ppp_got) : ppp_got[i] = base.up + i
      BY Types DEF IInv, Rx
    <2>2. ppp_got' \in Seq(1..GuestUnits) /\ base'.up \in Nat /\ \A i \in 1..Len(ppp_got') : ppp_got'[i] = base'.up + i
      <3>1. TypeOK' /\ Rx(v42', ppp_got', to_bridge', base'.up, Total(guest')) BY DEF IInv
      <3>2. base' \in [down : 0..PppUnits, up : 0..GuestUnits] BY <3>1 DEF TypeOK
      <3>3. base'.up \in Nat BY <3>2, Constants
      <3> QED BY <3>1, <3>3 DEF TypeOK, Rx
    <2>0. Total(guest') \in Nat /\ guest'.base \in Nat /\ guest'.sent \in Nat
      <3>1. guest' \in Guests BY DEF IInv, TypeOK
      <3>2. guest'.base \in Nat /\ guest'.sent \in Nat BY <3>1, Constants DEF Guests
      <3> QED BY <3>2 DEF Total
    <2>3. Len(s) = n /\ n \in Nat BY <2>1, TakenIs
    <2>4. t = [i \in 1..m |-> i] /\ Len(t) = m /\ m \in Nat /\ (m = 0 => t = << >>) BY <2>2, TakenIs
    <2>5. o = Total(guest) - base.up /\ p = Total(guest') - base'.up
      <3> DEFINE b == guest.base
                 c == guest.sent
                 d == guest'.base
                 e == guest'.sent
                 f == base.up
                 g == base'.up
      <3>1. Total(guest) = b + c /\ Total(guest') = d + e BY DEF Total
      <3>2. {b, c, d, e, f, g} \subseteq Nat BY <2>0, <2>1, <2>2, Types DEF IInv
      <3>3. o = b + c - f /\ p = d + e - g OBVIOUS
      <3> HIDE DEF b, c, d, e, f, g, o, p
      <3>4. o = Total(guest) - f /\ p = Total(guest') - g BY <3>1, <3>2, <3>3
      <3> QED BY <3>4 DEF f, g
    <2>6. n <= o /\ o \in Nat
      <3> DEFINE b == base.up
                 x == Total(guest)
      <3>1. b + n <= x /\ x \in Nat /\ b \in Nat /\ o = x - b BY <2>1, <2>5, Types DEF IInv, Rx
      <3> HIDE DEF b, x, n, o
      <3> QED BY <2>3, <3>1
    <2>7. m <= p /\ p \in Nat
      <3> DEFINE b == base'.up
                 x == Total(guest')
      <3>2. b + m <= x /\ x \in Nat /\ b \in Nat /\ p = x - b BY <2>0, <2>2, <2>5 DEF IInv, Rx
      <3> HIDE DEF b, x, m, p
      <3> QED BY <2>4, <3>2
    <2>8. CASE UNCHANGED <<base, ppp_got>> /\ Total(guest) <= Total(guest')
      <3>1. t = s BY <2>8
      <3>2. o <= p
        <4> DEFINE b == base.up
                   x == Total(guest)
                   y == Total(guest')
        <4>1. x <= y /\ o = x - b /\ p = y - b /\ b \in Nat BY <2>1, <2>5, <2>8
        <4>2. x \in Nat /\ y \in Nat BY <2>0, Types DEF IInv
        <4> HIDE DEF b, x, y, o, p
        <4> QED BY <4>1, <4>2
      <3> HIDE DEF o, p, s, t
      <3>3. CASE p = o BY <3>1, <3>3 DEF Up!vars, o, p, s, t
      <3>4. CASE p # o
        <4>1. p > o /\ p \in Nat BY <2>6, <2>7, <3>2, <3>4
        <4> QED BY <3>1, <4>1 DEF Up!LinkNext, Up!Next, Up!Offer, o, p, s, t
      <3> QED BY <3>3, <3>4
    <2>9. CASE UNCHANGED base /\ Total(guest') = Total(guest) /\ Len(ppp_got') = Len(ppp_got) + 1
      <3>1. p = o BY <2>5, <2>9
      <3>2. m = n + 1 BY <2>9
      <3> HIDE DEF o, p, s, t, n, m
      <3>3. Len(t) \in Len(s) + 1 .. p /\ t = [i \in 1..Len(t) |-> i] /\ p \in Nat /\ p >= o
        BY <2>3, <2>4, <2>6, <2>7, <3>1, <3>2
      <3> QED BY <3>3 DEF Up!LinkNext, Up!Next, Up!Take, o, p, s, t
    <2>10. CASE ppp_got' = << >> /\ Total(guest') = base'.up
      <3>1. t = << >> BY <2>4, <2>10
      <3>2. p = 0 BY <2>2, <2>5, <2>10
      <3> HIDE DEF o, p, s, t
      <3> QED BY <3>1, <3>2 DEF Up!LinkNext, Up!Restart, o, p, s, t
    <2> QED BY <2>8, <2>9, <2>10, UpStep
  <1> QED BY <1>1, <1>2, Invariance, PTL DEF Spec, UpLink, Up!LinkSpec

-----------------------------------------------------------------------------
LEMMA DownStep ==
  ASSUME IInv, [Next]_vars
  PROVE  \/ UNCHANGED <<base, g_got>> /\ framed <= framed'
         \/ UNCHANGED <<base, framed>> /\ Len(g_got') = Len(g_got) + 1
         \/ g_got' = << >> /\ (UNCHANGED <<base, framed>> \/ framed' = base'.down)
  <1>0. framed \in Nat /\ g_got \in Seq(1..PppUnits) BY Types DEF IInv
  <1>1. ASSUME UNCHANGED <<base, g_got, framed>>
        PROVE  UNCHANGED <<base, g_got>> /\ framed <= framed'
    BY <1>0, <1>1
  <1>2. CASE v42_handle_frame
    <2> DEFINE f == Head(to_bridge)
    <2>1. UNCHANGED <<g_got, framed>> /\ guest' = guest /\ to_bridge # << >> BY <1>2 DEF v42_handle_frame
    <2>2. CASE f.type = "SABME" /\ HandleSabme
      <3>1. guest.st = "setup" BY <2>1, <2>2, HeardUp
      <3>2. g_got = << >> BY <3>1 DEF IInv, Peer
      <3>3. base'.down = framed BY <2>2 DEF HandleSabme
      <3> QED BY <2>1, <3>2, <3>3
    <2>3. CASE f.type = "XID" /\ HandleXid(f) BY <1>1, <2>1, <2>3 DEF HandleXid
    <2>4. CASE f.type = "DISC" /\ HandleDisc BY <1>1, <2>1, <2>4 DEF HandleDisc
    <2>5. CASE f.type \in {"RR", "RNR", "REJ", "SREJ"} /\ HandleSupervisory(f)
      BY <1>1, <2>1, <2>5, Zenon DEF HandleSupervisory
    <2>6. CASE f.type = "I" /\ HandleInformation(f) BY <1>1, <2>1, <2>6, Zenon DEF HandleInformation
    <2> QED BY <1>2, <2>2, <2>3, <2>4, <2>5, <2>6 DEF v42_handle_frame
  <1>3. CASE Pump
    <2>1. UNCHANGED <<base, g_got>> /\ framed' = framed + 1 BY <1>3 DEF Pump
    <2> QED BY <1>0, <2>1
  <1>4. CASE Poll BY <1>1, <1>4 DEF Poll
  <1>5. CASE PppQueues BY <1>1, <1>5 DEF PppQueues
  <1>6. CASE GuestSetsUp BY <1>6 DEF GuestSetsUp
  <1>7. ASSUME NEW w \in 1..MaxWindow, GuestNegotiates(w)
        PROVE  UNCHANGED <<base, g_got>> /\ framed <= framed'
    BY <1>1, <1>7 DEF GuestNegotiates
  <1>8. CASE GuestReleases BY <1>1, <1>8 DEF GuestReleases
  <1>9. CASE GuestSends BY <1>1, <1>9, Zenon DEF GuestSends
  <1>10. CASE GuestBacksUp BY <1>1, <1>10 DEF GuestBacksUp
  <1>11. CASE GuestReady BY <1>1, <1>11, Zenon DEF GuestReady
  <1>12. CASE GuestHears
    <2> DEFINE f == Head(to_guest)
    <2>1. UNCHANGED <<base, framed>> BY <1>12 DEF GuestHears
    <2>2. CASE GuestHearsInformation(f)
      <3>1. g_got' = g_got \/ g_got' = Append(g_got, f.arg) BY <2>2, Zenon DEF GuestHearsInformation
      <3>2. CASE g_got' = g_got BY <1>1, <2>1, <3>2
      <3>3. CASE g_got' = Append(g_got, f.arg)
        <4> DEFINE y == f.arg
        <4> HIDE DEF y
        <4>1. g_got' = Append(g_got, y) BY <3>3 DEF y
        <4>2. Len(g_got') = Len(g_got) + 1 BY <1>0, <4>1
        <4> QED BY <2>1, <4>2
      <3> QED BY <3>1, <3>2, <3>3
    <2>3. CASE GuestHearsSupervisory(f) BY <1>1, <2>1, <2>3, Zenon DEF GuestHearsSupervisory
    <2>4. CASE UNCHANGED g_got BY <1>1, <2>1, <2>4
    <2> QED BY <1>12, <2>2, <2>3, <2>4 DEF GuestHears
  <1>13. CASE LoseFrame BY <1>1, <1>13 DEF LoseFrame
  <1>14. CASE UNCHANGED vars BY <1>1, <1>14 DEF vars
  <1> QED BY <1>2, <1>3, <1>4, <1>5, <1>6, <1>7, <1>8, <1>9, <1>10, <1>11, <1>12, <1>13, <1>14 DEF Next

(* Towards the guest: go-back-N and the window give it the units of the      *)
(* connection once and in order.                                            *)
THEOREM DownLinkCorrect == Spec => DownLink
  <1>1. Init => Down!Init
    <2> SUFFICES ASSUME Init PROVE Down!Init OBVIOUS
    <2>1. framed = 0 /\ base.down = 0 /\ g_got = << >> BY DEF Init
    <2>2. Len(g_got) = 0 BY <2>1
    <2>3. [i \in 1..Len(g_got) |-> g_got[i] - base.down] = << >> BY <2>2
    <2> QED BY <2>1, <2>3 DEF Down!Init
  <1>2. IInv /\ IInv' /\ [Next]_vars => [Down!LinkNext]_(Down!vars)
    <2> SUFFICES ASSUME IInv, IInv', [Next]_vars PROVE [Down!LinkNext]_(Down!vars) OBVIOUS
    <2> DEFINE o == framed - base.down
               p == framed' - base'.down
               s == [i \in 1..Len(g_got) |-> g_got[i] - base.down]
               t == [i \in 1..Len(g_got') |-> g_got'[i] - base'.down]
               n == Len(g_got)
               m == Len(g_got')
    <2>1. /\ g_got \in Seq(1..PppUnits) /\ base.down \in Nat /\ framed \in Nat
          /\ \A i \in 1..Len(g_got) : g_got[i] = base.down + i
          /\ base.down + Len(g_got) <= framed
      BY Types DEF IInv, Peer
    <2>2. /\ g_got' \in Seq(1..PppUnits) /\ base'.down \in Nat /\ framed' \in Nat
          /\ \A i \in 1..Len(g_got') : g_got'[i] = base'.down + i
          /\ base'.down + Len(g_got') <= framed'
      <3>1. TypeOK' /\ Peer(guest', g_got', base'.down, framed') BY DEF IInv
      <3>2. base' \in [down : 0..PppUnits, up : 0..GuestUnits] /\ framed' \in Nat BY <3>1, Constants DEF TypeOK
      <3>3. base'.down \in Nat BY <3>2, Constants
      <3> QED BY <3>1, <3>2, <3>3 DEF TypeOK, Peer
    <2>3. Len(s) = n /\ n \in Nat BY <2>1, TakenIs
    <2>4. t = [i \in 1..m |-> i] /\ Len(t) = m /\ m \in Nat /\ (m = 0 => t = << >>) BY <2>2, TakenIs
    <2> DEFINE b == base.down
               c == base'.down
               x == framed
               y == framed'
    <2>5. /\ b \in Nat /\ c \in Nat /\ x \in Nat /\ y \in Nat /\ o = x - b /\ p = y - c
          /\ b + n <= x /\ c + m <= y /\ n \in Nat /\ m \in Nat
      BY <2>1, <2>2, <2>3, <2>4
    <2>6. n <= o /\ o \in Nat /\ m <= p /\ p \in Nat
      <3> HIDE DEF b, c, n, m, o, p, x, y
      <3> QED BY <2>5
    <2>7. CASE UNCHANGED <<base, g_got>> /\ framed <= framed'
      <3>1. t = s /\ b = c /\ x <= y BY <2>7
      <3> HIDE DEF o, p, s, t, b, c, x, y
      <3>2. o <= p BY <2>5, <3>1
      <3>3. CASE p = o BY <3>1, <3>3 DEF Down!vars, o, p, s, t
      <3>4. CASE p # o
        <4>1. p > o /\ p \in Nat BY <2>6, <3>2, <3>4
        <4> QED BY <3>1, <4>1 DEF Down!LinkNext, Down!Next, Down!Offer, o, p, s, t
      <3> QED BY <3>3, <3>4
    <2>8. CASE UNCHANGED <<base, framed>> /\ Len(g_got') = Len(g_got) + 1
      <3>1. p = o BY <2>8
      <3>2. m = n + 1 BY <2>8
      <3> HIDE DEF o, p, s, t, n, m
      <3>3. Len(t) \in Len(s) + 1 .. p /\ t = [i \in 1..Len(t) |-> i] /\ p \in Nat /\ p >= o
        BY <2>3, <2>4, <2>6, <3>1, <3>2
      <3> QED BY <3>3 DEF Down!LinkNext, Down!Next, Down!Take, o, p, s, t
    <2>9. CASE g_got' = << >> /\ (UNCHANGED <<base, framed>> \/ framed' = base'.down)
      <3>1. t = << >> BY <2>4, <2>9
      <3>2. p = o \/ p = 0
        <4>1. CASE UNCHANGED <<base, framed>> BY <4>1
        <4>2. CASE framed' = c
          <5>1. p = framed' - c /\ c \in Nat BY <2>5
          <5> HIDE DEF p, c
          <5> QED BY <4>2, <5>1
        <4> QED BY <2>9, <4>1, <4>2
      <3> HIDE DEF o, p, s, t
      <3> QED BY <3>1, <3>2 DEF Down!LinkNext, Down!Restart, o, p, s, t
    <2> QED BY <2>7, <2>8, <2>9, DownStep
  <1> QED BY <1>1, <1>2, Invariance, PTL DEF Spec, DownLink, Down!LinkSpec

-----------------------------------------------------------------------------
(* What liveness rests on: one REJ fetches all that is missing, one frame    *)
(* sent again is acknowledged for good.                                     *)

(* The number i after that of n is that of n + i.                           *)
LEMMA NumberPlus ==
  ASSUME NEW n \in Nat, NEW i \in Nat, i < Modulus
  PROVE  Number(Number(n) + i) = Number(n + i)
  <1> DEFINE x == Number(n)
  <1>1. x \in Nat /\ x < Modulus BY Reduced, Constants DEF Numbers
  <1>2. Number(n + i) = IF x + i < Modulus THEN x + i ELSE x + i - Modulus BY Moved
  <1> HIDE DEF x
  <1>3. x + i \in Nat /\ x + i < 2 * Modulus BY <1>1, Constants
  <1> DEFINE k == x + i
  <1> HIDE DEF k
  <1>4. k \in Nat /\ k < 2 * Modulus BY <1>3 DEF k
  <1>5. Number(k) = IF k < Modulus THEN k ELSE k - Modulus BY <1>4, Reduced, Constants
  <1>6. k - Modulus = x + i - Modulus BY <1>1, Constants DEF k
  <1>7. Number(k) = Number(n + i) BY <1>2, <1>5, <1>6 DEF k
  <1> QED BY <1>7 DEF k, x

Lacking == framed - base.down - Len(g_got)

(* The link after a number that is up to date: it holds what the guest lacks. *)
LEMMA AckUpToDate ==
  ASSUME IInv, guest.st = "up", NEW l, l = v42_ack_to(v42, Number(Len(g_got)))
  PROVE  /\ l \in Links /\ Tx(l, framed, base.down) /\ l.rx_seq = v42.rx_seq
         /\ l.tx_ack = Number(Len(g_got)) /\ Out(l) = Lacking
         /\ Lacking \in Nat /\ Lacking < Modulus
  <1> DEFINE nr == Number(Len(g_got))
             d == v42_seq_distance(v42.tx_ack, nr)
             o == Out(v42)
             k == Lacking
  <1>1. /\ v42 \in Links /\ framed \in Nat /\ base.down \in Nat /\ Len(g_got) \in Nat
        /\ Tx(v42, framed, base.down)
    BY Types DEF IInv
  <1>2. nr \in Numbers BY <1>1, Reduced
  <1>3. o - k \in Nat /\ o - k <= o /\ d = o - k /\ o \in Nat /\ o < Modulus /\ k \in Nat
    <2>1. Synced(guest, to_guest) BY DEF Synced
    <2> QED BY <2>1, Unheard DEF Lacking
  <1>4. /\ l \in Links /\ Tx(l, framed, base.down) /\ l.rx_seq = v42.rx_seq
        /\ d <= o => l.tx_ack = nr /\ Out(l) = o - d
    BY <1>1, <1>2, AckKeeps
  <1> HIDE DEF d, o, k, nr
  <1>5. d <= o /\ o - d = k /\ k < Modulus BY <1>3, Constants
  <1> QED BY <1>3, <1>4, <1>5 DEF k, nr

(* The slot i after that of the first frame the guest lacks.                 *)
LEMMA LackingIsStored ==
  ASSUME IInv, NEW l \in Links, Tx(l, framed, base.down), l.tx_ack = Number(Len(g_got)), Out(l) = Lacking,
         Lacking \in Nat, Lacking < Modulus, NEW i \in 1..Lacking
  PROVE  LET s == Number(Number(Len(g_got)) + i - 1)
         IN  s = Number(Len(g_got) + i - 1) /\ s \in Numbers /\ l.sent[s] = base.down + Len(g_got) + i
  <1> DEFINE a == Len(g_got)
             b == base.down
             t == framed
             n == a + i - 1
             e == t - b
             k == Lacking
  <1>1. t \in Nat /\ b \in Nat /\ a \in Nat /\ b + a <= t /\ k = t - b - a
    BY Types DEF IInv, Peer, Lacking
  <1>2. l.tx_seq = Number(e) BY DEF Tx
  <1>3. l.tx_ack = Number(a) /\ Out(l) = k /\ k \in Nat /\ k < Modulus /\ i \in 1..k OBVIOUS
  <1>4. \A s \in Numbers :
          l.sent[s] = IF v42_seq_distance(l.tx_ack, s) < Out(l) THEN t + 1 - v42_seq_distance(s, l.tx_seq) ELSE 0
    BY DEF Tx
  <1>5. Number(Number(a) + i - 1) = Number(n)
    <2>1. i - 1 \in Nat /\ i - 1 < Modulus BY <1>3, Constants
    <2>2. Number(a) \in Nat BY <1>1, Reduced, Constants DEF Numbers
    <2> DEFINE j == i - 1
    <2> HIDE DEF j
    <2>3. Number(Number(a) + j) = Number(a + j) BY <1>1, <2>1, NumberPlus DEF j
    <2> DEFINE x == Number(a)
    <2>4. x + i - 1 = x + j /\ a + i - 1 = a + j
      <3> HIDE DEF a, x
      <3> QED BY <1>1, <1>3, <2>2 DEF j, x
    <2> QED BY <2>3, <2>4
  <1> HIDE DEF a, b, t, k
  <1>6. n \in Nat /\ a <= n /\ n - a = i - 1 /\ n - a < Modulus /\ i - 1 < k BY <1>1, <1>3, Constants
  <1>7. e \in Nat /\ n <= e /\ e - n < Modulus /\ t + 1 - (e - n) = b + a + i BY <1>1, <1>3, Constants
  <1> HIDE DEF n, e
  <1>8. Number(n) \in Numbers BY <1>6, Reduced
  <1>9. v42_seq_distance(Number(a), Number(n)) = n - a BY <1>1, <1>6, Between
  <1>10. v42_seq_distance(Number(n), Number(e)) = e - n BY <1>6, <1>7, Between
  <1>11. l.sent[Number(n)] = b + a + i BY <1>2, <1>3, <1>4, <1>6, <1>7, <1>8, <1>9, <1>10
  <1> QED BY <1>5, <1>8, <1>11 DEF a, b, n

RejectFetches ==
  [][v42_handle_frame /\ guest.st = "up" /\ Head(to_bridge).type = "REJ"
       /\ Head(to_bridge).nr = Number(Len(g_got)) =>
     to_guest' = to_guest \o
       [i \in 1..Lacking |-> IFrame(Number(Len(g_got) + i - 1), v42.rx_seq, base.down + Len(g_got) + i)]]_vars

(* A REJ with the number the guest now waits for is answered by exactly what *)
(* it lacks: every unit framed and not accepted, from that number on and in  *)
(* order, each under its own number, and nothing else; what the frame        *)
(* acknowledges first (v42_ack_to) never costs a frame that it asks for.     *)
THEOREM RejectsFetchAll == Spec => RejectFetches
  <1>1. ASSUME IInv, v42_handle_frame, guest.st = "up", Head(to_bridge).type = "REJ",
               Head(to_bridge).nr = Number(Len(g_got))
        PROVE  to_guest' = to_guest \o
                 [i \in 1..Lacking |-> IFrame(Number(Len(g_got) + i - 1), v42.rx_seq, base.down + Len(g_got) + i)]
    <2> DEFINE nr == Number(Len(g_got))
               l == v42_ack_to(v42, nr)
               want(i) == IFrame(Number(Len(g_got) + i - 1), v42.rx_seq, base.down + Len(g_got) + i)
               has(i) == IFrame(Number(nr + i - 1), l.rx_seq, l.sent[Number(nr + i - 1)])
    <2>1. HandleSupervisory(Head(to_bridge)) BY <1>1 DEF v42_handle_frame
    <2>2. to_guest' = to_guest \o v42_retransmit_from(l, nr)
      <3> DEFINE f == Head(to_bridge)
                 h == v42_ack_to(v42, f.nr)
                 r == CASE f.type = "REJ" -> v42_retransmit_from(h, f.nr)
                        [] f.type = "SREJ" /\ h.sent[f.nr] # 0 -> <<IFrame(f.nr, h.rx_seq, h.sent[f.nr])>>
                        [] OTHER -> << >>
      <3>1. to_guest' = to_guest \o r BY <2>1 DEF HandleSupervisory
      <3>2. r = v42_retransmit_from(h, f.nr) BY <1>1
      <3>3. f.nr = nr BY <1>1
      <3>4. h = l BY <3>3
      <3> HIDE DEF f, h, r, l, nr
      <3> QED BY <3>1, <3>2, <3>3, <3>4
    <2>3. /\ l \in Links /\ Tx(l, framed, base.down) /\ l.rx_seq = v42.rx_seq
          /\ l.tx_ack = nr /\ Out(l) = Lacking /\ Lacking \in Nat /\ Lacking < Modulus
      BY <1>1, AckUpToDate
    <2>4. nr \in Numbers /\ nr \in Nat
      <3>1. Len(g_got) \in Nat BY <1>1, Types DEF IInv
      <3> QED BY <3>1, Reduced, Constants DEF Numbers
    <2> HIDE DEF l
    <2>5. \A i \in 1..Lacking : has(i) = want(i)
      <3> SUFFICES ASSUME NEW i \in 1..Lacking PROVE has(i) = want(i) OBVIOUS
      <3> DEFINE s == Number(nr + i - 1)
      <3>1. s = Number(Len(g_got) + i - 1) /\ l.sent[s] = base.down + Len(g_got) + i
        BY <1>1, <2>3, LackingIsStored
      <3> QED BY <2>3, <3>1
    <2>6. v42_retransmit_from(l, nr) = [i \in 1..Lacking |-> has(i)]
      <3>1. v42_seq_distance(nr, l.tx_ack) = 0
        <4>1. v42_seq_distance(nr, nr) = IF nr >= nr THEN nr - nr ELSE nr - nr + Modulus BY <2>4, Distance
        <4> HIDE DEF nr
        <4>2. v42_seq_distance(nr, nr) = 0 BY <2>4, <4>1
        <4> QED BY <2>3, <4>2
      <3>2. v42_seq_distance(nr, l.tx_seq) = Lacking BY <2>3 DEF Out
      <3> DEFINE skipped == IF l.sent[nr] = 0 THEN v42_seq_distance(nr, l.tx_ack) ELSE 0
                 seq(i) == Number(nr + skipped + i - 1)
      <3>3. skipped = 0 BY <3>1
      <3>4. v42_retransmit_from(l, nr) =
              [i \in 1..v42_seq_distance(nr, l.tx_seq) - skipped |-> IFrame(seq(i), l.rx_seq, l.sent[seq(i)])]
        BY DEF v42_retransmit_from
      <3> HIDE DEF skipped, nr
      <3>5. \A i \in 1..Lacking : nr + skipped + i - 1 = nr + i - 1 BY <2>3, <2>4, <3>3
      <3>6. v42_seq_distance(nr, l.tx_seq) - skipped = Lacking
        <4> DEFINE k == Lacking
        <4>1. k \in Nat /\ v42_seq_distance(nr, l.tx_seq) = k BY <2>3, <3>2
        <4> HIDE DEF k
        <4>2. v42_seq_distance(nr, l.tx_seq) - skipped = k BY <3>3, <4>1
        <4> QED BY <4>2 DEF k
      <3>7. \A i \in 1..Lacking : seq(i) = Number(nr + i - 1) BY <3>5
      <3>8. v42_retransmit_from(l, nr) = [i \in 1..Lacking |-> IFrame(seq(i), l.rx_seq, l.sent[seq(i)])]
        BY <3>4, <3>6
      <3> HIDE DEF seq
      <3> QED BY <3>7, <3>8
    <2>7. v42_retransmit_from(l, nr) = [i \in 1..Lacking |-> want(i)]
      <3> HIDE DEF has, want
      <3> QED BY <2>5, <2>6
    <2> QED BY <2>2, <2>7
  <1>2. IInv /\ [Next]_vars => [v42_handle_frame /\ guest.st = "up" /\ Head(to_bridge).type = "REJ"
            /\ Head(to_bridge).nr = Number(Len(g_got)) =>
          to_guest' = to_guest \o
            [i \in 1..Lacking |-> IFrame(Number(Len(g_got) + i - 1), v42.rx_seq, base.down + Len(g_got) + i)]]_vars
    BY <1>1
  <1> QED BY <1>2, Invariance, PTL DEF Spec, RejectFetches

ResendAnswered ==
  [][v42_handle_frame /\ guest.st = "up" /\ Head(to_bridge).type = "I"
       /\ Head(to_bridge).arg = guest.base + guest.acked + 1 =>
     LET nr == to_guest'[Len(to_guest')].nr
     IN  /\ Acked(nr) > guest.acked
         /\ guest.base + Acked(nr) = base.up + Len(ppp_got')]_vars

(* The frame the guest backs up to, its first without an acknowledgement, is *)
(* answered by one that goes further, up to all that PPP has: the frame is   *)
(* taken if its number is due, and if PPP had it before, the REJ that        *)
(* answers the stray frame says so.                                         *)
THEOREM ResendsAreAnswered == Spec => ResendAnswered
  <1>1. ASSUME IInv, v42_handle_frame, guest.st = "up", Head(to_bridge).type = "I",
               Head(to_bridge).arg = guest.base + guest.acked + 1
        PROVE  LET nr == to_guest'[Len(to_guest')].nr
               IN  /\ Acked(nr) > guest.acked
                   /\ guest.base + Acked(nr) = base.up + Len(ppp_got')
    <2> DEFINE f == Head(to_bridge)
               in == f.ns = v42.rx_seq
               n == Len(ppp_got)
               got == IF in THEN n + 1 ELSE n
               c == guest.acked
               b == base.up
               s == guest.sent
               m == [v42_ack_to(v42, f.nr) EXCEPT
                       !.phase = "connected", !.rx_seq = IF InOrder(v42, f) THEN Advance(@) ELSE @]
               x == SFrame(IF in THEN "RR" ELSE "REJ", m.rx_seq, 0)
    <2>0. Synced(guest, to_guest) BY <1>1 DEF Synced
    <2>1. HandleInformation(f) /\ to_bridge # << >> BY <1>1 DEF v42_handle_frame
    <2>2. /\ n \in Nat /\ c \in Nat /\ b \in Nat /\ s \in Nat /\ v42 \in Links
          /\ to_guest \in Seq(Any) /\ ppp_got \in Seq(1..GuestUnits)
      BY <1>1, Types DEF IInv
    <2>3. f \in Any /\ 1 \in Live(to_bridge) /\ f = to_bridge[1] BY <1>1, <2>1, HeardUp
    <2>4. guest.base = b /\ c <= n /\ s <= c + GuestWindow BY <1>1, <2>0 DEF IInv, Agree, Peer
    <2>5. v42.rx_seq = Number(n) /\ b + n <= b + s /\ InWindow(to_bridge, b, Total(guest), GuestWindow, n)
      BY <1>1, <2>4 DEF IInv, Rx, Total
    <2>6. in => b + (n + 1) <= b + s BY <1>1, <2>1, <2>4, ExpectedIsNext DEF Total
    <2>7. f.ns = Number(c)
      <3>1. f.ns = Number(f.arg - b - 1) BY <1>1, <2>3, <2>5 DEF InWindow
      <3>2. f.arg = b + c + 1 BY <1>1, <2>4
      <3> HIDE DEF b, c, f
      <3>3. f.arg - b - 1 = c BY <2>2, <3>2
      <3> QED BY <3>1, <3>3
    <2>8. v42_ack_to(v42, f.nr).rx_seq = v42.rx_seq /\ v42_ack_to(v42, f.nr) \in Links
      <3>1. f.type \in Numbered BY <1>1 DEF Numbered
      <3> QED BY <1>1, <2>1, <3>1, AckHeard
    <2>9. m.rx_seq = IF in THEN Advance(v42.rx_seq) ELSE v42.rx_seq
      BY <2>8 DEF Links, InOrder
    <2>10. m.rx_seq = Number(got) BY <2>2, <2>5, <2>9, AdvanceNumber
    <2>11. to_guest' = to_guest \o <<x>> /\ ppp_got' = (IF in THEN Append(ppp_got, f.arg) ELSE ppp_got)
      <3>1. Answer(m, f) = <<x>> BY DEF Answer, InOrder
      <3>2. to_guest' = to_guest \o Answer(m, f) BY <2>1, Zenon DEF HandleInformation
      <3>3. ppp_got' = (IF in THEN Append(ppp_got, f.arg) ELSE ppp_got) BY <2>1, Zenon DEF HandleInformation, InOrder
      <3> QED BY <3>1, <3>2, <3>3
    <2> HIDE DEF m
    <2>12. got \in Nat /\ c < got /\ got <= s /\ got - c < Modulus
      <3>1. in \/ n # c BY <2>5, <2>7
      <3> HIDE DEF f, in, n, c, b, s
      <3>2. got \in Nat /\ c < got /\ got <= s BY <2>2, <2>4, <2>5, <2>6, <3>1
      <3> HIDE DEF got
      <3> QED BY <2>2, <2>4, <3>2, Constants
    <2>13. Len(ppp_got') = got
      <3>1. CASE in
        <4> DEFINE y == f.arg
        <4> HIDE DEF y
        <4>1. ppp_got' = Append(ppp_got, y) /\ got = n + 1 BY <2>11, <3>1 DEF y
        <4> QED BY <2>2, <4>1
      <3>2. CASE ~in BY <2>11, <3>2
      <3> QED BY <3>1, <3>2
    <2> HIDE DEF got
    <2>14. to_guest'[Len(to_guest')].nr = Number(got)
      <3>1. x.nr = Number(got) BY <2>10 DEF SFrame, Frame
      <3> HIDE DEF x
      <3>2. to_guest'[Len(to_guest')] = x BY <2>2, <2>11
      <3> QED BY <3>1, <3>2
    <2>15. Acked(Number(got)) = got
      <3> DEFINE d == v42_seq_distance(Number(c), Number(got))
      <3>1. Acked(Number(got)) = IF c + d <= s THEN c + d ELSE c BY DEF Acked
      <3> HIDE DEF c, s, d
      <3>2. d = got - c BY <2>2, <2>12, Between DEF d
      <3>3. c + d = got BY <2>2, <2>12, <3>2
      <3> QED BY <2>12, <3>1, <3>3
    <2>16. base.up = guest.base BY <2>4
    <2>17. got > c
      <3> HIDE DEF c
      <3> QED BY <2>2, <2>12
    <2> QED BY <2>13, <2>14, <2>15, <2>16, <2>17
  <1>2. IInv /\ [Next]_vars =>
          [v42_handle_frame /\ guest.st = "up" /\ Head(to_bridge).type = "I"
             /\ Head(to_bridge).arg = guest.base + guest.acked + 1 =>
           LET nr == to_guest'[Len(to_guest')].nr
           IN  /\ Acked(nr) > guest.acked
               /\ guest.base + Acked(nr) = base.up + Len(ppp_got')]_vars
    BY <1>1
  <1> QED BY <1>2, Invariance, PTL DEF Spec, ResendAnswered
=============================================================================
