----------------------------- MODULE NatLemmas ------------------------------
(***************************************************************************)
(* Facts about natural numbers that the proofs about the decoder and the   *)
(* encoder share: least and greatest elements, intervals, and division     *)
(* with remainder.                                                         *)
(***************************************************************************)
EXTENDS Integers, FiniteSets, FiniteSetTheorems, WellFoundedInduction, TLAPS

(* A non-empty set of naturals has a least element. *)
LEMMA LeastElement ==
  ASSUME NEW S, S \subseteq Nat, S # {}
  PROVE  \E x \in S : \A y \in S : x <= y
<1>1. PICK x \in S : \A y \in S : ~(<<y, x>> \in OpToRel(<, Nat))
  BY NatLessThanWellFounded, WFMin, Zenon
<1>2. \A y \in S : ~(y < x)
  BY <1>1, Zenon DEF OpToRel
<1>. QED  BY <1>2

(* A non-empty set of naturals below a bound has a greatest element. *)
LEMMA GreatestElement ==
  ASSUME NEW S, S \subseteq Nat, S # {}, NEW b \in Nat, \A x \in S : x < b
  PROVE  \E x \in S : \A y \in S : y <= x
<1>. DEFINE U == {u \in Nat : \A x \in S : x <= u}
<1>1. U \subseteq Nat /\ b \in U  OBVIOUS
<1>2. \E u \in U : \A v \in U : u <= v
  <2>. HIDE DEF U
  <2>. QED  BY <1>1, LeastElement
<1>3. PICK u \in U : \A v \in U : u <= v  BY <1>2
<1>4. u \in S
  <2>. SUFFICES ASSUME u \notin S PROVE FALSE  OBVIOUS
  <2>1. \A x \in S : x \in Nat /\ x < u  BY <1>3
  <2>2. u \in Nat /\ u > 0
    <3>1. PICK y \in S : TRUE  OBVIOUS
    <3>. QED  BY <1>3, <2>1, <3>1
  <2>3. u - 1 \in U  BY <2>1, <2>2
  <2>. QED  BY <1>3, <2>2, <2>3
<1>. QED  BY <1>3, <1>4

(* Division with remainder. *)
LEMMA DivMod ==
  ASSUME NEW x \in Nat, NEW d \in Nat \ {0}
  PROVE  /\ x \div d \in Nat /\ x % d \in 0..(d - 1)
         /\ x = d * (x \div d) + (x % d)
BY Z3

(* A multiple of d strictly between -d and d is zero. *)
LEMMA SmallMultiple ==
  ASSUME NEW d \in Nat \ {0}, NEW k \in Int, -d < d * k, d * k < d
  PROVE  k = 0
<1>1. CASE k >= 1
  <2>1. k - 1 \in Nat  BY <1>1
  <2>2. d * (k - 1) >= 0  BY <2>1
  <2>3. d * k = d * (k - 1) + d  OBVIOUS
  <2>. QED  BY <2>2, <2>3
<1>2. CASE k <= -1
  <2>1. -k - 1 \in Nat  BY <1>2
  <2>2. d * (-k - 1) >= 0  BY <2>1
  <2>3. d * k = -(d * (-k - 1)) - d  OBVIOUS
  <2>. QED  BY <2>2, <2>3
<1>. QED  BY <1>1, <1>2

(* The remainder is the one number below the divisor that differs from the *)
(* dividend by a multiple of it.                                           *)
LEMMA ModUnique ==
  ASSUME NEW d \in Nat \ {0}, NEW q \in Nat, NEW r \in 0..(d - 1)
  PROVE  (d * q + r) % d = r
<1>. DEFINE x == d * q + r
            k == q - (x \div d)
<1>1. x \in Nat  OBVIOUS
<1>2. /\ x \div d \in Nat /\ x % d \in 0..(d - 1)
      /\ x = d * (x \div d) + (x % d)
  <2>. HIDE DEF x
  <2>. QED  BY <1>1, DivMod
<1>3. d * k = (x % d) - r
  <2>1. d * k = d * q - d * (x \div d)
    <3>1. x \div d \in Int /\ q \in Int  BY <1>2
    <3>. HIDE DEF x
    <3>. QED  BY <3>1
  <2>. QED  BY <1>2, <2>1
<1>4. k \in Int  BY <1>2
<1>5. -d < d * k /\ d * k < d
  <2>. HIDE DEF k, x
  <2>. QED  BY <1>2, <1>3
<1>6. k = 0
  <2>. HIDE DEF k
  <2>. QED  BY <1>4, <1>5, SmallMultiple
<1>7. d * k = 0
  <2>. HIDE DEF k
  <2>. QED  BY <1>6
<1>. QED  BY <1>2, <1>3, <1>7

(* A number below the divisor is its own remainder. *)
LEMMA ModSmall ==
  ASSUME NEW d \in Nat \ {0}, NEW r \in 0..(d - 1)
  PROVE  r % d = r
<1>1. (d * 0 + r) % d = r  BY ModUnique
<1>. QED  BY <1>1

(* The number of elements of a..(b-1). *)
LEMMA IntervalSize ==
  ASSUME NEW a \in Nat, NEW b \in Nat, a <= b
  PROVE  IsFiniteSet(a..(b - 1)) /\ Cardinality(a..(b - 1)) = b - a
<1>1. /\ IsFiniteSet(a..(b - 1))
      /\ Cardinality(a..(b - 1)) = IF a > b - 1 THEN 0 ELSE (b - 1) - a + 1
  BY FS_Interval
<1>. QED  BY <1>1

(* Two counters p and g, of c and of G values, have counted to u. *)
CountersAt(c, G, p, g, u) == p + c * g = u % (c * G)

(* Two counters of which the second advances when the first wraps count    *)
(* modulo the product of their sizes.                                      *)
LEMMA CountersAdvance ==
  ASSUME NEW c \in Nat \ {0}, NEW G \in Nat \ {0},
         NEW p \in 0..(c - 1), NEW g \in 0..(G - 1), NEW n \in Nat, NEW u \in Nat,
         CountersAt(c, G, p, g, u)
  PROVE  CountersAt(c, G, (p + n) % c, (g + ((p + n) \div c)) % G, u + n)
<1>. DEFINE x  == p + n
            xd == x \div c
            xm == x % c
            y  == g + xd
            yd == y \div G
            ym == y % G
            P  == c * G
            ud == u \div P
            r  == xm + c * ym
<1>1. x \in Nat  OBVIOUS
<1>2. P \in Nat \ {0}  OBVIOUS
<1>. HIDE DEF x, P
<1>3. xd \in Nat /\ xm \in 0..(c - 1) /\ x = c * xd + xm  BY <1>1, DivMod
<1>. HIDE DEF xd, xm
<1>4. y \in Nat  BY <1>3
<1>5. yd \in Nat /\ ym \in 0..(G - 1) /\ y = G * yd + ym
  <2>. HIDE DEF y
  <2>. QED  BY <1>4, DivMod
<1>6. ud \in Nat /\ u = P * ud + (p + c * g)  BY <1>2, DivMod DEF P, CountersAt
<1>. HIDE DEF yd, ym, ud
<1>7. r \in 0..(P - 1)
  <2>1. c * ym \in Nat /\ c * (G - 1 - ym) \in Nat  BY <1>5
  <2>2. c * (G - 1 - ym) = c * G - c - c * ym  BY <1>5
  <2>. QED  BY <1>3, <2>1, <2>2 DEF P
<1>8. u + n = P * (ud + yd) + r
  <2>1. p + n = c * xd + xm  BY <1>3 DEF x
  <2>2. c * g + c * xd = c * y  BY <1>3
  <2>3. c * y = P * yd + c * ym
    <3>1. c * (G * yd + ym) = c * (G * yd) + c * ym  BY <1>5
    <3>2. c * (G * yd) = (c * G) * yd  BY <1>5
    <3>. QED  BY <1>5, <3>1, <3>2 DEF P
  <2>4. P * (ud + yd) = P * ud + P * yd  BY <1>2, <1>5, <1>6
  <2>5. /\ c * g \in Int /\ c * xd \in Int /\ c * y \in Int /\ c * ym \in Int
        /\ P * ud \in Int /\ P * yd \in Int
    BY <1>2, <1>3, <1>4, <1>5, <1>6
  <2>. HIDE DEF y
  <2>. QED  BY <1>3, <1>6, <2>1, <2>2, <2>3, <2>4, <2>5
<1>9. (P * (ud + yd) + r) % P = r
  <2>1. ud + yd \in Nat  BY <1>5, <1>6
  <2>. HIDE DEF r
  <2>. QED  BY <1>2, <1>7, <2>1, ModUnique
<1>. QED  BY <1>8, <1>9 DEF x, xd, xm, y, ym, P, CountersAt
=============================================================================
