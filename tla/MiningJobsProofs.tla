-------------------------- MODULE MiningJobsProofs --------------------------
(***************************************************************************)
(* Proofs about the jobs of a client, for every size of the ring and every *)
(* number of goroutines.                                                   *)
(***************************************************************************)
EXTENDS MiningJobs, TLAPS, WellFoundedInduction, SequenceTheorems

-----------------------------------------------------------------------------
(* Induction and recursion.  The induction theorems of the library have an *)
(* operator as parameter; these speak of sets and functions instead.       *)

(* A set of natural numbers that is not empty has a least element. *)
LEMMA NatMin ==
    ASSUME NEW S \in SUBSET Nat, S # {}
    PROVE  \E m \in S : \A k \in S : m <= k
<1>1. PICK m \in S : \A y \in S : ~(<<y, m>> \in OpToRel(<, Nat))
  BY NatLessThanWellFounded, WFMin, Zenon
<1>2. \A y \in S : ~(y < m)
  BY <1>1 DEF OpToRel
<1> QED
  BY <1>2

(* Induction up to n, on sets. *)
LEMMA InductionUpTo ==
    ASSUME NEW n \in Nat, NEW S, 0 \in S, \A i \in 0 .. n - 1 : i \in S => i + 1 \in S
    PROVE  \A i \in 0 .. n : i \in S
<1> SUFFICES ASSUME (0 .. n) \ S # {} PROVE FALSE
  OBVIOUS
<1>0. (0 .. n) \ S \in SUBSET Nat
  OBVIOUS
<1>1. PICK m \in (0 .. n) \ S : \A k \in (0 .. n) \ S : m <= k
  <2> DEFINE R == (0 .. n) \ S
  <2> HIDE DEF R
  <2> QED
    BY <1>0, NatMin DEF R
<1>2. m # 0 /\ m - 1 \in 0 .. n - 1
  BY <1>1
<1>3. m - 1 \in S
  BY <1>1, <1>2
<1> QED
  BY <1>1, <1>2, <1>3

(* A function can be defined by recursion up to n. *)
LEMMA RecursionUpTo ==
    ASSUME NEW n \in Nat, NEW c \in Nat, NEW F \in [Nat \X (1 .. n) -> Nat]
    PROVE  \E f \in [0 .. n -> Nat] : f[0] = c /\ \A i \in 1 .. n : f[i] = F[<<f[i - 1], i>>]
<1> DEFINE Up(k, f) == f[0] = c /\ \A i \in 1 .. k : f[i] = F[<<f[i - 1], i>>]
           T == {k \in 0 .. n : \E f \in [0 .. k -> Nat] : Up(k, f)}
<1>1. 0 \in T
  <2>1. [i \in 0 .. 0 |-> c] \in [0 .. 0 -> Nat] /\ Up(0, [i \in 0 .. 0 |-> c])
    OBVIOUS
  <2> HIDE DEF Up
  <2>2. 0 \in 0 .. n /\ \E f \in [0 .. 0 -> Nat] : Up(0, f)
    BY <2>1
  <2> QED
    BY <2>2
<1>2. ASSUME NEW k \in 0 .. n - 1, k \in T PROVE k + 1 \in T
  <2>1. PICK f \in [0 .. k -> Nat] : Up(k, f)
    BY <1>2
  <2> DEFINE g == [i \in 0 .. k + 1 |-> IF i <= k THEN f[i] ELSE F[<<f[k], k + 1>>]]
  <2>2. F[<<f[k], k + 1>>] \in Nat
    OBVIOUS
  <2>3. g \in [0 .. k + 1 -> Nat]
    BY <2>2
  <2>4. ASSUME NEW i \in 1 .. k + 1 PROVE g[i] = F[<<g[i - 1], i>>]
    <3>1. CASE i <= k
      BY <2>1, <3>1
    <3>2. CASE i = k + 1
      <4>1. g[i] = F[<<f[k], i>>] /\ g[i - 1] = f[k]
        BY <3>2
      <4> HIDE DEF g
      <4> QED
        BY <4>1
    <3> QED
      BY <3>1, <3>2
  <2>5. g[0] = c
    BY <2>1
  <2> HIDE DEF g
  <2>7. Up(k + 1, g)
    BY <2>4, <2>5
  <2> HIDE DEF Up
  <2>6. k + 1 \in 0 .. n /\ \E h \in [0 .. k + 1 -> Nat] : Up(k + 1, h)
    BY <2>3, <2>7
  <2> QED
    BY <2>6
<1>3. n \in T
  <2> HIDE DEF T
  <2> QED
    BY <1>1, <1>2, InductionUpTo
<1> QED
  BY <1>3

-----------------------------------------------------------------------------
(* Digits.                                                                 *)

(* Division with remainder, and that it has one result. *)
LEMMA DivMod ==
    ASSUME NEW m \in Nat, m > 0, NEW k \in Nat
    PROVE  /\ k \div m \in Nat /\ k % m \in 0 .. m - 1
           /\ k = m * (k \div m) + (k % m)
  BY SMTT(20)

LEMMA DivModUnique ==
    ASSUME NEW m \in Nat, m > 0, NEW q \in Nat, NEW r \in 0 .. m - 1
    PROVE  (q * m + r) \div m = q /\ (q * m + r) % m = r
  BY SMTT(20)

(* A step of the evaluation of digits stays in the naturals. *)
LEMMA HornerNat ==
    ASSUME NEW a \in Nat, NEW b \in Nat, NEW c \in Nat PROVE a * b + c \in Nat
<1>1. a * b \in Nat
  OBVIOUS
<1> QED
  BY <1>1

(* What NumbersUpTo and Quotients are by their recursive definitions. *)
IsUpTo(base, N, s, u) ==
    /\ u \in [0 .. N -> Nat]
    /\ u[0] = 0 /\ \A i \in 1 .. N : u[i] = u[i - 1] * base + s[i]

AreQuotients(base, N, v, q) ==
    /\ q \in [0 .. N -> Nat]
    /\ q[0] = v /\ \A i \in 1 .. N : q[i] = q[i - 1] \div base

(* NumbersUpTo is defined by its recursion. *)
LEMMA NumbersUpToRec ==
    ASSUME NEW base \in Nat, NEW N \in Nat, NEW s \in [1 .. N -> Nat]
    PROVE  IsUpTo(base, N, s, NumbersUpTo(base, s))
<1> DEFINE F == [p \in Nat \X (1 .. N) |-> p[1] * base + s[p[2]]]
           Step(f) == [n \in 0 .. Len(s) |-> IF n = 0 THEN 0 ELSE f[n - 1] * base + s[n]]
<1>0. Len(s) = N
  OBVIOUS
<1>1. F \in [Nat \X (1 .. N) -> Nat]
  OBVIOUS
<1>2. PICK f \in [0 .. N -> Nat] : f[0] = 0 /\ \A i \in 1 .. N : f[i] = F[<<f[i - 1], i>>]
  <2> HIDE DEF F
  <2>1. 0 \in Nat
    OBVIOUS
  <2> QED
    BY <1>1, <2>1, RecursionUpTo, Zenon
<1>3. f = Step(f)
  <2>1. ASSUME NEW i \in 1 .. N PROVE f[i] = f[i - 1] * base + s[i]
    <3>1. i - 1 \in 0 .. N
      OBVIOUS
    <3>2. <<f[i - 1], i>> \in Nat \X (1 .. N)
      BY <3>1
    <3> QED
      BY <1>2, <3>2
  <2> QED
    BY <1>0, <1>2, <2>1
<1> DEFINE u == NumbersUpTo(base, s)
<1>4. u = Step(u)
  <2> HIDE DEF Step
  <2>1. u = CHOOSE h : h = Step(h)
    BY DEF NumbersUpTo, Step
  <2> QED
    BY <1>3, <2>1
<1> HIDE DEF u
<1>5. u[0] = 0 /\ \A i \in 1 .. N : u[i] = u[i - 1] * base + s[i]
  BY <1>0, <1>4
<1>6. \A i \in 0 .. N : u[i] \in Nat
  <2> DEFINE T == {i \in 0 .. N : u[i] \in Nat}
  <2>1. 0 \in T
    BY <1>5
  <2>2. ASSUME NEW i \in 0 .. N - 1, i \in T PROVE i + 1 \in T
    <3>1. i + 1 \in 1 .. N /\ (i + 1) - 1 = i
      OBVIOUS
    <3>2. u[i + 1] = u[i] * base + s[i + 1] /\ s[i + 1] \in Nat /\ u[i] \in Nat
      BY <1>5, <2>2, <3>1
    <3>3. u[i] * base + s[i + 1] \in Nat
      BY <3>2, HornerNat
    <3>4. u[i + 1] \in Nat
      BY <3>2, <3>3
    <3> QED
      BY <3>1, <3>4
  <2> HIDE DEF T
  <2>3. \A i \in 0 .. N : i \in T
    BY <2>1, <2>2, InductionUpTo
  <2> QED
    BY <2>3 DEF T
<1>7. u \in [0 .. N -> Nat]
  BY <1>0, <1>4, <1>6
<1> QED
  BY <1>5, <1>7 DEF u, IsUpTo

(* So are Quotients. *)
LEMMA QuotientsRec ==
    ASSUME NEW base \in Nat, base > 0, NEW N \in Nat, NEW v \in Nat
    PROVE  AreQuotients(base, N, v, Quotients(base, N, v))
<1> DEFINE F == [p \in Nat \X (1 .. N) |-> p[1] \div base]
           Step(f) == [n \in 0 .. N |-> IF n = 0 THEN v ELSE f[n - 1] \div base]
<1>1. F \in [Nat \X (1 .. N) -> Nat]
  BY DivMod
<1>2. PICK f \in [0 .. N -> Nat] : f[0] = v /\ \A i \in 1 .. N : f[i] = F[<<f[i - 1], i>>]
  <2> HIDE DEF F
  <2> QED
    BY <1>1, RecursionUpTo, Zenon
<1>3. f = Step(f)
  <2>1. ASSUME NEW i \in 1 .. N PROVE f[i] = f[i - 1] \div base
    <3>1. i - 1 \in 0 .. N
      OBVIOUS
    <3>2. <<f[i - 1], i>> \in Nat \X (1 .. N)
      BY <3>1
    <3> QED
      BY <1>2, <3>2
  <2> QED
    BY <1>2, <2>1
<1> DEFINE u == Quotients(base, N, v)
<1>4. u = Step(u)
  <2> HIDE DEF Step
  <2>1. u = CHOOSE h : h = Step(h)
    BY DEF Quotients, Step
  <2> QED
    BY <1>3, <2>1
<1> HIDE DEF u
<1>5. u[0] = v /\ \A i \in 1 .. N : u[i] = u[i - 1] \div base
  BY <1>4
<1>6. \A i \in 0 .. N : u[i] \in Nat
  <2> DEFINE T == {i \in 0 .. N : u[i] \in Nat}
  <2>1. 0 \in T
    BY <1>5
  <2>2. ASSUME NEW i \in 0 .. N - 1, i \in T PROVE i + 1 \in T
    <3>1. i + 1 \in 1 .. N /\ (i + 1) - 1 = i
      OBVIOUS
    <3>2. u[i + 1] = u[i] \div base /\ u[i] \in Nat
      BY <1>5, <2>2, <3>1
    <3>3. u[i] \div base \in Nat
      BY <3>2, DivMod
    <3>4. u[i + 1] \in Nat
      BY <3>2, <3>3
    <3> QED
      BY <3>1, <3>4
  <2> HIDE DEF T
  <2>3. \A i \in 0 .. N : i \in T
    BY <2>1, <2>2, InductionUpTo
  <2> QED
    BY <2>3 DEF T
<1>7. u \in [0 .. N -> Nat]
  BY <1>4, <1>6
<1> QED
  BY <1>5, <1>7 DEF u, AreQuotients

(* The quotients do not depend on how many are taken. *)
LEMMA QuotientsAgree ==
    ASSUME NEW base \in Nat, base > 0, NEW M \in Nat, NEW N \in Nat, M <= N, NEW v \in Nat,
           NEW k \in 0 .. M
    PROVE  Quotients(base, M, v)[k] = Quotients(base, N, v)[k]
<1> DEFINE p == Quotients(base, M, v)
           q == Quotients(base, N, v)
           T == {i \in 0 .. M : p[i] = q[i]}
<1>1. p[0] = v /\ \A i \in 1 .. M : p[i] = p[i - 1] \div base
  BY QuotientsRec DEF AreQuotients
<1>2. q[0] = v /\ \A i \in 1 .. N : q[i] = q[i - 1] \div base
  BY QuotientsRec DEF AreQuotients
<1> HIDE DEF p, q
<1>3. 0 \in T
  BY <1>1, <1>2
<1>4. ASSUME NEW i \in 0 .. M - 1, i \in T PROVE i + 1 \in T
  <2>1. i + 1 \in 1 .. M /\ i + 1 \in 1 .. N /\ (i + 1) - 1 = i
    OBVIOUS
  <2> QED
    BY <1>1, <1>2, <1>4, <2>1
<1> HIDE DEF T
<1>5. k \in T
  BY <1>3, <1>4, InductionUpTo
<1> QED
  BY <1>5 DEF p, q, T

(* The digits of the number with digits s are s. *)
LEMMA DigitsOfNumber ==
    ASSUME NEW base \in Nat, base > 0, NEW N \in Nat, NEW s \in [1 .. N -> 0 .. base - 1]
    PROVE  /\ Number(base, s) \in Nat
           /\ InDigits(base, N, Number(base, s)) = s
           /\ Quotients(base, N, Number(base, s))[N] = 0
<1> DEFINE u == NumbersUpTo(base, s)
           v == Number(base, s)
           q == Quotients(base, N, v)
           T == {k \in 0 .. N : q[k] = u[N - k]}
<1>0. s \in [1 .. N -> Nat] /\ Len(s) = N
  OBVIOUS
<1>1. u \in [0 .. N -> Nat] /\ u[0] = 0 /\ \A i \in 1 .. N : u[i] = u[i - 1] * base + s[i]
  BY <1>0, NumbersUpToRec DEF IsUpTo
<1>2. v = u[N] /\ v \in Nat
  BY <1>0, <1>1 DEF Number
<1>3. q \in [0 .. N -> Nat] /\ q[0] = v /\ \A i \in 1 .. N : q[i] = q[i - 1] \div base
  <2> HIDE DEF v
  <2>1. AreQuotients(base, N, v, q)
    BY <1>2, QuotientsRec
  <2> HIDE DEF q
  <2> QED
    BY <2>1 DEF AreQuotients
<1> HIDE DEF u, v, q
<1>4. ASSUME NEW i \in 1 .. N PROVE u[i] \div base = u[i - 1] /\ u[i] % base = s[i]
  <2>1. u[i - 1] \in Nat /\ s[i] \in 0 .. base - 1 /\ u[i] = u[i - 1] * base + s[i]
    BY <1>1
  <2>2. /\ (u[i - 1] * base + s[i]) \div base = u[i - 1]
        /\ (u[i - 1] * base + s[i]) % base = s[i]
    BY <2>1, DivModUnique
  <2> QED
    BY <2>1, <2>2
<1>5. 0 \in T
  BY <1>2, <1>3
<1>6. ASSUME NEW k \in 0 .. N - 1, k \in T PROVE k + 1 \in T
  <2>1. k + 1 \in 1 .. N /\ (k + 1) - 1 = k /\ N - k \in 1 .. N
        /\ (N - k) - 1 = N - (k + 1)
    OBVIOUS
  <2>2. q[k + 1] = q[k] \div base
    BY <1>3, <2>1
  <2>3. q[k] = u[N - k]
    BY <1>6
  <2>4. u[N - k] \div base = u[N - (k + 1)]
    BY <1>4, <2>1
  <2> QED
    BY <2>1, <2>2, <2>3, <2>4
<1> HIDE DEF T
<1>7. \A k \in 0 .. N : q[k] = u[N - k]
  <2>1. \A k \in 0 .. N : k \in T
    BY <1>5, <1>6, InductionUpTo
  <2> QED
    BY <2>1 DEF T
<1>8. q[N] = 0
  BY <1>1, <1>7
<1>9. ASSUME NEW i \in 1 .. N PROVE q[N - i] % base = s[i]
  <2>1. N - i \in 0 .. N /\ N - (N - i) = i
    OBVIOUS
  <2> QED
    BY <1>4, <1>7, <2>1
<1>10. InDigits(base, N, v) = s
  BY <1>9 DEF InDigits, q
<1> QED
  BY <1>2, <1>8, <1>10 DEF v, q

(* The number with the digits of v is v, if the digits are enough for it. *)
LEMMA NumberOfDigits ==
    ASSUME NEW base \in Nat, base > 0, NEW N \in Nat, NEW v \in Nat,
           Quotients(base, N, v)[N] = 0
    PROVE  /\ InDigits(base, N, v) \in [1 .. N -> 0 .. base - 1]
           /\ Number(base, InDigits(base, N, v)) = v
<1> DEFINE q == Quotients(base, N, v)
           s == InDigits(base, N, v)
           u == NumbersUpTo(base, s)
           T == {i \in 0 .. N : u[i] = q[N - i]}
<1>1. q \in [0 .. N -> Nat] /\ q[0] = v /\ \A i \in 1 .. N : q[i] = q[i - 1] \div base
  BY QuotientsRec DEF AreQuotients
<1>2. q[N] = 0
  OBVIOUS
<1>3. s = [i \in 1 .. N |-> q[N - i] % base]
  BY DEF InDigits
<1> HIDE DEF q, s
<1>4. s \in [1 .. N -> 0 .. base - 1]
  <2>1. ASSUME NEW i \in 1 .. N PROVE q[N - i] % base \in 0 .. base - 1
    <3>1. q[N - i] \in Nat
      BY <1>1
    <3> QED
      BY <3>1, DivMod
  <2> QED
    BY <1>3, <2>1
<1>5. s \in [1 .. N -> Nat] /\ Len(s) = N
  BY <1>4
<1>6. u[0] = 0 /\ \A i \in 1 .. N : u[i] = u[i - 1] * base + s[i]
  <2>1. IsUpTo(base, N, s, u)
    BY <1>5, NumbersUpToRec
  <2> HIDE DEF u
  <2> QED
    BY <2>1 DEF IsUpTo
<1> HIDE DEF u
<1>7. 0 \in T
  BY <1>2, <1>6
<1>8. ASSUME NEW i \in 0 .. N - 1, i \in T PROVE i + 1 \in T
  <2>1. i + 1 \in 1 .. N /\ (i + 1) - 1 = i /\ N - i \in 1 .. N
        /\ (N - i) - 1 = N - (i + 1) /\ N - (i + 1) \in 0 .. N
    OBVIOUS
  <2> DEFINE x == q[N - (i + 1)]
  <2>2. x \in Nat
    BY <1>1, <2>1
  <2>3. u[i] = x \div base
    BY <1>1, <1>8, <2>1
  <2>4. s[i + 1] = x % base
    BY <1>3, <2>1
  <2>5. u[i + 1] = u[i] * base + s[i + 1]
    BY <1>6, <2>1
  <2>6. x \div base \in Nat /\ x = base * (x \div base) + (x % base)
    BY <2>2, DivMod
  <2> HIDE DEF x
  <2>7. u[i + 1] = x
    BY <2>2, <2>3, <2>4, <2>5, <2>6
  <2> QED
    BY <2>1, <2>7 DEF x
<1> HIDE DEF T
<1>9. N \in T
  BY <1>7, <1>8, InductionUpTo
<1>10. u[N] = v
  BY <1>1, <1>9 DEF T
<1> QED
  BY <1>4, <1>5, <1>10 DEF Number, u, s

(* Two digits to the base d make one to the base d * d. *)
LEMMA TwoDigitsOfBase ==
    ASSUME NEW d \in Nat, d > 0, NEW x \in Nat
    PROVE  /\ (x \div d) \div d = x \div (d * d)
           /\ ((x \div d) % d) * d + (x % d) = x % (d * d)
<1> DEFINE a == x \div d
           b == a \div d
           r == x % d
           s == a % d
<1>1. a \in Nat /\ r \in 0 .. d - 1 /\ x = d * a + r
  BY DivMod
<1>2. b \in Nat /\ s \in 0 .. d - 1 /\ a = d * b + s
  <2> HIDE DEF a
  <2> QED
    BY <1>1, DivMod
<1> HIDE DEF a, b, r, s
<1>3. d * d \in Nat /\ d * d > 0
  OBVIOUS
<1>4. s * d + r \in 0 .. d * d - 1
  <2>1. s * d + r >= 0 /\ s * d + r \in Int
    BY <1>1, <1>2
  <2>2. s * d <= (d - 1) * d
    BY <1>2
  <2>3. (d - 1) * d = d * d - d
    OBVIOUS
  <2> QED
    BY <1>1, <1>2, <1>3, <2>1, <2>2, <2>3
<1>5. x = b * (d * d) + (s * d + r)
  BY <1>1, <1>2
<1>6. /\ (b * (d * d) + (s * d + r)) \div (d * d) = b
      /\ (b * (d * d) + (s * d + r)) % (d * d) = s * d + r
  <2> DEFINE m == d * d
             t == s * d + r
  <2>1. m \in Nat /\ m > 0 /\ t \in 0 .. m - 1
    BY <1>3, <1>4
  <2> HIDE DEF m, t
  <2>2. (b * m + t) \div m = b /\ (b * m + t) % m = t
    BY <1>2, <2>1, DivModUnique
  <2> QED
    BY <2>2 DEF m, t
<1>7. x \div (d * d) = b /\ x % (d * d) = s * d + r
  BY <1>5, <1>6
<1> QED
  BY <1>7 DEF a, b, r, s

(* What is known of the sizes. *)
LEMMA Bases ==
    /\ DigitBase \in Nat /\ DigitBase > 0 /\ WordBytes \in Nat /\ WordBytes > 0
    /\ ByteBase \in Nat /\ ByteBase > 0 /\ ByteBase = DigitBase * DigitBase
    /\ WordDigits \in Nat /\ WordDigits = 2 * WordBytes
<1>1. DigitBase \in Nat /\ DigitBase > 0 /\ WordBytes \in Nat /\ WordBytes > 0
  BY LayoutAssumption
<1> QED
  BY <1>1 DEF ByteBase, WordDigits

(* Dividing twice by the base of digits is dividing once by that of bytes. *)
LEMMA QuotientsOfBytes ==
    ASSUME NEW v \in Nat, NEW k \in 0 .. WordBytes
    PROVE  Quotients(DigitBase, WordDigits, v)[2 * k] = Quotients(ByteBase, WordBytes, v)[k]
<1> DEFINE p == Quotients(DigitBase, WordDigits, v)
           q == Quotients(ByteBase, WordBytes, v)
           T == {i \in 0 .. WordBytes : p[2 * i] = q[i]}
<1>1. AreQuotients(DigitBase, WordDigits, v, p) /\ AreQuotients(ByteBase, WordBytes, v, q)
  BY Bases, QuotientsRec
<1> HIDE DEF p, q
<1>2. 0 \in T
  BY <1>1, Bases DEF AreQuotients
<1>3. ASSUME NEW i \in 0 .. WordBytes - 1, i \in T PROVE i + 1 \in T
  <2>1. /\ 2 * i + 1 \in 1 .. WordDigits /\ 2 * i + 2 \in 1 .. WordDigits
        /\ (2 * i + 1) - 1 = 2 * i /\ (2 * i + 2) - 1 = 2 * i + 1
        /\ 2 * (i + 1) = 2 * i + 2
        /\ 2 * i \in 0 .. WordDigits
        /\ i + 1 \in 1 .. WordBytes /\ (i + 1) - 1 = i
    BY Bases
  <2>2. p[2 * i] \in Nat
    BY <1>1, <2>1 DEF AreQuotients
  <2>3. p[2 * i + 1] = p[2 * i] \div DigitBase
    BY <1>1, <2>1 DEF AreQuotients
  <2>4. p[2 * i + 2] = p[2 * i + 1] \div DigitBase
    BY <1>1, <2>1 DEF AreQuotients
  <2>5. q[i + 1] = q[i] \div ByteBase
    BY <1>1, <2>1 DEF AreQuotients
  <2>6. (p[2 * i] \div DigitBase) \div DigitBase = p[2 * i] \div ByteBase
    BY <2>2, Bases, TwoDigitsOfBase
  <2>7. p[2 * (i + 1)] = q[i + 1]
    BY <1>3, <2>1, <2>3, <2>4, <2>5, <2>6
  <2> QED
    BY <2>1, <2>7
<1> HIDE DEF T
<1>4. k \in T
  BY <1>2, <1>3, InductionUpTo, Bases
<1> QED
  BY <1>4 DEF p, q, T

(* A number of bytes has as many digits as it is given. *)
LEMMA NumberOfBytes ==
    ASSUME NEW s \in [1 .. WordBytes -> Bytes]
    PROVE  /\ Number(ByteBase, s) \in Nat
           /\ InDigits(ByteBase, WordBytes, Number(ByteBase, s)) = s
           /\ Quotients(ByteBase, WordBytes, Number(ByteBase, s))[WordBytes] = 0
           /\ Quotients(DigitBase, WordDigits, Number(ByteBase, s))[WordDigits] = 0
<1>1. s \in [1 .. WordBytes -> 0 .. ByteBase - 1]
  BY DEF Bytes
<1> DEFINE v == Number(ByteBase, s)
<1>2. /\ v \in Nat /\ InDigits(ByteBase, WordBytes, v) = s
      /\ Quotients(ByteBase, WordBytes, v)[WordBytes] = 0
  BY <1>1, Bases, DigitsOfNumber
<1> HIDE DEF v
<1>3. Quotients(DigitBase, WordDigits, v)[2 * WordBytes] = 0
  BY <1>2, Bases, QuotientsOfBytes
<1> QED
  BY <1>2, <1>3, Bases DEF v

(* "%x" loses nothing. *)
LEMMA NumberOfHex ==
    ASSUME NEW v \in Nat, Quotients(DigitBase, WordDigits, v)[WordDigits] = 0
    PROVE  Number(DigitBase, Hex(v)) = v
<1> DEFINE left == Quotients(DigitBase, WordDigits, v)
           S == {n \in 1 .. WordDigits : left[n] = 0}
           P(n) == left[n] = 0 /\ (n = 1 \/ left[n - 1] # 0)
           m == CHOOSE n \in 1 .. WordDigits : P(n)
<1>1. \E n \in 1 .. WordDigits : P(n)
  <2>1. S \in SUBSET Nat /\ S # {}
    <3>1. WordDigits \in 1 .. WordDigits
      BY Bases
    <3> QED
      BY <3>1
  <2> HIDE DEF S
  <2>2. PICK n \in S : \A k \in S : n <= k
    BY <2>1, NatMin
  <2>3. n \in 1 .. WordDigits /\ left[n] = 0
    BY DEF S
  <2> HIDE DEF left
  <2>4. n = 1 \/ left[n - 1] # 0
    <3> SUFFICES ASSUME n # 1, left[n - 1] = 0 PROVE FALSE
      OBVIOUS
    <3>1. n - 1 \in 1 .. WordDigits
      BY <2>3, Bases
    <3>2. n - 1 \in S
      BY <3>1 DEF S
    <3> QED
      BY <2>2, <2>3, <3>1, <3>2
  <2> QED
    BY <2>3, <2>4
<1>2. m \in 1 .. WordDigits /\ left[m] = 0
  <2>1. m \in 1 .. WordDigits /\ P(m)
    <3> HIDE DEF P
    <3> QED
      BY <1>1
  <2> QED
    BY <2>1
<1>3. Hex(v) = InDigits(DigitBase, m, v)
  BY DEF Hex
<1> HIDE DEF m
<1>4. m \in Nat /\ m <= WordDigits /\ m \in 0 .. m
  BY <1>2, Bases
<1>5. Quotients(DigitBase, m, v)[m] = 0
  BY <1>2, <1>4, Bases, QuotientsAgree
<1> QED
  BY <1>3, <1>4, <1>5, Bases, NumberOfDigits

(* "%016x" gives two digits for every byte. *)
LEMMA PairsOfDigits ==
    ASSUME NEW s \in [1 .. WordBytes -> Bytes]
    PROVE  /\ HexPadded(Number(ByteBase, s)) \in [1 .. WordDigits -> Nat]
           /\ \A i \in 1 .. WordBytes :
                 HexPadded(Number(ByteBase, s))[2 * i - 1] * DigitBase
                    + HexPadded(Number(ByteBase, s))[2 * i] = s[i]
<1> DEFINE v == Number(ByteBase, s)
           p == Quotients(DigitBase, WordDigits, v)
           q == Quotients(ByteBase, WordBytes, v)
           h == HexPadded(v)
<1>1. v \in Nat /\ InDigits(ByteBase, WordBytes, v) = s /\ p[WordDigits] = 0
  BY NumberOfBytes
<1> HIDE DEF v
<1>2. AreQuotients(DigitBase, WordDigits, v, p)
  BY <1>1, Bases, QuotientsRec
<1>3. h = [i \in 1 .. WordDigits |-> p[WordDigits - i] % DigitBase]
  BY DEF HexPadded, InDigits
<1>4. h \in [1 .. WordDigits -> 0 .. DigitBase - 1]
  BY <1>1, Bases, NumberOfDigits DEF HexPadded
<1>5. s = [i \in 1 .. WordBytes |-> q[WordBytes - i] % ByteBase]
  BY <1>1 DEF InDigits
<1>6. ASSUME NEW i \in 1 .. WordBytes PROVE h[2 * i - 1] * DigitBase + h[2 * i] = s[i]
  <2> DEFINE k == WordBytes - i
  <2>1. /\ k \in 0 .. WordBytes
        /\ WordDigits - 2 * i = 2 * k /\ WordDigits - (2 * i - 1) = 2 * k + 1
        /\ 2 * i \in 1 .. WordDigits /\ 2 * i - 1 \in 1 .. WordDigits
        /\ 2 * k \in 0 .. WordDigits /\ 2 * k + 1 \in 1 .. WordDigits
        /\ (2 * k + 1) - 1 = 2 * k
    BY Bases
  <2>2. p[2 * k] = q[k]
    BY <1>1, <2>1, QuotientsOfBytes
  <2> HIDE DEF k, p, q, h
  <2>3. p[2 * k] \in Nat /\ p[2 * k + 1] = p[2 * k] \div DigitBase
    BY <1>2, <2>1 DEF AreQuotients
  <2>4. h[2 * i] = p[2 * k] % DigitBase /\ h[2 * i - 1] = p[2 * k + 1] % DigitBase
    BY <1>3, <2>1
  <2>5. ((p[2 * k] \div DigitBase) % DigitBase) * DigitBase + (p[2 * k] % DigitBase)
           = p[2 * k] % (DigitBase * DigitBase)
    BY <2>3, Bases, TwoDigitsOfBase
  <2>6. s[i] = q[k] % ByteBase
    BY <1>5 DEF k
  <2> QED
    BY <2>2, <2>3, <2>4, <2>5, <2>6, Bases
<1>7. h \in [1 .. WordDigits -> Nat]
  BY <1>4, Bases
<1> HIDE DEF h
<1> QED
  BY <1>6, <1>7 DEF h, v

-----------------------------------------------------------------------------
(* What the miner reads.                                                   *)

(* Reading the bytes backwards twice changes nothing. *)
LEMMA ReverseTwice ==
    ASSUME NEW X, NEW n \in Nat, NEW s \in [1 .. n -> X]
    PROVE  Reverse(s) \in [1 .. n -> X] /\ Reverse(Reverse(s)) = s
<1>1. Len(s) = n
  OBVIOUS
<1> DEFINE r == Reverse(s)
<1>2. r = [i \in 1 .. n |-> s[(n - i) + 1]]
  BY <1>1 DEF Reverse
<1> HIDE DEF r
<1>3. r \in [1 .. n -> X]
  BY <1>2
<1>4. Len(r) = n
  BY <1>3
<1>5. Reverse(r) = [i \in 1 .. n |-> r[(n - i) + 1]]
  BY <1>4 DEF Reverse
<1>6. ASSUME NEW i \in 1 .. n PROVE r[(n - i) + 1] = s[i]
  <2>1. (n - i) + 1 \in 1 .. n /\ (n - ((n - i) + 1)) + 1 = i
    OBVIOUS
  <2> QED
    BY <1>2, <2>1
<1>7. Reverse(r) = s
  BY <1>5, <1>6
<1> QED
  BY <1>3, <1>7 DEF r

(* The places of two parts. *)
IsConcat(X, m, n, s, t, c) ==
    /\ c \in [1 .. m + n -> X]
    /\ \A k \in 1 .. m : c[k] = s[k]
    /\ \A k \in 1 .. n : c[m + k] = t[k]

LEMMA Concatenation ==
    ASSUME NEW X, NEW m \in Nat, NEW n \in Nat, NEW s \in [1 .. m -> X], NEW t \in [1 .. n -> X]
    PROVE  IsConcat(X, m, n, s, t, s \o t)
<1>1. s \in Seq(X) /\ t \in Seq(X) /\ Len(s) = m /\ Len(t) = n
  OBVIOUS
<1> DEFINE c == s \o t
<1>2. c \in Seq(X) /\ Len(c) = m + n
  BY <1>1
<1>3. \A k \in 1 .. m : c[k] = s[k]
  BY <1>1
<1>4. \A k \in 1 .. n : c[m + k] = t[k]
  BY <1>1
<1> HIDE DEF c
<1>5. c \in [1 .. m + n -> X]
  BY <1>2, LenProperties
<1> QED
  BY <1>3, <1>4, <1>5 DEF IsConcat, c

(* The places of four parts of the same length. *)
AreParts(X, n, a, b, c, d, e) ==
    /\ e \in [1 .. 4 * n -> X]
    /\ \A k \in 1 .. n : /\ e[k] = a[k] /\ e[n + k] = b[k]
                         /\ e[2 * n + k] = c[k] /\ e[3 * n + k] = d[k]

LEMMA FourParts ==
    ASSUME NEW X, NEW n \in Nat, NEW a \in [1 .. n -> X], NEW b \in [1 .. n -> X],
           NEW c \in [1 .. n -> X], NEW d \in [1 .. n -> X]
    PROVE  AreParts(X, n, a, b, c, d, a \o b \o c \o d)
<1> DEFINE e == a \o b
           f == e \o c
           g == f \o d
<1>1. IsConcat(X, n, n, a, b, e)
  BY Concatenation
<1> HIDE DEF e
<1>2. e \in [1 .. 2 * n -> X] /\ \A k \in 1 .. n : e[k] = a[k] /\ e[n + k] = b[k]
  BY <1>1 DEF IsConcat
<1>3. IsConcat(X, 2 * n, n, e, c, f)
  BY <1>2, Concatenation
<1> HIDE DEF f
<1>4. f \in [1 .. 3 * n -> X]
      /\ \A k \in 1 .. n : f[k] = a[k] /\ f[n + k] = b[k] /\ f[2 * n + k] = c[k]
  BY <1>2, <1>3 DEF IsConcat
<1>5. IsConcat(X, 3 * n, n, f, d, g)
  <2>1. 3 * n \in Nat /\ f \in [1 .. 3 * n -> X]
    BY <1>4
  <2> QED
    BY <2>1, Concatenation
<1> HIDE DEF g
<1>6. g \in [1 .. 4 * n -> X]
      /\ \A k \in 1 .. n : /\ g[k] = a[k] /\ g[n + k] = b[k]
                           /\ g[2 * n + k] = c[k] /\ g[3 * n + k] = d[k]
  BY <1>4, <1>5 DEF IsConcat
<1> QED
  BY <1>6 DEF e, f, g, AreParts

(* Every byte of a header is in a word. *)
LEMMA WordPlaces ==
    ASSUME NEW k \in 1 .. HeaderBytes
    PROVE  \E i \in 1 .. NumWords, j \in 1 .. WordBytes : k = (i - 1) * WordBytes + j
<1> DEFINE n == WordBytes
<1>0. n \in Nat /\ n > 0 /\ HeaderBytes = 4 * n /\ NumWords = 4
  BY Bases DEF HeaderBytes, NumWords
<1> HIDE DEF n
<1>1. CASE k <= n
  <2>1. 1 \in 1 .. 4 /\ k \in 1 .. n /\ k = (1 - 1) * n + k
    BY <1>0, <1>1
  <2> QED
    BY <1>0, <2>1 DEF n
<1>2. CASE k > n /\ k <= 2 * n
  <2>1. 2 \in 1 .. 4 /\ k - n \in 1 .. n /\ k = (2 - 1) * n + (k - n)
    BY <1>0, <1>2
  <2> QED
    BY <1>0, <2>1 DEF n
<1>3. CASE k > 2 * n /\ k <= 3 * n
  <2>1. 3 \in 1 .. 4 /\ k - 2 * n \in 1 .. n /\ k = (3 - 1) * n + (k - 2 * n)
    BY <1>0, <1>3
  <2> QED
    BY <1>0, <2>1 DEF n
<1>4. CASE k > 3 * n
  <2>1. 4 \in 1 .. 4 /\ k - 3 * n \in 1 .. n /\ k = (4 - 1) * n + (k - 3 * n)
    BY <1>0, <1>4
  <2> QED
    BY <1>0, <2>1 DEF n
<1> QED
  BY <1>0, <1>1, <1>2, <1>3, <1>4

(* A header is its four words. *)
LEMMA FourWords ==
    ASSUME NEW header \in [1 .. HeaderBytes -> Bytes]
    PROVE  /\ \A i \in 1 .. NumWords : Word(header, i) \in [1 .. WordBytes -> Bytes]
           /\ Word(header, 1) \o Word(header, 2) \o Word(header, 3) \o Word(header, 4) = header
<1> DEFINE n == WordBytes
           w(i) == Word(header, i)
           e == w(1) \o w(2) \o w(3) \o w(4)
<1>0. n \in Nat /\ HeaderBytes = 4 * n /\ NumWords = 4
  BY Bases DEF HeaderBytes, NumWords
<1>1. ASSUME NEW i \in 1 .. 4
      PROVE  w(i) \in [1 .. n -> Bytes] /\ \A k \in 1 .. n : w(i)[k] = header[(i - 1) * n + k]
  <2>1. ASSUME NEW k \in 1 .. n PROVE (i - 1) * n + k \in 1 .. HeaderBytes
    BY <1>0
  <2> QED
    BY <2>1 DEF Word
<1> HIDE DEF w
<1>2. e \in [1 .. 4 * n -> Bytes]
      /\ \A k \in 1 .. n : /\ e[k] = w(1)[k] /\ e[n + k] = w(2)[k]
                           /\ e[2 * n + k] = w(3)[k] /\ e[3 * n + k] = w(4)[k]
  <2>0. /\ w(1) \in [1 .. n -> Bytes] /\ w(2) \in [1 .. n -> Bytes]
        /\ w(3) \in [1 .. n -> Bytes] /\ w(4) \in [1 .. n -> Bytes]
    BY <1>1
  <2>1. AreParts(Bytes, n, w(1), w(2), w(3), w(4), e)
    BY <1>0, <2>0, FourParts
  <2> HIDE DEF e
  <2> QED
    BY <2>1 DEF AreParts
<1> HIDE DEF e, n
<1>3. ASSUME NEW i \in 1 .. 4, NEW j \in 1 .. n
      PROVE  e[(i - 1) * n + j] = w(i)[j]
  <2>1. CASE i = 1
    <3>1. (i - 1) * n + j = j
      BY <1>0, <2>1
    <3> QED
      BY <1>2, <2>1, <3>1
  <2>2. CASE i = 2
    BY <1>0, <1>2, <2>2
  <2>3. CASE i = 3
    BY <1>0, <1>2, <2>3
  <2>4. CASE i = 4
    BY <1>0, <1>2, <2>4
  <2> QED
    BY <2>1, <2>2, <2>3, <2>4
<1>4. ASSUME NEW k \in 1 .. 4 * n PROVE e[k] = header[k]
  <2>1. PICK i \in 1 .. 4, j \in 1 .. n : k = (i - 1) * n + j
    BY <1>0, WordPlaces DEF n
  <2> QED
    BY <1>1, <1>3, <2>1
<1>5. e = header
  BY <1>0, <1>2, <1>4
<1> QED
  BY <1>0, <1>1, <1>5 DEF e, w, n

(* The miner reads back the numbers of a job. *)
LEMMA NumbersAreRead ==
    ASSUME NEW header \in [1 .. HeaderBytes -> Bytes], NEW timestamp
    PROVE  ReadJob(FALSE, JobParams(FALSE, header, timestamp)) = <<header, timestamp>>
<1> DEFINE numbers == GenerateJobHeader(header)
           memory(i) == Reverse(InDigits(ByteBase, WordBytes, numbers[i]))
<1>1. ASSUME NEW i \in 1 .. NumWords PROVE memory(i) = Word(header, i)
  <2> DEFINE w == Word(header, i)
             r == Reverse(w)
             v == Number(ByteBase, r)
  <2>1. w \in [1 .. WordBytes -> Bytes]
    BY FourWords
  <2> HIDE DEF w
  <2>2. r \in [1 .. WordBytes -> Bytes] /\ Reverse(r) = w
    BY <2>1, Bases, ReverseTwice
  <2> HIDE DEF r
  <2>3. /\ v \in Nat /\ InDigits(ByteBase, WordBytes, v) = r
        /\ Quotients(DigitBase, WordDigits, v)[WordDigits] = 0
    BY <2>2, NumberOfBytes
  <2>4. numbers[i] = Number(DigitBase, Hex(v))
    BY DEF GenerateJobHeader, LittleEndianUint64, w, r
  <2> HIDE DEF v
  <2>5. numbers[i] = v
    BY <2>3, <2>4, NumberOfHex
  <2> QED
    BY <2>2, <2>3, <2>5 DEF w
<1>2. 1 \in 1 .. NumWords /\ 2 \in 1 .. NumWords /\ 3 \in 1 .. NumWords /\ 4 \in 1 .. NumWords
  BY DEF NumWords
<1>3. memory(1) \o memory(2) \o memory(3) \o memory(4) = header
  <2> HIDE DEF memory
  <2> QED
    BY <1>1, <1>2, FourWords
<1>4. ReadNumbers(numbers, timestamp) = <<header, timestamp>>
  BY <1>3 DEF ReadNumbers
<1>5. JobParams(FALSE, header, timestamp) = <<numbers, timestamp>>
  BY DEF JobParams
<1> HIDE DEF numbers
<1>6. ReadJob(FALSE, <<numbers, timestamp>>) = ReadNumbers(numbers, timestamp)
  BY DEF ReadJob
<1> QED
  BY <1>4, <1>5, <1>6

(* The miner reads back the digits of a big job. *)
LEMMA DigitsAreRead ==
    ASSUME NEW header \in [1 .. HeaderBytes -> Bytes],
           NEW stamp \in [1 .. WordBytes -> Bytes]
    PROVE  ReadJob(TRUE, JobParams(TRUE, header, BigEndianUint64(stamp)))
              = <<header, BigEndianUint64(stamp)>>
<1> DEFINE n == WordBytes
           timestamp == BigEndianUint64(stamp)
           last == Reverse(stamp)
           w(i) == IF i = 5 THEN last ELSE Word(header, i)
           hex(i) == HexPadded(Number(ByteBase, w(i)))
           four == hex(1) \o hex(2) \o hex(3) \o hex(4)
           digits == four \o hex(5)
           bytes == ReadBytes(digits)
<1>0. /\ n \in Nat /\ WordDigits = 2 * n /\ 2 * n \in Nat /\ DigitBase \in Nat
      /\ HeaderBytes = 4 * n /\ NumWords = 4
  BY Bases DEF HeaderBytes, NumWords
<1>1. GenerateLargeJobParams(header, timestamp) = digits
  <2>1. InDigits(ByteBase, WordBytes, timestamp) = stamp
    BY NumberOfBytes DEF BigEndianUint64
  <2> HIDE DEF timestamp
  <2> QED
    BY <2>1 DEF GenerateLargeJobParams, LittleEndianUint64, BigEndianUint64
<1>2. last \in [1 .. n -> Bytes] /\ Reverse(last) = stamp
  BY Bases, ReverseTwice
<1>3. ASSUME NEW i \in 1 .. 5 PROVE w(i) \in [1 .. n -> Bytes]
  BY <1>0, <1>2, FourWords
<1>4. ASSUME NEW i \in 1 .. 5
      PROVE  /\ hex(i) \in [1 .. 2 * n -> Nat]
             /\ \A k \in 1 .. n : hex(i)[2 * k - 1] * DigitBase + hex(i)[2 * k] = w(i)[k]
  <2> DEFINE x == w(i)
  <2>1. x \in [1 .. WordBytes -> Bytes]
    BY <1>3
  <2> HIDE DEF x
  <2>2. /\ HexPadded(Number(ByteBase, x)) \in [1 .. WordDigits -> Nat]
        /\ \A k \in 1 .. WordBytes :
              HexPadded(Number(ByteBase, x))[2 * k - 1] * DigitBase
                 + HexPadded(Number(ByteBase, x))[2 * k] = x[k]
    BY <2>1, PairsOfDigits
  <2> QED
    BY <1>0, <2>2 DEF x
<1> HIDE DEF hex, w
<1>5. AreParts(Nat, 2 * n, hex(1), hex(2), hex(3), hex(4), four)
  <2>1. /\ hex(1) \in [1 .. 2 * n -> Nat] /\ hex(2) \in [1 .. 2 * n -> Nat]
        /\ hex(3) \in [1 .. 2 * n -> Nat] /\ hex(4) \in [1 .. 2 * n -> Nat]
    BY <1>4
  <2> QED
    BY <1>0, <2>1, FourParts
<1> HIDE DEF four
<1>6. IsConcat(Nat, 8 * n, 2 * n, four, hex(5), digits)
  <2>1. 8 * n \in Nat /\ four \in [1 .. 8 * n -> Nat]
    BY <1>0, <1>5 DEF AreParts
  <2>2. hex(5) \in [1 .. 2 * n -> Nat]
    BY <1>4
  <2> QED
    BY <1>0, <2>1, <2>2, Concatenation
<1> HIDE DEF digits
<1>7. digits \in [1 .. 10 * n -> Nat] /\ Len(digits) = 10 * n
  <2>1. digits \in [1 .. 10 * n -> Nat]
    BY <1>0, <1>6 DEF IsConcat
  <2> QED
    BY <1>0, <2>1
<1>8. \A k \in 1 .. 2 * n : /\ digits[k] = hex(1)[k] /\ digits[2 * n + k] = hex(2)[k]
                            /\ digits[4 * n + k] = hex(3)[k] /\ digits[6 * n + k] = hex(4)[k]
                            /\ digits[8 * n + k] = hex(5)[k]
  BY <1>0, <1>5, <1>6 DEF AreParts, IsConcat
<1>9. bytes = [i \in 1 .. 5 * n |-> digits[2 * i - 1] * DigitBase + digits[2 * i]]
  <2>1. Len(digits) \div 2 = 5 * n
    BY <1>0, <1>7
  <2> QED
    BY <2>1 DEF ReadBytes
<1> HIDE DEF bytes
<1>10. ASSUME NEW i \in 1 .. 5, NEW k \in 1 .. n PROVE bytes[(i - 1) * n + k] = w(i)[k]
  <2>1. hex(i)[2 * k - 1] * DigitBase + hex(i)[2 * k] = w(i)[k]
    BY <1>4
  <2>2. (i - 1) * n + k \in 1 .. 5 * n
    BY <1>0
  <2>3. 2 * k - 1 \in 1 .. 2 * n /\ 2 * k \in 1 .. 2 * n
    BY <1>0
  <2>4. /\ digits[2 * ((i - 1) * n + k) - 1] = hex(i)[2 * k - 1]
        /\ digits[2 * ((i - 1) * n + k)] = hex(i)[2 * k]
    <3>1. CASE i = 1
      <4>1. 2 * ((i - 1) * n + k) = 2 * k
        BY <1>0, <3>1
      <4> QED
        BY <1>8, <2>3, <3>1, <4>1
    <3>2. CASE i = 2
      BY <1>0, <1>8, <2>3, <3>2
    <3>3. CASE i = 3
      BY <1>0, <1>8, <2>3, <3>3
    <3>4. CASE i = 4
      BY <1>0, <1>8, <2>3, <3>4
    <3>5. CASE i = 5
      BY <1>0, <1>8, <2>3, <3>5
    <3> QED
      BY <3>1, <3>2, <3>3, <3>4, <3>5
  <2> QED
    BY <1>9, <2>1, <2>2, <2>4
<1>11. [k \in 1 .. HeaderBytes |-> bytes[k]] = header
  <2>1. ASSUME NEW k \in 1 .. HeaderBytes PROVE bytes[k] = header[k]
    <3>1. PICK i \in 1 .. NumWords, j \in 1 .. WordBytes : k = (i - 1) * WordBytes + j
      BY WordPlaces
    <3>2. i \in 1 .. 5 /\ i # 5
      BY <1>0
    <3>3. w(i)[j] = header[(i - 1) * WordBytes + j]
      BY <3>2 DEF w, Word
    <3> QED
      BY <1>10, <3>1, <3>2, <3>3
  <2> QED
    BY <2>1
<1>12. Word(bytes, NumWords + 1) = last
  <2>1. \A k \in 1 .. n : bytes[(5 - 1) * n + k] = last[k]
    BY <1>10 DEF w
  <2> HIDE DEF last
  <2> QED
    BY <1>0, <1>2, <2>1 DEF Word
<1>13. LittleEndianUint64(last) = timestamp
  BY <1>2 DEF LittleEndianUint64, BigEndianUint64
<1> HIDE DEF last, timestamp
<1>14. ReadLarge(digits) = <<header, timestamp>>
  <2>1. Len(digits) = (NumWords + 1) * WordDigits
    BY <1>0, <1>7
  <2> QED
    BY <1>11, <1>12, <1>13, <2>1 DEF ReadLarge, bytes
<1>15. JobParams(TRUE, header, timestamp) = <<digits>>
  BY <1>1 DEF JobParams
<1>16. ReadJob(TRUE, <<digits>>) = ReadLarge(digits)
  BY DEF ReadJob
<1> QED
  BY <1>14, <1>15, <1>16 DEF timestamp

-----------------------------------------------------------------------------
(* The ring.                                                               *)

(* A positive multiple is at least the factor. *)
LEMMA MultipleBound ==
    ASSUME NEW m \in Nat, m > 0, NEW d \in Int
    PROVE  /\ d > 0 => m * d >= m
           /\ d <= 0 => m * d <= 0
  BY SMTT(20)

(* Two ids less than a ring apart have different slots. *)
LEMMA SlotsDiffer ==
    ASSUME NEW i \in Nat, NEW j \in Nat, i < j, j - i < MaxJobs
    PROVE  Slot(i) # Slot(j)
<1>0. MaxJobs \in Nat /\ MaxJobs > 0
  BY JobsAssumption
<1>1. PICK p \in Int : i = MaxJobs * p + Slot(i) /\ Slot(i) \in Int
  BY <1>0, DivMod DEF Slot
<1>2. PICK q \in Int : j = MaxJobs * q + Slot(j) /\ Slot(j) \in Int
  BY <1>0, DivMod DEF Slot
<1>3. SUFFICES ASSUME Slot(i) = Slot(j) PROVE FALSE
  OBVIOUS
<1>4. q - p \in Int /\ j - i = MaxJobs * (q - p)
  BY <1>0, <1>1, <1>2, <1>3
<1>5. /\ q - p > 0 => MaxJobs * (q - p) >= MaxJobs
      /\ q - p <= 0 => MaxJobs * (q - p) <= 0
  BY <1>0, <1>4, MultipleBound
<1>6. (q - p > 0 => j - i >= MaxJobs) /\ (q - p <= 0 => j - i <= 0)
  BY <1>4, <1>5
<1>7. q - p > 0 \/ q - p <= 0
  BY <1>1, <1>2
<1>8. j - i > 0
  OBVIOUS
<1> QED
  BY <1>0, <1>6, <1>7, <1>8

(* A slot is a slot. *)
LEMMA SlotType == \A i \in Nat : Slot(i) \in Slots
  BY JobsAssumption DEF Slot, Slots

-----------------------------------------------------------------------------

(* After AddJob: the goroutine has an id under which its block is filed. *)
HasId(n) == pc[n] \in {"init", "first", "name", "layout", "diff", "sendDiff", "params",
                      "notify"}

(* The locals of a goroutine are set when it needs them. *)
LocalsSet ==
    \A n \in Notifiers :
       /\ pc[n] # "idle" => block[n] \in Blocks
       /\ pc[n] = "reload" => jobCounter > 0
       /\ pc[n] = "put" \/ HasId(n) => idx[n] > 0

(* While no calls of AddJob overlapped: at most one goroutine is in it,    *)
(* and it works with the current value of the counter.                     *)
Serial ==
    ~overlapped =>
      /\ \A m, n \in Notifiers : InAddJob(m) /\ InAddJob(n) => m = n
      /\ \A n \in Notifiers : /\ pc[n] = "store" => local[n] = jobCounter
                              /\ pc[n] = "put" => idx[n] = jobCounter

(* An id that was given out for a block: it is at most the counter, less   *)
(* while the slot of the counter is still to be written, and it finds its  *)
(* block as long as it is recent.                                          *)
Filed(i, b) ==
    /\ i <= jobCounter
    /\ \A n \in Notifiers : pc[n] \in {"reload", "put"} => i < jobCounter
    /\ i > jobCounter - MaxJobs => GetJob(i) = b

JobsFiled ==
    ~overlapped =>
      /\ \A j \in sent : Filed(j.id, j.block)
      /\ \A n \in Notifiers : HasId(n) => Filed(idx[n], block[n])

(* Who set Initialized sets StratumDiff next; work is sent only after      *)
(* Initialized was set.                                                    *)
FirstPassOrder ==
    /\ initialized => stratumDiff \/ \E n \in Notifiers : pc[n] \in {"name", "layout", "diff"}
    /\ \A n \in Notifiers :
          pc[n] \in {"name", "layout", "diff", "sendDiff", "params", "notify"} => initialized
    /\ sent # {} => initialized

(* Every goroutine has a block of its own, and one that was sent is nobody's. *)
OwnBlocks ==
    /\ \A n \in Notifiers : pc[n] # "idle" => block[n] \in 1 .. templates
    /\ \A m, n \in Notifiers :
          m # n /\ pc[m] # "idle" /\ pc[n] # "idle" => block[m] # block[n]
    /\ \A j \in sent : /\ j.block \in 1 .. templates
                       /\ \A n \in Notifiers : pc[n] # "idle" => j.block # block[n]

(* Unless a first pass found no name: UseBigJob is right as soon as it was *)
(* chosen, and so is what was read from it later.                          *)
LayoutChosen ==
    ~nameless =>
      /\ early # Blocks => useBigJob = bigMiner
      /\ \A n \in Notifiers : pc[n] = "layout" => big[n] = bigMiner
      /\ \A n \in Notifiers :
            pc[n] = "notify" /\ block[n] \notin early => big[n] = bigMiner
      /\ \A j \in sent : j.block \notin early => j.big = bigMiner

JobsInv == /\ TypeOK /\ LocalsSet /\ Serial /\ JobsFiled /\ FirstPassOrder
           /\ OwnBlocks /\ LayoutChosen

LEMMA JobsInitInv == Init => JobsInv
<1> SUFFICES ASSUME Init PROVE JobsInv
  OBVIOUS
<1>1. TypeOK
  <2>1. jobs \in [Slots -> Blocks \cup {NoBlock}] /\ jobCounter \in Nat
    BY DEF Init
  <2>2. templates \in 0 .. MaxTemplates
    BY JobsAssumption DEF Init
  <2>3. pc \in [Notifiers -> States]
    BY DEF Init, States
  <2>4. /\ local \in [Notifiers -> Nat] /\ idx \in [Notifiers -> Nat]
        /\ block \in [Notifiers -> Blocks \cup {NoBlock}]
    BY DEF Init
  <2>5. sent \subseteq [id : Nat \ {0}, block : Blocks, big : BOOLEAN] /\ early \subseteq Blocks
    BY DEF Init
  <2>6. /\ initialized \in BOOLEAN /\ stratumDiff \in BOOLEAN /\ overlapped \in BOOLEAN
        /\ nameless \in BOOLEAN /\ useBigJob \in BOOLEAN /\ bigMiner \in BOOLEAN
        /\ big \in [Notifiers -> BOOLEAN] /\ authorizing \in {"begin", "wallet", "done"}
    BY Zenon DEF Init
  <2> QED
    BY <2>1, <2>2, <2>3, <2>4, <2>5, <2>6 DEF TypeOK
<1>2. LocalsSet /\ Serial
  BY DEF Init, LocalsSet, Serial, HasId, InAddJob
<1>3. JobsFiled /\ FirstPassOrder
  BY DEF Init, JobsFiled, FirstPassOrder, HasId
<1>4. OwnBlocks /\ LayoutChosen
  BY DEF Init, OwnBlocks, LayoutChosen
<1> QED
  BY <1>1, <1>2, <1>3, <1>4 DEF JobsInv

-----------------------------------------------------------------------------
(* Types.                                                                  *)

(* The variables that choose the layout. *)
LayoutTypes ==
    /\ nameless \in BOOLEAN /\ useBigJob \in BOOLEAN /\ big \in [Notifiers -> BOOLEAN]
    /\ authorizing \in {"begin", "wallet", "done"} /\ bigMiner \in BOOLEAN
    /\ early \subseteq Blocks

(* All others. *)
RingTypes ==
    /\ jobs \in [Slots -> Blocks \cup {NoBlock}]
    /\ jobCounter \in Nat
    /\ initialized \in BOOLEAN /\ stratumDiff \in BOOLEAN
    /\ templates \in 0 .. MaxTemplates
    /\ pc \in [Notifiers -> States]
    /\ local \in [Notifiers -> Nat]
    /\ idx \in [Notifiers -> Nat]
    /\ block \in [Notifiers -> Blocks \cup {NoBlock}]
    /\ sent \subseteq [id : Nat \ {0}, block : Blocks, big : BOOLEAN]
    /\ overlapped \in BOOLEAN

LEMMA TypesSplit ==
    /\ TypeOK => RingTypes /\ LayoutTypes
    /\ RingTypes' /\ LayoutTypes' => TypeOK'
  BY DEF TypeOK, RingTypes, LayoutTypes

LEMMA LayoutTypesKept ==
    ASSUME TypeOK, LocalsSet, NEW n \in Notifiers, Notifier(n)
    PROVE  LayoutTypes'
<1>0. LayoutTypes /\ templates \in 0 .. MaxTemplates
  BY TypesSplit DEF RingTypes
<1>1. UNCHANGED clientVars
  BY DEF Notifier, GetBlockTemplate, AddJob, LoadCounter, StoreCounter, ReloadCounter,
         PutJob, FirstPass, CheckInitialized, SetInitialized, MatchMinerName,
         SetUseBigJob, SetStratumDiff, SendDifficulty, BuildParams, SendJob
<1>2. CASE UNCHANGED layoutVars
  BY <1>0, <1>1, <1>2 DEF LayoutTypes, layoutVars, clientVars
<1>3. CASE MatchMinerName(n)
  <2>1. big' \in [Notifiers -> BOOLEAN] /\ nameless' \in BOOLEAN
    BY <1>0, <1>3, Zenon DEF LayoutTypes, MatchMinerName
  <2> QED
    BY <1>0, <1>1, <1>3, <2>1 DEF LayoutTypes, MatchMinerName, clientVars
<1>4. CASE SetUseBigJob(n)
  <2>1. useBigJob' \in BOOLEAN
    BY <1>0, <1>4, Zenon DEF LayoutTypes, SetUseBigJob
  <2>2. 1 .. templates \subseteq Blocks
    BY <1>0, JobsAssumption DEF Blocks
  <2>3. early' \subseteq Blocks
    BY <1>0, <1>4, <2>2 DEF LayoutTypes, SetUseBigJob, Blocks
  <2> QED
    BY <1>0, <1>1, <1>4, <2>1, <2>3 DEF LayoutTypes, SetUseBigJob, clientVars
<1>5. CASE SendDifficulty(n) \/ BuildParams(n) \/ SendJob(n)
  <2>1. big' \in [Notifiers -> BOOLEAN]
    BY <1>0, <1>5, Zenon DEF LayoutTypes, SendDifficulty, BuildParams, SendJob, End
  <2> QED
    BY <1>0, <1>1, <1>5, <2>1
    DEF LayoutTypes, SendDifficulty, BuildParams, SendJob, clientVars
<1> QED
  BY <1>2, <1>3, <1>4, <1>5
  DEF Notifier, GetBlockTemplate, AddJob, LoadCounter, StoreCounter, ReloadCounter,
      PutJob, FirstPass, CheckInitialized, SetInitialized, SetStratumDiff

LEMMA JobsTypes ==
    ASSUME TypeOK, LocalsSet, NEW n \in Notifiers, Notifier(n)
    PROVE  TypeOK' /\ LocalsSet'
<1> USE DEF States, HasId
<1>0. RingTypes /\ LayoutTypes'
  BY TypesSplit, LayoutTypesKept
<1> SUFFICES RingTypes' /\ LocalsSet'
  BY <1>0, TypesSplit
<1>1. CASE GetBlockTemplate(n)
  <2>1. templates' \in Blocks
    BY <1>0, <1>1, JobsAssumption DEF RingTypes, GetBlockTemplate, Blocks
  <2> QED
    BY <1>0, <1>1, <2>1 DEF RingTypes, LocalsSet, GetBlockTemplate, Goto, Blocks
<1>2. CASE AddJob(n)
  <2>1. Slot(idx[n]) \in Slots
    BY <1>0, SlotType DEF RingTypes
  <2>2. CASE LoadCounter(n)
    BY <1>0, <2>2 DEF RingTypes, LocalsSet, LoadCounter, Goto
  <2>3. CASE StoreCounter(n)
    BY <1>0, <2>3 DEF RingTypes, LocalsSet, StoreCounter, Goto
  <2>4. CASE ReloadCounter(n)
    BY <1>0, <2>4 DEF RingTypes, LocalsSet, ReloadCounter, Goto
  <2>5. CASE PutJob(n)
    BY <1>0, <2>1, <2>5 DEF RingTypes, LocalsSet, PutJob, Goto
  <2> QED
    BY <1>2, <2>2, <2>3, <2>4, <2>5 DEF AddJob
<1>3. CASE CheckInitialized(n) \/ SetInitialized(n) \/ SetStratumDiff(n)
           \/ MatchMinerName(n) \/ SetUseBigJob(n) \/ BuildParams(n)
  BY <1>0, <1>3 DEF RingTypes, LocalsSet, CheckInitialized, SetInitialized,
      SetStratumDiff, MatchMinerName, SetUseBigJob, BuildParams, Goto
<1>4. CASE SendDifficulty(n)
  <2>1. CASE Goto(n, "params") /\ UNCHANGED <<local, idx, block, big>>
    BY <1>0, <1>4, <2>1 DEF RingTypes, LocalsSet, SendDifficulty, Goto
  <2>2. CASE End(n)
    BY <1>0, <1>4, <2>2 DEF RingTypes, LocalsSet, SendDifficulty, Goto, End, NoBlock
  <2> QED
    BY <1>4, <2>1, <2>2 DEF SendDifficulty
<1>5. CASE SendJob(n)
  <2>1. big[n] \in BOOLEAN
    BY TypesSplit DEF LayoutTypes
  <2>2. Job(n) \in [id : Nat \ {0}, block : Blocks, big : BOOLEAN]
    BY <1>0, <1>5, <2>1 DEF RingTypes, LocalsSet, SendJob, Job
  <2>3. sent' \subseteq [id : Nat \ {0}, block : Blocks, big : BOOLEAN]
    BY <1>0, <1>5, <2>2 DEF RingTypes, SendJob
  <2> QED
    BY <1>0, <1>5, <2>3 DEF RingTypes, LocalsSet, SendJob, Goto, End
<1> QED
  BY <1>1, <1>2, <1>3, <1>4, <1>5 DEF Notifier, FirstPass

-----------------------------------------------------------------------------
(* The first pass.                                                         *)

LEMMA FirstPassKept ==
    ASSUME TypeOK, FirstPassOrder, NEW n \in Notifiers, Notifier(n)
    PROVE  FirstPassOrder'
<1>0. pc \in [Notifiers -> States]
  BY DEF TypeOK
<1>1. CASE GetBlockTemplate(n) \/ AddJob(n)
  BY <1>0, <1>1 DEF FirstPassOrder, GetBlockTemplate, AddJob, LoadCounter,
      StoreCounter, ReloadCounter, PutJob, Goto
<1>2. CASE CheckInitialized(n) \/ SetInitialized(n) \/ MatchMinerName(n)
           \/ SetUseBigJob(n) \/ SetStratumDiff(n) \/ BuildParams(n)
  BY <1>0, <1>2 DEF FirstPassOrder, CheckInitialized, SetInitialized, MatchMinerName,
      SetUseBigJob, SetStratumDiff, BuildParams, Goto
<1>3. CASE SendDifficulty(n) \/ SendJob(n)
  BY <1>0, <1>3 DEF FirstPassOrder, SendDifficulty, SendJob, Goto, End
<1> QED
  BY <1>1, <1>2, <1>3 DEF Notifier, FirstPass

-----------------------------------------------------------------------------
(* The ring.                                                               *)

LEMMA SerialKept ==
    ASSUME TypeOK, Serial, NEW n \in Notifiers, Notifier(n)
    PROVE  Serial'
<1>0. /\ pc \in [Notifiers -> States] /\ local \in [Notifiers -> Nat]
      /\ idx \in [Notifiers -> Nat] /\ overlapped \in BOOLEAN /\ jobCounter \in Nat
  BY DEF TypeOK
<1> USE DEF InAddJob
<1>1. CASE GetBlockTemplate(n)
  BY <1>0, <1>1 DEF Serial, GetBlockTemplate, Goto
<1>2. CASE LoadCounter(n)
  BY <1>0, <1>2 DEF Serial, LoadCounter, Goto
<1>3. CASE StoreCounter(n)
  BY <1>0, <1>3 DEF Serial, StoreCounter, Goto
<1>4. CASE ReloadCounter(n)
  BY <1>0, <1>4 DEF Serial, ReloadCounter, Goto
<1>5. CASE PutJob(n)
  BY <1>0, <1>5 DEF Serial, PutJob, Goto
<1>6. CASE FirstPass(n) \/ BuildParams(n) \/ SendJob(n)
  BY <1>0, <1>6 DEF Serial, FirstPass, CheckInitialized, SetInitialized, MatchMinerName,
      SetUseBigJob, SetStratumDiff, SendDifficulty, BuildParams, SendJob, Goto, End
<1> QED
  BY <1>1, <1>2, <1>3, <1>4, <1>5, <1>6 DEF Notifier, AddJob

(* A step outside the ring, the counter and the states they depend on      *)
(* keeps what is filed.                                                    *)
LEMMA FiledKept ==
    ASSUME NEW i, NEW b, Filed(i, b), UNCHANGED <<jobs, jobCounter>>,
           \A m \in Notifiers :
              pc'[m] \in {"reload", "put"} => pc[m] \in {"reload", "put"}
    PROVE  Filed(i, b)'
  BY DEF Filed, GetJob

LEMMA JobsFiledKept ==
    ASSUME TypeOK, LocalsSet, Serial, JobsFiled, NEW n \in Notifiers, Notifier(n)
    PROVE  JobsFiled'
<1> SUFFICES ASSUME ~overlapped'
             PROVE  /\ \A j \in sent' : Filed(j.id, j.block)'
                    /\ \A m \in Notifiers : HasId(m)' => Filed(idx[m], block[m])'
  BY DEF JobsFiled
<1>0. /\ pc \in [Notifiers -> States] /\ idx \in [Notifiers -> Nat]
      /\ block \in [Notifiers -> Blocks \cup {NoBlock}]
      /\ jobCounter \in Nat /\ jobs \in [Slots -> Blocks \cup {NoBlock}]
      /\ sent \subseteq [id : Nat \ {0}, block : Blocks, big : BOOLEAN]
  BY DEF TypeOK
<1>1. ~overlapped
  BY DEF Notifier, AddJob, FirstPass, GetBlockTemplate, LoadCounter, StoreCounter,
         ReloadCounter, PutJob, CheckInitialized, SetInitialized, MatchMinerName,
         SetUseBigJob, SetStratumDiff, SendDifficulty, BuildParams, SendJob
<1>2. /\ \A j \in sent : Filed(j.id, j.block)
      /\ \A m \in Notifiers : HasId(m) => Filed(idx[m], block[m])
  BY <1>1 DEF JobsFiled
<1>3. CASE GetBlockTemplate(n) \/ LoadCounter(n) \/ ReloadCounter(n) \/ FirstPass(n)
           \/ BuildParams(n)
  <2>1. /\ UNCHANGED <<jobs, jobCounter, sent>>
        /\ \A m \in Notifiers :
              pc'[m] \in {"reload", "put"} => pc[m] \in {"reload", "put"}
        /\ \A m \in Notifiers : HasId(m)' =>
              HasId(m) /\ idx'[m] = idx[m] /\ block'[m] = block[m]
    BY <1>0, <1>3 DEF GetBlockTemplate, LoadCounter, ReloadCounter, FirstPass,
        CheckInitialized, SetInitialized, MatchMinerName, SetUseBigJob, SetStratumDiff,
        SendDifficulty, BuildParams, Goto, End, HasId
  <2> QED
    BY <1>2, <2>1, FiledKept DEF Filed, GetJob
<1>4. CASE StoreCounter(n)
  <2>1. local[n] = jobCounter /\ jobCounter' = jobCounter + 1
    BY <1>1, <1>4 DEF Serial, StoreCounter
  <2>2. /\ UNCHANGED <<jobs, sent, block>>
        /\ \A m \in Notifiers : HasId(m)' => HasId(m) /\ idx'[m] = idx[m]
    BY <1>0, <1>4 DEF StoreCounter, Goto, HasId
  <2>3. \A i \in Nat, b \in Blocks : Filed(i, b) => Filed(i, b)'
    BY <1>0, <2>1, <2>2, JobsAssumption DEF Filed, GetJob
  <2>4. \A m \in Notifiers : HasId(m)' => Filed(idx[m], block[m])'
    BY <1>0, <1>2, <2>2, <2>3 DEF LocalsSet, HasId, Filed, GetJob
  <2>5. \A j \in sent' : j.id \in Nat /\ j.block \in Blocks /\ Filed(j.id, j.block)
    BY <1>0, <1>2, <2>2
  <2> QED
    BY <2>3, <2>4, <2>5
<1>5. CASE PutJob(n)
  <2>1. /\ idx[n] = jobCounter /\ UNCHANGED <<jobCounter, sent, block, idx>>
        /\ jobs' = [jobs EXCEPT ![Slot(jobCounter)] = block[n]]
        /\ pc[n] = "put" /\ pc' = [pc EXCEPT ![n] = "init"]
    BY <1>1, <1>5 DEF Serial, PutJob, Goto
  <2>2. \A m \in Notifiers : pc'[m] \notin {"reload", "put"}
    BY <1>0, <1>1, <2>1 DEF Serial, InAddJob
  <2>3. GetJob(jobCounter)' = block[n]
    BY <1>0, <2>1, SlotType DEF GetJob
  <2>4. ASSUME NEW i \in Nat, NEW b \in Blocks, Filed(i, b)
        PROVE  Filed(i, b)'
    <3>1. i < jobCounter
      BY <2>1, <2>4 DEF Filed
    <3>2. ASSUME i > jobCounter - MaxJobs PROVE GetJob(i)' = b
      <4>1. Slot(i) # Slot(jobCounter)
        BY <1>0, <3>1, <3>2, SlotsDiffer, JobsAssumption
      <4>2. GetJob(i) = b
        BY <2>4, <3>2 DEF Filed
      <4> QED
        BY <1>0, <2>1, <4>1, <4>2, SlotType DEF GetJob
    <3> QED
      BY <1>0, <2>1, <2>2, <3>1, <3>2 DEF Filed
  <2>5. Filed(idx[n], block[n])'
    BY <1>0, <2>1, <2>2, <2>3 DEF Filed
  <2>6. \A m \in Notifiers : HasId(m)' => m = n \/ HasId(m)
    BY <1>0, <2>1 DEF HasId
  <2>7. ASSUME NEW m \in Notifiers, HasId(m)' PROVE Filed(idx[m], block[m])'
    <3>1. CASE m = n
      BY <2>5, <3>1
    <3>2. CASE m # n
      <4>1. HasId(m) /\ idx[m] \in Nat /\ block[m] \in Blocks
        BY <1>0, <2>6, <2>7, <3>2 DEF LocalsSet, HasId
      <4>2. Filed(idx[m], block[m])
        BY <1>2, <4>1
      <4> QED
        BY <2>1, <2>4, <4>1, <4>2 DEF Filed, GetJob
    <3> QED
      BY <3>1, <3>2
  <2>8. \A j \in sent' : j.id \in Nat /\ j.block \in Blocks /\ Filed(j.id, j.block)
    BY <1>0, <1>2, <2>1
  <2> QED
    BY <2>4, <2>7, <2>8
<1>6. CASE SendJob(n)
  <2>1. /\ UNCHANGED <<jobs, jobCounter>> /\ HasId(n)
        /\ \A m \in Notifiers :
              pc'[m] \in {"reload", "put"} => pc[m] \in {"reload", "put"}
        /\ \A m \in Notifiers : HasId(m)' =>
              HasId(m) /\ idx'[m] = idx[m] /\ block'[m] = block[m]
        /\ \A j \in sent' : j \in sent \/ j = Job(n)
    BY <1>0, <1>6 DEF SendJob, Goto, End, HasId
  <2>2. \A j \in sent' : Filed(j.id, j.block)
    BY <1>2, <2>1 DEF Job
  <2> QED
    BY <1>2, <2>1, <2>2, FiledKept DEF Filed, GetJob
<1> QED
  BY <1>3, <1>4, <1>5, <1>6 DEF Notifier, AddJob

-----------------------------------------------------------------------------
(* The layout.                                                             *)

LEMMA OwnBlocksKept ==
    ASSUME TypeOK, LocalsSet, OwnBlocks, NEW n \in Notifiers, Notifier(n)
    PROVE  OwnBlocks'
<1>0. /\ pc \in [Notifiers -> States] /\ templates \in Nat
      /\ block \in [Notifiers -> Blocks \cup {NoBlock}]
  BY JobsAssumption DEF TypeOK
<1>1. CASE GetBlockTemplate(n)
  <2>1. templates' = templates + 1 /\ block' = [block EXCEPT ![n] = templates + 1]
        /\ pc' = [pc EXCEPT ![n] = "load"] /\ sent' = sent /\ pc[n] = "idle"
    BY <1>1 DEF GetBlockTemplate, Goto
  <2>2. \A m \in Notifiers : pc'[m] # "idle" =>
           IF m = n THEN block'[m] = templates + 1
           ELSE block'[m] = block[m] /\ block[m] \in 1 .. templates /\ pc[m] # "idle"
    BY <1>0, <2>1 DEF OwnBlocks
  <2> QED
    BY <1>0, <2>1, <2>2 DEF OwnBlocks
<1>2. CASE AddJob(n) \/ BuildParams(n)
           \/ CheckInitialized(n) \/ SetInitialized(n) \/ MatchMinerName(n)
           \/ SetUseBigJob(n) \/ SetStratumDiff(n)
  <2>1. /\ UNCHANGED <<block, templates, sent>>
        /\ \A m \in Notifiers : pc'[m] # "idle" => pc[m] # "idle"
    BY <1>0, <1>2 DEF AddJob, LoadCounter, StoreCounter, ReloadCounter, PutJob,
        BuildParams, CheckInitialized, SetInitialized, MatchMinerName, SetUseBigJob,
        SetStratumDiff, Goto
  <2> QED
    BY <2>1 DEF OwnBlocks
<1>3. CASE SendDifficulty(n) \/ SendJob(n)
  <2>1. /\ templates' = templates /\ pc[n] # "idle"
        /\ \A m \in Notifiers : pc'[m] # "idle" =>
              pc[m] # "idle" /\ block'[m] = block[m]
    BY <1>0, <1>3 DEF SendDifficulty, SendJob, Goto, End
  <2>2. CASE sent' = sent
    BY <2>1, <2>2 DEF OwnBlocks
  <2>3. CASE SendJob(n) /\ sent' = sent \cup {Job(n)}
    <3>1. \A m \in Notifiers : pc'[m] # "idle" => m # n
      BY <1>0, <2>3 DEF SendJob, End, Goto
    <3>2. Job(n).block = block[n] /\ block[n] \in 1 .. templates
      BY <2>1 DEF Job, OwnBlocks
    <3> QED
      BY <2>1, <2>3, <3>1, <3>2 DEF OwnBlocks
  <2> QED
    BY <1>3, <2>2, <2>3 DEF SendDifficulty, SendJob
<1> QED
  BY <1>1, <1>2, <1>3 DEF Notifier, FirstPass

LEMMA LayoutKept ==
    ASSUME TypeOK, LocalsSet, OwnBlocks, LayoutChosen, NEW n \in Notifiers, Notifier(n)
    PROVE  LayoutChosen'
<1>0. /\ pc \in [Notifiers -> States] /\ big \in [Notifiers -> BOOLEAN]
      /\ block \in [Notifiers -> Blocks \cup {NoBlock}]
  BY DEF TypeOK
<1>1. CASE GetBlockTemplate(n) \/ AddJob(n) \/ CheckInitialized(n)
           \/ SetInitialized(n) \/ SetStratumDiff(n)
  <2>1. /\ UNCHANGED <<useBigJob, big, nameless, early, bigMiner, sent>>
        /\ \A m \in Notifiers : pc'[m] \in {"layout", "notify"} =>
              pc'[m] = pc[m] /\ block'[m] = block[m]
    BY <1>0, <1>1 DEF GetBlockTemplate, AddJob, LoadCounter, StoreCounter,
        ReloadCounter, PutJob, CheckInitialized, SetInitialized, SetStratumDiff, Goto,
        layoutVars, clientVars
  <2> QED
    BY <2>1 DEF LayoutChosen
<1>2. CASE MatchMinerName(n)
  <2>1. /\ UNCHANGED <<useBigJob, early, bigMiner, sent, block>>
        /\ ~nameless' => ~nameless /\ authorizing = "done"
        /\ pc' = [pc EXCEPT ![n] = "layout"]
    BY <1>2 DEF MatchMinerName, Goto, clientVars
  <2>2. big'[n] = (authorizing = "done" /\ bigMiner)
        /\ \A m \in Notifiers : m # n => big'[m] = big[m]
    BY <1>0, <1>2 DEF MatchMinerName
  <2>3. bigMiner \in BOOLEAN
    BY DEF TypeOK
  <2>4. authorizing = "done" => big'[n] = bigMiner
    BY <2>2, <2>3
  <2> QED
    BY <1>0, <2>1, <2>2, <2>4 DEF LayoutChosen
<1>3. CASE SetUseBigJob(n)
  <2>1. /\ UNCHANGED <<big, nameless, bigMiner, sent, block>>
        /\ pc[n] = "layout" /\ pc' = [pc EXCEPT ![n] = "diff"] /\ useBigJob' = big[n]
        /\ early' = IF early = Blocks THEN (1 .. templates) \ {block[n]} ELSE early
    BY <1>3 DEF SetUseBigJob, Goto, clientVars
  <2>2. ASSUME NEW m \in Notifiers, pc'[m] = "notify", block[m] \notin early'
        PROVE  block[m] \notin early
    <3>1. m # n /\ pc[m] = "notify"
      BY <1>0, <2>1, <2>2
    <3>2. block[m] \in 1 .. templates /\ block[m] # block[n]
      BY <2>1, <3>1 DEF OwnBlocks
    <3> QED
      BY <2>1, <2>2, <3>2
  <2>3. \A j \in sent : j.block \notin early' => j.block \notin early
    <3>1. \A j \in sent : j.block \in 1 .. templates /\ j.block # block[n]
      BY <2>1 DEF OwnBlocks
    <3> QED
      BY <2>1, <3>1
  <2> QED
    BY <1>0, <2>1, <2>2, <2>3 DEF LayoutChosen
<1>4. CASE BuildParams(n)
  <2>1. /\ UNCHANGED <<useBigJob, nameless, early, bigMiner, sent, block>>
        /\ pc[n] = "params" /\ pc' = [pc EXCEPT ![n] = "notify"]
    BY <1>4 DEF BuildParams, Goto, clientVars
  <2>2. big'[n] = useBigJob /\ \A m \in Notifiers : m # n => big'[m] = big[m]
    BY <1>0, <1>4 DEF BuildParams
  <2>3. block[n] \in Blocks
    BY <2>1 DEF LocalsSet
  <2>4. block[n] \notin early => early # Blocks
    BY <2>3
  <2> QED
    BY <1>0, <2>1, <2>2, <2>4 DEF LayoutChosen
<1>5. CASE SendDifficulty(n) \/ SendJob(n)
  <2>1. /\ UNCHANGED <<useBigJob, nameless, early, bigMiner>>
        /\ \A m \in Notifiers : pc'[m] \in {"layout", "notify"} =>
              pc'[m] = pc[m] /\ block'[m] = block[m] /\ big'[m] = big[m]
    BY <1>0, <1>5 DEF SendDifficulty, SendJob, Goto, End, clientVars
  <2>2. \A j \in sent' : j \in sent \/ (pc[n] = "notify" /\ j = Job(n))
    BY <1>5 DEF SendDifficulty, SendJob
  <2>3. Job(n).block = block[n] /\ Job(n).big = big[n]
    BY DEF Job
  <2> QED
    BY <2>1, <2>2, <2>3 DEF LayoutChosen
<1> QED
  BY <1>1, <1>2, <1>3, <1>4, <1>5 DEF Notifier, FirstPass

(* The reader touches nothing of this. *)
LEMMA AuthorizeKeeps == JobsInv /\ Authorize => JobsInv'
<1> SUFFICES ASSUME JobsInv, Authorize PROVE JobsInv'
  OBVIOUS
<1>1. UNCHANGED <<jobs, jobCounter, initialized, stratumDiff, templates, pc, local, idx,
                  block, sent, overlapped, useBigJob, big, nameless, early, bigMiner>>
  BY DEF Authorize, SetWalletAddr, SetMinerName, layoutVars
<1>2. authorizing' \in {"begin", "wallet", "done"}
  BY DEF Authorize, SetWalletAddr, SetMinerName
<1>3. TypeOK'
  BY <1>1, <1>2 DEF JobsInv, TypeOK
<1> QED
  BY <1>1, <1>3 DEF JobsInv, LocalsSet, Serial, JobsFiled, FirstPassOrder, OwnBlocks,
      LayoutChosen, HasId, InAddJob, Filed, GetJob

-----------------------------------------------------------------------------

LEMMA JobsNextInv == JobsInv /\ [Next]_vars => JobsInv'
<1> SUFFICES ASSUME JobsInv, [Next]_vars PROVE JobsInv'
  OBVIOUS
<1>1. ASSUME NEW n \in Notifiers, Notifier(n)
      PROVE  JobsInv'
  BY <1>1, JobsTypes, FirstPassKept, SerialKept, JobsFiledKept, OwnBlocksKept, LayoutKept
  DEF JobsInv
<1>2. CASE UNCHANGED vars
  BY <1>2 DEF vars, layoutVars, clientVars, JobsInv, TypeOK, LocalsSet, Serial, JobsFiled,
      FirstPassOrder, OwnBlocks, LayoutChosen, HasId, InAddJob, Filed, GetJob
<1> QED
  BY <1>1, <1>2, AuthorizeKeeps DEF Next

(* All parts of the invariant hold in every reachable state. *)
THEOREM JobsInvariant == Spec => []JobsInv
  BY JobsInitInv, JobsNextInv, PTL DEF Spec

(* Every variable of the mining state keeps its type. *)
THEOREM JobsTypeOK == Spec => []TypeOK
  BY JobsInvariant, PTL DEF JobsInv

(* For every size of the ring: while no calls of AddJob overlap, each of   *)
(* the last MaxJobs jobs is found under the id it was sent with.           *)
THEOREM JobsRecentResolve == Spec => []RecentJobResolves
<1>1. JobsInv => RecentJobResolves
  BY DEF JobsInv, JobsFiled, Filed, RecentJobResolves
<1> QED
  BY <1>1, JobsInvariant, PTL

(* A client that was sent work has a difficulty, or a goroutine is about   *)
(* to set it, however the first passes of its goroutines interleave.       *)
THEOREM JobsDifficultyIsComing == Spec => []DifficultyIsComing
<1>1. JobsInv => DifficultyIsComing
  BY DEF JobsInv, FirstPassOrder, DifficultyIsComing
<1> QED
  BY <1>1, JobsInvariant, PTL

(* A miner is sent its jobs in its layout, for any number of goroutines    *)
(* that build jobs while the first pass chooses it.                        *)
THEOREM JobsLayoutSettles == Spec => []LayoutSettles
<1>1. JobsInv => LayoutSettles
  BY DEF JobsInv, LayoutChosen, LayoutSettles
<1> QED
  BY <1>1, JobsInvariant, PTL

(* The miner reads every job, in both layouts, as the header and the       *)
(* timestamp it was made from.                                             *)
LEMMA AllReadable == Readable = BOOLEAN
<1>1. ASSUME NEW h \in Headers, NEW t \in Timestamps, NEW b \in BOOLEAN
      PROVE  ReadJob(b, JobParams(b, h, t)) = <<h, t>>
  <2>1. h \in [1 .. HeaderBytes -> Bytes]
    BY WorkAssumption
  <2>2. PICK w \in [1 .. WordBytes -> Bytes] : t = BigEndianUint64(w)
    BY WorkAssumption
  <2>3. CASE b = TRUE
    BY <2>1, <2>2, <2>3, DigitsAreRead
  <2>4. CASE b = FALSE
    BY <2>1, <2>4, NumbersAreRead
  <2> QED
    BY <2>3, <2>4
<1> QED
  BY <1>1 DEF Readable

(* Nothing of a header is lost on the way to the miner, for words of any   *)
(* number of bytes and digits to any base.                                 *)
THEOREM JobsAreComplete == Spec => []JobIsComplete
<1>1. JobsInv => JobIsComplete
  <2> SUFFICES ASSUME JobsInv, NEW j \in sent PROVE j.big \in Readable
    BY DEF JobIsComplete
  <2>1. TypeOK
    BY DEF JobsInv
  <2>2. j.big \in BOOLEAN
    BY <2>1 DEF TypeOK
  <2> QED
    BY <2>2, AllReadable
<1> QED
  BY <1>1, JobsInvariant, PTL

-----------------------------------------------------------------------------
(* The ring as a window.                                                   *)

(* A goroutine has incremented the counter and not yet written the ring. *)
Adding == \E n \in Notifiers : pc[n] \in {"reload", "put"}

(* No job is found at first. *)
LEMMA WindowInitial == Init => Window!WindowInit
<1> SUFFICES ASSUME Init PROVE Window!WindowInit
  OBVIOUS
<1>1. newestJob = 0
  BY DEF Init, newestJob
<1>2. foundJobs = [i \in Window!Recent(0) |-> 0] /\ 1 .. 0 = {}
  BY <1>1 DEF foundJobs, Window!Recent
<1> QED
  BY <1>1, <1>2 DEF Window!WindowInit

(* What GetJob finds depends on the ring and the newest job only. *)
LEMMA WindowUnchanged ==
    ASSUME UNCHANGED <<jobs, newestJob>>
    PROVE  UNCHANGED Window!windowVars
<1>1. foundJobs' = foundJobs
  BY DEF foundJobs, GetJob
<1> QED
  BY <1>1 DEF Window!windowVars

(* A step of a goroutine is a step of the window. *)
LEMMA WindowStep ==
    ASSUME JobsInv, NEW n \in Notifiers, Notifier(n), ~overlapped'
    PROVE  Window!WindowNext \/ UNCHANGED Window!windowVars
<1>0. /\ pc \in [Notifiers -> States] /\ idx \in [Notifiers -> Nat]
      /\ block \in [Notifiers -> Blocks \cup {NoBlock}]
      /\ jobCounter \in Nat /\ jobs \in [Slots -> Blocks \cup {NoBlock}]
      /\ MaxJobs \in Nat /\ MaxJobs > 0
  BY JobsAssumption DEF JobsInv, TypeOK
<1>1. ~overlapped
  BY DEF Notifier, AddJob, FirstPass, GetBlockTemplate, LoadCounter, StoreCounter,
         ReloadCounter, PutJob, CheckInitialized, SetInitialized, MatchMinerName,
         SetUseBigJob, SetStratumDiff, SendDifficulty, BuildParams, SendJob
<1>2. newestJob = IF Adding THEN jobCounter - 1 ELSE jobCounter
  BY DEF newestJob, Adding
<1>3. newestJob' = IF Adding' THEN jobCounter' - 1 ELSE jobCounter'
  BY DEF newestJob, Adding
<1>4. CASE GetBlockTemplate(n) \/ LoadCounter(n) \/ ReloadCounter(n) \/ FirstPass(n)
           \/ BuildParams(n) \/ SendJob(n)
  <2>1. /\ UNCHANGED <<jobs, jobCounter>>
        /\ \A m \in Notifiers :
              pc'[m] \in {"reload", "put"} <=> pc[m] \in {"reload", "put"}
    BY <1>0, <1>4 DEF GetBlockTemplate, LoadCounter, ReloadCounter, FirstPass,
        CheckInitialized, SetInitialized, MatchMinerName, SetUseBigJob, SetStratumDiff,
        SendDifficulty, BuildParams, SendJob, Goto, End
  <2>2. Adding' <=> Adding
    BY <2>1 DEF Adding
  <2> QED
    BY <1>2, <1>3, <2>1, <2>2, WindowUnchanged
<1>5. CASE StoreCounter(n)
  <2>1. jobCounter' = jobCounter + 1 /\ UNCHANGED jobs /\ pc[n] = "store"
    BY <1>1, <1>5 DEF JobsInv, Serial, StoreCounter
  <2>2. ~Adding
    BY <1>1, <2>1 DEF JobsInv, Serial, InAddJob, Adding
  <2>3. Adding'
    BY <1>0, <1>5 DEF StoreCounter, Goto, Adding
  <2> QED
    BY <1>0, <1>2, <1>3, <2>1, <2>2, <2>3, WindowUnchanged
<1>6. CASE PutJob(n)
  <2>1. /\ idx[n] = jobCounter /\ jobCounter' = jobCounter /\ idx[n] > 0
        /\ jobs' = [jobs EXCEPT ![Slot(jobCounter)] = block[n]]
        /\ pc[n] = "put" /\ pc' = [pc EXCEPT ![n] = "init"]
        /\ block[n] \in Blocks
    BY <1>1, <1>6 DEF JobsInv, Serial, LocalsSet, PutJob, Goto
  <2>2. Adding /\ ~Adding'
    BY <1>0, <1>1, <2>1 DEF JobsInv, Serial, InAddJob, Adding
  <2>3. newestJob = jobCounter - 1 /\ newestJob' = jobCounter
    BY <1>2, <1>3, <2>1, <2>2
  <2>4. newestJob' = newestJob + 1
    BY <1>0, <2>3
  <2>5. foundJobs' = [i \in Window!Recent(jobCounter) |-> jobs'[Slot(i)]]
    BY <2>3 DEF foundJobs, GetJob, Window!Recent
  <2>6. ASSUME NEW i \in Window!Recent(jobCounter)
        PROVE  jobs'[Slot(i)] = IF i = jobCounter THEN block[n] ELSE foundJobs[i]
    <3>1. i \in Nat /\ i <= jobCounter /\ i > jobCounter - MaxJobs /\ i >= 1
      BY <1>0 DEF Window!Recent
    <3>2. CASE i = jobCounter
      BY <1>0, <2>1, <3>2, SlotType
    <3>3. CASE i # jobCounter
      <4>1. Slot(i) # Slot(jobCounter)
        BY <1>0, <3>1, <3>3, SlotsDiffer
      <4>2. i \in 1 .. newestJob /\ i > newestJob - MaxJobs
        BY <1>0, <2>3, <3>1, <3>3
      <4>3. foundJobs[i] = jobs[Slot(i)]
        BY <4>2 DEF foundJobs, GetJob
      <4> QED
        BY <1>0, <2>1, <3>1, <3>3, <4>1, <4>3, SlotType
    <3> QED
      BY <3>2, <3>3
  <2>7. foundJobs' = [i \in Window!Recent(newestJob') |->
                        IF i = newestJob' THEN block[n] ELSE foundJobs[i]]
    BY <2>3, <2>5, <2>6
  <2>8. Window!Add(block[n])
    BY <2>4, <2>7 DEF Window!Add
  <2> QED
    BY <2>1, <2>8 DEF Window!WindowNext
<1> QED
  BY <1>4, <1>5, <1>6 DEF Notifier, AddJob

(* Until two calls of AddJob overlap, what GetJob finds in the ring is     *)
(* what a window of the last MaxJobs jobs holds, for a ring of any size    *)
(* and any number of goroutines.                                           *)
THEOREM JobsRingIsWindow == Spec => RingIsWindow
<1>1. ASSUME JobsInv, [Next]_vars
      PROVE  [overlapped' \/ Window!WindowNext]_(Window!windowVars)
  <2>1. ASSUME NEW n \in Notifiers, Notifier(n)
        PROVE  overlapped' \/ Window!WindowNext \/ UNCHANGED Window!windowVars
    BY <1>1, <2>1, WindowStep
  <2>2. ASSUME Authorize \/ UNCHANGED vars PROVE UNCHANGED Window!windowVars
    <3>1. UNCHANGED <<jobs, jobCounter, pc>>
      BY <2>2 DEF Authorize, SetWalletAddr, SetMinerName, vars
    <3>2. newestJob' = newestJob
      BY <3>1 DEF newestJob
    <3> QED
      BY <3>1, <3>2, WindowUnchanged
  <2> QED
    BY <1>1, <2>1, <2>2 DEF Next
<1> QED
  BY <1>1, WindowInitial, JobsInvariant, PTL DEF Spec, RingIsWindow

=============================================================================
