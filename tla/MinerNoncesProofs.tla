-------------------------- MODULE MinerNoncesProofs --------------------------
(***************************************************************************)
(* Proofs about the nonces of shares, for every length of a nonce, every   *)
(* size of the extranonce and any number of clients.                       *)
(***************************************************************************)
EXTENDS MinerNonces, WorkersListenerProofs, FiniteSetTheorems, FunctionTheorems

(* A client has an extranonce when they are enabled, and who was not yet   *)
(* accepted has submitted nothing.                                         *)
Given == /\ ExtranonceSize > 0 => \A w \in Accepted : extranonce[w] # NoExtranonce
         /\ ExtranonceSize = 0 => \A w \in Ids : extranonce[w] = NoExtranonce
         /\ \A w \in Ids \ Accepted : checked[w] = NoNonce

(* A nonce that was checked begins with the extranonce of its client. *)
InOwnSpace ==
    \A w \in Accepted :
       checked[w] # NoNonce /\ extranonce[w] # NoExtranonce =>
          \E r \in Suffixes : checked[w] = extranonce[w] * Pow[Extranonce2Len] + r

NonceTypes == /\ meant \in [Ids -> Nonces \cup {NoNonce}]
              /\ checked \in [Ids -> Nonces \cup {NoNonce}]

NonceInv == RegistryInv /\ NonceTypes /\ Given /\ MeantIsChecked /\ InOwnSpace

-----------------------------------------------------------------------------
(* Digits and powers.                                                      *)

LEMMA Lengths ==
    /\ ExtranonceDigits \in 0 .. NonceDigits /\ Extranonce2Len \in 1 .. NonceDigits
    /\ ExtranonceDigits + Extranonce2Len = NonceDigits
    /\ NonceDigits \in Nat
  BY NoncesAssumption, RegistryAssumption DEF ExtranonceDigits, Extranonce2Len

(* Sets between which there is a bijection have as many elements. *)
LEMMA BijectionCounts ==
    ASSUME NEW S, NEW T, NEW f \in [S -> T], IsFiniteSet(S),
           \A a, b \in S : f[a] = f[b] => a = b,
           \A t \in T : \E s \in S : f[s] = t
    PROVE  IsFiniteSet(T) /\ Cardinality(T) = Cardinality(S)
<1>1. f \in Bijection(S, T)
  BY Fun_IsBij
<1>2. ExistsBijection(S, T)
  BY <1>1, Fun_ExistsBij
<1> QED
  BY <1>2, FS_Bijection

(* A string is known by the set of its places with their digits. *)
LEMMA StringsFinite ==
    ASSUME NEW n \in Nat
    PROVE  IsFiniteSet(Strings(n)) /\ Cardinality(Strings(n)) \in Nat
<1> DEFINE P == (1 .. n) \X (0 .. DigitBase - 1)
           G == [s \in Strings(n) |-> {<<i, s[i]>> : i \in 1 .. n}]
<1>1. IsFiniteSet(1 .. n) /\ IsFiniteSet(0 .. DigitBase - 1)
  BY NoncesAssumption, FS_Interval
<1>2. IsFiniteSet(SUBSET P)
  BY <1>1, FS_Product, FS_SUBSET
<1>3. G \in [Strings(n) -> SUBSET P]
  BY DEF Strings
<1>4. ASSUME NEW s \in Strings(n), NEW t \in Strings(n), G[s] = G[t] PROVE s = t
  <2>1. ASSUME NEW i \in 1 .. n PROVE s[i] = t[i]
    <3>1. <<i, s[i]>> \in G[s]
      OBVIOUS
    <3>2. \E j \in 1 .. n : <<i, s[i]>> = <<j, t[j]>>
      BY <1>4, <3>1
    <3> QED
      BY <3>2
  <2> QED
    BY <2>1 DEF Strings
<1> HIDE DEF P, G
<1>5. G \in Injection(Strings(n), SUBSET P)
  BY <1>3, <1>4, Fun_IsInj
<1>6. IsFiniteSet(Strings(n))
  BY <1>2, <1>5, FS_Injection
<1> QED
  BY <1>6, FS_CardinalityType

(* A string of m + n digits is one of m digits and one of n. *)
LEMMA StringsOfSum ==
    ASSUME NEW m \in Nat, NEW n \in Nat
    PROVE  Cardinality(Strings(m + n)) = Cardinality(Strings(m)) * Cardinality(Strings(n))
<1> DEFINE S == Strings(m) \X Strings(n)
           T == Strings(m + n)
           Join(p) == [i \in 1 .. m + n |-> IF i <= m THEN p[1][i] ELSE p[2][i - m]]
           f == [p \in S |-> Join(p)]
<1>1. IsFiniteSet(S) /\ Cardinality(S) = Cardinality(Strings(m)) * Cardinality(Strings(n))
  BY StringsFinite, FS_Product
<1>2. f \in [S -> T]
  <2>1. ASSUME NEW p \in S PROVE Join(p) \in T
    BY DEF Strings
  <2> HIDE DEF Join
  <2> QED
    BY <2>1
<1>3. ASSUME NEW a \in Strings(m), NEW b \in Strings(n), NEW c \in Strings(m),
             NEW d \in Strings(n), Join(<<a, b>>) = Join(<<c, d>>)
      PROVE  a = c /\ b = d
  <2>1. ASSUME NEW i \in 1 .. m PROVE a[i] = c[i]
    <3>1. Join(<<a, b>>)[i] = a[i] /\ Join(<<c, d>>)[i] = c[i]
      OBVIOUS
    <3> QED
      BY <1>3, <3>1
  <2>2. ASSUME NEW i \in 1 .. n PROVE b[i] = d[i]
    <3>1. m + i \in 1 .. m + n /\ ~(m + i <= m) /\ (m + i) - m = i
      OBVIOUS
    <3>2. Join(<<a, b>>)[m + i] = b[i] /\ Join(<<c, d>>)[m + i] = d[i]
      BY <3>1
    <3> QED
      BY <1>3, <3>2
  <2> QED
    BY <2>1, <2>2 DEF Strings
<1>4. ASSUME NEW t \in T PROVE \E p \in S : f[p] = t
  <2> DEFINE a == [i \in 1 .. m |-> t[i]]
             b == [i \in 1 .. n |-> t[m + i]]
  <2>1. a \in Strings(m) /\ b \in Strings(n)
    BY DEF Strings
  <2>2. ASSUME NEW i \in 1 .. m + n PROVE Join(<<a, b>>)[i] = t[i]
    <3>1. CASE i <= m
      BY <3>1
    <3>2. CASE i > m
      <4>1. i - m \in 1 .. n /\ m + (i - m) = i
        BY <3>2
      <4> QED
        BY <3>2, <4>1
    <3> QED
      BY <3>1, <3>2
  <2>3. Join(<<a, b>>) = t
    BY <2>2 DEF Strings
  <2> QED
    BY <2>1, <2>3
<1> HIDE DEF Join
<1>5. \A p, q \in S : f[p] = f[q] => p = q
  BY <1>3
<1> HIDE DEF S, T, f
<1>6. Cardinality(T) = Cardinality(S)
  BY <1>1, <1>2, <1>4, <1>5, BijectionCounts
<1> QED
  BY <1>1, <1>6 DEF T

(* The strings of no and of one digit. *)
LEMMA FewStrings == Cardinality(Strings(0)) = 1 /\ Cardinality(Strings(1)) = DigitBase
<1>1. \E e : Strings(0) = {e}
  <2> DEFINE e == [i \in 1 .. 0 |-> 0]
  <2>1. e \in Strings(0) /\ \A t \in Strings(0) : t = e
    BY DEF Strings
  <2> QED
    BY <2>1
<1>2. Cardinality(Strings(0)) = 1
  BY <1>1, FS_Singleton
<1> DEFINE S == 0 .. DigitBase - 1
           f == [d \in S |-> [i \in 1 .. 1 |-> d]]
<1>3. IsFiniteSet(S) /\ Cardinality(S) = DigitBase
  BY NoncesAssumption, FS_Interval
<1>4. f \in [S -> Strings(1)]
  BY DEF Strings
<1>5. \A d, e \in S : f[d] = f[e] => d = e
  <2>1. \A d \in S : f[d][1] = d
    OBVIOUS
  <2> QED
    BY <2>1
<1>6. ASSUME NEW t \in Strings(1) PROVE \E d \in S : f[d] = t
  <2>1. t[1] \in S /\ f[t[1]] = t
    BY DEF Strings
  <2> QED
    BY <2>1
<1> HIDE DEF S, f
<1>7. Cardinality(Strings(1)) = DigitBase
  BY <1>3, <1>4, <1>5, <1>6, BijectionCounts
<1> QED
  BY <1>2, <1>7

LEMMA PowSum ==
    ASSUME NEW m \in 0 .. NonceDigits, NEW n \in 0 .. NonceDigits, m + n <= NonceDigits
    PROVE  Pow[m + n] = Pow[m] * Pow[n]
<1>1. m \in Nat /\ n \in Nat /\ m + n \in 0 .. NonceDigits
  BY Lengths
<1> QED
  BY <1>1, StringsOfSum DEF Pow

LEMMA Powers ==
    /\ \A n \in 0 .. NonceDigits : Pow[n] \in Nat /\ Pow[n] >= 1
    /\ Pow[NonceDigits] = Pow[ExtranonceDigits] * Pow[Extranonce2Len]
<1>1. ASSUME NEW n \in 0 .. NonceDigits PROVE Pow[n] \in Nat /\ Pow[n] >= 1
  <2>1. n \in Nat /\ Pow[n] = Cardinality(Strings(n))
    BY Lengths DEF Pow
  <2>2. IsFiniteSet(Strings(n)) /\ Cardinality(Strings(n)) \in Nat
    BY <2>1, StringsFinite
  <2>3. [i \in 1 .. n |-> 0] \in Strings(n)
    BY NoncesAssumption DEF Strings
  <2>4. Cardinality(Strings(n)) # 0
    BY <2>2, <2>3, FS_EmptySet
  <2> QED
    BY <2>1, <2>2, <2>4
<1>2. Pow[ExtranonceDigits + Extranonce2Len] = Pow[ExtranonceDigits] * Pow[Extranonce2Len]
  BY Lengths, PowSum
<1> QED
  BY <1>1, <1>2, Lengths

(* More digits say more. *)
LEMMA PowMonotone ==
    ASSUME NEW m \in 0 .. NonceDigits, NEW n \in 0 .. NonceDigits, m <= n
    PROVE  Pow[m] <= Pow[n]
<1>1. n - m \in 0 .. NonceDigits /\ m + (n - m) = n
  BY Lengths
<1>2. Pow[m + (n - m)] = Pow[m] * Pow[n - m]
  BY <1>1, Lengths, PowSum
<1>3. Pow[m] \in Nat /\ Pow[n - m] \in Nat /\ Pow[n - m] >= 1
  BY <1>1, Powers
<1>4. Pow[m] * Pow[n - m] >= Pow[m]
  BY <1>3
<1> QED
  BY <1>1, <1>2, <1>4

(* maxExtranonce is the largest number that ctx.Extranonce has digits for. *)
LEMMA MaxExtranonceFits == ExtranonceSize > 0 => MaxExtranonce = Pow[ExtranonceDigits] - 1
<1> SUFFICES ASSUME ExtranonceSize > 0 PROVE MaxExtranonce = Pow[ExtranonceDigits] - 1
  OBVIOUS
<1>0. ExtranonceSize \in Nat /\ NonceDigits \in Nat /\ ExtranonceDigits < NonceDigits
      /\ DigitBase \in Nat
  BY RegistryAssumption, NoncesAssumption
<1>1. ASSUME 2 <= NonceDigits PROVE Pow[2] = ByteBase
  <2>0. 1 \in 0 .. NonceDigits /\ 1 \in 0 .. NonceDigits /\ 1 + 1 <= NonceDigits
    BY <1>0, <1>1
  <2>1. Pow[1 + 1] = Pow[1] * Pow[1]
    BY <2>0, PowSum
  <2>2. Pow[1] = DigitBase /\ ByteBase = DigitBase * DigitBase
    BY <2>0, FewStrings, NoncesAssumption DEF Pow
  <2>3. 1 + 1 = 2
    OBVIOUS
  <2> QED
    BY <2>1, <2>2, <2>3, Zenon
<1>2. ASSUME 4 <= NonceDigits PROVE Pow[4] = ByteBase * ByteBase
  <2>0. 2 \in 0 .. NonceDigits /\ 2 \in 0 .. NonceDigits /\ 2 + 2 <= NonceDigits
    BY <1>0, <1>2
  <2>1. Pow[2 + 2] = Pow[2] * Pow[2]
    BY <2>0, PowSum
  <2>2. Pow[2] = ByteBase /\ 2 + 2 = 4
    BY <1>0, <1>1, <1>2
  <2> QED
    BY <2>1, <2>2, Zenon
<1>3. ASSUME 6 <= NonceDigits PROVE Pow[6] = ByteBase * ByteBase * ByteBase
  <2>0. 4 \in 0 .. NonceDigits /\ 2 \in 0 .. NonceDigits /\ 4 + 2 <= NonceDigits
    BY <1>0, <1>3
  <2>1. Pow[4 + 2] = Pow[4] * Pow[2]
    BY <2>0, PowSum
  <2>2. Pow[4] = ByteBase * ByteBase /\ Pow[2] = ByteBase /\ 4 + 2 = 6
    BY <1>0, <1>1, <1>2, <1>3
  <2> QED
    BY <2>1, <2>2, Zenon
<1>4. CASE ExtranonceSize = 1
  BY <1>0, <1>1, <1>4 DEF MaxExtranonce, ExtranonceDigits
<1>5. CASE ExtranonceSize = 2
  BY <1>0, <1>2, <1>5 DEF MaxExtranonce, ExtranonceDigits
<1>6. CASE ExtranonceSize > 2
  <2>1. ExtranonceDigits = 6
    BY <1>0, <1>6 DEF ExtranonceDigits
  <2> QED
    BY <1>0, <1>3, <1>6, <2>1 DEF MaxExtranonce
<1> QED
  BY <1>0, <1>4, <1>5, <1>6

(* A number of two digits in base p is below p times what bounds the first *)
(* digit, and numbers with different first digits differ.                  *)
LEMMA TwoDigits ==
    ASSUME NEW p \in Nat, NEW q \in Nat, NEW e \in 0 .. q - 1, NEW r \in 0 .. p - 1
    PROVE  e * p + r \in 0 .. q * p - 1
<1>1. q - e >= 1 /\ q - e \in Nat
  OBVIOUS
<1>2. (q - e) * p >= p
  BY <1>1
<1>3. (q - e) * p = q * p - e * p
  OBVIOUS
<1>4. e * p \in Nat /\ q * p \in Nat
  OBVIOUS
<1> QED
  BY <1>2, <1>3, <1>4

LEMMA FirstDigit ==
    ASSUME NEW p \in Nat, NEW d \in Nat, NEW e \in Nat,
           NEW r \in 0 .. p - 1, NEW s \in 0 .. p - 1,
           d * p + r = e * p + s
    PROVE  d = e
<1>1. ASSUME NEW a \in Nat, NEW b \in Nat, a < b PROVE a * p + p <= b * p
  <2>1. b - a >= 1 /\ b - a \in Nat
    BY <1>1
  <2>2. (b - a) * p >= p
    BY <2>1
  <2>3. (b - a) * p = b * p - a * p /\ a * p \in Nat /\ b * p \in Nat
    OBVIOUS
  <2> QED
    BY <2>2, <2>3
<1>2. d * p \in Nat /\ e * p \in Nat
  OBVIOUS
<1>3. CASE d < e
  BY <1>1, <1>2, <1>3
<1>4. CASE e < d
  BY <1>1, <1>2, <1>4
<1> QED
  BY <1>3, <1>4

-----------------------------------------------------------------------------
(* One share.                                                              *)

LEMMA ExtranonceRange ==
    ASSUME RegistryInv, NEW w \in Accepted, extranonce[w] # NoExtranonce, Given
    PROVE  /\ w \in Ids /\ extranonce[w] \in Nat
           /\ extranonce[w] \in 0 .. Pow[ExtranonceDigits] - 1
<1>1. w \in Ids
  BY RegistryAssumption DEF RegistryInv, RegistryTypeOK, Accepted, Ids
<1>2. ExtranonceSize > 0
  BY <1>1, RegistryAssumption DEF Given
<1>3. extranonce[w] \in NoExtranonce .. MaxExtranonce
  BY <1>1 DEF RegistryInv, RegistryTypeOK
<1> QED
  BY <1>1, <1>2, <1>3, MaxExtranonceFits, MaxExtranonceNat DEF NoExtranonce

(* A nonce that a miner searches is a nonce. *)
LEMMA FoundIsNonce ==
    ASSUME RegistryInv, Given, NEW w \in Accepted, NEW r \in Searched(w)
    PROVE  Found(w, r) \in Nonces
<1>1. CASE extranonce[w] = NoExtranonce
  BY <1>1 DEF Found, Searched
<1>2. CASE extranonce[w] # NoExtranonce
  <2>1. r \in 0 .. Pow[Extranonce2Len] - 1
    BY <1>2 DEF Searched, Suffixes
  <2>2. extranonce[w] \in 0 .. Pow[ExtranonceDigits] - 1
    BY <1>2, ExtranonceRange
  <2>3. Pow[Extranonce2Len] \in Nat /\ Pow[ExtranonceDigits] \in Nat
    BY Powers, Lengths
  <2>4. extranonce[w] * Pow[Extranonce2Len] + r
           \in 0 .. Pow[ExtranonceDigits] * Pow[Extranonce2Len] - 1
    BY <2>1, <2>2, <2>3, TwoDigits
  <2> QED
    BY <1>2, <2>4, Powers DEF Found, Nonces
<1> QED
  BY <1>1, <1>2

(* Whichever way the miner writes its nonce, the bridge checks that nonce. *)
LEMMA CompleteIsFound ==
    ASSUME RegistryInv, Given, NEW w \in Accepted, NEW r \in Searched(w),
           NEW n \in 1 .. NonceDigits, NEW v, Writes(w, r, Says(n, v))
    PROVE  Complete(w, Says(n, v)).val = Found(w, r) /\ Parses(Complete(w, Says(n, v)))
<1> DEFINE s == Says(n, v)
<1>0. s.len = n /\ s.val = v /\ n \in Nat /\ n > 0 /\ NonceDigits > 0
  BY Lengths DEF Says
<1>1. Found(w, r) \in Nonces
  BY FoundIsNonce
<1>2. Pow[NonceDigits] \in Nat /\ Pow[Extranonce2Len] \in Nat /\ Pow[n] \in Nat
      /\ Extranonce2Len \in 0 .. NonceDigits
  BY Powers, Lengths
<1>3. Complete(w, s).val = Found(w, r) /\ Complete(w, s).len > 0
  <2>1. CASE extranonce[w] = NoExtranonce
    BY <1>0, <2>1 DEF Complete, Writes
  <2>2. CASE extranonce[w] # NoExtranonce /\ ~(n <= Extranonce2Len)
    BY <1>0, <2>2 DEF Complete, Writes
  <2>3. CASE extranonce[w] # NoExtranonce /\ n <= Extranonce2Len
    <3>1. /\ Complete(w, s).val = extranonce[w] * Pow[Extranonce2Len] + v
          /\ Complete(w, s).len > 0
      BY <1>0, <2>3 DEF Complete, WithExtranonce, Says
    <3>2. Found(w, r) = extranonce[w] * Pow[Extranonce2Len] + r
      BY <2>3 DEF Found
    <3>3. CASE v = r
      BY <3>1, <3>2, <3>3
    <3>4. CASE v = Found(w, r)
      \* The whole nonce, in too few digits for another extranonce than 0.
      <4>1. v \in 0 .. Pow[n] - 1
        BY <1>0 DEF Writes, Digits
      <4>2. Pow[n] <= Pow[Extranonce2Len]
        BY <1>0, <1>2, <2>3, PowMonotone
      <4>3. v \in 0 .. Pow[Extranonce2Len] - 1
        BY <1>2, <4>1, <4>2
      <4>4. r \in 0 .. Pow[Extranonce2Len] - 1
        BY <2>3 DEF Searched, Suffixes
      <4>5. extranonce[w] \in Nat
        BY <2>3, ExtranonceRange
      <4>6. 0 * Pow[Extranonce2Len] + v = extranonce[w] * Pow[Extranonce2Len] + r
        BY <1>2, <3>2, <3>4, <4>3
      <4>7. 0 = extranonce[w]
        BY <1>2, <4>3, <4>4, <4>5, <4>6, FirstDigit
      <4> QED
        BY <1>2, <3>1, <3>4, <4>3, <4>7
    <3> QED
      BY <1>0, <3>3, <3>4 DEF Writes
  <2> QED
    BY <2>1, <2>2, <2>3
<1> QED
  BY <1>1, <1>2, <1>3 DEF Parses, Nonces

-----------------------------------------------------------------------------

LEMMA NonceInit == Init => NonceInv
<1> SUFFICES ASSUME Init PROVE NonceInv
  OBVIOUS
<1>1. RegistryInv
  BY RegistryInitInv DEF Init
<1>2. NonceTypes /\ MeantIsChecked
  BY DEF Init, NonceTypes, MeantIsChecked
<1>3. Accepted = {}
  BY DEF Init, RegistryInit, Accepted
<1>4. Given /\ InOwnSpace
  BY <1>3 DEF Init, RegistryInit, Given, InOwnSpace
<1> QED
  BY <1>1, <1>2, <1>4 DEF NonceInv

LEMMA ConnectionKeeps == NonceInv /\ Connection => NonceInv'
<1> SUFFICES ASSUME NonceInv, Connection PROVE NonceInv'
  OBVIOUS
<1>0. RegistryNext /\ UNCHANGED <<meant, checked>>
  BY DEF Connection
<1>1. RegistryInv'
  BY <1>0, OnConnectInv, OnDisconnectInv DEF RegistryNext, NonceInv
<1>2. NonceTypes' /\ MeantIsChecked'
  BY <1>0 DEF NonceInv, NonceTypes, MeantIsChecked
<1>3. CASE OnConnect
  <2> DEFINE new == clientCounter + 1
  <2>1. clientCounter \in Nat /\ clientCounter' = new /\ new \in Ids /\ new \notin Accepted
        /\ Accepted \subseteq Ids
    BY <1>3, RegistryAssumption
    DEF NonceInv, RegistryInv, RegistryTypeOK, OnConnect, Accepted, Ids
  <2>2. \A i \in Accepted' : i = new \/ i \in Accepted
    BY <2>1 DEF Accepted
  <2>3. \A i \in Ids : i # new => extranonce'[i] = extranonce[i]
    BY <1>3, <2>1 DEF NonceInv, RegistryInv, RegistryTypeOK, OnConnect
  <2>4. extranonce'[new] =
           IF ExtranonceSize > 0 THEN nextExtranonce ELSE extranonce[new]
    BY <1>3, <2>1 DEF NonceInv, RegistryInv, RegistryTypeOK, OnConnect
  <2>5. nextExtranonce # NoExtranonce
    BY MaxExtranonceNat DEF NonceInv, RegistryInv, RegistryTypeOK, NoExtranonce
  <2>6. checked[new] = NoNonce
    BY <2>1 DEF NonceInv, Given
  <2>7. \A i \in Ids \ Accepted' : i \in Ids \ Accepted
    BY <2>1 DEF Accepted
  <2>8. Given'
    BY <1>0, <2>1, <2>2, <2>3, <2>4, <2>5, <2>7, RegistryAssumption DEF NonceInv, Given
  <2>9. InOwnSpace'
    <3> SUFFICES ASSUME NEW w \in Accepted', checked'[w] # NoNonce,
                        extranonce'[w] # NoExtranonce
                 PROVE  \E r \in Suffixes :
                           checked'[w] = extranonce'[w] * Pow[Extranonce2Len] + r
      BY DEF InOwnSpace, Suffixes, Extranonce2Len, ExtranonceDigits
    <3>1. w \in Accepted /\ w # new
      BY <1>0, <2>1, <2>2, <2>6
    <3> QED
      BY <1>0, <2>1, <2>3, <3>1 DEF NonceInv, InOwnSpace
  <2> QED
    BY <1>1, <1>2, <2>8, <2>9 DEF NonceInv
<1>4. ASSUME NEW w \in Ids, OnDisconnect(w) PROVE NonceInv'
  <2>1. UNCHANGED <<clientCounter, extranonce>>
    BY <1>4 DEF OnDisconnect
  <2>2. Given' /\ InOwnSpace'
    BY <1>0, <2>1 DEF NonceInv, Given, InOwnSpace, Accepted, Suffixes, Extranonce2Len,
                      ExtranonceDigits
  <2> QED
    BY <1>1, <1>2, <2>2 DEF NonceInv
<1> QED
  BY <1>0, <1>3, <1>4 DEF RegistryNext

LEMMA SubmitKeeps ==
    ASSUME NonceInv, NEW w \in Ids, NEW r \in Nonces, NEW n \in 1 .. NonceDigits,
           Submit(w, r, n)
    PROVE  NonceInv'
<1> USE DEF NonceInv
<1>0. w \in Accepted /\ r \in Searched(w) /\ UNCHANGED registryVars
  BY DEF Submit
<1>1. PICK v : /\ Writes(w, r, Says(n, v))
               /\ meant' = [meant EXCEPT ![w] = Found(w, r)]
               /\ checked' = [checked EXCEPT ![w] =
                     IF Parses(Complete(w, Says(n, v)))
                     THEN Complete(w, Says(n, v)).val ELSE NoNonce]
  BY DEF Submit
<1>2. Found(w, r) \in Nonces
  BY <1>0, FoundIsNonce
<1>3. Complete(w, Says(n, v)).val = Found(w, r) /\ Parses(Complete(w, Says(n, v)))
  BY <1>0, <1>1, CompleteIsFound
<1>4. checked' = [checked EXCEPT ![w] = Found(w, r)]
  BY <1>1, <1>3
<1>5. NonceTypes' /\ MeantIsChecked'
  BY <1>1, <1>2, <1>4 DEF NonceTypes, MeantIsChecked, Nonces
<1>6. RegistryInv'
  BY <1>0, RegistryStutters
<1>7. Accepted' = Accepted /\ extranonce' = extranonce
  BY <1>0 DEF registryVars, Accepted
<1>8. Given'
  BY <1>0, <1>4, <1>7 DEF Given, NonceTypes
<1>9. InOwnSpace'
  <2> SUFFICES ASSUME NEW i \in Accepted, checked'[i] # NoNonce,
                      extranonce[i] # NoExtranonce
               PROVE  \E q \in Suffixes :
                         checked'[i] = extranonce[i] * Pow[Extranonce2Len] + q
    BY <1>7 DEF InOwnSpace, Suffixes, Extranonce2Len, ExtranonceDigits
  <2>1. CASE i = w
    <3>1. r \in Suffixes /\ checked'[i] = extranonce[i] * Pow[Extranonce2Len] + r
      BY <1>0, <1>4, <2>1 DEF Searched, Found, NonceTypes
    <3> QED
      BY <3>1
  <2>2. CASE i # w
    BY <1>4, <2>2 DEF InOwnSpace, NonceTypes
  <2> QED
    BY <2>1, <2>2
<1> QED
  BY <1>5, <1>6, <1>8, <1>9

(* The inductive invariant of nonces. *)
THEOREM NonceInvariant == Spec => []NonceInv
<1>1. NonceInv /\ [Next]_vars => NonceInv'
  <2>1. ASSUME NonceInv, Next PROVE NonceInv'
    BY <2>1, ConnectionKeeps, SubmitKeeps DEF Next
  <2>2. ASSUME NonceInv, UNCHANGED vars PROVE NonceInv'
    <3>1. RegistryInv'
      BY <2>2, RegistryStutters DEF NonceInv, vars
    <3>2. UNCHANGED <<clientCounter, extranonce, meant, checked>>
      BY <2>2 DEF vars, registryVars
    <3> QED
      BY <2>2, <3>1, <3>2 DEF NonceInv, NonceTypes, MeantIsChecked, Given, InOwnSpace,
          Accepted, Suffixes, Nonces, Extranonce2Len, ExtranonceDigits
  <2> QED
    BY <2>1, <2>2
<1> QED
  BY <1>1, NonceInit, PTL DEF Spec

(* Every nonce that is checked fits in the digits of a nonce. *)
THEOREM NonceTypeOK == Spec => []TypeOK
<1>1. NonceInv => TypeOK
  BY DEF NonceInv, RegistryInv, NonceTypes, TypeOK
<1> QED
  BY <1>1, NonceInvariant, PTL

(* The bridge checks the nonce the miner found, however it was written. *)
THEOREM NonceMeantIsChecked == Spec => []MeantIsChecked
<1>1. NonceInv => MeantIsChecked
  BY DEF NonceInv
<1> QED
  BY <1>1, NonceInvariant, PTL

(* Clients of one round of extranonces are never checked for the same      *)
(* nonce.                                                                  *)
THEOREM NonceDisjointWork == Spec => []DisjointWork
<1>1. ASSUME NonceInv PROVE DisjointWork
  <2> SUFFICES ASSUME ExtranonceSize > 0, NEW i \in Accepted, NEW j \in Accepted,
                      i < j, j - i <= MaxExtranonce, checked[i] # NoNonce,
                      checked[i] = checked[j]
               PROVE  FALSE
    BY DEF DisjointWork
  <2>1. extranonce[i] # NoExtranonce /\ extranonce[j] # NoExtranonce
    BY <1>1 DEF NonceInv, Given
  <2>2. extranonce[i] \in Nat /\ extranonce[j] \in Nat
    BY <1>1, <2>1, ExtranonceRange DEF NonceInv
  <2>3. PICK r \in Suffixes : checked[i] = extranonce[i] * Pow[Extranonce2Len] + r
    BY <1>1, <2>1 DEF NonceInv, InOwnSpace
  <2>4. PICK s \in Suffixes : checked[j] = extranonce[j] * Pow[Extranonce2Len] + s
    BY <1>1, <2>1 DEF NonceInv, InOwnSpace
  <2>5. Pow[Extranonce2Len] \in Nat
    BY Powers, Lengths
  <2>6. extranonce[i] = extranonce[j]
    BY <2>2, <2>3, <2>4, <2>5, FirstDigit DEF Suffixes
  <2>7. extranonce[i] # extranonce[j]
    BY <1>1 DEF NonceInv, RegistryInv, DistinctInWindow
  <2> QED
    BY <2>6, <2>7
<1> QED
  BY <1>1, NonceInvariant, PTL

=============================================================================
