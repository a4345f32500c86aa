------------------------ MODULE WorkersListenerProofs ------------------------
(***************************************************************************)
(* Proofs about the registry of clients, for every number of connections   *)
(* and every size of the extranonce.                                       *)
(***************************************************************************)
EXTENDS WorkersListener, TLAPS

(* How many connections before the counter the client i was accepted, and  *)
(* the extranonce it got if that is less than a full round ago: the count  *)
(* goes back from nextExtranonce - 1 and continues at the top below zero.  *)
Age(i) == clientCounter - i
HandedOut(d) == IF nextExtranonce - 1 - d >= 0
                THEN nextExtranonce - 1 - d
                ELSE nextExtranonce + MaxExtranonce - d

(* The inductive strengthening of DistinctInWindow: the extranonces of the *)
(* last round are the ones the counter has run through.                    *)
LastRound ==
    ExtranonceSize > 0 =>
      \A i \in Accepted : Age(i) <= MaxExtranonce => extranonce[i] = HandedOut(Age(i))

RegistryInv == RegistryTypeOK /\ LastRound /\ DistinctInWindow

(* maxExtranonce is a natural number for every configured size. *)
LEMMA MaxExtranonceNat == MaxExtranonce \in Nat
<1>1. \A b \in Nat \ {0} : b * b \in Nat \ {0} /\ b * b * b \in Nat \ {0}
  OBVIOUS
<1>2. ByteBase - 1 \in Nat /\ ByteBase * ByteBase - 1 \in Nat
      /\ ByteBase * ByteBase * ByteBase - 1 \in Nat
  BY <1>1, RegistryAssumption
<1> QED
  BY <1>2, RegistryAssumption DEF MaxExtranonce

(* A new registry satisfies the invariant. *)
LEMMA RegistryInitInv == RegistryInit => RegistryInv
  BY MaxExtranonceNat, RegistryAssumption
  DEF RegistryInit, RegistryInv, RegistryTypeOK, LastRound, DistinctInWindow,
      Accepted, Ids, NoExtranonce

(* Accepting a client keeps the invariant, also when the counter wraps. *)
LEMMA OnConnectInv == RegistryInv /\ OnConnect => RegistryInv'
<1> SUFFICES ASSUME RegistryInv, OnConnect PROVE RegistryInv'
  OBVIOUS
<1> DEFINE new == clientCounter + 1
<1> USE MaxExtranonceNat, RegistryAssumption
<1>0. clientCounter \in Nat /\ clientCounter' = new /\ new \in Ids
  BY DEF RegistryInv, RegistryTypeOK, OnConnect, Ids
<1>1. MaxExtranonce' = MaxExtranonce
  BY DEF MaxExtranonce
<1>2. nextExtranonce' \in 0 .. MaxExtranonce
  BY DEF RegistryInv, RegistryTypeOK, OnConnect, NextExtranonce
<1>3. extranonce' \in [Ids -> NoExtranonce .. MaxExtranonce]
  BY <1>0 DEF RegistryInv, RegistryTypeOK, OnConnect, NoExtranonce
<1>4. RegistryTypeOK'
  BY <1>0, <1>1, <1>2, <1>3
  DEF RegistryInv, RegistryTypeOK, OnConnect, Accepted, Ids
<1>5. CASE ExtranonceSize > 0
  <2>1. /\ extranonce'[new] = nextExtranonce
        /\ \A i \in Accepted : extranonce'[i] = extranonce[i]
        /\ Accepted \subseteq Ids
    BY <1>0, <1>5 DEF RegistryInv, RegistryTypeOK, OnConnect, Accepted, Ids
  <2>2. \A i \in Accepted' : i = new \/ i \in Accepted
    BY <1>0 DEF Accepted
  <2>3. LastRound'
    <3> SUFFICES ASSUME NEW i \in Accepted', Age(i)' <= MaxExtranonce
                 PROVE  extranonce'[i] = HandedOut(Age(i))'
      BY <1>1 DEF LastRound
    <3>1. CASE i = new
      BY <3>1, <2>1, <1>0, <1>1, <1>5
      DEF RegistryInv, RegistryTypeOK, OnConnect, NextExtranonce, Age, HandedOut
    <3>2. CASE i \in Accepted
      <4>1. Age(i)' = Age(i) + 1 /\ Age(i) \in Nat
        BY <3>2, <1>0 DEF Age, Accepted
      <4>2. extranonce'[i] = HandedOut(Age(i))
        BY <4>1, <3>2, <2>1, <1>1, <1>5 DEF RegistryInv, LastRound, Age
      <4>3. HandedOut(Age(i))' = HandedOut(Age(i))
        BY <4>1, <1>1, <1>5
        DEF RegistryInv, RegistryTypeOK, OnConnect, NextExtranonce, HandedOut
      <4> QED
        BY <4>2, <4>3
    <3> QED
      BY <3>1, <3>2, <2>2
  <2>4. DistinctInWindow'
    <3> SUFFICES ASSUME NEW i \in Accepted', NEW j \in Accepted',
                        i < j, j - i <= MaxExtranonce
                 PROVE  extranonce'[i] # extranonce'[j]
      BY <1>1 DEF DistinctInWindow
    <3>1. i \in Accepted
      BY <2>2, <1>0 DEF Accepted
    <3>2. CASE j \in Accepted
      BY <3>1, <3>2, <2>1, <1>5 DEF RegistryInv, DistinctInWindow
    <3>3. CASE j = new
      <4>1. Age(i) \in 0 .. MaxExtranonce - 1
        BY <3>1, <3>3, <1>0 DEF Age, Accepted
      <4>2. extranonce[i] = HandedOut(Age(i))
        BY <4>1, <3>1, <1>5 DEF RegistryInv, LastRound
      <4>3. HandedOut(Age(i)) # nextExtranonce
        BY <4>1 DEF RegistryInv, RegistryTypeOK, HandedOut
      <4> QED
        BY <4>2, <4>3, <3>1, <3>3, <2>1
    <3> QED
      BY <3>2, <3>3, <2>2
  <2> QED
    BY <1>4, <2>3, <2>4 DEF RegistryInv
<1>6. CASE ~(ExtranonceSize > 0)
  BY <1>4, <1>6 DEF RegistryInv, LastRound, DistinctInWindow
<1> QED
  BY <1>5, <1>6

(* Removing a client, even a second time, keeps the invariant. *)
LEMMA OnDisconnectInv ==
    ASSUME NEW w \in Ids, RegistryInv, OnDisconnect(w)
    PROVE  RegistryInv'
<1>1. MaxExtranonce' = MaxExtranonce
  BY DEF MaxExtranonce
<1> QED
  BY <1>1 DEF RegistryInv, RegistryTypeOK, LastRound, DistinctInWindow,
              OnDisconnect, Accepted, Age, HandedOut

(* A step that does not touch the registry keeps it too. *)
LEMMA RegistryStutters == RegistryInv /\ UNCHANGED registryVars => RegistryInv'
<1>1. MaxExtranonce' = MaxExtranonce
  BY DEF MaxExtranonce
<1> QED
  BY <1>1 DEF RegistryInv, RegistryTypeOK, LastRound, DistinctInWindow,
              registryVars, Accepted, Age, HandedOut

(* The registry always satisfies the inductive invariant. *)
THEOREM RegistryInvariant == RegistrySpec => []RegistryInv
<1>1. RegistryInv /\ [RegistryNext]_registryVars => RegistryInv'
  BY OnConnectInv, OnDisconnectInv, RegistryStutters DEF RegistryNext
<1> QED
  BY <1>1, RegistryInitInv, PTL DEF RegistrySpec

(* The registry is well typed: no extranonce exceeds maxExtranonce. *)
THEOREM RegistryTypes == RegistrySpec => []RegistryTypeOK
  BY RegistryInvariant, PTL DEF RegistryInv

(* Any maxExtranonce + 1 consecutive connections have distinct             *)
(* extranonces, for every size of the extranonce and however clients leave.*)
THEOREM ExtranonceWindow == RegistrySpec => []DistinctInWindow
  BY RegistryInvariant, PTL DEF RegistryInv

=============================================================================
