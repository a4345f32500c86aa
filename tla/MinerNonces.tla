----------------------------- MODULE MinerNonces -----------------------------
(***************************************************************************)
(* The nonce of a share (poolstratum/share_handler.go).  A miner searches  *)
(* the nonces that begin with the extranonce it was given and may send     *)
(* what it found as the whole nonce or without the extranonce, with or     *)
(* without leading zeros.  The bridge tells these apart by the length of   *)
(* the string alone.                                                       *)
(*                                                                         *)
(* A string of hexadecimal digits is the number of its digits and its      *)
(* value; Pow[n] is how many strings of n digits there are.  The miner is  *)
(* outside the repository; the checks before this (the parameters, the job *)
(* id) and the reply after it are in ShareStats.                           *)
(***************************************************************************)
EXTENDS WorkersListener

CONSTANTS NonceDigits,  \* digits of a nonce: 16 in the code
          DigitBase     \* values of one digit: 16 in the code

(* Digits of ctx.Extranonce: "%0*x", extranonceSize*2 of a size that the   *)
(* configuration cuts to 3.                                                *)
ExtranonceDigits == 2 * (IF ExtranonceSize > 3 THEN 3 ELSE ExtranonceSize)

ASSUME NoncesAssumption ==
    /\ NonceDigits \in Nat /\ ExtranonceDigits < NonceDigits
    /\ DigitBase \in Nat /\ DigitBase > 1
    /\ ByteBase = DigitBase * DigitBase

(* Pow[n] is DigitBase to the power n. *)
Strings(n) == [1 .. n -> 0 .. DigitBase - 1]
Pow == [n \in 0 .. NonceDigits |-> Cardinality(Strings(n))]

VARIABLES meant,    \* meant[w]: the nonce of w's last share, as the miner found it
          checked   \* checked[w]: submitInfo.NonceVal for that share

vars == <<registryVars, meant, checked>>

NoNonce == -1
Nonces == 0 .. Pow[NonceDigits] - 1

(* extranonce2Len *)
Extranonce2Len == NonceDigits - ExtranonceDigits
Suffixes == 0 .. Pow[Extranonce2Len] - 1

(* What n digits can say. *)
Says(n, v) == [len |-> n, val |-> v]
Digits(s) == s.len \in 0 .. NonceDigits /\ s.val \in 0 .. Pow[s.len] - 1

Init == /\ RegistryInit
        /\ meant = [w \in Ids |-> NoNonce]
        /\ checked = [w \in Ids |-> NoNonce]

(* ctx.Extranonce followed by s, which is padded with zeros in between. *)
WithExtranonce(w, s) ==
    Says(NonceDigits, extranonce[w] * Pow[Extranonce2Len] + s.val)

(* Mutated form: a string of exactly extranonce2Len digits is left alone. *)
CompleteShorter(w, s) ==
    IF extranonce[w] # NoExtranonce /\ s.len < Extranonce2Len
    THEN WithExtranonce(w, s) ELSE s

(* Mutated form: the string is never completed. *)
CompleteNever(w, s) == s

(* The string that is parsed as the nonce. *)
Complete(w, s) ==
    IF extranonce[w] # NoExtranonce /\ s.len <= Extranonce2Len
    THEN WithExtranonce(w, s) ELSE s

(* strconv.ParseUint fails for no digits, and for more than 64 bits. *)
Parses(s) == s.len > 0 /\ s.val < Pow[NonceDigits]

(* The nonce r of the nonces w searches. *)
Found(w, r) == IF extranonce[w] = NoExtranonce THEN r
               ELSE extranonce[w] * Pow[Extranonce2Len] + r

Searched(w) == IF extranonce[w] = NoExtranonce THEN Nonces ELSE Suffixes

(* s is the nonce Found(w, r) in digits, or is r for who leaves out the    *)
(* extranonce.                                                             *)
Writes(w, r, s) ==
    /\ Digits(s) /\ s.len > 0
    /\ \/ s.val = Found(w, r)
       \/ extranonce[w] # NoExtranonce /\ s.len <= Extranonce2Len /\ s.val = r

(* Miner w submits nonce r of its nonces, written as n digits; the handler *)
(* completes and parses it.                                                *)
Submit(w, r, n) ==
    /\ w \in Accepted /\ r \in Searched(w)
    /\ \E v \in {Found(w, r), r} :
          /\ Writes(w, r, Says(n, v))
          /\ meant' = [meant EXCEPT ![w] = Found(w, r)]
          /\ LET s == Complete(w, Says(n, v)) IN
             checked' = [checked EXCEPT ![w] = IF Parses(s) THEN s.val ELSE NoNonce]
    /\ UNCHANGED registryVars

Connection == RegistryNext /\ UNCHANGED <<meant, checked>>

Next == \/ Connection
        \/ \E w \in Ids, r \in Nonces, n \in 1 .. NonceDigits : Submit(w, r, n)

Spec == Init /\ [][Next]_vars

-----------------------------------------------------------------------------

(* Every variable has its type; in particular a nonce that is checked fits *)
(* in the NonceDigits digits of a nonce.                                   *)
TypeOK == /\ RegistryTypeOK
          /\ meant \in [Ids -> Nonces \cup {NoNonce}]
          /\ checked \in [Ids -> Nonces \cup {NoNonce}]

(* The bridge checks the nonce that the miner found, whichever way it was  *)
(* written: a whole nonce that lost so many zeros that it is taken for one *)
(* without extranonce begins with the extranonce 0 anyway.                 *)
MeantIsChecked == checked = meant

(* What extranonces are for: no two clients are credited for the same      *)
(* nonce, unless the extranonces have come round between them.             *)
DisjointWork ==
    ExtranonceSize > 0 =>
      \A i, j \in Accepted :
         (i < j /\ j - i <= MaxExtranonce /\ checked[i] # NoNonce) => checked[i] # checked[j]

=============================================================================
