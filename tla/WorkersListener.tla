--------------------------- MODULE WorkersListener ---------------------------
(***************************************************************************)
(* The registry of connected miners (poolstratum/workers_listener.go):     *)
(* OnConnect numbers a client, hands it an extranonce and registers it;    *)
(* OnDisconnect removes it.  The extranonce is the prefix of the nonces a  *)
(* miner may try, so two miners with the same one search the same nonces.  *)
(*                                                                         *)
(* OnConnect is called by one goroutine only (tcpListener) and changes the *)
(* registry under clientLock, so it is one action; so is OnDisconnect.     *)
(* ctx.Extranonce is a fixed-width hexadecimal string: the number stands   *)
(* for it, and NoExtranonce for the empty string.                          *)
(***************************************************************************)
EXTENDS Integers, FiniteSets

CONSTANTS MaxClients,      \* bound: connections accepted in a behaviour
          ExtranonceSize,  \* extranonceSize, bytes of extranonce (0 = none)
          ByteBase         \* values of one byte: 256 in the code

ASSUME RegistryAssumption == /\ MaxClients \in Nat
                             /\ ExtranonceSize \in Nat
                             /\ ByteBase \in Nat \ {0}

VARIABLES clientCounter,   \* c.clientCounter
          nextExtranonce,  \* c.nextExtranonce
          clients,         \* the keys of c.clients
          extranonce       \* ctx.Extranonce of every client

registryVars == <<clientCounter, nextExtranonce, clients, extranonce>>

Ids == 1 .. MaxClients
Accepted == 1 .. clientCounter
NoExtranonce == -1

(* maxExtranonce: 2^(8 * min(extranonceSize, 3)) - 1. *)
MaxExtranonce ==
    IF ExtranonceSize = 0 THEN 0
    ELSE IF ExtranonceSize = 1 THEN ByteBase - 1
    ELSE IF ExtranonceSize = 2 THEN ByteBase * ByteBase - 1
    ELSE ByteBase * ByteBase * ByteBase - 1

RegistryInit == /\ clientCounter = 0
                /\ nextExtranonce = 0
                /\ clients = {}
                /\ extranonce = [i \in Ids |-> NoExtranonce]

(* Mutated form: the counter goes back to 0 one value early. *)
NextExtranonceWrapsEarly == IF nextExtranonce + 1 < MaxExtranonce
                            THEN nextExtranonce + 1 ELSE 0

(* Mutated form: the counter wraps one value late. *)
NextExtranonceWrapsLate == IF nextExtranonce <= MaxExtranonce
                           THEN nextExtranonce + 1 ELSE 0

NextExtranonce == IF nextExtranonce < MaxExtranonce
                  THEN nextExtranonce + 1 ELSE 0

OnConnect ==
    /\ clientCounter < MaxClients
    /\ clientCounter' = clientCounter + 1
    /\ clients' = clients \cup {clientCounter'}
    /\ IF ExtranonceSize > 0
       THEN /\ extranonce' = [extranonce EXCEPT ![clientCounter'] = nextExtranonce]
            /\ nextExtranonce' = NextExtranonce
       ELSE UNCHANGED <<extranonce, nextExtranonce>>

(* delete(c.clients, ctx.Id) does nothing for a key that is not there: the *)
(* same client may be removed twice.                                       *)
OnDisconnect(w) ==
    /\ w \in Accepted
    /\ clients' = clients \ {w}
    /\ UNCHANGED <<clientCounter, nextExtranonce, extranonce>>

RegistryNext == OnConnect \/ \E w \in Ids : OnDisconnect(w)

RegistrySpec == RegistryInit /\ [][RegistryNext]_registryVars

-----------------------------------------------------------------------------

(* Every variable of the registry has its type; in particular the counter  *)
(* of extranonces never exceeds maxExtranonce, the largest value that fits *)
(* in the extranonceSize bytes of the hexadecimal string.                  *)
RegistryTypeOK ==
    /\ clientCounter \in 0 .. MaxClients
    /\ nextExtranonce \in 0 .. MaxExtranonce
    /\ clients \subseteq Accepted
    /\ extranonce \in [Ids -> NoExtranonce .. MaxExtranonce]

(* OnConnect gives any maxExtranonce + 1 consecutive connections distinct  *)
(* extranonces: two clients share one only when at least that many         *)
(* connections were accepted from the older to the younger.                *)
DistinctInWindow ==
    ExtranonceSize > 0 =>
      \A i, j \in Accepted :
         (i < j /\ j - i <= MaxExtranonce) => extranonce[i] # extranonce[j]

(* What config.yaml documents of extranonce_size ("1 byte = 256 clients"): *)
(* a client that connects while, with it, no more clients are connected    *)
(* than there are extranonces gets one that no other connected client has. *)
FreeExtranonceIsGiven ==
    [][(/\ ExtranonceSize > 0
        /\ clientCounter' \in clients' \ clients
        /\ Cardinality(clients') <= MaxExtranonce + 1)
       => \A w \in clients : extranonce[w] # extranonce'[clientCounter']]_registryVars

=============================================================================
