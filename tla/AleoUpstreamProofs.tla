------------------------- MODULE AleoUpstreamProofs -------------------------
(***************************************************************************)
(* Proofs about the upstream of an aleo bridge, for any number of lines    *)
(* and notifiers.                                                          *)
(***************************************************************************)
EXTENDS AleoUpstream, TLAPS

(* The requests sent on the connection, by where the goroutine is. *)
SessionRequests ==
    /\ node = "subscribe" => requests = {}
    /\ node \in {"subscribed", "authorize"} => requests = {"subscribe"}
    /\ node \in {"authorizing", "listen", "store", "notify"} =>
          requests = {"subscribe", "authorize"}

(* LastWork is behind the line that is handled, which is behind the lines  *)
(* to come.                                                                *)
LinesInOrder ==
    /\ lastWork <= nextRead
    /\ node \in {"store", "notify"} =>
          0 < at /\ lastWork <= at /\ at <= upto /\ upto <= nextRead
    /\ node = "notify" => lastWork = at

(* A notifier was started for a line that is LastWork or before it. *)
CausedByWork ==
    \A n \in Notifiers :
       /\ pc[n] \in {"isNil", "length", "take"} => cause[n] <= lastWork
       /\ pc[n] \in {"length", "take"} => lastWork > 0
       /\ pc[n] = "send" => taken[n] >= cause[n] /\ taken[n] > 0

UpstreamInv == TypeOK /\ SessionRequests /\ LinesInOrder /\ CausedByWork

LEMMA UpstreamInit == Init => UpstreamInv
<1> SUFFICES ASSUME Init PROVE UpstreamInv
  OBVIOUS
<1>1. TypeOK
  <2>1. /\ lines \in 0 .. MaxLines /\ nextRead \in 1 .. lines + 1
        /\ at \in 0 .. lines /\ upto \in 0 .. lines /\ lastWork \in 0 .. lines
    BY UpstreamAssumption DEF Init
  <2>2. kind \in [Lines -> Kinds]
    BY DEF Init, Kinds
  <2>3. /\ pc \in [Notifiers -> {"idle", "isNil", "length", "take", "send"}]
        /\ cause \in [Notifiers -> 0 .. lines] /\ taken \in [Notifiers -> 0 .. lines]
    BY DEF Init
  <2>4. requests = {} /\ sent = {} /\ failed = {}
    BY DEF Init
  <2>5. /\ conn \in {"none", "open", "eof", "reset"} /\ subscribed \in BOOLEAN
        /\ authorized \in BOOLEAN
        /\ node \in {"dial", "subscribe", "subscribed", "authorize", "authorizing",
                      "listen", "store", "notify"}
    BY DEF Init
  <2> QED
    BY <2>1, <2>2, <2>3, <2>4, <2>5 DEF TypeOK
<1>2. SessionRequests /\ LinesInOrder /\ CausedByWork
  BY DEF Init, SessionRequests, LinesInOrder, CausedByWork
<1> QED
  BY <1>1, <1>2 DEF UpstreamInv

-----------------------------------------------------------------------------

(* The numbers TypeOK bounds are integers. *)
LEMMA Numbers ==
    ASSUME TypeOK
    PROVE  /\ lines \in Nat /\ nextRead \in Nat /\ at \in Nat /\ upto \in Nat
           /\ lastWork \in Nat /\ MaxLines \in Nat
           /\ \A n \in Notifiers : cause[n] \in Nat /\ taken[n] \in Nat
  BY UpstreamAssumption DEF TypeOK

(* What a Read does to the numbers. *)
LEMMA ReadLinesMoves ==
    ASSUME TypeOK, NEW j \in Lines, NEW cut \in BOOLEAN, ReadLines(j, cut)
    PROVE  /\ kind' \in [Lines -> Kinds]
           /\ nextRead' \in 1 .. lines + 1
           /\ nextRead <= nextRead' /\ nextRead <= j /\ j <= lines /\ j <= nextRead'
<1>1. lines \in Nat /\ nextRead \in Nat /\ nextRead >= 1 /\ nextRead <= lines + 1
  BY Numbers DEF TypeOK
<1>2. j \in Nat /\ nextRead <= j /\ j <= lines
  BY <1>1, Numbers DEF ReadLines, Lines
<1>3. nextRead' = j \/ nextRead' = j + 1
  BY DEF ReadLines
<1>4. kind' \in [Lines -> Kinds]
  BY DEF ReadLines, TypeOK, Kinds
<1> QED
  BY <1>1, <1>2, <1>3, <1>4

(* More lines: larger ranges. *)
LEMMA Ranges ==
    ASSUME NEW a \in Nat, NEW b \in Nat, a <= b
    PROVE  /\ \A i : i \in 1 .. a + 1 => i \in 1 .. b + 1
           /\ \A i : i \in 0 .. a => i \in 0 .. b
           /\ \A i : i \in 1 .. a => i \in 1 .. b
  OBVIOUS

LEMMA PoolKeeps ==
    ASSUME UpstreamInv, PoolSends \/ PoolLeaves
    PROVE  UpstreamInv'
<1> USE DEF UpstreamInv
<1>0. UNCHANGED <<nextRead, nodeVars, lastWork, clientVars, threadVars>>
  BY DEF PoolSends, PoolLeaves
<1>1. lines \in Nat /\ lines' \in Nat /\ lines <= lines' /\ lines' <= MaxLines
      /\ MaxLines \in Nat
  BY Numbers DEF TypeOK, PoolSends, PoolLeaves
<1>2. kind' \in [Lines -> Kinds]
  BY DEF TypeOK, PoolSends, PoolLeaves
<1>3. conn' \in {"none", "open", "eof", "reset"}
  BY DEF TypeOK, PoolSends, PoolLeaves
<1>4. /\ \A i : i \in 1 .. lines + 1 => i \in 1 .. lines' + 1
      /\ \A i : i \in 0 .. lines => i \in 0 .. lines'
      /\ \A i : i \in 1 .. lines => i \in 1 .. lines'
  BY <1>1, Ranges
<1>5. TypeOK'
  <2>1. lines' \in 0 .. MaxLines
    BY <1>1
  <2>2. /\ nextRead' \in 1 .. lines' + 1 /\ at' \in 0 .. lines'
        /\ upto' \in 0 .. lines' /\ lastWork' \in 0 .. lines'
    BY <1>0, <1>4 DEF TypeOK, nodeVars
  <2>3. /\ cause' \in [Notifiers -> 0 .. lines']
        /\ taken' \in [Notifiers -> 0 .. lines']
    BY <1>0, <1>4 DEF TypeOK, threadVars
  <2>4. sent' \subseteq 1 .. lines' /\ failed' \subseteq 1 .. lines'
    BY <1>0, <1>4 DEF TypeOK, clientVars
  <2> QED
    BY <1>0, <1>2, <1>3, <2>1, <2>2, <2>3, <2>4
    DEF TypeOK, nodeVars, clientVars, threadVars
<1>6. SessionRequests' /\ LinesInOrder' /\ CausedByWork'
  BY <1>0 DEF SessionRequests, LinesInOrder, CausedByWork, nodeVars, threadVars
<1> QED
  BY <1>5, <1>6

LEMMA HandshakeKeeps ==
    ASSUME UpstreamInv,
           \/ Dial \/ Subscribe \/ Authorize
           \/ SubscribeResponse \/ AuthorizeResponse \/ ListenFails
    PROVE  UpstreamInv'
<1> USE DEF UpstreamInv
<1>0. UNCHANGED <<lines, at, upto, lastWork, clientVars, threadVars>>
  BY DEF Dial, Subscribe, Authorize, Request, SubscribeResponse,
      AuthorizeResponse, ReadResponse, ListenFails, poolVars
<1>1. /\ conn' \in {"none", "open", "eof", "reset"} /\ kind' \in [Lines -> Kinds]
      /\ nextRead' \in 1 .. lines + 1 /\ lastWork <= nextRead'
  <2>1. CASE Dial
    BY <2>1, Numbers DEF TypeOK, Dial
  <2>2. CASE Subscribe \/ Authorize \/ ListenFails
    BY <2>2 DEF TypeOK, LinesInOrder, Subscribe, Authorize, Request, ListenFails, poolVars
  <2>3. CASE SubscribeResponse \/ AuthorizeResponse
    <3>1. conn' = conn
      BY <2>3 DEF SubscribeResponse, AuthorizeResponse, ReadResponse, poolVars
    <3>2. CASE \E j \in Lines, cut \in BOOLEAN : ReadLines(j, cut)
      <4>1. kind' \in [Lines -> Kinds] /\ nextRead' \in 1 .. lines + 1
            /\ nextRead <= nextRead'
        BY <3>2, ReadLinesMoves
      <4>2. lastWork <= nextRead /\ lastWork \in Nat /\ nextRead \in Nat /\ lines \in Nat
        BY Numbers DEF LinesInOrder
      <4>3. nextRead' \in Nat
        BY <4>1, <4>2
      <4> QED
        BY <3>1, <4>1, <4>2, <4>3 DEF TypeOK
    <3>3. CASE UNCHANGED <<kind, nextRead>>
      BY <3>1, <3>3 DEF TypeOK, LinesInOrder
    <3> QED
      BY <2>3, <3>2, <3>3 DEF SubscribeResponse, AuthorizeResponse, ReadResponse
  <2> QED
    BY <2>1, <2>2, <2>3
<1>2. /\ node' \in {"dial", "subscribe", "subscribed", "authorize", "authorizing",
                    "listen"}
      /\ requests' \subseteq {"subscribe", "authorize"} /\ SessionRequests'
  BY DEF TypeOK, SessionRequests, Dial, Subscribe, Authorize, Request,
      SubscribeResponse, AuthorizeResponse, ReadResponse, ListenFails
<1>3. TypeOK'
  BY <1>0, <1>1, <1>2 DEF TypeOK, clientVars, threadVars
<1>4. LinesInOrder' /\ CausedByWork'
  BY <1>0, <1>1, <1>2 DEF LinesInOrder, CausedByWork, threadVars
<1> QED
  BY <1>2, <1>3, <1>4

LEMMA ListenKeeps ==
    ASSUME UpstreamInv, Listen \/ SetLastWork \/ BlockCb
    PROVE  UpstreamInv'
<1> USE DEF UpstreamInv
<1>0. /\ lines \in Nat /\ nextRead \in Nat /\ at \in Nat /\ upto \in Nat
      /\ lastWork \in Nat
      /\ \A n \in Notifiers : cause[n] \in Nat /\ taken[n] \in Nat
  BY Numbers
<1>1. CASE Listen
  <2>1. PICK j \in Lines, cut \in BOOLEAN : ReadLines(j, cut) /\ upto' = j
    BY <1>1 DEF Listen
  <2>2. /\ kind' \in [Lines -> Kinds] /\ nextRead' \in 1 .. lines + 1
        /\ nextRead <= nextRead' /\ nextRead <= j /\ j <= lines /\ j <= nextRead'
    BY <2>1, ReadLinesMoves
  <2>3. j \in Nat /\ nextRead' \in Nat /\ nextRead >= 1
    BY <1>0, <2>2 DEF Lines, TypeOK
  <2>4. /\ UNCHANGED <<poolVars, requests, lastWork, clientVars, threadVars>>
        /\ at' = nextRead /\ node = "listen" /\ node' = "store"
    BY <1>1 DEF Listen
  <2>5. at' \in 0 .. lines /\ upto' \in 0 .. lines
    BY <1>0, <2>1, <2>2, <2>3, <2>4
  <2>6. TypeOK'
    BY <2>2, <2>4, <2>5 DEF TypeOK, poolVars, clientVars, threadVars
  <2>7. LinesInOrder'
    BY <1>0, <2>1, <2>2, <2>3, <2>4 DEF LinesInOrder
  <2>8. SessionRequests' /\ CausedByWork'
    BY <2>4 DEF SessionRequests, CausedByWork, threadVars
  <2> QED
    BY <2>6, <2>7, <2>8
<1>2. CASE SetLastWork
  <2>1. /\ UNCHANGED <<poolVars, kind, nextRead, requests, at, upto, clientVars, threadVars>>
        /\ node = "store" /\ node' = "notify" /\ lastWork' = at
    BY <1>2 DEF SetLastWork
  <2>2. 0 < at /\ lastWork <= at /\ at <= upto /\ upto <= nextRead
    BY <2>1 DEF LinesInOrder
  <2>3. TypeOK'
    BY <2>1 DEF TypeOK, poolVars, clientVars, threadVars
  <2>4. LinesInOrder'
    BY <1>0, <2>1, <2>2 DEF LinesInOrder
  <2>5. CausedByWork'
    BY <1>0, <2>1, <2>2 DEF CausedByWork, threadVars
  <2>6. SessionRequests'
    BY <2>1 DEF SessionRequests
  <2> QED
    BY <2>3, <2>4, <2>5, <2>6
<1>3. CASE BlockCb
  <2>1. /\ UNCHANGED <<poolVars, kind, nextRead, requests, upto, lastWork, clientVars>>
        /\ node = "notify"
        /\ \/ at < upto /\ at' = at + 1 /\ node' = "store"
           \/ at = upto /\ at' = at /\ node' = "listen"
    BY <1>3 DEF BlockCb
  <2>2. 0 < at /\ lastWork = at /\ at <= upto /\ upto <= nextRead /\ upto <= lines
    BY <1>0, <2>1 DEF LinesInOrder, TypeOK
  <2>3. at' \in 0 .. lines
    BY <1>0, <2>1, <2>2
  <2>4. threadVars' = threadVars \/ \E n \in Notifiers : Notify(n, at)
    BY <1>3 DEF BlockCb
  <2>5. /\ pc' \in [Notifiers -> {"idle", "isNil", "length", "take", "send"}]
        /\ cause' \in [Notifiers -> 0 .. lines] /\ taken' = taken
    BY <2>4 DEF TypeOK, Notify, threadVars
  <2>6. TypeOK'
    BY <2>1, <2>3, <2>5 DEF TypeOK, poolVars, clientVars
  <2>7. LinesInOrder'
    BY <1>0, <2>1, <2>2 DEF LinesInOrder
  <2>8. CausedByWork'
    BY <1>0, <2>1, <2>2, <2>4 DEF CausedByWork, TypeOK, Notify, threadVars
  <2>9. SessionRequests'
    BY <2>1 DEF SessionRequests
  <2> QED
    BY <2>6, <2>7, <2>8, <2>9
<1> QED
  BY <1>1, <1>2, <1>3

LEMMA ClientKeeps ==
    ASSUME UpstreamInv, ClientSubscribes \/ ClientAuthorized \/ \E n \in Notifiers : Notifier(n)
    PROVE  UpstreamInv'
<1> USE DEF UpstreamInv
<1>0. /\ lines \in Nat /\ lastWork \in Nat
      /\ \A n \in Notifiers : cause[n] \in Nat /\ taken[n] \in Nat
  BY Numbers
<1>1. UNCHANGED <<poolVars, kind, nextRead, nodeVars, lastWork>>
  BY DEF ClientSubscribes, ClientAuthorized, Notifier, CheckNil, CheckLength, TakeParams, SendWork
<1>2. SessionRequests' /\ LinesInOrder'
  BY <1>1 DEF SessionRequests, LinesInOrder, nodeVars
<1>3. CASE ClientAuthorized
  <2>1. PICK n \in Notifiers : Notify(n, lastWork)
    BY <1>3 DEF ClientAuthorized
  <2>2. TypeOK'
    BY <1>1, <1>3, <2>1 DEF TypeOK, ClientAuthorized, Notify, poolVars, nodeVars
  <2>3. CausedByWork'
    BY <1>0, <1>1, <2>1 DEF TypeOK, CausedByWork, Notify
  <2> QED
    BY <1>2, <2>2, <2>3
<1>4. ASSUME NEW n \in Notifiers, CheckNil(n) \/ CheckLength(n) \/ TakeParams(n)
      PROVE  UpstreamInv'
  <2>1. /\ pc' \in [Notifiers -> {"idle", "isNil", "length", "take", "send"}]
        /\ taken' \in [Notifiers -> 0 .. lines] /\ UNCHANGED <<cause, clientVars>>
    BY <1>4 DEF TypeOK, CheckNil, CheckLength, TakeParams, Step
  <2>2. TypeOK'
    BY <1>1, <2>1 DEF TypeOK, poolVars, nodeVars, clientVars
  <2>3. CausedByWork'
    BY <1>0, <1>1, <1>4 DEF TypeOK, CausedByWork, CheckNil, CheckLength, TakeParams, Step
  <2> QED
    BY <1>2, <2>2, <2>3
<1>5. ASSUME NEW n \in Notifiers, SendWork(n)
      PROVE  UpstreamInv'
  <2>1. /\ pc' \in [Notifiers -> {"idle", "isNil", "length", "take", "send"}]
        /\ UNCHANGED <<cause, taken, subscribed, authorized>>
    BY <1>5 DEF TypeOK, SendWork, Step
  <2>2. taken[n] \in 1 .. lines
    BY <1>0, <1>5 DEF TypeOK, CausedByWork, SendWork, Step
  <2>3. sent' \subseteq 1 .. lines /\ failed' \subseteq 1 .. lines
    BY <1>5, <2>2 DEF TypeOK, SendWork
  <2>4. TypeOK'
    BY <1>1, <2>1, <2>3 DEF TypeOK, poolVars, nodeVars
  <2>5. CausedByWork'
    BY <1>1, <1>5, <2>1 DEF TypeOK, CausedByWork, SendWork, Step
  <2> QED
    BY <1>2, <2>4, <2>5
<1>6. CASE ClientSubscribes
  BY <1>1, <1>2, <1>6 DEF TypeOK, CausedByWork, ClientSubscribes, poolVars, nodeVars,
                          threadVars
<1> QED
  BY <1>3, <1>4, <1>5, <1>6 DEF Notifier

-----------------------------------------------------------------------------

(* The inductive invariant of the upstream. *)
THEOREM UpstreamInvariant == SafetySpec => []UpstreamInv
<1>1. Init => UpstreamInv
  BY UpstreamInit
<1>2. UpstreamInv /\ [Next]_vars => UpstreamInv'
  <2>1. ASSUME UpstreamInv, Next PROVE UpstreamInv'
    BY <2>1, PoolKeeps, HandshakeKeeps, ListenKeeps, ClientKeeps DEF Next, Session
  <2>2. ASSUME UpstreamInv, UNCHANGED vars PROVE UpstreamInv'
    BY <2>2 DEF UpstreamInv, TypeOK, SessionRequests, LinesInOrder, CausedByWork,
        vars, poolVars, nodeVars, clientVars, threadVars
  <2> QED
    BY <2>1, <2>2
<1> QED
  BY <1>1, <1>2, PTL DEF SafetySpec

(* The bridge never works on a line that the pool did not send. *)
THEOREM UpstreamTypeOK == SafetySpec => []TypeOK
<1>1. UpstreamInv => TypeOK
  BY DEF UpstreamInv
<1> QED
  BY <1>1, UpstreamInvariant, PTL

(* A notifier sends work no older than the line it was started for, with   *)
(* any number of notifiers that read LastWork while it is replaced.        *)
THEOREM UpstreamNoOlderWork == SafetySpec => []NoOlderWork
<1>1. UpstreamInv => NoOlderWork
  BY DEF UpstreamInv, CausedByWork, NoOlderWork
<1> QED
  BY <1>1, UpstreamInvariant, PTL

(* Listen runs only on a connection that was subscribed and authorized. *)
THEOREM UpstreamListensSubscribed == SafetySpec => []ListensSubscribed
<1>1. UpstreamInv => ListensSubscribed
  BY DEF UpstreamInv, SessionRequests, ListensSubscribed
<1> QED
  BY <1>1, UpstreamInvariant, PTL

=============================================================================
