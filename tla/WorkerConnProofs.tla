-------------------------- MODULE WorkerConnProofs --------------------------
(***************************************************************************)
(* Proofs about the connections, for every number of clients, notifiers,   *)
(* write attempts and concurrent calls of Disconnect.                      *)
(***************************************************************************)
EXTENDS WorkerConn, WorkersListenerProofs

(* The invariant is a conjunction of parts that need each other.           *)

(* A client that was not accepted has no goroutine and is not marked. *)
FreshIsIdle ==
    \A w \in Ids \ Accepted :
       /\ reader[w] = "none"
       /\ \A t \in Threads : pc[w][t] = "idle"
       /\ \A s \in Steps : calls[w][s] = 0
       /\ ~disconnecting[w]

(* The reader sends only while it handles a line. *)
ReaderSends ==
    \A w \in Ids : reader[w] \notin {"subscribe", "authorize", "submit"} =>
                      pc[w][Reader] = "idle"

(* What the steps of Disconnect have established for the later ones: a     *)
(* call is past the mark only if the client is marked, it sends (and the   *)
(* listener removes) only if the socket is closed, and exactly the clients *)
(* that were counted are gone from the registry.                           *)
CloseOrder ==
    \A w \in Ids :
       /\ calls[w]["close"] > 0 => disconnecting[w]
       /\ calls[w]["send"] > 0 => disconnecting[w] /\ closed[w]
       /\ delivering = w => disconnecting[w] /\ closed[w]
       /\ disconnects[w] > 0 => disconnecting[w] /\ closed[w]
       /\ disconnects[w] > 0 <=> w \in Accepted \ clients
       /\ disconnecting[w] => logouts[w] > 0

ConnInv == /\ RegistryInv /\ TypeOK /\ FreshIsIdle /\ ReaderSends
           /\ WriteExclusion /\ CloseOrder /\ LogoutsAccounted

-----------------------------------------------------------------------------
(* Types.                                                                  *)

ConnTypes ==
    /\ disconnecting \in [Ids -> BOOLEAN] /\ closed \in [Ids -> BOOLEAN]
    /\ writeLock \in [Ids -> BOOLEAN]
    /\ reader \in [Ids -> ReaderStates]
    /\ pc \in [Ids -> [Threads -> ThreadStates]]
    /\ msg \in [Ids -> [Threads -> Messages]]
    /\ tries \in [Ids -> [Threads -> 0 .. MaxWriteAttempts - 1]]
    /\ calls \in [Ids -> [Steps -> Nat]]
    /\ delivering \in 0 .. MaxClients
    /\ subscribed \in [Ids -> BOOLEAN] /\ hasWallet \in [Ids -> BOOLEAN]
    /\ cancelled \in BOOLEAN /\ accepting \in BOOLEAN /\ listening \in BOOLEAN
    /\ logouts \in [Ids -> Nat] /\ disconnects \in [Ids -> Nat]

LEMMA TypeParts == TypeOK <=> RegistryTypeOK /\ ConnTypes
  BY DEF TypeOK, ConnTypes

(* The variables that hold a value for every client and thread, and the    *)
(* counts of the calls, are updated at one place.                          *)
LEMMA GotoTypes ==
    ASSUME ConnTypes, NEW w \in Ids, NEW t \in Threads, NEW s \in ThreadStates,
           Goto(w, t, s)
    PROVE  pc' \in [Ids -> [Threads -> ThreadStates]]
  BY DEF ConnTypes, Goto

LEMMA MsgTypes ==
    ASSUME ConnTypes, NEW w \in Ids, NEW t \in Threads, NEW m \in Messages,
           msg' = [msg EXCEPT ![w][t] = m]
    PROVE  msg' \in [Ids -> [Threads -> Messages]]
  BY DEF ConnTypes

LEMMA CallTypes ==
    ASSUME ConnTypes, NEW w \in Ids,
           \/ CallDisconnect(w)
           \/ \E f, g \in Steps : Advance(w, f, g)
           \/ \E f \in Steps : Return(w, f)
    PROVE  calls' \in [Ids -> [Steps -> Nat]]
<1>1. CASE CallDisconnect(w)
  BY <1>1 DEF ConnTypes, CallDisconnect, Steps
<1>2. ASSUME NEW f \in Steps, NEW g \in Steps, Advance(w, f, g)
      PROVE  calls' \in [Ids -> [Steps -> Nat]]
  <2>1. calls[w] \in [Steps -> Nat] /\ calls[w][f] - 1 \in Nat /\ calls[w][f] \in Nat
    BY <1>2 DEF ConnTypes, Advance
  <2>2. [calls[w] EXCEPT ![f] = @ - 1] \in [Steps -> Nat]
    BY <2>1
  <2>3. [[calls[w] EXCEPT ![f] = @ - 1] EXCEPT ![g] = @ + 1] \in [Steps -> Nat]
    BY <2>2
  <2> QED
    BY <2>1, <2>3, <1>2 DEF ConnTypes, Advance
<1>3. ASSUME NEW f \in Steps, Return(w, f)
      PROVE  calls' \in [Ids -> [Steps -> Nat]]
  BY <1>3 DEF ConnTypes, Return
<1> QED
  BY <1>1, <1>2, <1>3

LEMMA DisconnectTypes ==
    ASSUME ConnTypes, NEW w \in Ids, DisconnectStep(w)
    PROVE  ConnTypes' /\ UNCHANGED registryVars
<1> USE DEF serverVars, sessionVars, threadVars, lockVars, closeVars, removeVars
<1>0. calls' \in [Ids -> [Steps -> Nat]]
  BY CallTypes
  DEF DisconnectStep, DisconnectCheck, DisconnectPublish, DisconnectClose,
      DisconnectSend, Steps
<1>1. CASE DisconnectCheck(w)
  BY <1>0, <1>1 DEF ConnTypes, DisconnectCheck
<1>2. CASE DisconnectPublish(w)
  BY <1>0, <1>2 DEF ConnTypes, DisconnectPublish
<1>3. CASE DisconnectClose(w)
  BY <1>0, <1>3 DEF ConnTypes, DisconnectClose
<1>4. CASE DisconnectSend(w)
  BY <1>0, <1>4, RegistryAssumption DEF ConnTypes, DisconnectSend, Ids
<1> QED
  BY <1>1, <1>2, <1>3, <1>4 DEF DisconnectStep

LEMMA SendTypes ==
    ASSUME ConnTypes, NEW w \in Ids, NEW t \in Threads, SendStep(w, t)
    PROVE  ConnTypes' /\ UNCHANGED registryVars
<1> USE ConnAssumption
    DEF serverVars, sessionVars, threadVars, lockVars, callVars, closeVars,
        removeVars, ThreadStates
<1>1. CASE CheckConnected(w, t)
  BY <1>1, GotoTypes DEF ConnTypes, CheckConnected
<1>2. CASE AcquireWriteLock(w, t)
  BY <1>2, GotoTypes DEF ConnTypes, AcquireWriteLock
<1>3. CASE WriteBlocked(w, t)
  <2>1. tries' \in [Ids -> [Threads -> 0 .. MaxWriteAttempts - 1]]
    <3>1. \A i \in 0 .. MaxWriteAttempts - 1 :
             [tries EXCEPT ![w][t] = i] \in [Ids -> [Threads -> 0 .. MaxWriteAttempts - 1]]
      BY DEF ConnTypes
    <3>2. tries[w][t] \in 0 .. MaxWriteAttempts - 1
      BY DEF ConnTypes
    <3>3. tries[w][t] + 1 < MaxWriteAttempts =>
             tries[w][t] + 1 \in 0 .. MaxWriteAttempts - 1
      BY <3>2
    <3>4. \/ /\ tries[w][t] + 1 < MaxWriteAttempts
             /\ tries' = [tries EXCEPT ![w][t] = tries[w][t] + 1]
          \/ tries' = [tries EXCEPT ![w][t] = 0]
      BY <1>3 DEF WriteBlocked
    <3> QED
      BY <3>1, <3>3, <3>4
  <2>2. pc' \in [Ids -> [Threads -> ThreadStates]]
    BY <1>3, GotoTypes DEF ConnTypes, WriteBlocked
  <2> QED
    BY <1>3, <2>1, <2>2 DEF ConnTypes, WriteBlocked
<1>4. CASE SetWriteDeadline(w, t)
  BY <1>4, GotoTypes DEF ConnTypes, SetWriteDeadline
<1>5. CASE Write(w, t)
  <2>1. calls' \in [Ids -> [Steps -> Nat]] /\ pc' \in [Ids -> [Threads -> ThreadStates]]
    BY <1>5, CallTypes, GotoTypes DEF ConnTypes, Write
  <2> QED
    BY <1>5, <2>1 DEF ConnTypes, Write
<1> QED
  BY <1>1, <1>2, <1>3, <1>4, <1>5 DEF SendStep

LEMMA NotifierTypes ==
    ASSUME ConnTypes, NEW w \in Ids, NEW n \in Notifiers, NotifierStep(w, n)
    PROVE  ConnTypes' /\ UNCHANGED registryVars
<1> USE DEF serverVars, sessionVars, threadVars, lockVars, callVars, closeVars,
            removeVars, ThreadStates, Threads
<1>1. CASE NoParams(w, n)
  <2>1. calls' \in [Ids -> [Steps -> Nat]] /\ pc' \in [Ids -> [Threads -> ThreadStates]]
    BY <1>1, CallTypes, GotoTypes DEF ConnTypes, NoParams
  <2> QED
    BY <1>1, <2>1 DEF ConnTypes, NoParams
<1>2. CASE GetNotifyParams(w, n)
  BY <1>2, GotoTypes, MsgTypes DEF ConnTypes, GetNotifyParams, Messages
<1>3. CASE NotifierSent(w, n)
  BY <1>3, GotoTypes, MsgTypes DEF ConnTypes, NotifierSent, Finished, Messages
<1> QED
  BY <1>1, <1>2, <1>3 DEF NotifierStep

LEMMA NotifiedTypes ==
    ASSUME NEW P \in [Ids -> [Threads -> ThreadStates]], NEW n \in Notifiers
    PROVE  Notified(P, n) \in [Ids -> [Threads -> ThreadStates]]
  BY DEF Notified, Threads, ThreadStates

LEMMA ReaderTypes ==
    ASSUME ConnTypes, NEW w \in Ids, ReaderStep(w)
    PROVE  ConnTypes' /\ UNCHANGED registryVars
<1> USE DEF serverVars, sessionVars, threadVars, lockVars, callVars, closeVars,
            removeVars, ThreadStates, Threads, ReaderStates, ReaderIs
<1>1. CASE Read(w)
  BY <1>1 DEF ConnTypes, Read
<1>2. CASE ReadFails(w) \/ BadLine(w) \/ EndOfBuffer(w)
  BY <1>2, CallTypes DEF ConnTypes, ReadFails, BadLine, EndOfBuffer, Exit
<1>3. CASE HandleSubscribe(w) \/ HandleAuthorize(w) \/ HandleSubmit(w)
  BY <1>3, GotoTypes, MsgTypes
  DEF ConnTypes, HandleSubscribe, HandleAuthorize, HandleSubmit, Say, Messages
<1>4. CASE VerdictSent(w) \/ SendExtranonce(w)
  BY <1>4, GotoTypes, MsgTypes
  DEF ConnTypes, VerdictSent, SendExtranonce, Say, Messages
<1>5. CASE ReplyFailed(w)
  <2>1. calls' \in [Ids -> [Steps -> Nat]]
    BY <1>5, CallTypes DEF ConnTypes, ReplyFailed, Exit
  <2> QED
    BY <1>5, <2>1, GotoTypes, MsgTypes
    DEF ConnTypes, ReplyFailed, Exit, Finished, Messages
<1>6. CASE Replied(w)
  BY <1>6, GotoTypes, MsgTypes DEF ConnTypes, Replied, Finished, Messages
<1>7. CASE Authorized(w)
  <2> DEFINE P == [pc EXCEPT ![w][Reader] = "idle"]
  <2>1. P \in [Ids -> [Threads -> ThreadStates]]
    BY DEF ConnTypes
  <2>2. PICK n \in Notifiers : pc' = Notified(P, n)
    BY <1>7 DEF Authorized
  <2> HIDE DEF P
  <2>3. pc' \in [Ids -> [Threads -> ThreadStates]]
    BY <2>1, <2>2, NotifiedTypes
  <2> QED
    BY <1>7, <2>3, MsgTypes DEF ConnTypes, Authorized, Messages
<1> QED
  BY <1>1, <1>2, <1>3, <1>4, <1>5, <1>6, <1>7
  DEF ReaderStep, HandleLine, HandlerStep

LEMMA ServerTypes ==
    ASSUME ConnTypes, RegistryTypeOK,
           \/ NewClient \/ Cancel \/ StopAccepting \/ StopListening
           \/ \E n \in Notifiers : NewBlockAvailable(n)
           \/ \E w \in Ids : HandleDisconnect(w)
    PROVE  ConnTypes'
<1> USE RegistryAssumption
    DEF serverVars, sessionVars, threadVars, lockVars, callVars, closeVars, removeVars
<1>1. CASE NewClient
  <2>1. clientCounter' \in Ids
    BY <1>1 DEF NewClient, OnConnect, RegistryTypeOK, Ids
  <2> QED
    BY <1>1, <2>1 DEF ConnTypes, NewClient, ReaderStates
<1>2. CASE Cancel \/ StopAccepting \/ StopListening
  BY <1>2 DEF ConnTypes, Cancel, StopAccepting, StopListening
<1>3. ASSUME NEW n \in Notifiers, NewBlockAvailable(n) PROVE ConnTypes'
  <2>1. pc' \in [Ids -> [Threads -> ThreadStates]]
    BY <1>3, NotifiedTypes DEF ConnTypes, NewBlockAvailable
  <2> QED
    BY <1>3, <2>1 DEF ConnTypes, NewBlockAvailable
<1>4. ASSUME NEW w \in Ids, HandleDisconnect(w) PROVE ConnTypes'
  BY <1>4 DEF ConnTypes, HandleDisconnect
<1> QED
  BY <1>1, <1>2, <1>3, <1>4

-----------------------------------------------------------------------------
(* Clients that were not accepted.                                         *)

LEMMA FreshSteps ==
    ASSUME ConnTypes, RegistryTypeOK, FreshIsIdle, NEW w \in Ids,
           \/ DisconnectStep(w)
           \/ ReaderStep(w)
           \/ \E t \in Threads : SendStep(w, t)
           \/ \E n \in Notifiers : NotifierStep(w, n)
    PROVE  FreshIsIdle'
<1> USE DEF registryVars, serverVars, sessionVars, threadVars, lockVars,
            callVars, closeVars, removeVars
<1>0. Accepted' = Accepted
  BY DisconnectTypes, ReaderTypes, SendTypes, NotifierTypes DEF Accepted
<1> SUFFICES ASSUME NEW v \in Ids, v \notin Accepted
             PROVE  /\ reader'[v] = reader[v] /\ pc'[v] = pc[v]
                    /\ calls'[v] = calls[v] /\ disconnecting'[v] = disconnecting[v]
  BY <1>0 DEF FreshIsIdle
<1>1. CASE DisconnectStep(w)
  <2>1. v # w
    BY <1>1 DEF FreshIsIdle, ConnTypes, DisconnectStep, DisconnectCheck,
        DisconnectPublish, DisconnectClose, DisconnectSend, Advance, Return, Steps
  <2> QED
    BY <1>1, <2>1 DEF ConnTypes, DisconnectStep, DisconnectCheck,
        DisconnectPublish, DisconnectClose, DisconnectSend, Advance, Return
<1>2. CASE ReaderStep(w)
  <2>1. CASE Authorized(w)
    <3>1. v # w /\ v \notin clients
      BY <2>1 DEF FreshIsIdle, RegistryTypeOK, Authorized
    <3> QED
      BY <2>1, <3>1 DEF ConnTypes, Authorized, Notified, Eligible, ReaderIs
  <2>2. CASE ~Authorized(w)
    <3>1. v # w
      BY <1>2, <2>2 DEF FreshIsIdle, ReaderStep, HandleLine, HandlerStep, Read,
          ReadFails, BadLine, EndOfBuffer, HandleSubscribe, HandleAuthorize,
          HandleSubmit, VerdictSent, ReplyFailed, Replied, SendExtranonce, Result,
          Threads
    <3> QED
      BY <1>2, <2>2, <3>1 DEF ConnTypes, ReaderStep, HandleLine, HandlerStep, Read,
          ReadFails, BadLine, EndOfBuffer, HandleSubscribe, HandleAuthorize,
          HandleSubmit, VerdictSent, ReplyFailed, Replied, SendExtranonce,
          ReaderIs, Exit, CallDisconnect, Say, Goto, Finished
  <2> QED
    BY <2>1, <2>2
<1>3. ASSUME NEW t \in Threads, SendStep(w, t)
      PROVE  /\ reader'[v] = reader[v] /\ pc'[v] = pc[v]
             /\ calls'[v] = calls[v] /\ disconnecting'[v] = disconnecting[v]
  <2>1. v # w
    BY <1>3 DEF FreshIsIdle, SendStep, CheckConnected, AcquireWriteLock,
        WriteBlocked, SetWriteDeadline, Write
  <2> QED
    BY <1>3, <2>1 DEF ConnTypes, SendStep, CheckConnected, AcquireWriteLock,
        WriteBlocked, SetWriteDeadline, Write, CallDisconnect, Goto
<1>4. ASSUME NEW n \in Notifiers, NotifierStep(w, n)
      PROVE  /\ reader'[v] = reader[v] /\ pc'[v] = pc[v]
             /\ calls'[v] = calls[v] /\ disconnecting'[v] = disconnecting[v]
  <2>1. v # w
    BY <1>4 DEF FreshIsIdle, NotifierStep, NoParams, GetNotifyParams, NotifierSent,
        Threads
  <2> QED
    BY <1>4, <2>1 DEF ConnTypes, NotifierStep, NoParams, GetNotifyParams,
        NotifierSent, CallDisconnect, Goto, Finished
<1> QED
  BY <1>1, <1>2, <1>3, <1>4

LEMMA FreshServer ==
    ASSUME ConnTypes, RegistryTypeOK, FreshIsIdle,
           \/ NewClient \/ Cancel \/ StopAccepting \/ StopListening
           \/ \E n \in Notifiers : NewBlockAvailable(n)
           \/ \E w \in Ids : HandleDisconnect(w)
    PROVE  FreshIsIdle'
<1> USE DEF registryVars, serverVars, sessionVars, threadVars, lockVars,
            callVars, closeVars, removeVars
<1>1. CASE NewClient
  <2>1. clientCounter' = clientCounter + 1 /\ clientCounter \in Nat
    BY <1>1, RegistryAssumption DEF NewClient, OnConnect, RegistryTypeOK
  <2>2. \A v \in Ids \ Accepted' : v \in Ids \ Accepted /\ v # clientCounter'
    BY <2>1 DEF Accepted, Ids
  <2>3. \A v \in Ids \ Accepted' : reader'[v] = reader[v]
    BY <1>1, <2>2 DEF NewClient, ConnTypes
  <2> QED
    BY <1>1, <2>2, <2>3 DEF FreshIsIdle, NewClient
<1>2. CASE Cancel \/ StopAccepting \/ StopListening
  BY <1>2 DEF FreshIsIdle, Cancel, StopAccepting, StopListening, Accepted
<1>3. ASSUME NEW n \in Notifiers, NewBlockAvailable(n) PROVE FreshIsIdle'
  <2>1. \A v \in Ids \ Accepted : pc'[v] = pc[v]
    BY <1>3 DEF NewBlockAvailable, Notified, Eligible, RegistryTypeOK
  <2> QED
    BY <1>3, <2>1 DEF FreshIsIdle, NewBlockAvailable, Accepted
<1>4. ASSUME NEW w \in Ids, HandleDisconnect(w) PROVE FreshIsIdle'
  BY <1>4 DEF FreshIsIdle, HandleDisconnect, OnDisconnect, Accepted
<1> QED
  BY <1>1, <1>2, <1>3, <1>4

-----------------------------------------------------------------------------
(* The reader and the write lock.                                          *)

(* A step that leaves the lock alone and moves no thread into or out of    *)
(* write keeps the exclusion.                                              *)
LEMMA ExclusionKept ==
    ASSUME WriteExclusion, writeLock' = writeLock,
           \A w \in Ids : \A t \in Threads : Holds(w, t)' <=> Holds(w, t)
    PROVE  WriteExclusion'
  BY DEF WriteExclusion

LEMMA DisconnectWrites ==
    ASSUME WriteExclusion, ReaderSends, NEW w \in Ids, DisconnectStep(w)
    PROVE  WriteExclusion' /\ ReaderSends'
<1>1. UNCHANGED <<pc, writeLock, reader>>
  BY DEF DisconnectStep, DisconnectCheck, DisconnectPublish, DisconnectClose,
         DisconnectSend, threadVars, lockVars, sessionVars
<1> QED
  BY <1>1, ExclusionKept DEF Holds, ReaderSends

LEMMA SendWrites ==
    ASSUME ConnTypes, WriteExclusion, ReaderSends,
           NEW w \in Ids, NEW t \in Threads, SendStep(w, t)
    PROVE  WriteExclusion' /\ ReaderSends'
<1> USE DEF sessionVars, lockVars
<1>0. /\ pc \in [Ids -> [Threads -> ThreadStates]]
      /\ writeLock \in [Ids -> BOOLEAN]
  BY DEF ConnTypes
<1>1. ReaderSends'
  <2>1. pc[w][t] # "idle" /\ reader' = reader
    BY DEF SendStep, CheckConnected, AcquireWriteLock, WriteBlocked,
           SetWriteDeadline, Write
  <2>2. \A v \in Ids : v # w \/ t # Reader => pc'[v][Reader] = pc[v][Reader]
    BY <1>0 DEF SendStep, CheckConnected, AcquireWriteLock, WriteBlocked,
           SetWriteDeadline, Write, Goto, Threads
  <2> QED
    BY <2>1, <2>2 DEF ReaderSends
<1>2. CASE CheckConnected(w, t) \/ WriteBlocked(w, t)
  <2>1. writeLock' = writeLock
    BY <1>2 DEF CheckConnected, WriteBlocked
  <2>2. \A v \in Ids : \A u \in Threads : Holds(v, u)' <=> Holds(v, u)
    BY <1>0, <1>2 DEF CheckConnected, WriteBlocked, Goto, Holds
  <2> QED
    BY <1>1, <2>1, <2>2, ExclusionKept
<1>3. CASE AcquireWriteLock(w, t)
  <2>1. /\ \A v \in Ids \ {w} : writeLock'[v] = writeLock[v]
        /\ writeLock'[w] /\ ~writeLock[w]
    BY <1>0, <1>3 DEF AcquireWriteLock
  <2>2. \A v \in Ids : \A u \in Threads :
           Holds(v, u)' <=> Holds(v, u) \/ (v = w /\ u = t)
    BY <1>0, <1>3 DEF AcquireWriteLock, Goto, Holds
  <2> QED
    BY <1>1, <2>1, <2>2 DEF WriteExclusion
<1>4. CASE SetWriteDeadline(w, t) \/ Write(w, t)
  <2>1. Holds(w, t)
    BY <1>4 DEF SetWriteDeadline, Write, Holds
  <2>2. CASE SetWriteDeadline(w, t) /\ ~closed[w]
    <3>1. \A v \in Ids : \A u \in Threads : Holds(v, u)' <=> Holds(v, u)
      BY <1>0, <2>2 DEF SetWriteDeadline, Goto, Holds
    <3>2. writeLock' = [writeLock EXCEPT ![w] = TRUE] /\ writeLock[w] = TRUE
      BY <1>0, <2>1, <2>2 DEF SetWriteDeadline, WriteExclusion
    <3>3. writeLock' = writeLock
      BY <1>0, <3>2
    <3> QED
      BY <1>1, <3>1, <3>3, ExclusionKept
  <2>3. CASE Write(w, t) \/ (SetWriteDeadline(w, t) /\ closed[w])
    <3>1. \A v \in Ids : \A u \in Threads :
             Holds(v, u)' <=> Holds(v, u) /\ ~(v = w /\ u = t)
      BY <1>0, <2>3 DEF Write, SetWriteDeadline, Goto, Holds
    <3>2. /\ \A v \in Ids \ {w} : writeLock'[v] = writeLock[v]
          /\ ~writeLock'[w]
      BY <1>0, <2>3 DEF Write, SetWriteDeadline
    <3> QED
      BY <1>1, <2>1, <3>1, <3>2 DEF WriteExclusion
  <2> QED
    BY <1>4, <2>2, <2>3
<1> QED
  BY <1>2, <1>3, <1>4 DEF SendStep

LEMMA NotifierWrites ==
    ASSUME ConnTypes, WriteExclusion, ReaderSends,
           NEW w \in Ids, NEW n \in Notifiers, NotifierStep(w, n)
    PROVE  WriteExclusion' /\ ReaderSends'
<1>1. pc \in [Ids -> [Threads -> ThreadStates]] /\ n # Reader /\ n \in Threads
  BY ConnAssumption DEF ConnTypes, Threads
<1>2. writeLock' = writeLock /\ reader' = reader
  BY DEF NotifierStep, NoParams, GetNotifyParams, NotifierSent, lockVars, sessionVars
<1>3. \A v \in Ids : \A u \in Threads : Holds(v, u)' <=> Holds(v, u)
  BY <1>1 DEF NotifierStep, NoParams, GetNotifyParams, NotifierSent, Goto,
              Finished, Holds
<1>4. \E s \in ThreadStates : pc' = [pc EXCEPT ![w][n] = s]
  BY DEF NotifierStep, NoParams, GetNotifyParams, NotifierSent, Goto, Finished,
         ThreadStates
<1>5. \A v \in Ids : pc'[v][Reader] = pc[v][Reader]
  BY <1>1, <1>4
<1> QED
  BY <1>2, <1>3, <1>5, ExclusionKept DEF ReaderSends

(* Starting notifier n where it is free moves no thread in or out of write, *)
(* and does not touch the reader.                                          *)
LEMMA NotifiedWrites ==
    ASSUME NEW P \in [Ids -> [Threads -> ThreadStates]], NEW n \in Notifiers,
           Free(n), \A v \in Ids : P[v][n] = pc[v][n]
    PROVE  \A v \in Ids :
              /\ \A u \in Threads :
                    Notified(P, n)[v][u] \in {"locked", "writing"}
                      <=> P[v][u] \in {"locked", "writing"}
              /\ Notified(P, n)[v][Reader] = P[v][Reader]
  BY ConnAssumption DEF Notified, Free, Threads, ThreadStates

LEMMA ReaderWrites ==
    ASSUME ConnTypes, WriteExclusion, ReaderSends, NEW w \in Ids, ReaderStep(w)
    PROVE  WriteExclusion' /\ ReaderSends'
<1> USE DEF lockVars, threadVars
<1>0. /\ pc \in [Ids -> [Threads -> ThreadStates]] /\ Reader \in Threads
      /\ reader \in [Ids -> ReaderStates]
  BY DEF ConnTypes, Threads
<1>1. writeLock' = writeLock
  BY DEF ReaderStep, HandleLine, HandlerStep, Read, ReadFails, BadLine,
         EndOfBuffer, HandleSubscribe, HandleAuthorize, HandleSubmit, VerdictSent,
         ReplyFailed, Replied, SendExtranonce, Authorized
<1>2. CASE Read(w) \/ ReadFails(w) \/ BadLine(w) \/ EndOfBuffer(w)
  <2>1. pc' = pc /\ pc[w][Reader] = "idle"
        /\ \A v \in Ids \ {w} : reader'[v] = reader[v]
    BY <1>0, <1>2 DEF Read, ReadFails, BadLine, EndOfBuffer, ReaderIs, Exit,
                      ReaderSends
  <2> QED
    BY <1>1, <2>1, ExclusionKept DEF Holds, ReaderSends
<1>3. CASE HandleSubscribe(w) \/ HandleAuthorize(w) \/ HandleSubmit(w)
  <2>1. pc[w][Reader] = "idle" /\ Goto(w, Reader, "send")
        /\ \E h \in {"subscribe", "authorize", "submit"} : ReaderIs(w, h)
    BY <1>3 DEF HandleSubscribe, HandleAuthorize, HandleSubmit, Say, ReaderSends
  <2>2. \A v \in Ids : \A u \in Threads : Holds(v, u)' <=> Holds(v, u)
    BY <1>0, <2>1 DEF Goto, Holds
  <2>3. ReaderSends'
    BY <1>0, <2>1 DEF Goto, ReaderIs, ReaderSends
  <2> QED
    BY <1>1, <2>2, <2>3, ExclusionKept
<1>4. CASE VerdictSent(w) \/ SendExtranonce(w)
  <2>1. pc[w][Reader] \in {"ok", "err", "timeout"} /\ Goto(w, Reader, "send")
        /\ reader' = reader
    BY <1>4 DEF VerdictSent, SendExtranonce, Say, Result, sessionVars
  <2>2. \A v \in Ids : \A u \in Threads : Holds(v, u)' <=> Holds(v, u)
    BY <1>0, <2>1 DEF Goto, Holds
  <2>3. ReaderSends'
    BY <1>0, <2>1 DEF Goto, ReaderSends
  <2> QED
    BY <1>1, <2>2, <2>3, ExclusionKept
<1>5. CASE ReplyFailed(w) \/ Replied(w)
  <2>1. pc[w][Reader] \in {"ok", "err", "timeout"} /\ Goto(w, Reader, "idle")
        /\ \A v \in Ids \ {w} : reader'[v] = reader[v]
    BY <1>0, <1>5 DEF ReplyFailed, Replied, Finished, Result, ReaderIs, Exit
  <2>2. \A v \in Ids : \A u \in Threads : Holds(v, u)' <=> Holds(v, u)
    BY <1>0, <2>1 DEF Goto, Holds
  <2>3. ReaderSends'
    BY <1>0, <2>1 DEF Goto, ReaderSends
  <2> QED
    BY <1>1, <2>2, <2>3, ExclusionKept
<1>6. CASE Authorized(w)
  <2> DEFINE P == [pc EXCEPT ![w][Reader] = "idle"]
  <2>1. PICK n \in Notifiers : Free(n) /\ pc' = Notified(P, n)
    BY <1>6 DEF Authorized
  <2>2. pc[w][Reader] \in {"ok", "err", "timeout"} /\ ReaderIs(w, "scanned")
    BY <1>6 DEF Authorized, Result
  <2>3. /\ P \in [Ids -> [Threads -> ThreadStates]]
        /\ \A v \in Ids : P[v][n] = pc[v][n]
        /\ \A v \in Ids : \A u \in Threads :
              P[v][u] \in {"locked", "writing"} <=> Holds(v, u)
        /\ \A v \in Ids : P[v][Reader] = IF v = w THEN "idle" ELSE pc[v][Reader]
    BY <1>0, <2>2, ConnAssumption DEF Holds, Threads, ThreadStates
  <2> HIDE DEF P
  <2>4. \A v \in Ids : \A u \in Threads : Holds(v, u)' <=> Holds(v, u)
    BY <2>1, <2>3, NotifiedWrites DEF Holds
  <2>5. \A v \in Ids : pc'[v][Reader] = P[v][Reader]
    BY <2>1, <2>3, NotifiedWrites
  <2>6. ReaderSends'
    BY <1>0, <2>2, <2>3, <2>5 DEF ReaderSends, ReaderIs
  <2> QED
    BY <1>1, <2>4, <2>6, ExclusionKept
<1> QED
  BY <1>2, <1>3, <1>4, <1>5, <1>6 DEF ReaderStep, HandleLine, HandlerStep

LEMMA ServerWrites ==
    ASSUME ConnTypes, RegistryTypeOK, FreshIsIdle, WriteExclusion, ReaderSends,
           \/ NewClient \/ Cancel \/ StopAccepting \/ StopListening
           \/ \E n \in Notifiers : NewBlockAvailable(n)
           \/ \E w \in Ids : HandleDisconnect(w)
    PROVE  WriteExclusion' /\ ReaderSends'
<1> USE DEF sessionVars, threadVars, lockVars
<1>1. CASE NewClient
  <2>1. pc' = pc /\ writeLock' = writeLock
    BY <1>1 DEF NewClient
  <2>2. clientCounter' \in Ids \ Accepted
    BY <1>1, RegistryAssumption DEF NewClient, OnConnect, RegistryTypeOK, Ids, Accepted
  <2>3. ReaderSends'
    BY <1>1, <2>1, <2>2
    DEF NewClient, ConnTypes, ReaderSends, FreshIsIdle, Threads
  <2> QED
    BY <2>1, <2>3, ExclusionKept DEF Holds
<1>2. CASE \/ Cancel \/ StopAccepting \/ StopListening
           \/ \E w \in Ids : HandleDisconnect(w)
  <2>1. UNCHANGED <<pc, writeLock, reader>>
    BY <1>2 DEF Cancel, StopAccepting, StopListening, HandleDisconnect
  <2> QED
    BY <2>1, ExclusionKept DEF Holds, ReaderSends
<1>3. ASSUME NEW n \in Notifiers, NewBlockAvailable(n)
      PROVE  WriteExclusion' /\ ReaderSends'
  <2>1. pc' = Notified(pc, n) /\ Free(n) /\ UNCHANGED <<writeLock, reader>>
    BY <1>3 DEF NewBlockAvailable
  <2>2. pc \in [Ids -> [Threads -> ThreadStates]]
    BY DEF ConnTypes
  <2>3. \A v \in Ids :
           /\ \A u \in Threads : Notified(pc, n)[v][u] \in {"locked", "writing"}
                                   <=> pc[v][u] \in {"locked", "writing"}
           /\ Notified(pc, n)[v][Reader] = pc[v][Reader]
    BY <2>1, <2>2, NotifiedWrites
  <2>4. \A v \in Ids : /\ \A u \in Threads : Holds(v, u)' <=> Holds(v, u)
                       /\ pc'[v][Reader] = pc[v][Reader]
    BY <2>1, <2>3 DEF Holds
  <2> QED
    BY <2>1, <2>4, ExclusionKept DEF ReaderSends
<1> QED
  BY <1>1, <1>2, <1>3

-----------------------------------------------------------------------------
(* The order of the steps of Disconnect, and the account of the logouts.   *)

Past == {"publish", "close", "send"}

(* A step that removes and marks nobody, and at most lets a goroutine      *)
(* enter Disconnect, keeps both.                                           *)
LEMMA ClosingKept ==
    ASSUME CloseOrder, LogoutsAccounted,
           UNCHANGED <<registryVars, closeVars, removeVars>>,
           \A w \in Ids : \A s \in Past : calls'[w][s] = calls[w][s]
    PROVE  CloseOrder' /\ LogoutsAccounted'
<1>1. /\ clientCounter' = clientCounter /\ clients' = clients
      /\ disconnecting' = disconnecting /\ closed' = closed /\ logouts' = logouts
      /\ delivering' = delivering /\ disconnects' = disconnects
  BY DEF registryVars, closeVars, removeVars
<1>2. \A w \in Ids : /\ calls'[w]["close"] = calls[w]["close"]
                     /\ calls'[w]["send"] = calls[w]["send"]
  BY DEF Past
<1> QED
  BY <1>1, <1>2 DEF CloseOrder, LogoutsAccounted, Delivered, Accepted

LEMMA CallKeepsPast ==
    ASSUME ConnTypes, NEW w \in Ids, CallDisconnect(w) \/ UNCHANGED calls
    PROVE  \A v \in Ids : \A s \in Past : calls'[v][s] = calls[v][s]
<1>1. CASE UNCHANGED calls
  BY <1>1
<1>2. CASE CallDisconnect(w)
  <2>1. \A v \in Ids : v # w => calls'[v] = calls[v]
    BY <1>2 DEF ConnTypes, CallDisconnect
  <2>2. \A s \in Past : calls'[w][s] = calls[w][s]
    <3>1. calls' = [calls EXCEPT ![w] = [calls[w] EXCEPT !["check"] = @ + 1]]
      BY <1>2 DEF CallDisconnect
    <3>2. calls'[w] = [calls[w] EXCEPT !["check"] = @ + 1]
          /\ calls[w] \in [Steps -> Nat]
      BY <3>1 DEF ConnTypes
    <3> QED
      BY <3>2 DEF Past, Steps
  <2> QED
    BY <2>1, <2>2
<1> QED
  BY <1>1, <1>2

LEMMA OtherStepsClosing ==
    ASSUME ConnTypes, CloseOrder, LogoutsAccounted, NEW w \in Ids,
           \/ ReaderStep(w)
           \/ \E t \in Threads : SendStep(w, t)
           \/ \E n \in Notifiers : NotifierStep(w, n)
    PROVE  CloseOrder' /\ LogoutsAccounted'
<1> USE DEF callVars
<1>1. CASE ReaderStep(w)
  <2>1. /\ UNCHANGED <<registryVars, closeVars, removeVars>>
        /\ CallDisconnect(w) \/ UNCHANGED calls
    BY <1>1 DEF ReaderStep, HandleLine, HandlerStep, Read, ReadFails, BadLine,
        EndOfBuffer, HandleSubscribe, HandleAuthorize, HandleSubmit, VerdictSent,
        ReplyFailed, Replied, SendExtranonce, Authorized, Exit
  <2> QED
    BY <2>1, CallKeepsPast, ClosingKept
<1>2. ASSUME NEW t \in Threads, SendStep(w, t) PROVE CloseOrder' /\ LogoutsAccounted'
  <2>1. /\ UNCHANGED <<registryVars, closeVars, removeVars>>
        /\ CallDisconnect(w) \/ UNCHANGED calls
    BY <1>2 DEF SendStep, CheckConnected, AcquireWriteLock, WriteBlocked,
        SetWriteDeadline, Write
  <2> QED
    BY <2>1, CallKeepsPast, ClosingKept
<1>3. ASSUME NEW n \in Notifiers, NotifierStep(w, n)
      PROVE  CloseOrder' /\ LogoutsAccounted'
  <2>1. /\ UNCHANGED <<registryVars, closeVars, removeVars>>
        /\ CallDisconnect(w) \/ UNCHANGED calls
    BY <1>3 DEF NotifierStep, NoParams, GetNotifyParams, NotifierSent
  <2> QED
    BY <2>1, CallKeepsPast, ClosingKept
<1> QED
  BY <1>1, <1>2, <1>3

(* The counts after a call went on, or returned. *)
LEMMA CallCounts ==
    ASSUME ConnTypes, NEW w \in Ids, NEW f \in Steps
    PROVE  /\ \A g \in Steps \ {f} : Advance(w, f, g) =>
                 /\ \A v \in Ids \ {w} : calls'[v] = calls[v]
                 /\ \A s \in Steps \ {f, g} : calls'[w][s] = calls[w][s]
                 /\ calls'[w][f] = calls[w][f] - 1 /\ calls[w][f] > 0
                 /\ calls'[w][g] = calls[w][g] + 1
           /\ Return(w, f) =>
                 /\ \A v \in Ids \ {w} : calls'[v] = calls[v]
                 /\ \A s \in Steps \ {f} : calls'[w][s] = calls[w][s]
                 /\ calls'[w][f] = calls[w][f] - 1 /\ calls[w][f] > 0
           /\ \A v \in Ids : \A s \in Steps : calls[v][s] \in Nat
  BY DEF ConnTypes, Advance, Return

LEMMA DisconnectClosing ==
    ASSUME ConnTypes, CloseOrder, LogoutsAccounted, NEW w \in Ids, DisconnectStep(w)
    PROVE  CloseOrder' /\ LogoutsAccounted'
<1>0. /\ disconnecting \in [Ids -> BOOLEAN] /\ closed \in [Ids -> BOOLEAN]
      /\ logouts \in [Ids -> Nat] /\ disconnects \in [Ids -> Nat]
      /\ \A v \in Ids : \A s \in Steps : calls[v][s] \in Nat
  BY CallCounts DEF ConnTypes
<1>1. CASE DisconnectCheck(w)
  <2>1. \A v \in Ids : /\ calls'[v]["close"] = calls[v]["close"]
                       /\ calls'[v]["send"] = calls[v]["send"]
    BY <1>1, CallCounts DEF DisconnectCheck, Steps
  <2> QED
    BY <1>1, <2>1 DEF DisconnectCheck, CloseOrder, LogoutsAccounted, Delivered,
        registryVars, closeVars, removeVars, Accepted
<1>2. CASE DisconnectPublish(w)
  <2>1. /\ \A v \in Ids \ {w} : calls'[v] = calls[v]
        /\ calls'[w]["close"] = calls[w]["close"] + 1
        /\ calls'[w]["send"] = calls[w]["send"]
    BY <1>2, CallCounts DEF DisconnectPublish, Steps
  <2>2. /\ \A v \in Ids \ {w} : disconnecting'[v] = disconnecting[v] /\ logouts'[v] = logouts[v]
        /\ disconnecting'[w] /\ logouts'[w] = logouts[w] + 1
    BY <1>0, <1>2 DEF DisconnectPublish
  <2>3. UNCHANGED <<clientCounter, clients, closed, delivering, disconnects>>
    BY <1>2 DEF DisconnectPublish, registryVars, removeVars
  <2>4. CloseOrder'
    BY <1>0, <2>1, <2>2, <2>3 DEF CloseOrder, Accepted
  <2>5. LogoutsAccounted'
    BY <1>0, <2>1, <2>2, <2>3 DEF LogoutsAccounted, Delivered, Steps
  <2> QED
    BY <2>4, <2>5
<1>3. CASE DisconnectClose(w)
  <2>1. /\ \A v \in Ids \ {w} : calls'[v] = calls[v]
        /\ calls'[w]["close"] = calls[w]["close"] - 1 /\ calls[w]["close"] > 0
        /\ calls'[w]["send"] = calls[w]["send"] + 1
    BY <1>3, CallCounts DEF DisconnectClose, Steps
  <2>2. /\ \A v \in Ids \ {w} : closed'[v] = closed[v]
        /\ closed'[w]
    BY <1>0, <1>3 DEF DisconnectClose
  <2>3. UNCHANGED <<clientCounter, clients, disconnecting, logouts, delivering, disconnects>>
    BY <1>3 DEF DisconnectClose, registryVars, removeVars
  <2>4. CloseOrder'
    BY <1>0, <2>1, <2>2, <2>3 DEF CloseOrder, Accepted
  <2>5. LogoutsAccounted'
    <3> SUFFICES ASSUME NEW v \in Ids
                 PROVE  logouts'[v] = disconnects'[v] + calls'[v]["close"]
                                     + calls'[v]["send"] + Delivered(v)'
      BY DEF LogoutsAccounted
    <3>1. /\ calls[v]["close"] \in Nat /\ calls[v]["send"] \in Nat
          /\ logouts[v] \in Nat /\ disconnects[v] \in Nat
          /\ logouts[v] = disconnects[v] + calls[v]["close"]
                          + calls[v]["send"] + Delivered(v)
      BY <1>0 DEF LogoutsAccounted, Steps
    <3>2. CASE v = w
      BY <3>1, <3>2, <2>1, <2>3 DEF Delivered, Ids
    <3>3. CASE v # w
      BY <3>1, <3>3, <2>1, <2>3 DEF Delivered, Ids
    <3> QED
      BY <3>2, <3>3
  <2> QED
    BY <2>4, <2>5
<1>4. CASE DisconnectSend(w)
  <2>1. /\ \A v \in Ids \ {w} : calls'[v] = calls[v]
        /\ calls'[w]["close"] = calls[w]["close"]
        /\ calls'[w]["send"] = calls[w]["send"] - 1 /\ calls[w]["send"] > 0
    BY <1>4, CallCounts DEF DisconnectSend, Steps
  <2>2. /\ UNCHANGED <<clientCounter, clients, disconnecting, closed, logouts, disconnects>>
        /\ delivering = 0 /\ delivering' = w
    BY <1>4 DEF DisconnectSend, registryVars, closeVars
  <2>3. CloseOrder'
    BY <1>0, <2>1, <2>2 DEF CloseOrder, Accepted
  <2>4. LogoutsAccounted'
    <3> SUFFICES ASSUME NEW v \in Ids
                 PROVE  logouts'[v] = disconnects'[v] + calls'[v]["close"]
                                     + calls'[v]["send"] + Delivered(v)'
      BY DEF LogoutsAccounted
    <3>1. /\ calls[v]["close"] \in Nat /\ calls[v]["send"] \in Nat
          /\ logouts[v] \in Nat /\ disconnects[v] \in Nat
          /\ logouts[v] = disconnects[v] + calls[v]["close"]
                          + calls[v]["send"] + Delivered(v)
      BY <1>0 DEF LogoutsAccounted, Steps
    <3>2. CASE v = w
      BY <3>1, <3>2, <2>1, <2>2, RegistryAssumption DEF Delivered, Ids
    <3>3. CASE v # w
      BY <3>1, <3>3, <2>1, <2>2, RegistryAssumption DEF Delivered, Ids
    <3> QED
      BY <3>2, <3>3
  <2> QED
    BY <2>3, <2>4
<1> QED
  BY <1>1, <1>2, <1>3, <1>4 DEF DisconnectStep

LEMMA ServerClosing ==
    ASSUME ConnTypes, RegistryTypeOK, CloseOrder, LogoutsAccounted,
           \/ NewClient \/ Cancel \/ StopAccepting \/ StopListening
           \/ \E n \in Notifiers : NewBlockAvailable(n)
           \/ \E w \in Ids : HandleDisconnect(w)
    PROVE  CloseOrder' /\ LogoutsAccounted'
<1> USE DEF callVars, closeVars, removeVars
<1>1. CASE NewClient
  <2>1. Accepted' \ clients' = Accepted \ clients
    BY <1>1, RegistryAssumption DEF NewClient, OnConnect, RegistryTypeOK, Accepted
  <2> QED
    BY <1>1, <2>1 DEF NewClient, CloseOrder, LogoutsAccounted, Delivered
<1>2. CASE \/ Cancel \/ StopAccepting \/ StopListening
           \/ \E n \in Notifiers : NewBlockAvailable(n)
  <2>1. UNCHANGED <<registryVars, closeVars, removeVars, calls>>
    BY <1>2 DEF Cancel, StopAccepting, StopListening, NewBlockAvailable
  <2> QED
    BY <2>1, ClosingKept
<1>3. ASSUME NEW w \in Ids, HandleDisconnect(w) PROVE CloseOrder' /\ LogoutsAccounted'
  <2>1. /\ delivering = w /\ delivering' = 0
        /\ disconnects \in [Ids -> Nat]
        /\ \A v \in Ids \ {w} : disconnects'[v] = disconnects[v]
        /\ disconnects'[w] = disconnects[w] + 1
        /\ clientCounter' = clientCounter /\ clients' = clients \ {w} /\ w \in Accepted
        /\ UNCHANGED <<disconnecting, closed, logouts, calls>>
    BY <1>3 DEF HandleDisconnect, OnDisconnect, ConnTypes
  <2>2. CloseOrder'
    BY <2>1 DEF CloseOrder, Accepted, Ids
  <2>3. LogoutsAccounted'
    <3> SUFFICES ASSUME NEW v \in Ids
                 PROVE  logouts'[v] = disconnects'[v] + calls'[v]["close"]
                                     + calls'[v]["send"] + Delivered(v)'
      BY DEF LogoutsAccounted
    <3>1. /\ calls[v]["close"] \in Nat /\ calls[v]["send"] \in Nat
          /\ logouts[v] \in Nat /\ disconnects[v] \in Nat
          /\ logouts[v] = disconnects[v] + calls[v]["close"]
                          + calls[v]["send"] + Delivered(v)
      BY CallCounts DEF LogoutsAccounted, Steps, ConnTypes
    <3>2. CASE v = w
      <4>1. Delivered(v) = 1 /\ Delivered(v)' = 0
        BY <3>2, <2>1, RegistryAssumption DEF Delivered, Ids
      <4>2. logouts' = logouts /\ calls' = calls /\ disconnects'[v] = disconnects[v] + 1
        BY <3>2, <2>1
      <4> QED
        BY <3>1, <4>1, <4>2
    <3>3. CASE v # w
      BY <3>1, <3>3, <2>1, RegistryAssumption DEF Delivered, Ids
    <3> QED
      BY <3>2, <3>3
  <2> QED
    BY <2>2, <2>3
<1> QED
  BY <1>1, <1>2, <1>3

-----------------------------------------------------------------------------
(* The theorems.                                                           *)

LEMMA ConnInitInv == Init => ConnInv
<1> SUFFICES ASSUME Init PROVE ConnInv
  OBVIOUS
<1>1. RegistryInv
  BY RegistryInitInv DEF Init
<1>2. ConnTypes
  <2>1. /\ pc \in [Ids -> [Threads -> ThreadStates]]
        /\ msg \in [Ids -> [Threads -> Messages]]
        /\ calls \in [Ids -> [Steps -> Nat]]
        /\ reader \in [Ids -> ReaderStates]
    BY DEF Init, ReaderStates, ThreadStates, Messages
  <2>2. 0 \in 0 .. MaxWriteAttempts - 1 /\ 0 \in 0 .. MaxClients
    BY ConnAssumption, RegistryAssumption
  <2>3. tries \in [Ids -> [Threads -> 0 .. MaxWriteAttempts - 1]]
    BY <2>2 DEF Init
  <2>4. No \in [Ids -> BOOLEAN] /\ Zero \in [Ids -> Nat]
    BY DEF No, Zero
  <2> QED
    BY <2>1, <2>2, <2>3, <2>4 DEF Init, ConnTypes
<1>3. FreshIsIdle /\ ReaderSends /\ WriteExclusion
  BY DEF Init, FreshIsIdle, ReaderSends, WriteExclusion, Holds, No, Threads
<1>4. Accepted = {} /\ clients = {}
  BY DEF Init, RegistryInit, Accepted
<1>5. CloseOrder /\ LogoutsAccounted
  BY <1>4 DEF Init, CloseOrder, LogoutsAccounted, Delivered, No, Zero, Steps, Ids
<1> QED
  BY <1>1, <1>2, <1>3, <1>5, TypeParts DEF ConnInv, RegistryInv

LEMMA ConnNextInv == ConnInv /\ [Next]_vars => ConnInv'
<1> SUFFICES ASSUME ConnInv, [Next]_vars PROVE ConnInv'
  OBVIOUS
<1>0. /\ RegistryInv /\ RegistryTypeOK /\ ConnTypes /\ FreshIsIdle /\ ReaderSends
      /\ WriteExclusion /\ CloseOrder /\ LogoutsAccounted
  BY TypeParts DEF ConnInv
<1> SUFFICES /\ RegistryInv' /\ ConnTypes' /\ FreshIsIdle' /\ ReaderSends'
             /\ WriteExclusion' /\ CloseOrder' /\ LogoutsAccounted'
  BY DEF ConnInv, RegistryInv, TypeOK, ConnTypes
<1>1. CASE \/ NewClient \/ Cancel \/ StopAccepting \/ StopListening
           \/ \E n \in Notifiers : NewBlockAvailable(n)
           \/ \E w \in Ids : HandleDisconnect(w)
  <2>1. RegistryInv'
    <3>1. CASE NewClient
      BY <3>1, <1>0, OnConnectInv DEF NewClient
    <3>2. ASSUME NEW w \in Ids, HandleDisconnect(w) PROVE RegistryInv'
      BY <3>2, <1>0, OnDisconnectInv DEF HandleDisconnect
    <3>3. CASE \/ Cancel \/ StopAccepting \/ StopListening
               \/ \E n \in Notifiers : NewBlockAvailable(n)
      BY <3>3, <1>0, RegistryStutters
      DEF Cancel, StopAccepting, StopListening, NewBlockAvailable
    <3> QED
      BY <1>1, <3>1, <3>2, <3>3
  <2> QED
    BY <1>0, <1>1, <2>1, ServerTypes, FreshServer, ServerWrites, ServerClosing
<1>2. ASSUME NEW w \in Ids, DisconnectStep(w)
      PROVE  /\ RegistryInv' /\ ConnTypes' /\ FreshIsIdle' /\ ReaderSends'
             /\ WriteExclusion' /\ CloseOrder' /\ LogoutsAccounted'
  BY <1>0, <1>2, DisconnectTypes, RegistryStutters, FreshSteps, DisconnectWrites,
     DisconnectClosing
<1>3. ASSUME NEW w \in Ids, ReaderStep(w)
      PROVE  /\ RegistryInv' /\ ConnTypes' /\ FreshIsIdle' /\ ReaderSends'
             /\ WriteExclusion' /\ CloseOrder' /\ LogoutsAccounted'
  BY <1>0, <1>3, ReaderTypes, RegistryStutters, FreshSteps, ReaderWrites,
     OtherStepsClosing
<1>4. ASSUME NEW w \in Ids, NEW t \in Threads, SendStep(w, t)
      PROVE  /\ RegistryInv' /\ ConnTypes' /\ FreshIsIdle' /\ ReaderSends'
             /\ WriteExclusion' /\ CloseOrder' /\ LogoutsAccounted'
  BY <1>0, <1>4, SendTypes, RegistryStutters, FreshSteps, SendWrites,
     OtherStepsClosing
<1>5. ASSUME NEW w \in Ids, NEW n \in Notifiers, NotifierStep(w, n)
      PROVE  /\ RegistryInv' /\ ConnTypes' /\ FreshIsIdle' /\ ReaderSends'
             /\ WriteExclusion' /\ CloseOrder' /\ LogoutsAccounted'
  BY <1>0, <1>5, NotifierTypes, RegistryStutters, FreshSteps, NotifierWrites,
     OtherStepsClosing
<1>6. CASE UNCHANGED vars
  <2>1. /\ UNCHANGED registryVars
        /\ UNCHANGED <<cancelled, accepting, listening, reader, subscribed, hasWallet>>
        /\ UNCHANGED <<pc, msg, tries, writeLock, calls>>
        /\ UNCHANGED <<disconnecting, closed, logouts, delivering, disconnects>>
    BY <1>6 DEF vars, serverVars, sessionVars, threadVars, lockVars, callVars,
        closeVars, removeVars
  <2>2. RegistryInv'
    BY <1>0, <2>1, RegistryStutters
  <2>3. CloseOrder' /\ LogoutsAccounted'
    BY <1>0, <2>1, ClosingKept DEF closeVars, removeVars
  <2>4. WriteExclusion'
    BY <1>0, <2>1, ExclusionKept DEF Holds
  <2>5. ConnTypes' /\ FreshIsIdle' /\ ReaderSends'
    BY <1>0, <2>1 DEF ConnTypes, FreshIsIdle, ReaderSends, Accepted, registryVars
  <2> QED
    BY <2>2, <2>3, <2>4, <2>5
<1> QED
  BY <1>1, <1>2, <1>3, <1>4, <1>5, <1>6 DEF Next

(* All parts of the invariant hold in every reachable state. *)
THEOREM ConnInvariant == SafetySpec => []ConnInv
  BY ConnInitInv, ConnNextInv, PTL DEF SafetySpec

(* Every variable of the connections keeps its type. *)
THEOREM ConnTypeOK == SafetySpec => []TypeOK
  BY ConnInvariant, PTL DEF ConnInv

(* At most one goroutine writes to a socket, and writeLock is released on  *)
(* every way out of write, for any number of notifiers and attempts.       *)
THEOREM ConnWriteExclusion == SafetySpec => []WriteExclusion
  BY ConnInvariant, PTL DEF ConnInv

(* The registry forgets only clients whose socket is closed. *)
THEOREM ConnRemovedIsClosed == SafetySpec => []RemovedIsClosed
<1>1. ConnInv => RemovedIsClosed
  <2> SUFFICES ASSUME ConnInv, NEW w \in Accepted \ clients
               PROVE  disconnecting[w] /\ closed[w]
    BY DEF RemovedIsClosed
  <2>1. w \in Ids
    BY RegistryAssumption DEF ConnInv, RegistryInv, RegistryTypeOK, Accepted, Ids
  <2> QED
    BY <2>1 DEF ConnInv, CloseOrder
<1> QED
  BY <1>1, ConnInvariant, PTL

(* A marked client that is still registered has somebody to remove it. *)
THEOREM ConnRemovalIsOwed == SafetySpec => []RemovalIsOwed
<1>1. ConnInv => RemovalIsOwed
  <2> SUFFICES ASSUME ConnInv, NEW w \in clients, disconnecting[w]
               PROVE  calls[w]["close"] + calls[w]["send"] > 0 \/ delivering = w
    BY DEF RemovalIsOwed
  <2>1. w \in Ids
    BY RegistryAssumption DEF ConnInv, RegistryInv, RegistryTypeOK, Accepted, Ids
  <2>2. /\ logouts[w] > 0 /\ logouts[w] \in Nat
        /\ disconnects[w] = 0
        /\ calls[w]["close"] \in Nat /\ calls[w]["send"] \in Nat
    BY <2>1 DEF ConnInv, CloseOrder, TypeOK, Steps
  <2> QED
    BY <2>1, <2>2 DEF ConnInv, LogoutsAccounted, Delivered
<1> QED
  BY <1>1, ConnInvariant, PTL

(* Every Logout record is matched by one OnDisconnect, done or still due. *)
THEOREM ConnLogoutsAccounted == SafetySpec => []LogoutsAccounted
  BY ConnInvariant, PTL DEF ConnInv

-----------------------------------------------------------------------------
(* The connections implement the life cycle.                               *)

(* disconnectListener does not stop with a client in its hands. *)
ListenerBusy == delivering # 0 => listening

LEMMA ListenerBusyInit == Init => ListenerBusy
  BY DEF Init, ListenerBusy

LEMMA ListenerBusyNext == ListenerBusy /\ [Next]_vars => ListenerBusy'
<1> SUFFICES ASSUME ListenerBusy, [Next]_vars PROVE ListenerBusy'
  OBVIOUS
<1> USE DEF ListenerBusy, serverVars, removeVars
<1>1. CASE NewClient \/ Cancel \/ StopAccepting \/ StopListening
  BY <1>1 DEF NewClient, Cancel, StopAccepting, StopListening
<1>2. ASSUME NEW n \in Notifiers, NewBlockAvailable(n) PROVE ListenerBusy'
  BY <1>2 DEF NewBlockAvailable
<1>3. ASSUME NEW w \in Ids, HandleDisconnect(w) \/ DisconnectStep(w)
      PROVE  ListenerBusy'
  BY <1>3 DEF HandleDisconnect, DisconnectStep, DisconnectCheck,
      DisconnectPublish, DisconnectClose, DisconnectSend
<1>4. ASSUME NEW w \in Ids, ReaderStep(w) PROVE ListenerBusy'
  BY <1>4 DEF ReaderStep, HandleLine, HandlerStep, Read, ReadFails, BadLine,
      EndOfBuffer, HandleSubscribe, HandleAuthorize, HandleSubmit, VerdictSent,
      ReplyFailed, Replied, SendExtranonce, Authorized
<1>5. ASSUME NEW w \in Ids, NEW t \in Threads, SendStep(w, t) PROVE ListenerBusy'
  BY <1>5 DEF SendStep, CheckConnected, AcquireWriteLock, WriteBlocked,
      SetWriteDeadline, Write
<1>6. ASSUME NEW w \in Ids, NEW n \in Notifiers, NotifierStep(w, n)
      PROVE  ListenerBusy'
  BY <1>6 DEF NotifierStep, NoParams, GetNotifyParams, NotifierSent
<1>7. CASE UNCHANGED vars
  BY <1>7 DEF vars
<1> QED
  BY <1>1, <1>2, <1>3, <1>4, <1>5, <1>6, <1>7 DEF Next

(* A step that accepts, marks and removes nobody is a stutter. *)
LEMMA LifeStutters ==
    ASSUME UNCHANGED <<clientCounter, clients, disconnecting, listening>>
    PROVE  UNCHANGED Life!lifeVars
  BY DEF Life!lifeVars, lifePhase, Accepted

LEMMA LifeStep ==
    ASSUME ConnInv, ListenerBusy, [Next]_vars
    PROVE  [Life!LifeNext]_(Life!lifeVars)
<1> USE DEF registryVars, serverVars, closeVars
<1>0. /\ clientCounter \in Nat /\ clients \subseteq Accepted /\ Accepted \subseteq Ids
      /\ disconnecting \in [Ids -> BOOLEAN] /\ ConnTypes /\ FreshIsIdle
      /\ CloseOrder
  <2>1. RegistryTypeOK /\ ConnTypes /\ FreshIsIdle /\ CloseOrder
    BY TypeParts DEF ConnInv
  <2>2. /\ clientCounter \in Nat /\ clients \subseteq Accepted
        /\ Accepted \subseteq Ids
    BY <2>1, RegistryAssumption DEF RegistryTypeOK, Accepted, Ids
  <2> QED
    BY <2>1, <2>2 DEF ConnTypes
<1>1. CASE NewClient
  <2> DEFINE new == clientCounter + 1
  <2>1. /\ new \in Ids /\ new \notin Accepted /\ Accepted' = Accepted \cup {new}
        /\ clients' = clients \cup {new}
        /\ UNCHANGED <<disconnecting, listening>> /\ ~disconnecting[new]
    <3>1. /\ clientCounter' = new /\ clientCounter < MaxClients
          /\ clients' = clients \cup {new}
          /\ UNCHANGED <<disconnecting, listening>>
      BY <1>1 DEF NewClient, OnConnect
    <3>2. new \in Ids /\ new \notin Accepted /\ Accepted' = Accepted \cup {new}
      BY <1>0, <3>1, RegistryAssumption DEF Accepted, Ids
    <3> QED
      BY <1>0, <3>1, <3>2 DEF FreshIsIdle
  <2>2. lifePhase[new] = "new" /\ lifePhase' = [lifePhase EXCEPT ![new] = "live"]
    BY <1>0, <2>1 DEF lifePhase
  <2>3. Life!Accept(new)
    BY <2>1, <2>2 DEF Life!Accept, Life!Move
  <2> QED
    BY <2>1, <2>3 DEF Life!LifeNext
<1>2. CASE Cancel \/ StopAccepting
  BY <1>2, LifeStutters DEF Cancel, StopAccepting
<1>3. CASE StopListening
  <2>1. lifePhase' = lifePhase /\ listening' = FALSE
    BY <1>3 DEF StopListening, lifePhase, Accepted
  <2> QED
    BY <2>1 DEF Life!LifeNext, Life!Shutdown
<1>4. ASSUME NEW n \in Notifiers, NewBlockAvailable(n)
      PROVE  UNCHANGED Life!lifeVars
  BY <1>4, LifeStutters DEF NewBlockAvailable
<1>5. ASSUME NEW w \in Ids, HandleDisconnect(w)
      PROVE  [Life!LifeNext]_(Life!lifeVars)
  <2>1. /\ delivering = w /\ w \in Accepted /\ clients' = clients \ {w}
        /\ UNCHANGED <<clientCounter, disconnecting, listening>>
    BY <1>5 DEF HandleDisconnect, OnDisconnect
  <2>2. CASE w \in clients
    <3>1. disconnecting[w] /\ listening
      BY <1>0, <2>1 DEF CloseOrder, ListenerBusy, Ids
    <3>2. lifePhase[w] = "closing" /\ lifePhase' = [lifePhase EXCEPT ![w] = "gone"]
      BY <1>0, <2>1, <2>2, <3>1 DEF lifePhase, Accepted
    <3>3. Life!Remove(w)
      BY <2>1, <3>1, <3>2 DEF Life!Remove, Life!Move
    <3> QED
      BY <3>3 DEF Life!LifeNext
  <2>3. CASE w \notin clients
    <3>1. clients' = clients
      BY <2>1, <2>3
    <3> QED
      BY <2>1, <3>1, LifeStutters
  <2> QED
    BY <2>2, <2>3
<1>6. ASSUME NEW w \in Ids, DisconnectPublish(w)
      PROVE  [Life!LifeNext]_(Life!lifeVars)
  <2>1. /\ UNCHANGED <<clientCounter, clients, listening>>
        /\ disconnecting' = [disconnecting EXCEPT ![w] = TRUE]
    BY <1>6 DEF DisconnectPublish
  <2>2. CASE disconnecting[w]
    <3>1. disconnecting' = disconnecting
      BY <1>0, <2>1, <2>2
    <3> QED
      BY <2>1, <3>1, LifeStutters
  <2>3. CASE ~disconnecting[w]
    <3>1. w \in Accepted
      BY <1>0, <1>6 DEF DisconnectPublish, Advance, FreshIsIdle, Steps
    <3>2. w \in clients
      BY <1>0, <2>3, <3>1 DEF CloseOrder
    <3>3. lifePhase[w] = "live" /\ lifePhase' = [lifePhase EXCEPT ![w] = "closing"]
      BY <1>0, <2>1, <2>3, <3>1, <3>2 DEF lifePhase, Accepted
    <3>4. Life!Close(w)
      BY <2>1, <3>3 DEF Life!Close, Life!Move
    <3> QED
      BY <3>4 DEF Life!LifeNext
  <2> QED
    BY <2>2, <2>3
<1>7. ASSUME NEW w \in Ids, DisconnectCheck(w) \/ DisconnectClose(w) \/ DisconnectSend(w)
      PROVE  UNCHANGED Life!lifeVars
  BY <1>7, LifeStutters DEF DisconnectCheck, DisconnectClose, DisconnectSend
<1>8. ASSUME NEW w \in Ids, ReaderStep(w) PROVE UNCHANGED Life!lifeVars
  BY <1>8, LifeStutters DEF ReaderStep, HandleLine, HandlerStep, Read, ReadFails,
      BadLine, EndOfBuffer, HandleSubscribe, HandleAuthorize, HandleSubmit,
      VerdictSent, ReplyFailed, Replied, SendExtranonce, Authorized
<1>9. ASSUME NEW w \in Ids, NEW t \in Threads, SendStep(w, t)
      PROVE  UNCHANGED Life!lifeVars
  BY <1>9, LifeStutters DEF SendStep, CheckConnected, AcquireWriteLock,
      WriteBlocked, SetWriteDeadline, Write
<1>10. ASSUME NEW w \in Ids, NEW n \in Notifiers, NotifierStep(w, n)
       PROVE  UNCHANGED Life!lifeVars
  BY <1>10, LifeStutters DEF NotifierStep, NoParams, GetNotifyParams, NotifierSent
<1>11. CASE UNCHANGED vars
  BY <1>11, LifeStutters DEF vars
<1> QED
  BY <1>1, <1>2, <1>3, <1>4, <1>5, <1>6, <1>7, <1>8, <1>9, <1>10, <1>11
  DEF Next, DisconnectStep

LEMMA LifeInitial == Init => Life!LifeInit
  BY DEF Init, RegistryInit, Life!LifeInit, lifePhase, Accepted

(* The goroutines of listener and connections implement the life cycle:    *)
(* every client goes through new, live, closing and gone in that order.    *)
THEOREM ConnFollowsLifecycle == SafetySpec => FollowsLifecycle
<1>1. Init /\ [][Next]_vars => []ListenerBusy
  BY ListenerBusyInit, ListenerBusyNext, PTL
<1> QED
  BY <1>1, ConnInvariant, LifeInitial, LifeStep, PTL
  DEF SafetySpec, FollowsLifecycle, Life!LifeSafety

=============================================================================
