------------------------------ MODULE WorkerConn ------------------------------
(***************************************************************************)
(* The life of a miner's connection (package gostratum with the callbacks  *)
(* of workers_listener.go): the goroutines that share one WorkerContext,   *)
(* and the two goroutines of the StratumListener.                          *)
(*                                                                         *)
(* For every client w there are                                            *)
(*   - the reader (spawnClientListener), which handles the miner's lines   *)
(*     one after the other and writes the replies;                         *)
(*   - notifiers, the goroutines NewBlockAvailable starts to send work;    *)
(*   - calls of Disconnect(): deferred by the reader, made by a notifier,  *)
(*     or started by checkDisconnect after a failed write.                 *)
(* Reader and notifiers are threads with a program counter and share the   *)
(* code of Reply/Send/write/writeWithBackoff.  A goroutine in Disconnect() *)
(* does nothing afterwards, so calls are only counted, by the step they    *)
(* are at.                                                                 *)
(*                                                                         *)
(* The messages themselves, their encoding and the logs are left out.      *)
(* Which share or job a message is about is the subject of ShareStats and  *)
(* MiningJobs.                                                             *)
(***************************************************************************)
EXTENDS WorkersListener

CONSTANTS ChainType,         \* "kaspa" or "aleo"
          Reader,            \* the thread that reads the connection
          Notifiers,         \* bound: notifiers of one client at a time
          MaxWriteAttempts,  \* 3 in writeWithBackoff
          MaxCalls,          \* bound: calls of Disconnect in progress per client
          MayCancel          \* whether the context given to Listen is ever cancelled

ASSUME ConnAssumption == /\ ChainType \in {"kaspa", "aleo"}
                         /\ Reader \notin Notifiers
                         /\ MaxWriteAttempts \in Nat \ {0}
                         /\ MaxCalls \in Nat \ {0}
                         /\ MayCancel \in BOOLEAN

VARIABLES
    disconnecting,  \* sc.disconnecting
    closed,         \* connection.Close() was called
    writeLock,      \* sc.writeLock = 1
    reader,         \* what the reader goroutine is doing
    pc,             \* pc[w][t]: where thread t is in the sending code
    msg,            \* msg[w][t]: the message thread t is sending, or "none"
    tries,          \* tries[w][t]: i of the loop in writeWithBackoff, 0 outside
    calls,          \* calls[w][s]: calls of Disconnect at step s
    delivering,     \* the client disconnectListener has received, 0 for none
    subscribed,     \* AppName = chainType
    hasWallet,      \* walletAddr # ""
    cancelled,      \* the context given to Listen is cancelled
    accepting,      \* tcpListener is running
    listening,      \* disconnectListener is running
    logouts,        \* "Logout" records published for the client
    disconnects     \* OnDisconnect runs (RecordDisconnect) for the client

Threads == {Reader} \cup Notifiers
Steps == {"check", "publish", "close", "send"}
ReaderStates == {"none", "reading", "subscribe", "authorize", "submit",
                 "scanned", "exited"}
ThreadStates == {"idle", "params", "send", "try", "locked", "writing",
                 "ok", "err", "timeout"}
Messages == {"none", "reply", "verdict", "extranonce", "difficulty", "notify"}

serverVars == <<cancelled, accepting, listening>>
sessionVars == <<reader, subscribed, hasWallet>>
threadVars == <<pc, msg, tries>>
lockVars == <<writeLock>>
callVars == <<calls>>
closeVars == <<disconnecting, closed, logouts>>
removeVars == <<delivering, disconnects>>
vars == <<registryVars, serverVars, sessionVars, threadVars, lockVars,
          callVars, closeVars, removeVars>>

Zero == [w \in Ids |-> 0]
No == [w \in Ids |-> FALSE]

Init == /\ RegistryInit
        /\ disconnecting = No /\ closed = No /\ writeLock = No
        /\ reader = [w \in Ids |-> "none"]
        /\ pc = [w \in Ids |-> [t \in Threads |-> "idle"]]
        /\ msg = [w \in Ids |-> [t \in Threads |-> "none"]]
        /\ tries = [w \in Ids |-> [t \in Threads |-> 0]]
        /\ calls = [w \in Ids |-> [s \in Steps |-> 0]]
        /\ delivering = 0
        /\ subscribed = No /\ hasWallet = No
        /\ cancelled = FALSE /\ accepting = TRUE /\ listening = TRUE
        /\ logouts = Zero /\ disconnects = Zero

-----------------------------------------------------------------------------
(* Disconnect().                                                           *)

CallsOf(w) == calls[w]["check"] + calls[w]["publish"] + calls[w]["close"]
              + calls[w]["send"]

(* A goroutine enters Disconnect(). *)
CallDisconnect(w) ==
    /\ CallsOf(w) < MaxCalls
    /\ calls' = [calls EXCEPT ![w]["check"] = @ + 1]

(* A call goes from one step to the next. *)
Advance(w, from, to) ==
    /\ calls[w][from] > 0
    /\ calls' = [calls EXCEPT ![w][from] = @ - 1, ![w][to] = @ + 1]

(* A call leaves Disconnect(). *)
Return(w, from) ==
    /\ calls[w][from] > 0
    /\ calls' = [calls EXCEPT ![w][from] = @ - 1]

(* if !sc.disconnecting; the flag is set only after the Logout record went *)
(* to the message queue, so other calls may pass this test meanwhile.      *)
DisconnectCheck(w) ==
    /\ IF disconnecting[w] THEN Return(w, "check")
                           ELSE Advance(w, "check", "publish")
    /\ UNCHANGED <<registryVars, serverVars, sessionVars, threadVars, lockVars,
                   closeVars, removeVars>>

(* Mutated form: the call gives up when the record cannot be published. *)
DisconnectPublishGivesUp(w) ==
    /\ Return(w, "publish")
    /\ disconnecting' = [disconnecting EXCEPT ![w] = TRUE]
    /\ UNCHANGED <<registryVars, serverVars, sessionVars, threadVars, lockVars,
                   closed, logouts, removeVars>>

(* Mutated form: the flag is never set. *)
DisconnectPublishNoMark(w) ==
    /\ Advance(w, "publish", "close")
    /\ logouts' = [logouts EXCEPT ![w] = @ + 1]
    /\ UNCHANGED <<registryVars, serverVars, sessionVars, threadVars, lockVars,
                   disconnecting, closed, removeVars>>

(* The Logout record is published, then sc.disconnecting = true. *)
DisconnectPublish(w) ==
    /\ Advance(w, "publish", "close")
    /\ logouts' = [logouts EXCEPT ![w] = @ + 1]
    /\ disconnecting' = [disconnecting EXCEPT ![w] = TRUE]
    /\ UNCHANGED <<registryVars, serverVars, sessionVars, threadVars, lockVars,
                   closed, removeVars>>

(* Mutated form: the client is handed over without closing the socket. *)
DisconnectKeepsSocket(w) ==
    /\ Advance(w, "close", "send")
    /\ UNCHANGED <<registryVars, serverVars, sessionVars, threadVars, lockVars,
                   closeVars, removeVars>>

(* sc.connection.Close() *)
DisconnectClose(w) ==
    /\ Advance(w, "close", "send")
    /\ closed' = [closed EXCEPT ![w] = TRUE]
    /\ UNCHANGED <<registryVars, serverVars, sessionVars, threadVars, lockVars,
                   disconnecting, logouts, removeVars>>

(* Mutated form: the value is dropped when the listener is busy, as a      *)
(* select with a default branch would.                                     *)
DisconnectSendOrDrop(w) ==
    /\ Return(w, "send")
    /\ delivering' = IF listening /\ delivering = 0 THEN w ELSE delivering
    /\ UNCHANGED <<registryVars, serverVars, sessionVars, threadVars, lockVars,
                   closeVars, disconnects>>

(* sc.onDisconnect <- sc: the channel is unbuffered, so the send and the   *)
(* receive in disconnectListener are one step.                             *)
DisconnectSend(w) ==
    /\ listening /\ delivering = 0
    /\ Return(w, "send")
    /\ delivering' = w
    /\ UNCHANGED <<registryVars, serverVars, sessionVars, threadVars, lockVars,
                   closeVars, disconnects>>

-----------------------------------------------------------------------------
(* Reply, Send, writeWithBackoff and write, by any thread.                 *)

Goto(w, t, state) == pc' = [pc EXCEPT ![w][t] = state]
Finished(w, t) == Goto(w, t, "idle") /\ msg' = [msg EXCEPT ![w][t] = "none"]

(* sc.disconnecting is tested once, before the first attempt. *)
CheckConnected(w, t) ==
    /\ pc[w][t] = "send"
    /\ Goto(w, t, IF disconnecting[w] THEN "err" ELSE "try")
    /\ UNCHANGED <<registryVars, serverVars, sessionVars, msg, tries, lockVars,
                   callVars, closeVars, removeVars>>

(* Mutated form: a plain store instead of the compare-and-swap. *)
StoreWriteLock(w, t) ==
    /\ pc[w][t] = "try"
    /\ writeLock' = [writeLock EXCEPT ![w] = TRUE]
    /\ Goto(w, t, "locked")
    /\ tries' = [tries EXCEPT ![w][t] = 0]
    /\ UNCHANGED <<registryVars, serverVars, sessionVars, msg, callVars,
                   closeVars, removeVars>>

(* CompareAndSwapInt32(&sc.writeLock, 0, 1) succeeds. *)
AcquireWriteLock(w, t) ==
    /\ pc[w][t] = "try"
    /\ ~writeLock[w]
    /\ writeLock' = [writeLock EXCEPT ![w] = TRUE]
    /\ Goto(w, t, "locked")
    /\ tries' = [tries EXCEPT ![w][t] = 0]
    /\ UNCHANGED <<registryVars, serverVars, sessionVars, msg, callVars,
                   closeVars, removeVars>>

(* Mutated form: one attempt too many. *)
WriteBlockedOnceMore(w, t) ==
    /\ pc[w][t] = "try"
    /\ writeLock[w]
    /\ IF tries[w][t] < MaxWriteAttempts
       THEN tries' = [tries EXCEPT ![w][t] = @ + 1] /\ UNCHANGED pc
       ELSE tries' = [tries EXCEPT ![w][t] = 0] /\ Goto(w, t, "err")
    /\ UNCHANGED <<registryVars, serverVars, sessionVars, msg, lockVars,
                   callVars, closeVars, removeVars>>

(* errWriteBlocked: try again after 5 ms; the third time is an error that  *)
(* does not start a Disconnect.                                            *)
WriteBlocked(w, t) ==
    /\ pc[w][t] = "try"
    /\ writeLock[w]
    /\ IF tries[w][t] + 1 < MaxWriteAttempts
       THEN tries' = [tries EXCEPT ![w][t] = @ + 1] /\ UNCHANGED pc
       ELSE tries' = [tries EXCEPT ![w][t] = 0] /\ Goto(w, t, "err")
    /\ UNCHANGED <<registryVars, serverVars, sessionVars, msg, lockVars,
                   callVars, closeVars, removeVars>>

(* SetWriteDeadline fails on a closed connection; write returns without    *)
(* checkDisconnect.                                                        *)
SetWriteDeadline(w, t) ==
    /\ pc[w][t] = "locked"
    /\ Goto(w, t, IF closed[w] THEN "err" ELSE "writing")
    /\ writeLock' = [writeLock EXCEPT ![w] = ~closed[w]]
    /\ UNCHANGED <<registryVars, serverVars, sessionVars, msg, tries,
                   callVars, closeVars, removeVars>>

(* connection.Write returns; checkDisconnect starts a Disconnect on any    *)
(* error, and the deferred store releases the lock.                        *)
Write(w, t) ==
    /\ pc[w][t] = "writing"
    /\ \E result \in {"ok", "err", "timeout"} :
          /\ Goto(w, t, result)
          /\ IF result = "ok" THEN UNCHANGED calls ELSE CallDisconnect(w)
    /\ writeLock' = [writeLock EXCEPT ![w] = FALSE]
    /\ UNCHANGED <<registryVars, serverVars, sessionVars, msg, tries,
                   closeVars, removeVars>>

-----------------------------------------------------------------------------
(* The listener: accepting clients and removing them.                      *)

(* tcpListener accepts a connection; newClient registers the client before *)
(* it starts the reader.                                                   *)
NewClient ==
    /\ accepting
    /\ OnConnect
    /\ reader' = [reader EXCEPT ![clientCounter'] = "reading"]
    /\ UNCHANGED <<serverVars, subscribed, hasWallet, threadVars, lockVars,
                   callVars, closeVars, removeVars>>

(* disconnectListener handles the client it received. *)
HandleDisconnect(w) ==
    /\ delivering = w
    /\ delivering' = 0
    /\ disconnects' = [disconnects EXCEPT ![w] = @ + 1]
    /\ OnDisconnect(w)
    /\ UNCHANGED <<serverVars, sessionVars, threadVars, lockVars, callVars,
                   closeVars>>

(* The context is cancelled; production code passes context.Background().  *)
Cancel ==
    /\ MayCancel /\ ~cancelled
    /\ cancelled' = TRUE
    /\ UNCHANGED <<registryVars, accepting, listening, sessionVars, threadVars,
                   lockVars, callVars, closeVars, removeVars>>

(* server.Close() makes Accept fail, and shuttingDown ends tcpListener. *)
StopAccepting ==
    /\ cancelled /\ accepting
    /\ accepting' = FALSE
    /\ UNCHANGED <<registryVars, cancelled, listening, sessionVars, threadVars,
                   lockVars, callVars, closeVars, removeVars>>

(* Mutated form: the context is looked at only after a client was received. *)
StopListeningAfterReceive ==
    /\ cancelled /\ listening /\ delivering # 0
    /\ listening' = FALSE
    /\ UNCHANGED <<registryVars, cancelled, accepting, sessionVars, threadVars,
                   lockVars, callVars, closeVars, removeVars>>

(* disconnectListener takes the ctx.Done() branch of its select. *)
StopListening ==
    /\ cancelled /\ listening /\ delivering = 0
    /\ listening' = FALSE
    /\ UNCHANGED <<registryVars, cancelled, accepting, sessionVars, threadVars,
                   lockVars, callVars, closeVars, removeVars>>

-----------------------------------------------------------------------------
(* NewBlockAvailable: one notifier for every client that speaks this       *)
(* chain's protocol and is not disconnecting.                              *)

Eligible(w) == w \in clients /\ subscribed[w] /\ ~disconnecting[w]

(* The program counters P with notifier n started for the eligible clients *)
(* (bound: a free notifier n is needed for each of them).                  *)
Notified(P, n) ==
    [w \in Ids |-> IF Eligible(w) THEN [P[w] EXCEPT ![n] = "params"] ELSE P[w]]

Free(n) == \A w \in Ids : Eligible(w) => pc[w][n] = "idle"

(* The chain node reports a new block. *)
NewBlockAvailable(n) ==
    /\ Free(n)
    /\ pc' = Notified(pc, n)
    /\ UNCHANGED <<registryVars, serverVars, sessionVars, msg, tries, lockVars,
                   callVars, closeVars, removeVars>>

(* A notifier of a kaspa client without wallet address ends, and boots the *)
(* client when it has been connected for 20 seconds; a failed template     *)
(* request ends it too, and boots the client when the address is           *)
(* malformed.  On aleo it ends when there is no usable work yet.           *)
NoParams(w, n) ==
    /\ pc[w][n] = "params"
    /\ Goto(w, n, "idle")
    /\ \/ UNCHANGED calls
       \/ ChainType = "kaspa" /\ CallDisconnect(w)
    /\ UNCHANGED <<registryVars, serverVars, sessionVars, msg, tries, lockVars,
                   closeVars, removeVars>>

(* There is work: a kaspa client is sent its difficulty first when it was  *)
(* not yet (state.Initialized, see MiningJobs).                            *)
GetNotifyParams(w, n) ==
    /\ pc[w][n] = "params"
    /\ ChainType = "kaspa" => hasWallet[w]
    /\ \E m \in {"difficulty", "notify"} :
          /\ m = "difficulty" => ChainType = "kaspa"
          /\ msg' = [msg EXCEPT ![w][n] = m]
    /\ Goto(w, n, "send")
    /\ UNCHANGED <<registryVars, serverVars, sessionVars, tries, lockVars,
                   callVars, closeVars, removeVars>>

(* After the difficulty comes the work; any error ends the notifier. *)
NotifierSent(w, n) ==
    /\ pc[w][n] \in {"ok", "err", "timeout"}
    /\ IF pc[w][n] = "ok" /\ msg[w][n] = "difficulty"
       THEN Goto(w, n, "send") /\ msg' = [msg EXCEPT ![w][n] = "notify"]
       ELSE Finished(w, n)
    /\ UNCHANGED <<registryVars, serverVars, sessionVars, tries, lockVars,
                   callVars, closeVars, removeVars>>

-----------------------------------------------------------------------------
(* The reader: spawnClientListener and the three handlers.                 *)

ReaderIs(w, state) == reader' = [reader EXCEPT ![w] = state]
Say(w, m) == Goto(w, Reader, "send") /\ msg' = [msg EXCEPT ![w][Reader] = m]

(* Mutated form: the deferred call is missing. *)
ExitWithoutDisconnect(w) == ReaderIs(w, "exited") /\ UNCHANGED calls

(* The reader goroutine ends: defer ctx.Disconnect(). *)
Exit(w) == ReaderIs(w, "exited") /\ CallDisconnect(w)

(* connection.Read returns bytes.  (A read deadline only makes it read     *)
(* again.)                                                                 *)
Read(w) ==
    /\ reader[w] = "reading" /\ ~closed[w]
    /\ ReaderIs(w, "scanned")
    /\ UNCHANGED <<registryVars, serverVars, subscribed, hasWallet, threadVars,
                   lockVars, callVars, closeVars, removeVars>>

(* connection.Read fails: the peer is gone, or this side closed it. *)
ReadFails(w) ==
    /\ reader[w] = "reading"
    /\ Exit(w)
    /\ UNCHANGED <<registryVars, serverVars, subscribed, hasWallet, threadVars,
                   lockVars, closeVars, removeVars>>

(* A line that is no event, or one with malformed parameters. *)
BadLine(w) ==
    /\ reader[w] = "scanned"
    /\ Exit(w)
    /\ UNCHANGED <<registryVars, serverVars, subscribed, hasWallet, threadVars,
                   lockVars, closeVars, removeVars>>

(* All lines of the buffer are handled: read again unless the context is   *)
(* cancelled.                                                              *)
EndOfBuffer(w) ==
    /\ reader[w] = "scanned"
    /\ IF cancelled THEN Exit(w) ELSE ReaderIs(w, "reading") /\ UNCHANGED calls
    /\ UNCHANGED <<registryVars, serverVars, subscribed, hasWallet, threadVars,
                   lockVars, closeVars, removeVars>>

(* mining.subscribe: reply first, the parameters afterwards. *)
HandleSubscribe(w) ==
    /\ reader[w] = "scanned"
    /\ ReaderIs(w, "subscribe")
    /\ Say(w, "reply")
    /\ UNCHANGED <<registryVars, serverVars, subscribed, hasWallet, tries,
                   lockVars, callVars, closeVars, removeVars>>

(* mining.authorize: CleanWallet gives an address only when AppName is     *)
(* "kaspa", that is after a subscribe that named it.                       *)
HandleAuthorize(w) ==
    /\ reader[w] = "scanned"
    /\ ReaderIs(w, "authorize")
    /\ hasWallet' = [hasWallet EXCEPT ![w] = ChainType = "kaspa" /\ subscribed[w]]
    /\ Say(w, "reply")
    /\ UNCHANGED <<registryVars, serverVars, subscribed, tries, lockVars,
                   callVars, closeVars, removeVars>>

(* mining.submit on kaspa: a block the node rejects is answered by an      *)
(* error reply (the verdict) whose outcome is ignored, and by the reply.   *)
HandleSubmit(w) ==
    /\ reader[w] = "scanned"
    /\ ChainType = "kaspa"
    /\ ReaderIs(w, "submit")
    /\ \E m \in {"verdict", "reply"} : Say(w, m)
    /\ UNCHANGED <<registryVars, serverVars, subscribed, hasWallet, tries,
                   lockVars, callVars, closeVars, removeVars>>

Result(w) == pc[w][Reader]

(* The verdict is written, or not: submit drops the error. *)
VerdictSent(w) ==
    /\ Result(w) \in {"ok", "err", "timeout"}
    /\ msg[w][Reader] = "verdict"
    /\ Say(w, "reply")
    /\ UNCHANGED <<registryVars, serverVars, sessionVars, tries, lockVars,
                   callVars, closeVars, removeVars>>

(* The reply failed.  A write timeout wraps os.ErrDeadlineExceeded, which  *)
(* the loop takes for the expected read timeout and continues.             *)
ReplyFailed(w) ==
    /\ Result(w) \in {"err", "timeout"}
    /\ msg[w][Reader] = "reply"
    /\ Finished(w, Reader)
    /\ IF Result(w) = "timeout" THEN ReaderIs(w, "reading") /\ UNCHANGED calls
                                ELSE Exit(w)
    /\ UNCHANGED <<registryVars, serverVars, subscribed, hasWallet, tries,
                   lockVars, closeVars, removeVars>>

(* subscribe takes the name of the application from the parameters, if it  *)
(* is there; submit has nothing left to do.                                *)
Replied(w) ==
    /\ Result(w) = "ok"
    /\ msg[w][Reader] = "reply"
    /\ reader[w] \in {"subscribe", "submit"}
    /\ ReaderIs(w, "scanned")
    /\ Finished(w, Reader)
    /\ \/ UNCHANGED subscribed
       \/ /\ reader[w] = "subscribe"
          /\ \E b \in BOOLEAN : subscribed' = [subscribed EXCEPT ![w] = b]
    /\ UNCHANGED <<registryVars, serverVars, hasWallet, tries, lockVars,
                   callVars, closeVars, removeVars>>

(* authorize sends the extranonce after its reply, if there is one. *)
SendExtranonce(w) ==
    /\ Result(w) = "ok"
    /\ msg[w][Reader] = "reply"
    /\ reader[w] = "authorize"
    /\ ExtranonceSize > 0
    /\ Say(w, "extranonce")
    /\ UNCHANGED <<registryVars, serverVars, sessionVars, tries, lockVars,
                   callVars, closeVars, removeVars>>

(* The end of a successful authorize: HandleEvent calls NewBlockAvailable. *)
(* That the extranonce could not be sent is only logged.                   *)
Authorized(w) ==
    /\ reader[w] = "authorize"
    /\ \/ Result(w) = "ok" /\ msg[w][Reader] = "reply" /\ ExtranonceSize = 0
       \/ Result(w) \in {"ok", "err", "timeout"} /\ msg[w][Reader] = "extranonce"
    /\ ReaderIs(w, "scanned")
    /\ \E n \in Notifiers :
          /\ Free(n)
          /\ pc' = Notified([pc EXCEPT ![w][Reader] = "idle"], n)
    /\ msg' = [msg EXCEPT ![w][Reader] = "none"]
    /\ UNCHANGED <<registryVars, serverVars, subscribed, hasWallet, tries,
                   lockVars, callVars, closeVars, removeVars>>

-----------------------------------------------------------------------------

DisconnectStep(w) == \/ DisconnectCheck(w) \/ DisconnectPublish(w)
                     \/ DisconnectClose(w) \/ DisconnectSend(w)

SendStep(w, t) == \/ CheckConnected(w, t) \/ AcquireWriteLock(w, t)
                  \/ WriteBlocked(w, t) \/ SetWriteDeadline(w, t) \/ Write(w, t)

NotifierStep(w, n) == NoParams(w, n) \/ GetNotifyParams(w, n) \/ NotifierSent(w, n)

HandleLine(w) == \/ HandleSubscribe(w) \/ HandleAuthorize(w) \/ HandleSubmit(w)
                 \/ BadLine(w)

HandlerStep(w) == \/ VerdictSent(w) \/ ReplyFailed(w) \/ Replied(w)
                  \/ SendExtranonce(w) \/ Authorized(w)

ReaderStep(w) == \/ Read(w) \/ ReadFails(w) \/ EndOfBuffer(w)
                 \/ HandleLine(w) \/ HandlerStep(w)

Next == \/ NewClient \/ Cancel \/ StopAccepting \/ StopListening
        \/ \E n \in Notifiers : NewBlockAvailable(n)
        \/ \E w \in Ids : \/ HandleDisconnect(w)
                          \/ DisconnectStep(w)
                          \/ ReaderStep(w)
                          \/ \E t \in Threads : SendStep(w, t)
                          \/ \E n \in Notifiers : NotifierStep(w, n)

(* A goroutine that can run eventually does, and so does a timer; a write  *)
(* ends within its deadline of 5 seconds; a read of a closed connection    *)
(* fails; the 1024 bytes of the buffer hold finitely many lines.  Nothing  *)
(* is assumed of the miner, of the chain node or of who cancels.           *)
Fairness ==
    /\ WF_vars(StopAccepting) /\ WF_vars(StopListening)
    /\ \A w \in Ids :
          /\ WF_vars(HandleDisconnect(w))
          /\ WF_vars(DisconnectCheck(w)) /\ WF_vars(DisconnectPublish(w))
          /\ WF_vars(DisconnectClose(w)) /\ SF_vars(DisconnectSend(w))
          /\ WF_vars(ReadFails(w) /\ closed[w])
          /\ SF_vars(EndOfBuffer(w)) /\ WF_vars(HandlerStep(w))
          /\ \A t \in Threads : WF_vars(SendStep(w, t))
          /\ \A n \in Notifiers : WF_vars(NotifierStep(w, n))

SafetySpec == Init /\ [][Next]_vars
Spec == SafetySpec /\ Fairness

-----------------------------------------------------------------------------
(* Properties.                                                             *)

Holds(w, t) == pc[w][t] \in {"locked", "writing"}

(* Every variable has its type; in particular writeWithBackoff never       *)
(* starts more than MaxWriteAttempts attempts.                             *)
TypeOK ==
    /\ RegistryTypeOK
    /\ disconnecting \in [Ids -> BOOLEAN] /\ closed \in [Ids -> BOOLEAN]
    /\ writeLock \in [Ids -> BOOLEAN]
    /\ reader \in [Ids -> ReaderStates]
    /\ pc \in [Ids -> [Threads -> ThreadStates]]
    /\ msg \in [Ids -> [Threads -> Messages]]
    /\ tries \in [Ids -> [Threads -> 0 .. MaxWriteAttempts - 1]]
    /\ calls \in [Ids -> [Steps -> Nat]]
    /\ delivering \in 0 .. MaxClients
    /\ subscribed \in [Ids -> BOOLEAN] /\ hasWallet \in [Ids -> BOOLEAN]
    /\ cancelled \in BOOLEAN /\ accepting \in BOOLEAN /\ listening \in BOOLEAN
    /\ logouts \in [Ids -> Nat] /\ disconnects \in [Ids -> Nat]

(* The compare-and-swap on writeLock (WorkerContext.write) keeps two       *)
(* goroutines from writing to the same socket at the same time, and every  *)
(* way out of write releases it: the lock is taken exactly when one thread *)
(* is between the swap and the deferred store.                             *)
WriteExclusion ==
    \A w \in Ids :
       /\ \A t, u \in Threads : Holds(w, t) /\ Holds(w, u) => t = u
       /\ writeLock[w] <=> \E t \in Threads : Holds(w, t)

(* The registry forgets a client (OnDisconnect) only after the client is   *)
(* marked and its socket is closed: no miner stays connected that          *)
(* NewBlockAvailable no longer sees.                                       *)
RemovedIsClosed ==
    \A w \in Accepted \ clients : disconnecting[w] /\ closed[w]

(* A client that is marked as disconnecting but is still registered has a  *)
(* call of Disconnect that is past the mark, or is in the hands of         *)
(* disconnectListener: however the calls race, somebody is left to         *)
(* remove it.                                                              *)
RemovalIsOwed ==
    \A w \in clients : disconnecting[w] =>
       calls[w]["close"] + calls[w]["send"] > 0 \/ delivering = w

Delivered(w) == IF delivering = w THEN 1 ELSE 0

(* Every Logout record Disconnect publishes is matched by one OnDisconnect *)
(* (and its prom counter) that has run or is still to run.                 *)
LogoutsAccounted ==
    \A w \in Ids : logouts[w] = disconnects[w] + calls[w]["close"]
                                + calls[w]["send"] + Delivered(w)

lifePhase ==
    [w \in Ids |-> IF w \notin Accepted THEN "new"
                   ELSE IF w \notin clients THEN "gone"
                   ELSE IF disconnecting[w] THEN "closing" ELSE "live"]

Life == INSTANCE WorkerLifecycle
            WITH Client <- Ids, phase <- lifePhase, serving <- listening

(* The goroutines of listener and connection implement the life cycle      *)
(* new, live, closing, gone, in that order, for every client.              *)
FollowsLifecycle == Life!LifeSafety

(* ... and, with fair scheduling, a closing client is removed as long as   *)
(* disconnectListener runs.                                                *)
ImplementsLifecycle == Life!LifeSpec

(* No goroutine of the client w is left. *)
Quiet(w) == /\ reader[w] = "exited"
            /\ \A t \in Threads : pc[w][t] = "idle"
            /\ CallsOf(w) = 0

(* Once a client is marked as disconnecting, all its goroutines end: the   *)
(* reader, the notifiers, and every call of Disconnect, which may block on *)
(* the unbuffered channel.  (Not after a cancellation, which ends the      *)
(* receiver of that channel.)                                              *)
NoGoroutineLeak == \A w \in Ids : disconnecting[w] ~> (Quiet(w) \/ cancelled)

(* A miner that hangs up or breaks the protocol (its reader ended) is      *)
(* removed from the registry, even when its own call of Disconnect loses   *)
(* the race with another one and returns at once.                          *)
HungUpIsRemoved ==
    \A w \in Ids : (reader[w] = "exited") ~> (w \notin clients \/ cancelled)

(* After a cancellation Listen can return: both goroutines it waits for    *)
(* (workerGroup.Wait) end, however many clients are disconnecting.         *)
ShutdownCompletes == cancelled ~> (~accepting /\ ~listening)

=============================================================================
