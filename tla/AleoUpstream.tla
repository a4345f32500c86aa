----------------------------- MODULE AleoUpstream -----------------------------
(***************************************************************************)
(* Where the work of an aleo bridge comes from: the goroutine of           *)
(* AleoNode.Start, which connects to a pool (chainnode/aleo), keeps the    *)
(* last line it read in LastWork and has every client notified, and the    *)
(* notifiers of a client, which read LastWork (node.go) while it changes.  *)
(*                                                                         *)
(* The lines of the pool are numbered in the order it sends them.  A line  *)
(* is "work" when it decodes to an event with six parameters and "other"   *)
(* when it decodes to something else or not at all.  A Read returns some   *)
(* of the lines that arrived; the last one may be cut, and then neither    *)
(* of its halves is work.  (A line is cut at most once.)                   *)
(*                                                                         *)
(* How a send to the client goes wrong is in WorkerConn.                   *)
(***************************************************************************)
EXTENDS Integers

CONSTANTS MaxLines,   \* bound: lines the pool sends in a behaviour
          Notifiers   \* bound: goroutines of the client's NewBlockAvailable

ASSUME UpstreamAssumption == MaxLines \in Nat

VARIABLES
    conn,        \* the connection to the pool: none, open, eof or reset
    lines,       \* lines the pool has sent
    kind,        \* kind of every line
    nextRead,    \* the first line of the connection that was not read
    node,        \* where the goroutine of AleoNode.Start is
    requests,    \* requests sent on this connection
    at, upto,    \* the line of the buffer Listen is at, and the last one
    lastWork,    \* LastWork: the number of the line, 0 for nil
    subscribed,  \* the client has sent its AppName
    authorized,  \* history: an authorize was handled since then
    pc,          \* where notifier n is in GetNotifyParams
    cause,       \* cause[n]: the line that had arrived when n was started
    taken,       \* taken[n]: the line whose parameters n sends
    sent,        \* lines sent to the client as work
    failed       \* lines that could not be sent to the client

poolVars == <<conn, lines>>
nodeVars == <<node, requests, at, upto>>
clientVars == <<subscribed, authorized, sent, failed>>
threadVars == <<pc, cause, taken>>
vars == <<poolVars, kind, nextRead, nodeVars, lastWork, clientVars, threadVars>>

Lines == 1 .. MaxLines
Kinds == {"work", "other"}
IsWork(k) == kind[k] = "work"

Init == /\ conn = "none" /\ lines = 0
        /\ kind = [k \in Lines |-> "other"]
        /\ nextRead = 1
        /\ node = "dial" /\ requests = {}
        /\ at = 0 /\ upto = 0
        /\ lastWork = 0
        /\ subscribed = FALSE /\ authorized = FALSE /\ sent = {} /\ failed = {}
        /\ pc = [n \in Notifiers |-> "idle"]
        /\ cause = [n \in Notifiers |-> 0]
        /\ taken = [n \in Notifiers |-> 0]

-----------------------------------------------------------------------------
(* The pool (external).                                                    *)

PoolSends ==
    /\ conn = "open"
    /\ lines < MaxLines
    /\ lines' = lines + 1
    /\ \E k \in Kinds : kind' = [kind EXCEPT ![lines'] = k]
    /\ UNCHANGED <<conn, nextRead, nodeVars, lastWork, clientVars, threadVars>>

PoolLeaves ==
    /\ conn = "open"
    /\ conn' \in {"eof", "reset"}
    /\ UNCHANGED <<lines, kind, nextRead, nodeVars, lastWork, clientVars,
                   threadVars>>

-----------------------------------------------------------------------------
(* AleoNode.Start: subscribe, authorize, listen; every error starts over   *)
(* after 5 seconds.                                                        *)

(* Mutated form: a new connection is listened to without subscribing. *)
DialResumes ==
    /\ node = "dial"
    /\ \/ /\ conn' = "open"
          /\ node' = IF lastWork = 0 THEN "subscribe" ELSE "listen"
       \/ conn' = "none" /\ UNCHANGED node
    /\ requests' = {}
    /\ nextRead' = lines + 1
    /\ UNCHANGED <<lines, kind, at, upto, lastWork, clientVars, threadVars>>

(* net.Dial replaces the connection, and what the old one had is lost. *)
Dial ==
    /\ node = "dial"
    /\ \/ conn' = "open" /\ node' = "subscribe"
       \/ conn' = "none" /\ UNCHANGED node
    /\ requests' = {}
    /\ nextRead' = lines + 1
    /\ UNCHANGED <<lines, kind, at, upto, lastWork, clientVars, threadVars>>

(* Send: only this goroutine writes to the connection, so writeLock is     *)
(* free; the write may fail, and Disconnect, called then, does nothing.    *)
Request(from, r, to) ==
    /\ node = from
    /\ \/ node' = to /\ requests' = requests \cup {r}
       \/ node' = "dial" /\ UNCHANGED requests
    /\ UNCHANGED <<poolVars, kind, nextRead, at, upto, lastWork, clientVars,
                   threadVars>>

Subscribe == Request("subscribe", "subscribe", "subscribed")
Authorize == Request("authorize", "authorize", "authorizing")

(* Mutated form: a line too many is taken off the connection. *)
ReadLinesTooFar(j, cut) ==
    /\ conn # "reset"
    /\ j \in nextRead .. lines
    /\ cut => IsWork(j)
    /\ kind' = IF cut THEN [kind EXCEPT ![j] = "other"] ELSE kind
    /\ nextRead' = IF cut THEN j ELSE j + 2

(* Read returns the lines up to j; when j is cut, the rest of it is read   *)
(* later.                                                                  *)
ReadLines(j, cut) ==
    /\ conn # "reset"
    /\ j \in nextRead .. lines
    /\ cut => IsWork(j)
    /\ kind' = IF cut THEN [kind EXCEPT ![j] = "other"] ELSE kind
    /\ nextRead' = IF cut THEN j ELSE j + 1

(* readResponse takes whatever lines come for the answer and drops them;   *)
(* an end of file will do as well.                                         *)
ReadResponse(from, to) ==
    /\ node = from
    /\ \/ node' = to /\ \E j \in Lines, cut \in BOOLEAN : ReadLines(j, cut)
       \/ /\ conn = "eof" /\ nextRead > lines
          /\ node' = to /\ UNCHANGED <<kind, nextRead>>
       \/ conn = "reset" /\ node' = "dial" /\ UNCHANGED <<kind, nextRead>>
    /\ UNCHANGED <<poolVars, requests, at, upto, lastWork, clientVars, threadVars>>

SubscribeResponse == ReadResponse("subscribed", "authorize")
AuthorizeResponse == ReadResponse("authorizing", "listen")

(* Listen reads a buffer.  (At an end of file it reads again after 10 ms,  *)
(* for ever, and nothing changes.)                                         *)
Listen ==
    /\ node = "listen"
    /\ \E j \in Lines, cut \in BOOLEAN : ReadLines(j, cut) /\ upto' = j
    /\ at' = nextRead
    /\ node' = "store"
    /\ UNCHANGED <<poolVars, requests, lastWork, clientVars, threadVars>>

(* Mutated form: every error of Read is taken for an end of file. *)
ListenIgnoresErrors ==
    /\ node = "listen" /\ conn = "reset"
    /\ UNCHANGED vars

(* Another error than an end of file ends Listen. *)
ListenFails ==
    /\ node = "listen" /\ conn = "reset"
    /\ node' = "dial"
    /\ UNCHANGED <<poolVars, kind, nextRead, requests, at, upto, lastWork,
                   clientVars, threadVars>>

Reading(n) == pc[n] \in {"isNil", "length", "take"}

(* Mutated form: the line is dropped while somebody reads LastWork. *)
SetLastWorkIfFree ==
    /\ node = "store"
    /\ lastWork' = IF \E n \in Notifiers : Reading(n) THEN lastWork ELSE at
    /\ node' = "notify"
    /\ UNCHANGED <<poolVars, kind, nextRead, requests, at, upto, clientVars,
                   threadVars>>

(* The callback stores every line, also one that could not be decoded. *)
SetLastWork ==
    /\ node = "store"
    /\ lastWork' = at
    /\ node' = "notify"
    /\ UNCHANGED <<poolVars, kind, nextRead, requests, at, upto, clientVars,
                   threadVars>>

(* NewBlockAvailable starts a notifier for the client. *)
Notify(n, k) ==
    /\ pc[n] = "idle"
    /\ pc' = [pc EXCEPT ![n] = "isNil"]
    /\ cause' = [cause EXCEPT ![n] = k]
    /\ UNCHANGED taken

(* blockCb, for which a client needs the right AppName only, and on to the *)
(* next line of the buffer.                                                *)
BlockCb ==
    /\ node = "notify"
    /\ \/ subscribed /\ \E n \in Notifiers : Notify(n, at)
       \/ ~subscribed /\ UNCHANGED threadVars
    /\ \/ at < upto /\ at' = at + 1 /\ node' = "store"
       \/ at = upto /\ node' = "listen" /\ UNCHANGED at
    /\ UNCHANGED <<poolVars, kind, nextRead, requests, upto, lastWork, clientVars>>

-----------------------------------------------------------------------------
(* The client and its notifiers.                                           *)

(* HandleSubscribe stores AppName; no work is sent for it. *)
ClientSubscribes ==
    /\ ~subscribed
    /\ subscribed' = TRUE
    /\ UNCHANGED <<poolVars, kind, nextRead, nodeVars, lastWork, authorized, sent,
                   failed, threadVars>>

(* Mutated form: the client has to wait for the next line of the pool. *)
ClientAuthorizedWaits ==
    /\ subscribed
    /\ authorized' = TRUE
    /\ UNCHANGED <<poolVars, kind, nextRead, nodeVars, lastWork, subscribed, sent,
                   failed, threadVars>>

(* HandleEvent calls NewBlockAvailable after an authorize, of this client  *)
(* or of another one, perhaps a second one.                                *)
ClientAuthorized ==
    /\ subscribed
    /\ authorized' = TRUE
    /\ \E n \in Notifiers : Notify(n, lastWork)
    /\ UNCHANGED <<poolVars, kind, nextRead, nodeVars, lastWork, subscribed, sent,
                   failed>>

Step(n, from, to) == pc[n] = from /\ pc' = [pc EXCEPT ![n] = to]

(* GetNotifyParams reads LastWork three times: to see that it is there,    *)
(* that it has six parameters, and to take them.                           *)
CheckNil(n) ==
    /\ Step(n, "isNil", IF lastWork = 0 THEN "idle" ELSE "length")
    /\ UNCHANGED <<poolVars, kind, nextRead, nodeVars, lastWork, clientVars,
                   cause, taken>>

CheckLength(n) ==
    /\ pc[n] = "length"
    /\ Step(n, "length", IF IsWork(lastWork) THEN "take" ELSE "idle")
    /\ UNCHANGED <<poolVars, kind, nextRead, nodeVars, lastWork, clientVars,
                   cause, taken>>

TakeParams(n) ==
    /\ Step(n, "take", "send")
    /\ taken' = [taken EXCEPT ![n] = lastWork]
    /\ UNCHANGED <<poolVars, kind, nextRead, nodeVars, lastWork, clientVars, cause>>

(* client.Send of mining.notify; a failed one is not repeated. *)
SendWork(n) ==
    /\ Step(n, "send", "idle")
    /\ \/ sent' = sent \cup {taken[n]} /\ UNCHANGED failed
       \/ failed' = failed \cup {taken[n]} /\ UNCHANGED sent
    /\ UNCHANGED <<poolVars, kind, nextRead, nodeVars, lastWork, subscribed,
                   authorized, cause, taken>>

Notifier(n) == CheckNil(n) \/ CheckLength(n) \/ TakeParams(n) \/ SendWork(n)

Session == \/ Dial \/ Subscribe \/ SubscribeResponse \/ Authorize
           \/ AuthorizeResponse \/ Listen \/ ListenFails \/ SetLastWork \/ BlockCb

Next == \/ PoolSends \/ PoolLeaves \/ Session \/ ClientSubscribes \/ ClientAuthorized
        \/ \E n \in Notifiers : Notifier(n)

(* The goroutines of the bridge run; nothing is assumed of the pool.  A    *)
(* Dial that fails again and again, or a Read that never returns, is       *)
(* still possible.  blockCb never has to wait for a notifier in the code,  *)
(* so that here the authorizes cannot take them all for ever.              *)
Fairness == /\ WF_vars(Session) /\ SF_vars(BlockCb)
            /\ \A n \in Notifiers : WF_vars(Notifier(n))

SafetySpec == Init /\ [][Next]_vars
Spec == SafetySpec /\ Fairness

-----------------------------------------------------------------------------

(* Every variable has its type, and the bridge never works on a line that  *)
(* was not sent.                                                           *)
TypeOK ==
    /\ conn \in {"none", "open", "eof", "reset"}
    /\ lines \in 0 .. MaxLines /\ kind \in [Lines -> Kinds]
    /\ nextRead \in 1 .. lines + 1
    /\ node \in {"dial", "subscribe", "subscribed", "authorize", "authorizing",
                 "listen", "store", "notify"}
    /\ requests \subseteq {"subscribe", "authorize"}
    /\ at \in 0 .. lines /\ upto \in 0 .. lines /\ lastWork \in 0 .. lines
    /\ subscribed \in BOOLEAN /\ authorized \in BOOLEAN
    /\ pc \in [Notifiers -> {"idle", "isNil", "length", "take", "send"}]
    /\ cause \in [Notifiers -> 0 .. lines] /\ taken \in [Notifiers -> 0 .. lines]
    /\ sent \subseteq 1 .. lines /\ failed \subseteq 1 .. lines

(* Whoever is notified because a line arrived sends that line or a later   *)
(* one, although LastWork is replaced and read without a lock: SetLastWork *)
(* comes before blockCb, and LastWork never goes back, not even when the   *)
(* connection is replaced.                                                 *)
NoOlderWork == \A n \in Notifiers : pc[n] = "send" => taken[n] >= cause[n]

(* Listen only ever runs on a connection on which subscribe and authorize  *)
(* were both sent, in spite of the answers that are not looked at and of   *)
(* all the ways to start over.                                             *)
ListensSubscribed ==
    node \in {"listen", "store", "notify"} => requests = {"subscribe", "authorize"}

(* Work that is the last one is sent to the client, or its send fails,     *)
(* whether an authorize followed its subscribe before or after it arrived. *)
WorkIsOffered ==
    \A k \in Lines : (authorized /\ lastWork = k /\ IsWork(k))
                       ~> (k \in sent \cup failed \/ lastWork # k)

(* A connection that is reset, wherever in the session, is dialled again.  *)
(* (One that the pool closes orderly is not: Listen and readResponse do    *)
(* not treat the end of file as an error.)                                 *)
ResetIsRedialled == conn = "reset" ~> node = "dial"

=============================================================================
