------------------------------- MODULE BlockFeed -------------------------------
(***************************************************************************)
(* Where the work of a kaspa bridge comes from (poolstratum/api.go): the   *)
(* goroutine that waits until kaspad is synced, is told of new blocks or   *)
(* asks for them when nothing was told for block_wait_time, and has the    *)
(* miners served; the goroutine that reads the network statistics; and the *)
(* readers of the clients, which have everybody served after an authorize  *)
(* without asking whether kaspad is synced.                                *)
(*                                                                         *)
(* kaspad and its RPC client are outside the repository and modelled as    *)
(* api.go uses them: a call fails when kaspad is down, when it takes too   *)
(* long, or after Close; notifications are queued in the client and handed *)
(* one after the other to the registered callback, which blocks until the  *)
(* feed takes it.                                                          *)
(*                                                                         *)
(* A block is its number.  What a notifier does with its block template is *)
(* in MiningJobs and WorkerConn.                                           *)
(***************************************************************************)
EXTENDS Integers

CONSTANTS MaxBlocks,  \* bound: blocks kaspad finds in a behaviour
          MaxQueue    \* bound: notifications the RPC client holds

ASSUME FeedAssumption == MaxBlocks \in Nat /\ MaxQueue \in Nat

VARIABLES
    nodeUp,      \* kaspad can be reached
    synced,      \* IsSynced, as kaspad would answer
    tip,         \* the newest block of kaspad
    client,      \* the RPC client: open, or closed for good
    registered,  \* the callback for new block templates is registered
    queue,       \* notifications the client has not handed over
    callback,    \* the callback is blocked in blockReadyChan <- true
    feed,        \* where Start and then startBlockTemplateListener are
    tick,        \* a tick is waiting in ticker.C
    stats,       \* where startStatsThread is
    cancelled,   \* the context is cancelled
    offered,     \* the newest block that templates were fetched for
    notifiers,   \* goroutines of NewBlockAvailable, any number of a kind: what
                 \* GetInfo said before the feed started them, or "authorize"
    unchecked,   \* history: one the feed started after an error got a template
    answer       \* history: what the last GetInfo said

nodeVars == <<nodeUp, synced, tip>>
clientVars == <<client, registered, queue, callback>>
workVars == <<offered, notifiers, unchecked>>
vars == <<nodeVars, clientVars, feed, tick, stats, cancelled, workVars, answer>>

Blocks == 1 .. MaxBlocks

Init == /\ nodeUp = TRUE /\ synced \in BOOLEAN /\ tip = 0
        /\ client = "open" /\ registered = FALSE /\ queue = 0 /\ callback = FALSE
        /\ feed = "start" /\ tick = FALSE /\ stats = "none"
        /\ cancelled = FALSE /\ answer = "none"
        /\ offered = 0 /\ notifiers = {} /\ unchecked = FALSE

(* A call of the RPC client can be answered. *)
Working == nodeUp /\ client = "open"

-----------------------------------------------------------------------------
(* kaspad and the RPC client (external).                                   *)

NodeChanges ==
    /\ \/ nodeUp' = ~nodeUp /\ UNCHANGED synced
       \/ synced' = ~synced /\ UNCHANGED nodeUp
    /\ UNCHANGED <<tip, clientVars, feed, tick, stats, cancelled, workVars, answer>>

(* A new block; who registered for it is told, unless that gets lost. *)
NewBlock ==
    /\ tip < MaxBlocks
    /\ tip' = tip + 1
    /\ \/ UNCHANGED queue
       \/ registered /\ Working /\ queue < MaxQueue /\ queue' = queue + 1
    /\ UNCHANGED <<nodeUp, synced, client, registered, callback, feed, tick, stats,
                   cancelled, workVars, answer>>

(* The client calls the callback with the next notification. *)
Notify ==
    /\ queue > 0 /\ ~callback
    /\ queue' = queue - 1
    /\ callback' = TRUE
    /\ UNCHANGED <<nodeVars, client, registered, feed, tick, stats, cancelled,
                   workVars, answer>>

(* ListenAndServe returns: the deferred cancel(). *)
Cancel ==
    /\ ~cancelled
    /\ cancelled' = TRUE
    /\ UNCHANGED <<nodeVars, clientVars, feed, tick, stats, workVars, answer>>

-----------------------------------------------------------------------------
(* Start and startBlockTemplateListener.                                   *)

(* After the first waitForSync, whose error is dropped, the two goroutines *)
(* are started.                                                            *)
Started == feed' = "register" /\ stats' = "idle"

(* Mutated form: waitForSync asks again instead of returning the error. *)
GetInfoFailsRetries ==
    /\ answer' = "error"
    /\ \/ feed = "start" /\ Started
       \/ feed = "sync" /\ UNCHANGED <<feed, stats>>
    /\ UNCHANGED <<nodeVars, clientVars, tick, cancelled, workVars>>

(* GetInfo cannot be answered, or only too late. *)
GetInfoFails ==
    /\ answer' = "error"
    /\ \/ feed = "start" /\ Started
       \/ feed = "sync" /\ feed' = "reconnect" /\ UNCHANGED stats
    /\ UNCHANGED <<nodeVars, clientVars, tick, cancelled, workVars>>

GetInfoSynced ==
    /\ Working /\ synced
    /\ answer' = "synced"
    /\ \/ feed = "start" /\ Started
       \/ feed = "sync" /\ feed' = "select" /\ UNCHANGED stats
    /\ UNCHANGED <<nodeVars, clientVars, tick, cancelled, workVars>>

(* Not synced: wait for 5 seconds and ask again, whatever else happens. *)
GetInfoUnsynced ==
    /\ Working /\ ~synced
    /\ answer' = "unsynced"
    /\ \/ feed = "start" /\ feed' = "startWait"
       \/ feed = "sync" /\ feed' = "wait"
    /\ UNCHANGED <<nodeVars, clientVars, tick, stats, cancelled, workVars>>

WaitOver ==
    /\ \/ feed = "startWait" /\ feed' = "start"
       \/ feed = "wait" /\ feed' = "sync"
    /\ UNCHANGED <<nodeVars, clientVars, tick, stats, cancelled, workVars, answer>>

(* RegisterForNewBlockTemplateNotifications; an error is only logged.  Then *)
(* the ticker is made.                                                     *)
Register ==
    /\ feed = "register"
    /\ feed' = "sync"
    /\ \/ Working /\ registered' = TRUE
       \/ UNCHANGED registered
    /\ UNCHANGED <<nodeVars, client, queue, callback, tick, stats, cancelled,
                   workVars, answer>>

(* Mutated form: the client is kept, so that its calls work again. *)
ReconnectKeepsClient ==
    /\ feed = "reconnect"
    /\ feed' = "select"
    /\ UNCHANGED <<nodeVars, clientVars, tick, stats, cancelled, workVars, answer>>

(* Mutated form: what the closed client has queued is still handed over. *)
ReconnectKeepsQueue ==
    /\ feed = "reconnect"
    /\ feed' = IF client = "open" THEN "select" ELSE "backoff"
    /\ client' = "closed"
    /\ registered' = FALSE
    /\ UNCHANGED <<nodeVars, queue, callback, tick, stats, cancelled, workVars, answer>>

(* ChainNode.Reconnect closes the RPC client; it is never opened again.    *)
(* Closing it twice is an error, after which the feed sleeps.              *)
Reconnect ==
    /\ feed = "reconnect"
    /\ \/ client = "open" /\ feed' = "select"
       \/ client = "closed" /\ feed' = "backoff"
    /\ client' = "closed"
    /\ registered' = FALSE /\ queue' = 0
    /\ UNCHANGED <<nodeVars, callback, tick, stats, cancelled, workVars, answer>>

(* Mutated form: the feed reconnects until it succeeds. *)
BackoffRetries ==
    /\ feed = "backoff"
    /\ feed' = "reconnect"
    /\ UNCHANGED <<nodeVars, clientVars, tick, stats, cancelled, workVars, answer>>

(* The sleep of 5 seconds is over. *)
BackoffOver ==
    /\ feed = "backoff"
    /\ feed' = "select"
    /\ UNCHANGED <<nodeVars, clientVars, tick, stats, cancelled, workVars, answer>>

(* The ticker fires.  A tick nobody has taken yet is not doubled, and      *)
(* ticker.Reset does not take it back.                                     *)
Tick ==
    /\ feed \notin {"start", "startWait", "register"}
    /\ ~tick
    /\ tick' = TRUE
    /\ UNCHANGED <<nodeVars, clientVars, feed, stats, cancelled, workVars, answer>>

(* case <-ctx.Done() *)
DoneCase ==
    /\ feed = "select" /\ cancelled
    /\ feed' = "stopped"
    /\ UNCHANGED <<nodeVars, clientVars, tick, stats, cancelled, workVars, answer>>

(* case <-blockReadyChan *)
BlockReadyCase ==
    /\ feed = "select" /\ callback
    /\ callback' = FALSE
    /\ feed' = "ready"
    /\ UNCHANGED <<nodeVars, client, registered, queue, tick, stats, cancelled,
                   workVars, answer>>

(* Mutated form: a tick is taken, but nothing is asked for. *)
TickerCaseIdle ==
    /\ feed = "select" /\ tick
    /\ tick' = FALSE
    /\ feed' = "sync"
    /\ UNCHANGED <<nodeVars, clientVars, stats, cancelled, workVars, answer>>

(* case <-ticker.C: timeout, manually check for new blocks *)
TickerCase ==
    /\ feed = "select" /\ tick
    /\ tick' = FALSE
    /\ feed' = "ready"
    /\ UNCHANGED <<nodeVars, clientVars, stats, cancelled, workVars, answer>>

(* blockReadyCb(): NewBlockAvailable starts a goroutine for every client,  *)
(* and the feed does not wait for them.                                    *)
BlockReadyCb ==
    /\ feed = "ready"
    /\ notifiers' = notifiers \cup {answer}
    /\ feed' = "sync"
    /\ UNCHANGED <<nodeVars, clientVars, tick, stats, cancelled, offered, unchecked, answer>>

(* HandleEvent has NewBlockAvailable called after every mining.authorize,  *)
(* whatever the feed is waiting for.  (Start returns before the bridge     *)
(* listens for clients.)                                                   *)
AuthorizeNotifies ==
    /\ feed \notin {"start", "startWait"}
    /\ notifiers' = notifiers \cup {"authorize"}
    /\ UNCHANGED <<nodeVars, clientVars, feed, tick, stats, cancelled, offered, unchecked, answer>>

(* One of the goroutines fetches a template of the newest block ... *)
FetchTemplate(g) ==
    /\ g \in notifiers /\ Working
    /\ offered' = tip
    /\ unchecked' = (unchecked \/ g = "error")
    /\ notifiers' \in {notifiers, notifiers \ {g}}
    /\ UNCHANGED <<nodeVars, clientVars, feed, tick, stats, cancelled, answer>>

(* ... or the last of its kind cannot, and ends. *)
FetchFails(g) ==
    /\ g \in notifiers
    /\ notifiers' = notifiers \ {g}
    /\ UNCHANGED <<nodeVars, clientVars, feed, tick, stats, cancelled, offered, unchecked, answer>>

Kinds == {"synced", "error", "authorize"}

Fetched == \E g \in Kinds : FetchTemplate(g)
Ended == \E g \in Kinds : FetchFails(g)

-----------------------------------------------------------------------------
(* startStatsThread: two requests every 30 seconds.                        *)

StatsTick ==
    /\ stats = "idle"
    /\ stats' = "dagInfo"
    /\ UNCHANGED <<nodeVars, clientVars, feed, tick, cancelled, workVars, answer>>

StatsRequest ==
    /\ \/ stats = "dagInfo" /\ Working /\ stats' = "estimate"
       \/ stats \in {"dagInfo", "estimate"} /\ stats' = "idle"
    /\ UNCHANGED <<nodeVars, clientVars, feed, tick, cancelled, workVars, answer>>

StatsDone ==
    /\ stats = "idle" /\ cancelled
    /\ stats' = "stopped"
    /\ UNCHANGED <<nodeVars, clientVars, feed, tick, cancelled, workVars, answer>>

-----------------------------------------------------------------------------

WaitForSync == GetInfoFails \/ GetInfoSynced \/ GetInfoUnsynced \/ WaitOver

Select == DoneCase \/ BlockReadyCase \/ TickerCase

FeedStep == \/ WaitForSync \/ Register \/ Reconnect \/ BackoffOver \/ BlockReadyCb

Next == \/ NodeChanges \/ NewBlock \/ Notify \/ Cancel
        \/ FeedStep \/ Select \/ Tick \/ AuthorizeNotifies \/ Fetched \/ Ended
        \/ StatsTick \/ StatsRequest \/ StatsDone

(* The goroutines run and the timers fire.  A select chooses at random     *)
(* among the cases that are ready, so one that is ready again and again is *)
(* taken.  Of kaspad only this is assumed: while it works, not every       *)
(* request for a template fails for ever.                                  *)
Fairness == /\ WF_vars(FeedStep) /\ WF_vars(Tick) /\ WF_vars(Notify)
            /\ SF_vars(DoneCase) /\ SF_vars(BlockReadyCase) /\ SF_vars(TickerCase)
            /\ WF_vars(Fetched \/ Ended) /\ SF_vars(Fetched)
            /\ WF_vars(StatsTick \/ StatsRequest) /\ SF_vars(StatsDone)

SafetySpec == Init /\ [][Next]_vars
Spec == SafetySpec /\ Fairness

-----------------------------------------------------------------------------

FeedStates == {"start", "startWait", "register", "sync", "wait", "reconnect",
               "backoff", "select", "ready", "stopped"}

(* Every variable has its type; in particular no block is offered that     *)
(* kaspad does not have, and nobody is told of one without registering.    *)
TypeOK ==
    /\ nodeUp \in BOOLEAN /\ synced \in BOOLEAN /\ tip \in 0 .. MaxBlocks
    /\ client \in {"open", "closed"} /\ registered \in BOOLEAN
    /\ queue \in 0 .. MaxQueue /\ callback \in BOOLEAN
    /\ feed \in FeedStates /\ tick \in BOOLEAN
    /\ stats \in {"none", "idle", "dagInfo", "estimate", "stopped"}
    /\ cancelled \in BOOLEAN
    /\ offered \in 0 .. tip /\ notifiers \subseteq Kinds
    /\ unchecked \in BOOLEAN
    /\ answer \in {"none", "synced", "unsynced", "error"}
    /\ queue > 0 => registered

(* The sync check of the feed: the goroutines it starts after a GetInfo    *)
(* that failed give nobody work, because the client they would fetch it    *)
(* with is closed by then.  Every other one was started after kaspad said  *)
(* that it is synced, or by an authorize, which does not ask.              *)
FeedChecksSync == ~unchecked

(* What the ticker is for: a block of kaspad is offered to the miners      *)
(* whether or not its notification arrives, while kaspad is synced and its *)
(* client works.                                                           *)
NewBlockIsOffered ==
    \A k \in Blocks : (tip >= k) ~> (offered >= k \/ ~Working \/ ~synced \/ cancelled)

(* The callback, which holds up the RPC client's goroutine, returns:       *)
(* neither the ticker nor reconnects keep the feed from taking it, unless  *)
(* kaspad is not synced or the feed has stopped.                           *)
CallbackReturns == callback ~> (~callback \/ ~synced \/ cancelled)

(* Both goroutines end after a cancellation, although the feed does not    *)
(* look at the context while kaspad is not synced.                         *)
FeedStops ==
    (cancelled /\ feed \notin {"start", "startWait"} /\ []synced)
       ~> (feed = "stopped" /\ stats = "stopped")

(* "error checking kaspad sync state, attempting reconnect": after a       *)
(* reconnect the bridge can use kaspad again, unless kaspad is down.       *)
ReconnectRestores == (feed = "reconnect") ~> ((Working /\ feed = "select") \/ ~nodeUp)

=============================================================================
