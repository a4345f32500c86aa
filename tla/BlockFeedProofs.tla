--------------------------- MODULE BlockFeedProofs ---------------------------
(***************************************************************************)
(* Proofs about the block feed, for any number of blocks and               *)
(* notifications.                                                          *)
(***************************************************************************)
EXTENDS BlockFeed, TLAPS

(* Whoever is about to take a block or has taken one was told that kaspad  *)
(* is synced, or has closed the client after an error; who sleeps before   *)
(* the next attempt has closed it.                                         *)
SelectIsChecked ==
    /\ feed \in {"select", "ready"} => answer = "synced" \/ client = "closed"
    /\ feed = "backoff" => client = "closed"

(* Before the feed starts a goroutine after an error, the client is closed *)
(* for good.                                                               *)
NotifierIsChecked == "error" \in notifiers => client = "closed"

(* waitForSync does not return with any other answer. *)
Answered == feed \in {"reconnect", "backoff", "select", "ready"} => answer \in {"synced", "error"}

FeedInv == TypeOK /\ SelectIsChecked /\ NotifierIsChecked /\ Answered /\ FeedChecksSync

LEMMA FeedInit == Init => FeedInv
<1> SUFFICES ASSUME Init PROVE FeedInv
  OBVIOUS
<1>1. /\ nodeUp \in BOOLEAN /\ synced \in BOOLEAN /\ registered \in BOOLEAN
      /\ callback \in BOOLEAN /\ tick \in BOOLEAN /\ cancelled \in BOOLEAN
      /\ unchecked \in BOOLEAN /\ FeedChecksSync
  BY Zenon DEF Init, FeedChecksSync
<1>2. tip \in 0 .. MaxBlocks /\ queue \in 0 .. MaxQueue /\ offered \in 0 .. tip /\ ~(queue > 0)
  BY FeedAssumption DEF Init
<1>3. /\ client \in {"open", "closed"} /\ feed \in FeedStates
      /\ stats \in {"none", "idle", "dagInfo", "estimate", "stopped"}
      /\ answer \in {"none", "synced", "unsynced", "error"}
      /\ notifiers \subseteq Kinds
  BY DEF Init, FeedStates, Kinds
<1>4. SelectIsChecked /\ NotifierIsChecked /\ Answered
  BY DEF Init, SelectIsChecked, NotifierIsChecked, Answered
<1> QED
  BY <1>1, <1>2, <1>3, <1>4 DEF FeedInv, TypeOK

(* A step of kaspad, of its client or of the one who cancels. *)
LEMMA OutsideKeepsInv ==
    FeedInv /\ (NodeChanges \/ NewBlock \/ Notify \/ Cancel \/ Tick) => FeedInv'
<1> SUFFICES ASSUME FeedInv, NodeChanges \/ NewBlock \/ Notify \/ Cancel \/ Tick
             PROVE  FeedInv'
  OBVIOUS
<1> USE FeedAssumption DEF FeedInv, TypeOK, SelectIsChecked, NotifierIsChecked, Answered,
        FeedChecksSync, FeedStates, Kinds, clientVars, nodeVars, workVars
<1>1. CASE NodeChanges
  <2>1. nodeUp' \in BOOLEAN /\ synced' \in BOOLEAN
    BY <1>1, Zenon DEF NodeChanges
  <2>2. UNCHANGED <<tip, client, registered, queue, callback, feed, tick, stats,
                    cancelled, workVars, answer>>
    BY <1>1, Zenon DEF NodeChanges
  <2> QED
    BY <2>1, <2>2
<1>2. CASE NewBlock
  BY <1>2 DEF NewBlock
<1>3. CASE Notify
  BY <1>3 DEF Notify
<1>4. CASE Cancel
  BY <1>4 DEF Cancel
<1>5. CASE Tick
  BY <1>5 DEF Tick
<1> QED
  BY <1>1, <1>2, <1>3, <1>4, <1>5

(* A step of the feed outside of its select. *)
LEMMA FeedStepKeepsInv == FeedInv /\ FeedStep => FeedInv'
<1> SUFFICES ASSUME FeedInv, FeedStep PROVE FeedInv'
  OBVIOUS
<1> USE FeedAssumption DEF FeedInv, TypeOK, SelectIsChecked, NotifierIsChecked, Answered,
        FeedChecksSync, FeedStates, Kinds, clientVars, nodeVars, workVars
<1>1. CASE GetInfoFails
  BY <1>1 DEF GetInfoFails, Started
<1>2. CASE GetInfoSynced
  BY <1>2 DEF GetInfoSynced, Started
<1>3. CASE GetInfoUnsynced
  BY <1>3 DEF GetInfoUnsynced
<1>4. CASE WaitOver
  BY <1>4 DEF WaitOver
<1>5. CASE Register
  <2>1. registered' \in BOOLEAN /\ (registered => registered') /\ feed' = "sync"
    BY <1>5, Zenon DEF Register
  <2>2. UNCHANGED <<nodeVars, client, queue, callback, tick, stats, cancelled,
                    workVars, answer>>
    BY <1>5, Zenon DEF Register
  <2> QED
    BY <2>1, <2>2
<1>6. CASE Reconnect
  <2>1. registered' \in BOOLEAN /\ queue' = 0 /\ client' = "closed"
        /\ feed = "reconnect" /\ feed' \in {"select", "backoff"}
    BY <1>6, Zenon DEF Reconnect
  <2>2. UNCHANGED <<nodeVars, callback, tick, stats, cancelled, workVars, answer>>
    BY <1>6, Zenon DEF Reconnect
  <2>3. queue' \in 0 .. MaxQueue /\ ~(queue' > 0)
    BY <2>1
  <2> QED
    BY <2>1, <2>2, <2>3
<1>7. CASE BackoffOver
  BY <1>7 DEF BackoffOver
<1>8. CASE BlockReadyCb
  BY <1>8 DEF BlockReadyCb
<1> QED
  BY <1>1, <1>2, <1>3, <1>4, <1>5, <1>6, <1>7, <1>8 DEF FeedStep, WaitForSync

(* A case of the select, or a step of the statistics. *)
LEMMA SelectKeepsInv ==
    ASSUME FeedInv, Select \/ StatsTick \/ StatsRequest \/ StatsDone
    PROVE  FeedInv'
<1> USE FeedAssumption DEF FeedInv, TypeOK, SelectIsChecked, NotifierIsChecked, Answered,
        FeedChecksSync, FeedStates, Kinds, clientVars, nodeVars, workVars
<1>1. CASE DoneCase
  BY <1>1 DEF DoneCase
<1>2. CASE BlockReadyCase
  BY <1>2 DEF BlockReadyCase
<1>3. CASE TickerCase
  BY <1>3 DEF TickerCase
<1>4. CASE StatsTick
  BY <1>4 DEF StatsTick
<1>5. CASE StatsRequest
  BY <1>5 DEF StatsRequest
<1>6. CASE StatsDone
  BY <1>6 DEF StatsDone
<1> QED
  BY <1>1, <1>2, <1>3, <1>4, <1>5, <1>6 DEF Select

(* A goroutine that fetches a template was not started after an error:     *)
(* the client would be closed.                                             *)
LEMMA FetchesChecked ==
    ASSUME FeedInv, NEW g \in Kinds, FetchTemplate(g)
    PROVE  g # "error"
<1>1. g \in notifiers /\ client = "open"
  BY DEF FetchTemplate, Working
<1> QED
  BY <1>1 DEF FeedInv, NotifierIsChecked

(* An authorize, or a step of one of the goroutines of NewBlockAvailable. *)
LEMMA NotifiersKeepInv ==
    ASSUME FeedInv, AuthorizeNotifies \/ Fetched \/ Ended
    PROVE  FeedInv'
<1>1. CASE AuthorizeNotifies
  BY <1>1 DEF FeedInv, TypeOK, SelectIsChecked, NotifierIsChecked, Answered, FeedChecksSync,
              Kinds, AuthorizeNotifies, nodeVars, clientVars
<1>2. CASE Fetched
  <2>1. PICK g \in Kinds : FetchTemplate(g)
    BY <1>2 DEF Fetched
  <2>2. unchecked' = FALSE
    BY <2>1, FetchesChecked, Zenon DEF FetchTemplate, FeedInv, FeedChecksSync
  <2>3. /\ offered' = tip /\ notifiers' \subseteq notifiers
        /\ UNCHANGED <<nodeVars, clientVars, feed, tick, stats, cancelled, answer>>
    BY <2>1 DEF FetchTemplate
  <2>4. TypeOK'
    <3>1. unchecked' \in BOOLEAN
      BY <2>2, Zenon
    <3>2. offered' \in 0 .. tip' /\ notifiers' \subseteq Kinds
      BY <2>3 DEF FeedInv, TypeOK, nodeVars
    <3> QED
      BY <3>1, <3>2, <2>3 DEF FeedInv, TypeOK, nodeVars, clientVars
  <2> QED
    BY <2>2, <2>3, <2>4 DEF FeedInv, SelectIsChecked, NotifierIsChecked, Answered,
                            FeedChecksSync, clientVars
<1>3. CASE Ended
  <2>1. PICK g \in Kinds : FetchFails(g)
    BY <1>3 DEF Ended
  <2>2. /\ notifiers' \subseteq notifiers
        /\ UNCHANGED <<nodeVars, clientVars, feed, tick, stats, cancelled, offered,
                       unchecked, answer>>
    BY <2>1 DEF FetchFails
  <2> QED
    BY <2>2 DEF FeedInv, TypeOK, SelectIsChecked, NotifierIsChecked, Answered,
                FeedChecksSync, nodeVars, clientVars
<1> QED
  BY <1>1, <1>2, <1>3

LEMMA FeedNext == FeedInv /\ [Next]_vars => FeedInv'
<1> SUFFICES ASSUME FeedInv, [Next]_vars PROVE FeedInv'
  OBVIOUS
<1>1. CASE UNCHANGED vars
  BY <1>1 DEF FeedInv, TypeOK, SelectIsChecked, NotifierIsChecked, Answered, FeedChecksSync,
              vars, nodeVars, clientVars, workVars
<1> QED
  BY <1>1, OutsideKeepsInv, FeedStepKeepsInv, SelectKeepsInv, NotifiersKeepInv DEF Next

(* The inductive invariant of the feed. *)
THEOREM FeedInvariant == SafetySpec => []FeedInv
  BY FeedInit, FeedNext, PTL DEF SafetySpec

(* Type correctness of the feed; no block is offered before kaspad has it. *)
THEOREM FeedTypeOK == SafetySpec => []TypeOK
<1>1. FeedInv => TypeOK
  BY DEF FeedInv
<1> QED
  BY <1>1, FeedInvariant, PTL

(* waitForSync before every select: the goroutines the feed starts after a *)
(* GetInfo that failed never give a miner work, for any behaviour of       *)
(* kaspad and whatever authorizes happen in between.                       *)
THEOREM FeedAlwaysChecksSync == SafetySpec => []FeedChecksSync
<1>1. FeedInv => FeedChecksSync
  BY DEF FeedInv
<1> QED
  BY <1>1, FeedInvariant, PTL

=============================================================================
