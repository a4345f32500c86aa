---------------------------- MODULE MessageQueue ----------------------------
(***************************************************************************)
(* The publisher of records (mq/mqqt.go).  Every reader goroutine that     *)
(* handles an authorize or a submit, and everyone who disconnects a        *)
(* client, calls Insertmqqt: GetChannel opens the one channel to the       *)
(* broker under mqlock if there is none, reads it again after the unlock,  *)
(* and the record is published on it.  The callers ignore the error.       *)
(*                                                                         *)
(* The broker and its client library are outside the repository: dialling  *)
(* or opening a channel may fail or take until a timeout, and a channel    *)
(* that was opened may be closed at any time, which makes it useless.      *)
(* A record is one call; what is in it is left out.                        *)
(***************************************************************************)
EXTENDS Integers, FiniteSets

CONSTANTS Callers,     \* bound: goroutines that publish at a time
          MaxDials     \* bound: times the broker is dialled in a behaviour

ASSUME QueueAssumption == MaxDials \in Nat

VARIABLES
    instance,   \* the channel: nil, open or closed
    mqlock,     \* who holds mqlock, or Nobody
    dials,      \* connections dialled successfully
    channels,   \* channels opened
    pc,         \* where caller c is in Insertmqqt
    failed,     \* history: failed[c], dialling failed in c's call
    published,  \* history: published[c], c's last record reached the channel
    closed      \* history: the broker has closed a channel

vars == <<instance, mqlock, dials, channels, pc, failed, published, closed>>

Nobody == "nobody"

ASSUME CallersAssumption == Nobody \notin Callers

Init == /\ instance = "nil" /\ mqlock = Nobody /\ dials = 0 /\ channels = 0
        /\ pc = [c \in Callers |-> "idle"]
        /\ failed = [c \in Callers |-> FALSE]
        /\ published = [c \in Callers |-> TRUE]
        /\ closed = FALSE

Goto(c, state) == pc' = [pc EXCEPT ![c] = state]

(* A record to publish. *)
Insertmqqt(c) ==
    /\ pc[c] = "idle"
    /\ Goto(c, "lock")
    /\ failed' = [failed EXCEPT ![c] = FALSE]
    /\ published' = [published EXCEPT ![c] = FALSE]
    /\ UNCHANGED <<instance, mqlock, dials, channels, closed>>

(* Mutated form: the lock is not waited for. *)
LockNotHeld(c) ==
    /\ pc[c] = "lock"
    /\ mqlock' = c
    /\ Goto(c, "check")
    /\ UNCHANGED <<instance, dials, channels, failed, published, closed>>

(* Mutated form: who finds the lock taken goes on without it. *)
LockIfFree(c) ==
    /\ pc[c] = "lock"
    /\ \/ mqlock = Nobody /\ mqlock' = c /\ Goto(c, "check")
       \/ mqlock # Nobody /\ UNCHANGED mqlock /\ Goto(c, "read")
    /\ UNCHANGED <<instance, dials, channels, failed, published, closed>>

(* mqlock.Lock() *)
Lock(c) ==
    /\ pc[c] = "lock"
    /\ mqlock = Nobody
    /\ mqlock' = c
    /\ Goto(c, "check")
    /\ UNCHANGED <<instance, dials, channels, failed, published, closed>>

(* if instance == nil *)
CheckInstance(c) ==
    /\ pc[c] = "check"
    /\ Goto(c, IF instance = "nil" THEN "dial" ELSE "unlock")
    /\ UNCHANGED <<instance, mqlock, dials, channels, failed, published, closed>>

(* Mutated form: dialling is repeated until it succeeds. *)
DialUntilOpen(c) ==
    /\ pc[c] = "dial"
    /\ \/ dials < MaxDials /\ dials' = dials + 1 /\ Goto(c, "channel")
       \/ UNCHANGED <<dials, pc>>
    /\ UNCHANGED <<instance, mqlock, channels, failed, published, closed>>

(* amqp091.Dial, with the lock held. *)
Dial(c) ==
    /\ pc[c] = "dial"
    /\ \/ /\ dials < MaxDials
          /\ dials' = dials + 1
          /\ Goto(c, "channel")
          /\ UNCHANGED failed
       \/ /\ failed' = [failed EXCEPT ![c] = TRUE]
          /\ Goto(c, "unlock")
          /\ UNCHANGED dials
    /\ UNCHANGED <<instance, mqlock, channels, published, closed>>

(* Mutated form: a channel that could not be opened is kept all the same. *)
OpenChannelKeeps(c) ==
    /\ pc[c] = "channel"
    /\ \/ instance' = "open" /\ channels' = channels + 1
       \/ instance' = "unusable" /\ UNCHANGED channels
    /\ Goto(c, "unlock")
    /\ UNCHANGED <<mqlock, dials, failed, published, closed>>

(* mqCh.Channel(); when it fails the connection stays open, unused. *)
OpenChannel(c) ==
    /\ pc[c] = "channel"
    /\ \/ /\ instance' = "open"
          /\ channels' = channels + 1
          /\ UNCHANGED failed
       \/ /\ failed' = [failed EXCEPT ![c] = TRUE]
          /\ UNCHANGED <<instance, channels>>
    /\ Goto(c, "unlock")
    /\ UNCHANGED <<mqlock, dials, published, closed>>

(* mqlock.Unlock() *)
Unlock(c) ==
    /\ pc[c] = "unlock"
    /\ mqlock' = Nobody
    /\ Goto(c, "read")
    /\ UNCHANGED <<instance, dials, channels, failed, published, closed>>

(* return instance, without the lock: another call may have set it since.  *)
(* Without a channel the record is dropped.                                *)
ReadInstance(c) ==
    /\ pc[c] = "read"
    /\ Goto(c, IF instance = "nil" THEN "idle" ELSE "publish")
    /\ UNCHANGED <<instance, mqlock, dials, channels, failed, published, closed>>

(* ch.PublishWithContext, which fails on a closed channel. *)
Publish(c) ==
    /\ pc[c] = "publish"
    /\ published' = [published EXCEPT ![c] = instance = "open"]
    /\ Goto(c, "idle")
    /\ UNCHANGED <<instance, mqlock, dials, channels, failed, closed>>

(* The broker closes the channel or its connection (external). *)
BrokerCloses ==
    /\ instance = "open"
    /\ instance' = "closed"
    /\ closed' = TRUE
    /\ UNCHANGED <<mqlock, dials, channels, pc, failed, published>>

GetChannel(c) == \/ CheckInstance(c) \/ Dial(c) \/ OpenChannel(c)
                 \/ Unlock(c) \/ ReadInstance(c)

Next == \/ \E c \in Callers : Insertmqqt(c) \/ Lock(c) \/ GetChannel(c) \/ Publish(c)
        \/ BrokerCloses

(* The goroutines run, dialling ends at the latest with its timeout, and   *)
(* Go's mutex is handed to whoever has waited for it for a millisecond.    *)
(* Nothing says that there is another record, or what the broker does.     *)
Fairness == \A c \in Callers : SF_vars(Lock(c)) /\ WF_vars(GetChannel(c) \/ Publish(c))

SafetySpec == Init /\ [][Next]_vars
Spec == SafetySpec /\ Fairness

-----------------------------------------------------------------------------

Steps == {"idle", "lock", "check", "dial", "channel", "unlock", "read", "publish"}

(* Every variable has its type; in particular instance is nil, or a        *)
(* channel that was opened.                                                *)
TypeOK == /\ instance \in {"nil", "open", "closed"}
          /\ mqlock \in Callers \cup {Nobody}
          /\ dials \in 0 .. MaxDials /\ channels \in Nat
          /\ pc \in [Callers -> Steps]
          /\ failed \in [Callers -> BOOLEAN]
          /\ published \in [Callers -> BOOLEAN] /\ closed \in BOOLEAN

(* Whoever publishes first, the callers share one channel: it is opened    *)
(* once in the life of the bridge, however many calls find it nil.         *)
OneChannel == channels <= 1

(* A record is lost only when the broker could not be dialled in this very *)
(* call, or has closed the channel: the nil that another caller left, or   *)
(* reading the channel without the lock, never costs a record.             *)
LossHasCause ==
    \A c \in Callers : pc[c] = "idle" /\ ~published[c] => failed[c] \/ closed

(* Every call returns, so that no reader and nobody who disconnects a      *)
(* client hangs in the queue: the lock is held over one dialling at a      *)
(* time, but always given back.                                            *)
CallsReturn == \A c \in Callers : (pc[c] = "lock") ~> (pc[c] = "idle")

=============================================================================
