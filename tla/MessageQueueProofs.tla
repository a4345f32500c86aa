------------------------- MODULE MessageQueueProofs -------------------------
(***************************************************************************)
(* Proofs about the publisher of records, for any number of callers.       *)
(***************************************************************************)
EXTENDS MessageQueue, TLAPS

Locked == {"check", "dial", "channel", "unlock"}

(* Who is between Lock and Unlock holds the lock. *)
LockHeld == \A c \in Callers : pc[c] \in Locked => mqlock = c

(* Who dials still finds no channel: nobody else can have opened one. *)
NilUntilOpened ==
    /\ channels \in 0 .. 1
    /\ instance = "nil" => channels = 0
    /\ \A c \in Callers : pc[c] \in {"dial", "channel"} => instance = "nil"

(* Who has been through the lock has a channel, or failed to dial. *)
ChannelOrFailed ==
    /\ instance = "closed" => closed
    /\ \A c \in Callers :
          /\ pc[c] \in {"unlock", "read"} => instance # "nil" \/ failed[c]
          /\ pc[c] = "publish" => instance # "nil"

QueueInv == TypeOK /\ LockHeld /\ NilUntilOpened /\ ChannelOrFailed /\ LossHasCause

LEMMA QueueInit == Init => QueueInv
<1> SUFFICES ASSUME Init PROVE QueueInv
  OBVIOUS
<1>1. /\ pc \in [Callers -> Steps]
      /\ failed \in [Callers -> BOOLEAN] /\ published \in [Callers -> BOOLEAN]
      /\ closed \in BOOLEAN /\ mqlock \in Callers \cup {Nobody}
      /\ instance \in {"nil", "open", "closed"}
  BY Zenon DEF Init, Steps
<1>2. dials \in 0 .. MaxDials /\ channels \in 0 .. 1 /\ channels \in Nat /\ channels = 0
  BY QueueAssumption DEF Init
<1>3. \A c \in Callers : pc[c] = "idle" /\ published[c]
  BY Zenon DEF Init
<1>4. LockHeld /\ NilUntilOpened /\ ChannelOrFailed /\ LossHasCause
  BY <1>2, <1>3 DEF Init, LockHeld, NilUntilOpened, ChannelOrFailed, LossHasCause, Locked
<1> QED
  BY <1>1, <1>2, <1>4 DEF QueueInv, TypeOK

(* Lock and Unlock, and the tests of instance. *)
LEMMA LockKeeps ==
    ASSUME QueueInv, NEW c \in Callers,
           Lock(c) \/ Unlock(c) \/ CheckInstance(c) \/ ReadInstance(c)
    PROVE  QueueInv'
<1> USE DEF QueueInv
<1>0. UNCHANGED <<instance, dials, channels, failed, published, closed>>
  BY DEF Lock, Unlock, CheckInstance, ReadInstance
<1>1. pc' \in [Callers -> Steps] /\ mqlock' \in Callers \cup {Nobody}
  BY DEF TypeOK, Lock, Unlock, CheckInstance, ReadInstance, Goto, Steps
<1>2. TypeOK'
  BY <1>0, <1>1 DEF TypeOK
<1>3. \A d \in Callers : d # c => pc'[d] = pc[d]
  BY DEF TypeOK, Lock, Unlock, CheckInstance, ReadInstance, Goto
<1>4. LockHeld'
  BY <1>3, CallersAssumption
  DEF TypeOK, LockHeld, Lock, Unlock, CheckInstance, ReadInstance, Goto, Locked
<1>5. NilUntilOpened'
  BY <1>0, <1>3
  DEF TypeOK, NilUntilOpened, Lock, Unlock, CheckInstance, ReadInstance, Goto
<1>6. ChannelOrFailed'
  BY <1>0, <1>3
  DEF TypeOK, ChannelOrFailed, Lock, Unlock, CheckInstance, ReadInstance, Goto
<1>7. LossHasCause'
  BY <1>0, <1>3
  DEF TypeOK, ChannelOrFailed, LossHasCause, Lock, Unlock, CheckInstance, ReadInstance, Goto
<1> QED
  BY <1>2, <1>4, <1>5, <1>6, <1>7

(* Dialling and opening the channel, under the lock. *)
LEMMA DialKeeps ==
    ASSUME QueueInv, NEW c \in Callers, Dial(c) \/ OpenChannel(c)
    PROVE  QueueInv'
<1> USE DEF QueueInv
<1>0. UNCHANGED <<mqlock, published, closed>>
  BY DEF Dial, OpenChannel
<1>1. /\ pc[c] \in {"dial", "channel"} /\ instance = "nil" /\ mqlock = c /\ channels = 0
  BY DEF Dial, OpenChannel, NilUntilOpened, LockHeld, Locked
<1>2. \A d \in Callers : d # c => pc[d] \notin Locked
  BY <1>1 DEF LockHeld
<1>3. \A d \in Callers : d # c => pc'[d] = pc[d] /\ failed'[d] = failed[d]
  BY DEF TypeOK, Dial, OpenChannel, Goto
<1>4. pc'[c] \in {"channel", "unlock"} /\ pc' \in [Callers -> Steps]
  BY DEF TypeOK, Dial, OpenChannel, Goto, Steps
<1>5. failed' \in [Callers -> BOOLEAN]
  BY DEF TypeOK, Dial, OpenChannel
<1>6. dials' \in 0 .. MaxDials
  BY QueueAssumption DEF TypeOK, Dial, OpenChannel
<1>7. \/ instance' = "nil" /\ channels' = 0 /\ (pc'[c] = "unlock" => failed'[c])
      \/ instance' = "open" /\ channels' = 1 /\ pc'[c] = "unlock"
  BY <1>1 DEF TypeOK, Dial, OpenChannel, Goto
<1>8. TypeOK'
  BY <1>0, <1>4, <1>5, <1>6, <1>7 DEF TypeOK
<1>9. LockHeld'
  BY <1>0, <1>1, <1>3 DEF LockHeld
<1>10. NilUntilOpened'
  BY <1>2, <1>3, <1>4, <1>7 DEF NilUntilOpened, Locked
<1>11. ChannelOrFailed'
  BY <1>0, <1>1, <1>3, <1>4, <1>7 DEF ChannelOrFailed
<1>12. LossHasCause'
  BY <1>0, <1>3, <1>4 DEF LossHasCause
<1> QED
  BY <1>8, <1>9, <1>10, <1>11, <1>12

(* A call begins, or ends with its record published or not. *)
LEMMA CallKeeps ==
    ASSUME QueueInv, NEW c \in Callers, Insertmqqt(c) \/ Publish(c)
    PROVE  QueueInv'
<1> USE DEF QueueInv
<1>0. UNCHANGED <<instance, mqlock, dials, channels, closed>>
  BY DEF Insertmqqt, Publish
<1>1. \A d \in Callers : d # c =>
         pc'[d] = pc[d] /\ failed'[d] = failed[d] /\ published'[d] = published[d]
  BY DEF TypeOK, Insertmqqt, Publish, Goto
<1>2. pc' \in [Callers -> Steps] /\ pc'[c] \in {"idle", "lock"}
  BY DEF TypeOK, Insertmqqt, Publish, Goto, Steps
<1>3. failed' \in [Callers -> BOOLEAN]
  BY DEF TypeOK, Insertmqqt, Publish
<1>4. published' \in [Callers -> BOOLEAN]
  <2>1. CASE Insertmqqt(c)
    BY <2>1, Zenon DEF TypeOK, Insertmqqt
  <2>2. CASE Publish(c)
    BY <2>2, Zenon DEF TypeOK, Publish
  <2> QED
    BY <2>1, <2>2
<1>5. TypeOK'
  BY <1>0, <1>2, <1>3, <1>4 DEF TypeOK
<1>6. LockHeld' /\ NilUntilOpened' /\ ChannelOrFailed'
  BY <1>0, <1>1, <1>2 DEF LockHeld, NilUntilOpened, ChannelOrFailed, Locked
<1>7. pc'[c] = "idle" /\ ~published'[c] => closed'
  <2>1. CASE Insertmqqt(c)
    BY <2>1 DEF TypeOK, Insertmqqt, Goto
  <2>2. CASE Publish(c)
    <3>1. instance # "nil"
      BY <2>2 DEF Publish, ChannelOrFailed
    <3>2. instance = "open" \/ closed
      BY <3>1 DEF TypeOK, ChannelOrFailed
    <3>3. published'[c] = (instance = "open")
      BY <2>2 DEF TypeOK, Publish
    <3> QED
      BY <1>0, <3>2, <3>3
  <2> QED
    BY <2>1, <2>2
<1>8. LossHasCause'
  BY <1>0, <1>1, <1>7 DEF LossHasCause
<1> QED
  BY <1>5, <1>6, <1>8

LEMMA BrokerKeeps == QueueInv /\ BrokerCloses => QueueInv'
<1> SUFFICES ASSUME QueueInv, BrokerCloses PROVE QueueInv'
  OBVIOUS
<1> USE DEF QueueInv
<1>0. UNCHANGED <<mqlock, dials, channels, pc, failed, published>>
  BY DEF BrokerCloses
<1>1. instance = "open" /\ instance' = "closed" /\ closed' = TRUE
  BY DEF BrokerCloses
<1>2. TypeOK'
  BY <1>0, <1>1 DEF TypeOK
<1>3. LockHeld' /\ NilUntilOpened' /\ ChannelOrFailed' /\ LossHasCause'
  BY <1>0, <1>1 DEF LockHeld, NilUntilOpened, ChannelOrFailed, LossHasCause
<1> QED
  BY <1>2, <1>3

(* The inductive invariant of the queue. *)
THEOREM QueueInvariant == SafetySpec => []QueueInv
<1>1. QueueInv /\ [Next]_vars => QueueInv'
  <2>1. ASSUME QueueInv, Next PROVE QueueInv'
    BY <2>1, LockKeeps, DialKeeps, CallKeeps, BrokerKeeps DEF Next, GetChannel
  <2>2. ASSUME QueueInv, UNCHANGED vars PROVE QueueInv'
    BY <2>2 DEF QueueInv, TypeOK, LockHeld, NilUntilOpened, ChannelOrFailed,
                LossHasCause, vars
  <2> QED
    BY <2>1, <2>2
<1> QED
  BY <1>1, QueueInit, PTL DEF SafetySpec

(* The queue is well typed: a channel that could not be opened stays nil. *)
THEOREM QueueTypeOK == SafetySpec => []TypeOK
<1>1. QueueInv => TypeOK
  BY DEF QueueInv
<1> QED
  BY <1>1, QueueInvariant, PTL

(* GetChannel opens one channel at most, for any number of callers. *)
THEOREM QueueOneChannel == SafetySpec => []OneChannel
<1>1. QueueInv => OneChannel
  BY DEF QueueInv, NilUntilOpened, OneChannel
<1> QED
  BY <1>1, QueueInvariant, PTL

(* A record is lost only if its own call could not dial, or after the      *)
(* broker closed the channel.                                              *)
THEOREM QueueLossHasCause == SafetySpec => []LossHasCause
<1>1. QueueInv => LossHasCause
  BY DEF QueueInv
<1> QED
  BY <1>1, QueueInvariant, PTL

=============================================================================
