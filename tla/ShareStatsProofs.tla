-------------------------- MODULE ShareStatsProofs --------------------------
(***************************************************************************)
(* Proofs about the share accounting, for any clients, names, addresses    *)
(* and bounds.                                                             *)
(***************************************************************************)
EXTENDS ShareStats, TLAPS, FiniteSetTheorems, FunctionTheorems

(* No record is used before it was created. *)
Fresh == /\ \A k \in Keys : stats[k] <= made
         /\ hand <= made
         /\ \A w \in Workers : ptr[w] <= made /\ vptr[w] <= made
         /\ \A r \in Records : r > made => credits[r] = {}

(* An authorized client has the name it gave last; it is authorized when   *)
(* its share is being handled.                                             *)
Known == \A w \in Workers : /\ named[w] # {} => deviceName[w] \in named[w]
                            /\ named[w] = {} => deviceName[w] = NoName
                            /\ pc[w] # "idle" => named[w] # {}

(* What the late call has looked up in vain is still not in the table, and *)
(* the record in its hand shows a name its client has had.                 *)
Late == /\ seen # NoName => stats[seen] = Nil
        /\ hand # Nil => rowName[hand] \in named[statsLock] \cup {NoName}
        /\ at = "free" => seen = NoName

StatsInv == TypeOK /\ NoRecordTwice /\ ShowsAName /\ Fresh /\ Known /\ Late

-----------------------------------------------------------------------------

(* The keys under which getCreateStats looks a client up. *)
LEMMA KeysOf ==
    ASSUME TypeOK, NEW w \in Workers
    PROVE  /\ addr[w] \in Keys /\ deviceName[w] \in Keys
           /\ deviceName[w] \in Names \cup {NoName}
           /\ addr[w] # deviceName[w] /\ addr[w] \notin Names \cup {NoName}
           /\ \A v \in Workers : addr[w] \notin named[v]
  BY StatsAssumption DEF TypeOK, Keys

(* Records are numbers, and Nil is none of them. *)
LEMMA RecordFacts ==
    ASSUME TypeOK
    PROVE  /\ \A s \in Records : s \in Nat /\ s # Nil
           /\ \A s \in Records \cup {Nil} : s \in Nat
           /\ Nil = 0 /\ made \in Nat /\ MaxRecords \in Nat /\ made <= MaxRecords
           /\ \A s \in Nat : s # 0 /\ s <= MaxRecords => s \in Records
  BY StatsAssumption DEF TypeOK, Records, Nil

(* The record under key k may show the name n. *)
ShownAs(k, n, names) ==
    n = k \/ \E w \in Workers : {n, k} \subseteq names[w] \cup {NoName}

(* What a call of getCreateStats by a reader does to the table: every line *)
(* after it was there before, or is the record it returns, which was under *)
(* the address and is under the name now, or is new and under the address. *)
CallLine(w, r, k) ==
    \/ stats'[k] = stats[k] /\ k # addr[w] /\ stats[k] # r
    \/ stats'[k] = stats[k] /\ k = deviceName[w] /\ stats[k] = r
    \/ stats'[k] = r /\ k = deviceName[w] /\ stats[addr[w]] = r
    \/ stats'[k] = r /\ k = addr[w] /\ made' = r /\ made < r
    \/ stats'[k] = stats[k] /\ k = addr[w] /\ stats[k] # r
    \/ stats'[k] = Nil

LEMMA CallKeepsTable ==
    ASSUME StatsInv, NEW w \in Workers, NEW r \in Records, GetCreateStats(w, r)
    PROVE  /\ stats' \in [Keys -> Records \cup {Nil}]
           /\ made' \in 0 .. MaxRecords
           /\ rowName' \in [Records -> Keys]
           /\ \A k \in Keys : CallLine(w, r, k)
           /\ \A k \in Keys : stats'[k] <= made'
           /\ \A j, k \in Keys : stats'[j] = stats'[k] /\ stats'[k] # Nil => j = k
           /\ \A k \in Keys : stats'[k] # Nil => ShownAs(k, rowName'[stats'[k]], named)
           /\ r <= made' /\ made <= made' /\ at = "free"
<1>0. /\ addr[w] \in Keys /\ deviceName[w] \in Keys /\ addr[w] # deviceName[w]
  BY KeysOf DEF StatsInv
<1>1. /\ stats \in [Keys -> Records \cup {Nil}] /\ rowName \in [Records -> Keys]
      /\ made \in 0 .. MaxRecords
  BY DEF StatsInv, TypeOK
<1>2. /\ \A s \in Records : s \in Nat /\ s # Nil
      /\ Nil = 0 /\ made \in Nat /\ MaxRecords \in Nat
  BY RecordFacts DEF StatsInv
<1>3. /\ \A k \in Keys : stats[k] \in Nat /\ stats[k] <= made
      /\ \A j, k \in Keys : stats[j] = stats[k] /\ stats[k] # Nil => j = k
      /\ \A k \in Keys : stats[k] # Nil => ShownAs(k, rowName[stats[k]], named)
      /\ at = "free"
  BY <1>1, <1>2 DEF StatsInv, Fresh, NoRecordTwice, ShowsAName, ShownAs, GetCreateStats
<1>4. CASE ByName(w) # Nil /\ r = ByName(w) /\ UNCHANGED tableVars
  <2>1. r = stats[deviceName[w]]
    BY <1>4 DEF ByName
  <2>2. \A k \in Keys : CallLine(w, r, k)
    BY <1>0, <1>2, <1>3, <1>4, <2>1 DEF CallLine, tableVars
  <2>3. stats' = stats /\ rowName' = rowName /\ made' = made
    BY <1>4 DEF tableVars
  <2> QED
    BY <1>0, <1>1, <1>2, <1>3, <2>1, <2>2, <2>3
<1>5. CASE ByAddr(w) # Nil /\ MoveRecord(w, r)
  <2>1. r = stats[addr[w]] /\ r <= made /\ made' = made
    BY <1>0, <1>3, <1>5 DEF MoveRecord, ByAddr
  <2>2. \A k \in Keys : stats'[k] = IF k = deviceName[w] THEN r
                                    ELSE IF k = addr[w] THEN Nil ELSE stats[k]
    BY <1>0, <1>1, <1>5 DEF MoveRecord
  <2>3. /\ stats' \in [Keys -> Records \cup {Nil}]
        /\ rowName' \in [Records -> Keys]
    BY <1>0, <1>1, <1>5 DEF MoveRecord
  <2>4. \A s \in Records : rowName'[s] = IF s = r THEN deviceName[w] ELSE rowName[s]
    BY <1>1, <1>5 DEF MoveRecord
  <2>5. \A k \in Keys : k # addr[w] => stats[k] # r
    BY <1>0, <1>2, <1>3, <2>1
  <2>6. \A k \in Keys : CallLine(w, r, k)
    BY <1>0, <2>1, <2>2, <2>5 DEF CallLine
  <2>7. \A j, k \in Keys : stats'[j] = stats'[k] /\ stats'[k] # Nil => j = k
    BY <1>3, <2>2, <2>5
  <2>8. ASSUME NEW k \in Keys, stats'[k] # Nil PROVE ShownAs(k, rowName'[stats'[k]], named)
    <3>1. CASE k = deviceName[w]
      BY <2>2, <2>4, <3>1 DEF ShownAs
    <3>2. CASE k # deviceName[w]
      <4>1. stats'[k] = stats[k] /\ stats[k] \in Records /\ stats[k] # r
        BY <1>1, <2>2, <2>5, <2>8, <3>2
      <4> QED
        BY <1>3, <2>4, <4>1, <2>8
    <3> QED
      BY <3>1, <3>2
  <2>9. \A k \in Keys : stats'[k] <= made'
    BY <1>2, <1>3, <2>1, <2>2
  <2> QED
    BY <1>1, <1>2, <1>3, <2>1, <2>3, <2>6, <2>7, <2>8, <2>9
<1>6. CASE ByAddr(w) = Nil /\ CreateRecord(w, r)
  <2>1. made' = made + 1 /\ r = made + 1 /\ made' \in 0 .. MaxRecords
    BY <1>2, <1>6 DEF CreateRecord
  <2>2. \A k \in Keys : stats'[k] = IF k = addr[w] THEN r ELSE stats[k]
    BY <1>0, <1>1, <1>6 DEF CreateRecord
  <2>3. /\ stats' \in [Keys -> Records \cup {Nil}]
        /\ rowName' \in [Records -> Keys]
    BY <1>0, <1>1, <1>6 DEF CreateRecord
  <2>4. \A s \in Records : rowName'[s] = IF s = r THEN addr[w] ELSE rowName[s]
    BY <1>0, <1>1, <1>6 DEF CreateRecord
  <2>5. \A k \in Keys : stats[k] # r
    BY <1>2, <1>3, <2>1
  <2>6. \A k \in Keys : CallLine(w, r, k)
    BY <1>0, <1>2, <2>1, <2>2, <2>5 DEF CallLine
  <2>7. \A j, k \in Keys : stats'[j] = stats'[k] /\ stats'[k] # Nil => j = k
    BY <1>3, <2>2, <2>5
  <2>8. ASSUME NEW k \in Keys, stats'[k] # Nil PROVE ShownAs(k, rowName'[stats'[k]], named)
    <3>1. CASE k = addr[w]
      BY <2>2, <2>4, <3>1 DEF ShownAs
    <3>2. CASE k # addr[w]
      <4>1. stats'[k] = stats[k] /\ stats[k] \in Records /\ stats[k] # r
        BY <1>1, <2>2, <2>5, <2>8, <3>2
      <4> QED
        BY <1>3, <2>4, <4>1, <2>8
    <3> QED
      BY <3>1, <3>2
  <2>9. \A k \in Keys : stats'[k] <= made'
    BY <1>2, <1>3, <2>1, <2>2
  <2> QED
    BY <1>2, <1>3, <2>1, <2>3, <2>6, <2>7, <2>8, <2>9
<1> QED
  BY <1>4, <1>5, <1>6 DEF GetCreateStats

-----------------------------------------------------------------------------

LEMMA StatsInitInv == Init => StatsInv
<1> SUFFICES ASSUME Init PROVE StatsInv
  OBVIOUS
<1>1. NoName \in Keys /\ Nil \in Nat
  BY DEF Keys, Nil
<1>2. /\ stats \in [Keys -> Records \cup {Nil}] /\ rowName \in [Records -> Keys]
      /\ made \in 0 .. MaxRecords /\ submits \in 0 .. MaxSubmits
  BY <1>1, StatsAssumption DEF Init
<1>3. counts \in [Records -> [Counters -> Nat]] /\ overall \in [Counters -> Nat]
  BY DEF Init, Zero
<1>4. /\ deviceName \in [Workers -> Names \cup {NoName}]
      /\ pending \in [Workers -> BOOLEAN]
      /\ ptr \in [Workers -> Records \cup {Nil}] /\ replies \in [Workers -> Nat]
      /\ vptr \in [Workers -> Records \cup {Nil}]
      /\ pc \in [Workers -> {"idle", "pow", "verdict", "total", "record", "overall"}]
      /\ verdict \in [Workers -> Verdicts \cup {"none"}]
  BY DEF Init
<1>5. credits \in [Records -> SUBSET Workers] /\ named \in [Workers -> SUBSET (Names \cup {NoName})]
  BY DEF Init
<1>6. \A w \in Workers : /\ ptr[w] # Nil <=> pc[w] # "idle"
                         /\ vptr[w] # Nil <=> pc[w] \in {"verdict", "total"}
                         /\ verdict[w] # "none" <=> pc[w] \in {"verdict", "total"}
  BY DEF Init
<1>7. /\ addr \in [Workers -> Addrs] /\ statsLock \in Workers \cup {Nobody}
      /\ at \in {"free", "byName", "byAddr", "store"} /\ hand \in Records \cup {Nil}
      /\ seen \in Names \cup {NoName}
      /\ (at = "free" <=> statsLock = Nobody) /\ (at = "store" <=> hand # Nil)
  BY DEF Init
<1>8. TypeOK
  BY <1>2, <1>3, <1>4, <1>5, <1>6, <1>7 DEF TypeOK
<1>9. NoRecordTwice /\ ShowsAName /\ Late
  BY DEF Init, NoRecordTwice, ShowsAName, Late
<1>10. Fresh /\ Known
  BY DEF Init, Fresh, Known, Nil
<1> QED
  BY <1>8, <1>9, <1>10 DEF StatsInv

(* Where a reader has looked its record up. *)
LEMMA CallsKeepInv ==
    ASSUME StatsInv, NEW w \in Workers, Submit(w) \/ SubmitBlock(w)
    PROVE  StatsInv'
<1>0. PICK r \in Records :
         /\ GetCreateStats(w, r)
         /\ \/ Submit(w) /\ ptr' = [ptr EXCEPT ![w] = r] /\ vptr' = vptr
            \/ SubmitBlock(w) /\ vptr' = [vptr EXCEPT ![w] = r] /\ ptr' = ptr
  BY DEF Submit, SubmitBlock
<1>1. /\ stats' \in [Keys -> Records \cup {Nil}]
      /\ made' \in 0 .. MaxRecords /\ rowName' \in [Records -> Keys]
      /\ \A k \in Keys : stats'[k] <= made'
      /\ \A j, k \in Keys : stats'[j] = stats'[k] /\ stats'[k] # Nil => j = k
      /\ \A k \in Keys : stats'[k] # Nil => ShownAs(k, rowName'[stats'[k]], named)
      /\ r <= made' /\ made <= made' /\ at = "free"
  BY <1>0, CallKeepsTable
<1>2. UNCHANGED <<countVars, clientVars, lateVars>>
  BY <1>0 DEF Submit, SubmitBlock
<1>3. TypeOK /\ Fresh /\ Known /\ Late /\ hand = Nil
  BY <1>1 DEF StatsInv, TypeOK
<1>4. /\ r \in Nat /\ r # Nil /\ made \in Nat /\ made' \in Nat /\ Nil = 0
      /\ MaxSubmits \in Nat
      /\ \A s \in Records : s \in Nat /\ s # Nil
      /\ \A v \in Workers : ptr[v] \in Nat /\ vptr[v] \in Nat
  BY <1>1, <1>3, RecordFacts, StatsAssumption DEF TypeOK
<1>5. NoRecordTwice' /\ ShowsAName'
  BY <1>1, <1>2, <1>3, <1>4 DEF NoRecordTwice, ShowsAName, ShownAs, lateVars, clientVars
<1>6. Late'
  BY <1>1, <1>2, <1>3 DEF Late, lateVars
<1>7. \A v \in Workers : ptr'[v] <= made' /\ vptr'[v] <= made'
  <2>1. \A v \in Workers : ptr[v] <= made' /\ vptr[v] <= made'
    BY <1>1, <1>3, <1>4 DEF Fresh
  <2> QED
    BY <1>0, <1>1, <1>3, <2>1 DEF TypeOK
<1>8. Fresh'
  BY <1>1, <1>2, <1>3, <1>4, <1>7 DEF Fresh, lateVars, countVars
<1>9. CASE Submit(w) /\ ptr' = [ptr EXCEPT ![w] = r] /\ vptr' = vptr
  <2>1. submits' \in 0 .. MaxSubmits /\ replies' \in [Workers -> Nat]
    BY <1>3, <1>4, <1>9 DEF TypeOK, Submit
  <2>2. TypeOK'
    BY <1>1, <1>2, <1>3, <1>4, <1>9, <2>1
    DEF TypeOK, Submit, Goto, countVars, clientVars, lateVars
  <2>3. Known'
    BY <1>3, <1>9 DEF TypeOK, Known, Submit, Goto, clientVars
  <2> QED
    BY <1>5, <1>6, <1>8, <2>2, <2>3 DEF StatsInv
<1>10. CASE SubmitBlock(w) /\ vptr' = [vptr EXCEPT ![w] = r] /\ ptr' = ptr
  <2>1. PICK v \in Verdicts : verdict' = [verdict EXCEPT ![w] = v]
    BY <1>10 DEF SubmitBlock
  <2>2. /\ UNCHANGED <<ptr, submits, replies>> /\ pc[w] = "pow"
        /\ pc' = [pc EXCEPT ![w] = "verdict"]
    BY <1>10 DEF SubmitBlock, Goto
  <2>3. TypeOK'
    BY <1>1, <1>2, <1>3, <1>4, <1>10, <2>1, <2>2
    DEF TypeOK, Verdicts, countVars, clientVars, lateVars
  <2>4. Known'
    BY <1>2, <1>3, <2>2 DEF TypeOK, Known, clientVars
  <2> QED
    BY <1>5, <1>6, <1>8, <2>3, <2>4 DEF StatsInv
<1> QED
  BY <1>0, <1>9, <1>10

(* The steps of a late call. *)
LEMMA LateKeepsInv ==
    ASSUME StatsInv, NEW w \in Workers, LateCall(w)
    PROVE  StatsInv'
<1>0. UNCHANGED <<countVars, clientVars, readerVars>>
  BY DEF LateCall, LateLock, LateByName, LateByAddr, LateStore
<1>1. TypeOK /\ NoRecordTwice /\ ShowsAName /\ Fresh /\ Known /\ Late
  BY DEF StatsInv
<1>2. Known'
  BY <1>0, <1>1 DEF Known, clientVars, readerVars
<1>3. /\ addr[w] \in Keys /\ deviceName[w] \in Keys /\ addr[w] # deviceName[w]
      /\ deviceName[w] \in Names \cup {NoName}
      /\ addr[w] \notin Names \cup {NoName}
  BY <1>1, KeysOf
<1>4. /\ \A s \in Records : s \in Nat /\ s # Nil
      /\ Nil = 0 /\ made \in Nat /\ MaxRecords \in Nat /\ w # Nobody
  BY <1>1, RecordFacts, StatsAssumption
<1>5. /\ stats \in [Keys -> Records \cup {Nil}] /\ rowName \in [Records -> Keys]
      /\ \A k \in Keys : stats[k] \in Nat /\ stats[k] <= made
  BY <1>1, <1>4 DEF TypeOK, Fresh
<1>6. CASE LateLock(w)
  <2>1. UNCHANGED <<tableVars, hand, seen>> /\ statsLock' = w /\ at' \in {"byName", "byAddr"}
        /\ at = "free" /\ pending' \in [Workers -> BOOLEAN]
    BY <1>1, <1>6 DEF LateLock, TypeOK
  <2>2. hand = Nil /\ seen = NoName
    BY <1>1, <2>1 DEF TypeOK, Late
  <2>3. TypeOK'
    BY <1>0, <1>1, <1>4, <2>1, <2>2
    DEF TypeOK, tableVars, countVars, clientVars, readerVars
  <2>4. NoRecordTwice' /\ ShowsAName' /\ Fresh' /\ Late'
    BY <1>0, <1>1, <2>1, <2>2
    DEF NoRecordTwice, ShowsAName, Fresh, Late, tableVars, countVars, clientVars, readerVars
  <2> QED
    BY <1>2, <2>3, <2>4 DEF StatsInv
<1>7. CASE LateByName(w)
  <2>1. /\ UNCHANGED <<tableVars, pending>> /\ at = "byName" /\ hand = Nil
    BY <1>1, <1>7 DEF LateByName, TypeOK
  <2>2. \/ statsLock' = Nobody /\ at' = "free" /\ hand' = Nil /\ seen' = NoName
        \/ /\ stats[deviceName[w]] = Nil /\ statsLock' = w /\ at' = "byAddr"
           /\ hand' = Nil /\ seen' = deviceName[w]
    BY <1>7, <2>1 DEF LateByName, Unlock
  <2>3. TypeOK'
    BY <1>0, <1>1, <1>3, <1>4, <2>1, <2>2
    DEF TypeOK, tableVars, countVars, clientVars, readerVars
  <2>4. NoRecordTwice' /\ ShowsAName' /\ Fresh' /\ Late'
    BY <1>0, <1>1, <1>4, <2>1, <2>2
    DEF NoRecordTwice, ShowsAName, Fresh, Late, tableVars, countVars, clientVars, readerVars
  <2> QED
    BY <1>2, <2>3, <2>4 DEF StatsInv
<1>8. CASE LateByAddr(w) /\ ByAddr(w) # Nil
  <2> DEFINE r == stats[addr[w]]
  <2>1. /\ hand' = r /\ stats' = [stats EXCEPT ![addr[w]] = Nil]
        /\ rowName' = [rowName EXCEPT ![r] = deviceName[w]] /\ at' = "store"
        /\ made' = made /\ statsLock' = w /\ statsLock = w /\ seen' = seen
        /\ pending' = pending /\ at = "byAddr" /\ hand = Nil
    BY <1>1, <1>8 DEF LateByAddr, ByAddr, TypeOK
  <2>2. r \in Records /\ r <= made
    BY <1>3, <1>5, <1>8 DEF ByAddr
  <2>3. \A k \in Keys : stats'[k] = IF k = addr[w] THEN Nil ELSE stats[k]
    BY <1>3, <1>5, <2>1
  <2>4. \A s \in Records : rowName'[s] = IF s = r THEN deviceName[w] ELSE rowName[s]
    BY <1>5, <2>1
  <2>5. \A k \in Keys : k # addr[w] => stats[k] # r
    BY <1>1, <1>3, <1>4, <2>2 DEF NoRecordTwice
  <2> HIDE DEF r
  <2>6. stats' \in [Keys -> Records \cup {Nil}] /\ rowName' \in [Records -> Keys]
    BY <1>3, <1>5, <2>1
  <2>7. TypeOK'
    BY <1>0, <1>1, <1>4, <2>1, <2>2, <2>6
    DEF TypeOK, countVars, clientVars, readerVars
  <2>8. NoRecordTwice'
    BY <1>1, <1>4, <2>1, <2>2, <2>3, <2>5 DEF NoRecordTwice
  <2>9. ShowsAName'
    <3> SUFFICES ASSUME NEW k \in Keys, stats'[k] # Nil, rowName'[stats'[k]] # k
                 PROVE  \E v \in Workers :
                           {rowName'[stats'[k]], k} \subseteq named[v] \cup {NoName}
      BY <1>0 DEF ShowsAName, clientVars
    <3>1. stats'[k] = stats[k] /\ stats[k] \in Records /\ stats[k] # r
      BY <1>5, <2>3, <2>5
    <3> QED
      BY <1>1, <2>4, <3>1 DEF ShowsAName
  <2>10. Fresh'
    BY <1>0, <1>1, <1>4, <2>1, <2>2, <2>3 DEF Fresh, countVars, readerVars
  <2>11. Late'
    <3>1. seen' # NoName => stats'[seen'] = Nil
      BY <1>1, <2>1, <2>3 DEF Late, TypeOK, Keys
    <3>2. rowName'[hand'] = deviceName[w] /\ deviceName[w] \in named[w] \cup {NoName}
      BY <1>1, <2>1, <2>2, <2>4 DEF Known
    <3> QED
      BY <1>0, <2>1, <3>1, <3>2 DEF Late, clientVars
  <2> QED
    BY <1>2, <2>7, <2>8, <2>9, <2>10, <2>11 DEF StatsInv
<1>9. CASE LateByAddr(w) /\ ByAddr(w) = Nil
  <2>1. PICK r \in Records : CreateRecord(w, r)
    BY <1>9 DEF LateByAddr
  <2>2. /\ statsLock' = Nobody /\ at' = "free" /\ hand' = Nil /\ seen' = NoName
        /\ pending' = pending /\ at = "byAddr" /\ hand = Nil
    BY <1>1, <1>9 DEF LateByAddr, Unlock, TypeOK
  <2>3. made' = made + 1 /\ r = made + 1 /\ made' \in 0 .. MaxRecords
    BY <1>4, <2>1 DEF CreateRecord
  <2>4. /\ \A k \in Keys : stats'[k] = IF k = addr[w] THEN r ELSE stats[k]
        /\ \A s \in Records : rowName'[s] = IF s = r THEN addr[w] ELSE rowName[s]
    BY <1>3, <1>5, <2>1 DEF CreateRecord
  <2>5. stats' \in [Keys -> Records \cup {Nil}] /\ rowName' \in [Records -> Keys]
    BY <1>3, <1>5, <2>1 DEF CreateRecord
  <2>6. \A k \in Keys : stats[k] # r
    BY <1>4, <1>5, <2>3
  <2>7. TypeOK'
    BY <1>0, <1>1, <2>2, <2>3, <2>5 DEF TypeOK, countVars, clientVars, readerVars
  <2>8. NoRecordTwice'
    BY <1>1, <1>4, <2>2, <2>4, <2>5, <2>6 DEF NoRecordTwice
  <2>9. ShowsAName'
    <3> SUFFICES ASSUME NEW k \in Keys, stats'[k] # Nil, rowName'[stats'[k]] # k
                 PROVE  \E v \in Workers :
                           {rowName'[stats'[k]], k} \subseteq named[v] \cup {NoName}
      BY <1>0 DEF ShowsAName, clientVars
    <3>1. stats'[k] = stats[k] /\ stats[k] \in Records /\ stats[k] # r
      BY <1>5, <2>4, <2>6
    <3> QED
      BY <1>1, <2>4, <3>1 DEF ShowsAName
  <2>10. \A v \in Workers : ptr[v] \in Nat /\ vptr[v] \in Nat
    BY <1>1, <1>4 DEF TypeOK
  <2>11. Fresh'
    BY <1>0, <1>1, <1>4, <1>5, <2>2, <2>3, <2>4, <2>10 DEF Fresh, countVars, readerVars
  <2>12. Late'
    BY <2>2 DEF Late
  <2> QED
    BY <1>2, <2>7, <2>8, <2>9, <2>11, <2>12 DEF StatsInv
<1>10. CASE LateStore(w)
  <2>1. /\ statsLock' = Nobody /\ at' = "free" /\ hand' = Nil /\ seen' = NoName
        /\ pending' = pending /\ at = "store" /\ made' = made /\ rowName' = rowName
        /\ hand \in Records /\ statsLock = w
    BY <1>1, <1>10 DEF LateStore, Unlock, TypeOK
  <2>2. \A k \in Keys : stats'[k] = IF k = deviceName[w] THEN hand ELSE stats[k]
    BY <1>3, <1>5, <1>10 DEF LateStore
  <2>3. stats' \in [Keys -> Records \cup {Nil}]
    BY <1>3, <1>5, <1>10, <2>1 DEF LateStore
  <2>4. \A k \in Keys : stats[k] # hand
    BY <1>1, <1>4, <2>1 DEF NoRecordTwice
  <2>5. TypeOK'
    BY <1>0, <1>1, <2>1, <2>3 DEF TypeOK, countVars, clientVars, readerVars
  <2>6. NoRecordTwice'
    BY <1>1, <2>1, <2>2, <2>4 DEF NoRecordTwice
  <2>7. ShowsAName'
    <3> SUFFICES ASSUME NEW k \in Keys, stats'[k] # Nil, rowName[stats'[k]] # k
                 PROVE  \E v \in Workers :
                           {rowName[stats'[k]], k} \subseteq named[v] \cup {NoName}
      BY <1>0, <2>1 DEF ShowsAName, clientVars
    <3>1. CASE k = deviceName[w]
      <4>1. rowName[hand] \in named[w] \cup {NoName} /\ k \in named[w] \cup {NoName}
        BY <1>1, <1>4, <2>1, <3>1 DEF Late, Known
      <4> QED
        BY <2>2, <3>1, <4>1
    <3>2. CASE k # deviceName[w]
      BY <1>1, <2>2, <3>2 DEF ShowsAName
    <3> QED
      BY <3>1, <3>2
  <2>8. Fresh'
    BY <1>0, <1>1, <1>4, <2>1, <2>2 DEF Fresh, countVars, readerVars
  <2>9. Late'
    BY <2>1 DEF Late
  <2> QED
    BY <1>2, <2>5, <2>6, <2>7, <2>8, <2>9 DEF StatsInv
<1> QED
  BY <1>6, <1>7, <1>8, <1>9, <1>10 DEF LateCall

(* The steps that leave the table alone. *)
LEMMA StepsKeepInv ==
    ASSUME StatsInv, NEW w \in Workers,
           \/ Authorize(w) \/ PlainShare(w) \/ RecordVerdict(w) \/ OverallVerdict(w)
           \/ RecordShare(w) \/ RecordOverall(w)
    PROVE  StatsInv'
<1>0. UNCHANGED <<tableVars, lateVars>>
  BY DEF Authorize, PlainShare, RecordVerdict, OverallVerdict, RecordShare, RecordOverall
<1>1. TypeOK /\ NoRecordTwice /\ ShowsAName /\ Fresh /\ Known /\ Late
  BY DEF StatsInv
<1>2. NoRecordTwice'
  BY <1>0, <1>1 DEF NoRecordTwice, tableVars, lateVars
<1>3. ASSUME UNCHANGED clientVars PROVE ShowsAName' /\ Late'
  BY <1>0, <1>1, <1>3 DEF ShowsAName, Late, tableVars, lateVars, clientVars
<1>4. /\ made \in Nat /\ Nil = 0 /\ \A s \in Records : s \in Nat /\ s # Nil
      /\ \A v \in Workers : ptr[v] \in Nat /\ vptr[v] \in Nat
  BY <1>1, RecordFacts DEF TypeOK
<1>5. CASE Authorize(w)
  <2>1. PICK d \in Names \cup {NoName} :
           /\ deviceName' = [deviceName EXCEPT ![w] = d]
           /\ named' = [named EXCEPT ![w] = @ \cup {d}]
    BY <1>5 DEF Authorize
  <2>2. UNCHANGED <<addr, countVars, readerVars>> /\ pc[w] = "idle"
    BY <1>5 DEF Authorize
  <2>3. \A v \in Workers : /\ named[v] \subseteq named'[v]
                           /\ v # w => named'[v] = named[v] /\ deviceName'[v] = deviceName[v]
                           /\ v = w => d \in named'[v] /\ deviceName'[v] = d
    BY <1>1, <2>1 DEF TypeOK
  <2>4. TypeOK'
    BY <1>0, <1>1, <2>1, <2>2 DEF TypeOK, tableVars, countVars, lateVars, readerVars
  <2>5. Fresh' /\ Known'
    BY <1>0, <1>1, <2>2, <2>3 DEF Fresh, Known, tableVars, countVars, lateVars, readerVars
  <2>6. ShowsAName'
    <3> SUFFICES ASSUME NEW k \in Keys, stats[k] # Nil, rowName[stats[k]] # k
                 PROVE  \E v \in Workers :
                           {rowName[stats[k]], k} \subseteq named'[v] \cup {NoName}
      BY <1>0 DEF ShowsAName, tableVars
    <3>1. PICK v \in Workers : {rowName[stats[k]], k} \subseteq named[v] \cup {NoName}
      BY <1>1 DEF ShowsAName
    <3> QED
      BY <2>3, <3>1
  <2>7. Late'
    <3>1. ASSUME hand # Nil PROVE rowName[hand] \in named'[statsLock] \cup {NoName}
      <4>1. statsLock \in Workers
        BY <1>1, <3>1 DEF TypeOK
      <4> QED
        BY <1>1, <2>3, <3>1, <4>1 DEF Late
    <3> QED
      BY <1>0, <1>1, <3>1 DEF Late, tableVars, lateVars
  <2> QED
    BY <1>2, <2>4, <2>5, <2>6, <2>7 DEF StatsInv
<1>6. CASE PlainShare(w)
  <2>1. TypeOK'
    BY <1>0, <1>1, <1>6 DEF TypeOK, PlainShare, Goto, tableVars, countVars, clientVars, lateVars
  <2>2. Fresh' /\ Known'
    BY <1>0, <1>1, <1>6
    DEF TypeOK, Fresh, Known, PlainShare, Goto, tableVars, countVars, clientVars, lateVars
  <2> QED
    BY <1>2, <1>3, <1>6, <2>1, <2>2 DEF StatsInv, PlainShare
<1>7. CASE RecordVerdict(w)
  <2>0. pc[w] = "verdict" /\ vptr[w] \in Records /\ verdict[w] \in Counters
    BY <1>1, <1>7 DEF TypeOK, RecordVerdict, Counters
  <2>1. /\ counts' \in [Records -> [Counters -> Nat]]
        /\ credits' \in [Records -> SUBSET Workers]
    BY <1>1, <1>7, <2>0 DEF TypeOK, RecordVerdict
  <2>2. TypeOK'
    BY <1>0, <1>1, <1>7, <2>0, <2>1
    DEF TypeOK, RecordVerdict, Goto, tableVars, clientVars, lateVars
  <2>3. Known'
    BY <1>1, <1>7, <2>0 DEF TypeOK, Known, RecordVerdict, Goto, clientVars
  <2>4. \A s \in Records : s > made => s # vptr[w]
    BY <1>1, <1>4, <2>0 DEF Fresh
  <2>5. \A s \in Records : s > made' => credits'[s] = {}
    BY <1>0, <1>1, <1>7, <2>4 DEF TypeOK, Fresh, RecordVerdict, tableVars
  <2>6. Fresh'
    BY <1>0, <1>1, <1>7, <2>5 DEF Fresh, RecordVerdict, tableVars, lateVars
  <2> QED
    BY <1>2, <1>3, <1>7, <2>2, <2>3, <2>6 DEF StatsInv, RecordVerdict
<1>8. CASE OverallVerdict(w)
  <2>0. pc[w] = "total" /\ verdict[w] \in Counters
    BY <1>1, <1>8 DEF TypeOK, OverallVerdict, Counters
  <2>1. overall' \in [Counters -> Nat] /\ replies' \in [Workers -> Nat]
    BY <1>1, <1>8, <2>0 DEF TypeOK, OverallVerdict
  <2>2. TypeOK'
    BY <1>0, <1>1, <1>8, <2>0, <2>1
    DEF TypeOK, OverallVerdict, Goto, tableVars, clientVars, lateVars
  <2>3. Fresh' /\ Known'
    BY <1>0, <1>1, <1>4, <1>8, <2>0
    DEF TypeOK, Fresh, Known, OverallVerdict, Goto, tableVars, clientVars, lateVars
  <2> QED
    BY <1>2, <1>3, <1>8, <2>2, <2>3 DEF StatsInv, OverallVerdict
<1>9. CASE RecordShare(w)
  <2>0. pc[w] = "record" /\ ptr[w] \in Records
    BY <1>1, <1>9 DEF TypeOK, RecordShare
  <2>1. /\ counts' \in [Records -> [Counters -> Nat]]
        /\ credits' \in [Records -> SUBSET Workers]
    BY <1>1, <1>9, <2>0 DEF TypeOK, RecordShare, Counters
  <2>2. TypeOK'
    BY <1>0, <1>1, <1>9, <2>0, <2>1
    DEF TypeOK, RecordShare, Goto, tableVars, clientVars, lateVars
  <2>3. Known'
    BY <1>1, <1>9, <2>0 DEF TypeOK, Known, RecordShare, Goto, clientVars
  <2>4. \A s \in Records : s > made => s # ptr[w]
    BY <1>1, <1>4, <2>0 DEF Fresh
  <2>5. \A s \in Records : s > made' => credits'[s] = {}
    BY <1>0, <1>1, <1>9, <2>4 DEF TypeOK, Fresh, RecordShare, tableVars
  <2>6. Fresh'
    BY <1>0, <1>1, <1>9, <2>5 DEF Fresh, RecordShare, tableVars, lateVars
  <2> QED
    BY <1>2, <1>3, <1>9, <2>2, <2>3, <2>6 DEF StatsInv, RecordShare
<1>10. CASE RecordOverall(w)
  <2>1. overall' \in [Counters -> Nat] /\ replies' \in [Workers -> Nat]
    BY <1>1, <1>10 DEF TypeOK, RecordOverall, Counters
  <2>2. TypeOK'
    BY <1>0, <1>1, <1>10, <2>1
    DEF TypeOK, RecordOverall, Goto, tableVars, clientVars, lateVars
  <2>3. Fresh' /\ Known'
    BY <1>0, <1>1, <1>4, <1>10
    DEF TypeOK, Fresh, Known, RecordOverall, Goto, tableVars, clientVars, lateVars
  <2> QED
    BY <1>2, <1>3, <1>10, <2>2, <2>3 DEF StatsInv, RecordOverall
<1> QED
  BY <1>5, <1>6, <1>7, <1>8, <1>9, <1>10

LEMMA StatsNextInv == StatsInv /\ [Next]_vars => StatsInv'
<1> SUFFICES ASSUME StatsInv, [Next]_vars PROVE StatsInv'
  OBVIOUS
<1>1. CASE Next
  BY <1>1, CallsKeepInv, LateKeepsInv, StepsKeepInv DEF Next, HandleSubmit
<1>2. CASE UNCHANGED vars
  BY <1>2 DEF StatsInv, TypeOK, NoRecordTwice, ShowsAName, Fresh, Known, Late, vars,
      tableVars, countVars, clientVars, lateVars, readerVars
<1> QED
  BY <1>1, <1>2

-----------------------------------------------------------------------------

(* The inductive invariant of the share accounting. *)
THEOREM StatsInvariant == Spec => []StatsInv
<1>1. Init => StatsInv
  BY StatsInitInv
<1>2. StatsInv /\ [Next]_vars => StatsInv'
  BY StatsNextInv
<1> QED
  BY <1>1, <1>2, PTL DEF Spec

(* The reader of a client holds a record whenever HandleSubmit is going to *)
(* count a share or a verdict in it, and the late call of OnConnect one    *)
(* exactly while it has taken it out of the table.                         *)
THEOREM StatsTypeOK == Spec => []TypeOK
<1>1. StatsInv => TypeOK
  BY DEF StatsInv
<1> QED
  BY <1>1, StatsInvariant, PTL

(* getCreateStats never files a record under two keys, also when the       *)
(* client is renamed between the steps of a late call.                     *)
THEOREM StatsNoRecordTwice == Spec => []NoRecordTwice
<1>1. StatsInv => NoRecordTwice
  BY DEF StatsInv
<1> QED
  BY <1>1, StatsInvariant, PTL

(* The name getCreateStats writes into a record and the key it files it    *)
(* under are equal or two names of one client.                             *)
THEOREM StatsShowsAName == Spec => []ShowsAName
<1>1. StatsInv => ShowsAName
  BY DEF StatsInv
<1> QED
  BY <1>1, StatsInvariant, PTL

-----------------------------------------------------------------------------
(* What leaves the table.                                                  *)

(* A record that leaves the table is replaced under its key by another. *)
LEMMA CallDropsNameless ==
    ASSUME StatsInv, NEW w \in Workers, NEW r \in Records, GetCreateStats(w, r),
           NEW s \in Records, NEW k \in Keys, stats[k] = s, s # r,
           \A j \in Keys : stats'[j] # s
    PROVE  stats[NoName] = s
<1>0. /\ addr[w] \in Keys /\ deviceName[w] \in Keys /\ addr[w] # deviceName[w]
      /\ stats \in [Keys -> Records \cup {Nil}]
      /\ \A q \in Records : q # Nil
  BY KeysOf, RecordFacts DEF StatsInv, TypeOK
<1>1. CASE ByName(w) # Nil /\ r = ByName(w) /\ UNCHANGED tableVars
  BY <1>1 DEF tableVars
<1>2. CASE ByName(w) = Nil /\ ByAddr(w) # Nil /\ MoveRecord(w, r)
  <2>1. \A j \in Keys : stats'[j] = IF j = deviceName[w] THEN r
                                    ELSE IF j = addr[w] THEN Nil ELSE stats[j]
    BY <1>0, <1>2 DEF MoveRecord
  <2>2. r = stats[addr[w]]
    BY <1>2 DEF MoveRecord, ByAddr
  <2>3. k = deviceName[w]
    BY <2>1, <2>2
  <2> QED
    BY <1>0, <1>2, <2>3 DEF ByName
<1>3. CASE ByAddr(w) = Nil /\ CreateRecord(w, r)
  <2>1. \A j \in Keys : stats'[j] = IF j = addr[w] THEN r ELSE stats[j]
    BY <1>0, <1>3 DEF CreateRecord
  <2> QED
    BY <1>0, <1>3, <2>1 DEF ByAddr
<1> QED
  BY <1>1, <1>2, <1>3 DEF GetCreateStats

(* The excuses of RecordsStayFiled. *)
Excused(r) ==
    \/ stats[NoName] = r
    \/ /\ at = "store" /\ stats[deviceName[statsLock]] = r
       /\ deviceName[statsLock] # seen

LEMMA StepDrops ==
    ASSUME StatsInv, [Next]_vars, NEW s \in Records, Filed(s), ~ Filed(s)'
    PROVE  Excused(s)
<1>0. /\ stats \in [Keys -> Records \cup {Nil}] /\ \A q \in Records : q # Nil
      /\ TypeOK /\ Late /\ NoRecordTwice
  BY RecordFacts DEF StatsInv, TypeOK
<1>1. hand' # s /\ \A j \in Keys : stats'[j] # s
  BY DEF Filed
<1>2. hand = s \/ \E k \in Keys : stats[k] = s
  BY DEF Filed
<1>3. ASSUME UNCHANGED tableVars, UNCHANGED hand PROVE FALSE
  BY <1>1, <1>2, <1>3 DEF tableVars
<1>4. CASE UNCHANGED vars
  BY <1>3, <1>4 DEF vars, tableVars, lateVars
<1>5. ASSUME NEW w \in Workers, Submit(w) \/ SubmitBlock(w) PROVE Excused(s)
  <2>1. PICK r \in Records : GetCreateStats(w, r)
    BY <1>5 DEF Submit, SubmitBlock
  <2>2. hand' = hand
    BY <1>5 DEF Submit, SubmitBlock, lateVars
  <2>3. PICK k \in Keys : stats[k] = s
    BY <1>1, <1>2, <2>2
  <2>4. s # r
    <3>1. \E j \in Keys : stats'[j] = r
      <4>1. /\ addr[w] \in Keys /\ deviceName[w] \in Keys
        BY <1>0, KeysOf
      <4>2. CASE ByName(w) # Nil /\ r = ByName(w) /\ UNCHANGED tableVars
        BY <4>1, <4>2 DEF ByName, tableVars
      <4>3. CASE MoveRecord(w, r)
        BY <1>0, <4>1, <4>3 DEF MoveRecord
      <4>4. CASE CreateRecord(w, r)
        BY <1>0, <4>1, <4>4 DEF CreateRecord
      <4> QED
        BY <2>1, <4>2, <4>3, <4>4 DEF GetCreateStats
    <3> QED
      BY <1>1, <3>1
  <2> QED
    BY <1>1, <2>1, <2>3, <2>4, CallDropsNameless DEF Excused
<1>6. ASSUME NEW w \in Workers, LateLock(w) \/ LateByName(w) PROVE FALSE
  <2>1. UNCHANGED tableVars /\ hand = Nil
    BY <1>0, <1>6 DEF LateLock, LateByName, TypeOK
  <2>2. hand' = Nil
    BY <1>6, <2>1 DEF LateLock, LateByName, Unlock
  <2> QED
    BY <1>3, <2>1, <2>2
<1>7. ASSUME NEW w \in Workers, LateByAddr(w) PROVE FALSE
  <2>1. hand = Nil /\ addr[w] \in Keys
    BY <1>0, <1>7, KeysOf DEF LateByAddr, TypeOK
  <2>2. PICK k \in Keys : stats[k] = s
    BY <1>0, <1>2, <2>1
  <2>3. CASE ByAddr(w) # Nil
    <3>1. hand' = stats[addr[w]] /\ stats' = [stats EXCEPT ![addr[w]] = Nil]
      BY <1>0, <1>7, <2>3 DEF LateByAddr, ByAddr
    <3> QED
      BY <1>0, <1>1, <2>1, <2>2, <3>1
  <2>4. CASE ByAddr(w) = Nil
    <3>1. PICK r \in Records : stats' = [stats EXCEPT ![addr[w]] = r]
      BY <1>7, <2>4 DEF LateByAddr, CreateRecord
    <3>2. k # addr[w]
      BY <1>0, <2>2, <2>4 DEF ByAddr
    <3> QED
      BY <1>0, <1>1, <2>1, <2>2, <3>1, <3>2
  <2> QED
    BY <2>3, <2>4
<1>8. ASSUME NEW w \in Workers, LateStore(w) PROVE Excused(s)
  <2>1. /\ stats' = [stats EXCEPT ![deviceName[w]] = hand]
        /\ statsLock = w /\ at = "store" /\ deviceName[w] \in Keys
        /\ deviceName[w] \in Names \cup {NoName}
    BY <1>0, <1>8, KeysOf DEF LateStore
  <2>2. hand # s
    BY <1>0, <1>1, <2>1
  <2>3. PICK k \in Keys : stats[k] = s
    BY <1>2, <2>2
  <2>4. k = deviceName[w]
    BY <1>0, <1>1, <2>1, <2>3
  <2>5. CASE deviceName[w] = seen
    BY <1>0, <2>3, <2>4, <2>5 DEF Late, Excused
  <2>6. CASE deviceName[w] # seen
    BY <2>1, <2>3, <2>4, <2>6 DEF Excused
  <2> QED
    BY <2>5, <2>6
<1>9. ASSUME NEW w \in Workers,
             \/ Authorize(w) \/ PlainShare(w) \/ RecordVerdict(w) \/ OverallVerdict(w)
             \/ RecordShare(w) \/ RecordOverall(w)
      PROVE  FALSE
  <2>1. UNCHANGED <<tableVars, lateVars>>
    BY <1>9 DEF Authorize, PlainShare, RecordVerdict, OverallVerdict, RecordShare, RecordOverall
  <2> QED
    BY <1>3, <2>1 DEF lateVars
<1> QED
  BY <1>4, <1>5, <1>6, <1>7, <1>8, <1>9 DEF Next, HandleSubmit, LateCall

(* No record is dropped from the table but from under the empty name or by *)
(* a late call whose client was renamed meanwhile, for any clients behind  *)
(* any addresses.                                                          *)
THEOREM StatsRecordsStayFiled == Spec => RecordsStayFiled
<1>1. StatsInv /\ [Next]_vars =>
         [\A r \in Records : Filed(r) /\ ~Filed(r)' =>
             \/ stats[NoName] = r
             \/ /\ at = "store" /\ stats[deviceName[statsLock]] = r
                /\ deviceName[statsLock] # seen]_vars
  BY StepDrops DEF Excused
<1> QED
  BY <1>1, StatsInvariant, PTL DEF Spec, RecordsStayFiled

-----------------------------------------------------------------------------
(* Who is credited where, when every client has an address of its own.     *)

(* The reader of v has counted in record r, or is going to. *)
Uses(v, r) == v \in credits[r] \/ ptr[v] = r \/ vptr[v] = r

(* A client uses only records that are under its address or a name it      *)
(* gave, or in the hand of its own late call.                              *)
Owns(v, r) == /\ named[v] # {}
              /\ \A k \in Keys : stats[k] = r => k = addr[v] \/ k \in named[v]
              /\ hand = r => statsLock = v

Owned == \A r \in Records : \A v \in Workers : Uses(v, r) => Owns(v, r)

(* A record nobody has created is used by nobody. *)
LEMMA NewUnused ==
    ASSUME StatsInv, NEW r \in Records, r > made, NEW v \in Workers
    PROVE  ~ Uses(v, r)
<1>1. made \in Nat /\ r \in Nat /\ ptr[v] \in Nat /\ vptr[v] \in Nat
  BY RecordFacts DEF StatsInv, TypeOK
<1> QED
  BY <1>1 DEF StatsInv, Fresh, Uses

(* What is under a client's own address is used by nobody else. *)
LEMMA AddressIsOwn ==
    ASSUME StatsInv, Owned, OwnAddresses, NEW w \in Workers, NEW v \in Workers,
           NEW r \in Records, stats[addr[w]] = r, Uses(v, r)
    PROVE  v = w
<1>1. addr[w] \in Keys /\ addr[w] \notin named[v]
  BY KeysOf DEF StatsInv
<1> QED
  BY <1>1 DEF Owned, Owns, OwnAddresses

LEMMA CallKeepsOwners ==
    ASSUME StatsInv, Owned, OwnAddresses, NEW w \in Workers,
           Submit(w) \/ SubmitBlock(w)
    PROVE  Owned'
<1>0. PICK r \in Records :
         /\ GetCreateStats(w, r)
         /\ \/ ptr' = [ptr EXCEPT ![w] = r] /\ vptr' = vptr
            \/ vptr' = [vptr EXCEPT ![w] = r] /\ ptr' = ptr
  BY DEF Submit, SubmitBlock
<1>1. /\ \A k \in Keys : CallLine(w, r, k)
      /\ \A j, k \in Keys : stats'[j] = stats'[k] /\ stats'[k] # Nil => j = k
      /\ at = "free"
  BY <1>0, CallKeepsTable
<1>2. UNCHANGED <<credits, named, addr, hand, statsLock>>
  BY DEF Submit, SubmitBlock, countVars, clientVars, lateVars
<1>3. TypeOK /\ Known /\ hand = Nil /\ \A s \in Records : s # Nil
  BY <1>1, RecordFacts DEF StatsInv, TypeOK
<1>4. named[w] # {} /\ deviceName[w] \in named[w]
  BY <1>3 DEF Submit, SubmitBlock, Known
<1>5. /\ addr[w] \in Keys /\ deviceName[w] \in Keys /\ addr[w] # deviceName[w]
      /\ made \in Nat /\ \A s \in Records : s \in Nat
  BY <1>3, KeysOf, RecordFacts
<1> SUFFICES ASSUME NEW s \in Records, NEW v \in Workers, Uses(v, s)'
             PROVE  Owns(v, s)'
  BY DEF Owned
<1>6. Uses(v, s) \/ (v = w /\ s = r)
  BY <1>0, <1>2, <1>3 DEF Uses, TypeOK
<1>7. named'[v] # {}
  BY <1>2, <1>4, <1>6 DEF Owned, Owns
<1>8. ASSUME NEW k \in Keys, stats'[k] = s PROVE k = addr[v] \/ k \in named[v]
  <2>1. CASE stats'[k] = stats[k] /\ Uses(v, s)
    BY <1>8, <2>1 DEF Owned, Owns
  <2>2. CASE stats'[k] = stats[k] /\ v = w /\ s = r
    BY <1>1, <1>3, <1>4, <1>8, <2>2 DEF CallLine
  <2>3. CASE stats'[k] = r /\ k = deviceName[w] /\ stats[addr[w]] = r
    <3>1. v = w
      BY <1>6, <1>8, <2>3, AddressIsOwn
    <3> QED
      BY <1>4, <2>3, <3>1
  <2>4. CASE stats'[k] = r /\ k = addr[w] /\ made < r
    <3>1. v = w
      BY <1>5, <1>6, <1>8, <2>4, NewUnused
    <3> QED
      BY <2>4, <3>1
  <2> QED
    BY <1>1, <1>3, <1>6, <1>8, <2>1, <2>2, <2>3, <2>4 DEF CallLine
<1> QED
  BY <1>2, <1>3, <1>7, <1>8 DEF Owns

LEMMA LateKeepsOwners ==
    ASSUME StatsInv, Owned, OwnAddresses, NEW w \in Workers, LateCall(w)
    PROVE  Owned'
<1>0. UNCHANGED <<credits, ptr, vptr, named, addr>>
  BY DEF LateCall, LateLock, LateByName, LateByAddr, LateStore, countVars, clientVars, readerVars
<1>1. TypeOK /\ Known /\ \A s \in Records : s # Nil
  BY RecordFacts DEF StatsInv
<1>2. /\ addr[w] \in Keys /\ deviceName[w] \in Keys
      /\ stats \in [Keys -> Records \cup {Nil}] /\ made \in Nat
  BY <1>1, KeysOf, RecordFacts DEF TypeOK
<1> SUFFICES ASSUME NEW s \in Records, NEW v \in Workers, Uses(v, s)'
             PROVE  Owns(v, s)'
  BY DEF Owned
<1>3. Uses(v, s) /\ Owns(v, s)
  BY <1>0 DEF Uses, Owned
<1>4. CASE LateLock(w) \/ LateByName(w)
  <2>1. UNCHANGED tableVars /\ hand = Nil
    BY <1>1, <1>4 DEF LateLock, LateByName, TypeOK
  <2>2. hand' = Nil
    BY <1>4, <2>1 DEF LateLock, LateByName, Unlock
  <2> QED
    BY <1>0, <1>1, <1>3, <2>1, <2>2 DEF Owns, tableVars
<1>5. CASE LateByAddr(w) /\ ByAddr(w) # Nil
  <2>1. /\ hand' = stats[addr[w]] /\ statsLock' = w
        /\ stats' = [stats EXCEPT ![addr[w]] = Nil]
    BY <1>5 DEF LateByAddr, ByAddr
  <2>2. \A k \in Keys : stats'[k] = s => stats[k] = s
    BY <1>1, <1>2, <2>1
  <2>3. hand' = s => v = w
    BY <1>3, <2>1, AddressIsOwn
  <2> QED
    BY <1>0, <1>3, <2>1, <2>2, <2>3 DEF Owns
<1>6. CASE LateByAddr(w) /\ ByAddr(w) = Nil
  <2>1. PICK r \in Records : made' = made + 1 /\ r = made' /\ stats' = [stats EXCEPT ![addr[w]] = r]
    BY <1>6 DEF LateByAddr, CreateRecord
  <2>2. hand' = Nil
    BY <1>6 DEF LateByAddr, Unlock
  <2>3. s # r
    BY <1>2, <1>3, <2>1, NewUnused
  <2>4. \A k \in Keys : stats'[k] = s => stats[k] = s
    BY <1>2, <2>1, <2>3
  <2> QED
    BY <1>0, <1>1, <1>3, <2>2, <2>4 DEF Owns
<1>7. CASE LateStore(w)
  <2>1. /\ stats' = [stats EXCEPT ![deviceName[w]] = hand] /\ hand' = Nil
        /\ statsLock = w
    BY <1>7 DEF LateStore, Unlock
  <2>2. ASSUME NEW k \in Keys, stats'[k] = s PROVE k = addr[v] \/ k \in named[v]
    <3>1. CASE stats[k] = s
      BY <1>3, <3>1 DEF Owns
    <3>2. CASE stats[k] # s
      <4>1. k = deviceName[w] /\ hand = s
        BY <1>2, <2>1, <2>2, <3>2
      <4>2. v = w /\ named[w] # {}
        BY <1>3, <2>1, <4>1 DEF Owns
      <4> QED
        BY <1>1, <4>1, <4>2 DEF Known
    <3> QED
      BY <3>1, <3>2
  <2> QED
    BY <1>0, <1>1, <1>3, <2>1, <2>2 DEF Owns
<1> QED
  BY <1>4, <1>5, <1>6, <1>7 DEF LateCall

LEMMA StepsKeepOwners ==
    ASSUME StatsInv, Owned, NEW w \in Workers,
           \/ Authorize(w) \/ PlainShare(w) \/ RecordVerdict(w) \/ OverallVerdict(w)
           \/ RecordShare(w) \/ RecordOverall(w)
    PROVE  Owned'
<1>0. UNCHANGED <<tableVars, lateVars, addr>>
  BY DEF Authorize, PlainShare, RecordVerdict, OverallVerdict, RecordShare, RecordOverall,
      clientVars
<1>1. TypeOK /\ \A s \in Records : s # Nil
  BY RecordFacts DEF StatsInv
<1>2. \A v \in Workers : named[v] \subseteq named'[v]
  <2>1. CASE Authorize(w)
    <3>1. PICK d : named' = [named EXCEPT ![w] = @ \cup {d}]
      BY <2>1 DEF Authorize
    <3> QED
      BY <1>1, <3>1 DEF TypeOK
  <2>2. CASE ~ Authorize(w)
    BY <2>2 DEF PlainShare, RecordVerdict, OverallVerdict, RecordShare, RecordOverall, clientVars
  <2> QED
    BY <2>1, <2>2
<1>3. ASSUME NEW s \in Records, NEW v \in Workers, Uses(v, s)' PROVE Uses(v, s)
  <2>1. CASE Authorize(w) \/ PlainShare(w)
    BY <1>3, <2>1 DEF Authorize, PlainShare, Uses, countVars, readerVars
  <2>2. CASE RecordVerdict(w)
    BY <1>1, <1>3, <2>2 DEF RecordVerdict, Uses, TypeOK
  <2>3. CASE RecordShare(w)
    BY <1>1, <1>3, <2>3 DEF RecordShare, Uses, TypeOK
  <2>4. CASE OverallVerdict(w)
    BY <1>1, <1>3, <2>4 DEF OverallVerdict, Uses, TypeOK
  <2>5. CASE RecordOverall(w)
    BY <1>1, <1>3, <2>5 DEF RecordOverall, Uses, TypeOK
  <2> QED
    BY <2>1, <2>2, <2>3, <2>4, <2>5
<1>4. ASSUME NEW s \in Records, NEW v \in Workers, Owns(v, s) PROVE Owns(v, s)'
  BY <1>0, <1>2, <1>4 DEF Owns, tableVars, lateVars
<1> QED
  BY <1>3, <1>4 DEF Owned

(* Every client owns the records it uses. *)
LEMMA OwnedInvariant == Spec => [](OwnAddresses => Owned)
<1>1. Init => Owned
  BY RecordFacts, StatsInitInv DEF StatsInv, Init, Owned, Uses
<1>2. StatsInv /\ (OwnAddresses => Owned) /\ [Next]_vars => (OwnAddresses => Owned)'
  <2>1. ASSUME StatsInv, OwnAddresses => Owned, [Next]_vars, OwnAddresses' PROVE Owned'
    <3>1. addr' = addr
      BY <2>1 DEF Next, HandleSubmit, LateCall, Authorize, LateLock, LateByName, LateByAddr,
          LateStore, Submit, PlainShare, SubmitBlock, RecordVerdict, OverallVerdict,
          RecordShare, RecordOverall, clientVars, vars
    <3>2. OwnAddresses /\ Owned
      BY <2>1, <3>1 DEF OwnAddresses
    <3>3. CASE Next
      BY <2>1, <3>2, <3>3, CallKeepsOwners, LateKeepsOwners, StepsKeepOwners
      DEF Next, HandleSubmit
    <3>4. CASE UNCHANGED vars
      BY <3>2, <3>4 DEF Owned, Owns, Uses, vars, tableVars, countVars, clientVars, lateVars, readerVars
    <3> QED
      BY <2>1, <3>3, <3>4
  <2> QED
    BY <2>1
<1> QED
  BY <1>1, <1>2, StatsInvariant, PTL DEF Spec

(* When no two clients share a remote address, a record under a device     *)
(* name counts only shares of clients that authorized with it, whatever    *)
(* the late calls of getCreateStats, the readers and new names interleave. *)
THEOREM StatsCreditedToOwner == Spec => []CreditedToOwner
<1>1. StatsInv /\ (OwnAddresses => Owned) => CreditedToOwner
  <2> SUFFICES ASSUME StatsInv, Owned, NEW d \in Names, stats[d] # Nil,
                      NEW w \in credits[stats[d]]
               PROVE  d \in named[w]
    BY DEF CreditedToOwner, CreditedByName
  <2>1. d \in Keys /\ stats[d] \in Records /\ w \in Workers
    BY DEF StatsInv, TypeOK, Keys
  <2>2. addr[w] # d
    BY <2>1, KeysOf DEF StatsInv
  <2>3. Uses(w, stats[d])
    BY DEF Uses
  <2>4. Owns(w, stats[d])
    BY <2>1, <2>3 DEF Owned
  <2> QED
    BY <2>1, <2>2, <2>4 DEF Owns
<1> QED
  BY <1>1, StatsInvariant, OwnedInvariant, PTL

-----------------------------------------------------------------------------
(* What the table adds up to.                                              *)

(* A record with no credits counts nothing. *)
Counted == \A r \in Records : credits[r] = {} => counts[r] = Zero

(* What all records count, one by one, in the table or not. *)
AllLines(numbers, c) == UNION {{r} \X (1 .. numbers[r][c]) : r \in Records}

(* It is the total, and what is being counted. *)
Adds(numbers, total, flying, c) ==
    /\ IsFiniteSet(AllLines(numbers, c)) /\ IsFiniteSet(flying)
    /\ Cardinality(AllLines(numbers, c)) = total + Cardinality(flying)

SumInv == Counted /\ \A c \in Counters : Adds(counts, overall[c], Flying(c), c)

(* Line n of a table under key k, and count n of record r. *)
IsLine(table, numbers, c, k, n) ==
    k \in Keys /\ table[k] # Nil /\ n \in 1 .. numbers[table[k]][c]
IsCount(numbers, c, r, n) == r \in Records /\ n \in 1 .. numbers[r][c]

(* The pairs that are lines, and counts. *)
LEMMA LineIs ==
    ASSUME NEW table, NEW numbers, NEW c, NEW k, NEW n
    PROVE  <<k, n>> \in Lines(table, numbers, c) <=> IsLine(table, numbers, c, k, n)
  BY DEF Lines, IsLine

LEMMA CountIs ==
    ASSUME NEW numbers, NEW c, NEW r, NEW n
    PROVE  <<r, n>> \in AllLines(numbers, c) <=> IsCount(numbers, c, r, n)
  BY DEF AllLines, IsCount

(* Both are pairs. *)
LEMMA LinePairs ==
    ASSUME NEW table, NEW numbers, NEW c, NEW p \in Lines(table, numbers, c)
    PROVE  \E k, n : p = <<k, n>>
  BY DEF Lines

LEMMA CountPairs ==
    ASSUME NEW numbers, NEW c, NEW p \in AllLines(numbers, c)
    PROVE  \E r, n : p = <<r, n>>
  BY DEF AllLines

(* One more of counter b for record r. *)
Raised(numbers, r, b) == [numbers EXCEPT ![r][b] = @ + 1]

(* The other counters of all records stay, and b has one line more. *)
LEMMA Increment ==
    ASSUME NEW numbers \in [Records -> [Counters -> Nat]],
           NEW r \in Records, NEW b \in Counters, NEW c \in Counters,
           IsFiniteSet(AllLines(numbers, c))
    PROVE  /\ IsFiniteSet(AllLines(Raised(numbers, r, b), c))
           /\ Cardinality(AllLines(Raised(numbers, r, b), c))
                 = Cardinality(AllLines(numbers, c)) + (IF c = b THEN 1 ELSE 0)
<1> DEFINE more == Raised(numbers, r, b)
           L == AllLines(numbers, c)
           M == AllLines(more, c)
           x == <<r, numbers[r][c] + 1>>
<1>0. Cardinality(L) \in Nat
  BY FS_CardinalityType
<1>1. \A s \in Records :
         /\ numbers[s][c] \in Nat
         /\ more[s][c] = IF s = r /\ c = b THEN numbers[r][c] + 1 ELSE numbers[s][c]
  BY DEF Raised
<1> HIDE DEF more
<1>2. CASE c # b
  <2>1. \A s, n : IsCount(more, c, s, n) <=> IsCount(numbers, c, s, n)
    BY <1>1, <1>2 DEF IsCount
  <2>2. ASSUME NEW p \in M PROVE p \in L
    <3>1. PICK k, n : p = <<k, n>>
      BY <2>2, CountPairs
    <3> QED
      BY <2>1, <2>2, <3>1, CountIs
  <2>3. ASSUME NEW p \in L PROVE p \in M
    <3>1. PICK k, n : p = <<k, n>>
      BY <2>3, CountPairs
    <3> QED
      BY <2>1, <2>3, <3>1, CountIs
  <2>4. L = M
    BY <2>2, <2>3
  <2> QED
    BY <1>0, <1>2, <2>4 DEF more
<1>3. CASE c = b
  <2>1. \A s, n : IsCount(more, c, s, n) <=>
           IsCount(numbers, c, s, n) \/ (s = r /\ n = numbers[r][c] + 1)
    <3> SUFFICES ASSUME NEW s, NEW n
                 PROVE  IsCount(more, c, s, n) <=>
                    IsCount(numbers, c, s, n) \/ (s = r /\ n = numbers[r][c] + 1)
      OBVIOUS
    <3>1. CASE s = r
      <4>1. /\ IsCount(more, c, s, n) <=> n \in 1 .. numbers[r][c] + 1
            /\ IsCount(numbers, c, s, n) <=> n \in 1 .. numbers[r][c]
        BY <1>1, <1>3, <3>1 DEF IsCount
      <4>2. numbers[r][c] \in Nat
        OBVIOUS
      <4>3. n \in 1 .. numbers[r][c] + 1 <=>
               n \in 1 .. numbers[r][c] \/ n = numbers[r][c] + 1
        BY <4>2
      <4> QED
        BY <3>1, <4>1, <4>3
    <3>2. CASE s # r
      BY <1>1, <3>2 DEF IsCount
    <3> QED
      BY <3>1, <3>2
  <2>2. ~ IsCount(numbers, c, r, numbers[r][c] + 1)
    BY <1>1 DEF IsCount
  <2>3. x \notin L
    BY <2>2, CountIs
  <2>4. ASSUME NEW p \in M PROVE p \in L \/ p = x
    <3>1. PICK k, n : p = <<k, n>>
      BY <2>4, CountPairs
    <3> QED
      BY <2>1, <2>4, <3>1, CountIs
  <2>5. ASSUME NEW p \in L PROVE p \in M
    <3>1. PICK k, n : p = <<k, n>>
      BY <2>5, CountPairs
    <3> QED
      BY <2>1, <2>5, <3>1, CountIs
  <2>6. x \in M
    BY <2>1, CountIs
  <2>7. M = L \cup {x}
    BY <2>4, <2>5, <2>6
  <2> HIDE DEF L, M, x
  <2>8. IsFiniteSet(L)
    BY DEF L
  <2>9. IsFiniteSet(M) /\ Cardinality(M) = Cardinality(L) + 1
    BY <2>3, <2>7, <2>8, FS_AddElement
  <2> QED
    BY <1>3, <2>9 DEF L, M, more
<1> QED
  BY <1>2, <1>3

(* A reader counts in a record: it is in flight from then on. *)
LEMMA RecordAdds ==
    ASSUME NEW numbers \in [Records -> [Counters -> Nat]], NEW total \in Nat,
           NEW flying, NEW w, w \notin flying, NEW r \in Records, NEW c \in Counters,
           Adds(numbers, total, flying, c)
    PROVE  Adds(Raised(numbers, r, c), total, flying \cup {w}, c)
<1>1. /\ Cardinality(flying) \in Nat /\ IsFiniteSet(flying \cup {w})
      /\ Cardinality(flying \cup {w}) = Cardinality(flying) + 1
  BY FS_CardinalityType, FS_AddElement DEF Adds
<1>2. /\ IsFiniteSet(AllLines(Raised(numbers, r, c), c))
      /\ Cardinality(AllLines(Raised(numbers, r, c), c))
            = Cardinality(AllLines(numbers, c)) + 1
  BY Increment DEF Adds
<1> QED
  BY <1>1, <1>2 DEF Adds

(* The other counters are not touched. *)
LEMMA OtherAdds ==
    ASSUME NEW numbers \in [Records -> [Counters -> Nat]], NEW total \in Nat,
           NEW flying, NEW r \in Records, NEW b \in Counters, NEW c \in Counters, c # b,
           Adds(numbers, total, flying, c)
    PROVE  Adds(Raised(numbers, r, b), total, flying, c)
<1>1. /\ IsFiniteSet(AllLines(Raised(numbers, r, b), c))
      /\ Cardinality(AllLines(Raised(numbers, r, b), c))
            = Cardinality(AllLines(numbers, c)) + 0
  BY Increment DEF Adds
<1>2. Cardinality(AllLines(numbers, c)) \in Nat
  BY FS_CardinalityType DEF Adds
<1> QED
  BY <1>1, <1>2 DEF Adds

(* Then it counts in the totals. *)
LEMMA OverallAdds ==
    ASSUME NEW numbers, NEW total \in Nat, NEW flying, NEW w \in flying, NEW c,
           Adds(numbers, total, flying, c)
    PROVE  Adds(numbers, total + 1, flying \ {w}, c)
<1>1. /\ Cardinality(flying) \in Nat /\ IsFiniteSet(flying \ {w})
      /\ Cardinality(flying \ {w}) = Cardinality(flying) - 1
  BY FS_CardinalityType, FS_RemoveElement DEF Adds
<1> QED
  BY <1>1 DEF Adds

(* The two steps of counting, of a share (b is "shares") or of a verdict. *)
LEMMA RecordKeepsSums ==
    ASSUME TypeOK, SumInv, NEW w \in Workers, NEW r \in Records, NEW b \in Counters,
           counts' = Raised(counts, r, b), overall' = overall,
           credits' = [credits EXCEPT ![r] = @ \cup {w}],
           w \notin Flying(b), Flying(b)' = Flying(b) \cup {w},
           \A c \in Counters : c # b => Flying(c)' = Flying(c)
    PROVE  SumInv'
<1>1. counts \in [Records -> [Counters -> Nat]] /\ overall \in [Counters -> Nat]
  BY DEF TypeOK
<1>2. ASSUME NEW c \in Counters PROVE Adds(counts', overall'[c], Flying(c)', c)
  <2>1. Adds(counts, overall[c], Flying(c), c) /\ overall[c] \in Nat
    BY <1>1 DEF SumInv
  <2>2. CASE c = b
    BY <1>1, <2>1, <2>2, RecordAdds
  <2>3. CASE c # b
    BY <1>1, <2>1, <2>3, OtherAdds
  <2> QED
    BY <2>2, <2>3
<1>3. Counted'
  BY DEF TypeOK, SumInv, Counted, Raised
<1> QED
  BY <1>2, <1>3 DEF SumInv

LEMMA OverallKeepsSums ==
    ASSUME TypeOK, SumInv, NEW w \in Workers, NEW b \in Counters,
           overall' = [overall EXCEPT ![b] = @ + 1], UNCHANGED <<counts, credits>>,
           w \in Flying(b), Flying(b)' = Flying(b) \ {w},
           \A c \in Counters : c # b => Flying(c)' = Flying(c)
    PROVE  SumInv'
<1>1. overall \in [Counters -> Nat]
  BY DEF TypeOK
<1>2. ASSUME NEW c \in Counters PROVE Adds(counts', overall'[c], Flying(c)', c)
  <2>1. Adds(counts, overall[c], Flying(c), c) /\ overall[c] \in Nat
    BY <1>1 DEF SumInv
  <2>2. CASE c = b
    <3>1. overall'[c] = overall[c] + 1
      BY <1>1, <2>2
    <3> QED
      BY <2>1, <2>2, <3>1, OverallAdds
  <2>3. CASE c # b
    BY <1>1, <2>1, <2>3
  <2> QED
    BY <2>2, <2>3
<1>3. Counted'
  BY DEF SumInv, Counted
<1> QED
  BY <1>2, <1>3 DEF SumInv

LEMMA SumInit == Init => SumInv
<1> SUFFICES ASSUME Init PROVE SumInv
  OBVIOUS
<1>1. Counted
  BY DEF Init, Counted
<1>2. \A c \in Counters : Flying(c) = {} /\ AllLines(counts, c) = {} /\ overall[c] = 0
  BY DEF Init, Flying, AllLines, Zero
<1>3. \A c \in Counters : Adds(counts, overall[c], Flying(c), c)
  BY <1>2, FS_EmptySet DEF Adds
<1> QED
  BY <1>1, <1>3 DEF SumInv

LEMMA SumKept == StatsInv /\ SumInv /\ [Next]_vars => SumInv'
<1> SUFFICES ASSUME StatsInv, SumInv, [Next]_vars PROVE SumInv'
  OBVIOUS
<1>0. /\ TypeOK /\ "shares" \notin Verdicts /\ "none" \notin Counters
      /\ "shares" \in Counters /\ \A v \in Verdicts : v \in Counters
  BY DEF StatsInv, Verdicts, Counters
<1>1. ASSUME UNCHANGED countVars, \A c \in Counters : Flying(c)' = Flying(c)
      PROVE  SumInv'
  BY <1>1 DEF SumInv, Counted, countVars
<1>2. CASE UNCHANGED vars
  <2>1. \A c \in Counters : Flying(c)' = Flying(c)
    BY <1>2 DEF Flying, vars, readerVars
  <2> QED
    BY <1>1, <1>2, <2>1 DEF vars
<1>3. ASSUME NEW w \in Workers, Authorize(w) \/ LateCall(w) PROVE SumInv'
  <2>1. UNCHANGED <<countVars, readerVars>>
    BY <1>3 DEF Authorize, LateCall, LateLock, LateByName, LateByAddr, LateStore
  <2>2. \A c \in Counters : Flying(c)' = Flying(c)
    BY <2>1 DEF Flying, readerVars
  <2> QED
    BY <1>1, <2>1, <2>2
<1>4. ASSUME NEW w \in Workers, Submit(w) \/ PlainShare(w) \/ SubmitBlock(w) PROVE SumInv'
  <2>1. /\ UNCHANGED countVars /\ pc[w] \in {"idle", "pow"}
        /\ \E p \in {"pow", "record", "verdict"} : pc' = [pc EXCEPT ![w] = p]
        /\ \A v \in Workers : v # w => verdict'[v] = verdict[v]
    BY <1>0, <1>4 DEF Submit, PlainShare, SubmitBlock, Goto, TypeOK
  <2>2. \A v \in Workers : /\ v # w => pc'[v] = pc[v]
                           /\ v = w => pc'[v] \in {"pow", "record", "verdict"}
    BY <1>0, <2>1 DEF TypeOK
  <2>3. \A c \in Counters : Flying(c)' = Flying(c)
    BY <2>1, <2>2 DEF Flying
  <2> QED
    BY <1>1, <2>1, <2>3
<1>5. ASSUME NEW w \in Workers, RecordVerdict(w) PROVE SumInv'
  <2>1. /\ counts' = Raised(counts, vptr[w], verdict[w]) /\ overall' = overall
        /\ credits' = [credits EXCEPT ![vptr[w]] = @ \cup {w}]
        /\ verdict' = verdict /\ pc[w] = "verdict" /\ pc' = [pc EXCEPT ![w] = "total"]
    BY <1>5 DEF RecordVerdict, Raised, Goto
  <2>2. vptr[w] \in Records /\ verdict[w] \in Verdicts
    BY <1>0, <2>1 DEF TypeOK
  <2>3. \A v \in Workers : pc'[v] = IF v = w THEN "total" ELSE pc[v]
    BY <1>0, <2>1 DEF TypeOK
  <2>4. /\ w \notin Flying(verdict[w])
        /\ Flying(verdict[w])' = Flying(verdict[w]) \cup {w}
        /\ \A c \in Counters : c # verdict[w] => Flying(c)' = Flying(c)
    BY <1>0, <2>1, <2>2, <2>3 DEF Flying
  <2> QED
    BY <1>0, <2>1, <2>2, <2>4, RecordKeepsSums
<1>6. ASSUME NEW w \in Workers, OverallVerdict(w) PROVE SumInv'
  <2>1. /\ UNCHANGED <<counts, credits>> /\ overall' = [overall EXCEPT ![verdict[w]] = @ + 1]
        /\ verdict' = [verdict EXCEPT ![w] = "none"]
        /\ pc[w] = "total" /\ pc' = [pc EXCEPT ![w] = "record"]
    BY <1>6 DEF OverallVerdict, Goto
  <2>2. verdict[w] \in Verdicts
    BY <1>0, <2>1 DEF TypeOK
  <2>3. \A v \in Workers : /\ pc'[v] = IF v = w THEN "record" ELSE pc[v]
                           /\ verdict'[v] = IF v = w THEN "none" ELSE verdict[v]
    BY <1>0, <2>1 DEF TypeOK
  <2>4. /\ w \in Flying(verdict[w])
        /\ \A c \in Counters : c # verdict[w] => Flying(c)' = Flying(c)
    BY <1>0, <2>1, <2>2, <2>3 DEF Flying
  <2>5. ASSUME NEW c \in Counters, c = verdict[w] PROVE Flying(c)' = Flying(c) \ {w}
    BY <1>0, <2>1, <2>2, <2>3, <2>5 DEF Flying
  <2>6. ASSUME NEW b \in Counters, b = verdict[w] PROVE SumInv'
    BY <1>0, <2>1, <2>4, <2>5, <2>6, OverallKeepsSums
  <2> QED
    BY <1>0, <2>2, <2>6
<1>7. ASSUME NEW w \in Workers, RecordShare(w) PROVE SumInv'
  <2>1. /\ counts' = Raised(counts, ptr[w], "shares") /\ overall' = overall
        /\ credits' = [credits EXCEPT ![ptr[w]] = @ \cup {w}]
        /\ verdict' = verdict /\ pc[w] = "record" /\ pc' = [pc EXCEPT ![w] = "overall"]
    BY <1>7 DEF RecordShare, Raised, Goto
  <2>2. ptr[w] \in Records /\ verdict[w] = "none"
    BY <1>0, <2>1 DEF TypeOK
  <2>3. \A v \in Workers : pc'[v] = IF v = w THEN "overall" ELSE pc[v]
    BY <1>0, <2>1 DEF TypeOK
  <2>4. /\ w \notin Flying("shares")
        /\ Flying("shares")' = Flying("shares") \cup {w}
        /\ \A c \in Counters : c # "shares" => Flying(c)' = Flying(c)
    BY <1>0, <2>1, <2>2, <2>3 DEF Flying
  <2> QED
    BY <1>0, <2>1, <2>2, <2>4, RecordKeepsSums
<1>8. ASSUME NEW w \in Workers, RecordOverall(w) PROVE SumInv'
  <2>1. /\ UNCHANGED <<counts, credits, verdict>>
        /\ overall' = [overall EXCEPT !["shares"] = @ + 1]
        /\ pc[w] = "overall" /\ pc' = [pc EXCEPT ![w] = "idle"]
    BY <1>8 DEF RecordOverall, Goto
  <2>2. verdict[w] = "none"
    BY <1>0, <2>1 DEF TypeOK
  <2>3. \A v \in Workers : pc'[v] = IF v = w THEN "idle" ELSE pc[v]
    BY <1>0, <2>1 DEF TypeOK
  <2>4. /\ w \in Flying("shares")
        /\ Flying("shares")' = Flying("shares") \ {w}
        /\ \A c \in Counters : c # "shares" => Flying(c)' = Flying(c)
    BY <1>0, <2>1, <2>2, <2>3 DEF Flying
  <2> QED
    BY <1>0, <2>1, <2>4, OverallKeepsSums
<1> QED
  BY <1>2, <1>3, <1>4, <1>5, <1>6, <1>7, <1>8 DEF Next, HandleSubmit

(* The inductive invariant of the sums. *)
LEMMA SumInvariant == Spec => []SumInv
  BY SumInit, SumKept, StatsInvariant, PTL DEF Spec

(* The lines of the table are among what all records count, and they are   *)
(* all of it when nothing that counts is missing.                          *)
LEMMA TableLines ==
    ASSUME StatsInv, Counted, NEW c \in Counters, IsFiniteSet(AllLines(counts, c))
    PROVE  /\ TableSum(c) <= Cardinality(AllLines(counts, c))
           /\ (\A r \in Records : credits[r] # {} => \E k \in Keys : stats[k] = r)
                 => TableSum(c) = Cardinality(AllLines(counts, c))
<1> DEFINE L == Lines(stats, counts, c)
           A == AllLines(counts, c)
           f == [p \in L |-> <<stats[p[1]], p[2]>>]
<1>0. /\ stats \in [Keys -> Records \cup {Nil}]
      /\ \A j, k \in Keys : stats[j] = stats[k] /\ stats[k] # Nil => j = k
      /\ \A s \in Records : s # Nil
  BY RecordFacts DEF StatsInv, TypeOK, NoRecordTwice
<1>1. ASSUME NEW p \in L PROVE \E k, n : p = <<k, n>> /\ IsLine(stats, counts, c, k, n)
  <2>1. PICK k, n : p = <<k, n>>
    BY <1>1, LinePairs
  <2> QED
    BY <1>1, <2>1, LineIs
<1>2. f \in [L -> A]
  <2> SUFFICES ASSUME NEW p \in L PROVE <<stats[p[1]], p[2]>> \in A
    OBVIOUS
  <2>1. PICK k, n : p = <<k, n>> /\ IsLine(stats, counts, c, k, n)
    BY <1>1
  <2>2. IsCount(counts, c, stats[k], n)
    BY <1>0, <2>1 DEF IsLine, IsCount
  <2> QED
    BY <2>1, <2>2, CountIs
<1>3. ASSUME NEW p \in L, NEW q \in L, f[p] = f[q] PROVE p = q
  <2>1. PICK k, n : p = <<k, n>> /\ IsLine(stats, counts, c, k, n)
    BY <1>1
  <2>2. PICK j, m : q = <<j, m>> /\ IsLine(stats, counts, c, j, m)
    BY <1>1
  <2>3. stats[k] = stats[j] /\ n = m
    BY <1>3, <2>1, <2>2
  <2> QED
    BY <1>0, <2>1, <2>2, <2>3 DEF IsLine
<1>4. ASSUME \A r \in Records : credits[r] # {} => \E k \in Keys : stats[k] = r,
             NEW q \in A
      PROVE  \E p \in L : f[p] = q
  <2>1. PICK r, n : q = <<r, n>>
    BY <1>4, CountPairs
  <2>2. IsCount(counts, c, r, n)
    BY <1>4, <2>1, CountIs
  <2>3. r \in Records /\ counts[r] # Zero
    BY <2>2 DEF IsCount, Zero
  <2>4. PICK k \in Keys : stats[k] = r
    BY <1>4, <2>3 DEF Counted
  <2>5. IsLine(stats, counts, c, k, n)
    BY <1>0, <2>2, <2>3, <2>4 DEF IsLine, IsCount
  <2>6. <<k, n>> \in L
    BY <2>5, LineIs
  <2>7. f[<<k, n>>] = q
    BY <2>1, <2>4, <2>6
  <2> QED
    BY <2>6, <2>7
<1>5. L = Lines(stats, counts, c) /\ IsFiniteSet(A)
  OBVIOUS
<1> HIDE DEF L, A, f
<1>6. f \in Injection(L, A)
  BY <1>2, <1>3, Fun_IsInj
<1>7. /\ Cardinality(L) <= Cardinality(A)
      /\ Cardinality(L) = Cardinality(A) <=> f \in Surjection(L, A)
  BY <1>5, <1>6, FS_Injection
<1>8. ASSUME \A r \in Records : credits[r] # {} => \E k \in Keys : stats[k] = r
      PROVE  f \in Surjection(L, A)
  BY <1>2, <1>4, <1>8, Fun_IsSurj
<1>9. TableSum(c) = Cardinality(L)
  BY <1>5 DEF TableSum
<1> QED
  BY <1>7, <1>8, <1>9 DEF A

(* The lines the stats thread prints add up to the totals below them and   *)
(* what is being counted, or to less where a record that counts was        *)
(* dropped, and never to more, whatever the calls of getCreateStats and    *)
(* the unlocked additions interleave, for any clients behind any addresses.*)
THEOREM StatsTableAddsUp == Spec => []TableAddsUp
<1>1. ASSUME StatsInv, SumInv PROVE TableAddsUp
  <2> SUFFICES ASSUME at = "free", NEW c \in Counters
               PROVE  /\ TableSum(c) <= overall[c] + Cardinality(Flying(c))
                      /\ (\A r \in Records : credits[r] # {} => Filed(r)) =>
                            TableSum(c) = overall[c] + Cardinality(Flying(c))
    BY DEF TableAddsUp
  <2>1. Adds(counts, overall[c], Flying(c), c) /\ Counted
    BY <1>1 DEF SumInv
  <2>2. /\ TableSum(c) <= Cardinality(AllLines(counts, c))
        /\ (\A r \in Records : credits[r] # {} => \E k \in Keys : stats[k] = r)
              => TableSum(c) = Cardinality(AllLines(counts, c))
    BY <1>1, <2>1, TableLines DEF Adds
  <2>3. hand = Nil /\ \A r \in Records : r # Nil
    BY <1>1, RecordFacts DEF StatsInv, TypeOK
  <2>4. (\A r \in Records : credits[r] # {} => Filed(r)) =>
           \A r \in Records : credits[r] # {} => \E k \in Keys : stats[k] = r
    BY <2>3 DEF Filed
  <2> QED
    BY <2>1, <2>2, <2>4 DEF Adds
<1> QED
  BY <1>1, StatsInvariant, SumInvariant, PTL
=============================================================================
