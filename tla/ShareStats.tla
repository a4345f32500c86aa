------------------------------ MODULE ShareStats ------------------------------
(***************************************************************************)
(* The share accounting of the bridge (poolstratum/share_handler.go): a    *)
(* table of WorkStats records by worker name or remote address, shared by  *)
(* the goroutines of all clients, and the handling of a kaspa share.       *)
(*                                                                         *)
(* getCreateStats looks a client up under its device name and then under   *)
(* its address, moves a record it finds there to the name, and creates     *)
(* missing records under the address.  It is called by the reader of the   *)
(* client for every share and every block, and by the goroutine OnConnect  *)
(* starts, 5 seconds after the client connected whether or not it is       *)
(* authorized by then.  statsLock guards the table, not the name: only the *)
(* reader renames its client, so its own calls see one name, while the     *)
(* late call of OnConnect may read another name every time it asks.        *)
(*                                                                         *)
(* A record is a number (the pointer); the contents of a share and the     *)
(* proof of work are left out: whether a share is a block, and what the    *)
(* node answers to it, is chosen freely.                                   *)
(***************************************************************************)
EXTENDS Integers, FiniteSets

CONSTANTS Workers,      \* the connected clients
          Names,        \* device names miners authorize with
          Addrs,        \* remote addresses, without the port
          MaxNames,     \* bound: names a client gives
          MaxRecords,   \* bound: records created in a behaviour
          MaxSubmits    \* bound: shares submitted in a behaviour

NoName == ""
Keys == Names \cup Addrs \cup {NoName}
Records == 1 .. MaxRecords
Nil == 0
Nobody == "nobody"

ASSUME StatsAssumption == /\ Names \cap Addrs = {}
                          /\ NoName \notin Names \cup Addrs
                          /\ Nobody \notin Workers
                          /\ MaxNames \in Nat
                          /\ MaxRecords \in Nat /\ MaxSubmits \in Nat

VARIABLES
    addr,        \* ctx.RemoteAddr(): clients behind one address share it
    stats,       \* sh.stats: the record under a key, Nil if there is none
    made,        \* records created so far
    rowName,     \* DeviceName of every record
    counts,      \* the counters of every record
    overall,     \* sh.overall
    deviceName,  \* ctx.deviceName
    pending,     \* the goroutine of OnConnect has not run yet
    statsLock,   \* the client whose late call is inside getCreateStats
    at, hand,    \* where that call is, and the record it has taken out
    seen,        \* history: the name that call looked up, NoName if none
    pc,          \* where the reader of w is
    ptr, vptr,   \* the records it counts the share and the verdict in
    verdict,     \* what the node said of the block
    submits,     \* shares submitted so far
    replies,     \* replies to the share w submitted last
    named,       \* the names w has authorized with, none before it is authorized
    credits      \* history: whose shares every record has counted

tableVars == <<stats, made, rowName>>
countVars == <<counts, overall, credits>>
clientVars == <<addr, deviceName, named>>
lateVars == <<pending, statsLock, at, hand, seen>>
readerVars == <<pc, ptr, vptr, verdict, submits, replies>>
vars == <<tableVars, countVars, clientVars, lateVars, readerVars>>

Verdicts == {"blocks", "stale", "invalid"}
Counters == Verdicts \cup {"shares"}
Zero == [c \in Counters |-> 0]

Init == /\ addr \in [Workers -> Addrs]
        /\ stats = [k \in Keys |-> Nil]
        /\ made = 0
        /\ rowName = [r \in Records |-> NoName]
        /\ counts = [r \in Records |-> Zero]
        /\ overall = Zero
        /\ deviceName = [w \in Workers |-> NoName]
        /\ pending = [w \in Workers |-> TRUE]
        /\ statsLock = Nobody /\ at = "free" /\ hand = Nil /\ seen = NoName
        /\ pc = [w \in Workers |-> "idle"]
        /\ ptr = [w \in Workers |-> Nil]
        /\ vptr = [w \in Workers |-> Nil]
        /\ verdict = [w \in Workers |-> "none"]
        /\ submits = 0
        /\ replies = [w \in Workers |-> 0]
        /\ named = [w \in Workers |-> {}]
        /\ credits = [r \in Records |-> {}]

-----------------------------------------------------------------------------

ByName(w) == IF deviceName[w] # NoName THEN stats[deviceName[w]] ELSE Nil

(* Mutated form: a record without a name is taken when none is under the   *)
(* address.                                                                *)
ByAddrOrNameless(w) == IF stats[addr[w]] # Nil THEN stats[addr[w]] ELSE stats[NoName]

ByAddr(w) == stats[addr[w]]

(* Mutated form: a moved record stays under the address as well. *)
MoveRecordKeepsOld(w, r) ==
    /\ r = ByAddr(w)
    /\ stats' = [stats EXCEPT ![deviceName[w]] = r]
    /\ rowName' = [rowName EXCEPT ![r] = deviceName[w]]
    /\ UNCHANGED made

(* Mutated form: a moved record still shows the address. *)
MoveRecordKeepsName(w, r) ==
    /\ r = ByAddr(w)
    /\ stats' = [stats EXCEPT ![addr[w]] = Nil, ![deviceName[w]] = r]
    /\ UNCHANGED <<rowName, made>>

(* The record under the address gets the name of the client. *)
MoveRecord(w, r) ==
    /\ r = ByAddr(w)
    /\ stats' = [stats EXCEPT ![addr[w]] = Nil, ![deviceName[w]] = r]
    /\ rowName' = [rowName EXCEPT ![r] = deviceName[w]]
    /\ UNCHANGED made

(* A new record goes under the address even when the name is known. *)
CreateRecord(w, r) ==
    /\ made < MaxRecords
    /\ made' = made + 1
    /\ r = made'
    /\ stats' = [stats EXCEPT ![addr[w]] = r]
    /\ rowName' = [rowName EXCEPT ![r] = addr[w]]

(* getCreateStats(ctx), called by the reader of the client, returns r: all *)
(* of it runs under statsLock, and nobody else renames the client.         *)
GetCreateStats(w, r) ==
    /\ at = "free"
    /\ \/ ByName(w) # Nil /\ r = ByName(w) /\ UNCHANGED tableVars
       \/ ByName(w) = Nil /\ ByAddr(w) # Nil /\ MoveRecord(w, r)
       \/ ByName(w) = Nil /\ ByAddr(w) = Nil /\ CreateRecord(w, r)

-----------------------------------------------------------------------------
(* The call of getCreateStats by the goroutine of OnConnect, a step for    *)
(* every time it asks for the name.                                        *)

(* 5 seconds are over; the lock is taken and the name compared with "". *)
LateLock(w) ==
    /\ pending[w]
    /\ at = "free"
    /\ pending' = [pending EXCEPT ![w] = FALSE]
    /\ statsLock' = w
    /\ at' = IF deviceName[w] # NoName THEN "byName" ELSE "byAddr"
    /\ UNCHANGED <<hand, seen, tableVars, countVars, clientVars, readerVars>>

Unlock == /\ statsLock' = Nobody /\ at' = "free"
          /\ hand' = Nil /\ seen' = NoName

(* The name the client has now is looked up. *)
LateByName(w) ==
    /\ statsLock = w /\ at = "byName"
    /\ \/ stats[deviceName[w]] # Nil /\ Unlock
       \/ /\ stats[deviceName[w]] = Nil
          /\ at' = "byAddr" /\ seen' = deviceName[w]
          /\ UNCHANGED <<statsLock, hand>>
    /\ UNCHANGED <<pending, tableVars, countVars, clientVars, readerVars>>

(* Mutated form: the record is not deleted under the address. *)
LateByAddrKeepsOld(w) ==
    /\ statsLock = w /\ at = "byAddr"
    /\ \/ /\ ByAddr(w) # Nil
          /\ hand' = ByAddr(w)
          /\ rowName' = [rowName EXCEPT ![ByAddr(w)] = deviceName[w]]
          /\ at' = "store"
          /\ UNCHANGED <<stats, made, statsLock, seen>>
       \/ /\ ByAddr(w) = Nil
          /\ \E r \in Records : CreateRecord(w, r)
          /\ Unlock
    /\ UNCHANGED <<pending, countVars, clientVars, readerVars>>

(* The address is looked up; a record found there is taken out and gets    *)
(* the name the client has now.                                            *)
LateByAddr(w) ==
    /\ statsLock = w /\ at = "byAddr"
    /\ \/ /\ ByAddr(w) # Nil
          /\ hand' = ByAddr(w)
          /\ stats' = [stats EXCEPT ![addr[w]] = Nil]
          /\ rowName' = [rowName EXCEPT ![ByAddr(w)] = deviceName[w]]
          /\ at' = "store"
          /\ UNCHANGED <<made, statsLock, seen>>
       \/ /\ ByAddr(w) = Nil
          /\ \E r \in Records : CreateRecord(w, r)
          /\ Unlock
    /\ UNCHANGED <<pending, countVars, clientVars, readerVars>>

(* Mutated form: the record taken out is not put back when the name is     *)
(* empty.                                                                  *)
LateStoreNamed(w) ==
    /\ statsLock = w /\ at = "store"
    /\ stats' = IF deviceName[w] = NoName THEN stats
                ELSE [stats EXCEPT ![deviceName[w]] = hand]
    /\ Unlock
    /\ UNCHANGED <<pending, made, rowName, countVars, clientVars, readerVars>>

(* It is stored under the name the client has by then. *)
LateStore(w) ==
    /\ statsLock = w /\ at = "store"
    /\ stats' = [stats EXCEPT ![deviceName[w]] = hand]
    /\ Unlock
    /\ UNCHANGED <<pending, made, rowName, countVars, clientVars, readerVars>>

LateCall(w) == LateLock(w) \/ LateByName(w) \/ LateByAddr(w) \/ LateStore(w)

-----------------------------------------------------------------------------

Goto(w, state) == pc' = [pc EXCEPT ![w] = state]

(* mining.authorize names the client, perhaps anew. *)
Authorize(w) ==
    /\ pc[w] = "idle"
    /\ \E d \in Names \cup {NoName} :
          /\ Cardinality(named[w] \cup {d}) <= MaxNames
          /\ deviceName' = [deviceName EXCEPT ![w] = d]
          /\ named' = [named EXCEPT ![w] = @ \cup {d}]
    /\ UNCHANGED <<addr, tableVars, countVars, lateVars, readerVars>>

(* Mutated form: the record is not looked up before it is needed. *)
SubmitWithoutRecord(w) ==
    /\ pc[w] = "idle"
    /\ named[w] # {}
    /\ submits < MaxSubmits
    /\ submits' = submits + 1
    /\ replies' = [replies EXCEPT ![w] = 0]
    /\ Goto(w, "pow")
    /\ UNCHANGED <<tableVars, countVars, clientVars, lateVars, ptr, vptr, verdict>>

(* A share passes validateSubmit.  Only a client with a wallet address is  *)
(* sent jobs, so it is authorized.  (A share that does not pass is an      *)
(* error that ends the connection, see WorkerConn.)                        *)
Submit(w) ==
    /\ pc[w] = "idle"
    /\ named[w] # {}
    /\ submits < MaxSubmits
    /\ submits' = submits + 1
    /\ \E r \in Records : /\ GetCreateStats(w, r)
                          /\ ptr' = [ptr EXCEPT ![w] = r]
    /\ replies' = [replies EXCEPT ![w] = 0]
    /\ Goto(w, "pow")
    /\ UNCHANGED <<countVars, clientVars, lateVars, vptr, verdict>>

(* The proof of work does not reach the target of the block. *)
PlainShare(w) ==
    /\ pc[w] = "pow"
    /\ Goto(w, "record")
    /\ UNCHANGED <<tableVars, countVars, clientVars, lateVars, ptr, vptr, verdict, submits, replies>>

(* It does: the node answers SubmitBlock (accepted, duplicate or rejected) *)
(* and temp_kasp_submit looks the record of the client up.                 *)
SubmitBlock(w) ==
    /\ pc[w] = "pow"
    /\ \E v \in Verdicts : verdict' = [verdict EXCEPT ![w] = v]
    /\ \E r \in Records : /\ GetCreateStats(w, r)
                          /\ vptr' = [vptr EXCEPT ![w] = r]
    /\ Goto(w, "verdict")
    /\ UNCHANGED <<countVars, clientVars, lateVars, ptr, submits, replies>>

(* The verdict is counted in that record, without the lock. *)
RecordVerdict(w) ==
    /\ pc[w] = "verdict"
    /\ counts' = [counts EXCEPT ![vptr[w]][verdict[w]] = @ + 1]
    /\ credits' = [credits EXCEPT ![vptr[w]] = @ \cup {w}]
    /\ Goto(w, "total")
    /\ UNCHANGED <<tableVars, overall, clientVars, lateVars, ptr, vptr, verdict, submits, replies>>

(* Then in sh.overall; the miner is answered unless the block was          *)
(* accepted, and submit returns nil in every case.                         *)
OverallVerdict(w) ==
    /\ pc[w] = "total"
    /\ overall' = [overall EXCEPT ![verdict[w]] = @ + 1]
    /\ replies' = [replies EXCEPT ![w] = IF verdict[w] = "blocks" THEN @ ELSE @ + 1]
    /\ vptr' = [vptr EXCEPT ![w] = Nil]
    /\ verdict' = [verdict EXCEPT ![w] = "none"]
    /\ Goto(w, "record")
    /\ UNCHANGED <<tableVars, counts, credits, clientVars, lateVars, ptr, submits>>

(* stats.SharesFound.Add(1), through the pointer obtained at the start. *)
RecordShare(w) ==
    /\ pc[w] = "record"
    /\ counts' = [counts EXCEPT ![ptr[w]]["shares"] = @ + 1]
    /\ credits' = [credits EXCEPT ![ptr[w]] = @ \cup {w}]
    /\ Goto(w, "overall")
    /\ UNCHANGED <<tableVars, overall, clientVars, lateVars, ptr, vptr, verdict, submits, replies>>

(* sh.overall.SharesFound.Add(1), and the reply Result: true. *)
RecordOverall(w) ==
    /\ pc[w] = "overall"
    /\ overall' = [overall EXCEPT !["shares"] = @ + 1]
    /\ replies' = [replies EXCEPT ![w] = @ + 1]
    /\ ptr' = [ptr EXCEPT ![w] = Nil]
    /\ Goto(w, "idle")
    /\ UNCHANGED <<tableVars, counts, credits, clientVars, lateVars, vptr, verdict, submits>>

HandleSubmit(w) == \/ Submit(w) \/ PlainShare(w) \/ SubmitBlock(w)
                   \/ RecordVerdict(w) \/ OverallVerdict(w)
                   \/ RecordShare(w) \/ RecordOverall(w)

Next == \E w \in Workers : Authorize(w) \/ LateCall(w) \/ HandleSubmit(w)

Spec == Init /\ [][Next]_vars

-----------------------------------------------------------------------------

(* Every variable has its type; a reader in the middle of a share holds    *)
(* the records it is going to count it in.                                 *)
TypeOK ==
    /\ addr \in [Workers -> Addrs]
    /\ stats \in [Keys -> Records \cup {Nil}]
    /\ made \in 0 .. MaxRecords
    /\ rowName \in [Records -> Keys]
    /\ counts \in [Records -> [Counters -> Nat]]
    /\ overall \in [Counters -> Nat]
    /\ deviceName \in [Workers -> Names \cup {NoName}]
    /\ pending \in [Workers -> BOOLEAN]
    /\ statsLock \in Workers \cup {Nobody}
    /\ at \in {"free", "byName", "byAddr", "store"}
    /\ hand \in Records \cup {Nil}
    /\ seen \in Names \cup {NoName}
    /\ pc \in [Workers -> {"idle", "pow", "verdict", "total", "record", "overall"}]
    /\ ptr \in [Workers -> Records \cup {Nil}]
    /\ vptr \in [Workers -> Records \cup {Nil}]
    /\ verdict \in [Workers -> Verdicts \cup {"none"}]
    /\ submits \in 0 .. MaxSubmits
    /\ replies \in [Workers -> Nat]
    /\ credits \in [Records -> SUBSET Workers]
    /\ named \in [Workers -> SUBSET (Names \cup {NoName})]
    /\ at = "free" <=> statsLock = Nobody
    /\ at = "store" <=> hand # Nil
    /\ \A w \in Workers : /\ ptr[w] # Nil <=> pc[w] # "idle"
                          /\ vptr[w] # Nil <=> pc[w] \in {"verdict", "total"}
                          /\ verdict[w] # "none" <=> pc[w] \in {"verdict", "total"}

(* However the calls of getCreateStats interleave, a record is under one   *)
(* key at most, and under none while a late call has it: the table the     *)
(* stats thread prints never has two lines for one record.                 *)
NoRecordTwice ==
    \A k \in Keys : stats[k] # Nil =>
       stats[k] # hand /\ \A j \in Keys : stats[j] = stats[k] => j = k

(* The name a line shows (stats.DeviceName) is its key, or both are names  *)
(* one client has had: the late call writes the name and the key from two  *)
(* reads of ctx.DeviceName(), but never names of two clients.              *)
ShowsAName ==
    \A k \in Keys : stats[k] # Nil /\ rowName[stats[k]] # k =>
       \E w \in Workers : {rowName[stats[k]], k} \subseteq named[w] \cup {NoName}

(* What the lines of a table show for a counter, counted one by one. *)
Lines(table, numbers, c) ==
    UNION {{k} \X (1 .. numbers[table[k]][c]) : k \in {k \in Keys : table[k] # Nil}}

TableSum(c) == Cardinality(Lines(stats, counts, c))

(* The clients whose reader has counted in the record and not in the total.*)
Flying(c) == {w \in Workers : \/ c = "shares" /\ pc[w] = "overall"
                              \/ c = verdict[w] /\ pc[w] = "total"}

Filed(r) == hand = r \/ \E k \in Keys : stats[k] = r

(* Whenever the stats thread may print, the lines of a counter add up to   *)
(* at most the total below them and what is being counted at that moment,  *)
(* and to exactly that as long as no record that was credited has been     *)
(* dropped from the table: nothing is counted twice.                       *)
TableAddsUp ==
    at = "free" => \A c \in Counters :
       LET total == overall[c] + Cardinality(Flying(c))
       IN  /\ TableSum(c) <= total
           /\ (\A r \in Records : credits[r] # {} => Filed(r)) => TableSum(c) = total

(* A record is dropped from the table in two ways only: it was under the   *)
(* empty name and another one is put there, or a late call whose client    *)
(* was renamed since the look-up stores over it.  So a call of             *)
(* getCreateStats never overwrites what it would have found, and a record  *)
(* it takes out it puts back, behind whatever address the client is.       *)
RecordsStayFiled ==
    [][\A r \in Records : Filed(r) /\ ~Filed(r)' =>
          \/ stats[NoName] = r
          \/ /\ at = "store" /\ stats[deviceName[statsLock]] = r
             /\ deviceName[statsLock] # seen]_vars

(* Nobody shares an address with another client. *)
OwnAddresses == \A v, w \in Workers : addr[v] = addr[w] => v = w

(* A record filed under a device name counts only what clients that        *)
(* authorized with that name submitted, although it is first filed under   *)
(* an address and found again through it ("no worker name, check by remote *)
(* address" in getCreateStats).                                            *)
CreditedByName ==
    \A d \in Names : stats[d] # Nil =>
       \A w \in credits[stats[d]] : d \in named[w]

(* Clients with an address of their own are credited in their records,     *)
(* also when they are renamed in the middle of a late call.                *)
CreditedToOwner == OwnAddresses => CreditedByName

(* The comment in submit and temp_kasp_submit: HandleSubmit handles the    *)
(* response to the client when the block was accepted (nil is returned);   *)
(* so a share is answered once.                                            *)
OneReplyPerSubmit == \A w \in Workers : replies[w] <= 1

=============================================================================
