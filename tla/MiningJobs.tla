------------------------------ MODULE MiningJobs ------------------------------
(***************************************************************************)
(* The mining state of one kaspa client (prom/mining_state.go) and the     *)
(* goroutines that use it at the same time: every new block starts one     *)
(* that runs GetNotifyParams (chainnode/node.go) and sends the job.        *)
(*                                                                         *)
(* Jobs are kept in a ring of MaxJobs slots by job id.  AddJob increments  *)
(* the counter and reads it back without the lock it takes for the ring.   *)
(* Initialized decides who sends mining.set_difficulty and chooses the     *)
(* layout of the jobs by the miner's name; it is tested and set without a  *)
(* lock too, while the reader may still be authorizing the client.         *)
(*                                                                         *)
(* A block template is known by the order in which it was fetched.  How a  *)
(* send fails, and what that does to the connection, is in WorkerConn.     *)
(***************************************************************************)
EXTENDS JobLayout

CONSTANTS MaxJobs,       \* maxjobs, 32 in the code
          Notifiers,     \* bound: goroutines in GetNotifyParams at a time
          MaxTemplates,  \* bound: templates fetched in a behaviour
          Headers,       \* bound: hashes of headers that are tried
          Timestamps     \* bound: timestamps that are tried

ASSUME JobsAssumption == MaxJobs \in Nat \ {0} /\ MaxTemplates \in Nat

(* A hash is so many bytes, and a timestamp is a uint64. *)
ASSUME WorkAssumption ==
    /\ Headers \subseteq [1 .. HeaderBytes -> Bytes]
    /\ Timestamps \subseteq {BigEndianUint64(w) : w \in [1 .. WordBytes -> Bytes]}

VARIABLES
    jobs,         \* ms.Jobs, by slot; NoBlock for a key that is not there
    jobCounter,   \* ms.JobCounter
    initialized,  \* state.Initialized
    stratumDiff,  \* state.StratumDiff # nil
    useBigJob,    \* state.UseBigJob
    authorizing,  \* how far HandleAuthorize is: "begin", "wallet", "done"
    bigMiner,     \* the miner's name will match bigJobRegex
    templates,    \* block templates fetched so far
    pc,           \* where notifier n is
    local,        \* local[n]: the counter as n read it for JobCounter++
    idx,          \* idx[n]: the id AddJob returns to n
    block,        \* block[n]: the template n fetched
    big,          \* big[n]: the layout that n has found
    sent,         \* the jobs sent with mining.notify: id, block and layout
    overlapped,   \* history: two calls of AddJob overlapped
    nameless,     \* history: a first pass read the name before it was set
    early         \* history: blocks fetched before the layout was chosen

layoutVars == <<useBigJob, big, nameless, early>>
clientVars == <<authorizing, bigMiner>>
vars == <<jobs, jobCounter, initialized, stratumDiff, templates, pc, local,
          idx, block, sent, overlapped, layoutVars, clientVars>>

Blocks == 1 .. MaxTemplates
NoBlock == 0
Slots == 0 .. MaxJobs - 1
Slot(id) == id % MaxJobs

(* Mutated form: the lookup has another modulus than the insertion. *)
GetJobOfSmallerRing(id) == jobs[id % IF MaxJobs > 1 THEN MaxJobs - 1 ELSE 1]

(* What GetJob finds for an id. *)
GetJob(id) == jobs[Slot(id)]

InAddJob(n) == pc[n] \in {"store", "reload", "put"}

Init == /\ jobs = [s \in Slots |-> NoBlock]
        /\ jobCounter = 0
        /\ initialized = FALSE /\ stratumDiff = FALSE
        /\ templates = 0
        /\ pc = [n \in Notifiers |-> "idle"]
        /\ local = [n \in Notifiers |-> 0]
        /\ idx = [n \in Notifiers |-> 0]
        /\ block = [n \in Notifiers |-> NoBlock]
        /\ sent = {} /\ overlapped = FALSE
        /\ authorizing = "begin" /\ bigMiner \in BOOLEAN
        /\ useBigJob = FALSE /\ big = [n \in Notifiers |-> FALSE]
        /\ nameless = FALSE /\ early = Blocks

Goto(n, state) == pc' = [pc EXCEPT ![n] = state]

(* The goroutine ends; its variables are gone. *)
End(n) == /\ Goto(n, "idle")
          /\ local' = [local EXCEPT ![n] = 0]
          /\ idx' = [idx EXCEPT ![n] = 0]
          /\ block' = [block EXCEPT ![n] = NoBlock]
          /\ big' = [big EXCEPT ![n] = FALSE]

(* HandleAuthorize, by the reader: first walletAddr is set, then minerName. *)
SetWalletAddr ==
    /\ authorizing = "begin"
    /\ authorizing' = "wallet"
    /\ UNCHANGED <<jobs, jobCounter, initialized, stratumDiff, templates, pc, local,
                   idx, block, sent, overlapped, layoutVars, bigMiner>>

SetMinerName ==
    /\ authorizing = "wallet"
    /\ authorizing' = "done"
    /\ UNCHANGED <<jobs, jobCounter, initialized, stratumDiff, templates, pc, local,
                   idx, block, sent, overlapped, layoutVars, bigMiner>>

(* GetBlockTemplate answers.  (When it fails, or the client has no wallet  *)
(* address yet, the goroutine ends without having changed anything here.)  *)
GetBlockTemplate(n) ==
    /\ pc[n] = "idle" /\ authorizing # "begin"
    /\ templates < MaxTemplates
    /\ templates' = templates + 1
    /\ block' = [block EXCEPT ![n] = templates']
    /\ Goto(n, "load")
    /\ UNCHANGED <<jobs, jobCounter, initialized, stratumDiff, local, idx, sent,
                   overlapped, layoutVars, clientVars>>

(* ms.JobCounter++, the read. *)
LoadCounter(n) ==
    /\ pc[n] = "load"
    /\ local' = [local EXCEPT ![n] = jobCounter]
    /\ overlapped' = (overlapped \/ \E m \in Notifiers : InAddJob(m))
    /\ Goto(n, "store")
    /\ UNCHANGED <<jobs, jobCounter, initialized, stratumDiff, templates, idx,
                   block, sent, layoutVars, clientVars>>

(* Mutated form: the id handed out is the one before the increment. *)
StoreCounterOldId(n) ==
    /\ pc[n] = "store"
    /\ jobCounter' = local[n] + 1
    /\ idx' = [idx EXCEPT ![n] = local[n]]
    /\ Goto(n, "put")
    /\ UNCHANGED <<jobs, initialized, stratumDiff, templates, local, block, sent,
                   overlapped, layoutVars, clientVars>>

(* ms.JobCounter++, the write.  idx := ms.JobCounter is a data race when   *)
(* another goroutine is here: the compiler may keep the value it wrote or  *)
(* read the counter again.                                                 *)
StoreCounter(n) ==
    /\ pc[n] = "store"
    /\ jobCounter' = local[n] + 1
    /\ \/ Goto(n, "put") /\ idx' = [idx EXCEPT ![n] = local[n] + 1]
       \/ Goto(n, "reload") /\ UNCHANGED idx
    /\ UNCHANGED <<jobs, initialized, stratumDiff, templates, local, block, sent,
                   overlapped, layoutVars, clientVars>>

ReloadCounter(n) ==
    /\ pc[n] = "reload"
    /\ idx' = [idx EXCEPT ![n] = jobCounter]
    /\ Goto(n, "put")
    /\ UNCHANGED <<jobs, jobCounter, initialized, stratumDiff, templates, local,
                   block, sent, overlapped, layoutVars, clientVars>>

(* ms.Jobs[idx%maxjobs] = job, under JobLock. *)
PutJob(n) ==
    /\ pc[n] = "put"
    /\ jobs' = [jobs EXCEPT ![Slot(idx[n])] = block[n]]
    /\ Goto(n, "init")
    /\ UNCHANGED <<jobCounter, initialized, stratumDiff, templates, local, idx,
                   block, sent, overlapped, layoutVars, clientVars>>

(* if !state.Initialized *)
CheckInitialized(n) ==
    /\ pc[n] = "init"
    /\ Goto(n, IF initialized THEN "params" ELSE "first")
    /\ UNCHANGED <<jobs, jobCounter, initialized, stratumDiff, templates, local,
                   idx, block, sent, overlapped, layoutVars, clientVars>>

(* state.Initialized = true *)
SetInitialized(n) ==
    /\ pc[n] = "first"
    /\ initialized' = TRUE
    /\ Goto(n, "name")
    /\ UNCHANGED <<jobs, jobCounter, stratumDiff, templates, local, idx, block,
                   sent, overlapped, layoutVars, clientVars>>

(* bigJobRegex.MatchString(client.MinerName()); no name matches nothing. *)
MatchMinerName(n) ==
    /\ pc[n] = "name"
    /\ big' = [big EXCEPT ![n] = (authorizing = "done" /\ bigMiner)]
    /\ nameless' = (nameless \/ authorizing # "done")
    /\ Goto(n, "layout")
    /\ UNCHANGED <<jobs, jobCounter, initialized, stratumDiff, templates, local, idx,
                   block, sent, overlapped, useBigJob, early, clientVars>>

(* Mutated form: the layout is that of the first pass alone. *)
SetUseBigJobLocally(n) ==
    /\ pc[n] = "layout"
    /\ UNCHANGED useBigJob
    /\ early' = IF early = Blocks THEN (1 .. templates) \ {block[n]} ELSE early
    /\ Goto(n, "diff")
    /\ UNCHANGED <<jobs, jobCounter, initialized, stratumDiff, templates, local, idx,
                   block, sent, overlapped, big, nameless, clientVars>>

(* state.UseBigJob = ...; history: other goroutines that have a block by   *)
(* now may already have tested UseBigJob.                                  *)
SetUseBigJob(n) ==
    /\ pc[n] = "layout"
    /\ useBigJob' = big[n]
    /\ early' = IF early = Blocks THEN (1 .. templates) \ {block[n]} ELSE early
    /\ Goto(n, "diff")
    /\ UNCHANGED <<jobs, jobCounter, initialized, stratumDiff, templates, local, idx,
                   block, sent, overlapped, big, nameless, clientVars>>

(* Mutated form: the new difficulty goes to a variable of its own. *)
SetStratumDiffShadowed(n) ==
    /\ pc[n] = "diff"
    /\ Goto(n, "sendDiff")
    /\ UNCHANGED <<jobs, jobCounter, initialized, stratumDiff, templates, local, idx,
                   block, sent, overlapped, layoutVars, clientVars>>

(* state.StratumDiff = NewKaspaDiff() *)
SetStratumDiff(n) ==
    /\ pc[n] = "diff"
    /\ stratumDiff' = TRUE
    /\ Goto(n, "sendDiff")
    /\ UNCHANGED <<jobs, jobCounter, initialized, templates, local, idx, block,
                   sent, overlapped, layoutVars, clientVars>>

(* client.Send of mining.set_difficulty; an error ends the goroutine and   *)
(* state.Initialized stays set.                                            *)
SendDifficulty(n) ==
    /\ pc[n] = "sendDiff"
    /\ \/ Goto(n, "params") /\ UNCHANGED <<local, idx, block, big>>
       \/ End(n)
    /\ UNCHANGED <<jobs, jobCounter, initialized, stratumDiff, templates, sent,
                   overlapped, useBigJob, nameless, early, clientVars>>

(* if state.UseBigJob: the parameters of the job. *)
BuildParams(n) ==
    /\ pc[n] = "params"
    /\ big' = [big EXCEPT ![n] = useBigJob]
    /\ Goto(n, "notify")
    /\ UNCHANGED <<jobs, jobCounter, initialized, stratumDiff, templates, local, idx,
                   block, sent, overlapped, useBigJob, nameless, early, clientVars>>

Job(n) == [id |-> idx[n], block |-> block[n], big |-> big[n]]

(* client.Send of mining.notify, which may fail. *)
SendJob(n) ==
    /\ pc[n] = "notify"
    /\ \/ sent' = sent \cup {Job(n)}
       \/ UNCHANGED sent
    /\ End(n)
    /\ UNCHANGED <<jobs, jobCounter, initialized, stratumDiff, templates,
                   overlapped, useBigJob, nameless, early, clientVars>>

AddJob(n) == LoadCounter(n) \/ StoreCounter(n) \/ ReloadCounter(n) \/ PutJob(n)

FirstPass(n) == \/ CheckInitialized(n) \/ SetInitialized(n) \/ MatchMinerName(n)
                \/ SetUseBigJob(n) \/ SetStratumDiff(n) \/ SendDifficulty(n)

Notifier(n) == \/ GetBlockTemplate(n) \/ AddJob(n) \/ FirstPass(n)
               \/ BuildParams(n) \/ SendJob(n)

Authorize == SetWalletAddr \/ SetMinerName

Next == Authorize \/ \E n \in Notifiers : Notifier(n)

Spec == Init /\ [][Next]_vars

-----------------------------------------------------------------------------

States == {"idle", "load", "store", "reload", "put", "init", "first", "name",
           "layout", "diff", "sendDiff", "params", "notify"}

(* Every variable has its type: in particular the id of a job that was     *)
(* sent is positive, even when increments of the counter are lost.         *)
TypeOK ==
    /\ jobs \in [Slots -> Blocks \cup {NoBlock}]
    /\ jobCounter \in Nat
    /\ initialized \in BOOLEAN /\ stratumDiff \in BOOLEAN
    /\ templates \in 0 .. MaxTemplates
    /\ pc \in [Notifiers -> States]
    /\ local \in [Notifiers -> Nat]
    /\ idx \in [Notifiers -> Nat]
    /\ block \in [Notifiers -> Blocks \cup {NoBlock}]
    /\ sent \subseteq [id : Nat \ {0}, block : Blocks, big : BOOLEAN]
    /\ overlapped \in BOOLEAN /\ nameless \in BOOLEAN
    /\ useBigJob \in BOOLEAN /\ big \in [Notifiers -> BOOLEAN]
    /\ authorizing \in {"begin", "wallet", "done"} /\ bigMiner \in BOOLEAN
    /\ early \subseteq Blocks

(* A share for one of the last MaxJobs jobs is checked against the block   *)
(* the miner was sent under that id (GetJob in validateSubmit), as long as *)
(* no two calls of AddJob overlapped: the counter is at most one ahead of  *)
(* the ring, and no id is given out twice.                                 *)
RecentJobResolves ==
    ~overlapped =>
      \A j \in sent : j.id > jobCounter - MaxJobs => GetJob(j.id) = j.block

(* The window a ring and its counter stand for: between the increment and  *)
(* the write to the ring, the job of the counter is not there yet.         *)
newestJob == IF \E n \in Notifiers : pc[n] \in {"reload", "put"}
             THEN jobCounter - 1 ELSE jobCounter

foundJobs == [i \in {i \in 1 .. newestJob : i > newestJob - MaxJobs} |-> GetJob(i)]

Window == INSTANCE JobWindow
            WITH Jobs <- Blocks, Size <- MaxJobs, newest <- newestJob, found <- foundJobs

(* Until two calls of AddJob overlap, the ring implements the window: a    *)
(* step of a goroutine adds the job it has under the next id and drops the *)
(* oldest, or changes nothing of what GetJob finds.                        *)
RingIsWindow ==
    /\ Window!WindowInit
    /\ [][overlapped' \/ Window!WindowNext]_(Window!windowVars)

(* Whoever has been sent work finds a difficulty to be credited with       *)
(* (HandleSubmit reads state.StratumDiff.HashValue), unless the goroutine  *)
(* that set Initialized has still to set StratumDiff.  This is about the   *)
(* bridge's own variable only: when mining.set_difficulty cannot be sent,  *)
(* the variable is set all the same and the miner is never told.           *)
DifficultyIsComing ==
    sent # {} => stratumDiff \/ \E n \in Notifiers : pc[n] \in {"name", "layout", "diff"}

(* A miner is sent its jobs in the layout it reads: the job of the first   *)
(* pass and those of all blocks fetched after UseBigJob was chosen.  Only  *)
(* goroutines that overtake the first pass, or a first pass that overtakes *)
(* the authorization of its client, can send the other one.                *)
LayoutSettles ==
    ~nameless => \A j \in sent : j.block \notin early => j.big = bigMiner

(* The layouts from which the miner reads the header and the timestamp the *)
(* job was made from, whatever they are.                                   *)
Readable == {b \in BOOLEAN :
    \A h \in Headers, t \in Timestamps : ReadJob(b, JobParams(b, h, t)) = <<h, t>>}

(* Nothing of a header is lost on the way to the miner, in neither layout: *)
(* no leading zero, and no byte out of its order.                          *)
JobIsComplete == \A j \in sent : j.big \in Readable

=============================================================================
