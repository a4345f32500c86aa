------------------------------- MODULE JobWindow -------------------------------
(***************************************************************************)
(* What a client's mining state promises (prom/mining_state.go), without   *)
(* its ring and its counter: AddJob gives every job the next id, and       *)
(* GetJob finds the jobs of the last Size ids.                             *)
(***************************************************************************)
EXTENDS Integers

CONSTANTS Jobs,  \* the jobs that may be added
          Size   \* how many jobs are kept

VARIABLES newest,  \* the last id that was given to a job
          found    \* what GetJob finds, by id

windowVars == <<newest, found>>

(* The ids that are kept when the newest is k. *)
Recent(k) == {i \in 1 .. k : i > k - Size}

WindowInit == newest = 0 /\ found = [i \in Recent(0) |-> 0]

Add(job) == /\ newest' = newest + 1
            /\ found' = [i \in Recent(newest') |->
                            IF i = newest' THEN job ELSE found[i]]

WindowNext == \E job \in Jobs : Add(job)

WindowSafety == WindowInit /\ [][WindowNext]_windowVars

=============================================================================
