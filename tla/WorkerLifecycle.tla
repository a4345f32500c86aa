--------------------------- MODULE WorkerLifecycle ---------------------------
(***************************************************************************)
(* What the listener promises of a client, whatever the goroutines of the  *)
(* connection do: it is accepted once, it is marked as disconnecting once, *)
(* it leaves the registry only after that, and it never comes back.  While *)
(* the server serves, a client that is closing is eventually removed.      *)
(***************************************************************************)
CONSTANT Client

VARIABLES phase,    \* phase of every client
          serving   \* the listener still handles disconnects

lifeVars == <<phase, serving>>

Phases == {"new", "live", "closing", "gone"}

LifeInit == /\ phase = [c \in Client |-> "new"]
            /\ serving = TRUE

Move(c, from, to) == /\ phase[c] = from
                     /\ phase' = [phase EXCEPT ![c] = to]
                     /\ UNCHANGED serving

Accept(c) == Move(c, "new", "live")
Close(c)  == Move(c, "live", "closing")
Remove(c) == serving /\ Move(c, "closing", "gone")
Shutdown  == serving' = FALSE /\ UNCHANGED phase

LifeNext == \/ \E c \in Client : Accept(c) \/ Close(c) \/ Remove(c)
            \/ Shutdown

LifeSafety == LifeInit /\ [][LifeNext]_lifeVars

LifeSpec == LifeSafety /\ \A c \in Client : WF_lifeVars(Remove(c))

=============================================================================
