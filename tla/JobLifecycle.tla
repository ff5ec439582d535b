---------------------------- MODULE JobLifecycle ----------------------------
(***************************************************************************)
(* What the job queue promises a producer: a submitted job is open until   *)
(* it is closed exactly once - done, failed or cancelled; its handler is   *)
(* started at most as often as its budget says; it is done only if it was  *)
(* started.  A run that lost its lease may still start after the job was   *)
(* closed: the promise is about the outcome, not about the last start.     *)
(***************************************************************************)
EXTENDS Integers

CONSTANTS Jobs
VARIABLES phase, budget, starts

lifeVars == <<phase, budget, starts>>

Closed == {"done", "failed", "cancelled"}

LifeInit ==
  /\ phase = [j \in Jobs |-> "absent"]
  /\ budget = [j \in Jobs |-> 1]
  /\ starts = [j \in Jobs |-> 0]

Submit(j) ==
  /\ phase[j] = "absent"
  /\ phase' = [phase EXCEPT ![j] = "open"]
  /\ budget'[j] \in Nat \ {0}
  /\ budget' = [budget EXCEPT ![j] = budget'[j]]
  /\ UNCHANGED starts

Start(j) ==
  /\ phase[j] # "absent"
  /\ starts[j] < budget[j]
  /\ starts' = [starts EXCEPT ![j] = @ + 1]
  /\ UNCHANGED <<phase, budget>>

\* The reaper closes several jobs in one statement.
Close ==
  /\ phase' \in [Jobs -> Closed \cup {"absent", "open"}]
  /\ \A j \in Jobs : phase'[j] # phase[j] =>
       /\ phase[j] = "open"
       /\ phase'[j] \in Closed
       /\ phase'[j] = "done" => starts[j] > 0
  /\ UNCHANGED <<budget, starts>>

LifeNext == Close \/ \E j \in Jobs : Submit(j) \/ Start(j)

LifeSpec == LifeInit /\ [][LifeNext]_lifeVars
=============================================================================
