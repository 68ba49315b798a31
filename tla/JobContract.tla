---------------------------- MODULE JobContract ----------------------------
(***************************************************************************)
(* What the job queue promises to the code that enqueues (email.go,        *)
(* magic_link.go, notification.go), without instances, attempts or time:   *)
(* an accepted job is never lost, it is completed only after its handler   *)
(* has returned nil, and its outcome is final unless the queue had once    *)
(* given up waiting for a run of it.                                       *)
(***************************************************************************)
CONSTANT Jobs

VARIABLES
    phase,    \* "absent", "open", "completed" or "dead"
    done,     \* the handler has returned nil at least once
    revoked   \* a run of the job was given up as stale

contractVars == <<phase, done, revoked>>

ContractInit ==
    /\ phase = [j \in Jobs |-> "absent"]
    /\ done = [j \in Jobs |-> FALSE]
    /\ revoked = [j \in Jobs |-> FALSE]

Accept(j) ==
    /\ phase[j] = "absent"
    /\ phase' = [phase EXCEPT ![j] = "open"]
    /\ UNCHANGED <<done, revoked>>

\* A run takes effect: the only run of an open job, or one of several
\* overlapping runs of a job that was revoked.
Perform(j) ==
    /\ phase[j] = "open" \/ revoked[j]
    /\ done' = [done EXCEPT ![j] = TRUE]
    /\ UNCHANGED <<phase, revoked>>

Revoke(js) ==
    /\ \A j \in js : phase[j] = "open"
    /\ revoked' = [j \in Jobs |-> revoked[j] \/ j \in js]
    /\ UNCHANGED <<phase, done>>

\* An open job that was never revoked gets the outcome its runs earned.
Settle(j) ==
    /\ phase[j] = "open"
    /\ phase' = [phase EXCEPT ![j] = IF done[j] THEN "completed" ELSE "dead"]
    /\ UNCHANGED <<done, revoked>>

\* Overlapping runs of a revoked job report in any order and each report
\* replaces the last: the job can even be reopened.
Reconsider(j, outcome) ==
    /\ revoked[j]
    /\ outcome = "completed" => done[j]
    /\ phase' = [phase EXCEPT ![j] = outcome]
    /\ UNCHANGED <<done, revoked>>

ContractNext ==
    \/ \E j \in Jobs : Accept(j) \/ Perform(j) \/ Settle(j)
    \/ \E js \in SUBSET Jobs : Revoke(js)
    \/ \E j \in Jobs, outcome \in {"open", "completed", "dead"} :
          Reconsider(j, outcome)

ContractSpec == ContractInit /\ [][ContractNext]_contractVars

=============================================================================
