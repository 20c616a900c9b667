---------------------------- MODULE MCScheduler ----------------------------
(***************************************************************************)
(* Instances of Scheduler small enough for TLC.                            *)
(***************************************************************************)
EXTENDS Scheduler, TLC

\* Replicas that may all die, or none, are interchangeable.
Symmetry == Permutations(Workers)

CONSTANT d1

NoPuts == {}

\* An operator switches the trigger, and disables the schedule.
SwitchAll ==
    {[enabled |-> TRUE, trigger |-> t, upstream |-> d1] : t \in {"cron", "upstream"}}
    \cup {[enabled |-> FALSE, trigger |-> "cron", upstream |-> d1]}
=============================================================================
