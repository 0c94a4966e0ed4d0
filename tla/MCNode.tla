------------------------------- MODULE MCNode -------------------------------
(***************************************************************************)
(* What the daemon does for one slot, checked in one run: the sweep of the *)
(* host (SlotSweep) and the recovery of the dongle (SlotRecovery).  The    *)
(* two share no state here.  A behaviour is one of one of them, the other  *)
(* stays as it begins.                                                     *)
(***************************************************************************)
EXTENDS SlotSweep, SlotRecovery

VARIABLE part       \* the component this behaviour is about

nodeVars == <<SweepVars, recVars, part>>

NodeTypesOK ==
    /\ part \in {"sweep", "recovery"}
    /\ SweepTypeOK /\ RecTypeOK

\* Each component begins in any of its states when the behaviour is about it,
\* and in one of them when it is not.
MCNodeInit ==
    /\ part \in {"sweep", "recovery"}
    /\ SweepInit /\ rows = EnrolledRows /\ (part = "sweep" \/ Verified)
    /\ RecInit /\ (part = "recovery" \/ device.state = "connected")

SweepPart == part = "sweep" /\ UNCHANGED <<recVars, part>>
RecoveryPart == part = "recovery" /\ UNCHANGED <<SweepVars, part>>

MCNodeNext ==
    \/ SweepPart /\ SweepNext
    \/ RecoveryPart /\ RecNext

\* The fairness of each component, while the behaviour is about it.
MCNodeFairness ==
    /\ WF_SweepVars(SweepPart /\ DaemonNext) /\ WF_SweepVars(SweepPart /\ SweepOutside /\ hostCalm')
    /\ WF_recVars(RecoveryPart /\ RecSweep) /\ SF_recVars(RecoveryPart /\ Tick)
    /\ WF_recVars(RecoveryPart /\ OpEnds) /\ WF_recVars(RecoveryPart /\ Midnight)

MCNodeSpec == MCNodeInit /\ [][MCNodeNext]_nodeVars /\ MCNodeFairness

\* HostHeals, of the behaviours that are about the host (Plan, Actuator.Apply).
NodeHeals == part = "sweep" => HostHeals
=============================================================================
