-------------------------- MODULE MCRotationVerdict --------------------------
(***************************************************************************)
(* A rotation under the production policy of config.Default, in units of   *)
(* five seconds (what is shorter, and the hold of six, counts as one), the *)
(* fence it works behind, and the probe it measures with, in seconds.  A   *)
(* behaviour is one of one of them; EgressProbe shows the probe to keep    *)
(* within the time RotationVerdict gives it.                               *)
(***************************************************************************)
EXTENDS RotationVerdict, EgressProbe, EgressFilter

VARIABLE part       \* what this behaviour is about

verdictVars == <<vars, probeVars, filterVars, part>>

Production == <<1, 3, 8>>
DefaultEchoEndpoints == <<"ipify", "ifconfig", "icanhazip">>

\* What stands still has one beginning.
Calm == job = "probe" /\ ~creds /\ route = "slot" /\ \A i \in DOMAIN echoes : echoes[i] = "up"
        /\ \A s \in DOMAIN gate : gate[s] = "open"

MCVerdictInit ==
    /\ part \in {"rotation", "probe", "fence"} /\ Init /\ ProbeInit /\ FilterInit
    /\ part # "probe" => Calm
    /\ part # "rotation" => public = "a"

MCVerdictNext ==
    /\ UNCHANGED part
    /\ \/ part = "rotation" /\ Next /\ UNCHANGED <<probeVars, filterVars>>
       \/ part = "probe" /\ ProbeNext /\ UNCHANGED <<vars, filterVars>>
       \/ part = "fence" /\ FilterNext /\ UNCHANGED <<vars, probeVars>>

MCVerdictSpec == MCVerdictInit /\ [][MCVerdictNext]_verdictVars
-----------------------------------------------------------------------------
(* The slot is cut off while it is fenced (fw/sockdestroy.go and           *)
(* conntrack.go behind the fence of Engine.cycle), and at any time only    *)
(* what the ruleset means to let out gets out.                             *)
EgressIsContained == part = "fence" => FenceHolds /\ OnlyWhatIsMeant
==============================================================================
