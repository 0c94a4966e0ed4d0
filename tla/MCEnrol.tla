------------------------------- MODULE MCEnrol -------------------------------
(***************************************************************************)
(* The enroll command beside the daemon, on one slot.                      *)
(***************************************************************************)
EXTENDS Enrol

VARIABLES
    cut,        \* a daemon died after it took the public rule down, which is still gone
    alone       \* no daemon is up in this behaviour

MCProcs == {"daemon", "cli"}

TakenDown(q) == mgr[q].pc \in {"del", "add"}

MCInit == Init /\ cut = FALSE /\ alone \in BOOLEAN

\* Bound of the instance: undos fail in the behaviours without a daemon, which
\* writes neither rows nor ports; beside a daemon they run.
UndosFail == alone \/ leftover' \subseteq {"paths"}

MCNext == /\ Next /\ UndosFail
          /\ alone => phase' = "down"
          /\ cut' = /\ "ours" \notin public'
                    /\ cut \/ (TakenDown("daemon") /\ mgr'["daemon"] = IdleManager)
          /\ UNCHANGED alone

mcVars == <<vars, cut, alone>>
MCSpec == MCInit /\ [][MCNext]_mcVars

\* A manager brings the rules of the slot up behind the public rule, or while
\* another process has taken that down to put it back, or has died doing so
\* (ErrGlobalNotReady, netcfg/linux/manager.go: each manager checks the rule
\* once and then trusts the node).
ManagerKeepsOrder ==
    [][ \A p \in Procs : (mgr[p].pc \in {"udev", "reload"} /\ "rules" \in plumb' \ plumb /\ mgr'[p] # IdleManager)
            => "ours" \in public \/ cut \/ \E q \in Procs : TakenDown(q) ]_mcVars
=============================================================================
