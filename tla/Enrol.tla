-------------------------------- MODULE Enrol --------------------------------
(***************************************************************************)
(* The enroll command (cmd/dongled/cmd_enroll.go, internal/enroll): one    *)
(* dongle in its factory state into one slot, a step after the other, each *)
(* with its undo pushed on the stack once the step is over; while the      *)
(* daemon, another process with another manager, goes on sweeping.         *)
(***************************************************************************)
EXTENDS SlotSweep

ASSUME EnrolAssumption == {"daemon", "cli"} \subseteq Procs

VARIABLES
    at,         \* where the command is
    undo,       \* session.rollback
    dev,        \* the dongle: its LAN (factory or slot), idle timeout disabled
    off,        \* the USB ports of the other dongles are disabled
    before,     \* history: the rows when the command began
    leftover    \* history: what the command will not put back: undos of rows,
                \* ports and process that failed, paths of a slot written over

cli  == <<at, undo, dev, off, before, leftover>>
vars == <<net, table, px, sweep, cli>>

Undos == {"ports", "netcfg", "fw", "dongle", "slot", "attach", "row", "proxy"}
Stages == {"idle", "global", "firewall", "guard", "ports", "link", "check", "netcfg", "moved", "rediscover",
           "max_idle", "admit", "fw", "slot", "attach", "row", "apply", "selftest",
           "unwind", "failed", "refused", "done", "over"}

EnrolTypeOK ==
    /\ SweepTypeOK
    /\ at \in Stages
    /\ undo \in Seq(Undos) /\ Len(undo) <= Cardinality(Undos)
    /\ dev \in [lan: {"factory", "slot"}, idle: BOOLEAN]
    /\ off \in BOOLEAN /\ before \in Rows /\ leftover \subseteq Undos \cup {"paths"}

Init ==
    /\ SweepInit /\ rows \in {{}, {"slot"}}
    /\ at = "idle" /\ undo = <<>> /\ off = FALSE /\ before = rows
    /\ leftover = {}
    /\ dev = [lan |-> "factory", idle |-> FALSE]

Others == UNCHANGED <<net, table, px, sweep, leftover>>
\* The next stage, with an undo or without.
Then(s)      == at' = s /\ UNCHANGED undo
Push(u, s)   == at' = s /\ undo' = Append(undo, u)
Fail         == at' = "unwind" /\ UNCHANGED undo
Ok           == Idle("cli") /\ mgr["cli"].res = "ok"
Err          == Idle("cli") /\ mgr["cli"].res = "error"
-----------------------------------------------------------------------------
(* Before the enrolment: enrollCmd.run.                                    *)

EnrollCmd ==
    /\ at = "idle" /\ EnsureNames("cli")
    /\ Then(IF mgr'["cli"].res = "ok" THEN "global" ELSE "refused")
    /\ UNCHANGED <<table, px, sweep, dev, off, before, leftover>>

EnrollCmdGlobal ==
    /\ at = "global" /\ EnsureGlobal("cli") /\ Then("firewall")
    /\ UNCHANGED <<table, px, sweep, dev, off, before, leftover>>

\* buildFirewall verifies the table; Enroll inserts the operation.
EnrollBegins ==
    /\ at = "firewall"
    /\ \/ Ok /\ Verified /\ op # "live" /\ op' = "live" /\ before' = rows /\ Then("guard")
       \/ /\ Err \/ (Ok /\ (~Verified \/ op = "live" \/ Fails("nft") \/ Fails("database")))
          /\ Then("refused") /\ UNCHANGED <<op, before>>
    /\ UNCHANGED <<net, rows, px, sweep, dev, off, leftover>>

\* Operations().Finish of the two ends, whose error is dropped.
Finish == op' = (IF op = "live" THEN "finished" ELSE op) \/ (Fails("database") /\ UNCHANGED op)
-----------------------------------------------------------------------------
(* The checks of Enroller.run.                                             *)

\* AddressConflicts of one dongle: a provisioned name on the factory network.
AddressConflicts == link = "dg" /\ dev.lan = "factory"

\* CheckAddresses: the first conflict ends the enrolment.
CheckAddresses == ~AddressConflicts

\* FactoryDefaultIface.
FactoryDefault == link # "gone" /\ dev.lan = "factory"

\* Enroller.run, on the first observation.
GuardAddresses ==
    /\ at = "guard"
    /\ \/ CheckAddresses /\ Then("ports")
       \/ (~CheckAddresses \/ Fails("netlink")) /\ Fail
    /\ UNCHANGED <<dev, off, before>> /\ Others

\* guardPorts: a port that cannot be disabled has the others enabled again,
\* with no more luck perhaps.
GuardPorts ==
    /\ at = "ports"
    /\ \/ off' = TRUE /\ Push("ports", "link") /\ UNCHANGED leftover
       \/ Then("link") /\ UNCHANGED <<off, leftover>>
       \/ /\ Fails("device") /\ Fail
          /\ \/ UNCHANGED <<off, leftover>>
             \/ off' = TRUE /\ leftover' = leftover \cup {"ports"}
    /\ UNCHANGED <<net, table, px, sweep, dev, before>>

\* awaitLink until LinkWait; every event is followed by another CheckAddresses.
AwaitLink ==
    /\ at = "link"
    /\ \/ FactoryDefault /\ CheckAddresses /\ Then("check")
       \/ (~FactoryDefault \/ ~CheckAddresses \/ Fails("netlink")) /\ Fail
    /\ UNCHANGED <<dev, off, before>> /\ Others

\* allocate: a slot without a row, or with a row that no dongle is attached to.
Allocates == "attached" \notin rows

\* login, SIM, identity and the slot.
CheckDongle ==
    /\ at = "check"
    /\ \/ FactoryDefault /\ Allocates /\ Then("netcfg")
       \/ (~FactoryDefault \/ ~Allocates \/ Fails("device") \/ Fails("database")) /\ Fail
    /\ UNCHANGED <<dev, off, before>> /\ Others
-----------------------------------------------------------------------------
(* The steps of run that change something.                                 *)

\* ApplySlot and AddDongle, and the stage that looks at the result.
EnrolNetcfg ==
    /\ \/ at = "netcfg" /\ ApplySlot("cli") /\ Then("moved")
       \/ at = "admit" /\ AddDongle("cli") /\ Then("fw")
    /\ UNCHANGED <<table, px, sweep, dev, off, before, leftover>>

\* moveLanIP.  The dongle stops answering at its old address whether or not it
\* took the new one; a firmware that cannot move is kept where it is.
MoveLanIP ==
    /\ at = "moved"
    /\ \/ Err /\ Fail /\ UNCHANGED dev
       \/ /\ Ok /\ link # "gone"
          /\ dev' = [dev EXCEPT !.lan = "slot"] /\ Push("netcfg", "rediscover")
       \/ Ok /\ Fails("device") /\ UNCHANGED dev /\ Push("netcfg", "rediscover")
       \/ Ok /\ link # "gone" /\ UNCHANGED dev /\ Push("netcfg", "max_idle")
       \/ Ok /\ (link = "gone" \/ Fails("device")) /\ UNCHANGED dev /\ Push("netcfg", "unwind")
    /\ UNCHANGED <<off, before>> /\ Others

Reachable == link = "dg" /\ (dev.lan = "slot" => "addr" \in plumb)

\* rediscover at the address of the slot.
RediscoverSlot ==
    /\ at = "rediscover"
    /\ \/ Reachable /\ dev.lan = "slot" /\ Then("max_idle")
       \/ (~Reachable \/ dev.lan = "factory" \/ Fails("device")) /\ Fail
    /\ UNCHANGED <<dev, off, before>> /\ Others

\* What was set is not read back.
Bug_DisableMaxIdle ==
    /\ at = "max_idle" /\ Then("admit")
    /\ UNCHANGED <<dev, off, before>> /\ Others

\* disableMaxIdle: set, and read back.
DisableMaxIdle ==
    /\ at = "max_idle"
    /\ \/ link # "gone" /\ dev' = [dev EXCEPT !.idle = TRUE] /\ Then("admit")
       \/ (link = "gone" \/ Fails("device")) /\ UNCHANGED dev /\ Fail
    /\ UNCHANGED <<off, before>> /\ Others

\* publish: the dongle row, after the firewall.
CreateDongle ==
    /\ at = "fw"
    /\ \/ /\ Ok /\ "dongle" \notin rows
          /\ rows' = rows \cup {"dongle"} /\ at' = "slot" /\ undo' = undo \o <<"fw", "dongle">>
       \/ Ok /\ ("dongle" \in rows \/ Fails("database")) /\ UNCHANGED rows /\ Push("fw", "unwind")
       \/ Err /\ UNCHANGED rows /\ Fail
    /\ UNCHANGED <<net, op, px, sweep, dev, off, before, leftover>>

\* upsertSlot: a row that was there gets the paths of this dongle, for good.
UpsertSlot ==
    /\ \/ /\ at = "slot" /\ "slot" \in rows /\ UNCHANGED rows /\ Then("attach")
          /\ leftover' = leftover \cup {"paths"}
       \/ /\ at = "slot" /\ "slot" \notin rows /\ rows' = rows \cup {"slot"} /\ Push("slot", "attach")
          /\ UNCHANGED leftover
       \/ at = "attach" /\ rows' = rows \cup {"attached"} /\ Push("attach", "row") /\ UNCHANGED leftover
       \/ at \in {"slot", "attach"} /\ Fails("database") /\ UNCHANGED <<rows, leftover>> /\ Fail
    /\ UNCHANGED <<net, op, px, sweep, dev, off, before>>

\* The proxy row has no undo.
Bug_CreateProxy ==
    /\ at = "row" /\ "proxy" \notin rows /\ rows' = rows \cup {"proxy"} /\ Then("apply")
    /\ UNCHANGED <<net, op, px, sweep, dev, off, before, leftover>>

\* publish: the proxy row, one for a slot.
CreateProxy ==
    /\ at = "row"
    /\ \/ "proxy" \notin rows /\ rows' = rows \cup {"proxy"} /\ Push("row", "apply")
       \/ ("proxy" \in rows \/ Fails("database")) /\ UNCHANGED rows /\ Fail
    /\ UNCHANGED <<net, op, px, sweep, dev, off, before, leftover>>

\* publish: Supervisor.Apply, which puts back what it found when it fails.
ApplyProxy ==
    /\ at = "apply"
    /\ \/ EgressReady(Observation) /\ px' = TRUE /\ Push("proxy", "selftest")
       \/ (~EgressReady(Observation) \/ Fails("device")) /\ UNCHANGED px /\ Fail
    /\ UNCHANGED <<net, table, sweep, dev, off, before, leftover>>

\* The selftest, which the command may have been told to leave out.
SelftestMayFail == Fails("device") \/ dev.lan = "factory" \/ plumb # Plumbing

\* releasePorts enables what it can.
ReleasePorts == off' = FALSE \/ (Fails("device") /\ UNCHANGED off)

\* Success drops the stack.
SelftestAndRelease ==
    /\ at = "selftest"
    /\ \/ Finish /\ at' = "done" /\ undo' = <<>> /\ ReleasePorts
       \/ SelftestMayFail /\ Fail /\ UNCHANGED <<op, off>>
    /\ UNCHANGED <<net, rows, px, sweep, dev, before, leftover>>
-----------------------------------------------------------------------------
(* unwind: the stack from its top, every error ignored, then Finish.       *)

\* The undo u is the last one on the stack.
Unwinds(u) ==
    /\ at = "unwind" /\ Idle("cli") /\ undo # <<>> /\ undo[Len(undo)] = u
    /\ undo' = SubSeq(undo, 1, Len(undo) - 1) /\ at' = at

UndoCall ==
    /\ \/ Unwinds("netcfg") /\ RemoveSlot("cli")
       \/ Unwinds("fw") /\ RemoveDongle("cli")
    /\ UNCHANGED <<table, px, sweep, dev, off, before, leftover>>

\* The undo u runs, or fails, and is not run again.
Undone      == UNCHANGED leftover
NotUndone(u) == leftover' = leftover \cup {u}

\* What the undo of a row takes away: a dongle leaves its slot with its row, a
\* slot takes its proxy along (ON DELETE SET NULL, ON DELETE CASCADE).
Takes == [dongle |-> {"dongle", "attached"}, slot |-> {"slot", "attached", "proxy"},
          attach |-> {"attached"}, row |-> {"proxy"}]

UndoRow ==
    /\ \E u \in DOMAIN Takes :
        /\ Unwinds(u)
        /\ \/ rows' = rows \ Takes[u] /\ Undone
           \/ Fails("database") /\ UNCHANGED rows /\ NotUndone(u)
    /\ UNCHANGED <<net, op, px, sweep, dev, off, before>>

\* Supervisor.Stop may fail after the process has been stopped.
UndoProxy ==
    /\ Unwinds("proxy")
    /\ \/ px' = FALSE /\ Undone
       \/ Fails("device") /\ px' \in {px, FALSE} /\ NotUndone("proxy")
    /\ UNCHANGED <<net, table, sweep, dev, off, before>>

UndoPorts ==
    /\ Unwinds("ports")
    /\ \/ off' = FALSE /\ Undone
       \/ Fails("device") /\ UNCHANGED off /\ NotUndone("ports")
    /\ UNCHANGED <<net, table, px, sweep, dev, before>>

EnrolFails ==
    /\ at = "unwind" /\ undo = <<>> /\ Idle("cli")
    /\ Finish /\ Then("failed")
    /\ UNCHANGED <<net, rows, px, sweep, dev, off, before, leftover>>

\* The command has ended; it is not run again.
CliEnds ==
    /\ at \in {"failed", "done", "refused"} /\ Then("over")
    /\ leftover' = {}
    /\ UNCHANGED <<net, table, px, sweep, dev, off, before>>

Unwind == UndoCall \/ UndoRow \/ UndoProxy \/ UndoPorts \/ EnrolFails

CliStep == ManagerStep("cli") /\ UNCHANGED <<table, px, sweep, cli>>

Cli == \/ EnrollCmd \/ EnrollCmdGlobal \/ EnrollBegins
       \/ GuardAddresses \/ GuardPorts \/ AwaitLink \/ CheckDongle
       \/ EnrolNetcfg \/ MoveLanIP \/ RediscoverSlot \/ DisableMaxIdle
       \/ CreateDongle \/ UpsertSlot \/ CreateProxy \/ ApplyProxy \/ SelftestAndRelease
       \/ Unwind \/ CliEnds \/ CliStep

Sweeping == DaemonNext /\ UNCHANGED cli

\* The host starts again and the command is gone; the Recover of the daemon
\* that starts fails its operation.
Reboot ==
    /\ NodeReboots
    /\ at' = "over" /\ undo' = <<>> /\ leftover' = {} /\ UNCHANGED <<dev, off, before>>

\* Only safety is asked of the command, so faults never stop (hostCalm); that
\* somebody takes the table away under a command that runs is left out.
Outside ==
    \/ (RuleLost \/ RuleAdded \/ LoadTable) /\ UNCHANGED <<table, px, sweep, cli>>
    \/ (Unplugged \/ PluggedIn) /\ UNCHANGED <<table, px, sweep, cli>>
    \/ DaemonRestarts /\ UNCHANGED cli
    \/ Reboot

Next == Cli \/ Sweeping \/ Outside

Spec == Init /\ [][Next]_vars
-----------------------------------------------------------------------------
\* A successful enrolment has everything in place at the moment it reports it.
EnrolledIsWhole ==
    [][ at # "done" /\ at' = "done" =>
            /\ rows = {"slot", "dongle", "attached", "proxy"} /\ dev.idle /\ px
            /\ files = {"net", "link"} /\ sets = Ruleset ]_vars

\* A failed one has lost no row that was there, and each row it leaves behind
\* is one that all the undos that take it away have failed on; ports stay
\* disabled only if enabling them failed.  So without a failing undo rows and
\* ports are what they were, whatever failed before and whatever the daemon
\* did meanwhile (unwind; the paths of a slot row that was there are not asked
\* about, nothing puts them back).
RollbackRestoresTheTables ==
    at = "failed" =>
        /\ before \subseteq rows
        /\ \A r \in rows \ before, u \in DOMAIN Takes :
               r \in Takes[u] => u \in leftover \/ (u = "slot" /\ "slot" \in before)
        /\ off => "ports" \in leftover

-----------------------------------------------------------------------------
(* What a document, a test or the panel counts on and the code does not do *)
(* (README, "Known disagreements").                                        *)

\* Nothing is left of the failed enrolment of a new slot (docs/INSTALL.md:287).
NeverHalfProvisioned ==
    at = "failed" /\ before = {} => rows = {} /\ ~off /\ files = {} /\ sets \subseteq {"table"} /\ ~px
=============================================================================
