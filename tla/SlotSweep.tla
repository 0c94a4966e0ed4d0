------------------------------ MODULE SlotSweep ------------------------------
(***************************************************************************)
(* The sweep of the reconcile engine over the node and one slot            *)
(* (internal/reconcile): the rows as LoadDesired read them, the            *)
(* observation of the poll, and the actions of the plan one by one through *)
(* the manager of the daemon.  ProxyControl has the plan of a proxy in     *)
(* detail, SlotRecovery that of a dongle; here a proxy runs or does not.   *)
(***************************************************************************)
EXTENDS HostNet, Sequences

VARIABLES
    rows,       \* rows of the slot: the slot, a dongle, the link between them, a proxy
    px,         \* the 3proxy process of the slot runs
    op,         \* the live operation on the node, if any
    phase,      \* where the sweep is
    seen,       \* rows and operation as the sweep read them
    cache,      \* what the last poll observed
    todo        \* actions of the plan still to apply

table == <<rows, op>>
sweep == <<phase, seen, cache, todo>>

Rows == SUBSET {"slot", "dongle", "attached", "proxy"}
Blind == [public |-> FALSE, names |-> FALSE, link |-> "gone", plumb |-> {}]
NoRows == [rows |-> {}, busy |-> FALSE]

SweepTypeOK ==
    /\ HostTypeOK
    /\ rows \in Rows /\ px \in BOOLEAN
    /\ op \in {"none", "live", "finished", "stalled"}
    /\ phase \in {"down", "rest", "poll", "act"}
    /\ seen \in [rows: Rows, busy: BOOLEAN]
    /\ cache \in [public: BOOLEAN, names: BOOLEAN, link: {"gone", "raw", "dg"}, plumb: SUBSET Plumbing]
    /\ todo \in Seq({"names", "global", "slot", "fw", "stop", "start"}) /\ Len(todo) <= 5

SweepInit ==
    /\ HostInit
    /\ px = FALSE /\ op = "none"
    /\ phase = "down" /\ seen = NoRows /\ cache = Blind /\ todo = <<>>

\* LoadDesired, and LoadActiveOps of the operation row o.
LoadDesired(o) == [rows |-> rows, busy |-> o = "live"]

\* Engine.Once up to the poll, with MarkStalled between the two.
SweepLoad ==
    /\ phase = "rest" /\ phase' = "poll"
    /\ \E late \in BOOLEAN :
        /\ late => op = "live" /\ Fails("device")
        /\ op' = IF late THEN "stalled" ELSE op
        /\ seen' = LoadDesired(op')
    /\ UNCHANGED <<net, rows, px, cache, todo>>

\* egressReady.
EgressReady(o) == o.link = "dg" /\ o.plumb = Plumbing

\* The node is left alone.
Bug_PlanNode(o) == <<>>

\* planNode: some rule at priority 900 will do.
PlanNode(o) ==
    IF (o.public /\ o.names) \/ seen.busy THEN <<>> ELSE <<"names", "global">>

\* planSlot: netcfg, then the firewall if its table is there, then the proxy.
PlanSlot(o, present, known) ==
    LET when(c, a) == IF c THEN <<a>> ELSE <<>>
        ready == EgressReady(o)
    IN  IF "slot" \notin seen.rows THEN <<>>
        ELSE when(~ready, "slot")
             \o when(o.link = "dg" /\ present /\ ~known, "fw")
             \o when("proxy" \in seen.rows /\ "attached" \notin seen.rows /\ px, "stop")
             \o when("proxy" \in seen.rows /\ "attached" \in seen.rows /\ ready /\ ~px, "start")

Plan(o, present, known) == PlanNode(o) \o PlanSlot(o, present, known)

\* Poller.Sweep and Plan: an Observe that fails keeps the last observation; a
\* table that cannot be verified is not there (NftTablePresent), a set that
\* cannot be read is a dongle the firewall does not know.
SweepPoll ==
    /\ phase = "poll" /\ phase' = "act"
    /\ \E o \in {Observation, cache}, present \in BOOLEAN, known \in BOOLEAN :
        /\ o = Observation \/ Fails("observe")
        /\ present = Verified \/ (~present /\ Fails("nft"))
        /\ known = KnownToFirewall \/ (~known /\ Fails("nft"))
        /\ cache' = o /\ todo' = Plan(o, present, known)
    /\ UNCHANGED <<net, table, px, seen>>

\* A call of the supervisor: it comes up only on a slot that is there.
StartProxy == px' = (link = "dg" /\ plumb = Plumbing)

Call(a) == todo # <<>> /\ Head(todo) = a /\ todo' = Tail(todo)

\* Actuator.Apply for the next action: applyNetcfg, addFwDongle, stopProxy,
\* applyProxy.  A failure of one action does not stop the next.
SweepAct ==
    /\ phase = "act" /\ Idle("daemon")
    /\ \/ /\ todo # <<>> /\ Head(todo) = "names" /\ EnsureNames("daemon")
          /\ todo' = IF mgr'["daemon"].res = "ok" THEN Tail(todo) ELSE Tail(Tail(todo))
          /\ UNCHANGED px
       \/ Call("global") /\ EnsureGlobal("daemon") /\ UNCHANGED px
       \/ Call("slot") /\ ApplySlot("daemon") /\ UNCHANGED px
       \/ Call("fw") /\ AddDongle("daemon") /\ UNCHANGED px
       \/ Call("stop") /\ px' = FALSE /\ UNCHANGED net
       \/ Call("start") /\ StartProxy /\ UNCHANGED net
    /\ UNCHANGED <<table, phase, seen, cache>>

SweepRests ==
    /\ phase = "act" /\ todo = <<>> /\ Idle("daemon")
    /\ phase' = "rest" /\ seen' = NoRows
    /\ UNCHANGED <<net, table, px, cache, todo>>

DaemonStep == ManagerStep("daemon") /\ UNCHANGED <<table, px, sweep>>

\* Engine.Recover of a daemon that starts: every live operation failed, of
\* other processes too.
Recover ==
    /\ phase' = "rest" /\ op' = IF op = "live" THEN "stalled" ELSE op
    /\ UNCHANGED <<rows, px, seen, cache, todo>>

\* A daemon gets as far as its engine when buildFirewall has found the table.
DaemonStarts == phase = "down" /\ Verified /\ Recover /\ UNCHANGED net

DaemonNext == DaemonStarts \/ SweepLoad \/ SweepPoll \/ SweepAct \/ SweepRests \/ DaemonStep

\* The daemon ends; what it had observed and its manager end with it.
DaemonEnds == phase' = "down" /\ seen' = NoRows /\ cache' = Blind /\ todo' = <<>>

\* It is started again; its manager has not called EnsureGlobal.
DaemonRestarts ==
    /\ Fails("restart") /\ phase # "down" /\ DaemonEnds
    /\ mgr' = [mgr EXCEPT !["daemon"] = IdleManager]
    /\ UNCHANGED <<host, hostCalm, table, px>>

NodeReboots == HostReboots /\ DaemonEnds /\ UNCHANGED <<table, px>>
-----------------------------------------------------------------------------
(* The daemon alone, on a node with an enrolled slot whose host is new.    *)

SweepOutside ==
    \/ (RuleLost \/ RuleAdded \/ TableLost \/ LoadTable) /\ UNCHANGED <<table, px, sweep>>
    \/ (Unplugged \/ PluggedIn) /\ UNCHANGED <<table, px, sweep>>
    \/ DaemonRestarts
    \/ NodeReboots
    \/ ~hostCalm /\ hostCalm' = TRUE /\ UNCHANGED <<host, mgr, table, px, sweep>>

EnrolledRows == {"slot", "dongle", "attached", "proxy"}

SweepNext == (DaemonNext \/ SweepOutside)
SweepVars == <<net, table, px, sweep>>
-----------------------------------------------------------------------------
(* What the sweep promises.                                                *)

\* Once nothing goes wrong any more, and if somebody has seen to it that the
\* table is there, which a reboot takes and no program loads: the node has its
\* rule and its names, and every slot with a dongle plugged in its network, its
\* firewall elements and its proxy (Plan, Actuator.Apply).
HostHeals ==
    <>[]( Verified =>
            /\ names /\ "public_src_rule" \notin AssertInvariants
            /\ link # "gone" => AssertInvariants = {} /\ sets = Ruleset /\ px )

-----------------------------------------------------------------------------
(* What a document, a test or the panel counts on and the code does not do *)
(* (README, "Known disagreements").                                        *)

\* The sweep finds nothing to do in the end, unless a stick is missing
\* (engine_test.go:144: a sweep that still plans something has not converged).
SweepConverges == <>[](todo = <<>> \/ link = "gone" \/ ~Verified)
=============================================================================
