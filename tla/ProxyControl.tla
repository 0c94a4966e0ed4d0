---------------------------- MODULE ProxyControl ----------------------------
(***************************************************************************)
(* One proxy from its row to its process: the admin handlers that write    *)
(* the row (internal/httpapi/admin_proxies.go over store/repo_proxy.go),   *)
(* the sweep that reads it, plans and acts (internal/reconcile), and the   *)
(* supervisor it acts through (ProxySup).                                  *)
(*                                                                         *)
(* The slot holds a dongle and its egress is ready; SlotRecovery has the   *)
(* rest of a plan.  The sweep reads the row, then the operations, then the *)
(* process, and acts on all three later, while the handlers go on writing. *)
(***************************************************************************)
EXTENDS ProxySup

CONSTANTS
    Modes,      \* modes the admin chooses from
    Forever     \* last instant: proxies may expire at 1 .. Forever, 0 is never

ASSUME ControlAssumption == Modes \subseteq AuthModes /\ Forever \in Nat

VARIABLES
    row,        \* the proxies row with its proxy_auth_ips
    now,        \* the clock
    phase,      \* where the sweep is
    seen,       \* the row as LoadDesired read it
    todo,       \* actions of the plan still to apply
    behind      \* history: since a sweep last found no process, the access was
                \* edited, or an Apply failed or was cut short

sweep == <<phase, seen, todo>>
world == <<row, now, calm>>
vars  == <<sup, calm, row, now, phase, seen, todo, behind>>

Row == [access : Access, enabled : BOOLEAN, suspended : BOOLEAN, expires : 0 .. Forever]
SomeRow == [access |-> [mode |-> "userpass", user |-> CHOOSE u \in Users : TRUE, nets |-> {}],
            enabled |-> TRUE, suspended |-> FALSE, expires |-> 0]

Expired(r) == r.expires # 0 /\ now >= r.expires

\* Proxy.DesiredState.
DesiredState(r) ==
    IF ~r.enabled THEN "disabled"
    ELSE IF Expired(r) THEN "expired"
    ELSE IF r.suspended THEN "suspended"
    ELSE "active"

TypeOK ==
    /\ SupTypeOK
    /\ row \in Row /\ seen \in Row
    /\ now \in 0 .. Forever
    /\ phase \in {"rest", "poll", "act"}
    /\ todo \in Seq({"mark_expired", "evict", "stop", "apply"}) /\ Len(todo) <= 2
    /\ behind \in BOOLEAN

Init ==
    /\ SupInit
    /\ row = SomeRow /\ seen = SomeRow
    /\ now = 0
    /\ phase = "rest" /\ todo = <<>>
    /\ behind = FALSE
-----------------------------------------------------------------------------
(* The admin handlers.                                                     *)

Edit(r) ==
    /\ row' = r /\ ~calm
    /\ behind' = (behind \/ r.access # row.access)
    /\ UNCHANGED <<sup, calm, now, sweep>>

\* setProxyAuth: a mode with a whitelist needs one; credentials are written
\* before the mode, and a live operation is noticed only after both.
SetAuth(m, u) ==
    /\ UsesIPList(m) => row.access.nets # {}
    /\ \/ Edit([row EXCEPT !.access.user = u, !.access.mode = m])
       \/ Edit([row EXCEPT !.access.user = u])

\* addProxyAuthIP and deleteProxyAuthIP, in any mode and down to the last one.
AddAuthIP(n)    == Edit([row EXCEPT !.access.nets = @ \cup {n}])
DeleteAuthIP(n) == Edit([row EXCEPT !.access.nets = @ \ {n}])

SetEnabled(b) == Edit([row EXCEPT !.enabled = b])

\* assignProxyCustomer: the expiry moves, enabled does not.
SetExpiry(t) == Edit([row EXCEPT !.expires = t])

Admin == \/ \E m \in Modes, u \in Users : SetAuth(m, u)
         \/ \E n \in Nets : AddAuthIP(n) \/ DeleteAuthIP(n)
         \/ \E b \in BOOLEAN : SetEnabled(b)
         \/ \E t \in 0 .. Forever : SetExpiry(t)
-----------------------------------------------------------------------------
(* The sweep.  Until the world is calm an operation may be live on the     *)
(* slot and the startup grace may last; the plan depends on both.          *)

Busy  == ~calm
Grace == ~calm

\* LoadDesired and LoadActiveOps; with a live operation planSlot leaves the
\* slot alone until another sweep.
Load ==
    /\ phase = "rest"
    /\ phase' = "poll" /\ seen' = row
    /\ behind' = (behind /\ active)
    /\ UNCHANGED <<sup, world, todo>>

Running == active

\* proxyDrift: not running, not bound or not answering; the file is not compared.
Drifted == ~Running \/ ~Bound \/ ~Healthy(NoSpec)

\* planProxy.
PlanProxy ==
    CASE DesiredState(seen) = "expired"   -> <<"mark_expired", "evict">>
      [] DesiredState(seen) = "disabled"  -> IF Running THEN <<"stop">> ELSE <<>>
      [] DesiredState(seen) = "suspended" -> IF Running THEN <<"evict">> ELSE <<>>
      [] DesiredState(seen) = "active"    -> IF Drifted THEN <<"apply">> ELSE <<>>

Destructive(a) == a = "evict"

\* Poller.Sweep and Plan; dropDestructive during the startup grace.
PollAndPlan ==
    /\ phase = "poll"
    /\ phase' = "act"
    /\ \/ todo' = PlanProxy
       \/ Grace /\ todo' = SelectSeq(PlanProxy, LAMBDA a : ~Destructive(a))
       \* A probe or a systemctl show that fails is a drift.
       \/ /\ MayFail("probe") /\ DesiredState(seen) = "active"
          /\ todo' = <<"apply">>
    /\ UNCHANGED <<sup, world, seen, behind>>

MarkExpired ==
    /\ \/ row' = [row EXCEPT !.enabled = FALSE]
       \/ MayFail("database") /\ UNCHANGED row
    /\ UNCHANGED sup

\* Actuator.Apply for the next action of the plan; a destructive one looks
\* for a live operation once more.
ActuatorApply ==
    /\ phase = "act" /\ pc = "idle" /\ todo # <<>>
    /\ todo' = Tail(todo)
    /\ \/ Head(todo) = "mark_expired" /\ MarkExpired
       \/ Head(todo) = "evict" /\ Busy /\ UNCHANGED <<sup, row>>
       \/ Head(todo) = "evict" /\ Stop(TRUE) /\ UNCHANGED row
       \/ Head(todo) = "stop" /\ Stop(FALSE) /\ UNCHANGED row
       \/ Head(todo) = "apply" /\ Apply(SpecFor(seen.access)) /\ UNCHANGED row
    /\ UNCHANGED <<now, calm, phase, seen, behind>>

\* The end of Once; Run waits for the next sweep.
SweepEnds ==
    /\ phase = "act" /\ pc = "idle" /\ todo = <<>>
    /\ phase' = "rest" /\ seen' = SomeRow
    /\ UNCHANGED <<sup, world, todo, behind>>

SupStep ==
    /\ Step
    /\ behind' = (behind \/ result' = "error")
    /\ UNCHANGED <<world, sweep>>

Sweep == Load \/ PollAndPlan \/ ActuatorApply \/ SweepEnds \/ SupStep
-----------------------------------------------------------------------------
(* What happens around it.                                                 *)

Tick ==
    /\ now < Forever
    /\ now' = now + 1
    /\ UNCHANGED <<sup, calm, row, sweep, behind>>

Customer == Connect /\ UNCHANGED <<world, sweep, behind>>
Kill     == ProcessDies /\ UNCHANGED <<world, sweep, behind>>

\* The daemon starts again and the sweep is lost.
Restart ==
    /\ DaemonDies
    /\ phase' = "rest" /\ seen' = SomeRow /\ todo' = <<>>
    /\ behind' = (behind \/ pc # "idle")
    /\ UNCHANGED world

CalmDown ==
    /\ ~calm /\ calm' = TRUE
    /\ UNCHANGED <<sup, row, now, sweep, behind>>

Next == \/ Admin \/ Sweep
        \/ Tick \/ Customer \/ Kill \/ Restart \/ CalmDown

Spec == Init /\ [][Next]_vars
FairSpec == Spec /\ WF_vars(Sweep) /\ WF_vars(CalmDown)
-----------------------------------------------------------------------------
\* Whoever has a live session after an ok is let in by the configuration that
\* was asked for.
SessionsAreGranted == result = "ok" /\ ~torn => \A c \in sessions : <<want, c>> \in LetsIn

\* What is rendered passes Verify, and each service then lets in whom the
\* specification names and nobody else (writeACL, verifyACLBlocks).
Named(sp) == (IF UsesUserPass(sp.mode) THEN sp.users ELSE {}) \cup (IF UsesIPList(sp.mode) THEN sp.nets ELSE {})
InstallsVerified ==
    pc = "install" =>
        /\ Verify(Cfg[want], want)
        /\ \A s \in Services : Admits(Cfg[want], s) = Named(want)

\* A row the supervisor can realise: its specification is rendered, and the
\* probe from the node itself has to be denied.
Realisable(a) == SpecValid(SpecFor(a)) /\ a.nets \cap OwnNets = {}

\* proxyDrift never looks at the file: a process that runs keeps what it read,
\* so an edit, or an Apply that was rolled back, waits until it is started anew.
Realised ==
    CASE DesiredState(row) = "active" ->
           Realisable(row.access) => Bound /\ (loaded = SpecFor(row.access) \/ behind)
      [] OTHER -> ~active /\ sessions = {}

\* Once the world is calm, a row that is not active has no process and no
\* session; an active one has a process that serves, with exactly the access
\* the row asks for unless that was edited, or an Apply of it failed or was cut
\* short, since a sweep last found no process.
Converges == <>[]Realised

-----------------------------------------------------------------------------
(* What a document, a test or the panel counts on and the code does not do *)
(* (README, "Known disagreements").                                        *)

\* D-41: every row the handlers accept can be applied.
AcceptedRowsApply == result = "refused" => want.mode # "iplist"
=============================================================================
