------------------------------- MODULE HostNet -------------------------------
(***************************************************************************)
(* The network of the host for one slot: the priority 900 rules, the files *)
(* of systemd-networkd and udev, what the kernel has of the slot, and the  *)
(* firewall sets; and the manager that changes them                        *)
(* (internal/netcfg/linux/manager.go, netcfg/files, internal/fw/nft.go).   *)
(*                                                                         *)
(* Each process has a manager of its own: the daemon, and the enroll       *)
(* command.  The mutex of a manager orders the calls of one process only.  *)
(* A step is one command or one file.                                      *)
(***************************************************************************)
EXTENDS Naturals, FiniteSets

CONSTANTS
    Procs,          \* processes with a manager
    HostFaults      \* what may go wrong while the host is not calm

ASSUME HostAssumption ==
    HostFaults \subseteq {"netlink", "observe", "exec", "write", "nft", "rule_added", "rule_lost", "table_lost",
                          "unplug", "reboot", "restart", "device", "database"}

VARIABLES
    public,     \* rules at priority 900: ours, and stale ones of another address
    names,      \* rt_tables names every table
    files,      \* files of the slot in the network directory: SUBSET {"net", "link"}
    loaded,     \* networkd has read the .network file
    link,       \* the network interface: gone, raw (a kernel name) or dg (its own)
    plumb,      \* what the kernel has for the slot: SUBSET Plumbing
    sets,       \* nftables: our table, and the slot in its sets: SUBSET Ruleset
    mgr,        \* the manager of each process
    hostCalm    \* nothing goes wrong any more

host == <<public, names, files, loaded, link, plumb, sets>>
net  == <<host, mgr, hostCalm>>

Plumbing == {"addr", "rules", "route"}
Ruleset  == {"table", "iface", "gateway"}
IdleManager == [pc |-> "idle", ready |-> FALSE, left |-> 0, fresh |-> {}, res |-> "none"]

ManagerPcs == {"idle", "read_rules", "del", "add", "write_net", "write_link", "link_down", "udev", "reload",
               "unlink", "unreload", "unrule", "flush", "add_iface", "add_gateway", "del_iface", "del_gateway"}

HostTypeOK ==
    /\ public \subseteq {"ours", "stale"} /\ {names, loaded, hostCalm} \subseteq BOOLEAN
    /\ files \subseteq {"net", "link"} /\ link \in {"gone", "raw", "dg"}
    /\ plumb \subseteq Plumbing /\ sets \subseteq Ruleset
    /\ mgr \in [Procs -> [pc: ManagerPcs, ready: BOOLEAN, left: 0 .. 2, fresh: SUBSET {"net", "link"},
                          res: {"none", "ok", "error"}]]

\* A farm host that has just started, with a dongle in its factory state; the
\* table is there or is not, for no program of the repository loads it.
HostInit ==
    /\ public = {} /\ names = FALSE /\ files = {} /\ loaded = FALSE
    /\ link = "raw" /\ plumb = {} /\ sets \in {{}, {"table"}}
    /\ mgr = [p \in Procs |-> IdleManager]
    /\ hostCalm = FALSE

Fails(f) == ~hostCalm /\ f \in HostFaults
Idle(p)  == mgr[p].pc = "idle"
At(p, s) == mgr[p].pc = s

\* The call goes on at s, or ends with r.
GoOn(p, s) == mgr' = [mgr EXCEPT ![p].pc = s] /\ UNCHANGED hostCalm
End(p, r)  == /\ mgr' = [mgr EXCEPT ![p] = [IdleManager EXCEPT !.ready = mgr[p].ready, !.res = r]]
              /\ UNCHANGED hostCalm
\* A step of p that may fail for the reason f, with nothing changed.
OrFails(p, f) == Fails(f) /\ End(p, "error") /\ UNCHANGED host
-----------------------------------------------------------------------------
(* External: what udev and networkd make of the files.                     *)

\* RenderNetwork: address, both rules and the default route come together.
Configured == Plumbing

\* udev names the interface by the .link file; networkd configures what it
\* has a .network file for.
Enumerated(f, l) == IF "link" \in f THEN "dg" ELSE l
PlumbedAs(l, ld) == IF l = "dg" /\ ld THEN Configured ELSE {}
-----------------------------------------------------------------------------
(* EnsureGlobal.                                                           *)

\* Manager.EnsureRouteTableNames.
EnsureNames(p) ==
    /\ Idle(p)
    /\ \/ names' = TRUE /\ End(p, "ok") /\ UNCHANGED <<public, files, loaded, link, plumb, sets>>
       \/ OrFails(p, "write")

EnsureGlobal(p) == Idle(p) /\ GoOn(p, "read_rules") /\ UNCHANGED host

\* ensureGlobal with one public host: any stale rule takes all of them down.
ReadRules(p) ==
    /\ At(p, "read_rules")
    /\ \/ /\ mgr' = [mgr EXCEPT ![p].pc = IF "stale" \in public THEN "del"
                                          ELSE IF "ours" \in public THEN "idle" ELSE "add",
                                ![p].left = IF "stale" \in public THEN Cardinality(public) ELSE 0,
                                ![p].ready = @ \/ public = {"ours"},
                                ![p].fresh = {},
                                ![p].res = IF public = {"ours"} THEN "ok" ELSE @]
          /\ UNCHANGED <<host, hostCalm>>
       \/ OrFails(p, "netlink")

\* ip rule del priority 900, once for every rule counted; which one goes is
\* the kernel's choice, and one that is not there any more is ignored.
DeletePublic(p) ==
    /\ At(p, "del")
    /\ \/ /\ IF public = {} THEN UNCHANGED public ELSE \E r \in public : public' = public \ {r}
          /\ mgr' = [mgr EXCEPT ![p].left = @ - 1, ![p].pc = IF mgr[p].left = 1 THEN "add" ELSE "del"]
          /\ UNCHANGED <<names, files, loaded, link, plumb, sets, hostCalm>>
       \/ OrFails(p, "exec")

\* ip rule add refuses a rule that exists already.
AddPublic(p) ==
    /\ At(p, "add")
    /\ \/ /\ "ours" \notin public /\ public' = public \cup {"ours"}
          /\ mgr' = [mgr EXCEPT ![p] = [IdleManager EXCEPT !.ready = TRUE, !.res = "ok"]]
          /\ UNCHANGED <<names, files, loaded, link, plumb, sets, hostCalm>>
       \/ "ours" \in public /\ End(p, "error") /\ UNCHANGED host
       \/ OrFails(p, "exec")
-----------------------------------------------------------------------------
(* ApplySlot.                                                              *)

\* checkIDPath with RequireIDPath: some interface reports the enrolled path.
CheckIDPath == link # "gone"

\* A slot is written whether or not EnsureGlobal has run.
Bug_ApplySlot(p) == Idle(p) /\ CheckIDPath /\ GoOn(p, "write_net") /\ UNCHANGED host

\* ApplySlot up to WriteSlot: ErrGlobalNotReady, readLinks and the checks.
ApplySlot(p) ==
    /\ Idle(p)
    /\ \/ ~mgr[p].ready /\ End(p, "error") /\ UNCHANGED host
       \/ mgr[p].ready /\ CheckIDPath /\ GoOn(p, "write_net") /\ UNCHANGED host
       \/ mgr[p].ready /\ ~CheckIDPath /\ End(p, "error") /\ UNCHANGED host
       \/ mgr[p].ready /\ OrFails(p, "netlink")

\* writeIfChanged: the rename is the last thing that happens.
Write(p, f, s) ==
    \/ /\ files' = files \cup {f}
       /\ mgr' = [mgr EXCEPT ![p].pc = s, ![p].fresh = IF f \in files THEN @ ELSE @ \cup {f}]
       /\ UNCHANGED <<public, names, loaded, link, plumb, sets, hostCalm>>
    \/ OrFails(p, "write")

\* checkMAC has nothing to say: the MAC it is given was read from the same
\* interface, by the sweep or by the enroll command.

\* Renderer.WriteSlot: when the second file fails the first is not reloaded.
WriteSlot(p) ==
    \/ At(p, "write_net") /\ Write(p, "net", "write_link")
    \/ At(p, "write_link") /\ Write(p, "link", "link_down")

\* LinkCommands: ip link set down, tolerated when there is no such device.
LinkDown(p) ==
    /\ At(p, "link_down")
    /\ \/ "link" \notin mgr[p].fresh /\ GoOn(p, "reload") /\ UNCHANGED host
       \/ /\ "link" \in mgr[p].fresh
          /\ plumb' = plumb \ {"route"}
          /\ GoOn(p, "udev")
          /\ UNCHANGED <<public, names, files, loaded, link, sets>>
       \/ "link" \in mgr[p].fresh /\ OrFails(p, "exec")

\* udevadm reload, trigger and settle: the interface is renamed and comes up.
UdevTrigger(p) ==
    /\ At(p, "udev")
    /\ \/ /\ link' = IF link = "gone" THEN "gone" ELSE Enumerated(files, link)
          /\ plumb' = IF link' = "gone" THEN plumb ELSE PlumbedAs(link', loaded)
          /\ GoOn(p, "reload")
          /\ UNCHANGED <<public, names, files, loaded, sets>>
       \/ OrFails(p, "exec")

\* NetworkCommands: networkctl reload and reconfigure, and EnsureGlobal once
\* more behind them, which reconfigure may have deleted the rule of.
ReloadNetwork(p) ==
    /\ At(p, "reload")
    /\ \/ "net" \notin mgr[p].fresh /\ End(p, "ok") /\ UNCHANGED host
       \/ /\ "net" \in mgr[p].fresh
          /\ loaded' = ("net" \in files)
          /\ plumb' = PlumbedAs(link, loaded')
          /\ mgr' = [mgr EXCEPT ![p].pc = "read_rules", ![p].fresh = {}]
          /\ UNCHANGED <<public, names, files, link, sets, hostCalm>>
       \/ "net" \in mgr[p].fresh /\ OrFails(p, "exec")
-----------------------------------------------------------------------------
(* RemoveSlot.                                                             *)

RemoveSlot(p) == Idle(p) /\ GoOn(p, "unlink") /\ UNCHANGED host

\* Renderer.RemoveSlot.
RemoveFiles(p) ==
    /\ At(p, "unlink")
    /\ \/ /\ files' = {}
          /\ GoOn(p, IF files = {} THEN "unrule" ELSE "unreload")
          /\ UNCHANGED <<public, names, loaded, link, plumb, sets>>
       \/ /\ Fails("write") /\ End(p, "error")
          /\ files' \in {files, files \ {"link"}}
          /\ UNCHANGED <<public, names, loaded, link, plumb, sets>>

\* ApplyNetwork: networkd forgets the configuration with the file.
Unreload(p) ==
    /\ At(p, "unreload")
    /\ \/ /\ loaded' = FALSE /\ plumb' = PlumbedAs(link, FALSE)
          /\ GoOn(p, "unrule")
          /\ UNCHANGED <<public, names, files, link, sets>>
       \/ OrFails(p, "exec")

\* Every rule that matches slotRuleSpecs, and the table.
DeleteSlotRules(p) ==
    \/ /\ At(p, "unrule")
       /\ \/ plumb' = plumb \ {"rules"} /\ GoOn(p, "flush")
             /\ UNCHANGED <<public, names, files, loaded, link, sets>>
          \/ OrFails(p, "exec") \/ OrFails(p, "netlink")
    \/ /\ At(p, "flush")
       /\ \/ plumb' = plumb \ {"route"} /\ End(p, "ok")
             /\ UNCHANGED <<public, names, files, loaded, link, sets>>
          \/ OrFails(p, "exec")
-----------------------------------------------------------------------------
(* The firewall elements of a dongle.  mustContain reads each one back.    *)

AddDongle(p)    == Idle(p) /\ GoOn(p, "add_iface") /\ UNCHANGED host
RemoveDongle(p) == Idle(p) /\ GoOn(p, "del_iface") /\ UNCHANGED host

\* Nft.Verify, with a table that is whole or not there.
Verified == "table" \in sets

\* addElement, for which a table has to be there; delElement, which ignores
\* what is absent.
AddElement(e)    == Verified /\ sets' = sets \cup {e} /\ UNCHANGED <<public, names, files, loaded, link, plumb>>
DeleteElement(e) == sets' = sets \ {e} /\ UNCHANGED <<public, names, files, loaded, link, plumb>>

\* The sets are listed once both elements are in: a listing that fails is a
\* call that fails.
MustContain(p) == Fails("nft") /\ AddElement("gateway") /\ End(p, "error")

\* No table, no set to add to.
NoTable(p) == ~Verified /\ End(p, "error") /\ UNCHANGED host

\* Nft.AddDongle: the interface, then the gateway.
AddElements(p) ==
    \/ At(p, "add_iface") /\ ((AddElement("iface") /\ GoOn(p, "add_gateway")) \/ OrFails(p, "nft"))
    \/ At(p, "add_gateway") /\ ((AddElement("gateway") /\ End(p, "ok")) \/ OrFails(p, "nft"))
    \/ At(p, "add_gateway") /\ MustContain(p)
    \/ (At(p, "add_iface") \/ At(p, "add_gateway")) /\ NoTable(p)

\* Nft.RemoveDongle; no dongle is fenced here.
DeleteElements(p) ==
    \/ At(p, "del_iface") /\ ((DeleteElement("iface") /\ GoOn(p, "del_gateway")) \/ OrFails(p, "nft"))
    \/ At(p, "del_gateway") /\ ((DeleteElement("gateway") /\ End(p, "ok")) \/ OrFails(p, "nft"))

\* Nft.IsFenced answers for an interface of dongle_ifaces and errs on any other.
KnownToFirewall == "iface" \in sets

ManagerStep(p) ==
    \/ ReadRules(p) \/ DeletePublic(p) \/ AddPublic(p)
    \/ WriteSlot(p) \/ LinkDown(p) \/ UdevTrigger(p) \/ ReloadNetwork(p)
    \/ RemoveFiles(p) \/ Unreload(p) \/ DeleteSlotRules(p)
    \/ AddElements(p) \/ DeleteElements(p)
-----------------------------------------------------------------------------
(* External: somebody deletes or adds a rule at priority 900, takes the    *)
(* table away or loads it, a stick is pulled out and put back, the host    *)
(* starts again.                                                           *)

RuleAdded ==
    /\ Fails("rule_added") /\ "ours" \in public /\ public' = public \cup {"stale"}
    /\ public' # public
    /\ UNCHANGED <<names, files, loaded, link, plumb, sets, mgr, hostCalm>>

RuleLost ==
    /\ Fails("rule_lost") /\ public # {} /\ public' = {}
    /\ UNCHANGED <<names, files, loaded, link, plumb, sets, mgr, hostCalm>>

TableLost ==
    /\ Fails("table_lost") /\ Verified /\ sets' = {}
    /\ UNCHANGED <<public, names, files, loaded, link, plumb, mgr, hostCalm>>

\* What Nft.EnsureTable renders, loaded by hand: it has no caller.
LoadTable ==
    /\ ~Verified /\ sets' = {"table"}
    /\ UNCHANGED <<public, names, files, loaded, link, plumb, mgr, hostCalm>>

Unplugged ==
    /\ Fails("unplug") /\ link # "gone"
    /\ link' = "gone" /\ plumb' = plumb \cap {"rules"}
    /\ UNCHANGED <<public, names, files, loaded, sets, mgr, hostCalm>>

PluggedIn ==
    /\ link = "gone"
    /\ link' = Enumerated(files, "raw") /\ plumb' = PlumbedAs(link', loaded)
    /\ UNCHANGED <<public, names, files, loaded, sets, mgr, hostCalm>>

\* The kernel forgets the rules and the table with its sets; udev and networkd read the files.
HostReboots ==
    /\ Fails("reboot")
    /\ public' = {} /\ sets' = {}
    /\ loaded' = ("net" \in files)
    /\ link' = IF link = "gone" THEN "gone" ELSE Enumerated(files, "raw")
    /\ plumb' = PlumbedAs(link', loaded')
    /\ mgr' = [p \in Procs |-> IdleManager]
    /\ UNCHANGED <<names, files, hostCalm>>
-----------------------------------------------------------------------------
(* Observe, and AssertInvariants over what it read.                        *)

\* Observer.Links with the addresses, Observer.Rules, Observer.Routes.
Links  == [name |-> link, addr |-> "addr" \in plumb]
Rules  == [public |-> public, slot |-> "rules" \in plumb]
Routes == "route" \in plumb

\* RouteTablesComplete: the file is what RenderRouteTables makes.
RouteTablesComplete == names

\* Manager.Observe.
Observation == [public |-> Rules.public # {}, names |-> RouteTablesComplete, link |-> Links.name,
                plumb |-> {x \in Plumbing : \/ x = "addr" /\ Links.addr
                                            \/ x = "rules" /\ Rules.slot
                                            \/ x = "route" /\ Routes}]

\* routingProbes: with the uid rule of the slot a reply to a customer leaves
\* by the dongle unless our rule comes first; the egress of the slot needs all.
RoutingProbes ==
    {v \in {"customer_leg", "egress_fenced"} :
        \/ v = "customer_leg" /\ Rules.slot /\ Routes /\ "ours" \notin public
        \/ v = "egress_fenced" /\ plumb # Plumbing}

\* AssertInvariants for a manager that has applied the slot.
AssertInvariants == {v \in {"public_src_rule"} : "ours" \notin Rules.public} \cup RoutingProbes
=============================================================================
