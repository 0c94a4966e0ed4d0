----------------------------- MODULE Preflight -----------------------------
(***************************************************************************)
(* dongled preflight (internal/enroll capability.go, cmd/dongled           *)
(* cmd_preflight.go): what a host is asked before a dongle is enrolled and *)
(* before the service is started.  A host is a record of the facts that    *)
(* are read; how a fact is parsed is left out, a fact that cannot be read  *)
(* has a value of its own.                                                 *)
(***************************************************************************)
EXTENDS SlotPlan, FiniteSets

CONSTANT PublicHosts       \* addresses the host can be given

Backends == {"netcfg", "firewall", "proxy", "device"}
NoHost == "none"

\* A host everything is right with, but for what the program itself sets up.
FreshHost == [
    binary    |-> "build",    \* the 3proxy binary: none, not executable, or which build
    pin       |-> [sha |-> "build", commit |-> "pinned"],
    conntrack |-> TRUE,       \* NETLINK_NETFILTER answers
    udevRule  |-> TRUE,       \* the ignore rule is installed
    manager   |-> "enabled",  \* systemctl is-enabled ModemManager
    rtTables  |-> TRUE,       \* the directory is there
    rpFilter  |-> 2, forward |-> 0,
    rules     |-> {},         \* ip rules: priority, iif, source
    listening |-> {},         \* ports in use
    gid       |-> GroupGID,   \* of group dongled; 0 when there is none
    table     |-> "none",     \* table inet dongled: none, broken or whole
    address   |-> "static",   \* of the public address: none, lease or static
    kernel    |-> <<6, 8>>,
    backup    |-> "fresh",    \* none, old or fresh
    kek       |-> TRUE]       \* the key that opens the stored passwords

\* ReadPin with ParsePin: a pin without both lines is none.
ReadPin(h) == h.pin.sha # "none" /\ h.pin.commit = "pinned"

\* FileSHA256 of the binary is what the pin says.
FileSHA256(h) == h.binary = h.pin.sha

CheckBinary(h) == h.binary \notin {"none", "not executable"} /\ ReadPin(h) /\ FileSHA256(h)

CheckConntrack(h) == h.conntrack

CheckModemManager(h) == h.udevRule \/ h.manager \in {"disabled", "masked", "not-found"}

CheckRtTables(h) == h.rtTables

CheckRpFilter(h) == h.rpFilter = 2
CheckIPForward(h) == h.forward = 0

\* Somebody else's rule is asked before the program's.
CheckRules(h) ==
    \A r \in h.rules : (r.prio > 0 /\ r.prio < RulePrioPublic) => IsOurRulePriority(r.prio)

CheckPublicRule(h, publicHost) ==
    /\ publicHost # NoHost
    /\ \E r \in h.rules : r = [prio |-> RulePrioPublic, iif |-> "lo", src |-> publicHost]

CheckPorts(h) == \A p \in h.listening : ~IsPreflightPort(p)
\* No group of that name is the id 0.
LookupGroupGID(h) == h.gid
CheckGroup(h) == LookupGroupGID(h) = GroupGID

\* Nft.Verify: the sets, the chains and the order of the egress rules.
Verify(h) == h.table = "whole"
CheckNft(h) == Verify(h)

\* An address of a lease has a lifetime.
CheckStaticAddr(h, publicHost) == publicHost # NoHost /\ h.address = "static"

ParseKernelRelease(h) == h.kernel

KernelAtLeast(release, major, minor) ==
    IF release[1] # major THEN release[1] > major ELSE release[2] >= minor
CheckKernel(h) == KernelAtLeast(ParseKernelRelease(h), 6, 2)

\* The latest file of the directory, by its time.
NewestBackup(h) == h.backup
CheckBackup(h) == NewestBackup(h) = "fresh"

\* A check and the backends that have to be real for it to be made.
Needs == [
    binary |-> {"proxy"}, conntrack |-> {"firewall"}, modemmanager |-> {"device"}, rt_tables |-> {"netcfg"},
    rp_filter |-> {"netcfg"}, ip_forward |-> {"netcfg"}, foreign_rule |-> {"netcfg"}, public_rule |-> {"netcfg"},
    ports_free |-> {}, group |-> {"proxy"}, nft_table |-> {"firewall"}, static_addr |-> {"netcfg"},
    kernel |-> {"netcfg", "firewall"}, backup |-> {}]

Checks == DOMAIN Needs
Fatal == Checks \ {"ports_free", "static_addr", "backup"}
SkipUnless(check, real) == Needs[check] \subseteq real

\* Preflight: the checks that are red.
Holds(h, publicHost) == [
    binary |-> CheckBinary(h), conntrack |-> CheckConntrack(h), modemmanager |-> CheckModemManager(h),
    rt_tables |-> CheckRtTables(h), rp_filter |-> CheckRpFilter(h), ip_forward |-> CheckIPForward(h),
    foreign_rule |-> CheckRules(h), public_rule |-> CheckPublicRule(h, publicHost), ports_free |-> CheckPorts(h),
    group |-> CheckGroup(h), nft_table |-> CheckNft(h), static_addr |-> CheckStaticAddr(h, publicHost),
    kernel |-> CheckKernel(h), backup |-> CheckBackup(h)]

Failed(h, real, publicHost) ==
    LET holds == Holds(h, publicHost) IN {c \in Checks : SkipUnless(c, real) /\ ~holds[c]}

\* Report.Green, of preflight --fatal-only and of preflight.
Green(h, real, publicHost, fatalOnly) ==
    Failed(h, real, publicHost) \cap (IF fatalOnly THEN Fatal ELSE Checks) = {}
=============================================================================
