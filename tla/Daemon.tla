------------------------------- MODULE Daemon -------------------------------
(***************************************************************************)
(* The life of the daemon on its host (cmd/dongled main.go, wire.go,       *)
(* api.go and cmd_bootstrap.go, deploy/dongled.service): the host is made  *)
(* ready, systemd asks the preflight and starts the process, the process   *)
(* wires its parts, serves, and when it is told to stop closes them one    *)
(* after the other within the shutdown grace.                              *)
(*                                                                         *)
(* Time passes while a step of the shutdown waits for somebody else; every *)
(* other step takes none.                                                  *)
(***************************************************************************)
EXTENDS Preflight

CONSTANTS
    ShutdownGrace,      \* Config.ShutdownGrace
    TimeoutStop,        \* TimeoutStopSec of the unit
    StartLimit,         \* StartLimitBurst of the unit
    MaxReboots          \* bound of the model: reboots of the host

ASSUME DaemonAssumption ==
    /\ {ShutdownGrace, TimeoutStop, StartLimit, MaxReboots} \subseteq Nat
    /\ StartLimit > 0 /\ ShutdownGrace < TimeoutStop

VARIABLES
    host,       \* the facts of Preflight
    cfg,        \* the environment of the unit
    node,       \* the public address in the row of the node
    unit,       \* systemd: what the unit does, quick failures, the stop timer
    app,        \* the process: where it is, what is left of the grace
    engine,     \* the goroutine of the reconcile engine
    work,       \* a task of the rotation engine and one of the device operations
    conns,      \* requests the panel serves: one that ends, and a stream
    reboots     \* reboots of the host so far

daemonVars == <<host, cfg, node, unit, app, engine, work, conns, reboots>>
processVars == <<app, engine, work, conns>>

Workers == {"rotator", "ops"}
NoApp == [pc |-> "down", left |-> ShutdownGrace]
NoWork == [w \in Workers |-> "idle"]
Closing == {"panel", "engine", "rotator", "ops", "store"}
UnitStates == {"dead", "pre", "up", "stopping", "backoff", "failed"}

DaemonTypeOK ==
    /\ host.table \in {"none", "broken", "whole"} /\ host.pin.sha \in {"none", "build", "rebuild"}
    /\ cfg.publicHost \in PublicHosts \cup {NoHost} /\ cfg.real \subseteq Backends
    /\ node \in PublicHosts \cup {NoHost}
    /\ unit \in [state: UnitStates, quick: 0 .. StartLimit, left: 0 .. TimeoutStop]
    /\ app \in [pc: {"down", "wire", "serving"} \cup Closing, left: 0 .. ShutdownGrace]
    /\ engine \in {"off", "recover", "sweep", "rest"}
    /\ work \in [Workers -> {"idle", "busy", "cut"}]
    /\ conns \subseteq {"request", "stream"} /\ reboots \in 0 .. MaxReboots

\* Config.Validate: a public address, and of each part the real one or a fake.
ValidConfigs == [publicHost: PublicHosts, real: {{}, {"netcfg"}, Backends}]

\* INSTALL.md up to the start of the service: bootstrap has not run yet.
DaemonInit ==
    /\ host = [FreshHost EXCEPT !.rtTables = FALSE, !.udevRule = FALSE, !.pin.sha = "none", !.kek = FALSE]
    /\ cfg \in ValidConfigs
    /\ node = NoHost
    /\ unit = [state |-> "dead", quick |-> 0, left |-> TimeoutStop]
    /\ app = NoApp /\ engine = "off" /\ work = NoWork /\ conns = {} /\ reboots = 0
-----------------------------------------------------------------------------
(* What both commands are put together from.                               *)

\* buildFirewall verifies what it finds and builds nothing.
BuildFirewall == "firewall" \in cfg.real => CheckNft(host)

\* openPanelStore: the key comes first; ensureNode keeps the row there is.
LoadSealer == host.kek
EnsureNode(opened) == node' = IF opened /\ node = NoHost THEN cfg.publicHost ELSE node

\* EnsureGlobal: the rule of this address, and no other of that priority.
EnsureGlobal(h, addr) ==
    [h EXCEPT !.rules = {r \in @ : r.prio # RulePrioPublic} \cup {[prio |-> RulePrioPublic, iif |-> "lo", src |-> addr]}]
-----------------------------------------------------------------------------
(* The administrator.                                                      *)

\* buildPlan: the files in the order they are written; the pin comes last and
\* names whatever build there is, and is left out when there is none.
BuildPlan(h) ==
    LET tables == [h EXCEPT !.rtTables = TRUE]
        rules  == [tables EXCEPT !.udevRule = TRUE]
    IN  {tables, rules, [rules EXCEPT !.pin = IF h.binary = "none" THEN @ ELSE [sha |-> h.binary, commit |-> "pinned"]]}

\* bootstrap --apply: execAction of one file after the other up to the first
\* that cannot be written; what is there already is left alone.
Bootstrap ==
    /\ host' \in BuildPlan(host) /\ host' # host
    /\ UNCHANGED <<cfg, node, unit, processVars, reboots>>

\* bootstrap-kek: refused over a key that is there.
BootstrapKEK ==
    /\ ~host.kek /\ host' = [host EXCEPT !.kek = TRUE]
    /\ UNCHANGED <<cfg, node, unit, processVars, reboots>>

\* A new build of 3proxy is installed.
Rebuild3proxy ==
    /\ host.binary = "build" /\ host' = [host EXCEPT !.binary = "rebuild"]
    /\ UNCHANGED <<cfg, node, unit, processVars, reboots>>

\* dongled enroll as far as the host is concerned: with the checks green or
\* skipped it names the tables and sets the rule up, whatever becomes of the
\* rest; buildFirewall wants the table before openStore makes the row.
RunEnroll ==
    /\ "netcfg" \in cfg.real
    /\ \E skipPreflight \in BOOLEAN : skipPreflight \/ Green(host, cfg.real, cfg.publicHost, TRUE)
    /\ host' = [EnsureGlobal(host, cfg.publicHost) EXCEPT !.rtTables = TRUE]
    /\ EnsureNode(BuildFirewall /\ LoadSealer) /\ <<host, node>>' # <<host, node>>
    /\ UNCHANGED <<cfg, unit, processVars, reboots>>

\* Nft.EnsureTable, which no command calls; an administrator may load the
\* rules by hand.
LoadTable ==
    /\ host.table # "whole" /\ host' = [host EXCEPT !.table = "whole"]
    /\ UNCHANGED <<cfg, node, unit, processVars, reboots>>

\* Rules and tables do not outlive the host; the unit is enabled.
HostReboots ==
    /\ reboots < MaxReboots /\ reboots' = reboots + 1
    /\ host' = [host EXCEPT !.rules = {}, !.table = "none", !.listening = {}]
    /\ unit' = [state |-> IF unit.state = "dead" THEN "dead" ELSE "pre", quick |-> 0, left |-> TimeoutStop]
    /\ app' = NoApp /\ engine' = "off" /\ work' = NoWork /\ conns' = {}
    /\ UNCHANGED <<cfg, node>>

\* Somebody deletes the rule of the public address.
RuleIsLost ==
    /\ host.rules # {} /\ host' = [host EXCEPT !.rules = {}]
    /\ UNCHANGED <<cfg, node, unit, processVars, reboots>>
-----------------------------------------------------------------------------
(* systemd (deploy/dongled.service).                                       *)

SystemctlStart ==
    /\ unit.state \in {"dead", "failed"} /\ app.pc = "down"
    /\ unit' = [unit EXCEPT !.state = "pre", !.quick = 0, !.left = TimeoutStop]
    /\ UNCHANGED <<host, cfg, node, processVars, reboots>>

\* A start that has failed at once: Restart=on-failure, StartLimitBurst.
UnitFails ==
    unit' = [unit EXCEPT !.state = IF @ = "stopping" THEN "dead" ELSE IF unit.quick + 1 < StartLimit THEN "backoff" ELSE "failed",
                         !.quick = @ + (IF @ < StartLimit THEN 1 ELSE 0), !.left = TimeoutStop]

\* ExecStartPre.
ExecStartPre ==
    /\ unit.state = "pre"
    /\ IF Green(host, cfg.real, cfg.publicHost, TRUE)
       THEN /\ unit' = [unit EXCEPT !.state = "up"] /\ app' = [NoApp EXCEPT !.pc = "wire"]
       ELSE UnitFails /\ UNCHANGED app
    /\ UNCHANGED <<host, cfg, node, engine, work, conns, reboots>>

\* RestartSec is over.
UnitRestarts ==
    /\ unit.state = "backoff" /\ unit' = [unit EXCEPT !.state = "pre"]
    /\ UNCHANGED <<host, cfg, node, processVars, reboots>>

\* systemctl stop; and TimeoutStartSec, for the daemon never says READY=1.
SystemctlStop ==
    /\ unit.state = "up" /\ app.pc = "serving"
    /\ unit' = [unit EXCEPT !.state = "stopping"] /\ app' = [app EXCEPT !.pc = "panel"]
    /\ UNCHANGED <<host, cfg, node, engine, work, conns, reboots>>

StartTimesOut ==
    /\ unit.state = "up" /\ app.pc = "serving"
    /\ unit' = [unit EXCEPT !.quick = 0] /\ app' = [app EXCEPT !.pc = "panel"]
    /\ UNCHANGED <<host, cfg, node, engine, work, conns, reboots>>
-----------------------------------------------------------------------------
(* The process.                                                            *)

Exits ==
    /\ app' = NoApp /\ engine' = "off" /\ work' = NoWork /\ conns' = {}
    /\ host' = [host EXCEPT !.listening = {}]

\* buildPanel: the store, then the firewall; the engine begins to run.
BuildPanel == LoadSealer /\ BuildFirewall

\* Wire.  What it has opened is not closed when it fails; the process ends.
Wire ==
    /\ app.pc = "wire"
    /\ IF BuildPanel
       THEN /\ app' = [app EXCEPT !.pc = "serving"] /\ engine' = "recover"
            /\ host' = [host EXCEPT !.listening = {PanelPort, MetricsPort}]
            /\ UNCHANGED <<unit, work, conns>>
       ELSE UnitFails /\ Exits
    /\ EnsureNode(LoadSealer) /\ UNCHANGED <<cfg, reboots>>

\* App.Run returns the error of a listener, and closes nothing.
ListenFails ==
    /\ app.pc = "serving" /\ UnitFails /\ Exits
    /\ UNCHANGED <<cfg, node, reboots>>

Serving == app.pc = "serving"

\* Engine.Run: Recover, and then one sweep after the other; none at all when
\* Recover fails, for as long as the process lives.
EngineRecovers ==
    /\ engine = "recover" /\ engine' \in {"sweep", "off"}
    /\ UNCHANGED <<host, cfg, node, unit, app, work, conns, reboots>>

\* Put together wrong: the names of the tables stand for the rule.
Bug_PlanNode == "netcfg" \in cfg.real /\ host.rules = {} /\ ~host.rtTables

\* planNode: no rule of that priority at all.
PlanNode == "netcfg" \in cfg.real /\ (host.rules = {} \/ ~host.rtTables)

EngineSweeps ==
    /\ engine = "sweep"
    /\ engine' = IF Serving \/ app.pc = "panel" THEN "rest" ELSE "off"
    /\ host' = IF PlanNode THEN [EnsureGlobal(host, node) EXCEPT !.rtTables = TRUE] ELSE host
    /\ UNCHANGED <<cfg, node, unit, app, work, conns, reboots>>

EngineKicks ==
    /\ engine = "rest" /\ engine' = IF Serving \/ app.pc = "panel" THEN "sweep" ELSE "off"
    /\ UNCHANGED <<host, cfg, node, unit, app, work, conns, reboots>>

\* A task begins, for a request or for the engine, and ends.
TaskBegins(w) ==
    /\ app.pc \in {"serving", "panel"} /\ work[w] = "idle" /\ work' = [work EXCEPT ![w] = "busy"]
    /\ UNCHANGED <<host, cfg, node, unit, app, engine, conns, reboots>>

TaskEnds(w) ==
    /\ work[w] # "idle" /\ work' = [work EXCEPT ![w] = "idle"]
    /\ UNCHANGED <<host, cfg, node, unit, app, engine, conns, reboots>>

\* Requests are taken for as long as the panel listens.
ConnOpens(c) ==
    /\ Serving /\ conns' = conns \cup {c} /\ conns' # conns
    /\ UNCHANGED <<host, cfg, node, unit, app, engine, work, reboots>>

ConnEnds(c) ==
    /\ c \in conns /\ conns' = conns \ {c}
    /\ UNCHANGED <<host, cfg, node, unit, app, engine, work, reboots>>
-----------------------------------------------------------------------------
(* App.Close.                                                              *)

Next_(pc) == [panel |-> "engine", engine |-> "rotator", rotator |-> "ops", ops |-> "store", store |-> "down"][pc]

\* What a step waits for: Server.Shutdown for the requests, Shutdown of the
\* rotation engine and of the device operations for their tasks.
PanelShutdown(pc) == pc = "panel" /\ conns # {}
RotatorShutdown(pc) == pc = "rotator" /\ work[pc] = "busy"
OpsShutdown(pc) == pc = "ops" /\ work[pc] = "busy"
WaitsFor(pc) == PanelShutdown(pc) \/ RotatorShutdown(pc) \/ OpsShutdown(pc)

\* A Shutdown ends with its context, which is one for all of them.
GivesUp == app.left = 0

\* A context for each Shutdown.
Bug_ShutdownSteps ==
    /\ app.pc \in {"panel", "rotator", "ops"}
    /\ ~WaitsFor(app.pc) \/ GivesUp
    /\ app' = [app EXCEPT !.pc = Next_(app.pc), !.left = ShutdownGrace]
    /\ work' = IF app.pc \in Workers /\ work[app.pc] = "busy" THEN [work EXCEPT ![app.pc] = "cut"] ELSE work
    /\ UNCHANGED <<host, cfg, node, unit, engine, conns, reboots>>

\* It ends with what it waits for or gives up: tasks that still run are cut.
ShutdownSteps ==
    /\ app.pc \in {"panel", "rotator", "ops"}
    /\ ~WaitsFor(app.pc) \/ GivesUp
    /\ app' = [app EXCEPT !.pc = Next_(app.pc)]
    /\ work' = IF app.pc \in Workers /\ work[app.pc] = "busy" THEN [work EXCEPT ![app.pc] = "cut"] ELSE work
    /\ UNCHANGED <<host, cfg, node, unit, engine, conns, reboots>>

\* stopEngine; nobody waits for the sweep that is under way.
StopEngine ==
    /\ app.pc = "engine" /\ app' = [app EXCEPT !.pc = "rotator"]
    /\ engine' = IF engine = "sweep" THEN engine ELSE "off"
    /\ UNCHANGED <<host, cfg, node, unit, work, conns, reboots>>

\* The devices, the database and last the bus are closed; the process ends.
ClosesStore ==
    /\ app.pc = "store" /\ Exits
    /\ unit' = [unit EXCEPT !.state = IF @ = "stopping" THEN "dead" ELSE "backoff", !.left = TimeoutStop]
    /\ UNCHANGED <<cfg, node, reboots>>

\* Time passes while a Shutdown waits.
GraceTick ==
    /\ app.pc \in Closing /\ WaitsFor(app.pc) /\ ~GivesUp /\ unit.left > 0
    /\ app' = [app EXCEPT !.left = IF @ > 0 THEN @ - 1 ELSE 0] /\ unit' = [unit EXCEPT !.left = @ - 1]
    /\ UNCHANGED <<host, cfg, node, engine, work, conns, reboots>>

Administrates == Bootstrap \/ BootstrapKEK \/ Rebuild3proxy \/ RunEnroll \/ LoadTable \/ HostReboots \/ RuleIsLost
Systemd == SystemctlStart \/ ExecStartPre \/ UnitRestarts \/ SystemctlStop \/ StartTimesOut
Engine == EngineRecovers \/ EngineSweeps \/ EngineKicks
Closes == ShutdownSteps \/ StopEngine \/ ClosesStore

DaemonNext ==
    \/ Administrates \/ Systemd \/ Wire \/ ListenFails \/ Engine \/ Closes \/ GraceTick
    \/ \E w \in Workers : TaskBegins(w) \/ TaskEnds(w)
    \/ \E c \in {"request", "stream"} : ConnOpens(c) \/ ConnEnds(c)

\* systemd and the process go on, time does; tasks and requests may take for ever.
DaemonFairness ==
    /\ WF_daemonVars(ExecStartPre \/ UnitRestarts) /\ WF_daemonVars(Wire)
    /\ WF_daemonVars(Engine) /\ WF_daemonVars(Closes) /\ WF_daemonVars(GraceTick)

DaemonSpec == DaemonInit /\ [][DaemonNext]_daemonVars /\ DaemonFairness

\* The steps of docs/INSTALL.md, and nobody disturbs them.
InstallNext ==
    \/ Bootstrap \/ BootstrapKEK \/ RunEnroll
    \/ SystemctlStart \/ ExecStartPre \/ UnitRestarts
    \/ Wire \/ Engine \/ Closes \/ GraceTick

InstallSpec == DaemonInit /\ [][InstallNext]_daemonVars /\ DaemonFairness
-----------------------------------------------------------------------------
(* What the life of the daemon promises.                                   *)

\* A stop ends before systemd would kill the process, so that the closers all
\* run; and tasks are given up only when the whole grace has passed, be it that
\* an open stream has used it up (App.Close, TimeoutStopSec).
StopsInTime ==
    /\ app.pc \in Closing => unit.left > 0
    /\ (\E w \in Workers : work[w] = "cut") => app.left = 0

\* While the daemon serves and its engine has recovered, the rule of the public
\* address comes back (planNode).
PublicRuleComesBack ==
    (Serving /\ engine \in {"sweep", "rest"} /\ "netcfg" \in cfg.real /\ host.rules = {})
        ~> (host.rules # {} \/ ~Serving)

\* Installed as docs/INSTALL.md says and started, the daemon comes to serve
\* (docs/INSTALL.md 6; ExecStartPre, Wire).
Installed == host.rtTables /\ host.udevRule /\ host.kek /\ CheckBinary(host) /\ cfg.real = Backends
ComesUp == (Installed /\ unit.state = "pre") ~> Serving
=============================================================================
