# TLA+ models of dongled

`dongled` (`src/src/`, Go) runs a farm of USB mobile dongles on one Linux host. Each dongle sits in
a *slot* (an interface, a subnet, a uid), a *proxy* process sells the dongle's public address to a
customer, and the daemon changes that address on request: it fences the proxy, drops the mobile data
session, waits, dials again and looks at the new address. Every long task is a row of the table
`operations` (docs/DECISIONS.md D-35), which is what the panel, the customers and the reconciler see.

This directory models the parts of the daemon that decide something while other things happen: which
task may run on which dongle, who cleans up what after an error, a timeout or a crash, what the sweep
brings back, who is let in, and what the tables say about it at every moment.

## Inventory

| component | state it keeps | operations | talks to |
|---|---|---|---|
| rotation engine (`internal/rotate`) | `closed`, `waiters`, wait group, semaphore `sem`; per goroutine: context, fence guard, `dataOff`, attempt, result | `Rotate`, `Wait`, `Shutdown`, `RecoverRotate`, `RebootDongle` | operations and rotations tables, nft, device, event bus, device operations |
| egress probe (`rotate/probe.go`, `verify.go`) | none | `ProbeSource`, `ProbeSocks`, `ProbeHTTP`, `Selftest` | echo endpoints, the proxies |
| operations table (`store/repo_operation.go`) | one row per task, partial unique index on unfinished rows per subject | `Create`, `Progress`, `Finish`, `MarkStalled`, `ReconcileOrphans` | everybody |
| device operations (`internal/devops`) | `closed`, `waiters`, wait group; per goroutine: context; rows of messages | `RebootAs`, `RebootAuto`, `SetLanIPAs`, `SetNetModeAs`, `SMSList`, usage | operations table, device, network |
| reconcile engine (`internal/reconcile`) | cached observations, generations, backoff, kick channel | `Run`, `Recover`, `Once`, `Kick` | all tables, supervisor, both engines, network, firewall |
| proxy supervisor (`internal/proxysup`) | config file, systemd unit and process per slot | `Apply`, `Stop`, `Restart`, `Status` | file system, systemd, 3proxy |
| enrolment (`internal/enroll`, `cmd_enroll.go`) | undo stack of the run | `Enroll`, `Unenroll`, preflight | slot, dongle and proxy tables, network, firewall, supervisor, device |
| network (`internal/netcfg`) | rules, routes, tables, files of networkd and udev | `EnsureGlobal`, `ApplySlot`, `RemoveSlot`, `Invariants` | the kernel |
| firewall (`internal/fw`) | nft sets `public_ifaces`, `dongle_ifaces`, `fenced_ifaces` | `Verify`, `Fence`, `Unfence`, `KillSockets`, `FlushConntrack`, `Add*`, `Remove*` | nft, conntrack, sock_diag |
| device driver (`internal/device`) | one HiLink session with its tokens per dongle | `Status`, `DataSwitch`, `Reboot`, `SMS*` | the dongle's web server |
| event bus, streams (`internal/eventbus`, `httpapi/sse.go`) | subscribers with bounded channels | `Publish`, `Subscribe`, `Close` | the panel (`web/src/api/sse.ts`) |
| authentication (`internal/auth`), limiter (`internal/ratelimit`) | lockout rows, sessions, keys, links; a bucket per key | login, `Authenticate*`, `Revoke*`, `Allow` | HTTP API |
| HTTP API (`internal/httpapi`) | none | a handler per route | all engines |
| store (`internal/store`), backups | the file, its schema, the backup directory | open, migrate, backup, verify, prune | everybody |
| daemon (`cmd/dongled`) | closers | bootstrap, preflight, start, ordered stop within one grace | systemd |

What is hard here: the caller, the goroutine, the sweep and the shutdown all write the same row; checks
and the INSERT they guard are different statements; every timeout leaves something to undo; most errors
of clean-up calls are dropped; SQLite, nft, the kernel and the dongles survive the process and the
process's memory of what it owes them does not; the enroll command, the backup timer and `passwd` are
other processes on the same host and file; nobody tells the daemon when a rule is lost, a dongle is
pulled out or a proxy dies. `PROJECT.json` lists these hazards line by line with the property that would
notice each going wrong, or why there is none.

## Modules

| module | models | how it corresponds to the code |
|---|---|---|
| `OperationLedger` | what the operations table promises, without any engine | `Open`/`Advance`/`Close`/`CloseAll` are INSERT, Progress, Finish and the two bulk UPDATEs; both engines implement it |
| `RotateEngine` | calls of `Rotate`, their goroutines, the two tables, nft set, data switch, sweep, shutdown, crash | `pc[o]` is the place of a call; an action is the code between two points where another actor can be seen |
| `RotationVerdict` | one rotation with a clock and the public address | `now`, `start`, `attempt`, `old`, `new`, `verdict` are the locals of `execute` and its result |
| `EgressProbe` | the probe that rotation measures with, and the selftest | the loop over the echo endpoints with dial and endpoint timeouts and the caller's budget |
| `EgressFilter` | the nft chain of the proxies, and the fence under traffic | `Matches` is `ruleset.nft.tmpl`; a step is one command, dump or netlink request |
| `DeviceOps` | reboot and network mode on one dongle beside rotations of its proxy | as `RotateEngine`; a rotation is only its row |
| `ProxyConfig`, `ProxySup` | the 3proxy config as what it lets in; config file, unit and process of a slot | `Render`, `Verify`, the probes; `pc` is the place of one `Apply` or `Stop`, with its rollback |
| `ProxyControl` | from the row of a proxy to its process | admin handlers, the sweep that read the row some time ago, and `ProxySup` |
| `HostNet` | rules, tables, routes, files and sets of a slot, and the manager, once per process | `mgr[p].pc` is the place of `EnsureGlobal` or `ApplySlot` |
| `SlotSweep` | the sweep over node and slot on top of `HostNet` | `LoadDesired`, poll, `Plan` and the actions are phases; `seen` and `cache` are what they still believe |
| `Enrol` | the enroll command beside that sweeping daemon | `at` is the step, `undo` the stack |
| `SlotRecovery` | what the sweep does about a silent or dead dongle | poll with backoff, budgets, `planRecovery`; time is ticks |
| `SlotPlan`, `Preflight` | what a slot owns; what a host is asked before anything starts | pure operators with the constants of the program |
| `Daemon` | bootstrap, preflight of the unit, `Wire`, serving, the closers, systemd, reboots of the host | composes `Preflight` |
| `SimDongle`, `HiLinkClient` | the simulated dongle; the driver its callers share | each call has its attempts, the session is one |
| `Login`, `ApiKeys` | lockout, sessions and passwd; keys, links, bucket and cooldown of a customer's rotation | every statement of the database is a step |
| `EventBus`, `PanelFeed` | the bus with its streams; the handlers that publish and the copy the panel keeps | a channel is its buffer; a fetch and a patch race |
| `Inbox` | the messages on a dongle and their rows | readers lay a list down row by row |
| `StoreFile` | the database file, its migrations and its backups | processes meet in file names only |
| `*_proofs` | the proofs | |
| `MC*` | values of the constants, and the compositions below | |

Composition. `ProxyControl` extends `ProxySup` extends `ProxyConfig`; `Enrol` extends `SlotSweep` extends
`HostNet`; `Daemon` extends `Preflight` extends `SlotPlan`; `PanelFeed` extends `EventBus`; `HiLinkClient`
extends `SimDongle`: these share state and are explored together. `MCAccess`, `MCNode`, `MCPanel` and
`MCRotationVerdict` put machines that share *no* state into one run: the variable `part` says which of
them a behaviour is about, and the others stay in an initial state. That is the union of their behaviours,
not their product, and it says nothing about any interaction of them.

Conventions. A caller's checks, its INSERT and what follows are separate actions when others come between them
in the code. A device, nft or systemctl call that fails may have been obeyed or not; both are choices. Clean-up
calls that drop their error may fail. Histories (`fenceLost`, `switchLost`, `writeLost`, `before`, `leftover`,
`probed`, `torn`, `behind`, `tries`, `carried`, `skipped`...) are read by properties, never by the code's
decisions. Writes of the database fail under a live context too, wherever the code drops their error. `Bug_...`
operators are wrong variants used to see that a property notices them; no specification uses one. `RotateEngine`
and `DeviceOps` have time as events in any order the formulas of the code allow; `RotationVerdict` and
`EgressProbe` count seconds (the former in units of five in its run, the length of a driver's request);
`SlotRecovery`, `Login` and `Daemon` count ticks and keep a moment as its age up to the limit it is compared
with.

## Runs

| run | instance | states, time | question |
|---|---|---|---|
| `rotate_same_proxy` | two calls on one proxy, two rungs, failing nft, switch and database, symmetric | 1.8 M, 80 s | do debts and ledger survive two rotations that overlap after a stall |
| `rotate_live_queue` | two proxies, capacity 1, failing database | 257 k, 65 s | is the cap kept, and does the rotation that queues end |
| `rotate_restart` | one call, two rungs, every fault | 22 k, 6 s | what shutdown, crash and recovery do to a rotation at each of its points |
| `devops_tasks` | network mode and automatic reboot, every fault, the database's among them | 812 k, 40 s | what keeps tasks of one dongle apart, and what a shutdown leaves |
| `devops_live` | reboot beside a rotation, every fault | 79 k, 40 s | does every task end, also when the dongle never comes back, and every row close |
| `verdict_clock` | production policy (holds of 6, 15 and 40 s, 3 attempts, 90 s) in units of 5 s, device calls of up to 20 s, any wait for a token; three echo endpoints with 10 s, two connections through the fence | 795 k, 17 s | how long a rotation may outlive its row, whether its verdict and the selftest are true, what gets past the fence |
| `proxy_control` | one credential, one network, modes userpass and both, one expiry, every fault | 507 k, 95 s | what an ok of `Apply` means, who keeps a session, does the process become what the row asks for |
| `enrol` | daemon and command on one slot, seven kinds of fault; undos fail where no daemon is up | 1.8 M, 77 s | what the command leaves when it ends, and in which order rules come up |
| `node` | one slot; thresholds of one or two ticks; seven kinds of fault | 275 k, 97 s | does the host heal, is a silent or dead dongle rebooted |
| `access` | two browsers; one key, two links, two requests; two callers of a dongle; two savers and one opener of the file | 2.3 M, 87 s | lockout, revocation, exactly-once calls, backups |
| `panel` | one stream with a buffer of one, two handlers, two events; grace 2 of 3, one reboot; one index, two readers, one writer | 199 k, 140 s | gaps, stale copies, the life of the unit, stale message lists |
| `install` (violation) | the steps of docs/INSTALL.md in any order | 285, 2 s | does the unit come up |

Why the bounds are enough. Two actors of a kind suffice for each race here (two rotations, two requests,
two processes, two callers, two savers): none of the code looks at more than one other. Two rungs have a
first, a repeated and a last attempt. Capacity 1, a buffer of 1, one token and a threshold of 2 are reached
in a few steps, so that the limits are met and passed. `proxy_control` with two credentials has the
same shapes (a revoked one and a new one are two specifications already with one: with and without it).
Thresholds of `node` are one or two ticks because the code only compares ages with them. `MaxEvents`,
`Seconds`, `MaxReboots` and `Forever` are bounds of the model and named so in its modules. `EgressFilter` has
two dongles, a public interface and lo. `UndosFail` of `MCEnrol` lets undos fail only in the behaviours without
a daemon (`alone`): the daemon writes neither rows nor ports, which is what the property is about, and the
theorem `RollbackHolds` has both together. In `verdict_clock` the hold of
6 s is one unit, as is everything shorter.
`CHECK_DEADLOCK FALSE` stands where the machine ends: calls that are over, a command that has ended, a unit
that has failed too often, a clock at its bound.

The type invariants of the modules are no runs of their own: those of `RotateEngine`, `DeviceOps`,
`RotationVerdict`, `EgressFilter`, `Enrol`, `ApiKeys`, `HiLinkClient`, `Login` and `StoreFile` are proved, the others
(`FeedTypeOK`, `RecTypeOK`...) can be added to the configurations, which they pass.

## Fairness

`FairSpec` of the engines assumes only what the Go runtime, the clock and systemd give: goroutines are
scheduled, deadlines and contexts pass, a started recovery and a running sweep go on until shutdown
stops them, and a process that was shut down is started again. No device call, database write or token
has to succeed, nobody has to call, a process need not crash.

The convergence properties (`Converges`, `NodeHeals`, `InboxCatchesUp`, `ReconnectHeals`) are of the form *once
nothing goes wrong any more*: `calm`, `hostCalm` and `quiet` become true at some unknown moment and faults stop
there; the sweep is weakly fair because `Run` repeats it. A lost nft table is loaded by nobody but the
administrator, who need not do it: `NodeHeals` asks for nothing while the table is missing, and then no daemon
starts (`buildFirewall`) and none that runs plans an element. `DeadIsRebooted` has its quiet period as a
premise and needs strong fairness of time, which a sweep interrupts. Requests, browsers, streams and
tasks of `Daemon` may last for ever; its fairness is systemd's, the engine's and the closers'. `enrol` and
`access` check safety only. Liveness is checked by TLC, never proved.

## Findings

`install`: docs/INSTALL.md:212-221 lets `nft_table` stay red "until the controller has built the table once",
but `buildFirewall` only verifies it, `Nft.EnsureTable` has no caller, and the preflight of `ExecStartPre` is fatal
without it: followed to the letter the unit never serves (`ComesUp`).

### Known disagreements

Properties the code does not keep are stated at the end of their modules with the document they come
from; adding one to the configuration of its module shows the trace.

- `NoSecondRotation` (RotateEngine): the row's deadline runs while the goroutine waits for a token; the sweep
  stalls the row, the index is free, two rotations work on one proxy (D-36 promises a 409).
- `IntervalIsKept` (RotateEngine): the rotations row is read before the operations row; a rotation that ends
  in between is seen by neither check (D-37).
- `CooldownIsKept` (DeviceOps): the 30 minutes between automatic reboots are looked up among the rows since
  midnight UTC (D-45); `rotate.Engine.RebootAllowed` has the same query.
- `UnchangedWasSeen` (RotationVerdict): when an attempt times out and the next does not fit, `unchanged` is
  reported though no probe answered after the last hold (D-38).
- `AcceptedRowsApply` (ProxyControl): the handlers accept a proxy with whitelist only, `SpecFor` hands its user over
  all the same and the specification is refused for it; the proxy keeps its old process (D-41).
- `NeverHalfProvisioned` (Enrol): rows, ports, files, sets and the process of a failed enrolment may stay, for an
  undo drops its error and is not repeated, and the daemon may plumb what the command takes down
  (INSTALL.md:287). `RollbackRestoresTheTables` says what may be left of rows and ports. A slot row that was there
  keeps the paths of the failed enrolment: nothing undoes that update.
- `SweepConverges` (SlotSweep; engine_test.go:144), with `exec`, `write` or `restart` among the faults. `ApplySlot`
  reloads only what it has just written: after a command that failed or a second file that could not be
  written the slot is planned for ever and not repaired until the host starts again. And a daemon that is
  restarted beside a healthy public rule never applies a slot: `planNode` plans `EnsureGlobal` only when the rule
  or the names are missing, `globalReady` is of the process, and `ApplySlot` answers `ErrGlobalNotReady`.
- `NodeHeals` (MCNode) is therefore checked with `netlink`, `observe`, `rule_lost`, `rule_added`, `table_lost`,
  `unplug` and `reboot`, and only of a host whose table has been loaded again. It fails with the three above,
  and with `nft`: `IsFenced` answers for the interface alone, so that a gateway whose element could not be added
  is not added later.
- `SignedOut` (Login): a sign-in that had passed the password before `dongled passwd` gets its session after.

Met while modelling, in the models as in the code, without a property of their own:

- rotation and tasks: an admin task and a rotation are both admitted when the rotation's INSERT falls between
  `checkRotateFence` and the task's; two automatic reboots pass the budget together; `finishOp` of `devops`
  writes on the task's own context and drops every error, so that `op.done` may be published over a row that is
  still open (`DoneTellsTheRow` says when); the hard deadline bounds when an attempt may begin, and with requests of 5 s
  that are retried `execute` may end more than 90 s after it and later than `deadline_at`, when another rotation is
  let in (`OutlivesItsRowBriefly` bounds how much later); behind a carrier's NAT a
  failed first probe makes `old_public_ip` a private address and the verdict `changed`.
- probe: an echo endpoint that accepts and stays silent uses up the budget of all (10 s of 10 s); the selftest
  checks for a leak on one of the two addresses; the reply to the SOCKS password is not looked at.
- firewall: the name-server accept names no interface, so queries to a gateway leave by any that is not
  fenced; `KillSockets` and `FlushConntrack` pass over failed requests (`skipped`).
- supervisor and sweep: a crash between install and reload leaves a file equal to the wanted one beside an old
  process (`torn`); edited credentials are never looked at while the proxy is healthy otherwise (`behind`), and
  `setProxyAuth` still closes its operation as succeeded; a proxy renewed while `MarkExpired` is under way is
  disabled all the same; `planNode` does not compare addresses, so a changed public host keeps the old rule;
  `ensureNode` never updates it in the row; a failing `AddDongle` is not retried as such; an error in `Recover`
  ends the sweep for the life of the process, and `Recover` of a starting daemon fails rows of the enroll
  command; a lost `Finish` of that command leaves its operation live until the sweep stalls it.
- API: `patchDongle`, `setProxyAuth` and `patchCustomer` write back what they read; `deleteProxyAuthIP` ignores the
  mode; `acceptSync` answers 409 after the row changed; patches reach the panel out of order, and a first fetch
  that is under way at `hello` is not replaced; a revoked session streams for up to four pings; links skip
  `keyMayUseProxy`, and their cooldown is spent before the limiter is asked; a counter reset forgets failures
  of others that are under way.
- daemon: `Type=notify` without READY=1 makes systemd stop the unit at TimeoutStartSec; the preflight run while
  the daemon serves finds its own ports taken; a failing `Wire` or listener runs no closers; an open stream
  eats the grace; the database is closed under tasks that were cut; bootstrap pins whatever binary it finds.
- store: `VerifyBackup` creates a file that is not there and passes it; partial files count towards the backups
  to keep; `last_backup_at` can go back; `LastBackupIsThere` needs that no file of a run under way comes to have
  `BackupKeep` older ones, those of other runs under way included (`NotCrowded`), and the second opener of an
  unmigrated file fails.
- messages: a stale list brings a deleted row back until the next list; two lists announce a message twice.
- no caller: `Sessions.Sweep`, `Lockout.Sweep`, `Limiter.Reap`, `Nft.EnsureTable`, `SyncSMS`.

## Proofs

All are for any constants that satisfy the named assumptions of their module: any sets of calls, proxies,
browsers, requests, streams, savers, users and networks, any capacity, buffer, grace, policy and timeout,
and, where a machine has one, any set of faults. Two kinds of assumption deserve a word. Finite sets of
actors (`IsFiniteSet(Clients)`, `IsFiniteSet(Savers)`) are what a process has; `Users # {}`, `Values # {}` and
`{"daemon", "cli"} \subseteq Procs` say that there is something to model; `ShutdownGrace < TimeoutStop` is the
relation the unit file and the configuration keep. What only one theorem needs is a hypothesis of that theorem:

- `ReportsAreTrueHolds` needs `DialTimeout < ProbeBudget` (5 s of 10 s in the program): a budget that one dial uses
  up leaves no time for the second endpoint.
- `EnrolledIsWholeHolds` needs that the stick is not pulled out meanwhile. The command may skip its selftest, and a
  daemon that was about to start the proxy then finds no slot for it: the command reports success over a
  proxy that does not run. TLC shows this with `unplug` among the faults.
- `Enrol` leaves out that somebody takes the nft table away while the command runs (`Outside`); that the table is
  missing when it starts, or is lost with the host, is in it.
- `ManagerKeepsOrderHolds` needs that nobody else deletes the public rule and that no command of `ip` fails: a manager
  that has deleted a surplus of rules and cannot add its own has seen the rule once, and trusts the node from then on.

The safety invariants are proved from an inductive invariant, one lemma per action or per part of it, and TLC has
checked that invariant on the run's instance before; the other theorems say what the operators compute.

- `RotateEngine_proofs`: the invariant adds to the properties that the tokens of the semaphore are
  exactly the goroutines between taking and returning one (`TokensCounted`, without which `FarmCap` is
  not inductive), that whoever works holds a token, where `dataOff` can be set, that drained implies
  closed, and what the row of a call can be at each place (`RowFollowsCall`). From it: `FarmCap`,
  `OneLivePerProxy`, `FenceIsOwed`, `DataIsOwed`, `DebtsSettledFirst`, `NothingAfterDrain`,
  `WaitReadsAFinishedRow`, `DoneAfterClose`, `ClosedRowsAreFrozen`, and that the engine implements
  `OperationLedger` (`Refinement`).
- `DeviceOps_proofs`: `TaskEffect`, `CallEffect` and `RotateEffect` say once what a step does to the place,
  the row and the event of its call; the invariant and the refinement follow from these shapes. The
  key part is `OneLivePerSubject` with `RowFollowsCall`: whoever works has a row that is open, stalled or
  failed, so two workers mean a lost row. `writeLost` names the calls whose terminal write failed, and `DoneHolds` that
  nothing else makes `op.done` and an open row meet.
- `RotationVerdict_proofs`: `Timely` gives each step its latest moment, so that the bound on `execute`
  holds for every ladder and every timeout (`BoundedExecution`); that the context of the
  task ends whatever waits beyond it (`CtxEnd`) bounds how long a rotation outlives its row, without a bound on the
  calls or on the wait for a token (`OutlivingHolds`). `Truthful` follows `old`, `new` and the address
  (`VerdictHolds`).
- `Egress_proofs`: `AcceptedBy` says which rules a packet that gets out has not matched, whatever a rule
  with a rate limit did; from it what leaves at all, and that behind the fence nothing of a customer does
  (`FenceRejects`). `FenceInv` adds that from the first dump on the element is in the set, so that what is left
  of the connections is on the list that is being worked off; `FenceHolds` follows for any number of them, and
  `EgressIsContained` for the specification of the run. `ProbeInv` counts what a probe has spent on endpoints
  nobody answered at and follows who let the selftest in (`ReportsAreTrue`).
- `ProxyControl_proofs`: `RenderedFile` reads the rendered file line by line and gives what it grants; from it
  `LetsInIs` and `KeepsAccess` (a change that revokes nothing keeps everyone). `SupInv` says from which of the
  two specifications file and process are at each place of a call, the rollback included, and `ControlInv` adds the
  rows: `OkMeansApplied`, `SessionsAreGranted`, `InstallsVerified`.
- `Access_proofs`: a late request is still before the look at its key, which is revoked for good
  (`RevokedStaysOut`); what a call has had carried out at each of its places (`OncePerCall`); while a subject is not
  locked each failure beyond the threshold is of a browser that has yet to write the lock, and while it is,
  those that verify are all that may still fail (`TriesAreBounded`); what is about to be deleted has
  `BackupKeep` newer files at every moment, and the file of a run has not (`LastBackupIsThere`).
- `Daemon_proofs`: arithmetic over all 150 slots: nothing is shared, the rules of all slots are in order, every
  port is one the firewall takes for a proxy's. `ShutdownInv` keeps systemd's timer ahead of the grace
  (`StopsInTime`); `BusInv` relates the queue of each stream to the last event it wrote (`NoGap`); `RecoveryInv`
  keeps the times of the poller in step with the silence of the dongle, and a planned reboot with both
  (`RebootsTheSilent`).
- `Enrol_proofs`: `Advance` and `Begun` say once what a step of a manager may write and take away, `Swept` what
  the daemon may do to the rest, so that each step of the command is looked at beside *any* of them. The stack
  of undos is ordered by rank (`Stacked`, `Below`), which makes each undo unique; what went up and is still to
  be taken down is `Owed`, `RowsAre` ties the rows to the stack and to the undos that have failed, and
  `FilesPlaced`, `SetsPlaced`, `RowsPlaced` to the stage. From it `RollbackRestoresTheTables` under every set of
  faults, failing undos beside a daemon included, `EnrolledIsWhole`, and with `RuleKept` `ManagerKeepsOrder`.

What the proofs have changed in the models: the verdict of `SimDongle` was a CASE whose arms overlapped, so that
it named no single answer; `NotCrowded` of `StoreFile` counted files only, and with two runs under way before
either file exists the backup taken last could be deleted; two places of `ProxySup` were never reached. Each
module was corrected and its runs repeated.

Every safety property and every step property that a passing run checks is stated by a theorem. Only
model-checked: the liveness properties, hence all of `PanelFeed`, `Inbox`, `SlotSweep`'s convergence and `Converges`;
and of the delays of `SlotRecovery` that they are numbers, since the provers know nothing of exponentiation. The
induction theorems of the library cannot be used with an operator as their parameter; where a recursive function
of numbers is in the way (`Penalties`), the proof goes by the set of counterexamples and its least element
(`SetInduction`).

## Not modelled, and why

- Wire formats (HiLink XML, SOCKS and HTTP beyond their outcomes, nft and netlink text), logging, metrics,
  the sealing of secrets, and handlers that only read rows into JSON: no protocol of their own.
- `devops/lanip.go` (the move of a LAN address) and `usage.go`: the move is one more kind of task of `DeviceOps`
  over `HostNet`, and the next thing to add; `Unenroll` and the swap of a dongle likewise for `Enrol`.
- More than one slot or proxy at a time in the sweep, hence `RotateInFlight` and the farm-wide counts of the
  reconciler (`Engine.sem` is in `RotateEngine`).
- Failing statements of the database in `Login` and `ApiKeys`; TLS and CONNECT probes of `proxysup/validate.go` and
  the scratch namespace itself, which no configuration of the daemon reaches.
- `cmd_probe.go`, the development seed, the legacy Python script, and the pages of the panel.

## Plan

1. `LanMove`: the move of a LAN address as a task over `HostNet` and a dongle; the capability flags it writes back.
2. `Unenroll` and the swap of a dongle in `Enrol`; a second slot in `SlotSweep` for the farm-wide counts.
3. Proofs of the type invariants that are left, and of the parts of the reconciler that the sweep and the command
   share (`SlotSweep` without `Enrol`); a specification of the host above `HostNet` for both to implement.
