------------------------------- MODULE ProxySup -------------------------------
(***************************************************************************)
(* internal/proxysup/supervisor.go for one slot: the config file, the      *)
(* systemd unit with the 3proxy process, and one call of Apply or Stop at  *)
(* a time (the reconcile engine is the only caller inside the daemon).     *)
(*                                                                         *)
(* A file is known by the specification it was rendered from; Cfg gives    *)
(* its lines.  The process keeps the file it last read.  Live sessions     *)
(* survive a reload (noforce) and die with the process.                    *)
(***************************************************************************)
EXTENDS ProxyConfig

CONSTANTS SupFaults     \* what may fail while the world is not calm

ASSUME SupAssumption == SupFaults \subseteq {"systemctl", "probe", "install", "process", "crash", "database"}

VARIABLES
    file,       \* the specification the config file was rendered from
    active,     \* the unit is active
    loaded,     \* the specification the process has read
    sessions,   \* credentials and networks with a live session
    pc,         \* where the call of Apply or Stop is
    want,       \* specification of the running Apply
    old,        \* config Apply read before it installed its own
    running,    \* before.Running of Apply
    result,     \* how the last call ended
    torn,       \* history: since the last start a call or the daemon stopped between
                \* two of its steps, so file, process and sessions are of different configs
    calm        \* from now on nothing fails any more

sup == <<file, active, loaded, sessions, pc, want, old, running, result, torn>>

NoFile == NoSpec
Cfg == [sp \in Specs |-> Render(sp)]
LetsIn    == {f \in Specs \X (Users \cup Nets) : f[2] \in Grants(Cfg[f[1]])}
Answering == {f \in Specs \X Specs : Answers(Cfg[f[1]], f[2])}
Revoking  == {f \in Specs \X Specs : RevokesAccess(Cfg[f[1]], Cfg[f[2]])}
Valid     == {sp \in Specs : ValidateNetns(Cfg[sp])}

Bound == active /\ loaded # NoFile
Granted == {c \in Users \cup Nets : loaded # NoFile /\ <<loaded, c>> \in LetsIn}

Pcs == {"idle", "install", "signal", "await", "undo", "undo_reload", "undo_await",
        "undo_restart", "disable"}
Results == {"none", "ok", "error", "refused"}

SupTypeOK ==
    /\ file \in Specs /\ loaded \in Specs /\ want \in Specs /\ old \in Specs
    /\ {active, running, torn, calm} \subseteq BOOLEAN
    /\ sessions \subseteq Users \cup Nets
    /\ pc \in Pcs /\ result \in Results

SupInit ==
    /\ file = NoFile /\ loaded = NoFile /\ want = NoFile /\ old = NoFile
    /\ active = FALSE /\ running = FALSE /\ torn = FALSE /\ calm = FALSE
    /\ sessions = {}
    /\ pc = "idle" /\ result = "none"

\* inspect: bound on both ports and answering the probe.  A probe may fail for
\* reasons of its own, but never succeed against a process that denies it.
Healthy(sp) == Bound /\ <<loaded, sp>> \in Answering

MayFail(f) == ~calm /\ f \in SupFaults

\* The call goes on, or ends; what it knew goes with it.
Goto(p)   == pc' = p /\ UNCHANGED <<want, result, old, running>>
Return(r) ==
    /\ pc' = "idle" /\ result' = r
    /\ old' = NoFile /\ running' = FALSE
    /\ want' = IF r = "ok" THEN want ELSE NoFile
Process   == <<active, loaded, sessions>>

\* The process starts and reads the file; without one it opens no listener.
Started == active' = TRUE /\ loaded' = file /\ sessions' = {}
Stopped == active' = FALSE /\ loaded' = NoFile /\ sessions' = {}
\* A reload that never reaches the process.
Bug_Reread == active /\ UNCHANGED <<active, loaded, sessions>>

Reread  == active /\ loaded' = file /\ UNCHANGED <<active, sessions>>
-----------------------------------------------------------------------------
Ends(r, sp) == result' = r /\ want' = sp /\ UNCHANGED <<pc, old, running>>
Begins(sp)  == pc' = "install" /\ want' = sp /\ old' = file /\ running' = active /\ result' = "none"

\* The early return on an unchanged file whatever the process is doing.
Bug_ApplyTrustsTheFile(sp) ==
    /\ pc = "idle"
    /\ \/ ~SpecValid(sp) /\ Ends("refused", sp)
       \/ SpecValid(sp) /\ file = sp /\ Ends("ok", sp)
       \/ SpecValid(sp) /\ file # sp /\ Begins(sp)
    /\ UNCHANGED <<file, Process, torn>>

\* Apply up to installConfig: Render and Verify, the early return, Validate.
Apply(sp) ==
    /\ pc = "idle"
    /\ \/ ~SpecValid(sp) /\ Ends("refused", sp)
       \/ SpecValid(sp) /\ file = sp /\ Healthy(NoSpec) /\ Ends("ok", sp)
       \/ SpecValid(sp) /\ (file = sp => ~Healthy(NoSpec) \/ MayFail("probe")) /\ Begins(sp)
    /\ UNCHANGED <<file, Process, torn>>

\* Validate refuses the candidate or cannot run it, with nothing changed yet.
Refused ==
    /\ pc = "install" /\ (MayFail("install") \/ want \notin Valid)
    /\ Return("error")
    /\ UNCHANGED <<file, Process, torn>>

\* installConfig; an error after the rename is returned without a rollback.
Install ==
    /\ pc = "install" /\ want \in Valid
    /\ file' = want
    /\ \/ Goto("signal") /\ UNCHANGED torn
       \/ MayFail("install") /\ Return("error") /\ torn' = (torn \/ active)
    /\ UNCHANGED Process

\* A reload would do: nobody is kicked out by SIGUSR1.
Bug_MustRestart == ~running

MustRestart == ~running \/ (old # NoFile /\ <<old, want>> \in Revoking)

\* Restart or Reload.  A call that answers an error may have been obeyed.
Signal ==
    /\ pc = "signal"
    /\ \/ IF MustRestart THEN Started /\ torn' = FALSE /\ Goto("await")
          ELSE Reread /\ UNCHANGED torn /\ Goto("await")
       \/ /\ MayFail("systemctl") \/ (~MustRestart /\ ~active)
          /\ Goto("undo") /\ UNCHANGED torn
          /\ UNCHANGED Process \/ (IF MustRestart THEN Started ELSE Reread)
    /\ UNCHANGED file

\* await: healthy before ProbeTimeout, or an error.
Await ==
    /\ pc = "await"
    /\ \/ Healthy(want) /\ Return("ok")
       \/ (~Healthy(want) \/ MayFail("probe")) /\ Goto("undo")
    /\ UNCHANGED <<file, Process, torn>>

\* rollback: without an old config the unit is stopped and the new one stays.
Undo ==
    /\ pc = "undo"
    /\ \/ /\ old = NoFile
          /\ Stopped \/ (MayFail("systemctl") /\ UNCHANGED Process)
          /\ Return("error")
          /\ torn' = active'
          /\ UNCHANGED file
       \/ old # NoFile /\ file' = old /\ Goto("undo_reload") /\ UNCHANGED <<Process, torn>>
       \/ /\ old # NoFile /\ MayFail("install")
          /\ file' \in {file, old} /\ torn' = TRUE
          /\ Return("error")
          /\ UNCHANGED Process

\* rollback: the old config is read back with a reload, sessions and all.
UndoReload ==
    /\ pc = "undo_reload"
    /\ \/ Reread /\ Goto("undo_await") /\ torn' = TRUE
       \/ (~active \/ MayFail("systemctl")) /\ Goto("undo_restart") /\ UNCHANGED <<Process, torn>>
       \/ MayFail("systemctl") /\ Reread /\ Goto("undo_restart") /\ torn' = TRUE
    /\ UNCHANGED file

\* rollback: the old config has to pass the probe of the new specification.
UndoAwait ==
    /\ pc = "undo_await"
    /\ \/ Healthy(want) /\ Return("error")
       \/ (~Healthy(want) \/ MayFail("probe")) /\ Goto("undo_restart")
    /\ UNCHANGED <<file, Process, torn>>

\* rollback: the last resort is a cold start, and the error is returned anyway.
UndoRestart ==
    /\ pc = "undo_restart"
    /\ \/ Started /\ torn' = FALSE
       \/ MayFail("systemctl") /\ torn' = (torn \/ active) /\ UNCHANGED Process
    /\ Return("error")
    /\ UNCHANGED file
-----------------------------------------------------------------------------
\* Stop: the unit, and with evict its wants link and the file.
Stop(evict) ==
    /\ pc = "idle"
    /\ \/ /\ Stopped /\ torn' = FALSE
          /\ IF evict THEN Goto("disable") ELSE Return("none")
       \/ /\ MayFail("systemctl") /\ Return("error")
          /\ UNCHANGED <<Process, torn>> \/ (Stopped /\ torn' = FALSE)
    /\ UNCHANGED file

Disable ==
    /\ pc = "disable"
    /\ \/ file' = NoFile /\ Return("none")
       \/ MayFail("systemctl") /\ Return("error") /\ UNCHANGED file
    /\ UNCHANGED <<Process, torn>>
-----------------------------------------------------------------------------
(* External: customers connect, 3proxy dies and systemd starts it again or *)
(* gives up, and the daemon is killed.                                     *)
Connect ==
    /\ Bound
    /\ \E c \in Granted : sessions' = sessions \cup {c}
    /\ sessions' # sessions
    /\ UNCHANGED <<file, active, loaded, pc, want, old, running, result, torn>>

ProcessDies ==
    /\ active /\ MayFail("process")
    /\ Started \/ Stopped
    /\ torn' = FALSE
    /\ UNCHANGED <<file, pc, want, old, running, result>>

\* Where a call that stops here leaves two of file, process and sessions apart.
MidWay == pc \in {"signal", "await", "undo", "undo_reload", "undo_await", "undo_restart"}

DaemonDies ==
    /\ MayFail("crash")
    /\ Return("none")
    /\ torn' = (torn \/ (active /\ MidWay))
    /\ UNCHANGED <<file, Process>>

Step == \/ Refused \/ Install \/ Signal \/ Await
        \/ Undo \/ UndoReload \/ UndoAwait \/ UndoRestart \/ Disable

\* Apply answered ok: file, process and specification agree, unless some call
\* has been cut short since the process started.
OkMeansApplied == result = "ok" /\ ~torn /\ active => loaded = want /\ file = want
=============================================================================
