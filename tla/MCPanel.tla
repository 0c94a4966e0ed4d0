------------------------------- MODULE MCPanel -------------------------------
(***************************************************************************)
(* The life of the process (Daemon), the stream of a panel (PanelFeed) and *)
(* the messages of a dongle (Inbox), checked in one run.  The three share  *)
(* no state here.  A behaviour is one of one of them, the others stay as   *)
(* they begin.                                                             *)
(***************************************************************************)
EXTENDS PanelFeed, Daemon, Inbox

VARIABLE part       \* the component this behaviour is about

panelVars == <<feedVars, daemonVars, inboxVars, part>>

MCPanelInit ==
    /\ part \in {"feed", "daemon", "inbox"} /\ FeedInit /\ InboxInit
    /\ DaemonInit /\ (part = "daemon" \/ cfg = [publicHost |-> CHOOSE h \in PublicHosts : TRUE, real |-> {}])

MCPanelNext ==
    /\ UNCHANGED part
    /\ \/ part = "feed" /\ FeedNext /\ UNCHANGED <<daemonVars, inboxVars>>
       \/ part = "daemon" /\ DaemonNext /\ UNCHANGED <<feedVars, inboxVars>>
       \/ part = "inbox" /\ InboxNext /\ UNCHANGED <<feedVars, daemonVars>>

\* In the initial state of each nothing is enabled that it has to be fair to,
\* so those that are left alone are treated fairly.
MCPanelSpec ==
    MCPanelInit /\ [][MCPanelNext]_panelVars /\ FeedFairness /\ DaemonFairness /\ InboxFairness
=============================================================================
