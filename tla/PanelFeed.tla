------------------------------ MODULE PanelFeed ------------------------------
(***************************************************************************)
(* The panel of one administrator on a stream of the bus: the handlers     *)
(* that change a proxy and tell so (internal/httpapi admin_proxies.go),    *)
(* the stream, and the copy of the proxy the panel keeps (web/src/api      *)
(* sse.ts).  A handler writes, reads the proxy again and publishes what it *)
(* has read, and other handlers do the same in between; the panel fetches  *)
(* the proxy when a stream says hello and lays patches over its copy.      *)
(***************************************************************************)
EXTENDS EventBus

CONSTANTS Handlers, Values     \* requests that change the proxy; what they set

ASSUME FeedAssumption == Values # {} /\ Values \cap {"none", "asked"} = {}

VARIABLES
    proxy,      \* the row of the proxy
    handler,    \* each handler: what it sets, what it has read back
    patches,    \* what each event says of the proxy
    panel       \* the panel of each stream: its copy, and the answer it waits for

feedVars == <<busVars, proxy, handler, patches, panel>>

Idle == [pc |-> "idle", value |-> "none"]
NoPanel == [copy |-> "none", fetch |-> "none"]

FeedTypeOK ==
    /\ BusTypeOK /\ proxy \in Values
    /\ handler \in [Handlers -> [pc: {"idle", "read", "publish"}, value: Values \cup {"none"}]]
    /\ patches \in Seq(Values) /\ Len(patches) = published
    /\ panel \in [Streams -> [copy: Values \cup {"none"}, fetch: Values \cup {"none", "asked"}]]

FeedInit ==
    /\ BusInit /\ proxy = (CHOOSE v \in Values : TRUE) /\ handler = [h \in Handlers |-> Idle]
    /\ patches = <<>> /\ panel = [s \in Streams |-> NoPanel]
-----------------------------------------------------------------------------
\* setProxyEnabled, assignProxyCustomer: the row first.
SetProxy(h) ==
    /\ handler[h].pc = "idle" /\ published < MaxEvents
    /\ \E v \in Values : v # proxy /\ proxy' = v
    /\ handler' = [handler EXCEPT ![h].pc = "read"]
    /\ UNCHANGED <<busVars, patches, panel>>

\* The handler publishes what it was asked to set: setProxyAuth, setProxyPorts.
SetProxyAuth(h) ==
    /\ handler[h].pc = "idle" /\ published < MaxEvents
    /\ \E v \in Values : v # proxy /\ proxy' = v /\ handler' = [handler EXCEPT ![h] = [pc |-> "publish", value |-> v]]
    /\ UNCHANGED <<busVars, patches, panel>>

\* writeProxy: proxyView.
ReadProxy(h) ==
    /\ handler[h].pc = "read"
    /\ handler' = [handler EXCEPT ![h] = [pc |-> "publish", value |-> proxy]]
    /\ UNCHANGED <<busVars, proxy, patches, panel>>

\* publishProxyPatch.
PublishProxyPatch(h) ==
    /\ handler[h].pc = "publish" /\ MemPublish
    /\ patches' = Append(patches, handler[h].value) /\ handler' = [handler EXCEPT ![h] = Idle]
    /\ UNCHANGED <<proxy, panel>>
-----------------------------------------------------------------------------
\* A fetch that is under way is left to bring its answer.
Bug_Hello(s) ==
    /\ WriteHello(s) /\ panel' = [panel EXCEPT ![s].fetch = IF @ = "none" THEN "asked" ELSE @]
    /\ UNCHANGED <<proxy, handler, patches>>

\* dispatchEvent of hello: every query is fetched again, in place of a fetch
\* that is under way unless it is the first one.
Hello(s) ==
    /\ WriteHello(s)
    /\ panel' = [panel EXCEPT ![s].fetch = IF panel[s].copy # "none" \/ @ = "none" THEN "asked" ELSE @]
    /\ UNCHANGED <<proxy, handler, patches>>

\* applyProxyPatch: over a copy there is.
ApplyProxyPatch(s) ==
    /\ WriteEvent(s)
    /\ panel' = [panel EXCEPT ![s].copy = IF @ = "none" THEN @ ELSE patches[streams'[s].last]]
    /\ UNCHANGED <<proxy, handler, patches>>

\* listProxies, getProxy: what the row is now.
ServesFetch(s) ==
    /\ panel[s].fetch = "asked" /\ panel' = [panel EXCEPT ![s].fetch = proxy]
    /\ UNCHANGED <<busVars, proxy, handler, patches>>

\* The answer takes the place of the copy, patched meanwhile or not.
Fetched(s) ==
    /\ panel[s].fetch \in Values /\ panel' = [panel EXCEPT ![s] = [copy |-> @.fetch, fetch |-> "none"]]
    /\ UNCHANGED <<busVars, proxy, handler, patches>>

StreamStep(s) ==
    \/ CloseChan(s) \/ Subscribe(s) \/ StreamCloses(s) \/ StreamCanceled(s) \/ Ping(s)
    \/ SessionEnds(s) \/ SessionBegins(s)

FeedNext ==
    \/ \E h \in Handlers : SetProxy(h) \/ SetProxyAuth(h) \/ ReadProxy(h) \/ PublishProxyPatch(h)
    \/ \E s \in Streams : Hello(s) \/ ApplyProxyPatch(s) \/ ServesFetch(s) \/ Fetched(s)
    \/ (BusCloses \/ \E s \in Streams : StreamStep(s)) /\ UNCHANGED <<proxy, handler, patches, panel>>

\* A handler, a stream and a fetch go on; the ticker ticks.
FeedFairness ==
    /\ \A h \in Handlers : WF_feedVars(ReadProxy(h) \/ PublishProxyPatch(h))
    /\ \A s \in Streams :
          /\ WF_feedVars(Hello(s)) /\ SF_feedVars(ApplyProxyPatch(s))
          /\ WF_feedVars(ServesFetch(s) \/ Fetched(s))
          /\ WF_feedVars(CloseChan(s) /\ UNCHANGED <<proxy, handler, patches, panel>>)
          /\ WF_feedVars(StreamCloses(s) /\ UNCHANGED <<proxy, handler, patches, panel>>)
          /\ SF_feedVars(Ping(s) /\ UNCHANGED <<proxy, handler, patches, panel>>)

FeedSpec == FeedInit /\ [][FeedNext]_feedVars /\ FeedFairness
-----------------------------------------------------------------------------
(* What the panel shows.                                                   *)

\* A stream whose session is over comes to its end (sessionAlive): it does not
\* go on for a panel nobody is signed in to.
StreamsEnd == \A s \in Streams : s \notin signedIn ~> streams[s].pc = "off"

\* Patches may come out of order and leave a wrong copy; a panel that connects
\* again when nothing changes any more shows the proxy as it is, whatever it was
\* waiting for when it lost its stream (dispatchEvent of hello).
Settled == published = MaxEvents /\ \A h \in Handlers : handler[h] = Idle
ReconnectHeals ==
    \A s \in Streams :
        (Settled /\ streams[s].pc = "hello" /\ chans[s].queue = <<>> /\ panel[s].copy # "none")
            ~> (panel[s].copy = proxy \/ streams[s].pc = "off")
=============================================================================
