------------------------------ MODULE EventBus ------------------------------
(***************************************************************************)
(* The event bus and the streams that read it (internal/eventbus bus.go,   *)
(* internal/httpapi sse.go).  Events are numbered as they are published;   *)
(* every stream here has subscribed to their topic.  The channel of a      *)
(* subscriber is its buffer; close lets its reader have what is in it.     *)
(***************************************************************************)
EXTENDS Naturals, Sequences

CONSTANTS
    Streams,            \* event streams, each with the cookie of a session
    Buffer,             \* DefaultSubscriberBuffer
    SessionCheckStep,   \* pings between two looks at the session
    MaxEvents           \* bound of the model: events published

ASSUME BusAssumption == {Buffer, SessionCheckStep, MaxEvents} \subseteq Nat \ {0}

VARIABLES
    published,  \* events published
    subs,       \* MemBus.subs
    chans,      \* the channel of each stream: what is in it, whether it is closed
    streams,    \* where each stream is, the last event it wrote, its pings
    signedIn,   \* streams whose session is still there
    busClosed   \* MemBus.closed

busVars == <<published, subs, chans, streams, signedIn, busClosed>>

NoStream == [pc |-> "off", last |-> 0, ticks |-> 0]
EmptyChan == [queue |-> <<>>, closed |-> FALSE]

BusTypeOK ==
    /\ published \in 0 .. MaxEvents /\ subs \subseteq Streams /\ signedIn \subseteq Streams /\ busClosed \in BOOLEAN
    /\ \A s \in Streams : /\ chans[s].queue \in Seq(1 .. MaxEvents) /\ Len(chans[s].queue) <= Buffer
                          /\ chans[s].closed \in BOOLEAN
    /\ streams \in [Streams -> [pc: {"off", "hello", "on"}, last: 0 .. MaxEvents, ticks: 0 .. SessionCheckStep - 1]]

BusInit ==
    /\ published = 0 /\ subs = {} /\ chans = [s \in Streams |-> EmptyChan]
    /\ streams = [s \in Streams |-> NoStream] /\ signedIn = Streams /\ busClosed = FALSE

Full(s) == Len(chans[s].queue) = Buffer
-----------------------------------------------------------------------------
(* MemBus.                                                                 *)

\* A subscriber that lags misses the event.
Bug_MemPublish ==
    /\ published < MaxEvents /\ published' = published + 1
    /\ chans' = [s \in Streams |-> IF s \in subs /\ ~Full(s)
                                   THEN [chans[s] EXCEPT !.queue = Append(@, published')] ELSE chans[s]]
    /\ UNCHANGED <<subs, streams, signedIn, busClosed>>

\* MemBus.Publish: never waits; who lags is a subscriber no more, and its
\* channel is closed once the lock is free.
MemPublish ==
    /\ published < MaxEvents /\ published' = published + 1
    /\ chans' = [s \in Streams |-> IF s \in subs /\ ~busClosed /\ ~Full(s)
                                   THEN [chans[s] EXCEPT !.queue = Append(@, published')] ELSE chans[s]]
    /\ subs' = IF busClosed THEN subs ELSE {s \in subs : ~Full(s)}
    /\ UNCHANGED <<streams, signedIn, busClosed>>

\* subscriber.close, of Publish and of Close.
CloseChan(s) ==
    /\ s \notin subs /\ streams[s].pc # "off" /\ ~chans[s].closed
    /\ chans' = [chans EXCEPT ![s].closed = TRUE]
    /\ UNCHANGED <<published, subs, streams, signedIn, busClosed>>

\* MemBus.Close: the last of the daemon's closers.
BusCloses ==
    /\ ~busClosed /\ busClosed' = TRUE /\ subs' = {}
    /\ UNCHANGED <<published, chans, streams, signedIn>>
-----------------------------------------------------------------------------
(* API.events.                                                             *)

\* RequireSession lets the request in; MemBus.Subscribe.
Subscribe(s) ==
    /\ streams[s].pc = "off" /\ s \in signedIn /\ ~busClosed
    /\ subs' = subs \cup {s} /\ chans' = [chans EXCEPT ![s] = EmptyChan]
    /\ streams' = [streams EXCEPT ![s] = [NoStream EXCEPT !.pc = "hello", !.last = published]]
    /\ UNCHANGED <<published, signedIn, busClosed>>

\* The first thing a stream writes.
WriteHello(s) ==
    /\ streams[s].pc = "hello" /\ streams' = [streams EXCEPT ![s].pc = "on"]
    /\ UNCHANGED <<published, subs, chans, signedIn, busClosed>>

\* writeEvent of the next event in the channel.
WriteEvent(s) ==
    /\ streams[s].pc = "on" /\ chans[s].queue # <<>>
    /\ streams' = [streams EXCEPT ![s].last = Head(chans[s].queue)]
    /\ chans' = [chans EXCEPT ![s].queue = Tail(@)]
    /\ UNCHANGED <<published, subs, signedIn, busClosed>>

\* The deferred cancel of the subscription.
Cancel(s) ==
    /\ streams' = [streams EXCEPT ![s] = NoStream]
    /\ subs' = subs \ {s} /\ chans' = [chans EXCEPT ![s] = EmptyChan]

\* The channel is closed and empty.
StreamCloses(s) ==
    /\ streams[s].pc = "on" /\ chans[s].closed /\ chans[s].queue = <<>> /\ Cancel(s)
    /\ UNCHANGED <<published, signedIn, busClosed>>

\* The browser goes away.
StreamCanceled(s) == streams[s].pc = "on" /\ Cancel(s) /\ UNCHANGED <<published, signedIn, busClosed>>

\* A ping; the session is looked at with the first only.
Bug_Ping(s) ==
    /\ streams[s].pc = "on" /\ streams[s].ticks < SessionCheckStep - 1
    /\ streams' = [streams EXCEPT ![s].ticks = @ + 1]
    /\ UNCHANGED <<published, subs, chans, signedIn, busClosed>>

\* The ticker: a ping, and every SessionCheckStep pings sessionAlive.
Ping(s) ==
    /\ streams[s].pc = "on"
    /\ LET t == (streams[s].ticks + 1) % SessionCheckStep
       IN  IF t = 0 /\ s \notin signedIn THEN Cancel(s)
           ELSE streams' = [streams EXCEPT ![s].ticks = t] /\ UNCHANGED <<subs, chans>>
    /\ UNCHANGED <<published, signedIn, busClosed>>

\* The session expires or is revoked.
SessionEnds(s) ==
    /\ s \in signedIn /\ signedIn' = signedIn \ {s}
    /\ UNCHANGED <<published, subs, chans, streams, busClosed>>

\* Somebody signs in again.
SessionBegins(s) ==
    /\ s \notin signedIn /\ streams[s].pc = "off" /\ signedIn' = signedIn \cup {s}
    /\ UNCHANGED <<published, subs, chans, streams, busClosed>>
-----------------------------------------------------------------------------
(* What a stream promises.                                                 *)

Numbers(from, to) == [i \in 1 .. to - from |-> from + i]

\* What a stream has written and what is in its channel has no gap, and for as
\* long as it is a subscriber nothing is missing at the end either: a patch is
\* never dropped silently (docs/EVENTS.md, MemBus.Publish).
NoGap ==
    \A s \in Streams : streams[s].pc # "off" =>
        LET end == streams[s].last + Len(chans[s].queue)
        IN  /\ chans[s].queue = Numbers(streams[s].last, end)
            /\ s \in subs => end = published
=============================================================================
