----------------------------- MODULE OrderStreams -----------------------------
(***************************************************************************)
(* The order streams of one gateway process (services/gateway, routes.ts): *)
(* a customer's order, a customer's orders, a location's orders. Each is a *)
(* request that fetches what it will show, takes a capacity lease, writes  *)
(* a snapshot, and then relays the order events of the EventBusSubscriber  *)
(* (packages/event-bus) and polls the orders service.                      *)
(*                                                                         *)
(* One order is saved several times; revision n is what the n-th save      *)
(* stored, and with LastRevision the order is COMPLETED or CANCELED. All   *)
(* the streams are about that order and its one location.                  *)
(***************************************************************************)
EXTENDS Naturals, FiniteSets, Sequences

CONSTANTS
    Streams,         \* requests for a stream, of any kind
    KindsOfStreams,  \* what the requests are for: a set of functions
    EventBuses,      \* whether REDIS_URL is configured: a set of BOOLEANs
    MaxOpenStreams,  \* GATEWAY_ORDER_STREAM_MAX_GLOBAL / _PER_LOCATION
    LastRevision,    \* bound: saves of the order
    MaxStreamFaults, \* bound: fetches, Redis commands, publications that fail
    Nobody

(* The kind also names the channel: order_status:<id>, order_events:*, and  *)
(* order_events:<location>.                                                 *)
StreamKinds == {"order", "orders", "admin"}

ASSUME StreamsOK ==
    /\ KindsOfStreams \subseteq [Streams -> StreamKinds]
    /\ EventBuses \subseteq BOOLEAN
    /\ MaxOpenStreams \in Nat \ {0}
    /\ LastRevision \in Nat /\ MaxStreamFaults \in Nat
    /\ Nobody \notin Streams

VARIABLES
    kind,        \* which of the three routes each request is for
    eventBus,    \* whether the services have an event bus
    revision,    \* the stored order
    unpublished, \* revisions saved whose handler has yet to publish them
    connection,  \* the subscriber's Redis connection
    commands,    \* (un)subscribe commands on their way to Redis, in order
    channels,    \* channels Redis relays to the gateway
    relayed,     \* messages on their way to the gateway, in order
    current,     \* EventBusSubscriber.handlers: the channel's Set of handlers,
                 \* named by the stream that made it
    stream,      \* the requests
    openStreams, \* OrderStreamCapacityTracker.globalCount
    streamFaults \* faults so far

busVars    == <<connection, commands, channels, relayed, current>>
sourceVars == <<kind, eventBus, revision, unpublished>>
streamVars == <<sourceVars, busVars, stream, openStreams, streamFaults>>

Revisions   == 0..LastRevision
Messages    == [channel : StreamKinds, revision : Revisions]

BusCommands == [channel : StreamKinds, by : Streams \cup {Nobody}]
StreamRecords ==
    [phase : {"new", "asked", "open", "closed", "refused"},
     joining : {"no", "connect", "connecting", "subscribing", "replied", "joined"},
     set : Streams \cup {Nobody},    \* the Set its handler is in
     leased : BOOLEAN,
     poll : {"off", "timer", "asked"},
     got : Revisions, seen : Revisions, \* fetched; lastSeenRevision
     app : {"stream", "poll", "asked", "over"},
     told : BOOLEAN]   \* history: it showed that the order is over

StreamsTypeOK ==
    /\ kind \in KindsOfStreams /\ eventBus \in EventBuses
    /\ revision \in Revisions /\ unpublished \subseteq Revisions
    /\ connection \in {"new", "connecting", "started"}
    /\ commands \in Seq(BusCommands)
    /\ channels \subseteq StreamKinds /\ relayed \in Seq(Messages)
    /\ current \in [StreamKinds -> Streams \cup {Nobody}]
    /\ stream \in [Streams -> StreamRecords]
    /\ openStreams \in 0..MaxOpenStreams
    /\ streamFaults \in 0..MaxStreamFaults

NewStream == [phase |-> "new", joining |-> "no", set |-> Nobody,
              leased |-> FALSE, poll |-> "off", got |-> 0, seen |-> 0,
              app |-> "stream", told |-> FALSE]

StreamsInit ==
    /\ kind \in KindsOfStreams /\ eventBus \in EventBuses
    /\ revision = 0 /\ unpublished = {}
    /\ connection = "new" /\ commands = <<>> /\ channels = {} /\ relayed = <<>>
    /\ current = [k \in StreamKinds |-> Nobody]
    /\ stream = [s \in Streams |-> NewStream]
    /\ openStreams = 0 /\ streamFaults = 0

StreamFault ==
    /\ streamFaults < MaxStreamFaults
    /\ streamFaults' = streamFaults + 1

NoFault == UNCHANGED streamFaults

Terminal(r) == r = LastRevision

(* The app replaces what it shows. *)
Show(st, r) == [st EXCEPT !.told = @ \/ Terminal(r)]

(* sendEvent to an app that still reads the stream. *)
Send(st, r) == IF st.app = "stream" THEN Show(st, r) ELSE st

-----------------------------------------------------------------------------
(* The orders service: a handler saves the order, then publishes it on each *)
(* of its channels; handlers overlap, and a publication that fails is lost. *)

SaveOrderRevision ==
    /\ revision < LastRevision
    /\ revision' = revision + 1
    /\ unpublished' = IF eventBus THEN unpublished \cup {revision'} ELSE {}
    /\ UNCHANGED <<kind, eventBus, busVars, stream, openStreams, streamFaults>>

(* The event as Redis relays it, on the channels whose publication succeeds. *)
Relay(r, lost) ==
    LET Due(k) == IF k \in channels \ lost
                  THEN <<[channel |-> k, revision |-> r]>> ELSE <<>>
    IN  relayed \o Due("order") \o Due("admin") \o Due("orders")

(* publishOrderEvent is two publications, either of which may fail: that to *)
(* the order's channel, and that to the location's, on which the pattern of *)
(* a customer's list hears it too.                                          *)
PublishOrderEvent(r) ==
    /\ r \in unpublished
    /\ unpublished' = unpublished \ {r}
    /\ \/ relayed' = Relay(r, {}) /\ NoFault
       \/ /\ eventBus /\ StreamFault
          /\ \E lost \in {{"order"}, {"admin", "orders"}, StreamKinds} :
                relayed' = Relay(r, lost)
    /\ UNCHANGED <<kind, eventBus, revision, connection, commands, channels,
                   current, stream, openStreams>>

-----------------------------------------------------------------------------
(* Cleanup of a set of streams at once. Each handler leaves its Set; when   *)
(* that was its last one, the channel's entry is deleted and the channel    *)
(* unsubscribed, whichever Set the entry holds by then.                     *)

HandlersIn(maker) == {s \in Streams : stream[s].set = maker}

Emptied(gone) ==
    {k \in StreamKinds : \E s \in gone :
        /\ kind[s] = k /\ stream[s].joining = "joined"
        /\ stream[s].set # Nobody /\ HandlersIn(stream[s].set) \subseteq gone}

Unsubscribe(k) == [channel |-> k, by |-> Nobody]

LeaveBus(gone) ==
    /\ current' = [k \in StreamKinds |->
                     IF k \in Emptied(gone) THEN Nobody ELSE current[k]]
    /\ commands' = IF Emptied(gone) = {} THEN commands
                   ELSE Append(commands,
                               Unsubscribe(CHOOSE k \in Emptied(gone) : TRUE))

(* Mutant: the lease can be released again. *)
ReleaseTwice(gone) ==
    openStreams' = IF Cardinality(gone) > openStreams THEN 0
                   ELSE openStreams - Cardinality(gone)

(* release() of the lease: once, whatever calls it again. *)
Release(gone) ==
    openStreams' = openStreams - Cardinality({s \in gone : stream[s].leased})

Closed(st) ==
    [st EXCEPT !.phase = "closed", !.leased = FALSE, !.seen = 0,
               !.set = IF @ # Nobody /\ st.joining = "joined" THEN Nobody ELSE @,
               !.poll = IF @ = "timer" THEN "off" ELSE @]

(* Streams go to "next", and those in "gone" are cleaned up besides. *)
Settle(next, gone) ==
    /\ stream' = [s \in Streams |->
                    IF s \in gone THEN Closed(next[s]) ELSE next[s]]
    /\ LeaveBus(gone) /\ Release(gone)

Update(s, st) == [stream EXCEPT ![s] = st]

-----------------------------------------------------------------------------
(* Opening a stream.                                                        *)

(* The first fetch; its failure is the response. *)
FetchForStream(s) ==
    /\ stream[s].phase = "new"
    /\ \/ /\ stream' = Update(s, [stream[s] EXCEPT !.phase = "asked",
                                                   !.got = revision])
          /\ NoFault
       \/ /\ stream' = Update(s, [stream[s] EXCEPT !.phase = "refused"])
          /\ StreamFault
    /\ UNCHANGED <<sourceVars, busVars, openStreams>>

HasCapacity == openStreams < MaxOpenStreams

(* The headers, the snapshot, the timer. Only the admin stream sets its     *)
(* timer before it joins the event bus.                                     *)
Admitted(s) ==
    LET st == stream[s]
    IN  [Send(st, st.got) EXCEPT
            !.phase = "open", !.leased = TRUE, !.got = 0, !.seen = st.got,
            !.joining = IF eventBus THEN "connect" ELSE "no",
            !.poll = IF kind[s] = "admin" \/ ~eventBus THEN "timer" ELSE "off"]

(* The stream of an order that is over is closed at once. *)
AdmitStream(s) ==
    /\ stream[s].phase = "asked"
    /\ LET over == kind[s] = "order" /\ Terminal(stream[s].got)
       IN  \/ /\ ~HasCapacity
              /\ stream' = Update(s, [stream[s] EXCEPT !.phase = "refused", !.got = 0])
              /\ UNCHANGED openStreams
           \/ /\ HasCapacity /\ over
              /\ stream' = Update(s, [Closed(Admitted(s)) EXCEPT !.joining = "no"])
              /\ UNCHANGED openStreams
           \/ /\ HasCapacity /\ ~over
              /\ stream' = Update(s, Admitted(s))
              /\ openStreams' = openStreams + 1
    /\ UNCHANGED <<sourceVars, busVars, streamFaults>>

-----------------------------------------------------------------------------
(* addHandler. Neither await looks at what happened meanwhile.              *)

(* After a failed subscription the stream polls, the admin one as before. *)
Timer(st) == IF st.phase = "open" /\ st.poll = "off" THEN "timer" ELSE st.poll

JoinFailed(s) == Update(s, [stream[s] EXCEPT !.joining = "no", !.set = Nobody,
                                             !.poll = Timer(stream[s])])

(* The single-order stream no longer polls once it has joined. *)
Joined(s, maker) ==
    Update(s, [stream[s] EXCEPT !.joining = "joined", !.set = maker,
        !.poll = IF kind[s] = "orders" THEN Timer(stream[s]) ELSE @])

FindHandlerSet(s) ==
    LET k == kind[s]
    IN  IF current[k] = Nobody
        THEN /\ current' = [current EXCEPT ![k] = s]
             /\ commands' = Append(commands, [channel |-> k, by |-> s])
             /\ stream' = Update(s, [stream[s] EXCEPT !.joining = "subscribing"])
        ELSE /\ stream' = Joined(s, current[k])
             /\ UNCHANGED <<current, commands>>

(* connect() rejects while another stream's call is in progress. *)
JoinBus(s) ==
    /\ stream[s].joining = "connect"
    /\ CASE connection = "new" ->
              /\ connection' = "connecting"
              /\ stream' = Update(s, [stream[s] EXCEPT !.joining = "connecting"])
              /\ UNCHANGED <<commands, current>>
         [] connection = "connecting" ->
              stream' = JoinFailed(s) /\ UNCHANGED <<connection, commands, current>>
         [] OTHER -> FindHandlerSet(s) /\ UNCHANGED connection
    /\ UNCHANGED <<sourceVars, channels, relayed, openStreams, streamFaults>>

Connected(s) ==
    /\ stream[s].joining = "connecting"
    /\ \/ connection' = "started" /\ FindHandlerSet(s) /\ NoFault
       \/ /\ connection' = "new" /\ StreamFault
          /\ stream' = JoinFailed(s) /\ UNCHANGED <<current, commands>>
    /\ UNCHANGED <<sourceVars, channels, relayed, openStreams>>

(* Redis takes the next command. A subscription that fails leaves its empty *)
(* Set in the map.                                                          *)
RedisServes ==
    /\ commands # <<>>
    /\ commands' = Tail(commands)
    /\ LET k == Head(commands).channel
           s == Head(commands).by
       IN  \/ /\ s = Nobody /\ channels' = channels \ {k}
              /\ UNCHANGED stream /\ NoFault
           \/ /\ s # Nobody /\ channels' = channels \cup {k}
              /\ stream' = Update(s, [stream[s] EXCEPT !.joining = "replied"])
              /\ NoFault
           \/ /\ s # Nobody /\ StreamFault /\ UNCHANGED channels
              /\ stream' = JoinFailed(s)
    /\ UNCHANGED <<sourceVars, connection, relayed, current, openStreams>>

AddHandler(s) ==
    /\ stream[s].joining = "replied"
    /\ stream' = Joined(s, s)
    /\ UNCHANGED <<sourceVars, busVars, openStreams, streamFaults>>

-----------------------------------------------------------------------------
(* An open stream.                                                          *)

(* dispatch: every handler of the channel's current Set gets the event. The *)
(* list streams pass it on and keep lastSeenRevision; the single-order      *)
(* stream closes when the order is over.                                    *)
Dispatch ==
    /\ relayed # <<>>
    /\ LET k == Head(relayed).channel
           r == Head(relayed).revision
           To == IF current[k] = Nobody THEN {}
                 ELSE {s \in HandlersIn(current[k]) : stream[s].phase = "open"}
       IN  Settle([s \in Streams |->
                     IF s \notin To THEN stream[s]
                     ELSE [Send(stream[s], r) EXCEPT
                             !.seen = IF k = "order" THEN r ELSE @]],
                  IF k = "order" /\ Terminal(r) THEN To ELSE {})
    /\ relayed' = Tail(relayed)
    /\ UNCHANGED <<sourceVars, connection, channels, streamFaults>>

PollOrders(s) ==
    /\ stream[s].poll = "timer"
    /\ stream' = Update(s, [stream[s] EXCEPT !.poll = "asked", !.got = revision])
    /\ UNCHANGED <<sourceVars, busVars, openStreams, streamFaults>>

(* Mutant: the timer is not set again. *)
RefreshOnce(s) ==
    LET st == stream[s]
    IN  [IF st.got # st.seen THEN Send(st, st.got) ELSE st EXCEPT
            !.poll = "off", !.got = 0, !.seen = st.got]

(* A revision that was not seen is sent. The fetch may answer after the     *)
(* stream was closed; it then sends nothing and sets no timer.              *)
Refresh(s) ==
    LET st == stream[s]
    IN  IF st.phase # "open" THEN [st EXCEPT !.poll = "off", !.got = 0]
        ELSE [IF st.got # st.seen THEN Send(st, st.got) ELSE st EXCEPT
                !.poll = "timer", !.got = 0, !.seen = st.got]

RefreshSnapshot(s) ==
    /\ stream[s].poll = "asked"
    /\ Settle(Update(s, Refresh(s)),
              IF kind[s] = "order" /\ Terminal(stream[s].got) THEN {s} ELSE {})
    /\ UNCHANGED <<sourceVars, connection, channels, relayed, streamFaults>>

(* A poll that fails closes a customer's stream, and only him. *)
PollFails(s) ==
    /\ stream[s].poll = "asked"
    /\ StreamFault
    /\ LET st == stream[s]
           again == kind[s] = "admin" /\ st.phase = "open"
       IN  Settle(Update(s, [st EXCEPT !.got = 0,
                             !.poll = IF again THEN "timer" ELSE "off"]),
                  IF kind[s] = "admin" THEN {} ELSE {s})
    /\ UNCHANGED <<sourceVars, connection, channels, relayed>>

-----------------------------------------------------------------------------
(* The apps.                                                                *)

(* The app is closed or goes to the background. Before the gateway listens  *)
(* for it, the request's "close" event is missed.                           *)
LeaveStream(s) ==
    /\ stream[s].app # "over" /\ stream[s].phase # "new"
    /\ Settle(Update(s, [stream[s] EXCEPT !.app = "over"]),
              IF stream[s].phase = "open" THEN {s} ELSE {})
    /\ UNCHANGED <<sourceVars, connection, channels, relayed, streamFaults>>

StreamEnds(s) == stream[s].app = "stream" /\ stream[s].phase \in {"closed", "refused"}

(* A list that is refused or ends is polled by its app from then on. *)
FallBack(s) ==
    /\ StreamEnds(s)
    /\ stream' = Update(s, [stream[s] EXCEPT
                     !.app = IF kind[s] = "order" THEN "over" ELSE "poll"])
    /\ UNCHANGED <<sourceVars, busVars, openStreams, streamFaults>>

ListOrders(s) ==
    /\ stream[s].app = "poll"
    /\ stream' = Update(s, [stream[s] EXCEPT !.app = "asked", !.got = revision])
    /\ UNCHANGED <<sourceVars, busVars, openStreams, streamFaults>>

ShowOrders(s) ==
    /\ stream[s].app = "asked"
    /\ stream' = Update(s, [stream[s] EXCEPT
                     !.app = "poll", !.got = 0,
                     !.told = @ \/ Terminal(stream[s].got)])
    /\ UNCHANGED <<sourceVars, busVars, openStreams, streamFaults>>

-----------------------------------------------------------------------------
StreamStep(s) ==
    \/ AdmitStream(s) \/ JoinBus(s) \/ Connected(s) \/ AddHandler(s)
    \/ PollOrders(s) \/ RefreshSnapshot(s)
    \/ FallBack(s) \/ ListOrders(s) \/ ShowOrders(s)

BusStep == RedisServes \/ Dispatch \/ \E r \in Revisions : PublishOrderEvent(r)

StreamsNext ==
    \/ SaveOrderRevision \/ BusStep
    \/ \E s \in Streams :
          FetchForStream(s) \/ StreamStep(s) \/ PollFails(s) \/ LeaveStream(s)

(* Timers fire, Redis and the orders service answer, processes go on.       *)
(* Nobody has to save the order again, open a stream or leave it.           *)
StreamsFairness ==
    /\ WF_streamVars(RedisServes) /\ WF_streamVars(Dispatch)
    /\ WF_streamVars(\E r \in Revisions : PublishOrderEvent(r))
    /\ \A s \in Streams :
         /\ WF_streamVars(AdmitStream(s) \/ FallBack(s))
         /\ WF_streamVars(JoinBus(s) \/ Connected(s) \/ AddHandler(s))
         /\ WF_streamVars(PollOrders(s) \/ RefreshSnapshot(s))
         /\ WF_streamVars(ListOrders(s) \/ ShowOrders(s))

StreamsSpec == StreamsInit /\ [][StreamsNext]_streamVars /\ StreamsFairness
-----------------------------------------------------------------------------
(* "Releases order stream capacity after terminal stream cleanup"           *)
(* (gateway.test.ts:2860): the counter is the number of open streams, which *)
(* is within the cap, however terminal events, late polls and disconnects   *)
(* clean a stream up more than once.                                        *)
CapacityHonoured ==
    /\ openStreams <= MaxOpenStreams
    /\ openStreams = Cardinality({s \in Streams : stream[s].phase = "open"})

(* An open stream of a list, or of a single order without an event bus, is  *)
(* never left without its polls, whatever subscription failed or was never  *)
(* answered: it polls, or it is still joining the bus and its command is    *)
(* on its way. And what it has sent last, its app has shown.                *)
Subscribing(s) ==
    \/ stream[s].joining \in {"connect", "connecting", "replied"}
    \/ /\ stream[s].joining = "subscribing"
       /\ \E i \in DOMAIN commands : commands[i].by = s

KeepsPolling ==
    \A s \in Streams : stream[s].phase = "open" =>
        /\ kind[s] = "admin" \/ ~eventBus => stream[s].poll # "off"
        /\ kind[s] = "orders" => stream[s].poll # "off" \/ Subscribing(s)
        /\ stream[s].app = "stream" /\ stream[s].seen = LastRevision => stream[s].told

(* Whoever watches a list, or a single order without an event bus, gets to  *)
(* see that the order is over: publications that are lost, subscriptions    *)
(* that fail and streams that end are made up for by polling. It need not   *)
(* stay on the screen: an event published late overwrites a list, and the   *)
(* polls that follow find nothing new to send.                              *)
Watching(s) == stream[s].phase # "new" /\ stream[s].app # "over"

LastIsShown ==
    \A s \in Streams :
        revision = LastRevision /\ Watching(s) /\ (kind[s] # "order" \/ ~eventBus)
            ~> stream[s].told \/ ~Watching(s)

(* "closes the order stream after sending a terminal update"                *)
(* (gateway.test.ts:3006).                                                  *)
TerminalClosesStream ==
    \A s \in Streams :
        revision = LastRevision /\ kind[s] = "order" /\ stream[s].phase = "open"
            ~> stream[s].phase = "closed"
=============================================================================
