----------------------------- MODULE EventRouter -----------------------------
(***************************************************************************)
(* The topic-partitioned publish/subscribe hub of a node                   *)
(* (vrrb_core::event_router::EventRouter).  Producers hold clones of one   *)
(* unbounded fan-in sender (events_tx) and publish DirectedEvents          *)
(* (topic, event); a single dispatch loop takes them in arrival order and  *)
(* pushes a copy to the bounded queue of every endpoint subscribed to the  *)
(* topic, waiting while a queue is full.                                   *)
(*                                                                         *)
(* The router's own code is not among the sources of this project: it is   *)
(* modelled from the specification (sections 3, 4.1 and 5).  What the node *)
(* does with it (the topics, capacities and subscriptions of node.rs) is   *)
(* modelled in module Node, which instantiates this one.                   *)
(***************************************************************************)
EXTENDS Naturals, Sequences, FiniteSets, SequencesExt

CONSTANTS
    Topics,           \* the Topic enumeration
    Subscribers,      \* identities of the receiving endpoints
    Holders,          \* parties that may own a clone of the fan-in sender
    Stop,             \* Event::Stop
    NoEvent,          \* "the dispatch loop holds no event"
    MaxPublished,     \* bound: events published through the fan-in sender
    StopEndsDispatch  \* TRUE: the loop returns after forwarding a Stop;
                      \* FALSE: only a closed inbound stream ends it (4.1)

ASSUME /\ MaxPublished \in Nat
       /\ StopEndsDispatch \in BOOLEAN
       /\ Stop # NoEvent

\* Payload events are told apart by the order in which they were published.
Payloads == 1..MaxPublished
Events   == Payloads \cup {Stop}

VARIABLES
    capacity,     \* [Topics -> Nat]      queue bound per topic, 0 = undeclared
    subscribers,  \* [Topics -> Seq(Subscribers)]   in subscription order
    queues,       \* [Subscribers -> Seq(Events)]   one bounded queue each
    open,         \* endpoints whose receiving end is still alive
    inbound,      \* the fan-in stream, a FIFO of <<topic, event>>
    senders,      \* holders of a live clone of the fan-in sender
    routerPc,     \* "new" | "recv" | "push" | "done" | "dropped"
    pending,      \* the event being fanned out and the endpoints still owed it
    dispatched,   \* history: per topic, the events the loop has taken
    delivered     \* history: per endpoint, the events its owner has received

routerVars == <<capacity, subscribers, queues, open, inbound, senders,
                routerPc, pending, dispatched, delivered>>

Idle == [ev |-> NoEvent, to |-> <<>>]

\* The topic an endpoint was subscribed to.
TopicOf(s) == CHOOSE t \in Topics : Contains(subscribers[t], s)

Subscribed == UNION {ToSet(subscribers[t]) : t \in Topics}

\* Every event that ever entered the fan-in stream is either still in it or
\* in the dispatch history.
NumPublished ==
    Len(inbound) + FoldFunction(LAMBDA q, n : Len(q) + n, 0, dispatched)

-----------------------------------------------------------------------------
(* Construction: add_topic and subscribe, both before the loop is started. *)

AddTopic(t, c) ==
    /\ routerPc = "new"
    /\ capacity[t] = 0
    /\ capacity' = [capacity EXCEPT ![t] = c]
    /\ UNCHANGED <<subscribers, queues, open, inbound, senders, routerPc,
                   pending, dispatched, delivered>>

\* subscribe() on an undeclared topic is an error and changes nothing.
Subscribe(s, t) ==
    /\ routerPc = "new"
    /\ capacity[t] > 0
    /\ s \notin Subscribed
    /\ subscribers' = [subscribers EXCEPT ![t] = Append(@, s)]
    /\ open' = open \cup {s}
    /\ UNCHANGED <<capacity, queues, inbound, senders, routerPc, pending,
                   dispatched, delivered>>

Start ==
    /\ routerPc = "new"
    /\ routerPc' = "recv"
    /\ UNCHANGED <<capacity, subscribers, queues, open, inbound, senders,
                   pending, dispatched, delivered>>

-----------------------------------------------------------------------------
(* Producers.  The fan-in channel is unbounded: a send never waits, and it *)
(* fails only when the receiving half is gone.                             *)

InboundOpen == routerPc \in {"new", "recv", "push"}

Send(d) == inbound' = Append(inbound, d)

Publish(h, t, e) ==
    /\ h \in senders
    /\ InboundOpen
    /\ NumPublished < MaxPublished
    /\ Send(<<t, e>>)
    /\ UNCHANGED <<capacity, subscribers, queues, open, senders, routerPc,
                   pending, dispatched, delivered>>

DropSender(h) ==
    /\ h \in senders
    /\ senders' = senders \ {h}
    /\ UNCHANGED <<capacity, subscribers, queues, open, inbound, routerPc,
                   pending, dispatched, delivered>>

-----------------------------------------------------------------------------
(* The dispatch loop.                                                      *)

\* Where the loop goes once every subscriber of the topic has its copy.
AfterFanOut(ev) ==
    IF StopEndsDispatch /\ ev = Stop THEN "done" ELSE "recv"

\* The loop is left owing ev to the endpoints in rest.
Owe(ev, rest) ==
    IF rest = <<>>
    THEN /\ pending' = Idle
         /\ routerPc' = AfterFanOut(ev)
    ELSE /\ pending' = [ev |-> ev, to |-> rest]
         /\ routerPc' = "push"

RouterRecv ==
    /\ routerPc = "recv"
    /\ inbound # <<>>
    /\ LET t == Head(inbound)[1]
           e == Head(inbound)[2]
       IN /\ inbound' = Tail(inbound)
          /\ dispatched' = [dispatched EXCEPT ![t] = Append(@, e)]
          /\ Owe(e, subscribers[t])
    /\ UNCHANGED <<capacity, subscribers, queues, open, senders, delivered>>

\* A queue that is exactly full is taken to have room.
MutHasRoomOffByOne(s) == Len(queues[s]) <= capacity[TopicOf(s)]

\* The queue of s has room for one more event.
HasRoom(s) == Len(queues[s]) < capacity[TopicOf(s)]

\* A full queue is passed over instead of being waited for.
MutPassedOverWhenFull(s) == s \notin open \/ ~HasRoom(s)

\* A departed endpoint is waited for like a full one.
MutPassedOverNever(s) == FALSE

\* An endpoint whose receiving end is gone gets no copy.
PassedOver(s) == s \notin open

\* One push of the fan-out: the next endpoint gets its copy once its queue
\* has room, unless it is passed over.
RouterPush ==
    /\ routerPc = "push"
    /\ LET s == Head(pending.to)
       IN /\ \/ /\ ~PassedOver(s)
                /\ s \in open
                /\ HasRoom(s)
                /\ queues' = [queues EXCEPT ![s] = Append(@, pending.ev)]
             \/ /\ PassedOver(s)
                /\ UNCHANGED queues
          /\ Owe(pending.ev, Tail(pending.to))
    /\ UNCHANGED <<capacity, subscribers, open, inbound, senders, dispatched,
                   delivered>>

\* The inbound stream is closed and drained.
StreamEnded == inbound = <<>> /\ senders = {}

\* The loop's normal end.
RouterExit ==
    /\ routerPc = "recv"
    /\ StreamEnded
    /\ routerPc' = "done"
    /\ UNCHANGED <<capacity, subscribers, queues, open, inbound, senders,
                   pending, dispatched, delivered>>

-----------------------------------------------------------------------------
(* Consumers.                                                              *)

\* The owner drops the receiving end; what was queued is gone with it.
Close(s) ==
    /\ open' = open \ {s}
    /\ queues' = [queues EXCEPT ![s] = <<>>]

\* The queue is read from the wrong end.
MutOldestIsNewest(queue) == Last(queue)

\* The event a receive returns.
Oldest(queue) == Head(queue)

\* The owner of endpoint s takes the oldest event of its queue and either
\* keeps the endpoint for the next one or drops it.
Receive(s, keep) ==
    /\ s \in open
    /\ queues[s] # <<>>
    /\ delivered' = [delivered EXCEPT ![s] = Append(@, Oldest(queues[s]))]
    /\ \/ keep /\ queues' = [queues EXCEPT ![s] = Tail(@)] /\ UNCHANGED open
       \/ ~keep /\ Close(s)

Consume(s) ==
    /\ Receive(s, TRUE)
    /\ UNCHANGED <<capacity, subscribers, inbound, senders, routerPc,
                   pending, dispatched>>

CloseReceiver(s) ==
    /\ s \in open
    /\ Close(s)
    /\ UNCHANGED <<capacity, subscribers, inbound, senders, routerPc,
                   pending, dispatched, delivered>>

-----------------------------------------------------------------------------
CONSTANT Capacities   \* the capacities a topic may be declared with

\* A router just built, with nothing declared and nothing published.
Fresh ==
    /\ capacity = [t \in Topics |-> 0]
    /\ subscribers = [t \in Topics |-> <<>>]
    /\ queues = [s \in Subscribers |-> <<>>]
    /\ open = {}
    /\ inbound = <<>>
    /\ routerPc = "new"
    /\ pending = Idle
    /\ dispatched = [t \in Topics |-> <<>>]
    /\ delivered = [s \in Subscribers |-> <<>>]

Init == Fresh /\ senders = Holders

Dispatch == RouterRecv \/ RouterPush \/ RouterExit

Next ==
    \/ \E t \in Topics, c \in Capacities : AddTopic(t, c)
    \/ \E s \in Subscribers, t \in Topics : Subscribe(s, t)
    \/ Start
    \/ \E h \in Holders, t \in Topics :
          \/ Publish(h, t, NumPublished + 1)
          \/ Publish(h, t, Stop)
    \/ \E h \in Holders : DropSender(h)
    \/ Dispatch
    \/ \E s \in Subscribers : Consume(s) \/ CloseReceiver(s)

\* The loop is a spawned task and every live consumer keeps receiving; what
\* is declared, who subscribes, who publishes and who goes away is up to the
\* environment.
Fairness ==
    /\ WF_routerVars(Start)
    /\ WF_routerVars(Dispatch)
    /\ \A s \in Subscribers : WF_routerVars(Consume(s))

Spec == Init /\ [][Next]_routerVars /\ Fairness

-----------------------------------------------------------------------------
\* The types of the variables; a queue is a sequence bounded by the
\* capacity its topic was declared with (backpressure, 4.1 and 8: the loop
\* waits instead of overfilling a subscriber's queue).
TypeOK ==
    /\ capacity \in [Topics -> Nat]
    /\ subscribers \in [Topics -> Seq(Subscribers)]
    /\ \A s \in Subscribers : queues[s] \in Seq(Events)
    /\ \A s \in Subscribed : Len(queues[s]) <= capacity[TopicOf(s)]
    /\ open \subseteq Subscribed
    /\ inbound \in Seq(Topics \X Events)
    /\ senders \subseteq Holders
    /\ routerPc \in {"new", "recv", "push", "done", "dropped"}
    /\ pending.ev \in Events \cup {NoEvent}
    /\ pending.to \in Seq(Subscribers)
    /\ (routerPc = "push") = (pending # Idle)
    /\ \A t \in Topics : dispatched[t] \in Seq(Events)
    /\ \A s \in Subscribers : delivered[s] \in Seq(Events)

\* The endpoint s is still owed the event the loop is fanning out.
Owed(s) == routerPc = "push" /\ Contains(pending.to, s)

\* FIFO per (topic, subscriber), no loss, no duplicate (4.1, 5, 8): what a
\* live subscriber has received followed by what waits in its queue is
\* exactly the sequence of events dispatched on its topic, in dispatch
\* order, short only of the event the fan-out still owes it.
InOrderNoLoss ==
    \A s \in open :
        LET all == dispatched[TopicOf(s)]
        IN delivered[s] \o queues[s] = IF Owed(s) THEN Front(all) ELSE all

\* Nothing is left in flight.
Quiescent ==
    /\ routerPc \in {"recv", "done"}
    /\ routerPc = "recv" => inbound = <<>>
    /\ \A s \in open : queues[s] = <<>>

\* No-loss delivery is live (4.1, 5): with a running dispatch loop and
\* subscribers that keep receiving, every published event is eventually
\* taken off the stream, fanned out and received; a slow or departed
\* subscriber delays the loop but never wedges it.
EventuallyQuiescent == <>[]Quiescent

\* The router implements the publish/subscribe service of module PubSub
\* (4.1, 5): the events the loop has taken are the log of their topic, and
\* every receive of a live endpoint returns the next event of that log --
\* queues, capacities, the fan-out in progress and the end of the loop are
\* not visible to a subscriber, and none of them keeps an event from one
\* that goes on receiving.
PS == INSTANCE PubSub
        WITH subs <- subscribers, live <- open, log <- dispatched,
             seen <- delivered

ImplementsPubSub == PS!Spec

=============================================================================
