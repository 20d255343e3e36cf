------------------------------- MODULE PubSub -------------------------------
(***************************************************************************)
(* What the event router promises the modules of a node (specification     *)
(* 4.1 and 5), without queues, capacities or a dispatch loop: every topic  *)
(* has one log of the events published on it, and a subscriber reads the   *)
(* log of its topic from the start, one event at a time, in order, until   *)
(* it leaves.                                                              *)
(***************************************************************************)
EXTENDS Naturals, Sequences, SequencesExt

CONSTANTS Topics, Subscribers, Events

VARIABLES
    subs,   \* per topic, its subscribers in the order they subscribed
    live,   \* the subscribers that have not left
    log,    \* per topic, the events published on it
    seen    \* per subscriber, the events it has read

vars == <<subs, live, log, seen>>

\* Subscribers join while nothing is published yet, each on one topic.
Join ==
    /\ \A t \in Topics : log[t] = <<>> /\ IsPrefix(subs[t], subs'[t])
    /\ \A t, u \in Topics : t # u => ToSet(subs'[t]) \cap ToSet(subs'[u]) = {}
    /\ \A t \in Topics : IsInjective(subs'[t])
    /\ subs' # subs
    /\ live' = live \cup UNION {ToSet(subs'[t]) \ ToSet(subs[t]) : t \in Topics}
    /\ UNCHANGED <<log, seen>>

Publish(t, e) ==
    /\ log' = [log EXCEPT ![t] = Append(@, e)]
    /\ UNCHANGED <<subs, live, seen>>

\* A subscriber reads the next event of its topic, and may leave with it.
Read(s) ==
    /\ s \in live
    /\ \E t \in Topics :
          /\ Contains(subs[t], s)
          /\ Len(seen[s]) < Len(log[t])
          /\ seen' = [seen EXCEPT ![s] = Append(@, log[t][Len(@) + 1])]
    /\ live' \in {live, live \ {s}}
    /\ UNCHANGED <<subs, log>>

Leave ==
    /\ live' \subseteq live
    /\ live' # live
    /\ UNCHANGED <<subs, log, seen>>

Init ==
    /\ subs = [t \in Topics |-> <<>>]
    /\ live = {}
    /\ log = [t \in Topics |-> <<>>]
    /\ seen = [s \in Subscribers |-> <<>>]

Next ==
    \/ Join
    \/ \E t \in Topics, e \in Events : Publish(t, e)
    \/ \E s \in Subscribers : Read(s)
    \/ Leave

\* A subscriber that stays reads on: no event of its log is kept from it.
Spec == Init /\ [][Next]_vars /\ \A s \in Subscribers : WF_vars(Read(s))

=============================================================================
