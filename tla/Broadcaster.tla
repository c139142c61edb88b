---------------------------- MODULE Broadcaster ----------------------------
(***************************************************************************)
(* The fan-out of log lines, internal/broadcast/broadcast.go: subscribers  *)
(* are buffered channels, recent values are kept and sent again to each    *)
(* new subscriber, and a send never waits for a subscriber.                *)
(*                                                                         *)
(* Every call is one critical section of Broadcaster.mu and one action     *)
(* here.  Receive is the subscriber's end of its channel.                  *)
(***************************************************************************)
EXTENDS BroadcasterSizes, Sequences

CONSTANTS
    Readers,        \* subscribers; each has one channel at a time
    Values          \* what is broadcast

VARIABLES
    history,        \* the values kept, oldest first
    subs,           \* the subscribers
    chan            \* the channel of each reader, registered or not

broadcasterVars == <<history, subs, chan>>

Channel == [values : Seq(Values), room : Nat, closed : BOOLEAN]

NoChannel == [values |-> <<>>, room |-> 0, closed |-> FALSE]

BroadcasterInit ==
    /\ history = <<>>
    /\ subs = {}
    /\ chan = [r \in Readers |-> NoChannel]

\* The history with one more value, the oldest dropped when it is full.
Retain(v) ==
    IF HistSize = 0 THEN history
    ELSE Append(IF Len(history) >= HistSize THEN Tail(history) ELSE history, v)

\* A send to a full channel is skipped.
Send(c, v) == IF Len(c.values) < c.room THEN [c EXCEPT !.values = Append(@, v)] ELSE c

\* The code before it was mended: a channel of the usual room, which the replay
\* filled with the oldest values.
ReplayIntoUsualRoom == [values |-> SubSeq(history, 1, IF Len(history) < ChanCap THEN Len(history) ELSE ChanCap),
                        room |-> ChanCap, closed |-> FALSE]

\* A new channel: the history, and room for ChanCap values more.
Replay == [values |-> history, room |-> Len(history) + ChanCap, closed |-> FALSE]

Subscribe(r) ==
    /\ r \notin subs
    /\ subs' = subs \cup {r}
    /\ chan' = [chan EXCEPT ![r] = Replay]
    /\ UNCHANGED history

Unsubscribe(r) ==
    /\ subs' = subs \ {r}
    /\ UNCHANGED <<history, chan>>

Broadcast(v) ==
    /\ history' = Retain(v)
    /\ chan' = [r \in Readers |-> IF r \in subs THEN Send(chan[r], v) ELSE chan[r]]
    /\ UNCHANGED subs

\* The channels keep what is in them.
ClearHistory == history' = <<>> /\ UNCHANGED <<subs, chan>>

\* The channels are closed; what is in them can still be received.
CloseSubscribers ==
    /\ subs' = {}
    /\ chan' = [r \in Readers |-> IF r \in subs THEN [chan[r] EXCEPT !.closed = TRUE] ELSE chan[r]]
    /\ UNCHANGED history

Receive(r) ==
    /\ chan[r].values # <<>>
    /\ chan' = [chan EXCEPT ![r].values = Tail(@)]
    /\ UNCHANGED <<history, subs>>

BroadcasterNext ==
    \/ \E r \in Readers : Subscribe(r) \/ Unsubscribe(r) \/ Receive(r)
    \/ \E v \in Values : Broadcast(v)
    \/ ClearHistory \/ CloseSubscribers

BroadcasterSpec == BroadcasterInit /\ [][BroadcasterNext]_broadcasterVars

-----------------------------------------------------------------------------
\* Types, and that no more values are kept than New was asked to keep.
BroadcasterTypeOK ==
    /\ history \in Seq(Values) /\ Len(history) <= HistSize
    /\ subs \subseteq Readers
    /\ chan \in [Readers -> Channel]

\* The replay and every send fit: a Go channel never holds more than its room, so
\* that no send can wait while the lock is held.
NeverBlocks == \A r \in Readers : Len(chan[r].values) <= chan[r].room

\* Broadcast and CloseSubscribers only meet open channels: to send to a closed
\* channel, or to close it again, ends the program.
OnlyOpenSubscribed == \A r \in subs : ~chan[r].closed
=============================================================================
