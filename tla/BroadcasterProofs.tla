-------------------------- MODULE BroadcasterProofs --------------------------
(***************************************************************************)
(* A broadcast waits for nobody and meets only open channels, for all      *)
(* numbers of readers and all sizes of the history and of the channels.    *)
(***************************************************************************)
EXTENDS Broadcaster, TLAPS

FanOutInv == BroadcasterTypeOK /\ NeverBlocks /\ OnlyOpenSubscribed

LEMMA RetainKeeps ==
    ASSUME history \in Seq(Values), Len(history) <= HistSize, NEW v \in Values
    PROVE  Retain(v) \in Seq(Values) /\ Len(Retain(v)) <= HistSize
  <1> DEFINE kept == IF Len(history) >= HistSize THEN Tail(history) ELSE history
  <1>1. CASE HistSize = 0
      BY <1>1 DEF Retain
  <1>2. CASE HistSize # 0
    <2>1. HistSize \in Nat \ {0} /\ Len(history) \in Nat
        BY <1>2, SizesAssumption
    <2>2. kept \in Seq(Values) /\ Len(kept) < HistSize
      <3>1. CASE Len(history) >= HistSize
        <4>1. history # <<>>
            BY <2>1, <3>1
        <4>2. Tail(history) \in Seq(Values) /\ Len(Tail(history)) = Len(history) - 1
            BY <4>1
        <4> QED
            BY <2>1, <3>1, <4>2
      <3>2. CASE ~(Len(history) >= HistSize)
          BY <2>1, <3>2
      <3> QED
          BY <3>1, <3>2
    <2>3. Append(kept, v) \in Seq(Values) /\ Len(Append(kept, v)) = Len(kept) + 1
        BY <2>2
    <2>4. Len(kept) \in Nat
        BY <2>2
    <2>5. Retain(v) = Append(kept, v)
        BY <1>2 DEF Retain
    <2> QED
        BY <2>1, <2>2, <2>3, <2>4, <2>5
  <1> QED
      BY <1>1, <1>2

LEMMA SendFits ==
    ASSUME NEW c \in Channel, Len(c.values) <= c.room, NEW v \in Values
    PROVE  Send(c, v) \in Channel /\ Len(Send(c, v).values) <= Send(c, v).room
  <1>1. c.values \in Seq(Values) /\ c.room \in Nat /\ Len(c.values) \in Nat
      BY DEF Channel
  <1>2. Append(c.values, v) \in Seq(Values) /\ Len(Append(c.values, v)) = Len(c.values) + 1
      BY <1>1
  <1>3. CASE Len(c.values) < c.room
    <2>1. Send(c, v) = [c EXCEPT !.values = Append(@, v)]
        BY <1>3 DEF Send
    <2>2. Send(c, v) \in Channel /\ Send(c, v).room = c.room
          /\ Send(c, v).values = Append(c.values, v)
        BY <1>2, <2>1 DEF Channel
    <2> QED
        BY <1>1, <1>2, <1>3, <2>2
  <1>4. CASE ~(Len(c.values) < c.room)
      BY <1>4 DEF Send
  <1> QED
      BY <1>3, <1>4

LEMMA FanOutInit == BroadcasterInit => FanOutInv
  <1> SUFFICES ASSUME BroadcasterInit PROVE FanOutInv
      OBVIOUS
  <1>1. NoChannel \in Channel /\ Len(NoChannel.values) <= NoChannel.room
      BY DEF NoChannel, Channel
  <1>2. history \in Seq(Values) /\ Len(history) <= HistSize
      BY SizesAssumption DEF BroadcasterInit
  <1> QED
      BY <1>1, <1>2 DEF BroadcasterInit, FanOutInv, BroadcasterTypeOK, NeverBlocks, OnlyOpenSubscribed

LEMMA FanOutStep == FanOutInv /\ [BroadcasterNext]_broadcasterVars => FanOutInv'
  <1> SUFFICES ASSUME FanOutInv, [BroadcasterNext]_broadcasterVars PROVE FanOutInv'
      OBVIOUS
  <1>0. /\ history \in Seq(Values) /\ Len(history) <= HistSize
        /\ subs \subseteq Readers /\ chan \in [Readers -> Channel]
        /\ \A r \in Readers : Len(chan[r].values) <= chan[r].room
        /\ \A r \in subs : ~chan[r].closed
      BY DEF FanOutInv, BroadcasterTypeOK, NeverBlocks, OnlyOpenSubscribed
  <1>1. ASSUME NEW r \in Readers, Subscribe(r) PROVE FanOutInv'
    <2>1. Len(history) \in Nat /\ Len(history) <= Len(history) + ChanCap
        BY <1>0, SizesAssumption
    <2>2. Replay \in Channel /\ Len(Replay.values) <= Replay.room /\ ~Replay.closed
        BY <1>0, <2>1, SizesAssumption DEF Replay, Channel
    <2> QED
        BY <1>0, <1>1, <2>2 DEF Subscribe, FanOutInv, BroadcasterTypeOK, NeverBlocks, OnlyOpenSubscribed
  <1>2. ASSUME NEW r \in Readers, Unsubscribe(r) PROVE FanOutInv'
      BY <1>0, <1>2 DEF Unsubscribe, FanOutInv, BroadcasterTypeOK, NeverBlocks, OnlyOpenSubscribed
  <1>3. ASSUME NEW r \in Readers, Receive(r) PROVE FanOutInv'
    <2> DEFINE c == chan[r]
               d == [c EXCEPT !.values = Tail(@)]
    <2>1. c \in Channel /\ c.values # <<>> /\ Len(c.values) <= c.room
        BY <1>0, <1>3 DEF Receive
    <2>2. c.values \in Seq(Values) /\ c.room \in Nat /\ Len(c.values) \in Nat
        BY <2>1 DEF Channel
    <2>3. Tail(c.values) \in Seq(Values) /\ Len(Tail(c.values)) = Len(c.values) - 1
        BY <2>1, <2>2
    <2>4. d \in Channel /\ d.values = Tail(c.values) /\ d.room = c.room /\ d.closed = c.closed
        BY <2>1, <2>3 DEF Channel
    <2>5. Len(d.values) <= d.room
        BY <2>1, <2>2, <2>3, <2>4
    <2>6. chan' = [chan EXCEPT ![r] = d] /\ UNCHANGED <<history, subs>>
        BY <1>3 DEF Receive
    <2> HIDE DEF d
    <2> QED
        BY <1>0, <2>4, <2>5, <2>6 DEF FanOutInv, BroadcasterTypeOK, NeverBlocks, OnlyOpenSubscribed
  <1>4. ASSUME NEW v \in Values, Broadcast(v) PROVE FanOutInv'
    <2>1. Retain(v) \in Seq(Values) /\ Len(Retain(v)) <= HistSize
        BY <1>0, RetainKeeps
    <2>2. \A r \in Readers : chan'[r] \in Channel /\ Len(chan'[r].values) <= chan'[r].room
      <3> SUFFICES ASSUME NEW r \in Readers
                   PROVE  chan'[r] \in Channel /\ Len(chan'[r].values) <= chan'[r].room
          OBVIOUS
      <3>1. chan'[r] = IF r \in subs THEN Send(chan[r], v) ELSE chan[r]
          BY <1>4 DEF Broadcast
      <3>2. chan[r] \in Channel /\ Len(chan[r].values) <= chan[r].room
          BY <1>0
      <3>3. Send(chan[r], v) \in Channel
            /\ Len(Send(chan[r], v).values) <= Send(chan[r], v).room
          BY <3>2, SendFits
      <3> QED
          BY <3>1, <3>2, <3>3
    <2>3. chan' \in [Readers -> Channel]
        BY <1>4, <2>2 DEF Broadcast
    <2>4. \A r \in subs : ~chan'[r].closed
      <3> SUFFICES ASSUME NEW r \in subs PROVE ~chan'[r].closed
          OBVIOUS
      <3>1. chan[r] \in Channel /\ chan'[r] = Send(chan[r], v) /\ ~chan[r].closed
          BY <1>0, <1>4 DEF Broadcast
      <3> QED
          BY <3>1 DEF Send, Channel
    <2> QED
        BY <1>0, <1>4, <2>1, <2>2, <2>3, <2>4
        DEF Broadcast, FanOutInv, BroadcasterTypeOK, NeverBlocks, OnlyOpenSubscribed
  <1>5. CASE ClearHistory
    <2>1. <<>> \in Seq(Values) /\ Len(<<>>) <= HistSize
        BY SizesAssumption
    <2> QED
        BY <1>0, <1>5, <2>1 DEF ClearHistory, FanOutInv, BroadcasterTypeOK, NeverBlocks, OnlyOpenSubscribed
  <1>6. CASE CloseSubscribers
    <2>1. \A r \in Readers : chan'[r] \in Channel /\ Len(chan'[r].values) <= chan'[r].room
        BY <1>0, <1>6 DEF CloseSubscribers, Channel
    <2>2. chan' \in [Readers -> Channel] /\ subs' \subseteq Readers
        BY <1>6, <2>1 DEF CloseSubscribers
    <2> QED
        BY <1>0, <1>6, <2>1, <2>2
        DEF CloseSubscribers, FanOutInv, BroadcasterTypeOK, NeverBlocks, OnlyOpenSubscribed
  <1>7. CASE UNCHANGED broadcasterVars
      BY <1>0, <1>7 DEF broadcasterVars, FanOutInv, BroadcasterTypeOK, NeverBlocks, OnlyOpenSubscribed
  <1> QED
      BY <1>1, <1>2, <1>3, <1>4, <1>5, <1>6, <1>7 DEF BroadcasterNext

\* No channel ever holds more values than it was made with room for, neither
\* after the replay to a new subscriber nor after any broadcast, so that no send
\* waits while the broadcaster's lock is held (internal/broadcast/broadcast.go).
THEOREM BroadcastNeverWaits == BroadcasterSpec => []NeverBlocks
  <1>1. FanOutInv => NeverBlocks
      BY DEF FanOutInv
  <1> QED
      BY <1>1, FanOutInit, FanOutStep, PTL DEF BroadcasterSpec

\* A subscriber's channel is open as long as it is registered, however its reader,
\* the writer and the end of the log interleave: neither Broadcast nor
\* CloseSubscribers meets a closed one, which would panic.
THEOREM SubscribedIsOpen == BroadcasterSpec => []OnlyOpenSubscribed
  <1>1. FanOutInv => OnlyOpenSubscribed
      BY DEF FanOutInv
  <1> QED
      BY <1>1, FanOutInit, FanOutStep, PTL DEF BroadcasterSpec
=============================================================================
