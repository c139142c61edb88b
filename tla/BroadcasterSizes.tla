-------------------------- MODULE BroadcasterSizes --------------------------
(* The sizes a Broadcaster is made with, New in                            *)
(* internal/broadcast/broadcast.go.                                        *)
EXTENDS Integers

CONSTANTS
    HistSize,       \* how many values are kept (0: none)
    ChanCap         \* the room of a channel, on top of what is replayed

ASSUME SizesAssumption == HistSize \in Nat /\ ChanCap \in Nat
=============================================================================
