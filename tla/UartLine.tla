------------------------------ MODULE UartLine ------------------------------
(***************************************************************************)
(* What HAL_UART_Transmit_IT promises: the bytes of the transfers it has    *)
(* accepted leave on the wire once each and in order, a transfer is         *)
(* accepted when the one before has ended, and has ended when all of its    *)
(* bytes have left.                                                        *)
(***************************************************************************)
EXTENDS Integers, Sequences, SequencesExt

CONSTANTS Sizes   \* lengths of transfers

VARIABLES
    asked,  \* the lengths of the transfers accepted so far
    wire,   \* the bytes that have left, <<transfer, index>>
    ended   \* how many transfers have ended

lineVars == <<asked, wire, ended>>

\* The bytes of the transfers accepted, in the order they were given in.
Bytes(lens) == FlattenSeq([k \in 1 .. Len(lens) |-> [i \in 1 .. lens[k] |-> <<k, i>>]])

LineInit == asked = << >> /\ wire = << >> /\ ended = 0

Accept ==
    /\ ended = Len(asked)
    /\ \E n \in Sizes : asked' = Append(asked, n)
    /\ UNCHANGED <<wire, ended>>

Leave ==
    /\ Len(wire) < Len(Bytes(asked))
    /\ wire' = Append(wire, Bytes(asked)[Len(wire) + 1])
    /\ UNCHANGED <<asked, ended>>

End ==
    /\ ended < Len(asked) /\ wire = Bytes(asked)
    /\ ended' = ended + 1
    \* The callback may hand over the next transfer.
    /\ \/ asked' = asked
       \/ ended' = Len(asked) /\ \E n \in Sizes : asked' = Append(asked, n)
    /\ wire' = wire

\* A call that waits gives up: the rest of its bytes never leave, what it has handed over will.
GiveUp ==
    /\ ended + 1 = Len(asked) /\ ended' = ended + 1
    /\ \E n \in 0 .. asked[ended'] : asked' = [asked EXCEPT ![ended'] = n]
    /\ wire' = wire /\ Len(wire) <= Len(Bytes(asked'))

LineNext == Accept \/ Leave \/ End \/ GiveUp

LineSpec == LineInit /\ [][LineNext]_lineVars
=============================================================================
