------------------------------- MODULE MCUart -------------------------------
(***************************************************************************)
(* Small instances of the UART driver for TLC: FIFOs of two bytes, the high *)
(* trigger level of two, and transfers shorter and longer than both.        *)
(***************************************************************************)
EXTENDS UartPolled

Use(fromIsr, dma, sizes, max) ==
    [txFromIsr |-> fromIsr, dma |-> dma, rxSizes |-> sizes, maxRx |-> max, polled |-> {}]

Polling(sizes, max) == [Use(FALSE, FALSE, {}, max) EXCEPT !.polled = sizes]

\* Transfers of the main program with receptions of one byte, and transfers of the callbacks
\* with longer receptions; transfers and receptions by DMA, and transfers by interrupt between
\* them; and the first mixed with the second.
MCUses == {Use(FALSE, FALSE, {1}, 2), Use(TRUE, FALSE, {1, 3}, 5), Use(FALSE, TRUE, {}, 2),
           Polling({2}, 2)}
MCUsesShared == {Use(FALSE, FALSE, {3}, 3)}
=============================================================================
