----------------------------- MODULE UartPolled -----------------------------
(***************************************************************************)
(* The three ways to use the UART (dev/peripheral/src/uart.c, uart_dma.c):  *)
(* the calls that wait by polling, with the timeout of SysTick, beside the  *)
(* interrupt-driven and DMA transfers of Uart and UartDma.  An application  *)
(* that polls does not use the others (doc/getting_started/peripherals/     *)
(* uart.rst: of the three modes only one can be chosen).                    *)
(***************************************************************************)
EXTENDS UartDma, SysTick

CONSTANTS MaxCalls   \* bound: calls that poll

VARIABLES
    calls,   \* such calls so far
    cut      \* history: the last transfer was given up

pvars == <<dvars, tickVars, calls, cut>>

-----------------------------------------------------------------------------
(* HAL_UART_Transmit, HAL_UART_Receive. *)

Call == wait = "no" /\ calls < MaxCalls /\ calls' = calls + 1 /\ Start

Transmitting == wait # "no" /\ gState = "BUSY_TX"
Receiving == wait # "no" /\ rxState = "BUSY_RX"

PolledTransmit(n) ==
    /\ Call
    /\ gState = "READY"
    /\ gState' = "BUSY_TX"
    /\ txCount' = n /\ txPtr' = <<Len(asked) + 1, 1>>
    /\ asked' = Append(asked, n) /\ cut' = FALSE
    /\ UNCHANGED <<rxState, rxCount, fifos, wire, ended>>

PolledReceive(n) ==
    /\ Call
    /\ rxState = "READY"
    /\ rxState' = "BUSY_RX" /\ rxCount' = n
    /\ UNCHANGED <<gState, txCount, txPtr, fifos, history, cut>>

\* What the call waits for: TFNF for every byte, then TEMT; RFNE.
Flag ==
    \/ Transmitting /\ txCount > 0 /\ NotFull
    \/ Transmitting /\ txCount = 0 /\ txFifo = << >> /\ shifter = << >>
    \/ Receiving /\ rxFifo # << >>

\* The next byte; then the wait for the next one, or for the last to leave.
PolledByte ==
    /\ Transmitting /\ txCount > 0 /\ Flag /\ Again
    /\ txCount' = txCount - 1
    /\ txFifo' = Append(txFifo, txPtr) /\ txPtr' = NextPtr
    /\ UNCHANGED <<gState, rxState, rxCount, shifter, rxFifo, history, cut>>

PolledDone ==
    /\ Transmitting /\ txCount = 0 /\ Flag /\ Stop
    /\ gState' = "READY" /\ ended' = ended + 1
    /\ UNCHANGED <<txCount, txPtr, rxState, rxCount, fifos, asked, wire, cut>>

PolledRead ==
    /\ Receiving /\ Flag
    /\ rxFifo' = Tail(rxFifo) /\ rxCount' = rxCount - 1
    /\ IF rxCount' > 0 THEN Again /\ rxState' = rxState
                       ELSE Stop /\ rxState' = "READY"
    /\ UNCHANGED <<gState, txCount, txPtr, txFifo, shifter, history, cut>>

\* HAL_TIMEOUT; what is in the FIFO leaves all the same.
GiveUp ==
    /\ gState' = "READY" /\ rxState' = "READY"
    /\ IF Transmitting
       THEN /\ asked' = [asked EXCEPT ![Len(asked)] = @ - txCount]
            /\ ended' = ended + 1 /\ cut' = TRUE
       ELSE UNCHANGED <<asked, ended, cut>>

PolledNot ==
    /\ wait # "no" /\ ~Flag
    /\ NotYet
    /\ IF expired' THEN GiveUp ELSE UNCHANGED <<gState, rxState, asked, ended, cut>>
    /\ UNCHANGED <<txCount, txPtr, rxCount, fifos, wire>>

-----------------------------------------------------------------------------
PolledInit == DmaInit /\ TickInit /\ calls = 0 /\ cut = FALSE

Polled ==
    /\ \/ \E n \in use.polled : PolledTransmit(n) \/ PolledReceive(n)
       \/ (PolledByte \/ PolledDone \/ PolledRead \/ PolledNot) /\ calls' = calls
    /\ UNCHANGED <<regs, thread, isr, arrived, use, dmaen, chan>>

PolledNext ==
    \/ DmaNext /\ UNCHANGED <<tickVars, calls, cut>>
    \/ Polled

PolledFairness ==
    /\ WF_pvars(Transmit /\ UNCHANGED <<dmaen, chan, use, tickVars, calls, cut>>)
    /\ WF_pvars((\/ IsrIt /\ UNCHANGED <<dmaen, chan>>
                 \/ IsrDma) /\ UNCHANGED <<use, tickVars, calls, cut>>)
    /\ WF_pvars(Load /\ UNCHANGED <<dmaen, chan, use, tickVars, calls, cut>>)
    /\ WF_pvars(SentDma /\ UNCHANGED <<dmaen, chan, use, tickVars, calls, cut>>)
    /\ WF_pvars((DmaTx \/ DmaRx) /\ UNCHANGED <<use, tickVars, calls, cut>>)
    /\ WF_pvars(Polled /\ calls' = calls)

PolledSpec == PolledInit /\ [][PolledNext]_pvars /\ PolledFairness

-----------------------------------------------------------------------------
(* Properties. *)

\* The three ways to transmit together keep the promise of UartLine.
Line == INSTANCE UartLine WITH Sizes <- TxSizes \cup UNION {u.polled : u \in Uses}
LineSpec == Line!LineSpec

\* "Tx process is ended" (UART_EndTransmit_IT), HAL_OK: when the application is told so,
\* nothing it handed over is left in the buffer, the FIFO or the shift register.
EndedWhenSent ==
    tpc = "idle" /\ ended = Len(asked) /\ ~cut => txCount = 0 /\ txFifo = << >> /\ shifter = << >>
=============================================================================
