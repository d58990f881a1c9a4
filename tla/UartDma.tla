------------------------------- MODULE UartDma -------------------------------
(***************************************************************************)
(* Transfers and receptions of the UART by DMA (dev/peripheral/src/         *)
(* uart_dma.c) through two channels of the controller (dmac.c), beside the  *)
(* interrupt-driven transfers of Uart: both share the registers and         *)
(* HAL_UARTx_IRQHandler, which branches on MCR.DMAEN.                       *)
(*                                                                         *)
(* External: the controller moves a byte whenever the UART has room or data *)
(* and DMAEN is set, faster than the line; it raises DONERIF with the last. *)
(* Left out: ping-pong descriptors, which the UART does not use.            *)
(***************************************************************************)
EXTENDS Uart

CONSTANTS RxDmaSizes   \* lengths received by DMA

ASSUME UartDmaAssumption == RxDmaSizes \subseteq Nat \ {0}

VARIABLES
    dmaen,   \* MCR.DMAEN
    chan     \* the channels: .left of the descriptor's n, .done (DONERIF), .ie (DONEIEF);
             \* history .on: a callback is due

Channels == {"tx", "rx"}

dvars == <<vars, use, dmaen, chan>>

-----------------------------------------------------------------------------
(* HAL_UART_Transmit_DMA, HAL_UART_Receive_DMA.  They do not look what is under way and leave  *)
(* gState alone: the application waits for the callback, and does not mix transfers by DMA and *)
(* by interrupt, which DMAEN of one direction would take from the other. *)

\* HAL_DMA_Channel_Config_Set and HAL_DMA_Channel_Start_IT: one descriptor, DMA_Cycle_Basic.
Started(n) == [left |-> n, done |-> FALSE, ie |-> TRUE, on |-> TRUE]

TransmitDma(ch, n) ==
    /\ ended' = Len(asked) /\ Len(asked) < MaxTx
    /\ asked' = Append(asked, n)
    /\ txPtr' = <<Len(asked) + 1, 1>>
    /\ rif' = rif \ {"TC", "TXS"}
    /\ dmaen' = TRUE
    /\ chan' = [ch EXCEPT !["tx"] = Started(n)]

ReceiveDma(ch, n) ==
    /\ ~ch["rx"].on /\ gState = "READY"
    /\ dmaen' = TRUE
    /\ chan' = [ch EXCEPT !["rx"] = Started(n)]
    /\ UNCHANGED <<asked, txPtr>>

\* What the application may do next, in the main program or in a callback.
Starts(ch, raised) ==
    \/ \E n \in TxSizes : TransmitDma(ch, n)
    \/ rif' = raised /\ \E n \in RxDmaSizes : ReceiveDma(ch, n)

Callback(ch, raised) ==
    \/ Starts(ch, raised)
    \/ rif' = raised /\ chan' = ch /\ UNCHANGED <<asked, txPtr, dmaen>>

DmaStart ==
    /\ use.dma /\ tpc = "idle" /\ ipc = "idle"
    /\ ended' = ended /\ Starts(chan, rif)
    /\ UNCHANGED <<gState, txCount, rxState, rxCount, ier, rxtl, fifos, thread, isr, wire, arrived>>

-----------------------------------------------------------------------------
(* The controller. *)

Moved(c) ==
    [chan EXCEPT ![c] = [chan[c] EXCEPT !.left = @ - 1, !.done = chan[c].done \/ chan[c].left = 1]]

TxWanted == dmaen /\ chan["tx"].left > 0 /\ NotFull

DmaTx ==
    /\ TxWanted
    /\ txFifo' = Append(txFifo, txPtr) /\ txPtr' = NextPtr
    /\ chan' = Moved("tx")
    /\ UNCHANGED <<gState, txCount, rxState, rxCount, regs, shifter, rxFifo, thread, isr, history,
                   arrived, dmaen>>

DmaRx ==
    /\ dmaen /\ chan["rx"].left > 0 /\ rxFifo # << >>
    /\ rxFifo' = Tail(rxFifo)
    /\ chan' = Moved("rx")
    /\ UNCHANGED <<handle, regs, txFifo, shifter, thread, isr, history, arrived, dmaen>>

-----------------------------------------------------------------------------
(* HAL_DMA_Controller_IRQHandler, which the UART's handler neither interrupts nor is            *)
(* interrupted by. *)

DoneEnabled == {c \in Channels : chan[c].done /\ chan[c].ie}

DmaIsrEnter ==
    /\ ipc = "idle" /\ DoneEnabled # {}
    /\ ipc' = "dma" /\ flags' = DoneEnabled
    /\ UNCHANGED <<handle, regs, fifos, thread, level, history, arrived, dmaen, chan>>

Handled(c) == [chan EXCEPT ![c] = [@ EXCEPT !.done = FALSE, !.ie = FALSE, !.on = FALSE]]

DmaIsr_DisabledLast(c) ==
    /\ ipc = "dma" /\ c \in flags
    /\ flags' = flags \ {c}
    /\ ipc' = IF flags' = {} THEN "idle" ELSE "dma"
    /\ \/ /\ c = "tx" /\ chan' = Handled(c) /\ ier' = ier \cup {"TXS"}
          /\ UNCHANGED <<asked, txPtr, rif, dmaen>>
       \/ /\ c = "rx" /\ ier' = ier /\ rif' = rif
          /\ \E n \in RxDmaSizes : chan' = [chan EXCEPT ![c] = [Started(n) EXCEPT !.ie = FALSE]]
          /\ UNCHANGED <<asked, txPtr, dmaen>>
    /\ UNCHANGED <<gState, txCount, rxState, rxCount, rxtl, fifos, thread, level, wire, ended,
                   arrived>>

\* One channel of the loop, for which both callbacks of the driver are known:
\* UART_Transmit_DMA_Callback lets TXS come, UART_Recevie_DMA_Callback calls the application.
DmaIsr(c) ==
    /\ ipc = "dma" /\ c \in flags
    /\ flags' = flags \ {c}
    /\ ipc' = IF flags' = {} THEN "idle" ELSE "dma"
    /\ \/ /\ c = "tx" /\ chan' = Handled(c) /\ ier' = ier \cup {"TXS"}
          /\ UNCHANGED <<asked, txPtr, rif, dmaen>>
       \/ c = "rx" /\ ier' = ier /\ Callback(Handled(c), rif)
    /\ ended' = ended
    /\ UNCHANGED <<gState, txCount, rxState, rxCount, rxtl, fifos, thread, level, wire, arrived>>

-----------------------------------------------------------------------------
(* HAL_UARTx_IRQHandler with DMAEN set. *)

\* UART_Transmit_IT_DMA
IsrTxsDma ==
    /\ ipc = "txs" /\ dmaen /\ ipc' = "tc"
    /\ IF "TXS" \in flags
       THEN rif' = rif \ {"TXS"} /\ ier' = (ier \ {"TXS"}) \cup {"TC"}
       ELSE UNCHANGED <<rif, ier>>
    /\ UNCHANGED <<handle, rxtl, fifos, thread, flags, level, history, arrived, dmaen, chan>>

\* UART_EndTransmit_IT_DMA and HAL_UART_DMA_TxCpltCallback
IsrTcDma ==
    /\ ipc = "tc" /\ dmaen /\ ipc' = "rx"
    /\ IF "TC" \in flags
       THEN ended' = ended + 1 /\ ier' = ier \ {"TC"} /\ Callback(chan, rif \ {"TC"})
       ELSE UNCHANGED <<ended, ier, rif, asked, txPtr, dmaen, chan>>
    /\ UNCHANGED <<gState, txCount, rxState, rxCount, rxtl, fifos, thread, flags, level, wire,
                   arrived>>

-----------------------------------------------------------------------------
DmaInit ==
    /\ Init
    /\ dmaen = FALSE
    /\ chan = [c \in Channels |-> [left |-> 0, done |-> FALSE, ie |-> FALSE, on |-> FALSE]]

\* HAL_UART_Transmit_IT and HAL_UART_Receive_IT reset DMAEN, for both directions.
ByInterrupt ==
    /\ ended = Len(asked) /\ ~chan["rx"].on
    /\ (\E n \in TxSizes : TransmitStart(n))
    /\ dmaen' = FALSE /\ chan' = chan

ReceiveByInterrupt ==
    /\ \E n \in use.rxSizes : ReceiveStart(n)
    /\ dmaen' = FALSE /\ chan' = chan

IsrIt ==
    \/ ~dmaen /\ (IsrTxs \/ IsrPush \/ IsrTc)
    \/ IsrEnter \/ IsrRx \/ IsrRead \/ IsrReadLast \/ IsrReadDone

IsrDma == IsrTxsDma \/ IsrTcDma \/ DmaIsrEnter \/ \E c \in Channels : DmaIsr(c)

\* The controller is faster than the line, and its interrupt is served within a byte's time too.
SentDma == (Prompt => ~TxWanted /\ DoneEnabled = {}) /\ Sent

DmaNext ==
    /\ \/ ByInterrupt \/ ReceiveByInterrupt
       \/ (Transmit \/ IsrIt \/ Load \/ SentDma \/ Arrive) /\ UNCHANGED <<dmaen, chan>>
       \/ DmaStart \/ DmaTx \/ DmaRx \/ IsrDma
    /\ use' = use

DmaFairness ==
    /\ WF_dvars(Transmit /\ UNCHANGED <<dmaen, chan, use>>)
    /\ WF_dvars(((IsrIt /\ UNCHANGED <<dmaen, chan>>) \/ IsrDma) /\ use' = use)
    /\ WF_dvars(Load /\ UNCHANGED <<dmaen, chan, use>>)
    /\ WF_dvars(SentDma /\ UNCHANGED <<dmaen, chan, use>>)
    /\ WF_dvars(DmaTx /\ use' = use) /\ WF_dvars(DmaRx /\ use' = use)

DmaSpec == DmaInit /\ [][DmaNext]_dvars /\ DmaFairness

-----------------------------------------------------------------------------
\* A channel that has moved its last byte raises its interrupt, also when it was started
\* again by the callback of the interrupt before.
DmaServed ==
    \A c \in Channels : chan[c].on /\ chan[c].left = 0 => chan[c].done /\ chan[c].ie
=============================================================================
