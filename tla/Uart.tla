-------------------------------- MODULE Uart --------------------------------
(***************************************************************************)
(* The interrupt-driven UART driver (dev/peripheral/src/uart.c): one        *)
(* HAL_UART_Transmit_IT of the main program, statement by statement where   *)
(* it touches what HAL_UARTx_IRQHandler touches, the interrupt handler,     *)
(* which the main program never interrupts, and the hardware, which goes on *)
(* during both.                                                            *)
(*                                                                         *)
(* The registers are modelled from the way the driver uses them: a write to *)
(* IER enables the interrupts whose bits are set, a write to IDR disables   *)
(* them; TXS is raised when the transmit FIFO has run empty and TC when the *)
(* shift register has run empty after it, both stay raised until cleared    *)
(* through ICR; RXRD, which the driver never clears, stands as long as the  *)
(* receive FIFO holds what the trigger level in FCR asks for.               *)
(***************************************************************************)
EXTENDS Integers, Sequences, FiniteSets

CONSTANTS
    TxSizes,     \* lengths the application transmits
    Uses,        \* how the application uses the driver: see `use'
    Prompt,      \* TRUE: an interrupt is served within the time of one byte
    FifoDepth,   \* of both FIFOs
    TriggerHigh, \* UART_FIFO_RL_8
    CountRange,  \* 2^16: XferCount is a uint16_t
    MaxTx        \* bound: transfers started

ASSUME UartAssumption ==
    /\ TxSizes \subseteq 1 .. CountRange - 1 /\ Prompt \in BOOLEAN
    /\ \A u \in Uses : /\ u.txFromIsr \in BOOLEAN /\ u.dma \in BOOLEAN /\ u.maxRx \in Nat
                       /\ u.rxSizes \cup u.polled \subseteq 1 .. CountRange - 1
    /\ TriggerHigh \in Nat \ {0, 1} /\ FifoDepth \in Nat /\ FifoDepth >= TriggerHigh
    /\ CountRange \in Nat /\ TriggerHigh < CountRange
    /\ MaxTx \in Nat

VARIABLES
    gState, txCount, txPtr,   \* of the handle; txPtr is <<transfer, index>>
    rxState, rxCount,
    ier, rif,                 \* the interrupts enabled, and raised
    rxtl,                     \* FCR.RXTL, as a number of bytes
    txFifo, shifter, rxFifo,
    tpc, tmp,                 \* the main program in HAL_UART_Transmit_IT, and what it has read
    ipc, flags, level,        \* the handler, its isrflags and fifo_level
    asked, wire, ended,       \* history: transfers accepted, bytes sent, callbacks
    arrived,                  \* how many bytes have arrived
    use                       \* .txFromIsr: transfers are started by the callbacks, not by the
                              \* main program; .dma: or by DMA (UartDma); .rxSizes: lengths
                              \* received by interrupt; .polled: lengths sent and received
                              \* by the calls that wait (UartPolled), if any; .maxRx: a bound

handle == <<gState, txCount, txPtr, rxState, rxCount>>
regs == <<ier, rif, rxtl>>
fifos == <<txFifo, shifter, rxFifo>>
thread == <<tpc, tmp>>
isr == <<ipc, flags, level>>
history == <<asked, wire, ended>>
vars == <<handle, regs, fifos, thread, isr, history, arrived>>

-----------------------------------------------------------------------------
(* The hardware. *)

RxReady == Len(rxFifo) >= rxtl
IFM == (ier \cap rif) \cup (IF "RXRD" \in ier /\ RxReady THEN {"RXRD"} ELSE {})
Pending == IFM # {}

\* TFNF: the transmit FIFO is not full.
NotFull == Len(txFifo) < FifoDepth

\* A byte goes from the FIFO to the shift register.
Load ==
    /\ shifter = << >> /\ txFifo # << >>
    /\ shifter' = <<Head(txFifo)>> /\ txFifo' = Tail(txFifo)
    /\ rif' = IF Len(txFifo) = 1 THEN rif \cup {"TXS"} ELSE rif
    /\ UNCHANGED <<handle, ier, rxtl, rxFifo, thread, isr, history, arrived>>

\* A byte has been sent.
Sent ==
    /\ shifter # << >>
    /\ Prompt => ~Pending /\ ipc = "idle"
    /\ wire' = wire \o shifter
    /\ shifter' = << >>
    /\ rif' = IF txFifo = << >> THEN rif \cup {"TC"} ELSE rif
    /\ UNCHANGED <<handle, ier, rxtl, txFifo, rxFifo, thread, isr, asked, ended, arrived>>

\* A byte arrives; an overrun loses it.
Arrive ==
    /\ arrived < use.maxRx
    /\ arrived' = arrived + 1
    /\ rxFifo' = IF Len(rxFifo) < FifoDepth THEN Append(rxFifo, arrived') ELSE rxFifo
    /\ UNCHANGED <<handle, regs, txFifo, shifter, thread, isr, history>>

-----------------------------------------------------------------------------
(* HAL_UART_Transmit_IT in the main program. *)

TransmitStart(n) ==
    /\ tpc = "idle" /\ ipc = "idle" /\ ~use.txFromIsr /\ use.polled = {} /\ Len(asked) < MaxTx
    /\ gState = "READY"
    /\ txPtr' = <<Len(asked) + 1, 1>> /\ txCount' = n
    /\ gState' = "BUSY_TX"
    /\ asked' = Append(asked, n)
    /\ tpc' = "fcrRead"
    /\ UNCHANGED <<rxState, rxCount, regs, fifos, tmp, isr, wire, ended, arrived>>

Thread(here, next) == tpc = here /\ ipc = "idle" /\ tpc' = next

\* REG_FIELD_WR(FCR, TXTL) reads all of FCR ...
FcrRead ==
    /\ Thread("fcrRead", "fcrWrite")
    /\ tmp' = rxtl
    /\ UNCHANGED <<handle, regs, fifos, isr, history, arrived>>

\* ... and writes all of it back.
FcrWrite ==
    /\ Thread("fcrWrite", "icr")
    /\ rxtl' = tmp
    /\ UNCHANGED <<handle, ier, rif, fifos, tmp, isr, history, arrived>>

IcrWrite ==
    /\ Thread("icr", "ier")
    /\ rif' = rif \ {"TC", "TXS"}
    /\ UNCHANGED <<handle, ier, rxtl, fifos, tmp, isr, history, arrived>>

IerWrite ==
    /\ Thread("ier", "countRead")
    /\ ier' = ier \cup {"TXS"}
    /\ UNCHANGED <<handle, rif, rxtl, fifos, tmp, isr, history, arrived>>

\* XferCount--, a read and a write.
CountRead ==
    /\ Thread("countRead", "countWrite")
    /\ tmp' = txCount
    /\ UNCHANGED <<handle, regs, fifos, isr, history, arrived>>

CountWrite ==
    /\ Thread("countWrite", "tbr")
    /\ txCount' = (tmp + CountRange - 1) % CountRange
    /\ UNCHANGED <<gState, txPtr, rxState, rxCount, regs, fifos, tmp, isr, history, arrived>>

\* TBR = *pBuffPtr++; a byte written to a full FIFO is lost.
NextPtr == <<txPtr[1], txPtr[2] + 1>>

TbrWrite ==
    /\ Thread("tbr", "check")
    /\ txFifo' = IF NotFull THEN Append(txFifo, txPtr) ELSE txFifo
    /\ txPtr' = NextPtr
    /\ UNCHANGED <<gState, txCount, rxState, rxCount, regs, shifter, rxFifo, tmp, isr,
                   history, arrived>>

Check ==
    /\ Thread("check", "idle")
    /\ ier' = IF txCount = 0 THEN ier \cup {"TC"} ELSE ier
    /\ tmp' = 0
    /\ UNCHANGED <<handle, rif, rxtl, fifos, isr, history, arrived>>

\* HAL_UART_Receive_IT.
Trigger(n) == IF n < TriggerHigh THEN 1 ELSE TriggerHigh

ReceiveStart(n) ==
    /\ tpc = "idle" /\ ipc = "idle"
    /\ rxState = "READY"
    /\ rxState' = "BUSY_RX" /\ rxCount' = n
    /\ rxtl' = Trigger(n)
    /\ ier' = ier \cup {"RXRD"}
    /\ UNCHANGED <<gState, txCount, txPtr, rif, fifos, thread, isr, history, arrived>>

-----------------------------------------------------------------------------
(* HAL_UARTx_IRQHandler. *)

IsrEnter ==
    /\ ipc = "idle" /\ Pending
    /\ flags' = IFM /\ ipc' = "txs"
    /\ UNCHANGED <<handle, regs, fifos, thread, level, history, arrived>>

\* UART_Transmit_IT up to its loop.
IsrTxs_KeepsTxs ==
    /\ ipc = "txs"
    /\ IF "TXS" \notin flags
       THEN ipc' = "tc" /\ UNCHANGED <<ier, rif>>
       ELSE /\ rif' = rif \ {"TXS"}
            /\ IF gState # "BUSY_TX" \/ txFifo # << >>
               THEN ipc' = "tc" /\ ier' = ier
               ELSE IF txCount = 0
               THEN ipc' = "tc" /\ ier' = ier \ {"TXS"}
               ELSE ipc' = "push" /\ ier' = ier
    /\ UNCHANGED <<handle, rxtl, fifos, thread, flags, level, history, arrived>>

IsrTxs ==
    /\ ipc = "txs"
    /\ IF "TXS" \notin flags
       THEN ipc' = "tc" /\ UNCHANGED <<ier, rif>>
       ELSE /\ rif' = rif \ {"TXS"}
            /\ IF gState # "BUSY_TX" \/ txFifo # << >>
               THEN ipc' = "tc" /\ ier' = ier
               ELSE IF txCount = 0
               THEN ipc' = "tc" /\ ier' = (ier \ {"TXS"}) \cup {"TC"}
               ELSE ipc' = "push" /\ ier' = ier
    /\ UNCHANGED <<handle, rxtl, fifos, thread, flags, level, history, arrived>>

IsrPush_PastEnd ==
    /\ ipc = "push"
    /\ IF NotFull
       THEN /\ txCount' = txCount - 1
            /\ txFifo' = Append(txFifo, txPtr)
            /\ txPtr' = NextPtr
            /\ ipc' = ipc
       ELSE /\ ipc' = "tc"
            /\ UNCHANGED <<txCount, txFifo, txPtr>>
    /\ UNCHANGED <<gState, rxState, rxCount, regs, shifter, rxFifo, thread, flags, level,
                   history, arrived>>

IsrPush_SameByte ==
    /\ ipc = "push"
    /\ IF NotFull /\ txCount # 0
       THEN /\ txCount' = txCount - 1
            /\ txFifo' = Append(txFifo, txPtr)
            /\ txPtr' = txPtr
            /\ ipc' = ipc
       ELSE /\ ipc' = "tc"
            /\ UNCHANGED <<txCount, txFifo, txPtr>>
    /\ UNCHANGED <<gState, rxState, rxCount, regs, shifter, rxFifo, thread, flags, level,
                   history, arrived>>

IsrPush ==
    /\ ipc = "push"
    /\ IF NotFull /\ txCount # 0
       THEN /\ txCount' = txCount - 1
            /\ txFifo' = Append(txFifo, txPtr)
            /\ txPtr' = NextPtr
            /\ ipc' = ipc
       ELSE /\ ipc' = "tc"
            /\ UNCHANGED <<txCount, txFifo, txPtr>>
    /\ UNCHANGED <<gState, rxState, rxCount, regs, shifter, rxFifo, thread, flags, level,
                   history, arrived>>

\* All of HAL_UART_Transmit_IT called from a callback.
TransmitFromIsr(n) ==
    /\ txPtr' = <<Len(asked) + 1, 2>> /\ txCount' = n - 1
    /\ gState' = "BUSY_TX"
    /\ asked' = Append(asked, n)
    /\ txFifo' = IF NotFull THEN Append(txFifo, <<Len(asked) + 1, 1>>) ELSE txFifo
    /\ rif' = rif \ {"TC", "TXS"}

NoTransmit(state) ==
    gState' = state /\ UNCHANGED <<txCount, txPtr, asked, txFifo>>

IsrTc_OnTxs ==
    /\ ipc = "tc" /\ ipc' = "rx"
    /\ IF "TC" \notin flags /\ ("TXS" \notin flags \/ txCount # 0)
       THEN /\ UNCHANGED <<gState, txCount, txPtr, asked, txFifo, ier, rif, ended>>
       ELSE /\ ended' = ended + 1
            /\ \/ /\ NoTransmit("READY")
                  /\ rif' = rif \ {"TC"} /\ ier' = ier \ {"TC"}
               \/ /\ use.txFromIsr /\ Len(asked) < MaxTx
                  /\ \E n \in TxSizes :
                      /\ TransmitFromIsr(n)
                      /\ ier' = (ier \ {"TC"}) \cup {"TXS"} \cup (IF n = 1 THEN {"TC"} ELSE {})
    /\ UNCHANGED <<rxState, rxCount, rxtl, shifter, rxFifo, thread, flags, level, wire, arrived>>

\* UART_EndTransmit_IT and HAL_UART_TxCpltCallback.
IsrTc ==
    /\ ipc = "tc" /\ ipc' = "rx"
    /\ IF "TC" \notin flags
       THEN /\ UNCHANGED <<gState, txCount, txPtr, asked, txFifo, ier, rif, ended>>
       ELSE /\ ended' = ended + 1
            /\ \/ /\ NoTransmit("READY")
                  /\ rif' = rif \ {"TC"} /\ ier' = ier \ {"TC"}
               \/ /\ use.txFromIsr /\ Len(asked) < MaxTx
                  /\ \E n \in TxSizes :
                      /\ TransmitFromIsr(n)
                      /\ ier' = (ier \ {"TC"}) \cup {"TXS"} \cup (IF n = 1 THEN {"TC"} ELSE {})
    /\ UNCHANGED <<rxState, rxCount, rxtl, shifter, rxFifo, thread, flags, level, wire, arrived>>

IsrRx ==
    /\ ipc = "rx"
    /\ IF "RXRD" \in flags /\ rxState = "BUSY_RX"
       THEN ipc' = "read" /\ level' = Len(rxFifo) /\ flags' = flags
       ELSE ipc' = "idle" /\ level' = 0 /\ flags' = {}
    /\ UNCHANGED <<handle, regs, fifos, thread, history, arrived>>

\* One turn of UART_Receive_IT's loop that leaves something to receive.
IsrRead_TriggerKept ==
    /\ ipc = "read" /\ level > 0 /\ rxCount > 1
    /\ rxFifo' = Tail(rxFifo)
    /\ rxCount' = rxCount - 1
    /\ rxtl' = rxtl
    /\ level' = level - 1
    /\ UNCHANGED <<gState, txCount, txPtr, rxState, ier, rif, txFifo, shifter, thread,
                   ipc, flags, history, arrived>>

IsrRead ==
    /\ ipc = "read" /\ level > 0 /\ rxCount > 1
    /\ rxFifo' = Tail(rxFifo)
    /\ rxCount' = rxCount - 1
    /\ rxtl' = Trigger(rxCount')
    /\ level' = level - 1
    /\ UNCHANGED <<gState, txCount, txPtr, rxState, ier, rif, txFifo, shifter, thread,
                   ipc, flags, history, arrived>>

\* The last byte and HAL_UART_RxCpltCallback, which may start the next reception
\* or a transfer.
IsrReadLast ==
    /\ ipc = "read" /\ level > 0 /\ rxCount = 1
    /\ rxFifo' = Tail(rxFifo)
    /\ \/ /\ rxState' = "READY" /\ rxCount' = 0
          /\ rxtl' = TriggerHigh
          /\ NoTransmit(gState) /\ rif' = rif
          /\ ier' = ier \ {"RXRD"}
       \/ \E n \in use.rxSizes :
          /\ rxState' = "BUSY_RX" /\ rxCount' = n
          /\ rxtl' = Trigger(n)
          /\ NoTransmit(gState) /\ rif' = rif
          /\ ier' = ier \cup {"RXRD"}
       \/ /\ rxState' = "READY" /\ rxCount' = 0
          /\ rxtl' = TriggerHigh
          /\ use.txFromIsr /\ gState = "READY" /\ Len(asked) < MaxTx
          /\ \E n \in TxSizes :
              /\ TransmitFromIsr(n)
              /\ ier' = (ier \ {"RXRD"}) \cup {"TXS"} \cup (IF n = 1 THEN {"TC"} ELSE {})
    /\ ipc' = "idle" /\ level' = 0 /\ flags' = {}
    /\ UNCHANGED <<shifter, thread, wire, ended, arrived>>

IsrReadDone ==
    /\ ipc = "read" /\ level = 0
    /\ ipc' = "idle" /\ flags' = {}
    /\ UNCHANGED <<handle, regs, fifos, thread, level, history, arrived>>

-----------------------------------------------------------------------------
\* HAL_UART_Init.
Init ==
    /\ gState = "READY" /\ txCount = 0 /\ txPtr = <<0, 0>>
    /\ rxState = "READY" /\ rxCount = 0
    /\ ier = {} /\ rif = {} /\ rxtl = 1
    /\ txFifo = << >> /\ shifter = << >> /\ rxFifo = << >>
    /\ tpc = "idle" /\ tmp = 0
    /\ ipc = "idle" /\ flags = {} /\ level = 0
    /\ asked = << >> /\ wire = << >> /\ ended = 0
    /\ arrived = 0 /\ use \in Uses

Transmit ==
    \/ FcrRead \/ FcrWrite \/ IcrWrite \/ IerWrite
    \/ CountRead \/ CountWrite \/ TbrWrite \/ Check

Isr == IsrEnter \/ IsrTxs \/ IsrPush \/ IsrTc \/ IsrRx \/ IsrRead \/ IsrReadLast \/ IsrReadDone

Next ==
    /\ \/ \E n \in TxSizes : TransmitStart(n)
       \/ \E n \in use.rxSizes : ReceiveStart(n)
       \/ Transmit \/ Isr \/ Load \/ Sent \/ Arrive
    /\ use' = use

\* The processor and the hardware go on.
Fairness ==
    /\ WF_vars(Transmit) /\ WF_vars(Isr) /\ WF_vars(Load) /\ WF_vars(Sent)

Spec == Init /\ [][Next]_<<vars, use>> /\ Fairness

-----------------------------------------------------------------------------
(* Properties. *)

TypeOK ==
    /\ gState \in {"READY", "BUSY_TX"} /\ rxState \in {"READY", "BUSY_RX"}
    /\ txCount \in 0 .. CountRange - 1 /\ rxCount \in 0 .. CountRange - 1
    /\ txPtr \in Nat \X Nat
    /\ ier \subseteq {"TXS", "TC", "RXRD"} /\ rif \subseteq {"TXS", "TC"}
    /\ rxtl \in {1, TriggerHigh}
    /\ txFifo \in Seq(Nat \X Nat) /\ Len(txFifo) <= FifoDepth
    /\ shifter = << >> \/ shifter \in Seq(Nat \X Nat)
    /\ rxFifo \in Seq(Nat) /\ Len(rxFifo) <= FifoDepth
    /\ tpc \in {"idle", "fcrRead", "fcrWrite", "icr", "ier", "countRead", "countWrite", "tbr", "check"}
    /\ ipc \in {"idle", "txs", "push", "tc", "rx", "read", "dma"}
    /\ flags \subseteq {"TXS", "TC", "RXRD"} \cup {"tx", "rx"} /\ level \in 0 .. FifoDepth
    /\ tmp \in 0 .. CountRange - 1
    /\ asked \in Seq(0 .. CountRange - 1) /\ wire \in Seq(Nat \X Nat) /\ ended \in Nat
    /\ arrived \in 0 .. use.maxRx

\* The byte that completes a reception raises the interrupt: the trigger level
\* never asks for more than is still expected.
RxServed ==
    rxState = "BUSY_RX" /\ use.polled = {} /\ ipc = "idle" /\ Len(rxFifo) >= rxCount
        => "RXRD" \in IFM

\* Every transfer ends, whatever the interrupts interrupt.
TransmitEnds == ended < Len(asked) ~> ended = Len(asked)
=============================================================================
