----------------------------- MODULE UartServer -----------------------------
(***************************************************************************)
(* The BLE-to-serial bridge (dev/examples/ble/ble_uart_server/main.c).      *)
(* Bytes from the UART are collected by the receive interrupt and notified  *)
(* by a timer; what the peer writes is transmitted.  The callbacks of the   *)
(* stack and of the timer run one after the other in ble_loop; the UART     *)
(* interrupt comes between any two of their steps unless it is masked.      *)
(*                                                                         *)
(* The BLE stack and the link are external.  Of the UART driver only what   *)
(* module Uart shows of it is used: a transfer ends some time after it was  *)
(* accepted, one of length 0 is refused, and a reception of one byte is     *)
(* accepted by the callback of the one before.                              *)
(***************************************************************************)
EXTENDS Integers, Sequences, SequencesExt

CONSTANTS
    BufferSize,   \* UART_SVC_BUFFER_SIZE
    MaxData,      \* UART_SVC_TX_MAX_LEN
    DefaultData,  \* UART_SERVER_MTU_DFT - 3
    DataLens,     \* mtu - 3, for the MTUs a peer may ask for
    WriteLens,    \* lengths the peer may write
    DoneWhenLost, \* TRUE: SERVER_NOTIFICATION_DONE comes also when the link is lost
    MaxRx,        \* bound: bytes that arrive
    MaxLinks      \* bound: connections

ASSUME ServerAssumption ==
    /\ BufferSize \in Nat \ {0} /\ MaxData \in Nat \ {0}
    /\ DefaultData \in Nat \ {0} /\ DataLens \subseteq Nat \ {0}
    /\ WriteLens \subseteq 0 .. BufferSize
    /\ DoneWhenLost \in BOOLEAN /\ MaxRx \in Nat /\ MaxLinks \in Nat

VARIABLES
    connected,  \* connect_id # 0xff
    data,       \* uart_server_mtu - 3
    linkData,   \* what one notification can carry on the link
    buffer,     \* uart_server_buf
    index,      \* uart_server_rx_index
    ntfDone,    \* uart_server_ntf_done
    txBusy,     \* uart_server_tx_busy
    uart,       \* gState of the UART
    pc,         \* where the callback in ble_loop is
    len,        \* its tx_len, or the length of the write request
    masked,     \* enter_critical
    inAir,      \* the stack has a notification to report as done
    received, notified, longest, links   \* history

vars == <<connected, data, linkData, buffer, index, ntfDone, txBusy, uart, pc, len, masked,
          inAir, received, notified, longest, links>>
linkVars == <<connected, data, linkData, links>>
rxVars == <<buffer, index, received>>
ntfVars == <<ntfDone, inAir, notified, longest>>
txVars == <<txBusy, uart>>

Least(S) == CHOOSE x \in S : \A y \in S : x <= y

-----------------------------------------------------------------------------
(* The link; gap_manager_callback and gatt_manager_callback. *)

Connect ==
    /\ pc = "idle" /\ ~connected /\ links < MaxLinks
    /\ connected' = TRUE /\ links' = links + 1
    /\ UNCHANGED <<data, linkData, rxVars, ntfVars, txVars, pc, len, masked>>

Disconnect_MtuKept ==
    /\ pc = "idle" /\ connected
    /\ connected' = FALSE
    /\ linkData' = DefaultData /\ data' = data
    /\ inAir' = (inAir /\ DoneWhenLost)
    /\ UNCHANGED <<links, rxVars, ntfDone, notified, longest, txVars, pc, len, masked>>

Disconnect ==
    /\ pc = "idle" /\ connected
    /\ connected' = FALSE
    /\ linkData' = DefaultData /\ data' = DefaultData
    /\ inAir' = (inAir /\ DoneWhenLost)
    /\ UNCHANGED <<links, rxVars, ntfDone, notified, longest, txVars, pc, len, masked>>

MtuChanged(d) ==
    /\ pc = "idle" /\ connected
    /\ linkData' = d /\ data' = d
    /\ UNCHANGED <<connected, links, rxVars, ntfVars, txVars, pc, len, masked>>

NotificationDone_Missed ==
    /\ pc = "idle" /\ inAir
    /\ inAir' = FALSE /\ ntfDone' = connected
    /\ UNCHANGED <<linkVars, rxVars, notified, longest, txVars, pc, len, masked>>

NotificationDone ==
    /\ pc = "idle" /\ inAir
    /\ inAir' = FALSE /\ ntfDone' = TRUE
    /\ UNCHANGED <<linkVars, rxVars, notified, longest, txVars, pc, len, masked>>

-----------------------------------------------------------------------------
(* From the UART to the peer. *)

RxCplt_NotChecked ==
    /\ ~masked /\ Len(received) < MaxRx
    /\ buffer' = [buffer EXCEPT ![index] = Len(received) + 1]
    /\ index' = index + 1
    /\ received' = Append(received, Len(received) + 1)
    /\ UNCHANGED <<linkVars, ntfVars, txVars, pc, len, masked>>

\* HAL_UART_RxCpltCallback; the next reception of one byte is armed at once.
RxCplt ==
    /\ ~masked /\ Len(received) < MaxRx
    /\ IF index < BufferSize
       THEN /\ buffer' = [buffer EXCEPT ![index] = Len(received) + 1]
            /\ index' = index + 1
            /\ received' = Append(received, Len(received) + 1)
       ELSE UNCHANGED rxVars
    /\ UNCHANGED <<linkVars, ntfVars, txVars, pc, len, masked>>

Timer_Unmasked ==
    /\ pc = "idle" /\ connected
    /\ pc' = "ntf" /\ masked' = FALSE
    /\ UNCHANGED <<linkVars, rxVars, ntfVars, txVars, len>>

\* ls_uart_server_timer_cb.
Timer ==
    /\ pc = "idle" /\ connected
    /\ pc' = "ntf" /\ masked' = TRUE
    /\ UNCHANGED <<linkVars, rxVars, ntfVars, txVars, len>>

\* ls_uart_server_send_notification.
NtfTake ==
    /\ pc = "ntf" /\ index > 0 /\ ntfDone
    /\ ntfDone' = FALSE
    /\ len' = Least({index, data, MaxData})
    /\ index' = index - len'
    /\ pc' = "send"
    /\ UNCHANGED <<linkVars, buffer, received, inAir, notified, longest, txVars, masked>>

NtfNone ==
    /\ pc = "ntf" /\ (index = 0 \/ ~ntfDone)
    /\ pc' = "idle" /\ masked' = FALSE
    /\ UNCHANGED <<linkVars, rxVars, ntfVars, txVars, len>>

NtfSend ==
    /\ pc = "send"
    /\ notified' = notified \o [i \in 1 .. len |-> buffer[i - 1]]
    /\ longest' = len
    /\ inAir' = TRUE
    /\ pc' = "shift"
    /\ UNCHANGED <<linkVars, rxVars, ntfDone, txVars, len, masked>>

\* The memcpy to the front overlaps; it is taken to copy upwards.
NtfShift ==
    /\ pc = "shift"
    /\ buffer' = [i \in 0 .. BufferSize - 1 |-> IF i < index THEN buffer[i + len] ELSE buffer[i]]
    /\ pc' = "idle" /\ masked' = FALSE /\ len' = 0
    /\ UNCHANGED <<linkVars, index, received, ntfVars, txVars>>

-----------------------------------------------------------------------------
(* From the peer to the UART: ls_uart_server_write_req_ind. *)

WriteReq(n) ==
    /\ pc = "idle" /\ connected /\ ~txBusy
    /\ txBusy' = TRUE
    /\ pc' = "transmit" /\ len' = n
    /\ UNCHANGED <<linkVars, rxVars, ntfVars, uart, masked>>

\* HAL_UART_Transmit_IT refuses an empty transfer; nobody looks at what it returns.
TransmitStart ==
    /\ pc = "transmit"
    /\ uart' = IF uart = "READY" /\ len > 0 THEN "BUSY_TX" ELSE uart
    /\ pc' = "idle" /\ len' = 0
    /\ UNCHANGED <<linkVars, rxVars, ntfVars, txBusy, masked>>

TxCplt_BusyKept ==
    /\ uart = "BUSY_TX" /\ ~masked
    /\ uart' = "READY" /\ txBusy' = txBusy
    /\ UNCHANGED <<linkVars, rxVars, ntfVars, pc, len, masked>>

\* UART_EndTransmit_IT and HAL_UART_TxCpltCallback.
TxCplt ==
    /\ uart = "BUSY_TX" /\ ~masked
    /\ uart' = "READY" /\ txBusy' = FALSE
    /\ UNCHANGED <<linkVars, rxVars, ntfVars, pc, len, masked>>

-----------------------------------------------------------------------------
\* STACK_READY: nothing is connected, the first reception is armed.
Init ==
    /\ connected = FALSE /\ data = DefaultData /\ linkData = DefaultData
    /\ buffer = [i \in 0 .. BufferSize - 1 |-> 0] /\ index = 0
    /\ ntfDone = TRUE /\ txBusy = FALSE /\ uart = "READY"
    /\ pc = "idle" /\ len = 0 /\ masked = FALSE
    /\ inAir = FALSE
    /\ received = << >> /\ notified = << >> /\ longest = 0 /\ links = 0

Callback == NtfTake \/ NtfNone \/ NtfSend \/ NtfShift \/ TransmitStart

Next ==
    \/ Connect \/ Disconnect \/ \E d \in DataLens : MtuChanged(d)
    \/ NotificationDone \/ RxCplt \/ Timer \/ \E n \in WriteLens : WriteReq(n)
    \/ Callback \/ TxCplt

\* A callback runs to its end.  The timer starts itself again and the stack reports
\* every notification, between other callbacks: strong fairness.  So is that of the
\* end of a transfer: an interrupt that is masked stays pending.
Fairness ==
    /\ WF_vars(Callback) /\ SF_vars(Timer) /\ SF_vars(TxCplt) /\ SF_vars(NotificationDone)

Spec == Init /\ [][Next]_vars /\ Fairness

-----------------------------------------------------------------------------
(* Properties. *)

TypeOK ==
    /\ connected \in BOOLEAN /\ data \in Nat \ {0} /\ linkData \in Nat \ {0}
    /\ buffer \in [0 .. BufferSize - 1 -> Nat] /\ index \in 0 .. BufferSize
    /\ ntfDone \in BOOLEAN /\ txBusy \in BOOLEAN /\ uart \in {"READY", "BUSY_TX"}
    /\ pc \in {"idle", "ntf", "send", "shift", "transmit"}
    /\ len \in 0 .. BufferSize /\ masked \in BOOLEAN /\ inAir \in BOOLEAN
    /\ received \in Seq(Nat) /\ notified \in Seq(Nat)
    /\ longest \in Nat /\ links \in Nat

\* What has been stored and not yet handed to the stack.
Held ==
    CASE pc = "send" -> [i \in 1 .. len + index |-> buffer[i - 1]]
      [] pc = "shift" -> [i \in 1 .. index |-> buffer[i + len - 1]]
      [] OTHER -> [i \in 1 .. index |-> buffer[i - 1]]

\* Every byte stored is notified once and in the order it arrived, although the
\* receive interrupt fills the buffer that the timer empties and moves.
InOrder == notified \o Held = received

\* A notification is never longer than the link can carry: the stack would drop the
\* rest (doc/demos/ble_uart_server.rst).
NtfFits == pc = "shift" => longest <= linkData

\* A write of the peer is discarded as "Uart tx busy" only while the UART transmits.
BusyMeansBusy == pc = "idle" /\ txBusy => uart = "BUSY_TX"

\* As long as the peer stays, everything received is notified.
Drained == (index > 0 /\ connected) ~> (index = 0 \/ ~connected)

\* The peer's writes are accepted again and again.
WritesAccepted == txBusy ~> ~txBusy
=============================================================================
