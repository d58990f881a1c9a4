------------------------------ MODULE MultiLink ------------------------------
(***************************************************************************)
(* The UART bridge over several links (dev/examples/ble/                    *)
(* ble_master_slave_combine; ble_uart_server_mult_link is the same with the *)
(* role of slave only).  The host sends frames <<sync, length, link,        *)
(* payload>>, which the receive interrupt takes apart and stores for the    *)
(* link; a timer hands what is stored to the stack, in pieces that fit the  *)
(* link's MTU.  What the peers send, and a message at every change of a     *)
(* link, waits in one buffer per link for the UART.                         *)
(*                                                                         *)
(* The callbacks of the stack and of the timer run one after the other; the *)
(* interrupts of the UART come between any two of their steps.              *)
(* External: the stack, the host, the UART driver.  Advertising, scanning   *)
(* and the discovery of the peer's service are left out.                    *)
(***************************************************************************)
EXTENDS Integers, Sequences, FiniteSets

CONSTANTS
    Roles,      \* slave, master
    Slots,      \* UART_SERVER_MASTER_NUM, UART_CLIENT_NUM
    Links,      \* connection indices
    None,       \* CON_IDX_INVALID_VAL
    Sync,       \* UART_SYNC_BYTE
    PayloadMax, \* UART_RX_PAYLOAD_LEN_MAX
    DataDefault, DataLens, \* what one notification carries: mtu - 3
    Frames,     \* what the host sends, unit by unit
    DoneWhenLost, WritesFail, \* what the stack reports: see Disconnect and SendDone
    Budgets     \* bounds: frames of the host, data of the peers, connections

Places == {p \in Roles \X (1 .. 8) : p[2] <= Slots[p[1]]}

ASSUME MultiLinkAssumption ==
    /\ Roles = {"slave", "master"} /\ Slots \in [Roles -> 0 .. 8] /\ Slots["slave"] > 0
    /\ Links \subseteq Nat /\ None \notin Links
    /\ PayloadMax \in Nat /\ DataDefault \in Nat \ {0} /\ DataLens \subseteq Nat \ {0}
    /\ Sync \in Nat
    /\ \A f \in Frames : f \in Seq(Nat) /\ Len(f) > 3 /\ f[1] = Sync /\ Len(f) = 3 + f[2]
    /\ DoneWhenLost \in BOOLEAN /\ WritesFail \in BOOLEAN
    /\ Budgets \subseteq [frames : Nat, writes : Nat, conns : Nat]

VARIABLES
    link,     \* con_idx_array, con_idx_client_array
    data,     \* UART_SERVER_MAX_DATA_LEN, UART_CLIENT_MAX_DATA_LEN
    done,     \* uart_server_ntf_done_array, uart_client_wr_cmd_done_array
    held,     \* the ble_buf_array up to recv_data_length: the number of every byte
    tx,       \* the tx_buf: the number of the message, 0 without the sync byte
    busy,     \* uart_tx_busy
    cur,      \* current_uart_tx_idx
    leaving,  \* the parts of the frame on the UART that have left
    seen,     \* the buffer a callback has filled, or found waiting, and may start, if any
    rxState,  \* uart_state
    rxLeft,   \* units until the reception that is armed completes
    hdr,      \* of uart_server_rx_buf: length and link
    pc,       \* the step of the timer's callback; 0: it does not run
    host,     \* what is left of the frame the host is sending
    taken, handed, sentNo, inStep, \* history
    mixed,    \* history: the frame on the UART was written over, or sent when nothing waited
    writes,   \* messages so far
    left      \* of the budget

rxVars == <<rxState, rxLeft, hdr, inStep>>
txVars == <<tx, busy, cur, leaving, sentNo, mixed>>
linkVars == <<link, data, done>>
timer == <<pc, seen>>
vars == <<rxVars, txVars, linkVars, timer, held, taken, handed, host, left, writes>>

-----------------------------------------------------------------------------
(* Reception: HAL_UART_RxCpltCallback. *)

At(l) == {p \in Places : link[p] = l}

Arm(state, n) == rxState' = state /\ rxLeft' = n

Valid_AnyLength(len, l) == len > 0 /\ At(l) # {}

\* The header is of a frame for a link that is up.
Valid(len, l) == len > 0 /\ len <= PayloadMax /\ At(l) # {}

RxIdle(u) ==
    /\ rxState = "idle"
    /\ IF u = Sync THEN Arm("sync", 2) ELSE Arm("idle", 1)
    /\ UNCHANGED <<hdr, inStep, held, taken>>

RxSync(u) ==
    /\ rxState = "sync"
    /\ \/ rxLeft > 1 /\ Arm("sync", rxLeft - 1) /\ hdr' = <<u>> /\ inStep' = inStep
       \/ /\ rxLeft = 1 /\ Valid(hdr[1], u)
          /\ Arm("receiving", hdr[1]) /\ hdr' = Append(hdr, u) /\ inStep' = inStep
       \/ /\ rxLeft = 1 /\ ~Valid(hdr[1], u)
          /\ Arm("idle", 1) /\ hdr' = << >> /\ inStep' = FALSE
    /\ UNCHANGED <<held, taken>>

Store(p, len) ==
    /\ held' = [held EXCEPT ![p] = [i \in 1 .. len |-> taken[p] + i]]
    /\ taken' = [taken EXCEPT ![p] = @ + len]

Accept_Always(l, len) ==
    IF At(l) = {} THEN UNCHANGED <<held, taken>>
    ELSE \E p \in At(l) : Store(p, len)

\* A frame for a link that still holds data is dropped.
Accept(l, len) ==
    \/ \E p \in At(l) : held[p] = << >> /\ Store(p, len)
    \/ /\ \A p \in At(l) : held[p] # << >>
       /\ UNCHANGED <<held, taken>>

RxPayload_NotRestarted(u) ==
    /\ rxState = "receiving"
    /\ IF rxLeft > 1 THEN Arm("receiving", rxLeft - 1) /\ UNCHANGED <<hdr, held, taken>>
       ELSE /\ IF At(hdr[2]) = {} THEN Arm("sync", 2) ELSE Arm("idle", 1)
            /\ hdr' = << >> /\ Accept(hdr[2], hdr[1])
    /\ inStep' = inStep

RxPayload(u) ==
    /\ rxState = "receiving"
    /\ IF rxLeft > 1 THEN Arm("receiving", rxLeft - 1) /\ UNCHANGED <<hdr, held, taken>>
       ELSE Arm("idle", 1) /\ hdr' = << >> /\ Accept(hdr[2], hdr[1])
    /\ inStep' = inStep

Rx ==
    /\ host # << >>
    /\ host' = Tail(host)
    /\ RxIdle(Head(host)) \/ RxSync(Head(host)) \/ RxPayload(Head(host))
    /\ UNCHANGED <<txVars, linkVars, handed, timer, left, writes>>

\* The host; a new frame finds the receiver in step if nothing else has come since the last.
HostSends ==
    /\ host = << >> /\ left.frames > 0
    /\ \E f \in Frames : host' = f
    /\ left' = [left EXCEPT !.frames = @ - 1]
    /\ inStep' = (inStep \/ rxState = "idle")
    /\ UNCHANGED <<rxState, rxLeft, hdr, txVars, linkVars, held, taken, handed, timer, writes>>

-----------------------------------------------------------------------------
(* The way to the UART. *)

Start(p) == busy' = TRUE /\ cur' = p /\ leaving' = << >> /\ mixed' = (tx'[p] = 0)

\* A frame leaves part by part, as its buffer holds it at that moment.
TxPart ==
    /\ busy /\ Len(leaving) < 2
    /\ leaving' = Append(leaving, tx[cur])
    /\ UNCHANGED <<rxVars, tx, busy, cur, sentNo, mixed, linkVars, held, taken, handed, timer, host,
                   left, writes>>

TxCplt_FlagKept ==
    /\ busy /\ Len(leaving) = 2
    /\ busy' = FALSE /\ leaving' = << >>
    /\ tx' = tx
    /\ sentNo' = [sentNo EXCEPT ![cur] = IF leaving[2] > @ THEN leaving[2] ELSE @]
    /\ UNCHANGED <<rxVars, cur, mixed, linkVars, held, taken, handed, timer, host, left, writes>>

\* HAL_UART_TxCpltCallback.
TxCplt ==
    /\ busy /\ Len(leaving) = 2
    /\ busy' = FALSE /\ leaving' = << >>
    /\ tx' = [tx EXCEPT ![cur] = 0]
    /\ sentNo' = [sentNo EXCEPT ![cur] = IF leaving[2] > @ THEN leaving[2] ELSE @]
    /\ UNCHANGED <<rxVars, cur, mixed, linkVars, held, taken, handed, timer, host, left, writes>>

\* No callback of the stack or of the timer is under way.
Idle == pc = 0 /\ seen = << >>

Filled(p) ==
    /\ writes' = writes + 1 /\ left' = [left EXCEPT !.writes = @ - 1]
    /\ tx' = [tx EXCEPT ![p] = writes'] /\ seen' = p
    /\ UNCHANGED <<rxVars, busy, cur, leaving, mixed, sentNo, linkVars, held, taken, handed, pc, host>>

PeerData_Overwrites(p) ==
    Idle /\ link[p] # None /\ left.writes > 0 /\ Filled(p)

\* ls_uart_server_write_req_ind, ls_uart_client_recv_ntf_ind: while the buffer waits the data
\* are dropped, else it is filled with interrupts let through, ...
PeerData(p) ==
    Idle /\ link[p] # None /\ left.writes > 0 /\ tx[p] = 0 /\ Filled(p)

StartSeen ==
    /\ tx' = tx /\ seen' = << >>
    /\ IF busy THEN UNCHANGED <<busy, cur, leaving, mixed>> ELSE Start(seen)
    /\ UNCHANGED <<rxVars, sentNo, linkVars, held, taken, handed, host, left, writes>>

\* ... and sent, if the UART is free after that.
PeerStart == pc = 0 /\ seen # << >> /\ pc' = 0 /\ StartSeen

-----------------------------------------------------------------------------
(* The timer: ls_uart_server_timer_cb, whose steps are critical sections. *)

HandSteps(r) == [i \in 1 .. Slots[r] |-> [do |-> "hand", role |-> r, n |-> i]]
TxSteps(r) == << [do |-> "look", role |-> r, n |-> 1], [do |-> "start", role |-> r, n |-> 1] >>

Steps == HandSteps("slave") \o TxSteps("slave") \o TxSteps("master") \o HandSteps("master")

After(n) == pc' = IF pc + n > Len(Steps) THEN 0 ELSE pc + n
Advance == After(1)

Timer ==
    /\ Idle /\ pc' = 1 /\ seen' = << >>
    /\ UNCHANGED <<rxVars, txVars, linkVars, held, taken, handed, host, left, writes>>

\* One place of ls_uart_server_send_notification or ls_uart_client_send_write_req.
Hand ==
    /\ pc > 0 /\ Steps[pc].do = "hand" /\ Advance /\ seen' = seen
    /\ LET p == <<Steps[pc].role, Steps[pc].n>>
           m == IF Len(held[p]) > data[p] THEN data[p] ELSE Len(held[p])
       IN  IF link[p] # None /\ held[p] # << >> /\ done[p]
           THEN /\ done' = [done EXCEPT ![p] = FALSE]
                /\ held' = [held EXCEPT ![p] = SubSeq(@, m + 1, Len(@))]
                /\ handed' = [handed EXCEPT ![p] = @ + m]
           ELSE UNCHANGED <<done, held, handed>>
    /\ UNCHANGED <<rxVars, txVars, link, data, taken, host, left, writes>>

Waiting_SlavesOnly(r) == {p \in Places : p[1] = r /\ r = "slave" /\ tx[p] # 0}

Waiting(r) == {p \in Places : p[1] = r /\ tx[p] # 0}

\* ls_uart_server_client_uart_tx: the loop over one role ends at its first buffer with the
\* sync byte, which is looked at before interrupts are masked, ...
Look ==
    /\ pc > 0 /\ Steps[pc].do = "look"
    /\ LET W == Waiting(Steps[pc].role)
       IN  IF W = {} THEN After(2) /\ seen' = << >>
           ELSE Advance /\ seen' = CHOOSE p \in W : \A q \in W : p[2] <= q[2]
    /\ UNCHANGED <<rxVars, txVars, linkVars, held, taken, handed, host, left, writes>>

\* ... and is sent, if the UART is free after that, without another look.
UartTx == pc > 0 /\ Steps[pc].do = "start" /\ Advance /\ StartSeen

-----------------------------------------------------------------------------
(* The links: gap_manager_callback, gatt_manager_callback. *)

\* connect_pattern_send_prepare, disconnect_pattern_send_prepare: into the buffer, whatever
\* it holds, and whether or not it is being sent.
Pattern(p) ==
    /\ writes' = writes + 1
    /\ tx' = [tx EXCEPT ![p] = writes']
    /\ mixed' = (mixed \/ (busy /\ cur = p))
    /\ UNCHANGED <<busy, cur, leaving, sentNo>>

Connect(r, l) ==
    /\ Idle /\ left.conns > 0 /\ At(l) = {}
    /\ \E p \in Places :
         /\ p[1] = r /\ link[p] = None
         /\ \A q \in Places : q[1] = r /\ link[q] = None => p[2] <= q[2]
         /\ link' = [link EXCEPT ![p] = l]
         /\ Pattern(p)
    /\ left' = [left EXCEPT !.conns = @ - 1]
    /\ UNCHANGED <<rxVars, data, done, held, taken, handed, timer, host>>

\* With DoneWhenLost the stack reports what it was given before it reports the loss; after
\* it, gatt_manager_callback asserts that the link is known.
Disconnect(p) ==
    /\ Idle /\ link[p] # None /\ (DoneWhenLost => done[p])
    /\ Pattern(p)
    /\ link' = [link EXCEPT ![p] = None]
    /\ data' = [data EXCEPT ![p] = DataDefault]
    /\ UNCHANGED <<rxVars, done, held, taken, handed, timer, host, left>>

\* MTU_CHANGED_INDICATION
MtuChanged(p) ==
    /\ Idle /\ link[p] # None
    /\ \E m \in DataLens : data[p] # m /\ data' = [data EXCEPT ![p] = m]
    /\ UNCHANGED <<rxVars, txVars, link, done, held, taken, handed, timer, host, left, writes>>

\* SERVER_NOTIFICATION_DONE, CLIENT_WRITE_NO_RSP_DONE; a write that failed is not done.
SendDone(p) ==
    /\ Idle /\ link[p] # None /\ ~done[p]
    /\ \E ok \in IF WritesFail THEN BOOLEAN ELSE {TRUE} :
         done' = [done EXCEPT ![p] = p[1] = "slave" \/ ok]
    /\ UNCHANGED <<rxVars, txVars, link, data, held, taken, handed, timer, host, left, writes>>

-----------------------------------------------------------------------------
\* ls_uart_server_init, ls_uart_client_init, and the first reception.
Init ==
    /\ link = [p \in Places |-> None] /\ data = [p \in Places |-> DataDefault]
    /\ done = [p \in Places |-> TRUE] /\ held = [p \in Places |-> << >>]
    /\ tx = [p \in Places |-> 0] /\ busy = FALSE /\ cur = <<"slave", 1>>
    /\ leaving = << >> /\ rxState = "idle" /\ rxLeft = 1 /\ hdr = << >> /\ host = << >>
    /\ pc = 0 /\ seen = << >>
    /\ taken = [p \in Places |-> 0] /\ handed = [p \in Places |-> 0]
    /\ sentNo = [p \in Places |-> 0] /\ inStep = TRUE /\ mixed = FALSE
    /\ writes = 0 /\ left \in Budgets

Next ==
    \/ Rx \/ HostSends \/ TxPart \/ TxCplt \/ PeerStart \/ Timer \/ Hand \/ Look \/ UartTx
    \/ \E r \in Roles, l \in Links : Connect(r, l)
    \/ \E p \in Places : PeerData(p) \/ Disconnect(p) \/ MtuChanged(p) \/ SendDone(p)

\* The timer starts itself again, the loop runs its callbacks, the UART goes on.
Fairness ==
    /\ WF_vars(PeerStart \/ Timer \/ Hand \/ Look \/ UartTx)
    /\ WF_vars(TxPart \/ TxCplt)
    /\ SF_vars(\E p \in Places : SendDone(p))

Spec == Init /\ [][Next]_vars /\ Fairness

-----------------------------------------------------------------------------
(* Properties. *)

TypeOK ==
    /\ link \in [Places -> Links \cup {None}] /\ data \in [Places -> Nat \ {0}]
    /\ done \in [Places -> BOOLEAN] /\ held \in [Places -> Seq(Nat)]
    /\ tx \in [Places -> Nat] /\ busy \in BOOLEAN /\ cur \in Places
    /\ leaving \in Seq(Nat) /\ Len(leaving) <= 2
    /\ rxState \in {"idle", "sync", "receiving"} /\ hdr \in Seq(Nat) /\ Len(hdr) <= 2
    /\ rxLeft \in 1 .. IF rxState = "receiving" THEN PayloadMax ELSE 2
    /\ pc \in 0 .. Len(Steps) /\ seen \in Places \cup {<< >>} /\ host \in Seq(Nat)
    /\ taken \in [Places -> Nat] /\ handed \in [Places -> Nat] /\ sentNo \in [Places -> Nat]
    /\ inStep \in BOOLEAN /\ mixed \in BOOLEAN
    /\ writes \in Nat /\ left \in [frames : Nat, writes : Nat, conns : Nat]

\* No byte that was stored for a link is lost, doubled or put out of order on its way to the
\* stack, although the interrupt stores while the timer takes, piece by piece.
Conserved ==
    \A p \in Places :
        /\ held[p] = [i \in 1 .. Len(held[p]) |-> handed[p] + i]
        /\ taken[p] = handed[p] + Len(held[p])

\* The receiver is where the host is in its frame, also when the frame is for a link that is
\* lost meanwhile or still holds data, unless a header was refused: then what follows it is
\* searched for the next sync byte.
InStep ==
    inStep =>
        \/ rxState = "idle" /\ (host = << >> \/ (host[1] = Sync /\ Len(host) = 3 + host[2]))
        \/ /\ rxState = "sync" /\ host # << >>
           /\ Len(host) = rxLeft + (IF rxLeft = 2 THEN host[1] ELSE hdr[1])
        \/ rxState = "receiving" /\ host # << >> /\ Len(host) = rxLeft

\* The parts of a frame on the UART are of one message, the one its buffer still holds, unless
\* the link changed while it was sent or it should not have been sent (SentWaiting).
FrameWhole == busy /\ ~mixed => tx[cur] # 0 /\ \A i \in 1 .. Len(leaving) : leaving[i] = tx[cur]

\* "clear server buffer sync byte": what is being sent has not been sent already.
SentWaiting == busy => tx[cur] # 0

\* A message that waits for the UART has not been sent before, nor has a later one.
SentOnce == \A p \in Places : tx[p] # 0 => tx[p] > sentNo[p]

\* Once the peers pause no buffer waits for the UART any more, its message having left or been
\* written over, or cleared with the end of a transfer that should not have been (SentWaiting);
\* and what is stored for links that stay up has been handed over.
Forwarded ==
    /\ (\E p \in Places : tx[p] # 0) ~> (\A p \in Places : tx[p] = 0)
    /\ (\E p \in Places : held[p] # << >> /\ link[p] # None)
           ~> (\A p \in Places : held[p] = << >> \/ link[p] = None)
=============================================================================
