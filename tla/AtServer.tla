------------------------------ MODULE AtServer ------------------------------
(***************************************************************************)
(* The AT command bridge (dev/examples/ble/ble_at_proj): at_recv runs in the *)
(* UART's receive interrupt, parses commands and collects data; it posts     *)
(* work to ble_loop with func_post.  What is posted is a pointer to the ONE  *)
(* message at_cmd_event, so the queue of the loop is a count and every entry *)
(* is read when it is run.  Timers, commands and the callbacks of the stack  *)
(* run one after the other in ble_loop, the interrupt between any two of     *)
(* their steps.                                                             *)
(*                                                                         *)
(* External: the BLE stack, its timers (one shot) and func_post.  A command  *)
(* is one token between the tokens "AT+" and "end"; what a command answers,  *)
(* advertising, scanning and the UART's way out are left out.               *)
(***************************************************************************)
EXTENDS Integers, Sequences, FiniteSets, SequencesExt

CONSTANTS
    RecvMax,    \* AT_RECV_MAX_LEN
    DownLevel,  \* AT_TRANSPARENT_DOWN_LEVEL
    Roles,      \* of the device on a link: slave, master
    Slots,      \* UART_SERVER_MASTER_NUM, UART_CLIENT_NUM
    Links,      \* connection indices of the stack
    None,       \* CON_IDX_INVALID_VAL
    MtuData,    \* gattc_get_mtu(con_idx) - 3
    Lines,      \* what the host writes in one go: sequences of tokens
    AutoTransStored, \* auto_trans as it may have been stored in flash
    MaxLines,   \* bound: lines the host writes
    MaxConns    \* bound: connections

ASSUME AtAssumption ==
    /\ RecvMax \in Nat /\ DownLevel \in 3 .. RecvMax - 3
    /\ Slots \in [Roles -> Nat]
    /\ Links \subseteq Nat /\ IsFiniteSet(Links) /\ 0 \in Links /\ None \notin Links
    /\ \A l \in Lines :
         /\ l \in Seq(Range(l))
         /\ \A c \in Range(l) :
              /\ c[1] = "SEND" => c[3] \in Nat
              /\ c[1] = "AUTO" => c[2] \in BOOLEAN
    /\ AutoTransStored \subseteq BOOLEAN
    /\ MtuData \in Nat \ {0} /\ MaxLines \in Nat /\ MaxConns \in Nat

VARIABLES
    recv,         \* at_recv_buffer up to at_recv_index
    recvState,    \* at_recv_state: 0, or 3 after "AT+"
    dataSending,  \* data_sending
    posted,       \* entries func_post has queued and ble_loop has not run
    event,        \* at_cmd_event.evt_id
    cmd,          \* recv_cmd
    transparent,  \* transparent_start
    conIdx,       \* transparent_conidx
    slotStart,    \* one_slot_send_start
    slotLen,      \* one_slot_send_len
    autoTrans,    \* default_info.auto_trans
    flush,        \* uart_server_timer_inst runs
    exit,         \* exit_trans_mode_timer runs
    table,        \* con_idx_array, con_idx_client_array
    done,         \* uart_server_ntf_done_array, uart_client_wr_cmd_done_array
    pc,           \* where the callback in ble_loop is
    host,         \* what is left of the line the host is writing
    waiting,      \* the host waits for the answer to a command
    inAir,        \* links with data the stack has not reported done
    lines, conns, taken, sent, lost   \* bounds and history

rxVars == <<recv, recvState, taken>>
queueVars == <<posted, event, cmd, dataSending>>
modeVars == <<transparent, conIdx, slotStart, slotLen, autoTrans>>
timerVars == <<flush, exit>>
linkVars == <<table, done, inAir, conns>>
hostVars == <<host, waiting, lines>>
histVars == <<sent, lost>>
vars == <<rxVars, queueVars, modeVars, timerVars, linkVars, hostVars, histVars, pc>>

-----------------------------------------------------------------------------
(* The tables of connections. *)

Places == {p \in Roles \X (1 .. RecvMax) : p[2] <= Slots[p[1]]}

Connected == {table[p] : p \in Places} \ {None}

\* search_conidx, search_client_conidx: the first place that holds a link, or is free.
Place(r, link) ==
    CHOOSE p \in Places : p[1] = r /\ table[p] = link
                          /\ \A q \in Places : q[1] = r /\ table[q] = link => p[2] <= q[2]

PlaceOf(link) == CHOOSE p \in Places : table[p] = link

FirstLink == CHOOSE l \in Connected : \A k \in Connected : l <= k

-----------------------------------------------------------------------------
(* The receive interrupt: at_recv. *)

Token(c) == [n |-> taken + 1, c |-> c]

Stored_Unbounded(c) == Append(recv, Token(c))

\* at_recv_buffer[at_recv_index++] = c, while there is room.
Stored(c) == IF Len(recv) < RecvMax - 2 THEN Append(recv, Token(c)) ELSE recv

\* Whether the byte is the first of a batch, and whether the batch is to be sent now.
First == recv = << >>
Full(buf) == Len(buf) > DownLevel /\ ~dataSending

Post(first, send) ==
    /\ posted' = posted + (IF first THEN 1 ELSE 0) + (IF send THEN 1 ELSE 0)
    /\ event' = IF send THEN "data" ELSE IF first THEN "start_timer" ELSE event
    /\ dataSending' = (dataSending \/ send)
    /\ cmd' = cmd

AtRecvTransparent(c) ==
    /\ transparent
    /\ recv' = Stored(c)
    /\ Post(First, Full(recv'))
    /\ exit' = (Len(recv') = 3 /\ \A i \in 1 .. 3 : recv'[i].c = <<"+">>)
    /\ UNCHANGED <<waiting, recvState, flush, modeVars>>

AtRecvSlot_LastNotPosted(c) ==
    /\ ~transparent /\ slotStart /\ slotLen > 0
    /\ recv' = Stored(c)
    /\ slotLen' = slotLen - 1
    /\ Post(First, Full(recv'))
    /\ UNCHANGED <<waiting, recvState, timerVars, transparent, conIdx, slotStart, autoTrans>>

AtRecvSlot(c) ==
    /\ ~transparent /\ slotStart /\ slotLen > 0
    /\ recv' = Stored(c)
    /\ slotLen' = slotLen - 1
    /\ Post(First, Full(recv') \/ slotLen' = 0)
    /\ UNCHANGED <<waiting, recvState, timerVars, transparent, conIdx, slotStart, autoTrans>>

\* All of the slot's bytes have come and not been sent: the byte is dropped.
AtRecvDropped(c) ==
    /\ ~transparent /\ slotStart /\ slotLen = 0
    /\ UNCHANGED <<waiting, recv, recvState, queueVars, timerVars, modeVars>>

AtRecvCommand(c) ==
    /\ ~transparent /\ ~slotStart
    /\ \/ /\ recvState = 0
          /\ recvState' = IF c = <<"AT+">> THEN 3 ELSE 0
          /\ UNCHANGED <<recv, queueVars, waiting>>
       \/ /\ recvState = 3 /\ (c # <<"end">> \/ Len(recv) + 1 = RecvMax)
          /\ IF Len(recv) + 1 = RecvMax
             THEN recv' = << >> /\ recvState' = 0
             ELSE recv' = Append(recv, Token(c)) /\ recvState' = 3
          /\ UNCHANGED <<queueVars, waiting>>
       \/ /\ recvState = 3 /\ c = <<"end">> /\ Len(recv) + 1 < RecvMax
          /\ cmd' = IF recv = << >> THEN <<"none">> ELSE recv[1].c
          /\ event' = "cmd" /\ posted' = posted + 1
          /\ recv' = << >> /\ recvState' = 0 /\ waiting' = TRUE
          /\ UNCHANGED dataSending
    /\ UNCHANGED <<timerVars, modeVars>>

\* HAL_UART_RxCpltCallback; the next reception of one byte is armed at once.
AtRecv ==
    /\ host # << >>
    /\ LET c == Head(host) IN
         AtRecvTransparent(c) \/ AtRecvSlot(c) \/ AtRecvDropped(c) \/ AtRecvCommand(c)
    /\ host' = Tail(host) /\ taken' = taken + 1
    /\ UNCHANGED <<lines, linkVars, histVars, pc>>

HostWrites ==
    /\ host = << >> /\ ~waiting /\ lines < MaxLines
    /\ \E l \in Lines : host' = l
    /\ lines' = lines + 1
    /\ UNCHANGED <<waiting, rxVars, queueVars, modeVars, timerVars, linkVars, histVars, pc>>

-----------------------------------------------------------------------------
(* Commands: at_recv_cmd_handler.  Those that change the bridge's own state. *)

\* AT+SEND=link,len; the buffer is cleared by the next step.
Send(c) ==
    /\ c[1] = "SEND"
    /\ IF c[2] \in Connected
       THEN /\ conIdx' = c[2] /\ slotLen' = c[3] /\ slotStart' = TRUE
            /\ pc' = "answer"
       ELSE UNCHANGED <<conIdx, slotLen, slotStart>> /\ pc' = "idle"
    /\ UNCHANGED <<transparent, autoTrans>>

\* AT++++
Transparent(c) ==
    /\ c[1] = "+++"
    /\ IF Cardinality(Connected) = 1
       THEN transparent' = TRUE /\ conIdx' = FirstLink /\ pc' = "answer"
       ELSE UNCHANGED <<transparent, conIdx>> /\ pc' = "idle"
    /\ UNCHANGED <<slotStart, slotLen, autoTrans>>

\* AT+AUTO+++=Y, =N
AutoTrans(c) ==
    /\ c[1] = "AUTO"
    /\ autoTrans' = c[2]
    /\ UNCHANGED <<transparent, conIdx, slotStart, slotLen, pc>>

Command(c) ==
    \/ Send(c) \/ Transparent(c) \/ AutoTrans(c)
    \/ /\ c[1] \notin {"SEND", "+++", "AUTO"}
       /\ UNCHANGED <<modeVars, pc>>

-----------------------------------------------------------------------------
(* ble_loop: what was posted (at_cmd_recv_cb) and the timers. *)

Dispatch ==
    /\ pc = "idle" /\ posted > 0
    /\ posted' = posted - 1
    /\ UNCHANGED <<event, cmd, dataSending>>

RunCmd ==
    /\ Dispatch /\ event = "cmd"
    /\ Command(cmd)
    /\ waiting' = (pc' = "answer")
    /\ UNCHANGED <<rxVars, timerVars, linkVars, host, lines, histVars>>

RunStartTimer ==
    /\ Dispatch /\ event = "start_timer"
    /\ flush' = TRUE
    /\ UNCHANGED <<rxVars, modeVars, exit, linkVars, hostVars, histVars, pc>>

RunData ==
    /\ Dispatch /\ event = "data"
    /\ flush' = FALSE
    /\ pc' = IF conIdx \in Connected THEN "data" ELSE "idle"
    /\ UNCHANGED <<rxVars, modeVars, exit, linkVars, hostVars, histVars>>

\* The first m bytes go to the stack; the rest of the buffer is dropped with them.
HandOver(m) == sent' = IF m > 0 THEN recv[m].n ELSE sent

DataSend_IndexKept ==
    /\ pc = "data"
    /\ LET p == PlaceOf(conIdx) IN
         IF done[p]
         THEN /\ done' = [done EXCEPT ![p] = FALSE]
              /\ inAir' = inAir \cup {conIdx}
              /\ HandOver(IF Len(recv) < MtuData THEN Len(recv) ELSE MtuData)
         ELSE UNCHANGED <<done, inAir, sent>>
    /\ recv' = recv /\ dataSending' = FALSE
    /\ pc' = "sent"
    /\ UNCHANGED <<recvState, taken, posted, event, cmd, modeVars, timerVars, table, conns,
                   hostVars, lost>>

\* The critical section: ble_slave_send_data or ble_master_send_data.
DataSend ==
    /\ pc = "data"
    /\ LET p == PlaceOf(conIdx) IN
         IF done[p]
         THEN /\ done' = [done EXCEPT ![p] = FALSE]
              /\ inAir' = inAir \cup {conIdx}
              /\ HandOver(IF Len(recv) < MtuData THEN Len(recv) ELSE MtuData)
         ELSE UNCHANGED <<done, inAir, sent>>
    /\ recv' = << >> /\ dataSending' = FALSE
    /\ pc' = "sent"
    /\ UNCHANGED <<recvState, taken, posted, event, cmd, modeVars, timerVars, table, conns,
                   hostVars, lost>>

DataEnd ==
    /\ pc = "sent"
    /\ slotStart' = (slotStart /\ slotLen > 0)
    /\ pc' = "idle"
    /\ UNCHANGED <<rxVars, queueVars, transparent, conIdx, slotLen, autoTrans, timerVars,
                   linkVars, hostVars, histVars>>

\* at_clr_uart_buff after a change of mode.
Answer ==
    /\ pc = "answer"
    /\ recv' = << >> /\ waiting' = FALSE /\ pc' = "idle"
    /\ UNCHANGED <<recvState, taken, queueVars, modeVars, timerVars, linkVars, host, lines, histVars>>

Clear ==
    /\ pc = "clear"
    /\ recv' = << >> /\ pc' = "idle"
    /\ UNCHANGED <<recvState, taken, queueVars, modeVars, timerVars, linkVars, hostVars, histVars>>

\* transparent_timer_handler: between its look at data_sending and its post the interrupt
\* may have posted the same.
TransparentTimer ==
    /\ pc = "idle" /\ flush
    /\ flush' = FALSE
    /\ pc' = IF dataSending THEN "idle" ELSE "post"
    /\ UNCHANGED <<rxVars, queueVars, modeVars, exit, linkVars, hostVars, histVars>>

PostData ==
    /\ pc = "post" /\ pc' = "idle"
    /\ dataSending' = TRUE /\ event' = "data" /\ posted' = posted + 1
    /\ UNCHANGED <<cmd, rxVars, modeVars, timerVars, linkVars, hostVars, histVars>>

\* exit_trans_mode_timer_handler: the timer is stopped, the mode left, the buffer cleared.
ExitTransTimer ==
    /\ pc = "idle" /\ exit
    /\ exit' = FALSE /\ pc' = "exit"
    /\ UNCHANGED <<rxVars, queueVars, modeVars, flush, linkVars, hostVars, histVars>>

Exit ==
    /\ pc = "exit"
    /\ transparent' = FALSE /\ pc' = "clear"
    /\ UNCHANGED <<rxVars, queueVars, conIdx, slotStart, slotLen, autoTrans, timerVars, linkVars,
                   hostVars, histVars>>

-----------------------------------------------------------------------------
(* The link: gap_manager_callback, gatt_manager_callback. *)

\* trans_mode_enter, which clears the buffer before it changes the mode.
EnterTrans ==
    /\ IF autoTrans THEN recv' = << >> /\ pc' = "enter" ELSE recv' = recv /\ pc' = "idle"
    /\ UNCHANGED transparent

ExitTrans_OnlyIfAuto ==
    /\ transparent' = (transparent /\ ~autoTrans)
    /\ pc' = IF transparent THEN "clear" ELSE "idle"
    /\ UNCHANGED recv

\* trans_mode_exit.
ExitTrans ==
    /\ transparent' = FALSE
    /\ pc' = IF transparent THEN "clear" ELSE "idle"
    /\ UNCHANGED recv

\* dev_connected_fun.  The stack has no more links than the tables have places (LS_ASSERT).
Connect(r, link) ==
    /\ pc = "idle" /\ conns < MaxConns /\ link \notin Connected
    /\ \E p \in Places : p[1] = r /\ table[p] = None
    /\ table' = [table EXCEPT ![Place(r, None)] = link]
    /\ conns' = conns + 1
    /\ pc' = "connected"
    /\ UNCHANGED <<rxVars, queueVars, modeVars, timerVars, done, inAir, hostVars, histVars>>

\* After the answer, during which the interrupt goes on in the old mode.
ChangeMode ==
    /\ pc = "connected"
    /\ IF Cardinality(Connected) = 1 THEN EnterTrans ELSE ExitTrans
    /\ UNCHANGED <<recvState, taken, queueVars, conIdx, slotStart, slotLen, autoTrans, timerVars,
                   linkVars, hostVars, histVars>>

Enter ==
    /\ pc = "enter"
    /\ transparent' = TRUE /\ pc' = "idle"
    /\ UNCHANGED <<rxVars, queueVars, conIdx, slotStart, slotLen, autoTrans, timerVars, linkVars,
                   hostVars, histVars>>

\* dev_disconnected_fun.  The stack reports nothing for a link that is gone.
Disconnect(link) ==
    /\ pc = "idle" /\ link \in Connected
    /\ table' = [table EXCEPT ![PlaceOf(link)] = None]
    /\ inAir' = inAir \ {link} /\ lost' = TRUE
    /\ pc' = IF slotStart /\ slotLen > 0 /\ conIdx \notin Connected' THEN "drop" ELSE "idle"
    /\ UNCHANGED <<rxVars, queueVars, modeVars, timerVars, done, conns, hostVars, sent>>

\* The one-slot transmission over the link that is gone: its bytes, then its state.
Drop ==
    /\ pc = "drop"
    /\ recv' = << >> /\ pc' = "abort"
    /\ UNCHANGED <<recvState, taken, queueVars, modeVars, timerVars, linkVars, hostVars, histVars>>

Abort ==
    /\ pc = "abort"
    /\ slotStart' = FALSE /\ slotLen' = 0 /\ pc' = "idle"
    /\ UNCHANGED <<rxVars, queueVars, transparent, conIdx, autoTrans, timerVars, linkVars,
                   hostVars, histVars>>

\* SERVER_NOTIFICATION_DONE, CLIENT_WRITE_NO_RSP_DONE; a write that failed is not done.
SendDone(link) ==
    /\ pc = "idle" /\ link \in inAir
    /\ inAir' = inAir \ {link}
    /\ LET p == PlaceOf(link)
       IN  \E ok \in BOOLEAN : done' = [done EXCEPT ![p] = p[1] = "slave" \/ ok]
    /\ UNCHANGED <<rxVars, queueVars, modeVars, timerVars, table, conns, hostVars, histVars, pc>>

-----------------------------------------------------------------------------
\* at_init, ls_uart_server_init, ls_uart_client_init; auto_trans was loaded from flash.
Init ==
    /\ recv = << >> /\ recvState = 0 /\ dataSending = FALSE
    /\ posted = 0 /\ event = "cmd" /\ cmd = <<"none">>
    /\ transparent = FALSE /\ conIdx = 0 /\ slotStart = FALSE /\ slotLen = 0
    /\ autoTrans \in AutoTransStored
    /\ flush = FALSE /\ exit = FALSE
    /\ table = [p \in Places |-> None] /\ done = [p \in Places |-> TRUE] /\ inAir = {}
    /\ pc = "idle" /\ host = << >> /\ waiting = FALSE
    /\ lines = 0 /\ conns = 0 /\ taken = 0 /\ sent = 0 /\ lost = FALSE

\* What a callback that has begun still does, and what begins one.
Continue ==
    \/ DataSend \/ DataEnd \/ Answer \/ Clear \/ PostData \/ Exit
    \/ ChangeMode \/ Enter \/ Drop \/ Abort

Run == RunCmd \/ RunStartTimer \/ RunData

Next ==
    \/ AtRecv \/ HostWrites \/ Run \/ Continue \/ TransparentTimer \/ ExitTransTimer
    \/ \E r \in Roles, l \in Links : Connect(r, l)
    \/ \E l \in Links : Disconnect(l) \/ SendDone(l)

\* The loop ends a callback it is in, and runs what was posted, whatever else it does.
Fairness == WF_vars(Continue) /\ SF_vars(Run)

Spec == Init /\ [][Next]_vars /\ Fairness

-----------------------------------------------------------------------------
(* Properties. *)

Points == {"idle", "data", "sent", "answer", "clear", "post", "exit", "connected", "enter",
           "drop", "abort"}

TypeOK ==
    /\ Len(recv) < RecvMax /\ recvState \in {0, 3} /\ taken \in Nat
    /\ dataSending \in BOOLEAN /\ posted \in Nat /\ event \in {"cmd", "data", "start_timer"}
    /\ transparent \in BOOLEAN /\ conIdx \in Links /\ slotStart \in BOOLEAN /\ slotLen \in Nat
    /\ autoTrans \in BOOLEAN /\ flush \in BOOLEAN /\ exit \in BOOLEAN
    /\ table \in [Places -> Links \cup {None}] /\ done \in [Places -> BOOLEAN]
    /\ inAir \subseteq Connected /\ conns \in Nat
    /\ pc \in Points
    /\ waiting \in BOOLEAN /\ lines \in Nat /\ lost \in BOOLEAN

\* What is handed to the stack is in the order it came and handed over once, although
\* the interrupt fills the buffer that two kinds of posts, a timer and every change of
\* mode empty: whatever is in the buffer came later than all that has been sent.
NotSentTwice ==
    \A i \in 1 .. Len(recv) : recv[i].n > (IF i = 1 THEN sent ELSE recv[i - 1].n)

\* Transparent mode is left when there is a second link (doc/demos/at_cmd.rst, 3.13), by
\* whatever path it was entered: a command, or the connection itself.  Only while the
\* connection is answered the mode is still the old one.
OneLinkOnly == transparent /\ pc # "connected" => Cardinality(Connected) <= 1

\* A command that was taken runs and is answered: what is still posted for it says so.
CommandKept == waiting => (posted > 0 /\ event = "cmd") \/ pc = "answer"

\* Once all of its bytes have come, the one-slot transmission ends and commands are
\* parsed again (3.11), unless a link was lost meanwhile.
SlotEnds == (slotStart /\ slotLen = 0) ~> (~slotStart \/ lost)
=============================================================================
