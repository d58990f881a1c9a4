------------------------------ MODULE Uart_proof ------------------------------
(***************************************************************************)
(* What the UART driver keeps to, for every size of the FIFOs, of the       *)
(* counts and of the transfers: while interrupts are served within the time *)
(* of a byte and the application does not mix its uses (UsesApart), a       *)
(* transfer has left when it has ended, and no end of a reception or of a   *)
(* channel goes unnoticed.  No call that polls gives up before its time,    *)
(* for any width of the counter, any timeout that fits, and any time        *)
(* between two reads, nor two turns after it when reads are frequent; and   *)
(* the three ways to transmit together keep the promise of UartLine.        *)
(***************************************************************************)
EXTENDS UartPolled, TLAPS, SequenceTheorems, WellFoundedInduction

-----------------------------------------------------------------------------
(* The uses of the UART that do not get in each other's way: one of interrupts, DMA and        *)
(* polling at a time, and receptions under transfers of the main program of one byte only.     *)
UsesApart ==
  \A u \in Uses :
    /\ u.dma => ~u.txFromIsr /\ u.rxSizes = {}
    /\ u.polled # {} => ~u.dma /\ ~u.txFromIsr /\ u.rxSizes = {}
    /\ u.txFromIsr \/ u.rxSizes \subseteq {1}

-----------------------------------------------------------------------------
(* The invariant. *)

Quiet == ended = Len(asked)
Empty == txFifo = << >> /\ shifter = << >>
Out == txCount = 0 /\ Empty

Interrupts == use.polled = {}

ByIt == ~Quiet /\ gState = "BUSY_TX" /\ Interrupts
ByDma == ~Quiet /\ gState = "READY" /\ Interrupts

\* What a use leaves alone.
Kept ==
  /\ use \in Uses
  /\ ~use.dma => ~dmaen /\ \A c \in Channels : ~chan[c].on
  /\ use.dma => rxState = "READY"
  /\ Interrupts => ~cut /\ wait = "no"
  /\ ~Interrupts => ier = {} /\ ipc = "idle"
  /\ ~Interrupts \/ use.txFromIsr => tpc = "idle"

\* The channels; what the handler has still to handle is done.
Channel == [left : Nat, done : BOOLEAN, ie : BOOLEAN, on : BOOLEAN]

Sound(r) ==
  /\ r.on => r.ie /\ (r.left = 0 => r.done)
  /\ ~r.on => r.left = 0 /\ ~r.done /\ ~r.ie
  /\ r.done => r.left = 0

Chans ==
  /\ dmaen \in BOOLEAN
  /\ chan \in [Channels -> Channel] /\ \A c \in Channels : Sound(chan[c])
  /\ ipc = "dma" => flags \subseteq Channels /\ \A c \in flags : chan[c].done

\* The flags the handler works on are still raised.
Raised ==
  /\ ipc \in {"txs", "push", "tc"} /\ "TC" \in flags => "TC" \in rif
  /\ ipc = "txs" /\ "TXS" \in flags => "TXS" \in rif /\ "TXS" \in ier

\* At most one transfer is under way; when none is, nothing is left of the last.
Rest ==
  /\ ended <= Len(asked) /\ Len(asked) <= ended + 1
  /\ Quiet /\ Interrupts =>
       /\ Out /\ gState = "READY"
       /\ "TXS" \notin ier /\ "TC" \notin rif
       /\ tpc \in {"idle", "check"} /\ ipc # "push"
       /\ ~chan["tx"].on
  /\ ~Interrupts => /\ Quiet => gState = "READY"
                    /\ ~Quiet => gState = "BUSY_TX" /\ txCount <= asked[Len(asked)]
                    /\ Quiet /\ ~cut => Out

\* HAL_UART_Transmit_IT has not handed over its byte yet: no interrupt takes one before it.
Starting ==
  ByIt /\ tpc \notin {"check", "idle"} =>
    /\ Empty /\ "TC" \notin rif /\ ipc # "push"
    /\ tpc \in {"fcrRead", "fcrWrite", "icr", "ier", "countRead", "countWrite"} => txCount > 0
    /\ tpc \in {"fcrRead", "fcrWrite", "icr", "ier"} => "TXS" \notin ier
    /\ tpc \in {"ier", "countRead", "countWrite", "tbr"} => "TXS" \notin rif
    /\ tpc \in {"countRead", "countWrite", "tbr"} => "TXS" \in ier
    /\ tpc = "countWrite" => tmp = txCount

\* Under way by interrupts: the last byte is not sent while there are more to fill in.
Filling ==
  ByIt /\ tpc \in {"check", "idle"} =>
    /\ txCount > 0 => "TXS" \in ier
    /\ txFifo = << >> /\ "TXS" \in ier => shifter # << >> /\ ("TXS" \in rif \/ ipc = "push")
    /\ "TC" \in rif => Out /\ "TXS" \notin ier
    /\ ipc = "push" => shifter # << >> /\ (txCount > 0 \/ txFifo # << >>)

\* HAL_UART_Transmit_IT and DMA leave each other alone.
OneWay == ByIt \/ tpc # "idle" => ~dmaen /\ \A c \in Channels : ~chan[c].on

\* Under way by DMA.
Moving ==
  ByDma =>
    /\ use.dma /\ dmaen /\ tpc = "idle" /\ txCount = 0 /\ ipc # "push"
    /\ chan["tx"].on => "TXS" \notin ier
    /\ chan["tx"].left = 0 /\ txFifo = << >> /\ (chan["tx"].on \/ "TXS" \in ier)
         => "TXS" \in rif /\ shifter # << >>
    /\ "TC" \in rif => Out /\ ~chan["tx"].on /\ "TXS" \notin ier

\* The trigger level is right for what is still to be received.
TriggerRight ==
  /\ rxState = "BUSY_RX" /\ Interrupts =>
       /\ "RXRD" \in ier /\ rxCount > 0 /\ rxtl = Trigger(rxCount)
       /\ ~use.txFromIsr => rxCount = 1
       /\ tpc = "fcrWrite" => tmp = 1
  /\ tpc = "fcrWrite" => tmp \in {1, TriggerHigh}
  /\ ipc = "read" => rxState = "BUSY_RX" /\ level <= Len(rxFifo)

\* A call that waits does one thing at a time.
OneCall ==
  ~Interrupts =>
    /\ wait = "no" => gState = "READY" /\ rxState = "READY"
    /\ gState = "READY" \/ rxState = "READY"
    /\ rxState = "BUSY_RX" => rxCount > 0

\* The conjunction is inductive: each part needs some of the others in the step before.
UInv ==
  /\ TypeOK /\ Kept /\ Chans /\ Raised /\ Rest /\ Starting /\ Filling /\ OneWay /\ Moving
  /\ TriggerRight /\ OneCall

-----------------------------------------------------------------------------
(* Sequences, sizes and channels. *)

\* What the queues of the model are built with.
LEMMA Seqs ==
  ASSUME NEW T, NEW s \in Seq(T)
  PROVE  /\ Len(s) \in Nat
         /\ s = << >> <=> Len(s) = 0
         /\ \A e \in T : Append(s, e) \in Seq(T) /\ Len(Append(s, e)) = Len(s) + 1
                      /\ Append(s, e) # << >>
         /\ s # << >> => /\ Head(s) \in T /\ Tail(s) \in Seq(T) /\ Len(Tail(s)) = Len(s) - 1
                        /\ Tail(s) = << >> <=> Len(s) = 1
  <1>1. /\ Len(s) \in Nat
        /\ s = << >> <=> Len(s) = 0
        /\ \A e \in T : Append(s, e) \in Seq(T) /\ Len(Append(s, e)) = Len(s) + 1
                      /\ Append(s, e) # << >>
    OBVIOUS
  <1>2. ASSUME s # << >>
        PROVE  /\ Head(s) \in T /\ Tail(s) \in Seq(T) /\ Len(Tail(s)) = Len(s) - 1
               /\ Tail(s) = << >> <=> Len(s) = 1
    <2>1. Head(s) \in T /\ Tail(s) \in Seq(T) /\ Len(Tail(s)) = Len(s) - 1 BY <1>2
    <2>2. Tail(s) = << >> <=> Len(Tail(s)) = 0 BY <2>1, EmptySeq
    <2> QED BY <1>1, <2>1, <2>2
  <1> QED BY <1>1, <1>2

\* The constants, from the assumption.
LEMMA Sizes ==
  ASSUME NEW u \in Uses
  PROVE  /\ CountRange \in Nat /\ FifoDepth \in Nat \ {0, 1} /\ TriggerHigh \in Nat \ {0, 1}
         /\ TxSizes \subseteq Nat \ {0} /\ u.rxSizes \subseteq Nat \ {0}
         /\ \A n \in TxSizes \cup u.rxSizes :
              n \in 1 .. CountRange - 1 /\ n - 1 \in 0 .. CountRange - 1
                /\ n \in 0 .. CountRange - 1
         /\ u.maxRx \in Nat
  BY UartAssumption

\* The counts, and each less one.
LEMMA Counts ==
  ASSUME TypeOK
  PROVE  /\ CountRange \in Nat \ {0} /\ txCount \in Nat /\ rxCount \in Nat
         /\ txCount # 0 => txCount - 1 \in 0 .. CountRange - 1
         /\ rxCount # 0 => rxCount - 1 \in 0 .. CountRange - 1
  BY UartAssumption DEF TypeOK

\* A byte of the transmit FIFO.
Byte == Nat \X Nat

\* What is put into the transmit FIFO fits, and what is taken from it.
LEMMA Room ==
  ASSUME TypeOK, use \in Uses
  PROVE  /\ txFifo = << >> => NotFull
         /\ ~NotFull => txFifo # << >>
         /\ \A e \in Byte :
              /\ Append(txFifo, e) # << >>
              /\ NotFull => /\ Append(txFifo, e) \in Seq(Byte)
                            /\ Len(Append(txFifo, e)) <= FifoDepth
         /\ txFifo # << >> => (Tail(txFifo) = << >> <=> Len(txFifo) = 1)
         /\ txPtr \in Byte /\ NextPtr \in Byte
  <1>1. txFifo \in Seq(Byte) BY DEF TypeOK, Byte
  <1>2. Len(txFifo) \in Nat /\ FifoDepth \in Nat \ {0} BY <1>1, Seqs, Sizes
  <1>3. txPtr \in Byte /\ NextPtr \in Byte BY DEF TypeOK, NextPtr, Byte
  <1>4. ASSUME NEW e \in Byte
        PROVE  /\ Append(txFifo, e) # << >>
               /\ NotFull => /\ Append(txFifo, e) \in Seq(Byte)
                             /\ Len(Append(txFifo, e)) <= FifoDepth
    <2>1. /\ Append(txFifo, e) # << >> /\ Append(txFifo, e) \in Seq(Byte)
          /\ Len(Append(txFifo, e)) = Len(txFifo) + 1
      BY <1>1, Seqs
    <2> QED BY <1>2, <2>1 DEF NotFull
  <1>5. (txFifo = << >> => NotFull) /\ (~NotFull => txFifo # << >>)
    BY <1>1, <1>2, Seqs DEF NotFull
  <1>6. txFifo # << >> => (Tail(txFifo) = << >> <=> Len(txFifo) = 1)
    BY <1>1, Seqs
  <1> QED BY <1>3, <1>4, <1>5, <1>6

\* What is taken from the receive FIFO.
LEMMA Taken ==
  ASSUME TypeOK, use \in Uses, rxFifo # << >>
  PROVE  /\ Tail(rxFifo) \in Seq(Nat) /\ Len(Tail(rxFifo)) <= FifoDepth
         /\ Len(Tail(rxFifo)) = Len(rxFifo) - 1
  <1>1. Len(rxFifo) \in Nat /\ Len(rxFifo) <= FifoDepth /\ FifoDepth \in Nat
    BY Seqs, Sizes DEF TypeOK
  <1>2. Tail(rxFifo) \in Seq(Nat) /\ Len(Tail(rxFifo)) = Len(rxFifo) - 1
    BY Seqs DEF TypeOK
  <1> QED BY <1>1, <1>2

\* One channel changed.
LEMMA Update ==
  ASSUME NEW ch \in [Channels -> Channel], NEW c \in Channels, NEW r \in Channel
  PROVE  LET new == [ch EXCEPT ![c] = r]
         IN  /\ new \in [Channels -> Channel]
             /\ new[c] = r
             /\ \A d \in Channels : d # c => new[d] = ch[d]
  BY DEF Channels

\* A channel started, one that moves a byte, one whose end is handled.
LEMMA StartedSound ==
  ASSUME NEW n \in Nat \ {0}
  PROVE  /\ Started(n) \in Channel /\ Sound(Started(n))
         /\ Started(n).on /\ Started(n).left = n
  BY DEF Started, Channel, Sound

LEMMA MovedRecord ==
  ASSUME NEW q \in Channel, Sound(q), q.left > 0
  PROVE  LET r == [q EXCEPT !.left = @ - 1, !.done = q.done \/ q.left = 1]
         IN  r \in Channel /\ Sound(r) /\ r.on /\ q.on /\ ~q.done /\ r.left = q.left - 1
  <1> DEFINE d == q.done \/ q.left = 1
             r == [q EXCEPT !.left = @ - 1, !.done = d]
  <1>1. q.left \in Nat /\ q.done \in BOOLEAN /\ q.ie \in BOOLEAN /\ q.on \in BOOLEAN
    BY DEF Channel
  <1>2. q.left # 0 /\ q.left - 1 \in Nat /\ (q.left - 1 = 0 => q.left = 1) BY <1>1
  <1>3. q.on /\ ~q.done /\ q.ie BY <1>1, <1>2, Zenon DEF Sound
  <1>4. d \in BOOLEAN /\ (d => q.left - 1 = 0) /\ (q.left - 1 = 0 => d) BY <1>1, <1>2, <1>3
  <1> HIDE DEF d
  <1>5. r \in Channel BY <1>1, <1>2, <1>4 DEF Channel
  <1>6. r.left = q.left - 1 /\ r.done = d /\ r.ie = q.ie /\ r.on = q.on BY <1>1 DEF Channel
  <1>7. r \in Channel /\ Sound(r) /\ r.on /\ q.on /\ ~q.done /\ r.left = q.left - 1
    BY <1>2, <1>3, <1>4, <1>5, <1>6 DEF Sound
  <1> QED BY <1>7 DEF d

LEMMA HandledRecord ==
  ASSUME NEW q \in Channel, Sound(q), q.done
  PROVE  LET r == [q EXCEPT !.done = FALSE, !.ie = FALSE, !.on = FALSE]
         IN  r \in Channel /\ Sound(r) /\ ~r.on /\ q.on /\ q.left = 0 /\ r.left = 0
  <1>1. q.left \in Nat /\ q.done \in BOOLEAN /\ q.ie \in BOOLEAN /\ q.on \in BOOLEAN
    BY DEF Channel
  <1>2. q.on /\ q.left = 0 BY <1>1 DEF Sound
  <1> DEFINE r == [q EXCEPT !.done = FALSE, !.ie = FALSE, !.on = FALSE]
  <1>4. r \in Channel BY <1>1 DEF Channel
  <1>5. r.left = q.left /\ ~r.done /\ ~r.ie /\ ~r.on BY <1>1 DEF Channel
  <1> QED BY <1>1, <1>2, <1>4, <1>5 DEF Sound

LEMMA MovedSound ==
  ASSUME NEW c \in Channels, chan \in [Channels -> Channel], Sound(chan[c]), chan[c].left > 0
  PROVE  /\ Moved(c) \in [Channels -> Channel] /\ Sound(Moved(c)[c])
         /\ Moved(c)[c].on /\ chan[c].on /\ ~chan[c].done
         /\ Moved(c)[c].left = chan[c].left - 1
         /\ \A d \in Channels : d # c => Moved(c)[d] = chan[d]
  <1> DEFINE r == [chan[c] EXCEPT !.left = @ - 1, !.done = chan[c].done \/ chan[c].left = 1]
  <1>1. /\ r \in Channel
        /\ Sound(r)
        /\ r.on
        /\ chan[c].on
        /\ ~chan[c].done
        /\ r.left = chan[c].left - 1
    BY MovedRecord
  <1>2. Moved(c) = [chan EXCEPT ![c] = r] BY Zenon DEF Moved
  <1> QED BY <1>1, <1>2, Update

LEMMA HandledSound ==
  ASSUME NEW c \in Channels, chan \in [Channels -> Channel], Sound(chan[c]), chan[c].done
  PROVE  /\ Handled(c) \in [Channels -> Channel] /\ Sound(Handled(c)[c])
         /\ chan[c].on /\ chan[c].left = 0 /\ ~Handled(c)[c].on /\ Handled(c)[c].left = 0
         /\ \A d \in Channels : d # c => Handled(c)[d] = chan[d]
  <1> DEFINE r == [chan[c] EXCEPT !.done = FALSE, !.ie = FALSE, !.on = FALSE]
  <1>1. r \in Channel /\ Sound(r) /\ ~r.on /\ chan[c].on /\ chan[c].left = 0 /\ r.left = 0
    BY HandledRecord
  <1>2. Handled(c) = [chan EXCEPT ![c] = r] BY Zenon DEF Handled
  <1> QED BY <1>1, <1>2, Update

\* What starting a transfer or a reception by DMA does.
StartedTx(ch) ==
  /\ ended' = Len(asked) /\ Len(asked') = Len(asked) + 1 /\ rif' = rif \ {"TC", "TXS"}
  /\ chan'["tx"].on /\ chan'["tx"].left > 0 /\ chan'["rx"] = ch["rx"]

StartedRx(ch, raised) ==
  /\ ~ch["rx"].on /\ gState = "READY"
  /\ asked' = asked /\ rif' = raised /\ chan'["tx"] = ch["tx"]

LEMMA StartsSound ==
  ASSUME NEW ch \in [Channels -> Channel], \A c \in Channels : Sound(ch[c]),
         asked \in Seq(0 .. CountRange - 1), NEW raised, Starts(ch, raised)
  PROVE  /\ dmaen' = TRUE
         /\ chan' \in [Channels -> Channel] /\ \A c \in Channels : Sound(chan'[c])
         /\ StartedTx(ch) \/ StartedRx(ch, raised)
  <1>1. CASE \E n \in TxSizes : TransmitDma(ch, n)
    <2>1. PICK n \in TxSizes : TransmitDma(ch, n) BY <1>1
    <2>2. n \in Nat \ {0} /\ n \in 0 .. CountRange - 1 BY UartAssumption
    <2>3. Len(asked') = Len(asked) + 1 BY <2>1, <2>2, Seqs DEF TransmitDma
    <2>4. "tx" \in Channels /\ "rx" \in Channels BY DEF Channels
    <2>5. /\ chan' \in [Channels -> Channel] /\ chan'["tx"] = Started(n)
          /\ \A d \in Channels : d # "tx" => chan'[d] = ch[d]
      BY <2>1, <2>2, <2>4, StartedSound, Update DEF TransmitDma
    <2> QED BY <2>1, <2>2, <2>3, <2>4, <2>5, StartedSound DEF TransmitDma, StartedTx
  <1>2. CASE rif' = raised /\ \E n \in RxDmaSizes : ReceiveDma(ch, n)
    <2>1. PICK n \in RxDmaSizes : ReceiveDma(ch, n) BY <1>2
    <2>2. n \in Nat \ {0} BY UartDmaAssumption
    <2>4. "tx" \in Channels /\ "rx" \in Channels BY DEF Channels
    <2>5. /\ chan' \in [Channels -> Channel] /\ chan'["rx"] = Started(n)
          /\ \A d \in Channels : d # "rx" => chan'[d] = ch[d]
      BY <2>1, <2>2, <2>4, StartedSound, Update DEF ReceiveDma
    <2> QED BY <1>2, <2>1, <2>2, <2>4, <2>5, StartedSound DEF ReceiveDma, StartedRx
  <1> QED BY <1>1, <1>2 DEF Starts

-----------------------------------------------------------------------------
(* HAL_UART_Transmit_IT. *)

LEMMA FcrReadKeeps ==
  ASSUME UInv, Prompt, UsesApart, FcrRead /\ UNCHANGED <<dmaen, chan>>,
         UNCHANGED <<use, tickVars, calls, cut>>
  PROVE  UInv'
  <1>1. TypeOK'
    <2>1. TriggerHigh \in 0 .. CountRange - 1 /\ 1 \in 0 .. CountRange - 1
      BY UartAssumption
    <2>2. rxtl \in 0 .. CountRange - 1
      BY <2>1 DEF UInv, TypeOK
    <2> QED BY <2>2 DEF UInv, TypeOK, handle, regs, fifos, isr, history, FcrRead, Thread
  <1>2. TriggerRight'
    <2>1. 1 < TriggerHigh /\ Trigger(1) = 1
      BY UartAssumption DEF Trigger
    <2>2. Interrupts /\ ~use.txFromIsr
      BY DEF UInv, Kept, FcrRead, Thread, Interrupts
    <2>3. rxState = "BUSY_RX" => rxtl = 1
      BY <2>1, <2>2 DEF UInv, TriggerRight
    <2>4. rxtl \in {1, TriggerHigh}
      BY DEF UInv, TypeOK
    <2> QED
      BY <2>1, <2>2, <2>3, <2>4 DEF UInv, TypeOK, Kept, TriggerRight, Channel, Sound, Quiet,
         Empty, Out, Interrupts, ByIt, ByDma, handle, regs, fifos, isr, history, FcrRead, Thread
  <1>3. /\ Kept' /\ Chans' /\ Raised' /\ Rest' /\ Starting'
        /\ Filling' /\ OneWay' /\ Moving' /\ OneCall'
    BY DEF UInv, Kept, Interrupts, FcrRead, Thread, handle, regs, fifos, isr, history, tickVars,
       Channels, Chans, Raised, Rest, Quiet, Out, Empty, Starting, ByIt, Filling, OneWay, Moving,
       ByDma, OneCall
  <1> QED BY <1>1, <1>2, <1>3 DEF UInv

LEMMA FcrWriteKeeps ==
  ASSUME UInv, Prompt, UsesApart, FcrWrite /\ UNCHANGED <<dmaen, chan>>,
         UNCHANGED <<use, tickVars, calls, cut>>
  PROVE  UInv'
  <1>1. TypeOK'
    <2>1. use \in Uses
      BY DEF UInv, Kept
    <2>2. tmp \in {1, TriggerHigh}
      BY DEF UInv, TriggerRight, FcrWrite, Thread
    <2> QED BY <2>1, <2>2, Sizes DEF UInv, TypeOK, handle, fifos, isr, history, FcrWrite, Thread
  <1>2. TriggerRight'
    <2>1. 1 < TriggerHigh /\ Trigger(1) = 1
      BY UartAssumption DEF Trigger
    <2>2. Interrupts /\ ~use.txFromIsr
      BY DEF UInv, Kept, FcrWrite, Thread, Interrupts
    <2>3. rxState = "BUSY_RX" => tmp = 1 /\ rxCount = 1
      BY <2>1, <2>2 DEF UInv, TriggerRight, FcrWrite, Thread
    <2> QED
      BY <2>1, <2>2, <2>3 DEF UInv, TriggerRight, Channel, Sound, Quiet, Empty, Out, Interrupts,
         ByIt, ByDma, handle, fifos, isr, history, FcrWrite, Thread
  <1>3. /\ Kept' /\ Chans' /\ Raised' /\ Rest' /\ Starting'
        /\ Filling' /\ OneWay' /\ Moving' /\ OneCall'
    BY DEF UInv, Kept, Interrupts, FcrWrite, Thread, handle, fifos, isr, history, tickVars,
       Channels, Chans, Raised, Rest, Quiet, Out, Empty, Starting, ByIt, Filling, OneWay, Moving,
       ByDma, OneCall
  <1> QED BY <1>1, <1>2, <1>3 DEF UInv

LEMMA IcrWriteKeeps ==
  ASSUME UInv, Prompt, UsesApart, IcrWrite /\ UNCHANGED <<dmaen, chan>>,
         UNCHANGED <<use, tickVars, calls, cut>>
  PROVE  UInv'
  <1>1. TypeOK'
    BY DEF UInv, TypeOK, handle, fifos, isr, history, IcrWrite, Thread
  <1>2. /\ Kept' /\ Chans' /\ Raised' /\ Rest' /\ Starting'
        /\ Filling' /\ OneWay' /\ Moving' /\ TriggerRight' /\ OneCall'
    BY DEF UInv, Kept, Interrupts, IcrWrite, Thread, handle, fifos, isr, history, tickVars,
       Channels, Chans, Raised, Rest, Quiet, Out, Empty, Starting, ByIt, Filling, OneWay, Moving,
       ByDma, TriggerRight, OneCall
  <1> QED BY <1>1, <1>2 DEF UInv

LEMMA IerWriteKeeps ==
  ASSUME UInv, Prompt, UsesApart, IerWrite /\ UNCHANGED <<dmaen, chan>>,
         UNCHANGED <<use, tickVars, calls, cut>>
  PROVE  UInv'
  <1>1. TypeOK'
    BY DEF UInv, TypeOK, handle, fifos, isr, history, IerWrite, Thread
  <1>2. /\ Kept' /\ Chans' /\ Raised' /\ Rest' /\ Starting'
        /\ Filling' /\ OneWay' /\ Moving' /\ TriggerRight' /\ OneCall'
    BY DEF UInv, Kept, Interrupts, IerWrite, Thread, handle, fifos, isr, history, tickVars,
       Channels, Chans, Raised, Rest, Quiet, Out, Empty, Starting, ByIt, Filling, OneWay, Moving,
       ByDma, TriggerRight, OneCall
  <1> QED BY <1>1, <1>2 DEF UInv

LEMMA CountReadKeeps ==
  ASSUME UInv, Prompt, UsesApart, CountRead /\ UNCHANGED <<dmaen, chan>>,
         UNCHANGED <<use, tickVars, calls, cut>>
  PROVE  UInv'
  <1>1. TypeOK'
    BY DEF UInv, TypeOK, handle, regs, fifos, isr, history, CountRead, Thread
  <1>2. /\ Kept' /\ Chans' /\ Raised' /\ Rest' /\ Starting'
        /\ Filling' /\ OneWay' /\ Moving' /\ TriggerRight' /\ OneCall'
    BY DEF UInv, Kept, Interrupts, CountRead, Thread, handle, regs, fifos, isr, history, tickVars,
       Channels, Chans, Raised, Rest, Quiet, Out, Empty, Starting, ByIt, Filling, OneWay, Moving,
       ByDma, TriggerRight, OneCall
  <1> QED BY <1>1, <1>2 DEF UInv

LEMMA CountWriteKeeps ==
  ASSUME UInv, Prompt, UsesApart, CountWrite /\ UNCHANGED <<dmaen, chan>>,
         UNCHANGED <<use, tickVars, calls, cut>>
  PROVE  UInv'
  <1>1. TypeOK'
    <2>1. CountRange \in Nat \ {0} /\ tmp \in Int
      BY UartAssumption DEF UInv, TypeOK
    <2>2. (tmp + CountRange - 1) % CountRange \in 0 .. CountRange - 1
      BY <2>1
    <2> QED BY <2>1, <2>2 DEF UInv, TypeOK, regs, fifos, isr, history, CountWrite, Thread
  <1>2. Rest'
    BY DEF UInv, Rest, Quiet, Out, Empty, Interrupts, Kept, CountWrite, Thread, regs, fifos, isr,
       history
  <1>3. /\ Kept' /\ Chans' /\ Raised' /\ Starting' /\ Filling'
        /\ OneWay' /\ Moving' /\ TriggerRight' /\ OneCall'
    BY DEF UInv, Kept, Interrupts, CountWrite, Thread, regs, fifos, isr, history, tickVars,
       Channels, Chans, Raised, Starting, ByIt, Quiet, Empty, Filling, Out, OneWay, Moving, ByDma,
       TriggerRight, OneCall
  <1> QED BY <1>1, <1>2, <1>3 DEF UInv

LEMMA TbrWriteKeeps ==
  ASSUME UInv, Prompt, UsesApart, TbrWrite /\ UNCHANGED <<dmaen, chan>>,
         UNCHANGED <<use, tickVars, calls, cut>>
  PROVE  UInv'
  <1>1. use \in Uses /\ TypeOK
    BY DEF UInv, Kept
  <1>2. TypeOK'
    <2>1. NextPtr \in Nat \X Nat
      BY DEF UInv, TypeOK, NextPtr
    <2>2. NotFull => /\ Append(txFifo, txPtr) \in Seq(Nat \X Nat)
                     /\ Len(Append(txFifo, txPtr)) <= FifoDepth
      BY <1>1, Room DEF Byte
    <2> QED BY <1>1, <2>1, <2>2 DEF UInv, TypeOK, regs, isr, history, TbrWrite, Thread
  <1>3. Rest'
    BY DEF UInv, Rest, Quiet, Out, Empty, Interrupts, Kept, TbrWrite, Thread, NextPtr, NotFull,
       regs, isr, history
  <1>4. Filling'
    <2>1. Append(txFifo, txPtr) # << >>
      BY <1>1, Room
    <2>2. ByIt => NotFull /\ "TXS" \in ier /\ "TC" \notin rif
      BY <1>1, Room DEF UInv, Starting, TbrWrite, Thread, Empty
    <2> QED
      BY <1>1, <2>1, <2>2 DEF UInv, Starting, Filling, Channel, Sound, Quiet, Empty, Out,
         Interrupts, ByIt, ByDma, regs, isr, history, TbrWrite, Thread
  <1>5. /\ Kept' /\ Chans' /\ Raised' /\ Starting'
        /\ OneWay' /\ Moving' /\ TriggerRight' /\ OneCall'
    BY DEF UInv, Kept, Interrupts, TbrWrite, Thread, NextPtr, NotFull, regs, isr, history,
       tickVars, Channels, Chans, Raised, Starting, ByIt, Quiet, Empty, OneWay, Moving, ByDma,
       Out, TriggerRight, OneCall
  <1> QED BY <1>2, <1>3, <1>4, <1>5 DEF UInv

LEMMA CheckKeeps ==
  ASSUME UInv, Prompt, UsesApart, Check /\ UNCHANGED <<dmaen, chan>>,
         UNCHANGED <<use, tickVars, calls, cut>>
  PROVE  UInv'
  <1>1. TypeOK'
    BY UartAssumption DEF UInv, TypeOK, handle, fifos, isr, history, Check, Thread
  <1>2. /\ Kept' /\ Chans' /\ Raised' /\ Rest' /\ Starting'
        /\ Filling' /\ OneWay' /\ Moving' /\ TriggerRight' /\ OneCall'
    BY DEF UInv, Kept, Interrupts, Check, Thread, handle, fifos, isr, history, tickVars, Channels,
       Chans, Raised, Rest, Quiet, Out, Empty, Starting, ByIt, Filling, OneWay, Moving, ByDma,
       TriggerRight, OneCall
  <1> QED BY <1>1, <1>2 DEF UInv

-----------------------------------------------------------------------------
(* The interrupt handler and the line. *)

LEMMA IsrTxsKeeps ==
  ASSUME UInv, Prompt, UsesApart, ~dmaen /\ IsrTxs /\ UNCHANGED <<dmaen, chan>>,
         UNCHANGED <<use, tickVars, calls, cut>>
  PROVE  UInv'
  <1>1. "TXS" \in flags => "TXS" \in rif /\ "TXS" \in ier
    BY DEF UInv, Raised, IsrTxs
  <1>2. TypeOK'
    <2>1. /\ rif \ {"TXS"} \subseteq {"TXS", "TC"}
          /\ (ier \ {"TXS"}) \cup {"TC"} \subseteq {"TXS", "TC", "RXRD"}
      BY DEF UInv, TypeOK
    <2> QED BY <2>1 DEF UInv, TypeOK, handle, fifos, thread, history, IsrTxs
  <1>3. Starting'
    <2>1. ByIt /\ tpc \notin {"check", "idle"} => "TXS" \notin flags
      BY <1>1 DEF UInv, TypeOK, Starting
    <2> QED
      BY <1>1, <2>1 DEF UInv, Starting, Channel, Sound, Quiet, Empty, Out, Interrupts, ByIt,
         ByDma, handle, fifos, thread, history, IsrTxs
  <1>4. Filling'
    <2>1. ByIt /\ tpc \in {"check", "idle"} => txCount \in Nat
      BY Sizes DEF UInv, TypeOK, Kept
    <2> QED
      BY <2>1, <1>1 DEF UInv, Filling, Channel, Sound, Quiet, Empty, Out, Interrupts, ByIt, ByDma,
         handle, fifos, thread, history, IsrTxs
  <1>5. /\ Kept' /\ Chans' /\ Raised' /\ Rest'
        /\ OneWay' /\ Moving' /\ TriggerRight' /\ OneCall'
    BY DEF UInv, Kept, Interrupts, IsrTxs, handle, fifos, thread, history, tickVars, Channels,
       Chans, Raised, Rest, Quiet, Out, Empty, OneWay, ByIt, Moving, ByDma, TriggerRight, OneCall
  <1> QED BY <1>2, <1>3, <1>4, <1>5 DEF UInv

LEMMA IsrPushKeeps ==
  ASSUME UInv, Prompt, UsesApart, ~dmaen /\ IsrPush /\ UNCHANGED <<dmaen, chan>>,
         UNCHANGED <<use, tickVars, calls, cut>>
  PROVE  UInv'
  <1>1. TypeOK'
    <2>1. use \in Uses
      BY DEF UInv, Kept
    <2>2. txCount # 0 => txCount - 1 \in 0 .. CountRange - 1
      BY Counts DEF UInv
    <2>3. NextPtr \in Nat \X Nat
      BY DEF UInv, TypeOK, NextPtr
    <2>4. NotFull => /\ Append(txFifo, txPtr) \in Seq(Nat \X Nat)
                     /\ Len(Append(txFifo, txPtr)) <= FifoDepth
      BY <2>1, Room DEF UInv, TypeOK, Byte
    <2>5. CASE NotFull /\ txCount # 0
      BY <2>1, <2>2, <2>3, <2>4, <2>5 DEF UInv, TypeOK, regs, thread, history, IsrPush
    <2>6. CASE ~(NotFull /\ txCount # 0)
      BY <2>1, <2>2, <2>3, <2>4, <2>6 DEF UInv, TypeOK, regs, thread, history, IsrPush
    <2> QED BY <2>5, <2>6
  <1>2. Rest'
    BY DEF UInv, Rest, Quiet, Out, Empty, Interrupts, Kept, IsrPush, NextPtr, NotFull, regs,
       thread, history
  <1>3. Filling'
    <2>1. use \in Uses /\ TypeOK
      BY DEF UInv, Kept
    <2>2. Append(txFifo, txPtr) # << >> /\ (~NotFull => txFifo # << >>)
      BY <2>1, Room
    <2>3. ByIt /\ tpc \in {"check", "idle"} /\ shifter # << >>
      BY DEF UInv, Rest, ByIt, ByDma, Moving, Starting, Filling, Interrupts, Kept, IsrPush, TypeOK
    <2>4. txCount \in Nat
      BY <2>1, Counts
    <2> QED
      BY <2>1, <2>2, <2>3, <2>4 DEF UInv, Filling, Channel, Sound, Quiet, Empty, Out, Interrupts,
         ByIt, ByDma, regs, thread, history, IsrPush
  <1>4. /\ Kept' /\ Chans' /\ Raised' /\ Starting'
        /\ OneWay' /\ Moving' /\ TriggerRight' /\ OneCall'
    BY DEF UInv, Kept, Interrupts, IsrPush, NextPtr, NotFull, regs, thread, history, tickVars,
       Channels, Chans, Raised, Starting, ByIt, Quiet, Empty, OneWay, Moving, ByDma, Out,
       TriggerRight, OneCall
  <1> QED BY <1>1, <1>2, <1>3, <1>4 DEF UInv

LEMMA IsrTcKeeps ==
  ASSUME UInv, Prompt, UsesApart, ~dmaen /\ IsrTc /\ UNCHANGED <<dmaen, chan>>,
         UNCHANGED <<use, tickVars, calls, cut>>
  PROVE  UInv'
  <1>1. /\ Len(asked) \in Nat
        /\ ended \in Nat
        /\ \A n \in TxSizes : Len(Append(asked, n)) = Len(asked) + 1
    BY UartAssumption, Seqs DEF UInv, TypeOK
  <1>2. "TC" \in flags => ByIt /\ Out /\ "TXS" \notin ier /\ tpc \in {"check", "idle"}
    BY DEF UInv, TypeOK, Raised, Rest, ByIt, ByDma, Starting, Filling, Moving, Kept, Interrupts,
       IsrTc
  <1>3. TypeOK'
    <2>1. use \in Uses
      BY DEF UInv, Kept
    <2>2. \A n \in TxSizes : n - 1 \in 0 .. CountRange - 1 /\ n \in 0 .. CountRange - 1
      BY <2>1, Sizes
    <2>3. <<Len(asked) + 1, 1>> \in Nat \X Nat /\ <<Len(asked) + 1, 2>> \in Nat \X Nat
      BY Seqs DEF UInv, TypeOK
    <2>4. NotFull => /\ Append(txFifo, <<Len(asked) + 1, 1>>) \in Seq(Nat \X Nat)
                     /\ Len(Append(txFifo, <<Len(asked) + 1, 1>>)) <= FifoDepth
      BY <2>3, Room DEF UInv, Kept, Byte
    <2>5. \A n \in TxSizes : Append(asked, n) \in Seq(0 .. CountRange - 1)
      BY <2>2, Seqs DEF UInv, TypeOK
    <2>6. ended + 1 \in Nat
      BY DEF UInv, TypeOK
    <2>7. CASE "TC" \notin flags
      BY <2>7, <2>1, <2>2, <2>3, <2>4, <2>5, <2>6 DEF UInv, TypeOK, thread, IsrTc,
         TransmitFromIsr, NoTransmit
    <2>8. CASE "TC" \in flags /\ NoTransmit("READY")
      BY <2>8, <2>1, <2>2, <2>3, <2>4, <2>5, <2>6 DEF UInv, TypeOK, thread, IsrTc,
         TransmitFromIsr, NoTransmit
    <2>9. CASE "TC" \in flags /\ ~NoTransmit("READY")
      <3>1. PICK n \in TxSizes :
              /\ TransmitFromIsr(n)
              /\ ier' = (ier \ {"TC"}) \cup {"TXS"} \cup (IF n = 1 THEN {"TC"} ELSE {})
        BY <2>9 DEF IsrTc
      <3>2. ended' = ended + 1 /\ ipc' = "rx" BY <2>9 DEF IsrTc
      <3>3. ier' \subseteq {"TXS", "TC", "RXRD"} /\ rif' \subseteq {"TXS", "TC"}
        BY <3>1 DEF UInv, TypeOK, TransmitFromIsr
      <3> QED
        BY <3>1, <3>2, <3>3, <2>2, <2>3, <2>4, <2>5, <2>6 DEF UInv, TypeOK, thread, IsrTc,
           TransmitFromIsr
    <2> QED BY <2>7, <2>8, <2>9
  <1>4. Rest'
    <2>1. CASE "TC" \notin flags
      BY <2>1 DEF UInv, Rest, Channel, Sound, Quiet, Empty, Out, Interrupts, ByIt, thread, IsrTc
    <2>2. CASE "TC" \in flags /\ NoTransmit("READY")
      BY <1>1, <1>2, <2>2 DEF UInv, Rest, OneWay, Channel, Sound, Quiet, Empty, Out, Interrupts,
         ByIt, thread, IsrTc, NoTransmit, TransmitFromIsr, Channels
    <2>3. CASE "TC" \in flags /\ ~NoTransmit("READY")
      BY <1>1, <1>2, <2>3 DEF UInv, Rest, Channel, Sound, Quiet, Empty, Out, Interrupts, ByIt,
         thread, IsrTc, NoTransmit, TransmitFromIsr
    <2> QED BY <2>1, <2>2, <2>3
  <1>5. Starting'
    BY DEF UInv, Starting, ByIt, Quiet, Empty, Interrupts, Kept, IsrTc, TransmitFromIsr,
       NoTransmit, NotFull, thread
  <1>6. Filling'
    <2>1. use.txFromIsr => tpc = "idle" /\ ~use.dma
      BY DEF UInv, Kept, UsesApart
    <2>2. txFifo # << >> \/ NotFull
      BY Room DEF UInv, Kept
    <2>3. use \in Uses /\ TypeOK /\ <<Len(asked) + 1, 1>> \in Byte
      BY Seqs DEF UInv, Kept, TypeOK, Byte
    <2>4. Append(txFifo, <<Len(asked) + 1, 1>>) # << >>
      BY <2>3, Room
    <2> QED
      BY <1>1, <1>2, <2>1, <2>2, <2>3, <2>4 DEF UInv, Filling, Rest, Channel, Sound, Quiet, Empty,
         Out, Interrupts, ByIt, thread, IsrTc, TransmitFromIsr, NoTransmit
  <1>7. OneWay'
    BY <1>1, <1>2 DEF UInv, OneWay, Channels, Rest, Channel, Sound, Quiet, Empty, Out, Interrupts,
       ByIt, thread, IsrTc, TransmitFromIsr, NoTransmit
  <1>8. Moving'
    BY <1>1, <1>2 DEF UInv, Moving, Rest, Channel, Sound, Quiet, Empty, Out, Interrupts, ByIt,
       ByDma, thread, IsrTc, TransmitFromIsr, NoTransmit
  <1>9. OneCall'
    BY DEF UInv, OneCall, Interrupts, Kept, IsrTc, TransmitFromIsr, NoTransmit, NotFull, thread,
       tickVars
  <1>10. Kept' /\ Chans' /\ Raised' /\ TriggerRight'
    BY DEF UInv, Kept, Interrupts, IsrTc, TransmitFromIsr, NoTransmit, NotFull, thread, tickVars,
       Channels, Chans, Raised, TriggerRight
  <1> QED BY <1>3, <1>4, <1>5, <1>6, <1>7, <1>8, <1>9, <1>10 DEF UInv

LEMMA IsrEnterKeeps ==
  ASSUME UInv, Prompt, UsesApart, IsrEnter /\ UNCHANGED <<dmaen, chan>>,
         UNCHANGED <<use, tickVars, calls, cut>>
  PROVE  UInv'
  <1>1. TypeOK'
    BY DEF UInv, TypeOK, handle, regs, fifos, thread, history, IsrEnter, Pending, IFM, RxReady
  <1>2. /\ Kept' /\ Chans' /\ Raised' /\ Rest' /\ Starting'
        /\ Filling' /\ OneWay' /\ Moving' /\ TriggerRight' /\ OneCall'
    BY DEF UInv, Kept, Interrupts, IsrEnter, Pending, IFM, RxReady, handle, regs, fifos, thread,
       history, tickVars, Channels, Chans, Raised, Rest, Quiet, Out, Empty, Starting, ByIt,
       Filling, OneWay, Moving, ByDma, TriggerRight, OneCall
  <1> QED BY <1>1, <1>2 DEF UInv

LEMMA IsrRxKeeps ==
  ASSUME UInv, Prompt, UsesApart, IsrRx /\ UNCHANGED <<dmaen, chan>>,
         UNCHANGED <<use, tickVars, calls, cut>>
  PROVE  UInv'
  <1>1. TypeOK'
    <2>1. use \in Uses
      BY DEF UInv, Kept
    <2>2. Len(rxFifo) \in 0 .. FifoDepth /\ 0 \in 0 .. FifoDepth
      BY <2>1, Sizes, Seqs DEF UInv, TypeOK
    <2> QED BY <2>1, <2>2 DEF UInv, TypeOK, handle, regs, fifos, thread, history, IsrRx
  <1>2. /\ Kept' /\ Chans' /\ Raised' /\ Rest' /\ Starting'
        /\ Filling' /\ OneWay' /\ Moving' /\ TriggerRight' /\ OneCall'
    BY DEF UInv, Kept, Interrupts, IsrRx, handle, regs, fifos, thread, history, tickVars,
       Channels, Chans, Raised, Rest, Quiet, Out, Empty, Starting, ByIt, Filling, OneWay, Moving,
       ByDma, TriggerRight, OneCall
  <1> QED BY <1>1, <1>2 DEF UInv

LEMMA IsrReadKeeps ==
  ASSUME UInv, Prompt, UsesApart, IsrRead /\ UNCHANGED <<dmaen, chan>>,
         UNCHANGED <<use, tickVars, calls, cut>>
  PROVE  UInv'
  <1>1. use \in Uses
    BY DEF UInv, Kept
  <1>2. TypeOK'
    <2>1. rxFifo # << >> /\ level - 1 \in 0 .. FifoDepth
      BY <1>1, Sizes, Seqs DEF UInv, TypeOK, TriggerRight, IsrRead
    <2>2. Tail(rxFifo) \in Seq(Nat) /\ Len(Tail(rxFifo)) <= FifoDepth
      BY <1>1, <2>1, Taken DEF UInv
    <2>3. \A n : Trigger(n) \in {1, TriggerHigh}
      BY DEF Trigger
    <2>4. rxCount - 1 \in 0 .. CountRange - 1
      BY Counts DEF UInv, IsrRead
    <2> QED BY <1>1, <2>1, <2>2, <2>3, <2>4 DEF UInv, TypeOK, thread, history, IsrRead
  <1>3. TriggerRight'
    <2>1. rxFifo # << >> /\ level - 1 <= Len(rxFifo) - 1 /\ Len(Tail(rxFifo)) = Len(rxFifo) - 1
      BY <1>1, Taken, Seqs, Sizes DEF UInv, TypeOK, TriggerRight, IsrRead
    <2>2. rxCount \in Nat /\ rxCount > 1
      BY Counts DEF UInv, IsrRead
    <2>3. tpc = "idle" \/ ~use.txFromIsr
      BY DEF UInv, Kept
    <2> QED
      BY <1>1, <2>1, <2>2, <2>3 DEF UInv, TriggerRight, Channel, Sound, Quiet, Empty, Out,
         Interrupts, ByIt, ByDma, thread, history, IsrRead
  <1>4. OneCall'
    BY DEF UInv, OneCall, Interrupts, Kept, IsrRead, Trigger, thread, history, tickVars
  <1>5. Kept' /\ Chans' /\ Raised' /\ Rest' /\ Starting' /\ Filling' /\ OneWay' /\ Moving'
    BY DEF UInv, Kept, Interrupts, IsrRead, Trigger, thread, history, tickVars, Channels, Chans,
       Raised, Rest, Quiet, Out, Empty, Starting, ByIt, Filling, OneWay, Moving, ByDma
  <1> QED BY <1>2, <1>3, <1>4, <1>5 DEF UInv

LEMMA IsrReadLastKeeps ==
  ASSUME UInv, Prompt, UsesApart, IsrReadLast /\ UNCHANGED <<dmaen, chan>>,
         UNCHANGED <<use, tickVars, calls, cut>>
  PROVE  UInv'
  <1>1. use \in Uses /\ Interrupts
    BY DEF UInv, Kept, IsrReadLast, Interrupts
  <1>2. use.txFromIsr /\ gState = "READY" => Quiet
    BY <1>1 DEF UInv, Rest, ByDma, Moving, UsesApart, TypeOK
  <1>3. /\ Len(asked) \in Nat
        /\ ended \in Nat
        /\ \A n \in TxSizes : Len(Append(asked, n)) = Len(asked) + 1
    BY UartAssumption, Seqs DEF UInv, TypeOK
  <1>4. use.txFromIsr => tpc = "idle" /\ ~use.dma
    BY <1>1 DEF UInv, Kept, UsesApart
  <1>5. TypeOK'
    <2>1. use \in Uses
      BY DEF UInv, Kept
    <2>2. rxFifo # << >> /\ level - 1 \in 0 .. FifoDepth
      BY <2>1, Sizes, Seqs DEF UInv, TypeOK, TriggerRight, IsrReadLast
    <2>3. Tail(rxFifo) \in Seq(Nat) /\ Len(Tail(rxFifo)) <= FifoDepth
      BY <2>1, <2>2, Taken DEF UInv
    <2>4. \A n : Trigger(n) \in {1, TriggerHigh}
      BY DEF Trigger
    <2>5. \A n \in TxSizes \cup use.rxSizes :
            n - 1 \in 0 .. CountRange - 1 /\ n \in 0 .. CountRange - 1
      BY <2>1, Sizes
    <2>6. <<Len(asked) + 1, 1>> \in Nat \X Nat /\ <<Len(asked) + 1, 2>> \in Nat \X Nat
      BY Seqs DEF UInv, TypeOK
    <2>7. NotFull => /\ Append(txFifo, <<Len(asked) + 1, 1>>) \in Seq(Nat \X Nat)
                     /\ Len(Append(txFifo, <<Len(asked) + 1, 1>>)) <= FifoDepth
      BY <2>6, Room DEF UInv, Kept, Byte
    <2>8. \A n \in TxSizes : Append(asked, n) \in Seq(0 .. CountRange - 1)
      BY <2>5, Seqs DEF UInv, TypeOK
    <2>9. 0 \in 0 .. CountRange - 1 /\ 0 \in 0 .. FifoDepth
      BY UartAssumption
    <2> QED
      BY <2>1, <2>2, <2>3, <2>4, <2>5, <2>6, <2>7, <2>8, <2>9 DEF UInv, TypeOK, thread,
         IsrReadLast, TransmitFromIsr, NoTransmit
  <1>6. Kept'
    BY DEF UInv, Kept, Interrupts, TypeOK, UsesApart, Rest, ByDma, Quiet, IsrReadLast, Trigger,
       TransmitFromIsr, NoTransmit, NotFull, thread, tickVars, Channels
  <1>7. Rest'
    BY <1>1, <1>2, <1>3, <1>4 DEF UInv, Rest, Channel, Sound, Quiet, Empty, Out, Interrupts,
       ByDma, thread, IsrReadLast, TransmitFromIsr, NoTransmit
  <1>8. Starting'
    BY DEF UInv, Starting, ByIt, Quiet, Empty, Interrupts, Kept, IsrReadLast, Trigger,
       TransmitFromIsr, NoTransmit, NotFull, thread
  <1>9. Filling'
    <2>1. use \in Uses /\ TypeOK /\ <<Len(asked) + 1, 1>> \in Byte
      BY Seqs DEF UInv, Kept, TypeOK, Byte
    <2>2. Append(txFifo, <<Len(asked) + 1, 1>>) # << >> /\ (~NotFull => txFifo # << >>)
      BY <2>1, Room
    <2> QED
      BY <1>1, <1>2, <1>3, <1>4, <2>1, <2>2 DEF UInv, Rest, Starting, Filling, Channel, Sound,
         Quiet, Empty, Out, Interrupts, ByIt, ByDma, thread, IsrReadLast, TransmitFromIsr,
         NoTransmit
  <1>10. OneWay'
    BY DEF UInv, OneWay, ByIt, Quiet, Interrupts, TypeOK, Kept, UsesApart, Rest, ByDma,
       IsrReadLast, Trigger, TransmitFromIsr, NoTransmit, NotFull, thread, Channels
  <1>11. TriggerRight'
    <2>1. 1 < TriggerHigh /\ Trigger(1) = 1
      BY UartAssumption DEF Trigger
    <2>2. use \in Uses /\ Interrupts /\ rxState = "BUSY_RX"
      BY Zenon DEF UInv, Kept, IsrReadLast, Interrupts, TriggerRight
    <2>3. tpc = "fcrWrite" => tmp = 1
      BY <2>2 DEF UInv, TriggerRight
    <2>4. \A n \in use.rxSizes : n > 0 /\ (~use.txFromIsr => n = 1)
      BY <2>2, Sizes DEF UsesApart
    <2> QED
      BY <2>1, <2>2, <2>3, <2>4 DEF UInv, TriggerRight, NoTransmit, Channel, Sound, Quiet, Empty,
         Out, Interrupts, ByDma, thread, IsrReadLast
  <1>12. OneCall'
    BY DEF UInv, OneCall, Interrupts, Kept, IsrReadLast, Trigger, TransmitFromIsr, NoTransmit,
       NotFull, thread, tickVars
  <1>13. Chans' /\ Raised' /\ Moving'
    BY DEF UInv, Chans, IsrReadLast, Trigger, TransmitFromIsr, NoTransmit, NotFull, thread,
       Channels, Raised, Moving, ByDma, Quiet, Out, Empty, Interrupts
  <1> QED BY <1>5, <1>6, <1>7, <1>8, <1>9, <1>10, <1>11, <1>12, <1>13 DEF UInv

LEMMA IsrReadDoneKeeps ==
  ASSUME UInv, Prompt, UsesApart, IsrReadDone /\ UNCHANGED <<dmaen, chan>>,
         UNCHANGED <<use, tickVars, calls, cut>>
  PROVE  UInv'
  <1>1. TypeOK'
    BY DEF UInv, TypeOK, handle, regs, fifos, thread, history, IsrReadDone
  <1>2. /\ Kept' /\ Chans' /\ Raised' /\ Rest' /\ Starting'
        /\ Filling' /\ OneWay' /\ Moving' /\ TriggerRight' /\ OneCall'
    BY DEF UInv, Kept, Interrupts, IsrReadDone, handle, regs, fifos, thread, history, tickVars,
       Channels, Chans, Raised, Rest, Quiet, Out, Empty, Starting, ByIt, Filling, OneWay, Moving,
       ByDma, TriggerRight, OneCall
  <1> QED BY <1>1, <1>2 DEF UInv

LEMMA LoadKeeps ==
  ASSUME UInv, Prompt, UsesApart, Load /\ UNCHANGED <<dmaen, chan>>,
         UNCHANGED <<use, tickVars, calls, cut>>
  PROVE  UInv'
  <1>1. use \in Uses /\ TypeOK
    BY DEF UInv, Kept
  <1>2. txFifo # << >> => (Tail(txFifo) = << >> <=> Len(txFifo) = 1)
    BY <1>1, Room
  <1>3. TypeOK'
    <2>1. txFifo \in Seq(Byte) /\ Len(txFifo) <= FifoDepth
      BY DEF UInv, TypeOK, Byte
    <2>2. /\ Tail(txFifo) \in Seq(Byte)
          /\ Len(Tail(txFifo)) <= FifoDepth
          /\ <<Head(txFifo)>> \in Seq(Byte)
      BY <2>1, Seqs, UartAssumption DEF Load
    <2>3. Tail(txFifo) \in Seq(Nat \X Nat) /\ <<Head(txFifo)>> \in Seq(Nat \X Nat)
      BY <2>2 DEF Byte
    <2> QED BY <2>1, <2>2, <2>3 DEF UInv, TypeOK, handle, thread, isr, history, Load
  <1>4. Filling'
    BY <1>1, <1>2 DEF UInv, Starting, Filling, Channel, Sound, Quiet, Empty, Out, Interrupts,
       ByIt, handle, thread, isr, history, Load
  <1>5. Moving'
    BY <1>1, <1>2 DEF UInv, Moving, Channel, Sound, Quiet, Empty, Out, Interrupts, ByIt, ByDma,
       handle, thread, isr, history, Load
  <1>6. /\ Kept' /\ Chans' /\ Raised' /\ Rest'
        /\ Starting' /\ OneWay' /\ TriggerRight' /\ OneCall'
    BY DEF UInv, Kept, Interrupts, Load, handle, thread, isr, history, tickVars, Channels, Chans,
       Raised, Rest, Quiet, Out, Empty, Starting, ByIt, OneWay, TriggerRight, OneCall
  <1> QED BY <1>3, <1>4, <1>5, <1>6 DEF UInv

LEMMA SentDmaKeeps ==
  ASSUME UInv, Prompt, UsesApart, SentDma /\ UNCHANGED <<dmaen, chan>>,
         UNCHANGED <<use, tickVars, calls, cut>>
  PROVE  UInv'
  <1>1. TypeOK'
    <2>1. wire \o shifter \in Seq(Nat \X Nat)
      BY DEF UInv, TypeOK, SentDma, Sent
    <2> QED BY <2>1 DEF UInv, TypeOK, handle, thread, isr, SentDma, Sent
  <1>2. Filling'
    <2>1. ~("TXS" \in ier /\ "TXS" \in rif) /\ ipc = "idle"
      BY DEF SentDma, Sent, Pending, IFM
    <2>2. txCount \in Nat
      BY Counts DEF UInv
    <2> QED
      BY <2>1, <2>2 DEF UInv, Starting, Filling, Channel, Sound, Quiet, Empty, Out, Interrupts,
         ByIt, ByDma, handle, thread, isr, SentDma, Sent
  <1>3. Moving'
    <2>1. use \in Uses /\ TypeOK
      BY DEF UInv, Kept
    <2>2. txFifo = << >> => NotFull
      BY <2>1, Room
    <2>3. ByDma => ~("TXS" \in ier /\ "TXS" \in rif)
      BY DEF SentDma, Sent, Pending, IFM
    <2>4. ByDma /\ txFifo = << >> => ~chan["tx"].on
      BY <2>2 DEF UInv, Moving, Chans, Sound, SentDma, TxWanted, DoneEnabled, Channels, Channel
    <2> QED
      BY <2>1, <2>2, <2>3, <2>4 DEF UInv, Moving, Chans, Channels, Channel, Sound, Quiet, Empty,
         Out, Interrupts, ByIt, ByDma, handle, thread, isr, SentDma, Sent
  <1>4. /\ Kept' /\ Chans' /\ Raised' /\ Rest'
        /\ Starting' /\ OneWay' /\ TriggerRight' /\ OneCall'
    BY DEF UInv, Kept, Interrupts, SentDma, Sent, TxWanted, DoneEnabled, Pending, IFM, RxReady,
       NotFull, handle, thread, isr, tickVars, Channels, Chans, Raised, Rest, Quiet, Out, Empty,
       Starting, ByIt, OneWay, TriggerRight, OneCall
  <1> QED BY <1>1, <1>2, <1>3, <1>4 DEF UInv

LEMMA ArriveKeeps ==
  ASSUME UInv, Prompt, UsesApart, Arrive /\ UNCHANGED <<dmaen, chan>>,
         UNCHANGED <<use, tickVars, calls, cut>>
  PROVE  UInv'
  <1>1. TypeOK'
    <2>1. use \in Uses /\ use.maxRx \in Nat
      BY UartAssumption DEF UInv, Kept
    <2>2. arrived + 1 \in 0 .. use.maxRx
      BY <2>1 DEF UInv, TypeOK, Arrive
    <2>3. /\ Append(rxFifo, arrived + 1) \in Seq(Nat)
          /\ Len(rxFifo) < FifoDepth => Len(Append(rxFifo, arrived + 1)) <= FifoDepth
      BY <2>1, <2>2, Sizes, Seqs DEF UInv, TypeOK
    <2> QED BY <2>1, <2>2, <2>3 DEF UInv, TypeOK, handle, regs, thread, isr, history, Arrive
  <1>2. TriggerRight'
    <2>1. level <= Len(rxFifo) => level <= Len(Append(rxFifo, arrived + 1))
      BY Seqs DEF UInv, TypeOK
    <2> QED
      BY <2>1 DEF UInv, TypeOK, TriggerRight, Channel, Sound, Quiet, Empty, Out, Interrupts, ByIt,
         ByDma, handle, regs, thread, isr, history, Arrive
  <1>3. /\ Kept' /\ Chans' /\ Raised' /\ Rest' /\ Starting'
        /\ Filling' /\ OneWay' /\ Moving' /\ OneCall'
    BY DEF UInv, Kept, Interrupts, Arrive, handle, regs, thread, isr, history, tickVars, Channels,
       Chans, Raised, Rest, Quiet, Out, Empty, Starting, ByIt, Filling, OneWay, Moving, ByDma,
       OneCall
  <1> QED BY <1>1, <1>2, <1>3 DEF UInv

-----------------------------------------------------------------------------
(* The calls by interrupt and by DMA, and the controller. *)

LEMMA ByInterruptKeeps ==
  ASSUME UInv, Prompt, UsesApart, ByInterrupt,
         UNCHANGED <<use, tickVars, calls, cut>>
  PROVE  UInv'
  <1>1. Quiet /\ Interrupts /\ tpc = "idle" /\ ipc = "idle"
    BY DEF ByInterrupt, TransmitStart, Quiet, Interrupts
  <1>2. TypeOK'
    BY UartAssumption, Seqs DEF UInv, TypeOK, regs, fifos, isr, ByInterrupt, TransmitStart
  <1>3. Starting'
    <2>1. \A n \in TxSizes : n > 0
      BY UartAssumption
    <2> QED
      BY <1>1, <2>1 DEF UInv, Starting, Rest, Channel, Sound, Quiet, Empty, Out, Interrupts, ByIt,
         ByDma, regs, fifos, isr, ByInterrupt, TransmitStart
  <1>4. OneWay'
    BY <1>1 DEF UInv, OneWay, Rest, Channels, Channel, Sound, Quiet, Empty, Out, Interrupts, ByIt,
       ByDma, regs, fifos, isr, ByInterrupt, TransmitStart
  <1>5. Kept' /\ Chans'
    BY DEF UInv, Kept, Interrupts, ByInterrupt, TransmitStart, regs, fifos, isr, tickVars,
       Channels, Chans
  <1>6. Raised' /\ Rest'
    BY DEF UInv, Raised, ByInterrupt, TransmitStart, regs, fifos, isr, Rest, Quiet, Out, Empty,
       Interrupts
  <1>7. Filling' /\ Moving' /\ TriggerRight' /\ OneCall'
    BY DEF UInv, Filling, ByIt, Quiet, Out, Empty, Interrupts, ByInterrupt, TransmitStart, regs,
       fifos, isr, Moving, ByDma, TriggerRight, OneCall, tickVars
  <1> QED BY <1>2, <1>3, <1>4, <1>5, <1>6, <1>7 DEF UInv

LEMMA ReceiveByInterruptKeeps ==
  ASSUME UInv, Prompt, UsesApart, ReceiveByInterrupt,
         UNCHANGED <<use, tickVars, calls, cut>>
  PROVE  UInv'
  <1>1. TypeOK'
    <2>1. use \in Uses
      BY DEF UInv, Kept
    <2>2. \A n : Trigger(n) \in {1, TriggerHigh}
      BY DEF Trigger
    <2>3. \A n \in use.rxSizes : n \in 0 .. CountRange - 1
      BY <2>1, Sizes
    <2> QED
      BY <2>1, <2>2, <2>3 DEF UInv, TypeOK, fifos, thread, isr, history, ReceiveByInterrupt,
         ReceiveStart
  <1>2. Kept'
    BY DEF UInv, Kept, Interrupts, TypeOK, UsesApart, Rest, ByIt, Quiet, ReceiveByInterrupt,
       ReceiveStart, Trigger, fifos, thread, isr, history, tickVars, Channels
  <1>3. Moving'
    BY DEF UInv, Moving, ByDma, Quiet, Out, Empty, Interrupts, TypeOK, Kept, UsesApart, Rest,
       ByIt, ReceiveByInterrupt, ReceiveStart, Trigger, fifos, thread, isr, history
  <1>4. TriggerRight'
    <2>1. 1 < TriggerHigh /\ Trigger(1) = 1
      BY UartAssumption DEF Trigger
    <2>2. \A n \in use.rxSizes : n > 0 /\ (~use.txFromIsr => n = 1)
      BY Sizes DEF UInv, Kept, UsesApart
    <2> QED
      BY <2>1, <2>2 DEF UInv, TriggerRight, Channel, Sound, Quiet, Empty, Out, Interrupts, ByIt,
         fifos, thread, isr, history, ReceiveByInterrupt, ReceiveStart
  <1>5. OneCall'
    BY DEF UInv, OneCall, Interrupts, TypeOK, Kept, UsesApart, Rest, ByIt, Quiet,
       ReceiveByInterrupt, ReceiveStart, Trigger, fifos, thread, isr, history, tickVars
  <1>6. Chans' /\ Raised' /\ Rest' /\ Starting' /\ Filling' /\ OneWay'
    BY DEF UInv, Chans, ReceiveByInterrupt, ReceiveStart, Trigger, fifos, thread, isr, history,
       Channels, Raised, Rest, Quiet, Out, Empty, Interrupts, Starting, ByIt, Filling, OneWay
  <1> QED BY <1>1, <1>2, <1>3, <1>4, <1>5, <1>6 DEF UInv

LEMMA DmaStartKeeps ==
  ASSUME UInv, Prompt, UsesApart, DmaStart,
         UNCHANGED <<use, tickVars, calls, cut>>
  PROVE  UInv'
  <1>1. chan \in [Channels -> Channel] /\ \A c \in Channels : Sound(chan[c])
    BY DEF UInv, Chans
  <1>2. /\ dmaen' = TRUE
        /\ chan' \in [Channels -> Channel] /\ \A c \in Channels : Sound(chan'[c])
        /\ StartedTx(chan) \/ StartedRx(chan, rif)
    BY <1>1, StartsSound DEF UInv, TypeOK, DmaStart
  <1>3. /\ use.dma
        /\ Interrupts
        /\ tpc = "idle"
        /\ ipc = "idle"
        /\ use \in Uses
        /\ tpc' = tpc
        /\ ipc' = ipc
    BY DEF UInv, Kept, UsesApart, DmaStart, Interrupts, thread, isr
  <1>4. "tx" \in Channels /\ "rx" \in Channels
    BY DEF Channels
  <1>5. ended \in Nat /\ Len(asked) \in Nat
    BY Seqs DEF UInv, TypeOK
  <1>6. TypeOK'
    <2>1. use \in Uses
      BY DEF UInv, Kept
    <2>2. \A n \in TxSizes : Append(asked, n) \in Seq(0 .. CountRange - 1)
      BY <2>1, Sizes, Seqs DEF UInv, TypeOK
    <2>3. <<Len(asked) + 1, 1>> \in Nat \X Nat
      BY Seqs DEF UInv, TypeOK
    <2>4. CASE \E n \in TxSizes : TransmitDma(chan, n)
      BY <2>1, <2>2, <2>3, <2>4 DEF UInv, TypeOK, fifos, thread, isr, DmaStart, TransmitDma,
         ReceiveDma, Started
    <2>5. CASE rif' = rif /\ \E n \in RxDmaSizes : ReceiveDma(chan, n)
      BY <2>1, <2>2, <2>3, <2>5 DEF UInv, TypeOK, fifos, thread, isr, DmaStart, TransmitDma,
         ReceiveDma, Started
    <2> QED BY <2>4, <2>5 DEF DmaStart, Starts
  <1>7. Chans'
    BY <1>1, <1>2, <1>3 DEF UInv, Chans
  <1>8. Rest'
    BY <1>1, <1>2, <1>3, <1>4, <1>5 DEF UInv, Rest, DmaStart, StartedTx, StartedRx, OneWay,
       Moving, Channel, Sound, Quiet, Empty, Out, Interrupts, ByIt, ByDma, fifos, thread, isr
  <1>9. Starting'
    BY <1>1, <1>2, <1>3, <1>4, <1>5 DEF UInv, Starting, Rest, DmaStart, StartedTx, StartedRx,
       OneWay, Moving, Channel, Sound, Quiet, Empty, Out, Interrupts, ByIt, ByDma, fifos, thread,
       isr
  <1>10. Filling'
    BY <1>1, <1>2, <1>3, <1>4, <1>5 DEF UInv, Filling, Rest, DmaStart, StartedTx, StartedRx,
       OneWay, Moving, Channel, Sound, Quiet, Empty, Out, Interrupts, ByIt, ByDma, fifos, thread,
       isr
  <1>11. OneWay'
    BY <1>1, <1>2, <1>3, <1>4, <1>5 DEF UInv, OneWay, Rest, DmaStart, StartedTx, StartedRx,
       Moving, Channel, Sound, Quiet, Empty, Out, Interrupts, ByIt, ByDma, fifos, thread, isr,
       Channels
  <1>12. Moving'
    BY <1>1, <1>2, <1>3, <1>4, <1>5 DEF UInv, Moving, Rest, DmaStart, StartedTx, StartedRx,
       OneWay, Channel, Sound, Quiet, Empty, Out, Interrupts, ByIt, ByDma, fifos, thread, isr
  <1>13. Kept' /\ Raised' /\ TriggerRight' /\ OneCall'
    BY DEF UInv, Kept, Interrupts, DmaStart, Starts, TransmitDma, ReceiveDma, Started, fifos,
       thread, isr, tickVars, Channels, Raised, TriggerRight, OneCall
  <1> QED BY <1>6, <1>7, <1>8, <1>9, <1>10, <1>11, <1>12, <1>13 DEF UInv

LEMMA DmaTxKeeps ==
  ASSUME UInv, Prompt, UsesApart, DmaTx,
         UNCHANGED <<use, tickVars, calls, cut>>
  PROVE  UInv'
  <1>1. use \in Uses /\ TypeOK
    BY DEF UInv, Kept
  <1>2. chan \in [Channels -> Channel] /\ \A c \in Channels : Sound(chan[c])
    BY DEF UInv, Chans
  <1>3. "tx" \in Channels /\ "rx" \in Channels
    BY DEF Channels
  <1>4. /\ Moved("tx") \in [Channels -> Channel] /\ \A d \in Channels : Sound(Moved("tx")[d])
        /\ /\ Moved("tx")["tx"].on
           /\ chan["tx"].on
           /\ ~chan["tx"].done
           /\ Moved("tx")["rx"] = chan["rx"]
    BY <1>2, <1>3, MovedSound DEF Channels, DmaTx, TxWanted, Channel
  <1>5. TypeOK'
    <2>1. NextPtr \in Nat \X Nat
      BY DEF UInv, TypeOK, NextPtr
    <2>2. NotFull => /\ Append(txFifo, txPtr) \in Seq(Nat \X Nat)
                     /\ Len(Append(txFifo, txPtr)) <= FifoDepth
      BY <1>1, Room DEF Byte
    <2> QED BY <1>1, <2>1, <2>2 DEF UInv, TypeOK, regs, thread, isr, history, DmaTx, TxWanted
  <1>6. Chans'
    BY <1>2, <1>3, <1>4 DEF UInv, Chans, DmaTx, Channels, isr
  <1>7. Rest'
    <2>1. Interrupts /\ ~Quiet
      BY <1>2, <1>3, <1>4 DEF UInv, Kept, Rest, UsesApart, Interrupts, DmaTx, TxWanted, Channels
    <2> QED
      BY <1>2, <1>3, <1>4, <2>1 DEF UInv, Rest, DmaTx, Channel, Sound, Quiet, Empty, Out,
         Interrupts, regs, thread, isr, history
  <1>8. Starting'
    BY <1>2, <1>3, <1>4 DEF UInv, Starting, OneWay, Channels, DmaTx, TxWanted, Channel, Sound,
       Quiet, Empty, Interrupts, ByIt, regs, thread, isr, history
  <1>9. Filling'
    BY <1>2, <1>3, <1>4 DEF UInv, Filling, OneWay, Channels, DmaTx, TxWanted, Channel, Sound,
       Quiet, Empty, Out, Interrupts, ByIt, regs, thread, isr, history
  <1>10. OneWay'
    BY <1>2, <1>3, <1>4 DEF UInv, OneWay, Channels, DmaTx, TxWanted, Channel, Sound, Quiet,
       Interrupts, ByIt, regs, thread, isr, history
  <1>11. Moving'
    <2>1. Append(txFifo, txPtr) # << >>
      BY <1>1, Room
    <2> QED
      BY <1>2, <1>3, <1>4, <1>1, <2>1 DEF UInv, Rest, Moving, DmaTx, TxWanted, Channel, Sound,
         Quiet, Empty, Out, Interrupts, ByDma, regs, thread, isr, history
  <1>12. Kept' /\ Raised' /\ TriggerRight' /\ OneCall'
    BY DEF UInv, Kept, Interrupts, DmaTx, TxWanted, NotFull, NextPtr, Moved, regs, thread, isr,
       history, tickVars, Channels, Raised, TriggerRight, OneCall
  <1> QED BY <1>5, <1>6, <1>7, <1>8, <1>9, <1>10, <1>11, <1>12 DEF UInv

LEMMA DmaRxKeeps ==
  ASSUME UInv, Prompt, UsesApart, DmaRx,
         UNCHANGED <<use, tickVars, calls, cut>>
  PROVE  UInv'
  <1>1. chan \in [Channels -> Channel] /\ \A c \in Channels : Sound(chan[c])
    BY DEF UInv, Chans
  <1>2. "tx" \in Channels /\ "rx" \in Channels
    BY DEF Channels
  <1>3. /\ Moved("rx") \in [Channels -> Channel] /\ \A d \in Channels : Sound(Moved("rx")[d])
        /\ /\ Moved("rx")["rx"].on
           /\ chan["rx"].on
           /\ ~chan["rx"].done
           /\ Moved("rx")["tx"] = chan["tx"]
    BY <1>1, <1>2, MovedSound DEF Channels, DmaRx, Channel
  <1>4. TypeOK'
    <2>1. use \in Uses
      BY DEF UInv, Kept
    <2>2. rxFifo # << >> => Tail(rxFifo) \in Seq(Nat) /\ Len(Tail(rxFifo)) <= FifoDepth
      BY <2>1, Taken DEF UInv
    <2> QED BY <2>1, <2>2 DEF UInv, TypeOK, handle, regs, thread, isr, history, DmaRx, Moved
  <1>5. Chans'
    BY <1>1, <1>2, <1>3 DEF UInv, Chans, DmaRx, Channels, isr
  <1>6. Rest'
    BY <1>1, <1>2, <1>3 DEF UInv, Rest, DmaRx, Channel, Sound, Quiet, Empty, Out, Interrupts,
       ByIt, handle, regs, thread, isr, history, OneWay
  <1>7. Starting'
    BY <1>1, <1>2, <1>3 DEF UInv, Starting, DmaRx, Channel, Sound, Quiet, Empty, Interrupts, ByIt,
       handle, regs, thread, isr, history, OneWay
  <1>8. Filling'
    BY <1>1, <1>2, <1>3 DEF UInv, Filling, DmaRx, Channel, Sound, Quiet, Empty, Out, Interrupts,
       ByIt, handle, regs, thread, isr, history, OneWay
  <1>9. OneWay'
    BY <1>1, <1>2, <1>3 DEF UInv, OneWay, DmaRx, Channel, Sound, Quiet, Interrupts, ByIt, handle,
       regs, thread, isr, history, Channels
  <1>10. Moving'
    BY <1>1, <1>2, <1>3 DEF UInv, Moving, DmaRx, Channel, Sound, Quiet, Empty, Out, Interrupts,
       ByDma, handle, regs, thread, isr, history
  <1>11. TriggerRight'
    BY DEF UInv, TriggerRight, Interrupts, Kept, DmaRx, Moved, handle, regs, thread, isr, history
  <1>12. Kept' /\ Raised' /\ OneCall'
    BY DEF UInv, Kept, Interrupts, DmaRx, Moved, handle, regs, thread, isr, history, tickVars,
       Channels, Raised, OneCall
  <1> QED BY <1>4, <1>5, <1>6, <1>7, <1>8, <1>9, <1>10, <1>11, <1>12 DEF UInv

LEMMA IsrTxsDmaKeeps ==
  ASSUME UInv, Prompt, UsesApart, IsrTxsDma,
         UNCHANGED <<use, tickVars, calls, cut>>
  PROVE  UInv'
  <1>1. "TXS" \in flags => ByDma /\ ~chan["tx"].on /\ "TXS" \in ier /\ tpc = "idle"
    BY DEF UInv, TypeOK, Raised, Rest, ByIt, ByDma, OneWay, Moving, Kept, Interrupts, IsrTxsDma,
       Channels
  <1>2. TypeOK'
    BY DEF UInv, TypeOK, handle, fifos, thread, history, IsrTxsDma
  <1>3. Starting'
    BY <1>1 DEF UInv, Starting, OneWay, Channel, Sound, Quiet, Empty, Out, Interrupts, ByIt,
       ByDma, handle, fifos, thread, history, IsrTxsDma
  <1>4. Filling'
    BY <1>1 DEF UInv, Filling, OneWay, Channel, Sound, Quiet, Empty, Out, Interrupts, ByIt, ByDma,
       handle, fifos, thread, history, IsrTxsDma
  <1>5. Moving'
    BY <1>1 DEF UInv, Moving, OneWay, Channel, Sound, Quiet, Empty, Out, Interrupts, ByIt, ByDma,
       handle, fifos, thread, history, IsrTxsDma
  <1>6. Kept' /\ Chans' /\ Raised' /\ Rest' /\ OneWay' /\ TriggerRight' /\ OneCall'
    BY DEF UInv, Kept, Interrupts, IsrTxsDma, handle, fifos, thread, history, tickVars, Channels,
       Chans, Raised, Rest, Quiet, Out, Empty, OneWay, ByIt, TriggerRight, OneCall
  <1> QED BY <1>2, <1>3, <1>4, <1>5, <1>6 DEF UInv

LEMMA IsrTcDmaKeeps ==
  ASSUME UInv, Prompt, UsesApart, IsrTcDma,
         UNCHANGED <<use, tickVars, calls, cut>>
  PROVE  UInv'
  <1>1. chan \in [Channels -> Channel] /\ \A c \in Channels : Sound(chan[c])
    BY DEF UInv, Chans
  <1>2. Starts(chan, rif \ {"TC"}) =>
        /\ dmaen' = TRUE
        /\ chan' \in [Channels -> Channel] /\ \A c \in Channels : Sound(chan'[c])
        /\ StartedTx(chan) \/ StartedRx(chan, rif \ {"TC"})
    BY <1>1, StartsSound DEF UInv, TypeOK
  <1>3. "TC" \in flags => /\ ByDma /\ Out /\ ~chan["tx"].on /\ "TXS" \notin ier
                            /\ use.dma /\ Interrupts /\ dmaen /\ tpc = "idle" /\ use \in Uses
    BY DEF UInv, TypeOK, Raised, Rest, ByIt, ByDma, OneWay, Moving, Kept, Interrupts, IsrTcDma
  <1>4. "tx" \in Channels /\ "rx" \in Channels
    BY DEF Channels
  <1>5. ended \in Nat /\ Len(asked) \in Nat
    BY Seqs DEF UInv, TypeOK
  <1>6. TypeOK'
    <2>1. use \in Uses
      BY DEF UInv, Kept
    <2>2. \A n \in TxSizes : Append(asked, n) \in Seq(0 .. CountRange - 1)
      BY <2>1, Sizes, Seqs DEF UInv, TypeOK
    <2>3. <<Len(asked) + 1, 1>> \in Nat \X Nat
      BY Seqs DEF UInv, TypeOK
    <2>4. ended + 1 \in Nat
      BY DEF UInv, TypeOK
    <2>5. ier \ {"TC"} \subseteq {"TXS", "TC", "RXRD"} /\ rif \ {"TC"} \subseteq {"TXS", "TC"}
      BY DEF UInv, TypeOK
    <2>6. CASE "TC" \in flags
      BY <2>6, <2>1, <2>2, <2>3, <2>4, <2>5 DEF UInv, TypeOK, fifos, thread, IsrTcDma, Callback,
         Starts, TransmitDma, ReceiveDma, Started
    <2>7. CASE "TC" \notin flags
      BY <2>7, <2>1, <2>2, <2>3, <2>4, <2>5 DEF UInv, TypeOK, fifos, thread, IsrTcDma, Callback,
         Starts, TransmitDma, ReceiveDma, Started
    <2> QED BY <2>6, <2>7
  <1>7. Chans'
    BY <1>1, <1>2 DEF UInv, Chans, IsrTcDma, Callback
  <1>8. Rest'
    <2>1. CASE "TC" \notin flags
      BY <1>1, <1>2, <1>3, <1>4, <1>5, <2>1 DEF UInv, Rest, IsrTcDma, StartedTx, StartedRx,
         Channel, Sound, Quiet, Empty, Out, Interrupts, ByDma, fifos, thread
    <2>2. CASE /\ "TC" \in flags
               /\ rif' = rif \ {"TC"}
               /\ chan' = chan
               /\ UNCHANGED <<asked, txPtr, dmaen>>
      BY <1>1, <1>2, <1>3, <1>4, <1>5, <2>2 DEF UInv, Rest, IsrTcDma, StartedTx, StartedRx,
         Channel, Sound, Quiet, Empty, Out, Interrupts, ByDma, fifos, thread
    <2>3. CASE "TC" \in flags /\ Starts(chan, rif \ {"TC"}) /\ StartedTx(chan)
      BY <1>1, <1>2, <1>3, <1>4, <1>5, <2>3 DEF UInv, Rest, IsrTcDma, StartedTx, StartedRx,
         Channel, Sound, Quiet, Empty, Out, Interrupts, ByDma, fifos, thread
    <2>4. CASE "TC" \in flags /\ Starts(chan, rif \ {"TC"}) /\ StartedRx(chan, rif \ {"TC"})
      BY <1>1, <1>2, <1>3, <1>4, <1>5, <2>4 DEF UInv, Rest, IsrTcDma, StartedTx, StartedRx,
         Channel, Sound, Quiet, Empty, Out, Interrupts, ByDma, fifos, thread
    <2> QED BY <2>1, <2>2, <2>3, <2>4, <1>2 DEF IsrTcDma, Callback
  <1>9. Starting'
    BY <1>1, <1>2, <1>3, <1>4, <1>5 DEF UInv, Starting, Rest, IsrTcDma, Callback, StartedTx,
       StartedRx, Channel, Sound, Quiet, Empty, Out, Interrupts, ByIt, ByDma, fifos, thread
  <1>10. Filling'
    BY <1>1, <1>2, <1>3, <1>4, <1>5 DEF UInv, Filling, Rest, IsrTcDma, Callback, StartedTx,
       StartedRx, Channel, Sound, Quiet, Empty, Out, Interrupts, ByIt, ByDma, fifos, thread
  <1>11. OneWay'
    BY <1>1, <1>2, <1>3, <1>4, <1>5 DEF UInv, OneWay, Rest, IsrTcDma, Callback, StartedTx,
       StartedRx, Channel, Sound, Quiet, Empty, Out, Interrupts, ByIt, ByDma, fifos, thread,
       Channels
  <1>12. Moving'
    <2>1. CASE "TC" \notin flags
      BY <1>1, <1>2, <1>3, <1>4, <1>5, <2>1 DEF UInv, Moving, Rest, IsrTcDma, StartedTx,
         StartedRx, Channel, Sound, Quiet, Empty, Out, Interrupts, ByDma, fifos, thread
    <2>2. CASE /\ "TC" \in flags
               /\ rif' = rif \ {"TC"}
               /\ chan' = chan
               /\ UNCHANGED <<asked, txPtr, dmaen>>
      BY <1>1, <1>2, <1>3, <1>4, <1>5, <2>2 DEF UInv, Moving, Rest, IsrTcDma, StartedTx,
         StartedRx, Channel, Sound, Quiet, Empty, Out, Interrupts, ByDma, fifos, thread
    <2>3. CASE "TC" \in flags /\ Starts(chan, rif \ {"TC"}) /\ StartedTx(chan)
      BY <1>1, <1>2, <1>3, <1>4, <1>5, <2>3 DEF UInv, Moving, Rest, IsrTcDma, StartedTx,
         StartedRx, Channel, Sound, Quiet, Empty, Out, Interrupts, ByDma, fifos, thread
    <2>4. CASE "TC" \in flags /\ Starts(chan, rif \ {"TC"}) /\ StartedRx(chan, rif \ {"TC"})
      BY <1>1, <1>2, <1>3, <1>4, <1>5, <2>4 DEF UInv, Moving, Rest, IsrTcDma, StartedTx,
         StartedRx, Channel, Sound, Quiet, Empty, Out, Interrupts, ByDma, fifos, thread
    <2> QED BY <2>1, <2>2, <2>3, <2>4, <1>2 DEF IsrTcDma, Callback
  <1>13. Kept' /\ Raised' /\ TriggerRight' /\ OneCall'
    BY DEF UInv, Kept, Interrupts, IsrTcDma, Callback, Starts, TransmitDma, ReceiveDma, Started,
       fifos, thread, tickVars, Channels, Raised, TriggerRight, OneCall
  <1> QED BY <1>6, <1>7, <1>8, <1>9, <1>10, <1>11, <1>12, <1>13 DEF UInv

LEMMA DmaIsrEnterKeeps ==
  ASSUME UInv, Prompt, UsesApart, DmaIsrEnter,
         UNCHANGED <<use, tickVars, calls, cut>>
  PROVE  UInv'
  <1>1. TypeOK'
    <2>1. DoneEnabled \subseteq {"tx", "rx"}
      BY DEF DoneEnabled, Channels
    <2> QED BY <2>1 DEF UInv, TypeOK, handle, regs, fifos, thread, history, DmaIsrEnter
  <1>2. Kept'
    <2>1. \E c \in Channels : chan[c].on
      BY DEF UInv, Chans, Sound, Channel, DmaIsrEnter, DoneEnabled
    <2>2. use.dma /\ Interrupts
      BY <2>1 DEF UInv, Kept, UsesApart, Interrupts
    <2> QED
      BY <2>1, <2>2 DEF UInv, Kept, Channels, tickVars, Channel, Sound, Quiet, Empty, Out,
         Interrupts, ByIt, ByDma, handle, regs, fifos, thread, history, DmaIsrEnter, DoneEnabled
  <1>3. /\ Chans' /\ Raised' /\ Rest' /\ Starting' /\ Filling'
        /\ OneWay' /\ Moving' /\ TriggerRight' /\ OneCall'
    BY DEF UInv, Chans, DmaIsrEnter, DoneEnabled, handle, regs, fifos, thread, history, Channels,
       Raised, Rest, Quiet, Out, Empty, Interrupts, Starting, ByIt, Filling, OneWay, Moving,
       ByDma, TriggerRight, OneCall, tickVars
  <1> QED BY <1>1, <1>2, <1>3 DEF UInv

LEMMA DmaIsrKeeps ==
  ASSUME UInv, Prompt, UsesApart, NEW c \in Channels, DmaIsr(c),
         UNCHANGED <<use, tickVars, calls, cut>>
  PROVE  UInv'
  <1>1. chan \in [Channels -> Channel] /\ \A d \in Channels : Sound(chan[d])
    BY DEF UInv, Chans
  <1>2. Handled(c) \in [Channels -> Channel] /\ (\A d \in Channels : Sound(Handled(c)[d]))
        /\ chan[c].on /\ chan[c].left = 0 /\ ~Handled(c)[c].on /\ Handled(c)[c].left = 0
        /\ \A d \in Channels : d # c => Handled(c)[d] = chan[d]
    BY <1>1, HandledSound DEF UInv, Chans, DmaIsr
  <1>3. Starts(Handled(c), rif) =>
        /\ dmaen' = TRUE
        /\ chan' \in [Channels -> Channel] /\ \A d \in Channels : Sound(chan'[d])
        /\ StartedTx(Handled(c)) \/ StartedRx(Handled(c), rif)
    BY <1>2, StartsSound DEF UInv, TypeOK
  <1>4. use.dma /\ Interrupts /\ use \in Uses /\ ~ByIt /\ tpc = "idle" /\ ipc = "dma"
    BY <1>2 DEF UInv, Kept, OneWay, UsesApart, DmaIsr, Interrupts
  <1>5. "tx" \in Channels /\ "rx" \in Channels
    BY DEF Channels
  <1>6. ended \in Nat /\ Len(asked) \in Nat
    BY Seqs DEF UInv, TypeOK
  <1>7. Quiet => ~chan["tx"].on /\ ~chan["tx"].done
    BY <1>1, <1>4, <1>5 DEF UInv, Rest, Sound, Channel
  <1>8. TypeOK'
    <2>1. use \in Uses
      BY DEF UInv, Kept
    <2>2. \A n \in TxSizes : Append(asked, n) \in Seq(0 .. CountRange - 1)
      BY <2>1, Sizes, Seqs DEF UInv, TypeOK
    <2>3. <<Len(asked) + 1, 1>> \in Nat \X Nat
      BY Seqs DEF UInv, TypeOK
    <2> QED
      BY <2>1, <2>2, <2>3 DEF UInv, TypeOK, fifos, thread, DmaIsr, Handled, Callback, Starts,
         TransmitDma, ReceiveDma, Started
  <1>9. Kept'
    BY <1>1, <1>2, <1>3, <1>4 DEF UInv, Kept, Interrupts, DmaIsr, fifos, thread, tickVars
  <1>10. Chans'
    <2>1. CASE /\ c = "tx"
               /\ chan' = Handled(c)
               /\ ier' = ier \cup {"TXS"}
               /\ UNCHANGED <<asked, txPtr, rif, dmaen>>
      BY <1>1, <1>2, <1>3, <1>4, <1>5, <1>6, <1>7, <2>1 DEF UInv, Chans, Channels, DmaIsr,
         StartedTx, StartedRx, Channel, Sound, Quiet, Interrupts, ByIt, fifos, thread
    <2>2. CASE /\ c = "rx"
               /\ ier' = ier
               /\ rif' = rif
               /\ chan' = Handled(c)
               /\ UNCHANGED <<asked, txPtr, dmaen>>
      BY <1>1, <1>2, <1>3, <1>4, <1>5, <1>6, <1>7, <2>2 DEF UInv, Chans, Channels, DmaIsr,
         StartedTx, StartedRx, Channel, Sound, Quiet, Interrupts, ByIt, fifos, thread
    <2>3. CASE c = "rx" /\ ier' = ier /\ Starts(Handled(c), rif) /\ StartedTx(Handled(c))
      BY <1>1, <1>2, <1>3, <1>4, <1>5, <1>6, <1>7, <2>3 DEF UInv, Chans, Channels, DmaIsr,
         StartedTx, StartedRx, Channel, Sound, Quiet, Interrupts, ByIt, fifos, thread
    <2>4. CASE c = "rx" /\ ier' = ier /\ Starts(Handled(c), rif) /\ StartedRx(Handled(c), rif)
      BY <1>1, <1>2, <1>3, <1>4, <1>5, <1>6, <1>7, <2>4 DEF UInv, Chans, Channels, DmaIsr,
         StartedTx, StartedRx, Channel, Sound, Quiet, Interrupts, ByIt, fifos, thread
    <2> QED BY <2>1, <2>2, <2>3, <2>4, <1>3 DEF DmaIsr, Callback
  <1>11. Rest'
    <2>1. CASE /\ c = "tx"
               /\ chan' = Handled(c)
               /\ ier' = ier \cup {"TXS"}
               /\ UNCHANGED <<asked, txPtr, rif, dmaen>>
      BY <1>1, <1>2, <1>3, <1>4, <1>5, <1>6, <1>7, <2>1 DEF UInv, Rest, Moving, DmaIsr, StartedTx,
         StartedRx, Channel, Sound, Quiet, Empty, Out, Interrupts, ByIt, ByDma, fifos, thread
    <2>2. CASE /\ c = "rx"
               /\ ier' = ier
               /\ rif' = rif
               /\ chan' = Handled(c)
               /\ UNCHANGED <<asked, txPtr, dmaen>>
      BY <1>1, <1>2, <1>3, <1>4, <1>5, <1>6, <1>7, <2>2 DEF UInv, Rest, Moving, DmaIsr, StartedTx,
         StartedRx, Channel, Sound, Quiet, Empty, Out, Interrupts, ByIt, ByDma, fifos, thread
    <2>3. CASE c = "rx" /\ ier' = ier /\ Starts(Handled(c), rif) /\ StartedTx(Handled(c))
      BY <1>1, <1>2, <1>3, <1>4, <1>5, <1>6, <1>7, <2>3 DEF UInv, Rest, Moving, DmaIsr, StartedTx,
         StartedRx, Channel, Sound, Quiet, Empty, Out, Interrupts, ByIt, ByDma, fifos, thread
    <2>4. CASE c = "rx" /\ ier' = ier /\ Starts(Handled(c), rif) /\ StartedRx(Handled(c), rif)
      BY <1>1, <1>2, <1>3, <1>4, <1>5, <1>6, <1>7, <2>4 DEF UInv, Rest, Moving, DmaIsr, StartedTx,
         StartedRx, Channel, Sound, Quiet, Empty, Out, Interrupts, ByIt, ByDma, fifos, thread
    <2> QED BY <2>1, <2>2, <2>3, <2>4, <1>3 DEF DmaIsr, Callback
  <1>12. Starting'
    BY <1>1, <1>2, <1>3, <1>4, <1>5, <1>6 DEF UInv, Starting, Rest, Moving, DmaIsr, Callback,
       StartedTx, StartedRx, Channel, Sound, Quiet, Empty, Out, Interrupts, ByIt, ByDma, fifos,
       thread
  <1>13. Filling'
    BY <1>1, <1>2, <1>3, <1>4, <1>5, <1>6 DEF UInv, Filling, Rest, Moving, DmaIsr, Callback,
       StartedTx, StartedRx, Channel, Sound, Quiet, Empty, Out, Interrupts, ByIt, ByDma, fifos,
       thread
  <1>14. OneWay'
    BY <1>1, <1>2, <1>3, <1>4, <1>5, <1>6 DEF UInv, OneWay, Rest, Moving, DmaIsr, Callback,
       StartedTx, StartedRx, Channel, Sound, Quiet, Empty, Out, Interrupts, ByIt, ByDma, fifos,
       thread, Channels
  <1>15. Moving'
    <2>1. CASE /\ c = "tx"
               /\ chan' = Handled(c)
               /\ ier' = ier \cup {"TXS"}
               /\ UNCHANGED <<asked, txPtr, rif, dmaen>>
      BY <1>1, <1>2, <1>3, <1>4, <1>5, <1>6, <1>7, <2>1 DEF UInv, Moving, Rest, DmaIsr, StartedTx,
         StartedRx, Channel, Sound, Quiet, Empty, Out, Interrupts, ByIt, ByDma, fifos, thread
    <2>2. CASE /\ c = "rx"
               /\ ier' = ier
               /\ rif' = rif
               /\ chan' = Handled(c)
               /\ UNCHANGED <<asked, txPtr, dmaen>>
      BY <1>1, <1>2, <1>3, <1>4, <1>5, <1>6, <1>7, <2>2 DEF UInv, Moving, Rest, DmaIsr, StartedTx,
         StartedRx, Channel, Sound, Quiet, Empty, Out, Interrupts, ByIt, ByDma, fifos, thread
    <2>3. CASE c = "rx" /\ ier' = ier /\ Starts(Handled(c), rif) /\ StartedTx(Handled(c))
      BY <1>1, <1>2, <1>3, <1>4, <1>5, <1>6, <1>7, <2>3 DEF UInv, Moving, Rest, DmaIsr, StartedTx,
         StartedRx, Channel, Sound, Quiet, Empty, Out, Interrupts, ByIt, ByDma, fifos, thread
    <2>4. CASE c = "rx" /\ ier' = ier /\ Starts(Handled(c), rif) /\ StartedRx(Handled(c), rif)
      BY <1>1, <1>2, <1>3, <1>4, <1>5, <1>6, <1>7, <2>4 DEF UInv, Moving, Rest, DmaIsr, StartedTx,
         StartedRx, Channel, Sound, Quiet, Empty, Out, Interrupts, ByIt, ByDma, fifos, thread
    <2> QED BY <2>1, <2>2, <2>3, <2>4, <1>3 DEF DmaIsr, Callback
  <1>16. Raised' /\ TriggerRight' /\ OneCall'
    BY DEF UInv, Raised, DmaIsr, Handled, Callback, Starts, TransmitDma, ReceiveDma, Started,
       fifos, thread, TriggerRight, Interrupts, OneCall, tickVars
  <1> QED BY <1>8, <1>9, <1>10, <1>11, <1>12, <1>13, <1>14, <1>15, <1>16 DEF UInv

-----------------------------------------------------------------------------
(* The calls that wait. *)

LEMMA PolledTransmitKeeps ==
  ASSUME UInv, UsesApart, NEW n \in use.polled, PolledTransmit(n),
         UNCHANGED <<regs, thread, isr, arrived, use, dmaen, chan>>
  PROVE  UInv'
  <1>1. use \in Uses /\ TypeOK
    BY DEF UInv, Kept
  <1>2. n \in 0 .. CountRange - 1
    BY UartAssumption, <1>1
  <1>3. /\ Append(asked, n) \in Seq(0 .. CountRange - 1)
        /\ Len(Append(asked, n)) = Len(asked) + 1
        /\ Append(asked, n)[Len(asked) + 1] = n
    BY <1>1, <1>2, Seqs DEF TypeOK
  <1>4. TypeOK'
    <2>1. <<Len(asked) + 1, 1>> \in Nat \X Nat
      BY <1>1, Seqs DEF TypeOK
    <2> QED BY <1>1, <1>2, <1>3, <2>1 DEF TypeOK, PolledTransmit, regs, thread, isr, fifos
  <1>5. Rest'
    <2>1. ~Interrupts
      BY DEF Interrupts
    <2>2. Len(asked) \in Nat /\ ended \in Nat
      BY <1>1, Seqs DEF TypeOK
    <2>3. Quiet
      BY <2>1 DEF UInv, Rest, OneCall, PolledTransmit
    <2> QED
      BY <1>1, <1>2, <1>3, <2>1, <2>2, <2>3 DEF UInv, Rest, Quiet, Interrupts, PolledTransmit,
         regs, thread, isr, fifos
  <1>6. /\ Kept' /\ Chans' /\ Raised' /\ Starting' /\ Filling'
        /\ OneWay' /\ Moving' /\ TriggerRight' /\ OneCall'
    BY DEF UInv, Kept, Interrupts, PolledTransmit, Call, Start, Enter, regs, fifos, thread, isr,
       tickVars, Channels, Chans, Raised, Starting, ByIt, Quiet, Empty, Filling, Out, OneWay,
       Moving, ByDma, TriggerRight, OneCall
  <1> QED BY <1>4, <1>5, <1>6 DEF UInv

LEMMA PolledReceiveKeeps ==
  ASSUME UInv, UsesApart, NEW n \in use.polled, PolledReceive(n),
         UNCHANGED <<regs, thread, isr, arrived, use, dmaen, chan>>
  PROVE  UInv'
  <1>1. TypeOK'
    <2>1. use \in Uses /\ TypeOK
      BY DEF UInv, Kept
    <2>2. n \in 0 .. CountRange - 1
      BY UartAssumption, <2>1
    <2> QED BY <2>1, <2>2 DEF TypeOK, PolledReceive, regs, thread, isr, fifos, history
  <1>2. Kept'
    BY DEF UInv, Kept, Interrupts, TypeOK, UsesApart, Rest, ByIt, ByDma, Quiet, PolledReceive,
       Call, Start, Enter, regs, fifos, thread, isr, history, tickVars, Channels
  <1>3. OneCall'
    <2>1. n > 0
      BY UartAssumption DEF UInv, Kept
    <2>2. wait = "no" /\ wait' # "no"
      BY DEF PolledReceive, Call, Start, Enter
    <2> QED
      BY <2>1, <2>2 DEF UInv, OneCall, Interrupts, PolledReceive, regs, thread, isr, fifos,
         history
  <1>4. /\ Chans' /\ Raised' /\ Rest' /\ Starting'
        /\ Filling' /\ OneWay' /\ Moving' /\ TriggerRight'
    BY DEF UInv, Chans, PolledReceive, Call, Start, Enter, regs, fifos, thread, isr, history,
       Channels, Raised, Rest, Quiet, Out, Empty, Interrupts, Starting, ByIt, Filling, OneWay,
       Moving, ByDma, TriggerRight
  <1> QED BY <1>1, <1>2, <1>3, <1>4 DEF UInv

LEMMA PolledByteKeeps ==
  ASSUME UInv, UsesApart, PolledByte,
         UNCHANGED <<regs, thread, isr, arrived, use, dmaen, chan>>
  PROVE  UInv'
  <1>1. use \in Uses /\ TypeOK
    BY DEF UInv, Kept
  <1>2. ~Interrupts
    BY DEF UInv, Kept, Interrupts, Transmitting, Receiving, PolledByte
  <1>3. TypeOK'
    <2>1. NotFull => /\ Append(txFifo, txPtr) \in Seq(Nat \X Nat)
                     /\ Len(Append(txFifo, txPtr)) <= FifoDepth
      BY <1>1, Room DEF Byte
    <2>2. NextPtr \in Nat \X Nat
      BY <1>1 DEF TypeOK, NextPtr
    <2>3. txCount > 0 => txCount - 1 \in 0 .. CountRange - 1
      BY <1>1, Counts
    <2>4. NotFull
      BY <1>2 DEF UInv, OneCall, PolledByte, Flag, Transmitting, Receiving
    <2>5. txFifo' \in Seq(Nat \X Nat) /\ Len(txFifo') <= FifoDepth
      BY <2>1, <2>4 DEF PolledByte
    <2>6. txCount' \in 0 .. CountRange - 1 /\ txPtr' \in Nat \X Nat
      BY <2>2, <2>3 DEF PolledByte
    <2> QED BY <1>1, <2>5, <2>6 DEF TypeOK, PolledByte, regs, thread, isr, history
  <1>4. Rest'
    <2>1. Len(asked) \in Nat /\ ended \in Nat
      BY <1>1, Seqs DEF TypeOK
    <2>2. ~Quiet
      BY <1>2 DEF UInv, Rest, PolledByte, Transmitting
    <2>3. Len(asked) \in 1 .. Len(asked) => asked[Len(asked)] \in 0 .. CountRange - 1
      BY <1>1, ElementOfSeq DEF TypeOK
    <2>4. txCount \in Nat /\ (asked # << >> => asked[Len(asked)] \in Nat)
      BY <1>1, <2>1, <2>3, Counts, Seqs DEF TypeOK
    <2>5. asked # << >>
      BY <1>1, <2>1, <2>2, Seqs DEF UInv, Rest, Quiet, TypeOK
    <2> QED
      BY <1>1, <2>1, <1>2, <2>2, <2>3, <2>4, <2>5 DEF UInv, Rest, Quiet, Interrupts, PolledByte,
         Transmitting, regs, thread, isr, history
  <1>5. Starting'
    BY DEF UInv, Starting, ByIt, Quiet, Empty, Interrupts, Kept, PolledByte, Flag, Transmitting,
       Receiving, Again, Enter, regs, thread, isr, history
  <1>6. /\ Kept' /\ Chans' /\ Raised' /\ Filling'
        /\ OneWay' /\ Moving' /\ TriggerRight' /\ OneCall'
    BY DEF UInv, Kept, Interrupts, PolledByte, Flag, Transmitting, Receiving, Again, Enter, regs,
       thread, isr, history, tickVars, Channels, Chans, Raised, Filling, ByIt, Quiet, Out, Empty,
       OneWay, Moving, ByDma, TriggerRight, OneCall
  <1> QED BY <1>3, <1>4, <1>5, <1>6 DEF UInv

LEMMA PolledDoneKeeps ==
  ASSUME UInv, UsesApart, PolledDone,
         UNCHANGED <<regs, thread, isr, arrived, use, dmaen, chan>>
  PROVE  UInv'
  <1>1. use \in Uses /\ TypeOK
    BY DEF UInv, Kept
  <1>2. TypeOK'
    <2>1. ended + 1 \in Nat
      BY <1>1 DEF TypeOK
    <2> QED BY <1>1, <2>1 DEF TypeOK, PolledDone, regs, thread, isr, fifos
  <1>3. Rest'
    <2>1. Len(asked) \in Nat /\ ended \in Nat
      BY <1>1, Seqs DEF TypeOK
    <2>2. ~Interrupts
      BY DEF UInv, Kept, Interrupts, Transmitting, Receiving, PolledDone
    <2>3. ~Quiet
      BY <2>2 DEF UInv, Rest, PolledDone, Transmitting, TypeOK
    <2>4. Out
      BY <2>2 DEF UInv, OneCall, PolledDone, Flag, Transmitting, Receiving, Out, Empty
    <2> QED
      BY <1>1, <2>1, <2>2, <2>3, <2>4 DEF UInv, Rest, Quiet, Out, Empty, Interrupts, PolledDone,
         Transmitting, regs, thread, isr, fifos
  <1>4. Moving'
    BY DEF UInv, Moving, ByDma, Quiet, Out, Empty, Interrupts, Kept, PolledDone, Flag,
       Transmitting, Receiving, Stop, regs, fifos, thread, isr
  <1>5. /\ Kept' /\ Chans' /\ Raised' /\ Starting'
        /\ Filling' /\ OneWay' /\ TriggerRight' /\ OneCall'
    BY DEF UInv, Kept, Interrupts, PolledDone, Flag, Transmitting, Receiving, Stop, regs, fifos,
       thread, isr, tickVars, Channels, Chans, Raised, Starting, ByIt, Quiet, Empty, Filling, Out,
       OneWay, TriggerRight, OneCall
  <1> QED BY <1>2, <1>3, <1>4, <1>5 DEF UInv

LEMMA PolledReadKeeps ==
  ASSUME UInv, UsesApart, PolledRead,
         UNCHANGED <<regs, thread, isr, arrived, use, dmaen, chan>>
  PROVE  UInv'
  <1>1. TypeOK'
    <2>1. use \in Uses /\ TypeOK
      BY DEF UInv, Kept
    <2>2. ~Interrupts
      BY DEF UInv, Kept, Interrupts, Receiving, PolledRead
    <2>3. rxCount - 1 \in 0 .. CountRange - 1
      BY <2>1, <2>2, Counts DEF UInv, OneCall, PolledRead, Receiving
    <2>4. rxFifo # << >>
      BY <2>2 DEF UInv, OneCall, PolledRead, Flag, Transmitting, Receiving
    <2>5. Tail(rxFifo) \in Seq(Nat) /\ Len(Tail(rxFifo)) <= FifoDepth
      BY <2>1, <2>4, Taken
    <2>6. rxState' \in {"READY", "BUSY_RX"}
      BY <2>1 DEF PolledRead, TypeOK
    <2> QED
      BY <2>1, <2>2, <2>3, <2>4, <2>5, <2>6 DEF TypeOK, PolledRead, regs, thread, isr, history
  <1>2. TriggerRight'
    BY DEF UInv, TriggerRight, Interrupts, Kept, PolledRead, Flag, Transmitting, Receiving, Again,
       Stop, Enter, regs, thread, isr, history
  <1>3. /\ Kept' /\ Chans' /\ Raised' /\ Rest' /\ Starting'
        /\ Filling' /\ OneWay' /\ Moving' /\ OneCall'
    BY DEF UInv, Kept, Interrupts, PolledRead, Flag, Transmitting, Receiving, Again, Stop, Enter,
       regs, thread, isr, history, tickVars, Channels, Chans, Raised, Rest, Quiet, Out, Empty,
       Starting, ByIt, Filling, OneWay, Moving, ByDma, OneCall
  <1> QED BY <1>1, <1>2, <1>3 DEF UInv

LEMMA PolledNotKeeps ==
  ASSUME UInv, UsesApart, PolledNot,
         UNCHANGED <<regs, thread, isr, arrived, use, dmaen, chan>>
  PROVE  UInv'
  <1>1. use \in Uses /\ TypeOK
    BY DEF UInv, Kept
  <1>2. Len(asked) \in Nat /\ ended \in Nat
    BY <1>1, Seqs DEF TypeOK
  <1>3. ~Interrupts
    BY DEF UInv, Kept, Interrupts, Transmitting, Receiving, PolledNot
  <1>4. Transmitting => ~Quiet /\ asked # << >> /\ txCount <= asked[Len(asked)] /\ txCount \in Nat
    BY <1>1, <1>2, <1>3, Sizes, Seqs DEF UInv, Rest, Quiet, Transmitting, TypeOK
  <1>5. Transmitting => Len(asked) \in 1 .. Len(asked)
    BY <1>1, <1>2, <1>4, Seqs DEF TypeOK
  <1>6. Transmitting => asked[Len(asked)] \in 0 .. CountRange - 1
    BY <1>1, <1>5, ElementOfSeq DEF TypeOK
  <1>7. Transmitting => asked[Len(asked)] - txCount \in 0 .. CountRange - 1
    BY <1>1, <1>4, <1>6, Sizes
  <1>8. Transmitting =>
        LET new == [asked EXCEPT ![Len(asked)] = asked[Len(asked)] - txCount]
        IN  new \in Seq(0 .. CountRange - 1) /\ Len(new) = Len(asked)
    BY <1>1, <1>5, <1>7, ExceptSeq DEF TypeOK
  <1>9. TypeOK'
    <2>1. ended + 1 \in Nat
      BY <1>1 DEF TypeOK
    <2>2. CASE expired' /\ Transmitting
      BY <1>1, <1>2, <1>3, <1>4, <1>5, <1>6, <1>7, <1>8, <2>1, <2>2 DEF UInv, TypeOK, PolledNot,
         GiveUp, regs, thread, isr, fifos
    <2>3. CASE expired' /\ ~Transmitting
      BY <1>1, <1>2, <1>3, <1>4, <1>5, <1>6, <1>7, <1>8, <2>1, <2>3 DEF UInv, TypeOK, PolledNot,
         GiveUp, regs, thread, isr, fifos
    <2>4. CASE ~expired'
      BY <1>1, <1>2, <1>3, <1>4, <1>5, <1>6, <1>7, <1>8, <2>1, <2>4 DEF UInv, TypeOK, PolledNot,
         GiveUp, regs, thread, isr, fifos
    <2> QED BY <2>2, <2>3, <2>4
  <1>10. Rest'
    <2>1. ~Transmitting => gState = "READY"
      BY <1>1 DEF PolledNot, Transmitting, TypeOK
    <2> QED
      BY <1>1, <1>2, <1>3, <1>4, <1>5, <1>6, <1>7, <1>8, <2>1 DEF UInv, Rest, Quiet, Out, Empty,
         Interrupts, PolledNot, GiveUp, regs, thread, isr, fifos
  <1>11. Moving'
    BY DEF UInv, Moving, ByDma, Quiet, Out, Empty, Interrupts, Kept, PolledNot, Flag,
       Transmitting, Receiving, NotYet, CountTurn, AwaitEnd, GiveUp, regs, fifos, thread, isr
  <1>12. TriggerRight'
    BY DEF UInv, TriggerRight, Interrupts, Kept, PolledNot, Flag, Transmitting, Receiving, NotYet,
       CountTurn, AwaitEnd, GiveUp, regs, fifos, thread, isr
  <1>13. Kept' /\ Chans' /\ Raised' /\ Starting' /\ Filling' /\ OneWay' /\ OneCall'
    BY DEF UInv, Kept, Interrupts, PolledNot, Flag, Transmitting, Receiving, NotYet, CountTurn,
       AwaitEnd, GiveUp, regs, fifos, thread, isr, tickVars, Channels, Chans, Raised, Starting,
       ByIt, Quiet, Empty, Filling, Out, OneWay, OneCall
  <1> QED BY <1>9, <1>10, <1>11, <1>12, <1>13 DEF UInv

(* The initial states. *)

LEMMA InitInv == ASSUME PolledInit, UsesApart PROVE UInv
  <1>1. TypeOK
    BY UartAssumption DEF PolledInit, DmaInit, Init, TypeOK
  <1>2. Kept /\ Chans /\ Raised /\ Rest
    <2>1. Kept BY DEF PolledInit, DmaInit, Init, TickInit, Kept, Channels, Interrupts
    <2>2. Chans
      <3> DEFINE r == [left |-> 0, done |-> FALSE, ie |-> FALSE, on |-> FALSE]
      <3>1. r \in Channel /\ Sound(r) BY DEF Channel, Sound
      <3>2. /\ chan = [c \in Channels |-> r]
            /\ dmaen = FALSE
            /\ ipc = "idle"
        BY DEF PolledInit, DmaInit, Init
      <3> QED BY <3>1, <3>2 DEF Chans
    <2>3. Raised BY DEF PolledInit, DmaInit, Init, Raised
    <2>4. asked = << >> /\ ended = 0 /\ Len(asked) = 0 BY DEF PolledInit, DmaInit, Init
    <2>5. ~chan["tx"].on BY DEF PolledInit, DmaInit, Channels
    <2>6. Rest BY <2>4, <2>5 DEF PolledInit, DmaInit, Init, TickInit, Rest, Quiet, Out, Empty
    <2> QED BY <2>1, <2>2, <2>3, <2>6
  <1>3. Starting /\ Filling /\ OneWay /\ Moving
    BY <1>1 DEF PolledInit, DmaInit, Init, Starting, Filling, OneWay, Moving, ByIt, ByDma, Quiet,
       Channels
  <1>4. TriggerRight /\ OneCall
    BY DEF PolledInit, DmaInit, Init, TriggerRight, OneCall
  <1> QED BY <1>1, <1>2, <1>3, <1>4 DEF UInv

-----------------------------------------------------------------------------
(* Every step keeps the invariant; the theorems. *)

LEMMA DmaNextKeeps ==
  ASSUME UInv, Prompt, UsesApart, DmaNext, UNCHANGED <<tickVars, calls, cut>>
  PROVE  UInv'
  <1>1. UNCHANGED <<use, tickVars, calls, cut>> BY DEF DmaNext
  <1>2. CASE ByInterrupt \/ ReceiveByInterrupt
    BY <1>1, <1>2, ByInterruptKeeps, ReceiveByInterruptKeeps
  <1>3. CASE Transmit /\ UNCHANGED <<dmaen, chan>>
    BY <1>1, <1>3, FcrReadKeeps, FcrWriteKeeps, IcrWriteKeeps, IerWriteKeeps, CountReadKeeps,
       CountWriteKeeps, TbrWriteKeeps, CheckKeeps DEF Transmit
  <1>4. CASE IsrIt /\ UNCHANGED <<dmaen, chan>>
    BY <1>1, <1>4, IsrTxsKeeps, IsrPushKeeps, IsrTcKeeps, IsrEnterKeeps, IsrRxKeeps, IsrReadKeeps,
       IsrReadLastKeeps, IsrReadDoneKeeps DEF IsrIt
  <1>5. CASE (Load \/ SentDma \/ Arrive) /\ UNCHANGED <<dmaen, chan>>
    BY <1>1, <1>5, LoadKeeps, SentDmaKeeps, ArriveKeeps
  <1>6. CASE DmaStart \/ DmaTx \/ DmaRx
    BY <1>1, <1>6, DmaStartKeeps, DmaTxKeeps, DmaRxKeeps
  <1>7. CASE IsrDma
    BY <1>1, <1>7, IsrTxsDmaKeeps, IsrTcDmaKeeps, DmaIsrEnterKeeps, DmaIsrKeeps DEF IsrDma
  <1> QED BY <1>2, <1>3, <1>4, <1>5, <1>6, <1>7 DEF DmaNext

LEMMA PolledKeeps ==
  ASSUME UInv, UsesApart, Polled
  PROVE  UInv'
  <1>1. UNCHANGED <<regs, thread, isr, arrived, use, dmaen, chan>> BY DEF Polled
  <1> QED
    BY <1>1, PolledTransmitKeeps, PolledReceiveKeeps, PolledByteKeeps, PolledDoneKeeps,
       PolledReadKeeps, PolledNotKeeps DEF Polled

LEMMA StutterKeeps ==
  ASSUME UInv, UNCHANGED pvars
  PROVE  UInv'
  <1> USE DEF UInv, pvars, dvars, vars, tickVars, handle, regs, fifos, thread, isr, history
  <1>1. TypeOK' BY DEF TypeOK
  <1>2. Kept' BY DEF Kept, Interrupts
  <1>3. Chans' BY DEF Chans
  <1>4. Raised' BY DEF Raised
  <1>5. Rest' BY DEF Rest, Quiet, Out, Empty, Interrupts
  <1>6. Starting' BY DEF Starting, ByIt, Quiet, Empty, Interrupts
  <1>7. Filling' BY DEF Filling, ByIt, Quiet, Out, Empty, Interrupts
  <1>8. OneWay' BY DEF OneWay, ByIt, Quiet, Interrupts
  <1>9. Moving' BY DEF Moving, ByDma, Quiet, Out, Empty, Interrupts
  <1>10. TriggerRight' BY DEF TriggerRight, Interrupts
  <1>11. OneCall' BY DEF OneCall, Interrupts
  <1> QED BY <1>1, <1>2, <1>3, <1>4, <1>5, <1>6, <1>7, <1>8, <1>9, <1>10, <1>11

\* What holds in every state of the driver, whatever the sizes.
THEOREM Invariant ==
  ASSUME Prompt, UsesApart
  PROVE  PolledSpec => []UInv
  <1>1. PolledInit => UInv BY InitInv
  <1>2. UInv /\ [PolledNext]_pvars => UInv'
    BY DmaNextKeeps, PolledKeeps, StutterKeeps DEF PolledNext
  <1> QED BY <1>1, <1>2, PTL DEF PolledSpec

\* Types: no count of the driver leaves its 16 bits (XferCount), no FIFO overflows.
THEOREM UartTypes ==
  ASSUME Prompt, UsesApart
  PROVE  PolledSpec => []TypeOK
  <1>1. UInv => TypeOK BY DEF UInv
  <1> QED BY <1>1, Invariant, PTL

\* The application is told that a transfer has ended only when its last byte has left, by
\* whichever of the three ways it was made.
THEOREM Ended ==
  ASSUME Prompt, UsesApart
  PROVE  PolledSpec => []EndedWhenSent
  <1>1. UInv => EndedWhenSent
    BY DEF UInv, Rest, Quiet, Out, Empty, EndedWhenSent, Interrupts, Kept
  <1> QED BY <1>1, Invariant, PTL

\* A channel of the DMA controller that has moved its last byte raises its interrupt.
THEOREM ChannelsServed ==
  ASSUME Prompt, UsesApart
  PROVE  PolledSpec => []DmaServed
  <1>1. UInv => DmaServed BY DEF UInv, Chans, Sound, DmaServed
  <1> QED BY <1>1, Invariant, PTL

\* The byte that completes a reception raises its interrupt: the trigger level is kept in step
\* with what is still to be received.
THEOREM ReceptionServed ==
  ASSUME Prompt, UsesApart
  PROVE  PolledSpec => []RxServed
  <1>1. ASSUME UInv, rxState = "BUSY_RX", Interrupts, Len(rxFifo) >= rxCount
        PROVE  "RXRD" \in IFM
    <2>1. "RXRD" \in ier /\ rxtl = Trigger(rxCount) /\ rxCount > 0
      BY <1>1 DEF UInv, TriggerRight
    <2>2. rxCount \in Nat /\ TriggerHigh \in Nat /\ Len(rxFifo) \in Nat
      BY <1>1, Sizes, Seqs DEF UInv, Kept, TypeOK
    <2>3. Len(rxFifo) >= rxtl BY <1>1, <2>1, <2>2 DEF Trigger
    <2> QED BY <2>1, <2>3 DEF IFM, RxReady
  <1>2. UInv => RxServed BY <1>1 DEF RxServed, Interrupts
  <1> QED BY <1>2, Invariant, PTL

-----------------------------------------------------------------------------
(* Quotient and remainder. *)

LEMMA ModDef ==
  ASSUME NEW a \in Int, NEW p \in Nat \ {0}
  PROVE  /\ a % p \in 0 .. p - 1
         /\ a \div p \in Int
         /\ a = (a \div p) * p + (a % p)
  OBVIOUS

LEMMA Mult ==
  ASSUME NEW k \in Int, NEW l \in Int, NEW p \in Nat \ {0}, k < l
  PROVE  k * p + p <= l * p
  OBVIOUS

\* What lies above m * p is in the m-th interval of p or after it.
LEMMA Above ==
  ASSUME NEW p \in Nat \ {0}, NEW k \in Int, NEW m \in Int, NEW r \in Int,
         r < p, k * p + r >= m * p
  PROVE  /\ k >= m
         /\ k * p >= m * p
  <1>1. k >= m
    <2> SUFFICES ASSUME k < m PROVE FALSE OBVIOUS
    <2>1. k * p + p <= m * p BY Mult
    <2>2. k * p \in Int /\ m * p \in Int OBVIOUS
    <2> QED BY <2>1, <2>2
  <1>2. k > m => m * p + p <= k * p BY Mult
  <1>3. k * p \in Int /\ m * p \in Int OBVIOUS
  <1> QED BY <1>1, <1>2, <1>3

-----------------------------------------------------------------------------
(* The invariant. *)

\* The longest timeout that does not overflow end.
Longest == (Turns - 1) * Turn

\* The turns to count in all.
Rounds == EndOf(start, timeout) \div Turn

TickType ==
  /\ start \in 0 .. Turn - 1 /\ timeout \in 0 .. Longest
  /\ now \in Nat
  /\ wait \in {"no", "turns", "end"} /\ turns \in Int

\* Turns counted have passed, and half of the next when the counter has been seen there.
Counted ==
  /\ wait = "turns" => /\ turns \in 1 .. Rounds
                       /\ now >= (Rounds - turns) * Turn + (IF bottom THEN Half ELSE 0)
  /\ wait = "end" => now >= Rounds * Turn

\* A wait under way has not expired.
OneEnd == expired => wait = "no"

TInv == TickType /\ Counted /\ OneEnd /\ NotEarly

LEMMA TurnNat == Turn \in Nat \ {0}
  BY SysTickAssumption DEF Turn

LEMMA HalfTurn == Half \in Nat \ {0} /\ Turn = Half + Half
  BY SysTickAssumption DEF Turn

LEMMA LongestNat == Longest \in Nat
  BY TurnNat, SysTickAssumption DEF Longest

\* Places counted in whole turns, k * p and m * p taken as they are.
LEMMA LinearPlace ==
  ASSUME NEW s \in Int, NEW t \in Int, NEW c \in Int, NEW d \in Int,
         NEW qp \in Int, NEW up \in Int, NEW w \in Int,
         s - t = qp + c, s - c = up + d, w = up - qp
  PROVE  t = w + d
  OBVIOUS

LEMMA LinearEnd ==
  ASSUME NEW p \in Nat \ {0}, NEW s \in 0 .. p - 1, NEW t \in Int, NEW n \in Int,
         NEW c \in Int, NEW f \in Int, NEW w \in Int, NEW ip \in Int,
         p - 1 - s + t = ip + f, s - n = c - w, n >= ip
  PROVE  /\ w + (p - 1 - c) >= ip
         /\ c <= p - 1 - f /\ w >= ip => n >= t
  OBVIOUS

\* end does not overflow for the timeouts allowed.
LEMMA EndExact ==
  ASSUME NEW s \in 0 .. Turn - 1, NEW t \in 0 .. Longest
  PROVE  /\ EndOf(s, t) = Turn - 1 - s + t
         /\ EndOf(s, t) \in Nat
         /\ EndOf(s, t) \div Turn \in Nat
         /\ EndOf(s, t) % Turn \in 0 .. Turn - 1
         /\ EndOf(s, t) = (EndOf(s, t) \div Turn) * Turn + (EndOf(s, t) % Turn)
  <1> DEFINE e == Turn - 1 - s + t
  <1>1. Longest = Turns * Turn - Turn BY TurnNat, SysTickAssumption DEF Longest
  <1>2. Turns * Turn \in Nat \ {0} BY TurnNat, SysTickAssumption
  <1>3. e \in 0 .. Turns * Turn - 1 BY <1>1, <1>2, TurnNat
  <1>4. e % (Turns * Turn) = e
    <2> HIDE DEF e
    <2> DEFINE m == Turns * Turn
    <2>1. m \in Nat \ {0} /\ e \in 0 .. m - 1 BY <1>2, <1>3
    <2> HIDE DEF m
    <2>2. e % m = e BY <2>1
    <2> QED BY <2>2 DEF m
  <1>5. EndOf(s, t) = e BY <1>4 DEF EndOf
  <1>6. e \in Nat BY <1>2, <1>3
  <1> HIDE DEF e
  <1>7. e \div Turn >= 0 BY <1>6, TurnNat
  <1>8. e \in Int BY <1>6
  <1>9. /\ e % Turn \in 0 .. Turn - 1 /\ e \div Turn \in Int
        /\ e = (e \div Turn) * Turn + (e % Turn)
    BY <1>8, TurnNat, ModDef
  <1>10. EndOf(s, t) = Turn - 1 - s + t BY <1>5 DEF e
  <1>11. e \div Turn \in Nat BY <1>7, <1>9
  <1> QED BY <1>5, <1>6, <1>9, <1>10, <1>11

\* The counter tells where in its turn since start the clock is.
LEMMA CounterPlace ==
  ASSUME NEW t \in Int, NEW s \in Int
  PROVE  \E k \in Int, r \in 0 .. Turn - 1 :
             t = k * Turn + r /\ (s - ((s - t) % Turn)) % Turn = r
  <1> DEFINE c == (s - t) % Turn
             q == (s - t) \div Turn
             d == (s - c) % Turn
             u == (s - c) \div Turn
  <1>1. c \in 0 .. Turn - 1 /\ q \in Int /\ s - t = q * Turn + c
    <2>1. s - t \in Int OBVIOUS
    <2> QED BY <2>1, ModDef, TurnNat
  <1>2. d \in 0 .. Turn - 1 /\ u \in Int /\ s - c = u * Turn + d
    <2>1. s - c \in Int BY <1>1
    <2> QED BY <2>1, ModDef, TurnNat
  <1> HIDE DEF c, q, d, u
  <1>3. t = (u - q) * Turn + d
    <2>1. (u - q) * Turn = u * Turn - q * Turn BY <1>1, <1>2, TurnNat
    <2>2. u * Turn \in Int /\ q * Turn \in Int BY <1>1, <1>2, TurnNat
    <2>3. c \in Int /\ d \in Int BY <1>1, <1>2, TurnNat
    <2>4. (u - q) * Turn \in Int BY <2>1, <2>2
    <2> QED BY <1>1, <1>2, <2>1, <2>2, <2>3, <2>4, LinearPlace
  <1> DEFINE k == u - q
  <1>4. k \in Int /\ t = k * Turn + d BY <1>1, <1>2, <1>3
  <1>5. (s - ((s - t) % Turn)) % Turn = d BY DEF d, c
  <1> HIDE DEF k
  <1> QED BY <1>2, <1>4, <1>5

-----------------------------------------------------------------------------
(* The steps. *)

LEMMA EnterKeeps ==
  ASSUME start' \in 0 .. Turn - 1, timeout' \in 0 .. Longest, now' \in Nat,
         turns' = EndOf(start', timeout') \div Turn, bottom' = FALSE, expired' = FALSE,
         wait' = IF turns' > 0 THEN "turns" ELSE "end"
  PROVE  TInv'
  <1> DEFINE R == EndOf(start', timeout') \div Turn
  <1>1. R \in Nat BY EndExact
  <1>2. Rounds' = R /\ turns' = R BY DEF Rounds, EndOf, Turn
  <1> HIDE DEF R
  <1>3. R - R = 0 /\ 0 * Turn = 0 BY <1>1, TurnNat
  <1>4. TickType' BY <1>1, <1>2 DEF TickType
  <1>5. Counted'
    <2>1. wait' = "turns" => turns' <= Rounds' /\ now' >= (Rounds' - turns') * Turn + 0
      BY <1>1, <1>2, <1>3
    <2>2. wait' = "end" => now' >= Rounds' * Turn
      <3> SUFFICES ASSUME wait' = "end" PROVE now' >= Rounds' * Turn OBVIOUS
      <3>1. R = 0 BY <1>1, <1>2
      <3> QED BY <1>2, <1>3, <3>1
    <2> QED BY <2>1, <2>2 DEF Counted, Turn
  <1> QED BY <1>4, <1>5 DEF TInv, OneEnd, NotEarly

LEMMA StopKeeps == ASSUME Stop PROVE TInv'
  <1>1. Longest \in Nat BY LongestNat
  <1>2. 0 \in 0 .. Turn - 1 BY TurnNat
  <1> QED BY <1>1, <1>2, TurnNat DEF Stop, TInv, TickType, Counted, OneEnd, NotEarly

LEMMA PassGrows == ASSUME TickType, Pass PROVE now' \in Nat /\ now' > now
  BY SysTickAssumption DEF TickType, Pass

LEMMA CountKeeps == ASSUME TInv, CountTurn PROVE TInv'
  <1> DEFINE m == Rounds - turns
  <1>1. TickType /\ Rounds \in Nat /\ Rounds' = Rounds
    BY EndExact DEF TInv, TickType, CountTurn, Rounds, EndOf, Turn
  <1>2. now' \in Nat /\ now' > now BY PassGrows, <1>1 DEF CountTurn
  <1>3. start \in Int /\ now' \in Int BY <1>1, <1>2, TurnNat DEF TickType
  <1> DEFINE place == (start - ((start - now') % Turn)) % Turn
  <1>4. PICK k \in Int, r \in 0 .. Turn - 1 : now' = k * Turn + r /\ place = r
    BY <1>3, CounterPlace
  <1>5. bottom' <=> place >= Half BY DEF CountTurn, Negative, Counter
  <1> HIDE DEF place
  <1>6. now' = k * Turn + r /\ (bottom' <=> r >= Half) BY <1>4, <1>5
  <1>7. m \in Nat /\ now >= m * Turn + (IF bottom THEN Half ELSE 0) /\ turns \in Int
    BY <1>1 DEF TInv, Counted, CountTurn, TickType
  <1>8. m * Turn \in Int /\ k * Turn \in Int /\ r \in Int /\ r < Turn /\ now \in Int
    BY <1>1, <1>7, TurnNat DEF TickType
  <1> HIDE DEF m
  <1>9. now' >= m * Turn BY <1>2, <1>7, <1>8, HalfTurn
  <1>10. k >= m /\ k * Turn >= m * Turn BY <1>6, <1>7, <1>8, <1>9, Above, TurnNat
  <1>11. turns \in 1 .. Rounds BY <1>1 DEF TInv, Counted, CountTurn, TickType
  <1>12. TickType'
    <2>1. turns' \in Int BY <1>7 DEF CountTurn
    <2> QED BY <2>1, <1>1, <1>2 DEF CountTurn, TickType
  <1>13. OneEnd' /\ NotEarly'
    <2>1. ~expired /\ expired' = expired BY DEF TInv, OneEnd, CountTurn
    <2> QED BY <2>1 DEF OneEnd, NotEarly
  <1>14. CASE bottom /\ ~bottom'
    <2>1. k # m BY <1>2, <1>6, <1>7, <1>8, <1>14, HalfTurn
    <2>2. m * Turn + Turn <= k * Turn BY <2>1, <1>7, <1>10, Mult, TurnNat
    <2>3. now' >= (m + 1) * Turn
      <3>1. (m + 1) * Turn = m * Turn + Turn BY <1>7, TurnNat
      <3> QED BY <3>1, <2>2, <1>6, <1>8, TurnNat
    <2>4. turns' = turns - 1 BY <1>14 DEF CountTurn
    <2>5. Rounds - turns' = m + 1 BY <2>4, <1>1, <1>7 DEF m
    <2>6. turns' = 0 => Rounds = m + 1 BY <2>5, <1>1, <1>7
    <2>7. wait' = "turns" =>
            /\ turns' \in 1 .. Rounds'
            /\ now' >= (Rounds' - turns') * Turn + (IF bottom' THEN Half ELSE 0)
      <3> SUFFICES ASSUME wait' = "turns"
                   PROVE  /\ turns' \in 1 .. Rounds'
                          /\ now' >= (Rounds' - turns') * Turn + 0
        BY <1>14
      <3>1. turns' > 0 BY DEF CountTurn
      <3>2. turns' \in 1 .. Rounds' BY <3>1, <2>4, <1>1, <1>11
      <3>3. (m + 1) * Turn \in Int BY <1>7, TurnNat
      <3>4. now' >= (m + 1) * Turn + 0 BY <3>3, <2>3, <1>2
      <3> QED BY <3>2, <3>4, <2>5, <1>1
    <2>8. wait' = "end" => now' >= Rounds' * Turn
      <3>1. wait' = "end" => turns' = 0 BY <2>4, <1>11 DEF CountTurn
      <3> QED BY <3>1, <2>3, <2>6, <1>1
    <2>9. Counted' BY <2>7, <2>8 DEF Counted
    <2> QED BY <2>9, <1>12, <1>13 DEF TInv
  <1>15. CASE ~(bottom /\ ~bottom')
    <2>1. turns' = turns BY <1>15 DEF CountTurn
    <2>2. now' >= m * Turn + (IF bottom' THEN Half ELSE 0)
      BY <1>6, <1>8, <1>10, <1>9, HalfTurn
    <2>3. Rounds - turns' = m BY <2>1 DEF m
    <2>4. wait' = "turns" BY <2>1, <1>11 DEF CountTurn
    <2>5. turns' \in 1 .. Rounds' BY <2>1, <1>1, <1>11
    <2>6. now' >= (Rounds' - turns') * Turn + (IF bottom' THEN Half ELSE 0)
      BY <2>2, <2>3, <1>1
    <2>7. Counted' BY <2>4, <2>5, <2>6 DEF Counted
    <2> QED BY <2>7, <1>12, <1>13 DEF TInv
  <1> QED BY <1>14, <1>15

LEMMA AwaitKeeps == ASSUME TInv, AwaitEnd PROVE TInv'
  <1>1. TickType /\ Rounds \in Nat /\ Rounds' = Rounds
    BY EndExact DEF TInv, TickType, AwaitEnd, Rounds, EndOf, Turn
  <1>2. now' \in Nat /\ now' > now BY PassGrows, <1>1 DEF AwaitEnd
  <1>3. now >= Rounds * Turn /\ start \in 0 .. Turn - 1 /\ timeout \in Int /\ now \in Int
    BY <1>1 DEF TInv, Counted, AwaitEnd, TickType
  <1> DEFINE c == (start - now') % Turn
             q == (start - now') \div Turn
             e == EndOf(start, timeout)
  <1>4. c \in 0 .. Turn - 1 /\ q \in Int /\ start - now' = q * Turn + c
    <2>1. start - now' \in Int BY <1>2, <1>3
    <2> QED BY <2>1, ModDef, TurnNat
  <1>5. /\ e = Turn - 1 - start + timeout /\ e = Rounds * Turn + (e % Turn)
        /\ e % Turn \in 0 .. Turn - 1
    BY <1>1, EndExact DEF TickType, Rounds
  <1>6. expired' => c <= Turn - 1 - (e % Turn)
    BY DEF AwaitEnd, Counter, EndTick
  <1>7. expired' => now' >= timeout
    <2> DEFINE f == e % Turn
    <2>0. f \in 0 .. Turn - 1 /\ e = Rounds * Turn + f /\ (expired' => c <= Turn - 1 - f)
      BY <1>5, <1>6
    <2> HIDE DEF c, q, e, f
    <2> DEFINE nq == 0 - q
    <2>1. /\ nq * Turn = 0 - q * Turn /\ q * Turn \in Int /\ Rounds * Turn \in Int
          /\ nq \in Int
      BY <1>1, <1>4, TurnNat
    <2> HIDE DEF nq
    <2> DEFINE w == nq * Turn
               ip == Rounds * Turn
    <2>2. w \in Int /\ ip \in Int /\ c \in Int /\ f \in Int /\ now' \in Int
      BY <2>0, <2>1, <1>2, <1>4, TurnNat
    <2>3. Turn - 1 - start + timeout = ip + f /\ start - now' = c - w /\ now' >= ip
      <3>1. start - now' = c - w BY <1>4, <2>1, <2>2
      <3>2. now' >= ip BY <1>2, <1>3, <2>2
      <3> QED BY <3>1, <3>2, <2>0, <1>5 DEF e
    <2>4. /\ w + (Turn - 1 - c) >= ip
          /\ c <= Turn - 1 - f /\ w >= ip => now' >= timeout
      <3> HIDE DEF w, ip
      <3> QED BY <2>2, <2>3, <1>3, LinearEnd, TurnNat
    <2>5. w >= ip
      <3> DEFINE r == Turn - 1 - c
      <3>1. r \in Int /\ r < Turn BY <1>4, TurnNat
      <3>2. nq * Turn + r >= Rounds * Turn BY <2>4
      <3> HIDE DEF r
      <3> QED BY <3>1, <3>2, <2>1, <1>1, Above, TurnNat
    <2> QED BY <2>0, <2>4, <2>5
  <1>8. expired' \in BOOLEAN /\ wait' = (IF expired' THEN "no" ELSE "end") /\ timeout' = timeout
    BY DEF AwaitEnd
  <1>9. now' >= Rounds * Turn
    <2>1. Rounds * Turn \in Int BY <1>1, TurnNat
    <2> QED BY <2>1, <1>2, <1>3
  <1> QED BY <1>1, <1>2, <1>7, <1>8, <1>9
       DEF TInv, TickType, Counted, OneEnd, NotEarly, AwaitEnd

-----------------------------------------------------------------------------
(* The theorem. *)

LEMMA InitKeeps == ASSUME PolledInit PROVE TInv
  <1>1. Longest \in Nat BY LongestNat
  <1>2. 0 \in 0 .. Turn - 1 BY TurnNat
  <1> QED BY <1>1, <1>2, LongestNat
       DEF PolledInit, TickInit, TInv, TickType, Counted, OneEnd, NotEarly

\* What the UART does with the clock.
LEMMA PolledUsesTick ==
  ASSUME [PolledNext]_pvars
  PROVE  \/ Start \/ (wait # "no" /\ Again) \/ Stop \/ CountTurn \/ AwaitEnd
         \/ UNCHANGED tickVars
  <1>1. CASE DmaNext /\ UNCHANGED <<tickVars, calls, cut>> BY <1>1
  <1>2. CASE Polled
    <2>1. CASE \E n \in use.polled : PolledTransmit(n) \/ PolledReceive(n)
      <3>1. Start BY <2>1 DEF PolledTransmit, PolledReceive, Call
      <3> QED BY <3>1
    <2>2. CASE PolledByte \/ PolledDone \/ PolledRead \/ PolledNot
      BY <2>2 DEF PolledByte, PolledDone, PolledRead, PolledNot, NotYet, Transmitting, Receiving
    <2> QED BY <1>2, <2>1, <2>2 DEF Polled
  <1>3. CASE UNCHANGED pvars BY <1>3 DEF pvars
  <1> QED BY <1>1, <1>2, <1>3 DEF PolledNext

LEMMA NextKeeps == ASSUME TInv, [PolledNext]_pvars PROVE TInv'
  <1>1. CASE Start
    <2>1. start' \in 0 .. Turn - 1 /\ timeout' \in 0 .. Longest /\ now' \in Nat
      BY <1>1, SysTickAssumption DEF Start, Longest
    <2> QED BY <1>1, <2>1, EnterKeeps DEF Start, Enter
  <1>2. CASE Again
    <2>1. start' \in 0 .. Turn - 1 /\ timeout' \in 0 .. Longest /\ now' \in Nat
      BY <1>2 DEF Again, TInv, TickType
    <2> QED BY <1>2, <2>1, EnterKeeps DEF Again, Enter
  <1>3. CASE Stop BY <1>3, StopKeeps
  <1>4. CASE CountTurn BY <1>4, CountKeeps
  <1>5. CASE AwaitEnd BY <1>5, AwaitKeeps
  <1>6. CASE UNCHANGED tickVars
    BY <1>6 DEF tickVars, TInv, TickType, Counted, OneEnd, NotEarly, Rounds, EndOf, Turn
  <1> QED BY <1>1, <1>2, <1>3, <1>4, <1>5, <1>6, PolledUsesTick

\* No call that polls returns HAL_TIMEOUT before its timeout has passed since its start, for any
\* counter, timeout and reads however far apart (systick_poll_timeout).
THEOREM TimeoutNotEarly == PolledSpec => []NotEarly
  <1>1. PolledInit => TInv BY InitKeeps
  <1>2. TInv /\ [PolledNext]_pvars => TInv' BY NextKeeps
  <1>3. TInv => NotEarly BY DEF TInv
  <1> QED BY <1>1, <1>2, <1>3, PTL DEF PolledSpec

-----------------------------------------------------------------------------
(* The bound on the wait.  Between two reads less than a third of a turn passes, up to one     *)
(* tick: a caller that reads as seldom as twice a turn may wait a little longer.               *)
ReadOften == 3 * Stride <= Turn + 1

\* Where in its turn the counter stands at the end.
EndPlace == EndOf(start, timeout) % Turn

Turned == Rounds - turns

\* Where the turn began from which the turns were counted: the one the wait was entered in, or,
\* when that ended before the first read, the next.
First == entered - (entered % Turn) + Turned * Turn

Counting(p) ==
  \/ p = First
  \/ p = First + Turn /\ entered % Turn >= Turn - Stride

\* In the loop that counts turns the counter has not been read yet, or the half it is in is known;
\* in the loop that waits for the end it has not been passed by a read.
BInv ==
  /\ entered \in Nat
  /\ wait # "no" \/ expired => turns \in 0 .. Rounds /\ EndPlace + Stride <= Turn
  /\ wait = "turns" =>
       \/ now = entered /\ ~bottom /\ turns = Rounds
       \/ \E p \in Int : /\ Counting(p) /\ now - p \in 0 .. Turn - 1
                         /\ bottom <=> now - p >= Half
  /\ wait = "end" =>
       turns = 0 /\ \E p \in Int : /\ Counting(p) /\ now - p >= 0
                                   /\ now - p <= start + EndPlace \/ now - p <= Stride - 1
  /\ expired =>
       turns = 0 /\ \E p \in Int : /\ Counting(p)
                                   /\ \/ now - p <= start + EndPlace + Stride
                                      \/ now - p <= 2 * Stride - 1

LEMMA StrideIs ==
  /\ Stride \in Nat \ {0} /\ Stride <= Half /\ Half \in Nat \ {0} /\ Turn = Half + Half
  /\ Turn \in Nat \ {0}
  BY SysTickAssumption, TurnNat, HalfTurn

\* The remainder is the only one.
LEMMA ModUnique ==
  ASSUME NEW p \in Nat \ {0}, NEW a \in Int, NEW k \in Int, NEW r \in 0 .. p - 1, a = k * p + r
  PROVE  a % p = r
  <1> DEFINE q == a \div p
             c == a % p
  <1>1. c \in 0 .. p - 1 /\ q \in Int /\ a = q * p + c BY ModDef
  <1> HIDE DEF q, c
  <1>2. q * p \in Int /\ k * p \in Int BY <1>1
  <1>3. q * p + c >= k * p /\ k * p + r >= q * p BY <1>1, <1>2
  <1>4. q * p >= k * p /\ k * p >= q * p BY <1>1, <1>3, Above
  <1>5. c = r BY <1>1, <1>2, <1>4
  <1> QED BY <1>5 DEF c

\* The counter d ticks after the beginning of a turn.
LEMMA PlaceAt ==
  ASSUME NEW t \in Int, NEW s \in Int, NEW k \in Int, NEW d \in 0 .. Turn - 1, t = k * Turn + d
  PROVE  (s - ((s - t) % Turn)) % Turn = d
  <1> DEFINE c == (s - t) % Turn
             q == (s - t) \div Turn
  <1>1. c \in 0 .. Turn - 1 /\ q \in Int /\ s - t = q * Turn + c
    <2>1. s - t \in Int OBVIOUS
    <2> QED BY <2>1, ModDef, TurnNat
  <1>2. (s - c) % Turn = d
    <2> HIDE DEF c, q
    <2>1. q * Turn \in Int /\ k * Turn \in Int /\ (q + k) * Turn = q * Turn + k * Turn
      BY <1>1, TurnNat
    <2>2. s - c = (q + k) * Turn + d
      <3> DEFINE v == q * Turn
                 w == k * Turn
      <3>1. v \in Int /\ w \in Int /\ s - t = v + c /\ t = w + d /\ c \in Int
        BY <1>1, <2>1, TurnNat
      <3>2. d \in Int BY TurnNat
      <3> HIDE DEF v, w
      <3>3. s - c = v + w + d BY <3>1, <3>2
      <3> QED BY <2>1, <3>3 DEF v, w
    <2>3. s - c \in Int /\ q + k \in Int BY <1>1, TurnNat
    <2> QED BY <2>2, <2>3, ModUnique, TurnNat
  <1> QED BY <1>2

LEMMA CounterAt ==
  ASSUME NEW t \in Int, NEW s \in 0 .. Turn - 1, NEW k \in Int, NEW d \in s + 1 .. s + Turn,
         t = k * Turn + d
  PROVE  (s - t) % Turn = s + Turn - d
  <1>1. k * Turn \in Int /\ (0 - k - 1) * Turn = 0 - k * Turn - Turn BY TurnNat
  <1>2. s + Turn - d \in 0 .. Turn - 1 /\ s - t \in Int /\ 0 - k - 1 \in Int BY TurnNat
  <1>3. s - t = (0 - k - 1) * Turn + (s + Turn - d)
    <2> DEFINE w == k * Turn
    <2>1. w \in Int /\ t = w + d /\ s \in Int /\ d \in Int BY <1>1, TurnNat
    <2> HIDE DEF w
    <2>2. s - t = (0 - w - Turn) + (s + Turn - d) BY <2>1, TurnNat
    <2> QED BY <1>1, <2>2 DEF w
  <1> QED BY <1>2, <1>3, ModUnique, TurnNat

LEMMA CountingIs ==
  ASSUME entered \in Nat, Turned \in Int
  PROVE  /\ First \in Int /\ entered % Turn \in 0 .. Turn - 1
         /\ Turned * Turn \in Int
         /\ \A p \in Int : Counting(p) => \E k \in Int : p = k * Turn
  <1> DEFINE q == entered \div Turn
             r == entered % Turn
             v == q * Turn
             w == Turned * Turn
  <1>1. r \in 0 .. Turn - 1 /\ q \in Int /\ entered = v + r
    <2>1. entered \in Int OBVIOUS
    <2> QED BY <2>1, ModDef, TurnNat
  <1>2. v \in Int /\ w \in Int BY <1>1, TurnNat
  <1>3. First = v + w
    <2>1. First = entered - r + w BY DEF First
    <2>2. r \in Int BY <1>1, TurnNat
    <2> HIDE DEF v, w, r
    <2> QED BY <1>1, <1>2, <2>1, <2>2
  <1>4. (q + Turned) * Turn = v + w /\ (q + Turned + 1) * Turn = v + w + Turn
    BY <1>1, TurnNat
  <1>5. q + Turned \in Int /\ q + Turned + 1 \in Int BY <1>1
  <1>6. ASSUME NEW p \in Int, Counting(p) PROVE \E k \in Int : p = k * Turn
    <2>1. p = v + w \/ p = v + w + Turn BY <1>3, <1>6 DEF Counting
    <2> HIDE DEF q, v, w
    <2> QED BY <1>4, <1>5, <2>1
  <1>7. First \in Int
    <2> HIDE DEF v, w
    <2> QED BY <1>2, <1>3
  <1> QED BY <1>1, <1>2, <1>6, <1>7

\* A read at a, and the next at b, at most s after it; T is a turn, h half of it.
LEMMA Entering ==
  ASSUME NEW T \in Nat \ {0}, NEW r \in 0 .. T - 1, NEW t \in Nat, NEW x, NEW z,
         x = r, z = T - 1 + t
  PROVE  x >= 0 /\ x <= z
  OBVIOUS

LEMMA NextRead ==
  ASSUME NEW T \in Nat \ {0}, NEW h \in Nat \ {0}, T = h + h, NEW s \in Nat \ {0}, s <= h,
         NEW a \in Nat, NEW b \in Nat, a + 1 <= b, b <= a + s, NEW p \in Int,
         a - p \in 0 .. T - 1
  PROVE  /\ a - p >= h => b - p >= h
         /\ b - p < T => b - p \in 0 .. T - 1
         /\ ~(b - p < T) => /\ b - (p + T) \in 0 .. s - 1 /\ b - (p + T) \in 0 .. T - 1
                            /\ a - p >= h /\ a - p >= T - s
  OBVIOUS

LEMMA NewTurn ==
  ASSUME NEW T \in Nat \ {0}, NEW h \in Nat \ {0}, T = h + h, NEW s \in Nat \ {0}, s <= h,
         NEW b \in Nat, NEW p \in Int, b - p \in 0 .. s - 1
  PROVE  b - p \in 0 .. T - 1 /\ ~(b - p >= h)
  OBVIOUS

LEMMA PastEnd ==
  ASSUME NEW T \in Nat \ {0}, NEW h \in Nat \ {0}, T = h + h, NEW s \in Nat \ {0}, s <= h,
         NEW a \in Nat, NEW b \in Nat, a + 1 <= b, b <= a + s, NEW p \in Int,
         NEW st \in 0 .. T - 1, NEW e \in 0 .. T - 1, e + s <= T,
         a - p >= 0, a - p <= st + e \/ a - p <= s - 1
  PROVE  /\ b - p \in Int /\ b - p >= 0
         /\ b - p <= st + e + s \/ b - p <= 2 * s - 1
         /\ b - p > st + e => /\ b - p \in st + 1 .. st + T
                              /\ st + T - (b - p) <= T - 1 - e
         /\ ~(b - p > st + e) => b - p <= st + e
  OBVIOUS

LEMMA Apart == ASSUME NEW a \in Int, NEW b \in Int PROVE a = b + (a - b) /\ a + b \in Int /\ (a + b) - b = a
  OBVIOUS

LEMMA EnterBounds ==
  ASSUME start' \in 0 .. Turn - 1, timeout' \in 0 .. Longest, now' \in Nat, entered' = now',
         turns' = EndOf(start', timeout') \div Turn, bottom' = FALSE, expired' = FALSE,
         wait' = IF turns' > 0 THEN "turns" ELSE "end",
         (EndOf(start', timeout') % Turn) + Stride <= Turn
  PROVE  BInv'
  <1> DEFINE s == start'
             t == timeout'
             e == EndOf(s, t)
             n == entered'
             r == n % Turn
             p == n - r
  <1>1. /\ e = Turn - 1 - s + t /\ e \div Turn \in Nat /\ e % Turn \in 0 .. Turn - 1
        /\ e = (e \div Turn) * Turn + (e % Turn)
    BY EndExact
  <1>2. Rounds' = e \div Turn /\ EndPlace' = e % Turn
    BY DEF Rounds, EndPlace, EndOf, Turn
  <1>3. Turned' = 0
    <2>1. Rounds' = turns' /\ turns' \in Nat BY <1>1, <1>2
    <2> QED BY <2>1 DEF Turned
  <1>4. turns' \in 0 .. Rounds' /\ EndPlace' + Stride <= Turn BY <1>1, <1>2
  <1>5. CASE wait' = "turns"
    BY <1>2, <1>4, <1>5 DEF BInv, Turn
  <1>6. CASE wait' = "end"
    <2>1. turns' = 0 /\ e \div Turn = 0 BY <1>1, <1>6
    <2>2. e % Turn = Turn - 1 - s + t
      <3> DEFINE f == e % Turn
      <3> DEFINE d == e \div Turn
      <3>1. d = 0 /\ e = d * Turn + f /\ f \in 0 .. Turn - 1 BY <1>1, <2>1
      <3> HIDE DEF d, e, f
      <3>2. e = f BY <3>1, TurnNat
      <3> QED BY <1>1, <3>2 DEF f
    <2>3. r \in 0 .. Turn - 1 /\ p \in Int
      <3>1. n \in Int OBVIOUS
      <3>2. r \in 0 .. Turn - 1 BY <3>1, ModDef, TurnNat
      <3> HIDE DEF r
      <3> QED BY <3>1, <3>2, TurnNat
    <2>4. p = First'
      <3>1. First' = entered' - (entered' % Turn) + 0 * Turn BY <1>3 DEF First, Turn
      <3>2. 0 * Turn = 0 BY TurnNat
      <3>3. First' = p + 0 BY <3>1, <3>2
      <3> HIDE DEF p
      <3> QED BY <2>3, <3>3
    <2>5. now' - p >= 0 /\ now' - p <= s + EndPlace'
      <3>1. now' - p = r
        <4>1. r \in Int /\ n \in Int /\ now' = n BY <2>3, TurnNat
        <4> HIDE DEF r, n
        <4> QED BY <4>1
      <3>2. s + EndPlace' = Turn - 1 + t /\ t \in Nat
        BY <1>2, <2>2, TurnNat, LongestNat
      <3> DEFINE x == now' - p
                 z == s + EndPlace'
      <3>3. x = r /\ z = Turn - 1 + t BY <3>1, <3>2
      <3> HIDE DEF x, z, r, t
      <3>4. x >= 0 /\ x <= z BY <2>3, <3>2, <3>3, TurnNat, Entering
      <3> QED BY <3>4 DEF x, z
    <2>6. \E c \in Int : /\ Counting(c)' /\ now' - c >= 0
                         /\ now' - c <= start' + EndPlace' \/ now' - c <= Stride - 1
      <3> HIDE DEF p
      <3> QED BY <2>3, <2>4, <2>5 DEF Counting
    <2>7. entered' \in Nat /\ ~expired' OBVIOUS
    <2> QED BY <1>4, <1>6, <2>1, <2>6, <2>7 DEF BInv
  <1> QED BY <1>5, <1>6

\* What a read of the counter leaves alone.
LEMMA Standing ==
  ASSUME TInv, BInv, Pass, wait # "no", UNCHANGED <<start, timeout, entered>>
  PROVE  /\ start \in 0 .. Turn - 1 /\ now \in Nat /\ entered \in Nat /\ turns \in 0 .. Rounds
         /\ Rounds \in Nat /\ Turned \in Nat /\ EndPlace \in 0 .. Turn - 1
         /\ EndPlace + Stride <= Turn
         /\ Rounds' = Rounds /\ EndPlace' = EndPlace
         /\ now' \in Nat /\ now + 1 <= now' /\ now' <= now + Stride
  <1>1. TickType /\ Rounds \in Nat /\ EndPlace \in 0 .. Turn - 1
    BY EndExact DEF TInv, TickType, Rounds, EndPlace
  <1>2. turns \in 0 .. Rounds /\ EndPlace + Stride <= Turn /\ entered \in Nat BY DEF BInv
  <1>3. Turned \in Nat BY <1>1, <1>2 DEF Turned
  <1>4. now' \in Nat /\ now + 1 <= now' /\ now' <= now + Stride BY <1>1, StrideIs DEF TickType, Pass
  <1>5. Rounds' = Rounds /\ EndPlace' = EndPlace BY DEF Rounds, EndPlace, EndOf, Turn
  <1> QED BY <1>1, <1>2, <1>3, <1>4, <1>5 DEF TickType

LEMMA CountBounds == ASSUME TInv, BInv, CountTurn PROVE BInv'
  <1>1. /\ start \in 0 .. Turn - 1 /\ now \in Nat /\ entered \in Nat /\ turns \in 0 .. Rounds
        /\ Rounds \in Nat /\ Turned \in Nat /\ EndPlace + Stride <= Turn
        /\ Rounds' = Rounds /\ EndPlace' = EndPlace
        /\ now' \in Nat /\ now + 1 <= now' /\ now' <= now + Stride
    BY Standing DEF CountTurn
  <1>2. entered' = entered /\ expired' = FALSE /\ turns > 0
    BY <1>1 DEF CountTurn, TInv, OneEnd, Counted
  <1>3. /\ First \in Int /\ entered % Turn \in 0 .. Turn - 1 /\ Turned * Turn \in Int
        /\ \A p \in Int : Counting(p) => \E k \in Int : p = k * Turn
    BY <1>1, CountingIs
  <1>4. ASSUME NEW p \in Int, Counting(p) \/ Counting(p - Turn), now' - p \in 0 .. Turn - 1
        PROVE  bottom' <=> now' - p >= Half
    <2>1. PICK k \in Int : p = k * Turn
      <3>1. CASE Counting(p) BY <3>1, <1>3
      <3>2. CASE Counting(p - Turn)
        <4>1. p - Turn \in Int BY TurnNat
        <4>2. PICK j \in Int : p - Turn = j * Turn BY <3>2, <4>1, <1>3
        <4>3. (j + 1) * Turn = j * Turn + Turn /\ j * Turn \in Int BY TurnNat
        <4>4. p = (j + 1) * Turn BY <4>2, <4>3, TurnNat
        <4> QED BY <4>4
      <3> QED BY <1>4, <3>1, <3>2
    <2> DEFINE d == now' - p
    <2>2. d \in 0 .. Turn - 1 /\ now' = k * Turn + d /\ start \in Int /\ now' \in Int
      <3>1. d \in 0 .. Turn - 1 BY <1>4
      <3>2. now' \in Int /\ p \in Int BY <1>1
      <3>3. now' = p + d BY <3>2, Apart
      <3>4. start \in Int BY <1>1, TurnNat
      <3> HIDE DEF d
      <3> QED BY <2>1, <3>1, <3>2, <3>3, <3>4
    <2> HIDE DEF d
    <2>3. (start - ((start - now') % Turn)) % Turn = d BY <2>2, PlaceAt
    <2>4. bottom' <=> d >= Half BY <2>3 DEF CountTurn, Negative, Counter
    <2> QED BY <2>4 DEF d
  <1>5. ASSUME NEW p \in Int, Counting(p), now' - p \in 0 .. Turn - 1, ~(bottom /\ ~bottom')
        PROVE  BInv'
    <2>1. turns' = turns /\ wait' = "turns" BY <1>2, <1>5 DEF CountTurn
    <2>2. Turned' = Turned /\ First' = First
      BY <1>1, <1>2, <2>1 DEF Turned, First, Turn
    <2>3. Counting(p)' BY <1>2, <1>5, <2>2 DEF Counting, Turn
    <2>4. bottom' <=> now' - p >= Half BY <1>4, <1>5
    <2> QED BY <1>1, <1>2, <1>5, <2>1, <2>3, <2>4 DEF BInv, Turn
  <1>6. ASSUME NEW p \in Int, Counting(p), now' - (p + Turn) \in 0 .. Stride - 1, bottom
        PROVE  BInv'
    <2> DEFINE b == p + Turn
    <2>1. b \in Int /\ now' - b \in 0 .. Turn - 1 /\ ~(now' - b >= Half) /\ b - Turn = p
      <3>1. now' \in Nat /\ p \in Int /\ now' - (p + Turn) \in 0 .. Stride - 1 BY <1>1, <1>6
      <3>4. Turn \in Int /\ p \in Int BY TurnNat
      <3>5. b \in Int /\ b - Turn = p BY <3>4, Apart
      <3>2. b \in Int /\ b - Turn = p /\ now' - b \in 0 .. Stride - 1 BY <3>1, <3>5
      <3> HIDE DEF b
      <3>3. now' - b \in 0 .. Turn - 1 /\ ~(now' - b >= Half) BY <3>1, <3>2, StrideIs, NewTurn
      <3> QED BY <3>2, <3>3
    <2>2. ~bottom'
      <3> HIDE DEF b
      <3> QED BY <2>1, <1>4, <1>6
    <2>3. turns' = turns - 1 BY <1>6, <2>2 DEF CountTurn
    <2>4. Turned' = Turned + 1 BY <2>3, <1>1 DEF Turned
    <2>5. First' = First + Turn
      <3>1. (Turned + 1) * Turn = Turned * Turn + Turn BY <1>1, TurnNat
      <3>2. First' = entered - (entered % Turn) + (Turned + 1) * Turn
        BY <2>4, <1>2 DEF First, Turn
      <3>3. First = entered - (entered % Turn) + Turned * Turn BY DEF First
      <3> DEFINE w == Turned * Turn
                 r == entered % Turn
      <3>4. w \in Int /\ r \in Int BY <1>3, TurnNat
      <3>5. First' = entered - r + (w + Turn) /\ First = entered - r + w BY <3>1, <3>2, <3>3
      <3> HIDE DEF w, r
      <3> QED BY <3>4, <3>5, <1>1, TurnNat
    <2>6. Counting(b)'
      <3>1. \/ p = First
            \/ p = First + Turn /\ entered % Turn >= Turn - Stride
        BY <1>6 DEF Counting
      <3>2. \/ b = First'
            \/ b = First' + Turn /\ entered' % Turn >= Turn - Stride
        BY <3>1, <2>5, <1>2, <1>3, TurnNat
      <3> QED BY <3>2 DEF Counting, Turn
    <2>7. CASE turns' > 0
      <3>1. wait' = "turns" BY <2>7 DEF CountTurn
      <3>2. turns' \in 0 .. Rounds' BY <1>1, <1>2, <2>3
      <3> HIDE DEF b
      <3> QED BY <1>1, <1>2, <2>1, <2>2, <2>6, <3>1, <3>2 DEF BInv, Turn
    <2>8. CASE ~(turns' > 0)
      <3>1. wait' = "end" BY <2>8 DEF CountTurn
      <3>2. turns' = 0 /\ turns' \in 0 .. Rounds' BY <1>1, <1>2, <2>3, <2>8
      <3>3. now' - b >= 0 /\ now' - b <= Stride - 1 BY <1>6, StrideIs
      <3> HIDE DEF b
      <3> QED BY <1>1, <1>2, <2>1, <2>2, <2>6, <3>1, <3>2, <3>3 DEF BInv, Turn
    <2> QED BY <2>7, <2>8
  <1>7. CASE now = entered /\ ~bottom /\ turns = Rounds
    <2> DEFINE r == entered % Turn
    <2>1. Turned = 0 BY <1>1, <1>7 DEF Turned
    <2>2. First = entered - r
      <3>1. 0 * Turn = 0 BY TurnNat
      <3> DEFINE u == entered - r
      <3>2. u \in Int BY <1>1, <1>3, TurnNat
      <3>3. First = u + 0 BY <2>1, <3>1 DEF First
      <3> HIDE DEF u
      <3>4. First = u BY <3>2, <3>3
      <3> QED BY <3>4 DEF u
    <2>3. r \in 0 .. Turn - 1 BY <1>3
    <2>4. Counting(First) /\ (r >= Turn - Stride => Counting(First + Turn)) BY DEF Counting
    <2> HIDE DEF r
    <2>7. now - First = r /\ now - First \in 0 .. Turn - 1
      <3>1. now = entered /\ entered \in Int /\ r \in Int BY <1>1, <1>7, <2>3, TurnNat
      <3>2. now - First = r BY <2>2, <3>1
      <3> QED BY <2>3, <3>2
    <2>5. CASE now' - First < Turn
      <3>1. now' - First \in 0 .. Turn - 1 BY <2>7, <2>5, <1>1, <1>3, StrideIs, NextRead
      <3> QED BY <3>1, <2>4, <1>3, <1>5, <1>7
    <2>6. CASE ~(now' - First < Turn)
      <3>1. r >= Turn - Stride /\ now' - (First + Turn) \in 0 .. Turn - 1
        <4>1. now - First >= Turn - Stride /\ now' - (First + Turn) \in 0 .. Turn - 1
          BY <2>7, <2>6, <1>1, <1>3, StrideIs, NextRead
        <4> QED BY <4>1, <2>7
      <3>2. First + Turn \in Int BY <1>3, TurnNat
      <3> QED BY <3>1, <3>2, <2>4, <1>5, <1>7
    <2> QED BY <2>5, <2>6
  <1>8. CASE ~(now = entered /\ ~bottom /\ turns = Rounds)
    <2>1. PICK p \in Int : Counting(p) /\ now - p \in 0 .. Turn - 1 /\ (bottom <=> now - p >= Half)
      BY <1>8 DEF BInv, CountTurn
    <2>2. CASE now' - p < Turn
      <3>1. now' - p \in 0 .. Turn - 1 BY <2>1, <2>2, <1>1, StrideIs, NextRead
      <3>2. bottom' <=> now' - p >= Half BY <3>1, <2>1, <1>4
      <3>3. now - p >= Half => now' - p >= Half BY <2>1, <1>1, StrideIs, NextRead
      <3>4. ~(bottom /\ ~bottom') BY <3>2, <3>3, <2>1
      <3> QED BY <3>1, <3>4, <2>1, <1>5
    <2>3. CASE ~(now' - p < Turn)
      <3>1. now' - (p + Turn) \in 0 .. Stride - 1 /\ now - p >= Half
        BY <2>1, <2>3, <1>1, StrideIs, NextRead
      <3>2. bottom BY <2>1, <3>1
      <3> QED BY <3>1, <3>2, <2>1, <1>6
    <2> QED BY <2>2, <2>3
  <1> QED BY <1>7, <1>8

LEMMA AwaitBounds == ASSUME TInv, BInv, AwaitEnd PROVE BInv'
  <1>1. /\ start \in 0 .. Turn - 1 /\ now \in Nat /\ entered \in Nat
        /\ Rounds \in Nat /\ Turned \in Nat /\ EndPlace \in 0 .. Turn - 1
        /\ EndPlace + Stride <= Turn /\ Rounds' = Rounds /\ EndPlace' = EndPlace
        /\ now' \in Nat /\ now + 1 <= now' /\ now' <= now + Stride
    BY Standing DEF AwaitEnd
  <1>2. PICK p \in Int : /\ Counting(p) /\ now - p >= 0
                         /\ now - p <= start + EndPlace \/ now - p <= Stride - 1
    BY DEF BInv, AwaitEnd
  <1>3. turns = 0 /\ turns' = 0 /\ entered' = entered /\ start' = start
    BY DEF BInv, AwaitEnd
  <1>4. Counting(p)' BY <1>1, <1>2, <1>3 DEF Counting, First, Turned, Turn
  <1>5. PICK k \in Int : p = k * Turn BY <1>1, <1>2, CountingIs
  <1> DEFINE d == now' - p
  <1>6. /\ d \in Int /\ d >= 0
        /\ d <= start + EndPlace + Stride \/ d <= 2 * Stride - 1
        /\ d > start + EndPlace => /\ d \in start + 1 .. start + Turn
                                   /\ start + Turn - d <= Turn - 1 - EndPlace
        /\ ~(d > start + EndPlace) => d <= start + EndPlace
    BY <1>1, <1>2, StrideIs, PastEnd
  <1>7. ASSUME d > start + EndPlace PROVE expired'
    <2>1. d \in start + 1 .. start + Turn BY <1>6, <1>7
    <2>2. now' = k * Turn + d BY <1>1, <1>5, Apart
    <2> HIDE DEF d
    <2>3. Counter(now') = start + Turn - d BY <1>1, <2>1, <2>2, CounterAt DEF Counter
    <2>4. EndTick(start, timeout) = Turn - 1 - EndPlace BY DEF EndTick, EndPlace
    <2>5. Counter(now') <= EndTick(start, timeout)
      <3>1. start + Turn - d <= Turn - 1 - EndPlace BY <1>6, <1>7
      <3> QED BY <2>3, <2>4, <3>1
    <2> QED BY <2>5 DEF AwaitEnd
  <1>8. expired' \in BOOLEAN /\ wait' = (IF expired' THEN "no" ELSE "end") BY DEF AwaitEnd
  <1>9. turns' \in 0 .. Rounds' /\ EndPlace' + Stride <= Turn BY <1>1, <1>3
  <1>10. CASE expired'
    BY <1>1, <1>3, <1>4, <1>6, <1>8, <1>9, <1>10 DEF BInv, Turn
  <1>11. CASE ~expired'
    <2>1. d >= 0 /\ d <= start + EndPlace BY <1>6, <1>7, <1>11
    <2> QED BY <1>1, <1>3, <1>4, <2>1, <1>8, <1>9, <1>11 DEF BInv, Turn
  <1> QED BY <1>10, <1>11

LEMMA StartBounds == ASSUME EndSeen, Start PROVE BInv'
  <1>1. start' \in 0 .. Turn - 1 /\ timeout' \in 0 .. Longest /\ now' = 0
    BY SysTickAssumption DEF Start, Longest
  <1>2. EndTick(start', timeout') >= Stride - 1 BY DEF Start
  <1> DEFINE f == EndOf(start', timeout') % Turn
  <1>3. f \in 0 .. Turn - 1 BY <1>1, EndExact
  <1>4. Turn - 1 - f >= Stride - 1 BY <1>2 DEF EndTick
  <1>5. f + Stride <= Turn
    <2> HIDE DEF f
    <2> QED BY <1>3, <1>4, StrideIs
  <1>6. /\ turns' = EndOf(start', timeout') \div Turn /\ bottom' = FALSE /\ expired' = FALSE
        /\ wait' = (IF turns' > 0 THEN "turns" ELSE "end") /\ entered' = 0
    BY DEF Start, Enter
  <1>7. now' \in Nat /\ entered' = now' BY <1>1, <1>6
  <1> QED BY <1>1, <1>5, <1>6, <1>7, EnterBounds

LEMMA AgainBounds == ASSUME TInv, BInv, wait # "no", Again PROVE BInv'
  <1>1. start' \in 0 .. Turn - 1 /\ timeout' \in 0 .. Longest /\ now' \in Nat /\ now' = now
    BY DEF TInv, TickType, Again
  <1>2. EndPlace + Stride <= Turn BY DEF BInv
  <1>3. (EndOf(start', timeout') % Turn) + Stride <= Turn
    BY <1>2 DEF Again, EndPlace
  <1> QED BY <1>1, <1>3, EnterBounds DEF Again, Enter

LEMMA NextBounds == ASSUME EndSeen, TInv, BInv, [PolledNext]_pvars PROVE BInv'
  <1>1. CASE Start BY <1>1, StartBounds
  <1>2. CASE wait # "no" /\ Again BY <1>2, AgainBounds
  <1>3. CASE Stop BY <1>3 DEF Stop, BInv
  <1>4. CASE CountTurn BY <1>4, CountBounds
  <1>5. CASE AwaitEnd BY <1>5, AwaitBounds
  <1>6. CASE UNCHANGED tickVars
    BY <1>6 DEF tickVars, BInv, Counting, First, Turned, Rounds, EndPlace, EndOf, Turn
  <1> QED BY <1>1, <1>2, <1>3, <1>4, <1>5, <1>6, PolledUsesTick

LEMMA BoundSum ==
  ASSUME NEW T \in Nat \ {0}, NEW h \in Nat \ {0}, T = h + h, NEW s \in Nat \ {0}, s <= h,
         3 * s <= T + 1, NEW st \in 0 .. T - 1, NEW e \in 0 .. T - 1,
         NEW n \in Int, NEW x \in Int, NEW r \in 0 .. T - 1, NEW w \in Int, NEW v \in Int,
         NEW t \in Int, T - 1 - st + t = v + e, NEW p \in Int,
         p = x - r + w \/ (p = x - r + w + T /\ r >= T - s)
  PROVE  /\ w + T <= v /\ n - p <= T - 1 => n - x < t + 2 * T
         /\ w = v /\ (n - p <= st + e \/ n - p <= s - 1 \/ n - p <= st + e + s \/ n - p <= 2 * s - 1)
              => n - x < t + 2 * T
  OBVIOUS

LEMMA Bounded == ASSUME ReadOften, TInv, BInv PROVE WaitBounded
  <1> SUFFICES ASSUME wait # "no" \/ expired PROVE now - entered < timeout + 2 * Turn
    BY DEF WaitBounded
  <1>1. TickType /\ start \in 0 .. Turn - 1 /\ timeout \in Nat /\ now \in Nat
    BY LongestNat DEF TInv, TickType
  <1>2. /\ Turn - 1 - start + timeout = Rounds * Turn + EndPlace
        /\ EndPlace \in 0 .. Turn - 1 /\ Rounds \in Nat
    BY <1>1, EndExact DEF TickType, Rounds, EndPlace
  <1>3. entered \in Nat /\ turns \in 0 .. Rounds BY DEF BInv
  <1>4. Turned \in Nat BY <1>2, <1>3 DEF Turned
  <1> DEFINE r == entered % Turn
             w == Turned * Turn
             v == Rounds * Turn
  <1>5. r \in 0 .. Turn - 1 /\ w \in Int /\ v \in Int /\ First \in Int
    BY <1>2, <1>3, <1>4, CountingIs, TurnNat
  <1>6. ASSUME NEW p \in Int, Counting(p)
        PROVE  \/ p = entered - r + w
               \/ p = entered - r + w + Turn /\ r >= Turn - Stride
    <2>1. First = entered - r + w BY DEF First
    <2> HIDE DEF r, w
    <2>2. p = First \/ (p = First + Turn /\ r >= Turn - Stride) BY <1>6 DEF Counting, r
    <2> QED BY <2>1, <2>2
  <1>7. Turn - 1 - start + timeout = v + EndPlace BY <1>2
  <1>8. turns > 0 => w + Turn <= v
    <2>1. turns > 0 => Turned < Rounds BY <1>2, <1>3 DEF Turned
    <2> QED BY <2>1, <1>2, <1>4, Mult, TurnNat
  <1>9. turns = 0 => w = v BY <1>2 DEF Turned
  <1> HIDE DEF r, w, v
  <1>10. ASSUME NEW p \in Int, Counting(p)
         PROVE  /\ w + Turn <= v /\ now - p <= Turn - 1 => now - entered < timeout + 2 * Turn
                /\ w = v /\ \/ now - p <= start + EndPlace \/ now - p <= Stride - 1
                            \/ now - p <= start + EndPlace + Stride \/ now - p <= 2 * Stride - 1
                     => now - entered < timeout + 2 * Turn
    <2>1. p = entered - r + w \/ (p = entered - r + w + Turn /\ r >= Turn - Stride)
      BY <1>6, <1>10
    <2>2. 3 * Stride <= Turn + 1 BY DEF ReadOften
    <2>3. now \in Int /\ entered \in Int /\ timeout \in Int BY <1>1, <1>3
    <2> QED BY <2>1, <2>2, <2>3, <1>1, <1>2, <1>5, <1>7, StrideIs, BoundSum
  <1>11. CASE wait = "turns"
    <2>1. turns > 0 BY <1>11, <1>3 DEF TInv, Counted
    <2>2. CASE now = entered BY <2>2, <1>1, <1>3, TurnNat
    <2>3. CASE now # entered
      <3>1. PICK p \in Int : Counting(p) /\ now - p \in 0 .. Turn - 1 BY <1>11, <2>3 DEF BInv
      <3>2. now - p <= Turn - 1 BY <3>1, TurnNat
      <3> QED BY <2>1, <3>1, <3>2, <1>8, <1>10
    <2> QED BY <2>2, <2>3
  <1>12. CASE wait = "end"
    <2>1. turns = 0 BY <1>12 DEF BInv
    <2>2. PICK p \in Int : /\ Counting(p)
                           /\ now - p <= start + EndPlace \/ now - p <= Stride - 1
      BY <1>12 DEF BInv
    <2> QED BY <2>1, <2>2, <1>9, <1>10
  <1>13. CASE expired
    <2>1. turns = 0 BY <1>13 DEF BInv
    <2>2. PICK p \in Int : /\ Counting(p)
                           /\ now - p <= start + EndPlace + Stride \/ now - p <= 2 * Stride - 1
      BY <1>13 DEF BInv
    <2> QED BY <2>1, <2>2, <1>9, <1>10
  <1> QED BY <1>1, <1>11, <1>12, <1>13 DEF TickType

\* No wait of a call that polls lasts two turns over its timeout, for any counter, timeout and
\* waits before it, when no read can miss its end and reads are no further apart than a third of
\* a turn (systick_poll_timeout).
THEOREM WaitsEnd == ASSUME EndSeen, ReadOften PROVE PolledSpec => []WaitBounded
  <1>1. PolledInit => TInv BY InitKeeps
  <1>2. PolledInit => BInv BY DEF PolledInit, TickInit, BInv
  <1>3. TInv /\ [PolledNext]_pvars => TInv' BY NextKeeps
  <1>4. TInv /\ BInv /\ [PolledNext]_pvars => BInv' BY NextBounds
  <1>5. TInv /\ BInv => WaitBounded BY Bounded
  <1> QED BY <1>1, <1>2, <1>3, <1>4, <1>5, PTL DEF PolledSpec

-----------------------------------------------------------------------------
(* The refinement of UartLine. *)

\* A set of numbers that is not empty has a least element: induction over numbers.
LEMMA Least ==
  ASSUME NEW S \in SUBSET Nat, S # {}
  PROVE  \E x \in S : \A y \in S : x <= y
  <1>1. PICK x \in S : \A y \in S : ~(<<y, x>> \in OpToRel(<, Nat))
    BY NatLessThanWellFounded, WFMin
  <1>2. \A y \in S : ~(y < x) BY <1>1 DEF OpToRel
  <1> QED BY <1>2

-----------------------------------------------------------------------------
(* The bytes of the transfers, one after the other. *)

\* f[i] is what the first i of the sequences in s are together.
Joins(f, s, T) ==
  /\ f \in [1 .. Len(s) -> Seq(T)] /\ f[1] = s[1]
  /\ \A i \in 2 .. Len(s) : f[i] = f[i - 1] \o s[i]

\* There is such a function.
LEMMA JoinsExists ==
  ASSUME NEW T, NEW s \in Seq(Seq(T)), Len(s) > 0
  PROVE  \E f : Joins(f, s, T)
  <1> DEFINE J(x, i) == x \o s[i]
             P(n, f) == /\ f \in [1 .. n -> Seq(T)] /\ f[1] = s[1]
                        /\ \A i \in 2 .. n : f[i] = J(f[i - 1], i)
             Bad == {n \in 1 .. Len(s) : ~ \E f : P(n, f)}
             l == Len(s)
  <1>1. l \in Nat \ {0} /\ 1 \in 1 .. l OBVIOUS
  <1>2. \A i \in 1 .. l : s[i] \in Seq(T) OBVIOUS
  <1>3. \A x \in Seq(T), i \in 1 .. l : J(x, i) \in Seq(T) BY <1>2, ConcatProperties
  <1>4. s[1] \in Seq(T) BY <1>1, <1>2
  <1> HIDE DEF J, l
  <1>5. Bad = {}
    <2> SUFFICES ASSUME Bad # {} PROVE FALSE OBVIOUS
    <2>1. Bad \in SUBSET Nat
      <3> HIDE DEF P
      <3> QED BY <1>1 DEF l
    <2>2. PICK n \in Bad : \A m \in Bad : n <= m
      <3> HIDE DEF Bad
      <3> QED BY <2>1, Least
    <2>3. n \in 1 .. l /\ ~ \E f : P(n, f) BY <2>2 DEF l
    <2>4. n # 1
      <3>1. P(1, [i \in 1 .. 1 |-> s[1]]) BY <1>4
      <3> QED BY <2>3, <3>1
    <2>5. n - 1 \in 1 .. l /\ n \in Nat /\ n - 1 < n BY <1>1, <2>3, <2>4
    <2>6. PICK f : P(n - 1, f)
      <3>1. n - 1 \notin Bad
        <4> HIDE DEF Bad
        <4> QED BY <1>1, <2>1, <2>2, <2>5
      <3> HIDE DEF P
      <3> QED BY <2>5, <3>1 DEF l
    <2> DEFINE g == [i \in 1 .. n |-> IF i < n THEN f[i] ELSE J(f[n - 1], n)]
    <2>7. f[n - 1] \in Seq(T) /\ J(f[n - 1], n) \in Seq(T) BY <1>3, <2>3, <2>5, <2>6
    <2>8. g[n] = J(f[n - 1], n) /\ \A i \in 1 .. n - 1 : g[i] = f[i] BY <2>5
    <2>9. g \in [1 .. n -> Seq(T)]
      <3>1. \A i \in 1 .. n : i < n => f[i] \in Seq(T) BY <2>5, <2>6
      <3> QED BY <2>7, <3>1
    <2> HIDE DEF g
    <2>10. P(n, g)
      <3>1. g[1] = s[1] BY <2>5, <2>6, <2>8
      <3>2. ASSUME NEW i \in 2 .. n PROVE g[i] = J(g[i - 1], i)
        <4>1. CASE i = n BY <2>5, <2>8, <4>1
        <4>2. CASE i # n
          <5>1. i \in 2 .. n - 1 /\ i \in 1 .. n - 1 /\ i - 1 \in 1 .. n - 1 BY <2>5, <4>2
          <5> QED BY <2>6, <2>8, <5>1
        <4> QED BY <4>1, <4>2
      <3> QED BY <2>9, <3>1, <3>2
    <2> QED BY <2>3, <2>10
  <1>6. \E f : P(l, f)
    <2>1. l \in 1 .. l BY <1>1
    <2> HIDE DEF P
    <2> QED BY <1>5, <2>1 DEF l
  <1> QED BY <1>6 DEF Joins, J, l

\* FlattenSeq is its last value.
LEMMA FlattenIs ==
  ASSUME NEW T, NEW s \in Seq(Seq(T)), Len(s) > 0, NEW f, Joins(f, s, T)
  PROVE  Line!FlattenSeq(s) = f[Len(s)] /\ Line!FlattenSeq(s) \in Seq(T)
  <1> DEFINE J(x, i) == x \o s[i]
             F(g) == [i \in 1 .. Len(s) |-> IF i = 1 THEN s[i] ELSE J(g[i - 1], i)]
             flatten == CHOOSE g : g = F(g)
             l == Len(s)
  <1>1. l \in Nat \ {0} OBVIOUS
  <1>2. /\ f \in [1 .. l -> Seq(T)] /\ f[1] = s[1]
        /\ \A i \in 2 .. l : f[i] = J(f[i - 1], i)
    BY DEF Joins
  <1>3. Line!FlattenSeq(s) = flatten[l]
    <2>1. l # 0 BY <1>1
    <2> QED BY <2>1 DEF Line!FlattenSeq
  <1> HIDE DEF J
  <1>4. f = F(f)
    <2>1. \A i \in 1 .. l : f[i] = F(f)[i]
      <3> SUFFICES ASSUME NEW i \in 1 .. l PROVE f[i] = IF i = 1 THEN s[i] ELSE J(f[i - 1], i) OBVIOUS
      <3>1. i # 1 => i \in 2 .. l BY <1>1
      <3> QED BY <1>2, <3>1
    <2>2. F(f) = [i \in 1 .. l |-> F(f)[i]] OBVIOUS
    <2>3. f = [i \in 1 .. l |-> f[i]] BY <1>2
    <2> HIDE DEF F, l
    <2> QED BY <2>1, <2>2, <2>3
  <1>5. flatten = F(flatten)
    <2> HIDE DEF F
    <2> QED BY <1>4
  <1> HIDE DEF flatten
  <1>6. \A i \in 1 .. l : flatten[i] = IF i = 1 THEN s[i] ELSE J(flatten[i - 1], i)
    <2> DEFINE h == F(flatten)
    <2>1. \A i \in 1 .. l : h[i] = IF i = 1 THEN s[i] ELSE J(flatten[i - 1], i) OBVIOUS
    <2> HIDE DEF h
    <2>2. h = flatten BY <1>5 DEF h
    <2> QED BY <2>1, <2>2
  <1> HIDE DEF F, l
  <1> DEFINE Bad == {i \in 1 .. l : flatten[i] # f[i]}
  <1>7. Bad = {}
    <2> SUFFICES ASSUME Bad # {} PROVE FALSE OBVIOUS
    <2>1. Bad \in SUBSET Nat BY <1>1
    <2>2. PICK n \in Bad : \A m \in Bad : n <= m
      <3> HIDE DEF Bad
      <3> QED BY <2>1, Least
    <2>3. n \in 1 .. l /\ flatten[n] # f[n] BY <2>2
    <2>4. n # 1 BY <1>2, <1>6, <2>3
    <2>5. n - 1 \in 1 .. l /\ n \in 2 .. l /\ n \in Nat /\ n - 1 < n BY <1>1, <2>3, <2>4
    <2>6. n - 1 \notin Bad
      <3> HIDE DEF Bad
      <3> QED BY <2>1, <2>2, <2>5
    <2>7. flatten[n - 1] = f[n - 1] BY <2>5, <2>6
    <2> HIDE DEF Bad
    <2> QED BY <1>2, <1>6, <2>3, <2>4, <2>5, <2>7
  <1>8. l \in 1 .. l BY <1>1
  <1>9. flatten[l] = f[l] BY <1>7, <1>8
  <1> QED BY <1>2, <1>3, <1>8, <1>9 DEF l

\* A transfer of n bytes, numbered k.
Transfer(k, n) == [i \in 1 .. n |-> <<k, i>>]

LEMMA TransferType ==
  ASSUME NEW k \in Nat, NEW n \in Nat
  PROVE  Transfer(k, n) \in Seq(Byte) /\ Len(Transfer(k, n)) = n
  BY DEF Transfer, Byte

\* The bytes of one more transfer follow those of the others.
LEMMA BytesAppend ==
  ASSUME NEW a \in Seq(Nat), NEW n \in Nat
  PROVE  /\ Line!Bytes(a) \in Seq(Byte)
         /\ Line!Bytes(Append(a, n)) = Line!Bytes(a) \o Transfer(Len(a) + 1, n)
  <1> DEFINE b == Append(a, n)
             m == Len(a)
             S(c, l) == [k \in 1 .. l |-> Transfer(k, c[k])]
             s == S(a, m)
             t == S(b, m + 1)
             x == Transfer(m + 1, n)
  <1>1. m \in Nat /\ b \in Seq(Nat) /\ Len(b) = m + 1 /\ b[m + 1] = n
        /\ \A k \in 1 .. m : b[k] = a[k] /\ a[k] \in Nat
    OBVIOUS
  <1>2. Line!Bytes(a) = Line!FlattenSeq(s) /\ Line!Bytes(b) = Line!FlattenSeq(t)
    BY <1>1 DEF Line!Bytes, Transfer
  <1> HIDE DEF b, m
  <1>3. \A k \in 1 .. m : k \in Nat /\ Transfer(k, a[k]) \in Seq(Byte) BY <1>1, TransferType
  <1>4. x \in Seq(Byte) BY <1>1, TransferType
  <1>5. s \in Seq(Seq(Byte)) /\ Len(s) = m /\ \A k \in 1 .. m : s[k] = Transfer(k, a[k])
    BY <1>1, <1>3
  <1>6. t = [k \in 1 .. m + 1 |-> t[k]] /\ Len(t) = m + 1 /\ t[m + 1] = x
        /\ \A k \in 1 .. m : t[k] = s[k]
    <2>1. \A k \in 1 .. m + 1 : t[k] = Transfer(k, b[k]) OBVIOUS
    <2>2. \A k \in 1 .. m : k \in 1 .. m + 1 /\ t[k] = Transfer(k, a[k]) BY <1>1, <2>1
    <2>3. m + 1 \in 1 .. m + 1 BY <1>1
    <2>4. t[m + 1] = Transfer(m + 1, n) BY <1>1, <2>1, <2>3
    <2>5. Len(t) = m + 1 BY <1>1
    <2> QED BY <1>5, <2>2, <2>4, <2>5
  <1> HIDE DEF x, s, t, S
  <1>7. t \in Seq(Seq(Byte))
    <2>1. \A k \in 1 .. m + 1 : t[k] \in Seq(Byte)
      <3> SUFFICES ASSUME NEW k \in 1 .. m + 1 PROVE t[k] \in Seq(Byte) OBVIOUS
      <3>1. CASE k = m + 1 BY <1>4, <1>6, <3>1
      <3>2. CASE k # m + 1
        <4>1. k \in 1 .. m BY <1>1, <3>2
        <4>2. s[k] \in Seq(Byte) BY <1>3, <1>5, <4>1
        <4> QED BY <1>6, <4>1, <4>2
      <3> QED BY <3>1, <3>2
    <2>2. t \in [1 .. m + 1 -> Seq(Byte)] BY <1>6, <2>1
    <2>3. m + 1 \in Nat BY <1>1
    <2> QED BY <2>2, <2>3
  <1>8. CASE m = 0
    <2>1. s = << >> BY <1>5, <1>8, EmptySeq
    <2>2. Line!FlattenSeq(s) = << >> BY <1>5, <1>8, <2>1 DEF Line!FlattenSeq
    <2> DEFINE f == [i \in 1 .. 1 |-> x]
    <2>3. f \in [1 .. 1 -> Seq(Byte)] /\ f[1] = x BY <1>4
    <2> HIDE DEF f
    <2>4. Joins(f, t, Byte)
      <3>1. Len(t) = 1 /\ t[1] = x BY <1>6, <1>8
      <3>2. \A i \in 2 .. 1 : FALSE OBVIOUS
      <3> QED BY <2>3, <3>1, <3>2 DEF Joins
    <2>5. Line!FlattenSeq(t) = f[Len(t)]
      <3>1. Len(t) > 0 BY <1>6, <1>8
      <3> QED BY <1>7, <2>4, <3>1, FlattenIs
    <2>6. Len(t) = 1 BY <1>6, <1>8
    <2>7. << >> \o x = x BY <1>4, ConcatEmptySeq
    <2>8. << >> \in Seq(Byte) OBVIOUS
    <2> QED BY <1>2, <2>2, <2>3, <2>5, <2>6, <2>7, <2>8 DEF m, x, b
  <1>9. CASE m # 0
    <2>1. Len(s) > 0 /\ Len(t) > 0 /\ m \in 1 .. m /\ 1 \in 1 .. m BY <1>1, <1>5, <1>6, <1>9
    <2>2. PICK f : Joins(f, s, Byte) BY <1>5, <2>1, JoinsExists
    <2>3. Line!FlattenSeq(s) = f[m]
      <3>1. Line!FlattenSeq(s) = f[Len(s)] BY <1>5, <2>1, <2>2, FlattenIs
      <3> QED BY <1>5, <3>1
    <2> DEFINE J(y, i) == y \o t[i]
               y == J(f[m], m + 1)
               g == [i \in 1 .. m + 1 |-> IF i <= m THEN f[i] ELSE y]
    <2>4. /\ f \in [1 .. m -> Seq(Byte)] /\ f[1] = t[1]
          /\ \A i \in 2 .. m : f[i] = J(f[i - 1], i)
      <3>1. \A i \in 2 .. m : i \in 1 .. m BY <1>1
      <3> QED BY <1>5, <1>6, <2>1, <2>2, <3>1 DEF Joins
    <2>5. f[m] \in Seq(Byte) BY <2>1, <2>4
    <2>6. y \in Seq(Byte) /\ y = f[m] \o x BY <1>4, <1>6, <2>5, ConcatProperties
    <2> HIDE DEF J, y
    <2>7. g \in [1 .. m + 1 -> Seq(Byte)] BY <2>4, <2>6
    <2>8. g[m + 1] = y /\ \A i \in 1 .. m : g[i] = f[i] BY <1>1
    <2> HIDE DEF g
    <2>9. \A i \in 2 .. m + 1 : g[i] = J(g[i - 1], i)
      <3> SUFFICES ASSUME NEW i \in 2 .. m + 1 PROVE g[i] = J(g[i - 1], i) OBVIOUS
      <3>1. CASE i = m + 1
        <4>1. i - 1 = m BY <1>1, <3>1
        <4> QED BY <2>1, <2>8, <3>1, <4>1 DEF y
      <3>2. CASE i # m + 1
        <4>1. i \in 2 .. m /\ i - 1 \in 1 .. m /\ i \in 1 .. m BY <1>1, <3>2
        <4> QED BY <2>4, <2>8, <4>1
      <3> QED BY <3>1, <3>2
    <2>10. Joins(g, t, Byte)
      <3>1. g[1] = t[1] BY <2>1, <2>4, <2>8
      <3> QED BY <1>6, <2>7, <2>9, <3>1 DEF Joins, J
    <2>11. Line!FlattenSeq(t) = y
      <3>1. Line!FlattenSeq(t) = g[Len(t)] BY <1>7, <2>1, <2>10, FlattenIs
      <3> QED BY <1>6, <2>8, <3>1
    <2> QED BY <1>2, <2>3, <2>5, <2>6, <2>11 DEF m, x, b
  <1> QED BY <1>8, <1>9

\* Nothing is asked, nothing is to be sent.
LEMMA BytesEmpty == Line!Bytes(<< >>) = << >>
  BY DEF Line!Bytes, Line!FlattenSeq

-----------------------------------------------------------------------------
(* The line: what has been accepted has left, is in the shift register or the FIFO, or is     *)
(* still in the application's buffer, in this order.                                          *)

\* How many bytes of the transfer under way the driver or its channel has still to hand over.
Left ==
  IF Quiet THEN 0 ELSE chan["tx"].left + txCount + (IF tpc = "tbr" THEN 1 ELSE 0)

\* The n bytes of the buffer from p on.
Run(p, n) == [i \in 1 .. n |-> <<p[1], p[2] + i - 1>>]

LineInv ==
  /\ Len(shifter) <= 1
  /\ Line!Bytes(asked) = wire \o shifter \o txFifo \o Run(txPtr, Left)

\* A step of the driver is one of the line's, or none.
LineStep == LineInv' /\ [Line!LineNext]_(Line!lineVars)

LEMMA RunIs ==
  ASSUME NEW p \in Byte, NEW n \in Nat
  PROVE  /\ Run(p, n) \in Seq(Byte) /\ Len(Run(p, n)) = n
         /\ Run(p, 0) = << >>
         /\ n # 0 => Run(p, n) = <<p>> \o Run(<<p[1], p[2] + 1>>, n - 1)
  <1>1. p[1] \in Nat /\ p[2] \in Nat /\ p = <<p[1], p[2]>> BY DEF Byte
  <1>2. \A i \in 1 .. n : <<p[1], p[2] + i - 1>> \in Byte BY <1>1 DEF Byte
  <1>3. Run(p, n) \in Seq(Byte) /\ Len(Run(p, n)) = n BY <1>2 DEF Run
  <1>4. Run(p, 0) = << >>
    <2>1. Run(p, 0) \in Seq(Byte) /\ Len(Run(p, 0)) = 0 BY DEF Run
    <2> QED BY <2>1, EmptySeq
  <1>5. ASSUME n # 0 PROVE Run(p, n) = <<p>> \o Run(<<p[1], p[2] + 1>>, n - 1)
    <2> DEFINE q == <<p[1], p[2] + 1>>
               t == Run(q, n - 1)
    <2>1. q \in Byte /\ q[1] = p[1] /\ q[2] = p[2] + 1 BY <1>1 DEF Byte
    <2>2. n - 1 \in Nat BY <1>5
    <2>3. \A i \in 1 .. n - 1 : t[i] = <<p[1], p[2] + i>>
      <3>1. \A i \in 1 .. n - 1 : t[i] = <<q[1], q[2] + i - 1>> BY DEF Run
      <3> HIDE DEF t, q
      <3>2. \A i \in 1 .. n - 1 : q[2] + i - 1 = p[2] + i BY <1>1, <2>1, <2>2
      <3> QED BY <2>1, <3>1, <3>2
    <2>4. t \in Seq(Byte) /\ Len(t) = n - 1
      <3>1. \A i \in 1 .. n - 1 : <<q[1], q[2] + i - 1>> \in Byte BY <1>1, <2>1, <2>2 DEF Byte
      <3> HIDE DEF q
      <3> QED BY <2>2, <3>1 DEF Run
    <2> HIDE DEF t
    <2> DEFINE s == <<p>>
    <2>5. s \in Seq(Byte) /\ Len(s) = 1 /\ s[1] = p OBVIOUS
    <2> HIDE DEF s
    <2>6. /\ s \o t \in Seq(Byte) /\ Len(s \o t) = n
          /\ \A i \in 1 .. n : (s \o t)[i] = IF i <= 1 THEN s[i] ELSE t[i - 1]
      <3>1. 1 + (n - 1) = n OBVIOUS
      <3>2. /\ s \o t \in Seq(Byte) /\ Len(s \o t) = Len(s) + Len(t)
            /\ \A i \in 1 .. Len(s) + Len(t) :
                 (s \o t)[i] = IF i <= Len(s) THEN s[i] ELSE t[i - Len(s)]
        BY <2>4, <2>5, ConcatProperties
      <3>3. Len(s) + Len(t) = n BY <2>4, <2>5, <3>1
      <3> QED BY <2>5, <3>2, <3>3
    <2> DEFINE u == s \o t
    <2>7. \A i \in 1 .. n : Run(p, n)[i] = u[i]
      <3> SUFFICES ASSUME NEW i \in 1 .. n PROVE Run(p, n)[i] = u[i] OBVIOUS
      <3>1. Run(p, n)[i] = <<p[1], p[2] + i - 1>> BY DEF Run
      <3>2. CASE i = 1
        <4>1. p[2] + i - 1 = p[2] BY <1>1, <3>2
        <4>2. u[i] = p BY <2>5, <2>6, <3>2
        <4> QED BY <1>1, <3>1, <4>1, <4>2
      <3>3. CASE i # 1
        <4>1. i - 1 \in 1 .. n - 1 /\ ~(i <= 1) BY <3>3
        <4>2. u[i] = <<p[1], p[2] + (i - 1)>> BY <2>3, <2>6, <4>1
        <4>3. p[2] + (i - 1) = p[2] + i - 1 BY <1>1
        <4> QED BY <3>1, <4>2, <4>3
      <3> QED BY <3>2, <3>3
    <2> HIDE DEF u
    <2>8. Run(p, n) = u
      <3>1. u \in Seq(Byte) /\ Len(u) = n BY <2>6 DEF u
      <3> QED BY <1>3, <2>7, <3>1, SeqEqual
    <2> QED BY <2>8 DEF u, s, t, q
  <1> QED BY <1>3, <1>4, <1>5

\* The first byte of a run is put into the FIFO.
LEMMA RunPush ==
  ASSUME NEW p \in Byte, NEW n \in Nat \ {0}, NEW f \in Seq(Byte)
  PROVE  f \o Run(p, n) = Append(f, p) \o Run(<<p[1], p[2] + 1>>, n - 1)
  <1> DEFINE q == <<p[1], p[2] + 1>>
             s == <<p>>
             t == Run(q, n - 1)
  <1>1. n - 1 \in Nat /\ q \in Byte BY DEF Byte
  <1>2. t \in Seq(Byte)
    <2> HIDE DEF q
    <2> QED BY <1>1, RunIs
  <1>3. Run(p, n) = s \o t BY RunIs
  <1>4. s \in Seq(Byte) OBVIOUS
  <1>5. Append(f, p) = f \o s BY AppendIsConcat
  <1> HIDE DEF q, s, t
  <1>6. (f \o s) \o t = f \o (s \o t) BY <1>2, <1>4, ConcatAssociative
  <1> QED BY <1>3, <1>5, <1>6 DEF t, q

-----------------------------------------------------------------------------
(* The kinds of steps. *)

\* What the line is made of.
LEMMA LineTypes ==
  ASSUME TypeOK, Chans, use \in Uses
  PROVE  /\ txFifo \in Seq(Byte) /\ shifter \in Seq(Byte) /\ wire \in Seq(Byte)
         /\ txPtr \in Byte /\ asked \in Seq(Nat) /\ Len(asked) \in Nat /\ ended \in Nat
         /\ txCount \in Nat /\ chan["tx"].left \in Nat /\ Left \in Nat
         /\ Line!Bytes(asked) \in Seq(Byte)
  <1>1. /\ txFifo \in Seq(Byte) /\ shifter \in Seq(Byte) /\ wire \in Seq(Byte)
        /\ txPtr \in Byte /\ ended \in Nat
    <2>1. << >> \in Seq(Byte) OBVIOUS
    <2>2. shifter = << >> \/ shifter \in Seq(Byte) BY DEF TypeOK, Byte
    <2> QED BY <2>1, <2>2 DEF TypeOK, Byte
  <1>2. CountRange \in Nat BY UartAssumption
  <1>3. txCount \in Nat BY <1>2 DEF TypeOK
  <1>4. asked \in Seq(Nat) /\ Len(asked) \in Nat
    <2>1. 0 .. CountRange - 1 \subseteq Nat BY <1>2
    <2>2. asked \in Seq(0 .. CountRange - 1) BY DEF TypeOK
    <2>3. Len(asked) \in Nat /\ asked = [i \in 1 .. Len(asked) |-> asked[i]] BY <2>2
    <2>4. \A i \in 1 .. Len(asked) : asked[i] \in Nat BY <2>1, <2>2, ElementOfSeq
    <2> QED BY <2>3, <2>4
  <1>5. chan["tx"].left \in Nat
    <2>1. "tx" \in Channels BY DEF Channels
    <2>2. chan["tx"] \in Channel BY <2>1 DEF Chans
    <2> QED BY <2>2 DEF Channel
  <1>6. Left \in Nat BY <1>3, <1>5 DEF Left
  <1>7. Line!Bytes(asked) \in Seq(Byte)
    <2>1. 0 \in Nat OBVIOUS
    <2> QED BY <1>4, <2>1, BytesAppend
  <1> QED BY <1>1, <1>3, <1>4, <1>5, <1>6, <1>7

\* Nothing happens on the line.
LEMMA Still ==
  ASSUME LineInv, UNCHANGED <<asked, wire, ended, shifter, txFifo, txPtr, txCount>>,
         chan'["tx"].left = chan["tx"].left, tpc' = "tbr" <=> tpc = "tbr"
  PROVE  LineStep
  <1>1. Left' = Left BY DEF Left, Quiet
  <1>2. LineInv' BY <1>1 DEF LineInv
  <1>3. UNCHANGED Line!lineVars BY DEF Line!lineVars
  <1> QED BY <1>2, <1>3 DEF LineStep

\* Two ends of a sequence that say the same, in two parts each.
Cat(s, t) == s \o t

LEMMA Assoc == \A T : \A s, t, u \in Seq(T) : Cat(Cat(s, t), u) = Cat(s, Cat(t, u))
  BY ConcatAssociative DEF Cat

LEMMA SameEnd ==
  \A T : \A h, f, r, g, v \in Seq(T) :
    Cat(f, r) = Cat(g, v) => Cat(Cat(h, f), r) = Cat(Cat(h, g), v)
  BY Assoc

\* The driver or its channel hands over a byte.
LEMMA Pushed ==
  ASSUME TypeOK, Chans, use \in Uses, LineInv, UNCHANGED <<asked, wire, ended, shifter>>,
         txFifo' = Append(txFifo, txPtr), txPtr' = NextPtr, Left' = Left - 1, Left # 0
  PROVE  LineStep
  <1> DEFINE l == Left
             r == Run(txPtr, l)
             v == Run(NextPtr, l - 1)
             f == Append(txFifo, txPtr)
             h == wire \o shifter
  <1>1. l \in Nat \ {0} /\ txPtr \in Byte /\ txFifo \in Seq(Byte) /\ h \in Seq(Byte)
    BY LineTypes, ConcatProperties
  <1>2. txFifo \o r = f \o v BY <1>1, RunPush DEF NextPtr
  <1>3. r \in Seq(Byte) /\ v \in Seq(Byte) /\ f \in Seq(Byte)
    <2>1. NextPtr \in Byte /\ l - 1 \in Nat BY <1>1 DEF NextPtr, Byte
    <2>2. f \in Seq(Byte) BY <1>1, AppendProperties
    <2> HIDE DEF l, f
    <2>3. r \in Seq(Byte) BY <1>1, RunIs
    <2>4. v \in Seq(Byte) BY <2>1, RunIs
    <2> QED BY <2>2, <2>3, <2>4
  <1>4. LineInv => Line!Bytes(asked) = (h \o txFifo) \o r BY DEF LineInv
  <1>5. LineInv' <=> Len(shifter) <= 1 /\ Line!Bytes(asked) = (h \o f) \o v
    <2>1. Left' = l - 1 OBVIOUS
    <2> HIDE DEF l
    <2> QED BY <2>1 DEF LineInv
  <1> HIDE DEF l, r, v, f, h
  <1>6. Cat(txFifo, r) = Cat(f, v) BY <1>2 DEF Cat
  <1>7. Cat(Cat(h, txFifo), r) = Cat(Cat(h, f), v) BY <1>1, <1>3, <1>6, SameEnd
  <1>8. LineInv' BY <1>4, <1>5, <1>7 DEF LineInv, Cat
  <1>9. UNCHANGED Line!lineVars BY DEF Line!lineVars
  <1> QED BY <1>8, <1>9 DEF LineStep

\* Nothing is left of the last transfer in the buffer: the bytes of a new one follow those in
\* the FIFO.
Lengths == TxSizes \cup UNION {u.polled : u \in Uses}

LEMMA NewTransfer ==
  ASSUME TypeOK, Chans, use \in Uses, LineInv, Left = 0, NEW n \in Nat,
         asked' = Append(asked, n), UNCHANGED <<wire, shifter>>,
         NEW g \in Seq(Byte), NEW v \in Seq(Byte),
         txFifo' = g, Run(txPtr', Left') = v,
         g \o v = txFifo \o Transfer(Len(asked) + 1, n)
  PROVE  LineInv'
  <1> DEFINE r == Transfer(Len(asked) + 1, n)
             h == wire \o shifter
             b == Line!Bytes(asked)
             c == Line!Bytes(Append(asked, n))
  <1>1. txFifo \in Seq(Byte) /\ h \in Seq(Byte) /\ r \in Seq(Byte) /\ b \in Seq(Byte)
    BY LineTypes, ConcatProperties, TransferType
  <1>2. b = (h \o txFifo) \o Run(txPtr, 0) BY DEF LineInv
  <1>3. Run(txPtr, 0) = << >>
    <2>1. txPtr \in Byte /\ 0 \in Nat BY LineTypes
    <2> QED BY <2>1, RunIs
  <1>4. h \o txFifo \in Seq(Byte) BY <1>1, ConcatProperties
  <1>5. b = Cat(h, txFifo) BY <1>2, <1>3, <1>4, ConcatEmptySeq DEF Cat
  <1>6. c = Cat(b, r) BY LineTypes, BytesAppend DEF Cat
  <1>7. Cat(txFifo, r) = Cat(g, v) BY DEF Cat
  <1>8. LineInv' <=> Len(shifter) <= 1 /\ c = Cat(Cat(h, g), v) BY DEF LineInv, Cat
  <1>9. Len(shifter) <= 1 BY DEF LineInv
  <1> HIDE DEF r, h, b, c
  <1>10. Cat(Cat(h, txFifo), r) = Cat(Cat(h, g), v) BY <1>1, <1>7, SameEnd
  <1> QED BY <1>5, <1>6, <1>8, <1>9, <1>10

\* A transfer begins: nothing of it is handed over yet, or its first byte is.
LEMMA Begun ==
  ASSUME TypeOK, Chans, use \in Uses, LineInv, Left = 0, NEW n \in Nat \ {0},
         asked' = Append(asked, n), UNCHANGED <<wire, shifter>>,
         \/ txFifo' = txFifo /\ txPtr' = <<Len(asked) + 1, 1>> /\ Left' = n
         \/ /\ txFifo' = Append(txFifo, <<Len(asked) + 1, 1>>)
            /\ txPtr' = <<Len(asked) + 1, 2>> /\ Left' = n - 1
  PROVE  LineInv'
  <1> DEFINE k == Len(asked) + 1
             p == <<k, 1>>
             q == <<k, 2>>
  <1>1. k \in Nat /\ txFifo \in Seq(Byte) BY LineTypes
  <1>2. p \in Byte /\ q \in Byte /\ q = <<p[1], p[2] + 1>> BY <1>1 DEF Byte
  <1>3. n \in Nat /\ n - 1 \in Nat OBVIOUS
  <1>4. Run(p, n) = Transfer(k, n)
    <2>1. \A i \in 1 .. n : p[2] + i - 1 = i OBVIOUS
    <2> QED BY <2>1 DEF Run, Transfer
  <1>5. Run(p, n) \in Seq(Byte) /\ Run(q, n - 1) \in Seq(Byte)
    <2> HIDE DEF p, q
    <2> QED BY <1>2, <1>3, RunIs
  <1>6. CASE txFifo' = txFifo /\ txPtr' = p /\ Left' = n
    <2>1. Run(txPtr', Left') = Run(p, n) BY <1>6
    <2> HIDE DEF p
    <2> QED BY <1>1, <1>3, <1>4, <1>5, <1>6, <2>1, NewTransfer
  <1>7. CASE txFifo' = Append(txFifo, p) /\ txPtr' = q /\ Left' = n - 1
    <2>1. Run(txPtr', Left') = Run(q, n - 1) BY <1>7
    <2>2. txFifo \o Run(p, n) = Append(txFifo, p) \o Run(q, n - 1)
      <3> HIDE DEF p, q
      <3> QED BY <1>1, <1>2, RunPush
    <2>3. Append(txFifo, p) \in Seq(Byte)
      <3> HIDE DEF p
      <3> QED BY <1>1, <1>2, AppendProperties
    <2> HIDE DEF p, q
    <2> QED BY <1>1, <1>3, <1>4, <1>5, <1>7, <2>1, <2>2, <2>3, NewTransfer
  <1> QED BY <1>6, <1>7

\* The line accepts it.
LEMMA Accepted ==
  ASSUME LineInv', Quiet, NEW n \in Lengths, asked' = Append(asked, n),
         UNCHANGED <<wire, ended>>
  PROVE  LineStep
  BY DEF LineStep, Quiet, Line!LineNext, Line!Accept, Lengths

\* A transfer that has left ends, and the next one may be begun.
LEMMA AllOut ==
  ASSUME TypeOK, Chans, use \in Uses, LineInv, Left = 0, Empty
  PROVE  wire = Line!Bytes(asked)
  <1>1. wire \in Seq(Byte) /\ txPtr \in Byte BY LineTypes
  <1>2. Run(txPtr, 0) = << >> BY <1>1, RunIs
  <1>3. wire \o << >> = wire BY <1>1, ConcatEmptySeq
  <1> QED BY <1>2, <1>3 DEF LineInv, Empty

LEMMA EndedAll ==
  ASSUME TypeOK, Chans, use \in Uses, LineInv, Left = 0, Empty,
         ended + 1 = Len(asked), ended' = ended + 1, wire' = wire, LineInv',
         asked' = asked \/ \E n \in Lengths : asked' = Append(asked, n)
  PROVE  LineStep
  <1>1. wire = Line!Bytes(asked) BY AllOut
  <1>2. ended < Len(asked) /\ ended' = Len(asked) BY LineTypes
  <1>3. Line!End BY <1>1, <1>2 DEF Line!End, Lengths
  <1> QED BY <1>3 DEF LineStep, Line!LineNext

LEMMA EndedLast ==
  ASSUME TypeOK, Chans, use \in Uses, LineInv, Left = 0, Empty,
         ended + 1 = Len(asked), ended' = ended + 1,
         UNCHANGED <<wire, asked, shifter, txFifo, txPtr>>
  PROVE  LineStep
  <1>1. Left' = Left BY DEF Left, Quiet
  <1>2. LineInv' BY <1>1 DEF LineInv
  <1> QED BY <1>2, EndedAll

\* A byte goes to the shift register.
LEMMA Loaded ==
  ASSUME TypeOK, Chans, use \in Uses, LineInv, shifter = << >>, txFifo # << >>,
         shifter' = <<Head(txFifo)>>, txFifo' = Tail(txFifo),
         UNCHANGED <<asked, wire, ended, txPtr, txCount, tpc, chan>>
  PROVE  LineStep
  <1> DEFINE f == txFifo
             s == <<Head(f)>>
             t == Tail(f)
             r == Run(txPtr, Left)
             b == Line!Bytes(asked)
             e == << >>
  <1>1. f \in Seq(Byte) /\ wire \in Seq(Byte) /\ txPtr \in Byte /\ Left \in Nat BY LineTypes
  <1>2. Head(f) \in Byte /\ t \in Seq(Byte) BY <1>1, HeadTailProperties
  <1>3. s \in Seq(Byte) /\ Len(s) = 1 BY <1>2
  <1>4. Cat(s, t) = f BY <1>1, <1>2, <1>3 DEF Cat
  <1>5. e \in Seq(Byte) /\ Cat(e, f) = f BY <1>1, ConcatEmptySeq DEF Cat
  <1>6. b = Cat(Cat(Cat(wire, e), f), r) BY DEF LineInv, Cat
  <1>7. Left' = Left BY DEF Left, Quiet
  <1>8. LineInv' <=> Len(s) <= 1 /\ b = Cat(Cat(Cat(wire, s), t), r)
    BY <1>7 DEF LineInv, Cat
  <1> HIDE DEF s, t, r, b, f, e
  <1>9. Cat(Cat(wire, e), f) = Cat(Cat(wire, s), t)
    <2>1. Cat(e, f) = Cat(s, t) BY <1>4, <1>5
    <2>2. Cat(Cat(wire, e), f) = Cat(wire, Cat(e, f)) BY <1>1, <1>5, Assoc
    <2>3. Cat(Cat(wire, s), t) = Cat(wire, Cat(s, t)) BY <1>1, <1>2, <1>3, Assoc
    <2> QED BY <2>1, <2>2, <2>3
  <1>10. LineInv' BY <1>3, <1>6, <1>8, <1>9
  <1>11. UNCHANGED Line!lineVars BY DEF Line!lineVars
  <1> QED BY <1>10, <1>11 DEF LineStep

\* The byte in it is sent.
LEMMA SentByte ==
  ASSUME TypeOK, Chans, use \in Uses, LineInv, shifter # << >>,
         wire' = wire \o shifter, shifter' = << >>,
         UNCHANGED <<asked, ended, txFifo, txPtr, txCount, tpc, chan>>
  PROVE  LineStep
  <1> DEFINE s == shifter
             f == txFifo
             r == Run(txPtr, Left)
             b == Line!Bytes(asked)
             w == wire \o s
  <1>1. /\ f \in Seq(Byte) /\ wire \in Seq(Byte) /\ s \in Seq(Byte) /\ r \in Seq(Byte)
        /\ b \in Seq(Byte)
    <2>1. txPtr \in Byte /\ Left \in Nat BY LineTypes
    <2>2. r \in Seq(Byte) BY <2>1, RunIs
    <2> QED BY <2>2, LineTypes
  <1>2. Len(s) = 1
    <2> DEFINE n == Len(s)
    <2>1. n <= 1 BY DEF LineInv
    <2>2. n \in Nat /\ n # 0 BY <1>1, Seqs
    <2> HIDE DEF n
    <2>3. n = 1 BY <2>1, <2>2
    <2> QED BY <2>3 DEF n
  <1>3. b = (w \o f) \o r BY DEF LineInv
  <1>4. Left' = Left BY DEF Left, Quiet
  <1>5. LineInv' <=> Len(<< >>) <= 1 /\ b = ((w \o << >>) \o f) \o r
    BY <1>4 DEF LineInv
  <1>6. w \in Seq(Byte) /\ Len(w) = Len(wire) + 1 /\ w[Len(wire) + 1] = s[1]
    <2>1. /\ w \in Seq(Byte) /\ Len(w) = Len(wire) + Len(s)
          /\ \A i \in 1 .. Len(wire) + Len(s) :
               w[i] = IF i <= Len(wire) THEN wire[i] ELSE s[i - Len(wire)]
      BY <1>1, ConcatProperties
    <2>2. Len(wire) \in Nat BY <1>1
    <2>3. Len(wire) + 1 \in 1 .. Len(wire) + Len(s) /\ ~(Len(wire) + 1 <= Len(wire))
          /\ Len(wire) + 1 - Len(wire) = 1
      BY <1>2, <2>2
    <2> QED BY <1>2, <2>1, <2>3
  <1>7. Append(wire, s[1]) = w
    <2>1. s = <<s[1]>> /\ s[1] \in Byte BY <1>1, <1>2
    <2> QED BY <1>1, <2>1, AppendIsConcat
  <1> HIDE DEF s, f, r, b, w
  <1>8. w \o << >> = w BY <1>6, ConcatEmptySeq
  <1>9. LineInv' BY <1>3, <1>5, <1>8
  <1>10. Len(wire) < Len(b) /\ b[Len(wire) + 1] = s[1]
    <2> DEFINE e == f \o r
    <2>1. b = w \o e
      <3>1. Cat(Cat(w, f), r) = Cat(w, Cat(f, r)) BY <1>1, <1>6, Assoc
      <3> QED BY <1>3, <3>1 DEF Cat
    <2>2. e \in Seq(Byte) BY <1>1, ConcatProperties
    <2> HIDE DEF e
    <2>3. /\ Len(b) = Len(w) + Len(e)
          /\ \A i \in 1 .. Len(w) + Len(e) :
               b[i] = IF i <= Len(w) THEN w[i] ELSE e[i - Len(w)]
      BY <1>6, <2>1, <2>2, ConcatProperties
    <2>4. Len(wire) \in Nat /\ Len(w) \in Nat /\ Len(e) \in Nat BY <1>1, <1>6, <2>2
    <2>5. Len(wire) + 1 \in 1 .. Len(w) + Len(e) /\ Len(wire) + 1 <= Len(w)
      BY <1>6, <2>4
    <2> QED BY <1>6, <2>3, <2>4, <2>5
  <1>11. wire' = Append(wire, b[Len(wire) + 1]) BY <1>7, <1>10 DEF w, s
  <1>12. Line!Leave BY <1>10, <1>11 DEF Line!Leave, b
  <1> QED BY <1>9, <1>12 DEF LineStep, Line!LineNext

\* Two ends of the same length follow the same.
LEMMA SameStart ==
  ASSUME NEW T, NEW a \in Seq(T), NEW b \in Seq(T), NEW c \in Seq(T), NEW d \in Seq(T),
         Len(b) = Len(d), Cat(a, b) = Cat(c, d)
  PROVE  a = c
  <1> DEFINE x == Cat(a, b)
             y == Cat(c, d)
  <1>1. /\ Len(x) = Len(a) + Len(b)
        /\ \A i \in 1 .. Len(a) + Len(b) : x[i] = IF i <= Len(a) THEN a[i] ELSE b[i - Len(a)]
    BY ConcatProperties DEF Cat
  <1>2. /\ Len(y) = Len(c) + Len(d)
        /\ \A i \in 1 .. Len(c) + Len(d) : y[i] = IF i <= Len(c) THEN c[i] ELSE d[i - Len(c)]
    BY ConcatProperties DEF Cat
  <1>3. x = y OBVIOUS
  <1>4. Len(a) \in Nat /\ Len(b) \in Nat /\ Len(c) \in Nat /\ Len(d) \in Nat OBVIOUS
  <1> HIDE DEF x, y
  <1>5. Len(a) = Len(c) BY <1>1, <1>2, <1>3, <1>4
  <1>6. \A i \in 1 .. Len(a) : a[i] = c[i]
    <2> SUFFICES ASSUME NEW i \in 1 .. Len(a) PROVE a[i] = c[i] OBVIOUS
    <2>1. i \in 1 .. Len(a) + Len(b) /\ i \in 1 .. Len(c) + Len(d) /\ i <= Len(c)
      BY <1>4, <1>5
    <2> QED BY <1>1, <1>2, <1>3, <2>1
  <1> QED BY <1>5, <1>6, SeqEqual

\* The bytes of a transfer in two parts.
LEMMA TransferParts ==
  ASSUME NEW k \in Nat, NEW m \in Nat, NEW c \in 0 .. m
  PROVE  \E e \in Seq(Byte) : Len(e) = c /\ Transfer(k, m) = Cat(Transfer(k, m - c), e)
  <1> DEFINE u == Transfer(k, m)
             t == Transfer(k, m - c)
             e == [i \in 1 .. c |-> <<k, m - c + i>>]
  <1>1. m - c \in Nat /\ c \in Nat OBVIOUS
  <1>2. u \in Seq(Byte) /\ Len(u) = m /\ t \in Seq(Byte) /\ Len(t) = m - c
    BY <1>1, TransferType
  <1>3. e \in Seq(Byte) /\ Len(e) = c
    <2>1. \A i \in 1 .. c : <<k, m - c + i>> \in Byte BY DEF Byte
    <2> QED BY <1>1, <2>1
  <1>4. \A i \in 1 .. m : u[i] = <<k, i>> BY DEF Transfer
  <1>5. \A i \in 1 .. m - c : t[i] = <<k, i>> BY DEF Transfer
  <1>6. \A i \in 1 .. c : e[i] = <<k, m - c + i>> OBVIOUS
  <1> HIDE DEF u, t, e
  <1> DEFINE x == Cat(t, e)
  <1>7. /\ x \in Seq(Byte) /\ Len(x) = Len(t) + Len(e)
        /\ \A i \in 1 .. Len(t) + Len(e) : x[i] = IF i <= Len(t) THEN t[i] ELSE e[i - Len(t)]
    BY <1>2, <1>3, ConcatProperties DEF Cat
  <1> HIDE DEF x
  <1>8. Len(t) + Len(e) = m BY <1>2, <1>3
  <1>9. \A i \in 1 .. m : x[i] = u[i]
    <2> SUFFICES ASSUME NEW i \in 1 .. m PROVE x[i] = u[i] OBVIOUS
    <2>1. CASE i <= m - c
      <3>1. i \in 1 .. m - c BY <1>1, <2>1
      <3>2. x[i] = t[i] BY <1>2, <1>7, <1>8, <2>1
      <3> QED BY <1>4, <1>5, <3>1, <3>2
    <2>2. CASE ~(i <= m - c)
      <3>1. i - (m - c) \in 1 .. c /\ m - c + (i - (m - c)) = i BY <1>1, <2>2
      <3>2. x[i] = e[i - (m - c)] BY <1>2, <1>7, <1>8, <2>2
      <3>3. e[i - (m - c)] = <<k, m - c + (i - (m - c))>> BY <1>6, <3>1
      <3> QED BY <1>4, <3>1, <3>2, <3>3
    <2> QED BY <2>1, <2>2
  <1>10. x = u BY <1>2, <1>7, <1>8, <1>9, SeqEqual
  <1> QED BY <1>3, <1>10 DEF u, t, x

\* A call that waits gives up.
LEMMA GivenUp ==
  ASSUME TypeOK, Chans, use \in Uses, LineInv, ended + 1 = Len(asked), ended' = ended + 1,
         Left = txCount, txCount <= asked[Len(asked)],
         asked' = [asked EXCEPT ![Len(asked)] = @ - txCount],
         UNCHANGED <<wire, shifter, txFifo, txPtr>>
  PROVE  LineStep
  <1> DEFINE l == Len(asked)
             c == txCount
             m == asked[l]
             w == wire \o shifter
             v == w \o txFifo
             r == Run(txPtr, c)
  <1>1. /\ asked \in Seq(Nat) /\ l \in Nat /\ c \in Nat /\ txFifo \in Seq(Byte)
        /\ wire \in Seq(Byte) /\ shifter \in Seq(Byte) /\ txPtr \in Byte /\ ended \in Nat
    BY LineTypes
  <1>2. PICK a \in Seq(Nat), z \in Nat : asked = Append(a, z)
    <2>1. asked # << >> BY <1>1, Seqs
    <2> QED BY <1>1, <2>1, SequenceEmptyOrAppend
  <1>3. /\ m = z /\ Len(a) \in Nat /\ l = Len(a) + 1 /\ l \in 1 .. l
        /\ z - c \in Nat /\ c \in 0 .. z
    <2>1. m = z /\ Len(a) \in Nat /\ l = Len(a) + 1 BY <1>2
    <2> QED BY <1>1, <2>1
  <1>4. asked' = Append(a, z - c)
    <2> DEFINE x == [asked EXCEPT ![l] = @ - c]
               y == Append(a, z - c)
    <2>1. x \in Seq(Nat) /\ Len(x) = l /\ x[l] = z - c
          /\ \A i \in 1 .. l : i # l => x[i] = asked[i]
      BY <1>1, <1>3
    <2>2. y \in Seq(Nat) /\ Len(y) = l /\ y[l] = z - c /\ \A i \in 1 .. Len(a) : y[i] = a[i]
      BY <1>3
    <2>3. \A i \in 1 .. Len(a) : asked[i] = a[i] BY <1>2
    <2>4. asked' = x OBVIOUS
    <2> HIDE DEF x, y
    <2>5. \A i \in 1 .. l : x[i] = y[i]
      <3> SUFFICES ASSUME NEW i \in 1 .. l PROVE x[i] = y[i] OBVIOUS
      <3>1. i # l => i \in 1 .. Len(a) BY <1>3
      <3> QED BY <2>1, <2>2, <2>3, <3>1
    <2>6. x = y BY <2>1, <2>2, <2>5, SeqEqual
    <2> QED BY <2>4, <2>6 DEF y
  <1> DEFINE b == Line!Bytes(a)
             t == Transfer(l, z)
             u == Transfer(l, z - c)
             d == Line!Bytes(Append(a, z - c))
  <1>5. b \in Seq(Byte) /\ Line!Bytes(asked) = Cat(b, t) /\ d = Cat(b, u)
    <2>1. Line!Bytes(Append(a, z)) = b \o Transfer(Len(a) + 1, z) BY BytesAppend
    <2>2. d = b \o Transfer(Len(a) + 1, z - c) BY <1>3, BytesAppend
    <2>3. b \in Seq(Byte) BY BytesAppend
    <2> HIDE DEF b, d, l
    <2> QED BY <1>2, <1>3, <2>1, <2>2, <2>3 DEF Cat
  <1>6. u \in Seq(Byte) BY <1>1, <1>3, TransferType
  <1>7. r \in Seq(Byte) /\ Len(r) = c BY <1>1, RunIs
  <1>8. PICK e \in Seq(Byte) : Len(e) = c /\ t = Cat(u, e) BY <1>1, <1>3, TransferParts
  <1>9. Line!Bytes(asked) = Cat(v, r) BY DEF LineInv, Cat
  <1>10. v \in Seq(Byte) /\ Len(wire) <= Len(v)
    <2>1. w \in Seq(Byte) /\ Len(w) = Len(wire) + Len(shifter) BY <1>1, ConcatProperties
    <2> HIDE DEF w
    <2>2. v \in Seq(Byte) /\ Len(v) = Len(w) + Len(txFifo) BY <1>1, <2>1, ConcatProperties
    <2>3. Len(wire) \in Nat /\ Len(shifter) \in Nat /\ Len(txFifo) \in Nat /\ Len(w) \in Nat
      BY <1>1, <2>1
    <2> HIDE DEF v
    <2> QED BY <2>1, <2>2, <2>3
  <1>11. d = v
    <2> HIDE DEF b, t, u, d, v, w, r, l, c
    <2>1. Cat(Cat(b, u), e) = Cat(b, Cat(u, e)) BY <1>5, <1>6, Assoc
    <2>2. d \in Seq(Byte) BY <1>5, <1>6, ConcatProperties DEF Cat
    <2>3. Cat(d, e) = Cat(v, r) BY <1>5, <1>8, <1>9, <2>1
    <2>4. Len(e) = Len(r) BY <1>7, <1>8
    <2> QED BY <1>7, <1>10, <2>2, <2>3, <2>4, SameStart
  <1>12. LineInv'
    <2>1. l = Len(asked') BY <1>3, <1>4
    <2>2. Left' = 0 BY <2>1 DEF Left, Quiet
    <2>3. Run(txPtr, 0) = << >> BY <1>1, RunIs
    <2>4. v \o << >> = v BY <1>10, ConcatEmptySeq
    <2> QED BY <1>4, <1>11, <2>2, <2>3, <2>4 DEF LineInv
  <1>13. Line!GiveUp
    <2>1. z - c \in 0 .. asked[ended'] BY <1>1, <1>3
    <2>2. asked' = [asked EXCEPT ![ended'] = z - c] BY <1>3
    <2>3. Len(wire) <= Len(Line!Bytes(asked')) BY <1>4, <1>10, <1>11
    <2> QED BY <2>1, <2>2, <2>3 DEF Line!GiveUp
  <1> QED BY <1>12, <1>13 DEF LineStep, Line!LineNext

-----------------------------------------------------------------------------
(* Every step of the driver is one of the line. *)

\* While HAL_UART_Transmit_IT is under way, its first byte is not handed over yet.
LEMMA InTransmit ==
  ASSUME UInv, tpc \notin {"idle", "check"}
  PROVE  ByIt /\ Empty /\ ~Quiet /\ chan["tx"].left = 0
  <1>1. Interrupts /\ ~Quiet BY DEF UInv, Rest, Kept
  <1>2. gState = "BUSY_TX" BY <1>1 DEF UInv, Moving, ByDma, TypeOK
  <1>3. ByIt BY <1>1, <1>2 DEF ByIt
  <1>4. Empty BY <1>3 DEF UInv, Starting
  <1>5. chan["tx"].left = 0 BY DEF UInv, OneWay, Chans, Sound, Channels
  <1> QED BY <1>1, <1>3, <1>4, <1>5

\* When UART_EndTransmit_IT or UART_EndTransmit_IT_DMA is due, all has left.
LEMMA Complete ==
  ASSUME UInv, ipc = "tc", "TC" \in flags
  PROVE  /\ ended + 1 = Len(asked) /\ Out /\ Left = 0 /\ Interrupts
         /\ chan["tx"].left = 0 /\ tpc \in {"idle", "check"}
  <1>1. Interrupts /\ "TC" \in rif BY DEF UInv, Kept, Raised
  <1>2. ~Quiet BY <1>1 DEF UInv, Rest
  <1>3. tpc \in {"idle", "check"} BY <1>1, InTransmit DEF UInv, Starting
  <1>4. Out /\ chan["tx"].left = 0
    <2>1. CASE ByIt
      <3>1. Out BY <1>1, <1>3, <2>1 DEF UInv, Filling
      <3>2. chan["tx"].left = 0 BY <2>1 DEF UInv, OneWay, Chans, Sound, Channels
      <3> QED BY <3>1, <3>2
    <2>2. CASE ByDma BY <1>1, <2>2 DEF UInv, Moving, Chans, Sound, Channels
    <2> QED BY <1>1, <1>2, <2>1, <2>2 DEF ByIt, ByDma, UInv, TypeOK
  <1>5. ended + 1 = Len(asked)
    <2>1. ended \in Nat /\ Len(asked) \in Nat BY LineTypes DEF UInv, Kept
    <2> QED BY <1>2, <2>1 DEF UInv, Rest, Quiet
  <1>6. Left = 0 BY <1>3, <1>4 DEF Left, Out
  <1> QED BY <1>1, <1>3, <1>4, <1>5, <1>6

\* What touches the registers, the handler's variables or the receiver only.
LEMMA RegistersLine ==
  ASSUME LineInv, UNCHANGED chan,
         \/ FcrRead \/ FcrWrite \/ IcrWrite \/ IerWrite \/ CountRead \/ Check
         \/ IsrEnter \/ IsrTxs \/ IsrRx \/ IsrRead \/ IsrReadDone \/ Arrive
  PROVE  LineStep
  <1>1. CASE FcrRead BY <1>1, Still DEF FcrRead, Thread, handle, regs, fifos, thread, isr, history
  <1>2. CASE FcrWrite BY <1>2, Still DEF FcrWrite, Thread, handle, regs, fifos, thread, isr, history
  <1>3. CASE IcrWrite BY <1>3, Still DEF IcrWrite, Thread, handle, regs, fifos, thread, isr, history
  <1>4. CASE IerWrite BY <1>4, Still DEF IerWrite, Thread, handle, regs, fifos, thread, isr, history
  <1>5. CASE CountRead BY <1>5, Still DEF CountRead, Thread, handle, regs, fifos, thread, isr, history
  <1>6. CASE Check BY <1>6, Still DEF Check, Thread, handle, regs, fifos, thread, isr, history
  <1>7. CASE IsrEnter BY <1>7, Still DEF IsrEnter, handle, regs, fifos, thread, isr, history
  <1>8. CASE IsrTxs BY <1>8, Still DEF IsrTxs, handle, regs, fifos, thread, isr, history
  <1>9. CASE IsrRx BY <1>9, Still DEF IsrRx, handle, regs, fifos, thread, isr, history
  <1>10. CASE IsrRead BY <1>10, Still DEF IsrRead, handle, regs, fifos, thread, isr, history
  <1>11. CASE IsrReadDone BY <1>11, Still DEF IsrReadDone, handle, regs, fifos, thread, isr, history
  <1>12. CASE Arrive BY <1>12, Still DEF Arrive, handle, regs, fifos, thread, isr, history
  <1> QED BY <1>1, <1>2, <1>3, <1>4, <1>5, <1>6, <1>7, <1>8, <1>9, <1>10, <1>11, <1>12

\* XferCount-- and TBR = *pBuffPtr++: the byte leaves the count first, then the buffer.
LEMMA ModTaken ==
  ASSUME NEW r \in Nat \ {0}, NEW n \in 1 .. r - 1
  PROVE  (n + r - 1) % r = n - 1
  <1> DEFINE x == n - 1
  <1>1. x \in Int /\ r \in Int /\ 0 <= x /\ x < r /\ n + r - 1 = x + 1 * r OBVIOUS
  <1> HIDE DEF x
  <1>2. (x + 1 * r) % r = x BY <1>1
  <1> QED BY <1>1, <1>2 DEF x

LEMMA CountWriteLine ==
  ASSUME UInv, LineInv, CountWrite, UNCHANGED chan
  PROVE  LineStep
  <1>1. ByIt /\ ~Quiet /\ tpc = "countWrite" /\ tpc' = "tbr"
    BY InTransmit DEF CountWrite, Thread
  <1>2. tmp = txCount /\ txCount > 0 BY <1>1 DEF UInv, Starting
  <1>3. txCount \in 1 .. CountRange - 1 /\ CountRange \in Nat \ {0}
    BY <1>2, UartAssumption DEF UInv, TypeOK
  <1>4. txCount' = txCount - 1 BY <1>2, <1>3, ModTaken DEF CountWrite
  <1>5. chan["tx"].left \in Nat /\ txCount \in Nat BY LineTypes DEF UInv, Kept
  <1>6. UNCHANGED <<asked, wire, ended, shifter, txFifo, txPtr>>
    BY DEF CountWrite, Thread, fifos, history
  <1>7. Left' = Left BY <1>1, <1>4, <1>5, <1>6 DEF Left, Quiet
  <1>8. LineInv' BY <1>6, <1>7 DEF LineInv
  <1>9. UNCHANGED Line!lineVars BY <1>6 DEF Line!lineVars
  <1> QED BY <1>8, <1>9 DEF LineStep

LEMMA TbrWriteLine ==
  ASSUME UInv, LineInv, TbrWrite, UNCHANGED chan
  PROVE  LineStep
  <1>1. Empty /\ ~Quiet /\ chan["tx"].left = 0 /\ tpc = "tbr" /\ tpc' = "check"
    BY InTransmit DEF TbrWrite, Thread
  <1>2. TypeOK /\ Chans /\ use \in Uses BY DEF UInv, Kept
  <1>3. NotFull BY <1>1, <1>2, Room DEF Empty
  <1>4. UNCHANGED <<asked, wire, ended, shifter, txCount>>
    BY DEF TbrWrite, Thread, history
  <1>5. txCount \in Nat BY <1>2, LineTypes
  <1>6. Left' = Left - 1 /\ Left # 0 BY <1>1, <1>4, <1>5 DEF Left, Quiet
  <1> QED BY <1>2, <1>3, <1>4, <1>6, Pushed DEF TbrWrite, Thread

\* UART_Transmit_IT's loop.
LEMMA IsrPushLine ==
  ASSUME UInv, LineInv, IsrPush, UNCHANGED chan
  PROVE  LineStep
  <1>1. TypeOK /\ Chans /\ use \in Uses BY DEF UInv, Kept
  <1>2. UNCHANGED <<asked, wire, ended, shifter, tpc>> BY DEF IsrPush, thread, history
  <1>3. CASE NotFull /\ txCount # 0
    <2>1. ~Quiet BY DEF UInv, Rest, Kept, IsrPush
    <2>2. txCount \in Nat /\ chan["tx"].left \in Nat BY <1>1, LineTypes
    <2>3. txCount' = txCount - 1 /\ tpc \in {"idle", "check"}
      BY <1>3, InTransmit DEF IsrPush, UInv, Starting
    <2>4. Left' = Left - 1 /\ Left # 0 BY <1>2, <1>3, <2>1, <2>2, <2>3 DEF Left, Quiet
    <2> QED BY <1>1, <1>2, <1>3, <2>4, Pushed DEF IsrPush
  <1>4. CASE ~(NotFull /\ txCount # 0) BY <1>2, <1>4, Still DEF IsrPush
  <1> QED BY <1>3, <1>4

\* The controller hands over a byte, or takes one.
LEMMA DmaTxLine ==
  ASSUME UInv, LineInv, DmaTx, UsesApart
  PROVE  LineStep
  <1>1. TypeOK /\ Chans /\ use \in Uses BY DEF UInv, Kept
  <1>2. UNCHANGED <<asked, wire, ended, shifter, tpc, txCount>>
    BY DEF DmaTx, thread, history
  <1>3. /\ chan["tx"].on /\ chan["tx"].left \in Nat \ {0} /\ txCount \in Nat
        /\ chan'["tx"].left = chan["tx"].left - 1
    <2>1. "tx" \in Channels BY DEF Channels
    <2>2. chan["tx"].left \in Nat /\ txCount \in Nat /\ chan["tx"].left > 0
      BY <1>1, LineTypes DEF DmaTx, TxWanted
    <2>3. chan["tx"].on /\ Moved("tx")["tx"].left = chan["tx"].left - 1
      BY <1>1, <2>1, <2>2, MovedSound DEF Chans
    <2> QED BY <2>2, <2>3 DEF DmaTx
  <1>4. ~Quiet
    <2>1. Interrupts
      <3>1. use.dma BY <1>3 DEF UInv, Kept, Channels
      <3> QED BY <1>1, <3>1 DEF UsesApart, Interrupts
    <2> QED BY <1>3, <2>1 DEF UInv, Rest
  <1>5. Left' = Left - 1 /\ Left # 0 BY <1>2, <1>3, <1>4 DEF Left, Quiet
  <1> QED BY <1>1, <1>2, <1>5, Pushed DEF DmaTx

LEMMA DmaRxLine ==
  ASSUME UInv, LineInv, DmaRx
  PROVE  LineStep
  <1>1. "rx" \in Channels /\ "tx" \in Channels BY DEF Channels
  <1>2. chan["rx"].left > 0 /\ chan \in [Channels -> Channel] /\ Sound(chan["rx"])
    BY <1>1 DEF UInv, Chans, DmaRx
  <1>3. chan'["tx"] = chan["tx"] BY <1>1, <1>2, MovedSound DEF DmaRx
  <1> QED BY <1>3, Still DEF DmaRx, handle, thread, history

\* Transfers are begun: in the main program ...
LEMMA ByInterruptLine ==
  ASSUME UInv, LineInv, ByInterrupt
  PROVE  LineStep
  <1>1. TypeOK /\ Chans /\ use \in Uses BY DEF UInv, Kept
  <1>2. PICK n \in TxSizes : TransmitStart(n) BY DEF ByInterrupt
  <1>3. n \in Nat \ {0} /\ n \in Lengths BY UartAssumption DEF Lengths
  <1>4. Quiet /\ Left = 0 BY DEF ByInterrupt, Quiet, Left
  <1>5. Len(asked') = Len(asked) + 1 /\ Len(asked) \in Nat
    <2>1. asked \in Seq(Nat) BY <1>1, LineTypes
    <2> QED BY <1>2, <1>3, <2>1 DEF TransmitStart
  <1>6. ~Quiet' BY <1>2, <1>4, <1>5 DEF Quiet, TransmitStart
  <1>7. chan["tx"].left = 0
    BY <1>2, <1>4 DEF UInv, Rest, Chans, Sound, Channels, TransmitStart, Interrupts
  <1>8. Left' = n
    <2>1. chan' = chan /\ txCount' = n /\ tpc' = "fcrRead" BY <1>2 DEF ByInterrupt, TransmitStart
    <2> QED BY <1>3, <1>6, <1>7, <2>1 DEF Left
  <1>9. /\ asked' = Append(asked, n) /\ UNCHANGED <<wire, ended, shifter>>
        /\ txFifo' = txFifo /\ txPtr' = <<Len(asked) + 1, 1>>
    BY <1>2 DEF TransmitStart, fifos
  <1>10. LineInv' BY <1>1, <1>3, <1>4, <1>8, <1>9, Begun
  <1> QED BY <1>3, <1>4, <1>9, <1>10, Accepted

\* ... by the calls that wait, ...
LEMMA PolledTransmitLine ==
  ASSUME UInv, LineInv, NEW n \in use.polled, PolledTransmit(n),
         UNCHANGED <<regs, thread, isr, arrived, use, dmaen, chan>>, UsesApart
  PROVE  LineStep
  <1>1. TypeOK /\ Chans /\ use \in Uses BY DEF UInv, Kept
  <1>2. n \in Nat \ {0} /\ n \in Lengths BY <1>1, UartAssumption DEF Lengths
  <1>3. ~Interrupts BY DEF Interrupts
  <1>4. Quiet /\ Left = 0 BY <1>3 DEF UInv, Rest, PolledTransmit, Left
  <1>5. Len(asked') = Len(asked) + 1 /\ Len(asked) \in Nat
    <2>1. asked \in Seq(Nat) BY <1>1, LineTypes
    <2> QED BY <1>2, <2>1 DEF PolledTransmit
  <1>6. ~Quiet' BY <1>4, <1>5 DEF Quiet, PolledTransmit, history
  <1>7. chan["tx"].left = 0 /\ tpc = "idle"
    BY <1>1, <1>3 DEF UInv, Kept, UsesApart, Interrupts, Chans, Sound, Channels
  <1>8. Left' = n
    <2>1. chan' = chan /\ txCount' = n /\ tpc' = "idle" BY <1>7 DEF PolledTransmit, thread
    <2> QED BY <1>2, <1>6, <1>7, <2>1 DEF Left
  <1>9. /\ asked' = Append(asked, n) /\ UNCHANGED <<wire, ended, shifter>>
        /\ txFifo' = txFifo /\ txPtr' = <<Len(asked) + 1, 1>>
    BY DEF PolledTransmit, fifos
  <1>10. LineInv' BY <1>1, <1>2, <1>4, <1>8, <1>9, Begun
  <1> QED BY <1>2, <1>4, <1>9, <1>10, Accepted

\* ... by a callback of the interrupt handler, with its first byte, ...
LEMMA FromIsrBegun ==
  ASSUME TypeOK, Chans, use \in Uses, LineInv, Left = 0, txFifo = << >>,
         NEW n \in TxSizes, TransmitFromIsr(n), UNCHANGED <<wire, shifter, tpc, chan>>,
         chan["tx"].left = 0, tpc # "tbr", ended' = Len(asked)
  PROVE  LineInv' /\ asked' = Append(asked, n) /\ n \in Lengths
  <1>1. n \in Nat \ {0} /\ n \in Lengths BY UartAssumption DEF Lengths
  <1>2. NotFull BY Room
  <1>3. Len(asked') = Len(asked) + 1 /\ Len(asked) \in Nat /\ asked' = Append(asked, n)
    <2>1. asked \in Seq(Nat) BY LineTypes
    <2> QED BY <1>1, <2>1 DEF TransmitFromIsr
  <1>4. ~Quiet' BY <1>3 DEF Quiet
  <1>5. txCount' = n - 1 /\ txPtr' = <<Len(asked) + 1, 2>>
        /\ txFifo' = Append(txFifo, <<Len(asked) + 1, 1>>)
    BY <1>2 DEF TransmitFromIsr
  <1>6. Left' = n - 1 BY <1>1, <1>4, <1>5 DEF Left
  <1> QED BY <1>1, <1>3, <1>5, <1>6, Begun

LEMMA IsrReadLastLine ==
  ASSUME UInv, LineInv, IsrReadLast, UsesApart, UNCHANGED chan
  PROVE  LineStep
  <1>1. TypeOK /\ Chans /\ use \in Uses BY DEF UInv, Kept
  <1>2. CASE NoTransmit(gState)
    BY <1>2, Still DEF IsrReadLast, NoTransmit, thread
  <1>3. CASE /\ use.txFromIsr /\ gState = "READY"
             /\ \E n \in TxSizes : TransmitFromIsr(n)
    <2>1. PICK n \in TxSizes : TransmitFromIsr(n) BY <1>3
    <2>2. Interrupts BY DEF UInv, Kept, IsrReadLast
    <2>3. Quiet BY <1>1, <1>3, <2>2 DEF UInv, Rest, ByDma, Moving, UsesApart, TypeOK
    <2>4. Out /\ ~chan["tx"].on BY <2>2, <2>3 DEF UInv, Rest
    <2>5. chan["tx"].left = 0 /\ tpc = "idle"
      BY <1>1, <1>3, <2>4 DEF Chans, Sound, Channels, UInv, Kept
    <2>6. UNCHANGED <<wire, shifter, tpc, ended>> BY DEF IsrReadLast, thread
    <2>7. Left = 0 /\ txFifo = << >> /\ ended' = Len(asked)
      BY <2>3, <2>4, <2>6 DEF Left, Out, Empty, Quiet
    <2>8. LineInv' /\ asked' = Append(asked, n) /\ n \in Lengths
      BY <1>1, <2>1, <2>5, <2>6, <2>7, FromIsrBegun
    <2> QED BY <2>3, <2>6, <2>8, Accepted
  <1>4. NoTransmit(gState) \/ /\ use.txFromIsr /\ gState = "READY"
                              /\ \E n \in TxSizes : TransmitFromIsr(n)
    BY DEF IsrReadLast
  <1> QED BY <1>2, <1>3, <1>4

\* UART_EndTransmit_IT.
LEMMA IsrTcLine ==
  ASSUME UInv, LineInv, IsrTc, UNCHANGED chan
  PROVE  LineStep
  <1>1. TypeOK /\ Chans /\ use \in Uses BY DEF UInv, Kept
  <1>2. UNCHANGED <<wire, shifter, tpc>> BY DEF IsrTc, thread
  <1>3. CASE "TC" \notin flags BY <1>2, <1>3, Still DEF IsrTc
  <1>4. CASE "TC" \in flags
    <2>1. /\ ended + 1 = Len(asked) /\ Out /\ Left = 0
          /\ chan["tx"].left = 0 /\ tpc \in {"idle", "check"}
      BY <1>4, Complete DEF IsrTc
    <2>2. ended' = ended + 1 /\ Empty BY <1>4, <2>1 DEF IsrTc, Out
    <2>3. CASE NoTransmit("READY")
      BY <1>1, <1>2, <2>1, <2>2, <2>3, EndedLast DEF NoTransmit
    <2>4. CASE \E n \in TxSizes : TransmitFromIsr(n)
      <3>1. PICK n \in TxSizes : TransmitFromIsr(n) BY <2>4
      <3>2. LineInv' /\ asked' = Append(asked, n) /\ n \in Lengths
        BY <1>1, <1>2, <2>1, <2>2, <3>1, FromIsrBegun DEF Empty
      <3> QED BY <1>1, <1>2, <2>1, <2>2, <3>2, EndedAll
    <2> QED BY <1>4, <2>3, <2>4 DEF IsrTc
  <1> QED BY <1>3, <1>4

\* ... and by DMA.
LEMMA DmaBegun ==
  ASSUME TypeOK, Chans, use \in Uses, LineInv, Left = 0, txCount = 0, tpc # "tbr",
         NEW ch \in [Channels -> Channel], NEW n \in TxSizes, TransmitDma(ch, n),
         UNCHANGED <<wire, shifter, txFifo, txCount, tpc>>
  PROVE  LineInv' /\ asked' = Append(asked, n) /\ n \in Lengths /\ ended' = Len(asked)
  <1>1. n \in Nat \ {0} /\ n \in Lengths BY UartAssumption DEF Lengths
  <1>2. Len(asked') = Len(asked) + 1 /\ Len(asked) \in Nat /\ asked' = Append(asked, n)
    <2>1. asked \in Seq(Nat) BY LineTypes
    <2> QED BY <1>1, <2>1 DEF TransmitDma
  <1>3. ended' = Len(asked) /\ ~Quiet' BY <1>2 DEF Quiet, TransmitDma
  <1>4. chan'["tx"].left = n
    <2>1. "tx" \in Channels BY DEF Channels
    <2>2. chan'["tx"] = Started(n) BY <1>1, <2>1, StartedSound, Update DEF TransmitDma
    <2> QED BY <1>1, <2>2, StartedSound
  <1>5. Left' = n BY <1>1, <1>3, <1>4 DEF Left
  <1>6. txPtr' = <<Len(asked) + 1, 1>> BY DEF TransmitDma
  <1>7. LineInv' BY <1>1, <1>2, <1>5, <1>6, Begun
  <1> QED BY <1>1, <1>2, <1>3, <1>7

LEMMA DmaReceives ==
  ASSUME NEW ch \in [Channels -> Channel], NEW n \in RxDmaSizes, ReceiveDma(ch, n)
  PROVE  chan'["tx"] = ch["tx"] /\ UNCHANGED <<asked, txPtr>>
  <1>1. n \in Nat \ {0} /\ "tx" \in Channels /\ "rx" \in Channels
    BY UartDmaAssumption DEF Channels
  <1>2. Started(n) \in Channel BY <1>1, StartedSound
  <1>3. chan' = [ch EXCEPT !["rx"] = Started(n)] BY DEF ReceiveDma
  <1>4. chan'["tx"] = ch["tx"] BY <1>1, <1>2, <1>3, Update
  <1> QED BY <1>4 DEF ReceiveDma

\* What the application does in the main program and in the callback of a reception.
LEMMA DmaStartsLine ==
  ASSUME UInv, UsesApart, LineInv, use.dma, tpc = "idle",
         NEW ch \in [Channels -> Channel], ch["tx"].left = chan["tx"].left,
         NEW raised, Callback(ch, raised), ended' = ended,
         UNCHANGED <<wire, shifter, txFifo, txCount, tpc>>
  PROVE  LineStep
  <1>1. TypeOK /\ Chans /\ use \in Uses BY DEF UInv, Kept
  <1>2. Interrupts BY <1>1 DEF UsesApart, Interrupts
  <1>3. CASE \E n \in TxSizes : TransmitDma(ch, n)
    <2>1. PICK n \in TxSizes : TransmitDma(ch, n) BY <1>3
    <2>2. Quiet BY <2>1 DEF TransmitDma, Quiet
    <2>3. Left = 0 /\ txCount = 0 BY <1>2, <2>2 DEF UInv, Rest, Out, Left
    <2>4. LineInv' /\ asked' = Append(asked, n) /\ n \in Lengths
      BY <1>1, <2>1, <2>3, DmaBegun
    <2> QED BY <2>2, <2>4, Accepted
  <1>4. CASE \E n \in RxDmaSizes : ReceiveDma(ch, n)
    <2>1. chan'["tx"] = ch["tx"] /\ UNCHANGED <<asked, txPtr>> BY <1>4, DmaReceives
    <2> QED BY <2>1, Still
  <1>5. CASE chan' = ch /\ UNCHANGED <<asked, txPtr, dmaen>>
    BY <1>5, Still
  <1> QED BY <1>3, <1>4, <1>5 DEF Callback, Starts

LEMMA DmaStartLine ==
  ASSUME UInv, UsesApart, LineInv, DmaStart
  PROVE  LineStep
  <1>1. chan \in [Channels -> Channel] BY DEF UInv, Chans
  <1>2. /\ use.dma /\ tpc = "idle" /\ ended' = ended /\ Callback(chan, rif)
        /\ UNCHANGED <<wire, shifter, txFifo, txCount, tpc>>
    BY DEF DmaStart, Callback, fifos, thread
  <1> QED BY <1>1, <1>2, DmaStartsLine

LEMMA DmaIsrLine ==
  ASSUME UInv, UsesApart, LineInv, NEW c \in Channels, DmaIsr(c)
  PROVE  LineStep
  <1>1. chan \in [Channels -> Channel] /\ Sound(chan[c]) /\ chan[c].done
    BY DEF UInv, Chans, DmaIsr
  <1>2. /\ Handled(c) \in [Channels -> Channel] /\ chan[c].on
        /\ chan[c].left = 0 /\ Handled(c)[c].left = 0
        /\ \A d \in Channels : d # c => Handled(c)[d] = chan[d]
    BY <1>1, HandledSound
  <1>3. Handled(c)["tx"].left = chan["tx"].left
    <2>1. "tx" \in Channels BY DEF Channels
    <2> QED BY <1>2, <2>1
  <1>4. ended' = ended /\ UNCHANGED <<wire, shifter, txFifo, txCount, tpc>>
    BY DEF DmaIsr, fifos, thread
  <1>5. CASE c = "tx"
    <2>1. chan' = Handled(c) /\ UNCHANGED <<asked, txPtr>> BY <1>5 DEF DmaIsr
    <2> QED BY <1>3, <1>4, <2>1, Still
  <1>6. CASE c = "rx"
    <2>1. Callback(Handled(c), rif) BY <1>6 DEF DmaIsr
    <2>2. use.dma /\ TypeOK /\ use \in Uses BY <1>2 DEF UInv, Kept
    <2>3. tpc = "idle" BY <1>2 DEF UInv, OneWay
    <2> QED BY <1>2, <1>3, <1>4, <2>1, <2>2, <2>3, DmaStartsLine
  <1> QED BY <1>5, <1>6 DEF Channels

\* UART_EndTransmit_IT_DMA.
LEMMA IsrTcDmaLine ==
  ASSUME UInv, UsesApart, LineInv, IsrTcDma
  PROVE  LineStep
  <1>1. TypeOK /\ Chans /\ use \in Uses /\ chan \in [Channels -> Channel]
    BY DEF UInv, Kept, Chans
  <1>2. UNCHANGED <<wire, shifter, txFifo, txCount, tpc>> BY DEF IsrTcDma, fifos, thread
  <1>3. CASE "TC" \notin flags BY <1>2, <1>3, Still DEF IsrTcDma
  <1>4. CASE "TC" \in flags
    <2>1. /\ ended + 1 = Len(asked) /\ Out /\ Left = 0 /\ tpc \in {"idle", "check"}
      BY <1>4, Complete DEF IsrTcDma
    <2>2. ended' = ended + 1 /\ Empty /\ txCount = 0 /\ Callback(chan, rif \ {"TC"})
      BY <1>4, <2>1 DEF IsrTcDma, Out
    <2>3. CASE \E n \in TxSizes : TransmitDma(chan, n)
      <3>1. PICK n \in TxSizes : TransmitDma(chan, n) BY <2>3
      <3>2. LineInv' /\ asked' = Append(asked, n) /\ n \in Lengths
        BY <1>1, <1>2, <2>1, <2>2, <3>1, DmaBegun
      <3> QED BY <1>1, <1>2, <2>1, <2>2, <3>2, EndedAll
    <2>4. CASE UNCHANGED <<asked, txPtr>>
      BY <1>1, <1>2, <2>1, <2>2, <2>4, EndedLast
    <2>5. (\E n \in RxDmaSizes : ReceiveDma(chan, n)) => UNCHANGED <<asked, txPtr>>
      BY <1>1, DmaReceives
    <2> QED BY <2>2, <2>3, <2>4, <2>5 DEF Callback, Starts
  <1> QED BY <1>3, <1>4

\* The calls that wait; nothing else is under way.
LEMMA Waiting ==
  ASSUME UInv, UsesApart, wait # "no"
  PROVE  /\ TypeOK /\ Chans /\ use \in Uses /\ ~Interrupts
         /\ chan["tx"].left = 0 /\ tpc = "idle"
         /\ Transmitting => ~Quiet /\ ~Receiving /\ ended + 1 = Len(asked) /\ Left = txCount
  <1>1. TypeOK /\ Chans /\ use \in Uses /\ ~Interrupts BY DEF UInv, Kept
  <1>2. chan["tx"].left = 0 /\ tpc = "idle"
    BY <1>1 DEF UInv, Kept, UsesApart, Interrupts, Chans, Sound, Channels
  <1>3. ASSUME Transmitting
        PROVE  ~Quiet /\ ~Receiving /\ ended + 1 = Len(asked) /\ Left = txCount
    <2>1. ~Quiet /\ ~Receiving
      BY <1>1, <1>3 DEF UInv, Rest, OneCall, Transmitting, Receiving
    <2>2. ended \in Nat /\ Len(asked) \in Nat /\ txCount \in Nat BY <1>1, LineTypes
    <2>3. ended + 1 = Len(asked) BY <2>1, <2>2 DEF UInv, Rest, Quiet
    <2>4. Left = txCount BY <1>2, <2>1, <2>2 DEF Left
    <2> QED BY <2>1, <2>3, <2>4
  <1> QED BY <1>1, <1>2, <1>3

LEMMA PolledByteLine ==
  ASSUME UInv, UsesApart, LineInv, PolledByte, UNCHANGED <<thread, chan>>
  PROVE  LineStep
  <1>1. Transmitting /\ txCount > 0 BY DEF PolledByte
  <1>2. /\ TypeOK /\ Chans /\ use \in Uses /\ chan["tx"].left = 0 /\ tpc = "idle"
        /\ ~Quiet /\ Left = txCount
    BY <1>1, Waiting DEF Transmitting
  <1>3. txCount \in Nat BY <1>2, LineTypes
  <1>4. UNCHANGED <<asked, wire, ended, shifter, tpc, chan>> BY DEF PolledByte, history, thread
  <1>5. txCount' = txCount - 1 BY DEF PolledByte
  <1>6. Left' = Left - 1 /\ Left # 0 BY <1>1, <1>2, <1>3, <1>4, <1>5 DEF Left, Quiet
  <1> QED BY <1>2, <1>4, <1>6, Pushed DEF PolledByte

LEMMA PolledDoneLine ==
  ASSUME UInv, UsesApart, LineInv, PolledDone, UNCHANGED <<thread, chan>>
  PROVE  LineStep
  <1>1. Transmitting /\ txCount = 0 BY DEF PolledDone
  <1>2. /\ TypeOK /\ Chans /\ use \in Uses /\ ~Receiving
        /\ ended + 1 = Len(asked) /\ Left = txCount
    BY <1>1, Waiting DEF Transmitting
  <1>3. Empty BY <1>1, <1>2 DEF PolledDone, Flag, Empty
  <1>4. ended' = ended + 1 /\ UNCHANGED <<wire, asked, shifter, txFifo, txPtr>>
    BY DEF PolledDone, fifos
  <1> QED BY <1>1, <1>2, <1>3, <1>4, EndedLast

\* HAL_TIMEOUT.
LEMMA PolledNotLine ==
  ASSUME UInv, UsesApart, LineInv, PolledNot, UNCHANGED <<thread, chan>>
  PROVE  LineStep
  <1>1. wait # "no" BY DEF PolledNot
  <1>2. UNCHANGED <<wire, shifter, txFifo, txPtr, txCount, tpc>> BY DEF PolledNot, fifos, thread
  <1>3. CASE expired' /\ Transmitting
    <2>1. /\ TypeOK /\ Chans /\ use \in Uses /\ ~Interrupts /\ ~Quiet
          /\ ended + 1 = Len(asked) /\ Left = txCount
      BY <1>1, <1>3, Waiting
    <2>2. txCount <= asked[Len(asked)] BY <2>1 DEF UInv, Rest
    <2>3. ended' = ended + 1 /\ asked' = [asked EXCEPT ![Len(asked)] = @ - txCount]
      BY <1>3 DEF PolledNot, GiveUp
    <2> QED BY <1>2, <2>1, <2>2, <2>3, GivenUp
  <1>4. CASE ~(expired' /\ Transmitting)
    <2>1. UNCHANGED <<asked, ended>> BY <1>4 DEF PolledNot, GiveUp
    <2> QED BY <1>2, <2>1, Still
  <1> QED BY <1>3, <1>4

\* All of them.
LEMMA PolledLine ==
  ASSUME UInv, UsesApart, LineInv, Polled
  PROVE  LineStep
  <1>1. UNCHANGED <<regs, thread, isr, arrived, use, dmaen, chan>> BY DEF Polled
  <1>2. CASE \E n \in use.polled : PolledTransmit(n)
    BY <1>1, <1>2, PolledTransmitLine
  <1>3. CASE \E n \in use.polled : PolledReceive(n)
    BY <1>1, <1>3, Still DEF PolledReceive, fifos, history, thread
  <1>4. CASE PolledByte BY <1>1, <1>4, PolledByteLine
  <1>5. CASE PolledDone BY <1>1, <1>5, PolledDoneLine
  <1>6. CASE PolledRead BY <1>1, <1>6, Still DEF PolledRead, history, thread
  <1>7. CASE PolledNot BY <1>1, <1>7, PolledNotLine
  <1> QED BY <1>2, <1>3, <1>4, <1>5, <1>6, <1>7 DEF Polled

LEMMA DmaNextLine ==
  ASSUME UInv, UsesApart, LineInv, DmaNext
  PROVE  LineStep
  <1>1. TypeOK /\ Chans /\ use \in Uses BY DEF UInv, Kept
  <1>2. CASE ByInterrupt BY <1>2, ByInterruptLine
  <1>3. CASE ReceiveByInterrupt
    BY <1>3, Still DEF ReceiveByInterrupt, ReceiveStart, fifos, thread, history
  <1>4. CASE Transmit /\ UNCHANGED <<dmaen, chan>>
    BY <1>4, RegistersLine, CountWriteLine, TbrWriteLine DEF Transmit
  <1>5. CASE IsrIt /\ UNCHANGED <<dmaen, chan>>
    BY <1>5, RegistersLine, IsrPushLine, IsrTcLine, IsrReadLastLine DEF IsrIt
  <1>6. CASE Load /\ UNCHANGED <<dmaen, chan>>
    BY <1>1, <1>6, Loaded DEF Load, handle, thread, history
  <1>7. CASE SentDma /\ UNCHANGED <<dmaen, chan>>
    BY <1>1, <1>7, SentByte DEF SentDma, Sent, handle, thread
  <1>8. CASE Arrive /\ UNCHANGED <<dmaen, chan>> BY <1>8, RegistersLine
  <1>9. CASE DmaStart \/ DmaTx \/ DmaRx BY <1>9, DmaStartLine, DmaTxLine, DmaRxLine
  <1>10. CASE IsrDma
    <2>1. CASE IsrTxsDma BY <2>1, Still DEF IsrTxsDma, handle, fifos, thread, history
    <2>2. CASE IsrTcDma BY <2>2, IsrTcDmaLine
    <2>3. CASE DmaIsrEnter BY <2>3, Still DEF DmaIsrEnter, handle, fifos, thread, history
    <2>4. CASE \E c \in Channels : DmaIsr(c) BY <2>4, DmaIsrLine
    <2> QED BY <1>10, <2>1, <2>2, <2>3, <2>4 DEF IsrDma
  <1> QED BY <1>2, <1>3, <1>4, <1>5, <1>6, <1>7, <1>8, <1>9, <1>10 DEF DmaNext

LEMMA LineStarts ==
  ASSUME PolledInit
  PROVE  LineInv /\ Line!LineInit
  <1>1. /\ asked = << >> /\ wire = << >> /\ shifter = << >> /\ txFifo = << >> /\ ended = 0
        /\ txPtr = <<0, 0>>
    BY DEF PolledInit, DmaInit, Init
  <1>2. Line!LineInit BY <1>1 DEF Line!LineInit
  <1>3. Left = 0 BY <1>1 DEF Left, Quiet
  <1>4. Run(txPtr, 0) = << >>
    <2>1. txPtr \in Byte /\ 0 \in Nat BY <1>1 DEF Byte
    <2> QED BY <2>1, RunIs
  <1>5. << >> \o << >> = << >> BY ConcatEmptySeq
  <1> QED BY <1>1, <1>2, <1>3, <1>4, <1>5, BytesEmpty DEF LineInv

\* The driver implements the line: by interrupt, by DMA and by polling, the bytes of the
\* transfers leave once each and in order, and no transfer ends before its last byte has left.
THEOREM ThreeWaysOneLine ==
  ASSUME Prompt, UsesApart
  PROVE  PolledSpec => LineSpec
  <1>1. PolledInit => UInv /\ LineInv /\ Line!LineInit BY InitInv, LineStarts
  <1>2. UInv /\ LineInv /\ [PolledNext]_pvars
          => UInv' /\ LineInv' /\ [Line!LineNext]_(Line!lineVars)
    <2> SUFFICES ASSUME UInv, LineInv, [PolledNext]_pvars
                 PROVE  UInv' /\ LineStep
      BY DEF LineStep
    <2>1. CASE DmaNext /\ UNCHANGED <<tickVars, calls, cut>>
      BY <2>1, DmaNextKeeps, DmaNextLine
    <2>2. CASE Polled BY <2>2, PolledKeeps, PolledLine
    <2>3. CASE UNCHANGED pvars
      BY <2>3, StutterKeeps, Still DEF pvars, dvars, vars, handle, fifos, thread, history
    <2> QED BY <2>1, <2>2, <2>3 DEF PolledNext
  <1> QED BY <1>1, <1>2, PTL DEF PolledSpec, LineSpec, Line!LineSpec
=============================================================================
