-------------------------- MODULE UartServer_proof --------------------------
(***************************************************************************)
(* Proofs about UartServer for every size of the buffer and every MTU: the  *)
(* types, that bytes are notified once and in order, that a notification    *)
(* fits the link, and, when the peer writes nothing empty, that "busy"      *)
(* means that the UART transmits.                                           *)
(***************************************************************************)
EXTENDS UartServer, SequenceTheorems, TLAPS

\* The interrupt is masked exactly while the timer works on the buffer.
Masking == masked <=> pc \in {"ntf", "send", "shift"}

\* What has been taken out is still in the buffer, beside what is left.
Room == pc \in {"send", "shift"} => len + index <= BufferSize

\* The bridge knows what the link can carry, and takes no more.
MtuKnown ==
    /\ data = linkData
    /\ pc = "send" => len <= linkData
    /\ pc = "shift" => longest <= linkData

IInv == TypeOK /\ Masking /\ Room /\ MtuKnown /\ InOrder

-----------------------------------------------------------------------------

\* The length of a notification.
LEMMA LeastType ==
  ASSUME NEW a \in Nat, NEW b \in Nat, NEW c \in Nat
  PROVE  Least({a, b, c}) \in {a, b, c} /\ Least({a, b, c}) <= a /\ Least({a, b, c}) <= b
  <1> DEFINE S == {a, b, c}
  <1>1. \E x \in S : \A y \in S : x <= y
    <2>1. CASE a <= b /\ a <= c BY <2>1
    <2>2. CASE b <= a /\ b <= c BY <2>2
    <2>3. CASE c <= a /\ c <= b BY <2>3
    <2>q. QED BY <2>1, <2>2, <2>3
  <1>2. Least(S) \in S /\ \A y \in S : Least(S) <= y BY <1>1 DEF Least
  <1>q. QED BY <1>2

\* A part of the buffer, as a sequence.
Part(b, from, n) == [i \in 1 .. n |-> b[from + i - 1]]

LEMMA FunctionIsSeq ==
  ASSUME NEW S, NEW n \in Nat, NEW f \in [1 .. n -> S] PROVE f \in Seq(S) /\ Len(f) = n
  OBVIOUS

LEMMA PartType ==
  ASSUME NEW b \in [0 .. BufferSize - 1 -> Nat], NEW from \in Nat, NEW n \in Nat,
         from + n <= BufferSize
  PROVE  Part(b, from, n) \in Seq(Nat) /\ Len(Part(b, from, n)) = n
  <1>1. \A i \in 1 .. n : from + i - 1 \in 0 .. BufferSize - 1 BY ServerAssumption
  <1>2. Part(b, from, n) \in [1 .. n -> Nat] BY <1>1 DEF Part
  <1>q. QED BY <1>2, FunctionIsSeq

\* What is stored is the parts of the buffer that have not been handed over.
LEMMA HeldParts ==
  ASSUME TypeOK
  PROVE  /\ pc = "send" => Held = Part(buffer, 0, len + index)
         /\ pc = "shift" => Held = Part(buffer, len, index)
         /\ pc \notin {"send", "shift"} => Held = Part(buffer, 0, index)
  <1>1. index \in Nat /\ len \in Nat BY DEF TypeOK
  <1>2. \A i \in 1 .. index : i + len - 1 = len + i - 1 BY <1>1
  <1>3. \A i \in Int : i - 1 = 0 + i - 1 OBVIOUS
  <1>4. ASSUME pc = "send" PROVE Held = Part(buffer, 0, len + index)
    BY <1>4, <1>1, <1>3 DEF Held, Part
  <1>5. ASSUME pc = "shift" PROVE Held = Part(buffer, len, index)
    BY <1>5, <1>1, <1>2 DEF Held, Part
  <1>6. ASSUME pc \notin {"send", "shift"} PROVE Held = Part(buffer, 0, index)
    <2>1. Held = [i \in 1 .. index |-> buffer[i - 1]] BY <1>6 DEF Held
    <2>q. QED BY <2>1, <1>1, <1>3 DEF Part
  <1>q. QED BY <1>4, <1>5, <1>6

\* Splitting a part.
LEMMA PartSplit ==
  ASSUME NEW b \in [0 .. BufferSize - 1 -> Nat], NEW m \in Nat, NEW n \in Nat, m + n <= BufferSize
  PROVE  Part(b, 0, m + n) = Part(b, 0, m) \o Part(b, m, n)
  <1> DEFINE s == Part(b, 0, m + n)
             t == Part(b, 0, m)
             u == Part(b, m, n)
  <1>1. /\ s \in Seq(Nat) /\ Len(s) = m + n /\ t \in Seq(Nat) /\ Len(t) = m
        /\ u \in Seq(Nat) /\ Len(u) = n
    <2>1. s \in Seq(Nat) /\ Len(s) = m + n BY PartType
    <2>2. t \in Seq(Nat) /\ Len(t) = m
      <3>1. 0 + m <= BufferSize BY ServerAssumption
      <3>q. QED BY <3>1, PartType
    <2>3. u \in Seq(Nat) /\ Len(u) = n BY PartType
    <2>q. QED BY <2>1, <2>2, <2>3
  <1>2. /\ \A i \in 1 .. m + n : s[i] = b[0 + i - 1]
        /\ \A i \in 1 .. m : t[i] = b[0 + i - 1]
        /\ \A i \in 1 .. n : u[i] = b[m + i - 1]
    BY DEF Part
  <1> HIDE DEF s, t, u
  <1>3. /\ t \o u \in Seq(Nat) /\ Len(t \o u) = Len(t) + Len(u)
        /\ \A i \in 1 .. Len(t) + Len(u) :
              (t \o u)[i] = IF i <= Len(t) THEN t[i] ELSE u[i - Len(t)]
    <2>1. t \in Seq(Nat) /\ u \in Seq(Nat) BY <1>1
    <2>q. QED BY <2>1, ConcatProperties
  <1>4. Len(t \o u) = m + n BY <1>1, <1>3
  <1>5. ASSUME NEW i \in 1 .. Len(s) PROVE s[i] = (t \o u)[i]
    <2>1. i \in 1 .. Len(t) + Len(u) /\ i \in 1 .. m + n BY <1>1
    <2>2. s[i] = b[0 + i - 1] BY <2>1, <1>2
    <2>3. (t \o u)[i] = IF i <= Len(t) THEN t[i] ELSE u[i - Len(t)] BY <2>1, <1>3
    <2>4. CASE i <= m
      <3>1. t[i] = b[0 + i - 1] BY <2>4, <2>1, <1>2
      <3>q. QED BY <2>2, <2>3, <2>4, <3>1, <1>1
    <2>5. CASE i > m
      <3>1. i - m \in 1 .. n BY <2>5, <2>1
      <3>2. u[i - m] = b[m + (i - m) - 1] BY <3>1, <1>2
      <3>3. m + (i - m) - 1 = 0 + i - 1 BY <2>1
      <3>q. QED BY <2>2, <2>3, <2>5, <3>2, <3>3, <1>1, <2>1
    <2>q. QED BY <2>1, <2>4, <2>5
  <1>6. s = t \o u BY <1>1, <1>3, <1>4, <1>5, SeqEqual
  <1>q. QED BY <1>6 DEF s, t, u

-----------------------------------------------------------------------------
(* One lemma per action. *)

\* Order does not suffer while the buffer rests and is not being taken from.
LEMMA OrderKept ==
  ASSUME IInv, TypeOK', UNCHANGED <<buffer, index, notified, received>>,
         \/ pc \notin {"send", "shift"} /\ pc' \notin {"send", "shift"}
         \/ UNCHANGED <<pc, len>>
  PROVE  InOrder'
  <1>1. Held' = Held
    <2>1. CASE pc \notin {"send", "shift"} /\ pc' \notin {"send", "shift"}
      <3>1. Held = [i \in 1 .. index |-> buffer[i - 1]] BY <2>1 DEF Held
      <3>2. Held' = [i \in 1 .. index' |-> buffer'[i - 1]] BY <2>1 DEF Held
      <3>q. QED BY <3>1, <3>2
    <2>2. CASE UNCHANGED <<pc, len>> BY <2>2 DEF Held
    <2>q. QED BY <2>1, <2>2
  <1>q. QED BY <1>1 DEF IInv, InOrder

LEMMA LinkInv ==
  ASSUME IInv, Connect \/ Disconnect \/ \E d \in DataLens : MtuChanged(d)
  PROVE  IInv'
  <1>1. /\ TypeOK /\ pc = "idle" /\ UNCHANGED rxVars
        /\ UNCHANGED <<ntfDone, notified, longest, txVars, pc, len, masked>>
        /\ connected' \in BOOLEAN /\ links' \in Nat /\ inAir' \in BOOLEAN
        /\ data' \in Nat \ {0} /\ linkData' = data'
    <2>1. CASE Connect
      BY <2>1 DEF Connect, IInv, TypeOK, MtuKnown, ntfVars
    <2>2. CASE Disconnect
      <3>1. /\ TypeOK /\ pc = "idle" /\ UNCHANGED rxVars
            /\ UNCHANGED <<ntfDone, notified, longest, txVars, pc, len, masked, links>>
            /\ connected' = FALSE /\ inAir' = (inAir /\ DoneWhenLost)
            /\ data' = DefaultData /\ linkData' = DefaultData
        BY <2>2 DEF Disconnect, IInv
      <3>2. links' \in Nat /\ data' \in Nat \ {0}
        BY <3>1, ServerAssumption DEF TypeOK
      <3>3. connected' \in BOOLEAN /\ inAir' \in BOOLEAN BY <3>1, Zenon
      <3>q. QED BY <3>1, <3>2, <3>3
    <2>3. CASE \E d \in DataLens : MtuChanged(d)
      BY <2>3, ServerAssumption DEF MtuChanged, IInv, TypeOK, ntfVars
    <2>q. QED BY <2>1, <2>2, <2>3
  <1>2. TypeOK' BY <1>1, Zenon DEF TypeOK, rxVars, txVars
  <1>3. InOrder' BY <1>1, <1>2, OrderKept DEF rxVars
  <1>q. QED BY <1>1, <1>2, <1>3 DEF IInv, Masking, Room, MtuKnown, rxVars

LEMMA NotificationDoneInv == ASSUME IInv, NotificationDone PROVE IInv'
  <1>1. /\ TypeOK /\ pc = "idle" /\ inAir' = FALSE /\ ntfDone' = TRUE
        /\ UNCHANGED <<linkVars, rxVars, notified, longest, txVars, pc, len, masked>>
    BY DEF IInv, NotificationDone
  <1>2. TypeOK' BY <1>1, Zenon DEF TypeOK, rxVars, txVars, linkVars
  <1>3. InOrder' BY <1>1, <1>2, OrderKept DEF rxVars
  <1>q. QED BY <1>1, <1>2, <1>3 DEF IInv, Masking, Room, MtuKnown, rxVars, linkVars

\* The interrupt appends to what is stored, and does not come while that moves.
LEMMA RxCpltInv == ASSUME IInv, RxCplt PROVE IInv'
  <1>1. /\ TypeOK /\ ~masked
        /\ UNCHANGED <<linkVars, ntfVars, txVars, pc, len, masked>>
    BY DEF IInv, RxCplt
  <1>2. pc \in {"idle", "transmit"} BY <1>1 DEF IInv, Masking, TypeOK
  <1>3. CASE index < BufferSize
    <2> DEFINE x == Len(received) + 1
    <2>1. /\ buffer' = [buffer EXCEPT ![index] = x] /\ index' = index + 1
          /\ received' = Append(received, x)
      BY <1>3 DEF RxCplt
    <2>2. /\ index \in 0 .. BufferSize - 1 /\ BufferSize \in Nat /\ received \in Seq(Nat) /\ x \in Nat
          /\ buffer \in [0 .. BufferSize - 1 -> Nat] /\ notified \in Seq(Nat)
      BY <1>1, <1>3, ServerAssumption DEF TypeOK
    <2> HIDE DEF x
    <2>3. /\ buffer' \in [0 .. BufferSize - 1 -> Nat] /\ index' \in 0 .. BufferSize
          /\ received' \in Seq(Nat)
          /\ \A k \in 0 .. BufferSize - 1 : buffer'[k] = IF k = index THEN x ELSE buffer[k]
      BY <2>1, <2>2
    <2>4. TypeOK' BY <2>3, <1>1, Zenon DEF TypeOK, linkVars, ntfVars, txVars
    <2>5. Held = Part(buffer, 0, index) /\ Held' = Part(buffer', 0, index')
      <3>1. Held = [i \in 1 .. index |-> buffer[i - 1]] BY <1>2 DEF Held
      <3>2. Held' = [i \in 1 .. index' |-> buffer'[i - 1]] BY <1>1, <1>2 DEF Held
      <3>3. \A i \in Int : i - 1 = 0 + i - 1 OBVIOUS
      <3>q. QED BY <3>1, <3>2, <3>3, <2>2, <2>3 DEF Part
    <2>6. Held' = Append(Held, x)
      <3>1. /\ Held \in Seq(Nat) /\ Len(Held) = index
        <4>1. 0 + index <= BufferSize /\ index \in Nat BY <2>2
        <4>2. Part(buffer, 0, index) \in Seq(Nat) /\ Len(Part(buffer, 0, index)) = index
          BY <4>1, <2>2, PartType
        <4>q. QED BY <4>2, <2>5
      <3>2. Held' \in Seq(Nat) /\ Len(Held') = index + 1
        <4>1. 0 + index' <= BufferSize /\ index' \in Nat BY <2>1, <2>2
        <4>2. Part(buffer', 0, index') \in Seq(Nat) /\ Len(Part(buffer', 0, index')) = index'
          BY <4>1, <2>3, PartType
        <4>q. QED BY <4>2, <2>1, <2>5
      <3>3. /\ Append(Held, x) \in Seq(Nat) /\ Len(Append(Held, x)) = index + 1
            /\ \A i \in 1 .. index : Append(Held, x)[i] = Held[i]
            /\ Append(Held, x)[index + 1] = x
        BY <3>1, <2>2, AppendProperties
      <3>4. ASSUME NEW i \in 1 .. index + 1 PROVE Held'[i] = Append(Held, x)[i]
        <4>1. Held'[i] = buffer'[0 + i - 1] BY <2>1, <2>5 DEF Part
        <4>2. i - 1 \in 0 .. BufferSize - 1 /\ 0 + i - 1 = i - 1 BY <2>2
        <4>3. CASE i = index + 1
          BY <4>1, <4>2, <4>3, <3>3, <2>2, <2>3
        <4>4. CASE i # index + 1
          <5>1. i \in 1 .. index /\ i - 1 # index BY <4>4, <2>2
          <5>2. Held[i] = buffer[0 + i - 1] BY <5>1, <2>5 DEF Part
          <5>q. QED BY <5>1, <5>2, <4>1, <4>2, <3>3, <2>3
        <4>q. QED BY <4>3, <4>4
      <3>q. QED BY <3>2, <3>3, <3>4, SeqEqual
    <2>7. InOrder'
      <3>1. Held \in Seq(Nat)
        <4>1. 0 + index <= BufferSize /\ index \in Nat BY <2>2
        <4>2. Part(buffer, 0, index) \in Seq(Nat) /\ Len(Part(buffer, 0, index)) = index
          BY <4>1, <2>2, PartType
        <4>q. QED BY <4>2, <2>5
      <3>2. <<x>> \in Seq(Nat) BY <2>2
      <3>3. /\ Append(Held, x) = Held \o <<x>> /\ Append(received, x) = received \o <<x>>
        BY <3>1, <2>2, AppendIsConcat
      <3>4. notified \o (Held \o <<x>>) = (notified \o Held) \o <<x>>
        BY <3>1, <3>2, <2>2, ConcatAssociative
      <3>5. notified \o Held = received BY DEF IInv, InOrder
      <3>q. QED BY <3>3, <3>4, <3>5, <2>1, <2>6, <1>1 DEF InOrder, ntfVars
    <2>q. QED BY <1>1, <1>2, <2>4, <2>7 DEF IInv, Masking, Room, MtuKnown, linkVars, ntfVars
  <1>4. CASE ~(index < BufferSize)
    <2>1. UNCHANGED rxVars BY <1>4 DEF RxCplt
    <2>2. TypeOK' BY <1>1, <2>1, Zenon DEF TypeOK, rxVars, linkVars, ntfVars, txVars
    <2>3. InOrder' BY <1>1, <2>1, <2>2, OrderKept DEF rxVars, ntfVars
    <2>q. QED BY <1>1, <1>2, <2>1, <2>2, <2>3 DEF IInv, Masking, Room, MtuKnown, linkVars, ntfVars
  <1>q. QED BY <1>3, <1>4

LEMMA TimerInv == ASSUME IInv, Timer PROVE IInv'
  <1>1. /\ TypeOK /\ pc = "idle" /\ pc' = "ntf" /\ masked' = TRUE
        /\ UNCHANGED <<linkVars, rxVars, ntfVars, txVars, len>>
    BY DEF IInv, Timer
  <1>2. TypeOK' BY <1>1, Zenon DEF TypeOK, linkVars, rxVars, ntfVars, txVars
  <1>3. InOrder' BY <1>1, <1>2, OrderKept DEF rxVars, ntfVars
  <1>4. Masking'
    <2>1. masked' /\ pc' \in {"ntf", "send", "shift"} BY <1>1
    <2>q. QED BY <2>1, Zenon DEF Masking
  <1>q. QED BY <1>1, <1>2, <1>3, <1>4 DEF IInv, Room, MtuKnown, linkVars, ntfVars

LEMMA NtfTakeInv == ASSUME IInv, NtfTake PROVE IInv'
  <1>1. /\ TypeOK /\ pc = "ntf" /\ index > 0 /\ ntfDone' = FALSE
        /\ len' = Least({index, data, MaxData}) /\ index' = index - len' /\ pc' = "send"
        /\ UNCHANGED <<linkVars, buffer, received, inAir, notified, longest, txVars, masked>>
    BY DEF IInv, NtfTake
  <1>2. /\ index \in 0 .. BufferSize /\ data \in Nat /\ MaxData \in Nat /\ BufferSize \in Nat
    BY <1>1, ServerAssumption DEF TypeOK
  <1>3. len' \in Nat /\ len' <= index /\ len' <= data BY <1>1, <1>2, LeastType
  <1>4. /\ index' \in 0 .. BufferSize /\ len' \in 0 .. BufferSize /\ len' + index' = index
        /\ ntfDone' \in BOOLEAN
    <2>1. ntfDone' \in BOOLEAN BY <1>1, Zenon
    <2>q. QED BY <2>1, <1>1, <1>2, <1>3
  <1>5. TypeOK'
    <2>1. pc' \in {"idle", "ntf", "send", "shift", "transmit"} BY <1>1
    <2>q. QED BY <2>1, <1>1, <1>4, Zenon DEF TypeOK, linkVars, txVars
  <1>6. InOrder'
    <2>1. Held = Part(buffer, 0, index) BY <1>1, HeldParts
    <2>2. pc' = "send" => Held' = Part(buffer', 0, len' + index')
      <3>1. index' \in Nat /\ len' \in Nat BY <1>4
      <3>2. \A i \in Int : i - 1 = 0 + i - 1 OBVIOUS
      <3>q. QED BY <3>1, <3>2 DEF Held, Part
    <2>3. Held' = Held BY <2>1, <2>2, <1>1, <1>4
    <2>q. QED BY <2>3, <1>1 DEF IInv, InOrder
  <1>7. Masking' BY <1>1 DEF IInv, Masking
  <1>8. Room' /\ MtuKnown'
    BY <1>1, <1>2, <1>3, <1>4 DEF IInv, Room, MtuKnown, linkVars
  <1>q. QED BY <1>5, <1>6, <1>7, <1>8 DEF IInv

LEMMA NtfNoneInv == ASSUME IInv, NtfNone PROVE IInv'
  <1>1. /\ TypeOK /\ pc = "ntf" /\ pc' = "idle" /\ masked' = FALSE
        /\ UNCHANGED <<linkVars, rxVars, ntfVars, txVars, len>>
    BY DEF IInv, NtfNone
  <1>2. TypeOK' BY <1>1, Zenon DEF TypeOK, linkVars, rxVars, ntfVars, txVars
  <1>3. InOrder' BY <1>1, <1>2, OrderKept DEF rxVars, ntfVars
  <1>4. Masking'
    <2>1. ~masked' /\ pc' \notin {"ntf", "send", "shift"} BY <1>1
    <2>q. QED BY <2>1, Zenon DEF Masking
  <1>q. QED BY <1>1, <1>2, <1>3, <1>4 DEF IInv, Room, MtuKnown, linkVars, ntfVars

LEMMA NtfSendInv == ASSUME IInv, NtfSend PROVE IInv'
  <1>1. /\ TypeOK /\ pc = "send" /\ pc' = "shift" /\ longest' = len /\ inAir' = TRUE
        /\ notified' = notified \o [i \in 1 .. len |-> buffer[i - 1]]
        /\ UNCHANGED <<linkVars, rxVars, ntfDone, txVars, len, masked>>
    BY DEF IInv, NtfSend
  <1>2. /\ index \in Nat /\ len \in Nat /\ buffer \in [0 .. BufferSize - 1 -> Nat]
        /\ notified \in Seq(Nat) /\ received \in Seq(Nat) /\ BufferSize \in Nat
        /\ len + index <= BufferSize /\ len \in 0 .. BufferSize
    BY <1>1, ServerAssumption DEF TypeOK, IInv, Room
  <1> DEFINE a == Part(buffer, 0, len)
             b == Part(buffer, len, index)
  <1>3. [i \in 1 .. len |-> buffer[i - 1]] = a
    <2>1. \A i \in Int : i - 1 = 0 + i - 1 OBVIOUS
    <2>q. QED BY <2>1, <1>2 DEF Part
  <1>4. a \in Seq(Nat)
    <2>1. 0 + len <= BufferSize BY <1>2
    <2>q. QED BY <2>1, <1>2, PartType
  <1>5. b \in Seq(Nat) BY <1>2, PartType
  <1>6. Held = Part(buffer, 0, len + index) BY <1>1, HeldParts
  <1>7. Held = a \o b BY <1>2, <1>6, PartSplit
  <1>8. Held' = b
    <2>1. \A i \in 1 .. index : i + len - 1 = len + i - 1 BY <1>2
    <2>q. QED BY <2>1, <1>1 DEF Held, Part, rxVars
  <1> HIDE DEF a, b
  <1>9. (notified \o a) \o b = notified \o (a \o b)
    <2>1. notified \in Seq(Nat) BY <1>2
    <2>q. QED BY <2>1, <1>4, <1>5, ConcatAssociative
  <1>10. InOrder'
    <2>1. notified' = notified \o a /\ received' = received BY <1>1, <1>3 DEF rxVars
    <2>2. notified \o Held = received BY DEF IInv, InOrder
    <2>q. QED BY <2>1, <2>2, <1>7, <1>8, <1>9 DEF InOrder
  <1>11. TypeOK'
    <2>1. notified' \in Seq(Nat) BY <1>1, <1>2, <1>3, <1>4, ConcatProperties
    <2>2. inAir' \in BOOLEAN /\ longest' \in Nat BY <1>1, <1>2
    <2>3. pc' \in {"idle", "ntf", "send", "shift", "transmit"} BY <1>1
    <2>q. QED BY <2>1, <2>2, <2>3, <1>1, Zenon DEF TypeOK, linkVars, rxVars, txVars
  <1>12. Masking' BY <1>1 DEF IInv, Masking
  <1>13. Room' /\ MtuKnown'
    BY <1>1, <1>2 DEF IInv, Room, MtuKnown, linkVars, rxVars
  <1>q. QED BY <1>10, <1>11, <1>12, <1>13 DEF IInv

LEMMA NtfShiftInv == ASSUME IInv, NtfShift PROVE IInv'
  <1>1. /\ TypeOK /\ pc = "shift" /\ pc' = "idle" /\ masked' = FALSE /\ len' = 0
        /\ buffer' = [i \in 0 .. BufferSize - 1 |->
                        IF i < index THEN buffer[i + len] ELSE buffer[i]]
        /\ UNCHANGED <<linkVars, index, received, ntfVars, txVars>>
    BY DEF IInv, NtfShift
  <1>2. /\ index \in Nat /\ len \in Nat /\ buffer \in [0 .. BufferSize - 1 -> Nat]
        /\ BufferSize \in Nat /\ len + index <= BufferSize
    BY <1>1, ServerAssumption DEF TypeOK, IInv, Room
  <1>3. buffer' \in [0 .. BufferSize - 1 -> Nat] BY <1>1, <1>2
  <1>4. Held' = Held
    <2>1. Held = Part(buffer, len, index) BY <1>1, HeldParts
    <2>2. Held' = [i \in 1 .. index |-> buffer'[i - 1]] BY <1>1 DEF Held
    <2>3. ASSUME NEW i \in 1 .. index PROVE buffer'[i - 1] = buffer[len + i - 1]
      <3>1. i - 1 \in 0 .. BufferSize - 1 /\ i - 1 < index /\ (i - 1) + len = len + i - 1 BY <1>2
      <3>q. QED BY <3>1, <1>1
    <2>q. QED BY <2>1, <2>2, <2>3 DEF Part
  <1>5. TypeOK'
    <2>1. pc' \in {"idle", "ntf", "send", "shift", "transmit"} /\ len' \in 0 .. BufferSize
      BY <1>1, <1>2
    <2>2. masked' \in BOOLEAN BY <1>1, Zenon
    <2>q. QED BY <2>1, <2>2, <1>1, <1>3, Zenon DEF TypeOK, linkVars, ntfVars, txVars
  <1>6. InOrder' BY <1>1, <1>4 DEF IInv, InOrder, ntfVars
  <1>7. Masking'
    <2>1. ~masked' /\ pc' \notin {"ntf", "send", "shift"} BY <1>1
    <2>q. QED BY <2>1, Zenon DEF Masking
  <1>q. QED BY <1>1, <1>5, <1>6, <1>7 DEF IInv, Room, MtuKnown, linkVars, ntfVars

LEMMA WriteReqInv == ASSUME IInv, NEW n \in WriteLens, WriteReq(n) PROVE IInv'
  <1>1. /\ TypeOK /\ pc = "idle" /\ txBusy' = TRUE /\ pc' = "transmit" /\ len' = n
        /\ UNCHANGED <<linkVars, rxVars, ntfVars, uart, masked>>
    BY DEF IInv, WriteReq
  <1>2. TypeOK'
    <2>1. pc' \in {"idle", "ntf", "send", "shift", "transmit"} /\ len' \in 0 .. BufferSize
      BY <1>1, ServerAssumption
    <2>2. txBusy' \in BOOLEAN BY <1>1, Zenon
    <2>q. QED BY <2>1, <2>2, <1>1, Zenon DEF TypeOK, linkVars, rxVars, ntfVars
  <1>3. InOrder' BY <1>1, <1>2, OrderKept DEF rxVars, ntfVars
  <1>4. Masking' BY <1>1 DEF IInv, Masking
  <1>q. QED BY <1>1, <1>2, <1>3, <1>4 DEF IInv, Room, MtuKnown, linkVars, ntfVars

LEMMA TransmitStartInv == ASSUME IInv, TransmitStart PROVE IInv'
  <1>1. /\ TypeOK /\ pc = "transmit" /\ pc' = "idle" /\ len' = 0
        /\ uart' \in {uart, "BUSY_TX"}
        /\ UNCHANGED <<linkVars, rxVars, ntfVars, txBusy, masked>>
    BY DEF IInv, TransmitStart
  <1>2. TypeOK'
    <2>1. /\ pc' \in {"idle", "ntf", "send", "shift", "transmit"} /\ len' \in 0 .. BufferSize
          /\ uart' \in {"READY", "BUSY_TX"}
      BY <1>1, ServerAssumption DEF TypeOK
    <2>q. QED BY <2>1, <1>1, Zenon DEF TypeOK, linkVars, rxVars, ntfVars
  <1>3. InOrder' BY <1>1, <1>2, OrderKept DEF rxVars, ntfVars
  <1>4. Masking' BY <1>1 DEF IInv, Masking
  <1>q. QED BY <1>1, <1>2, <1>3, <1>4 DEF IInv, Room, MtuKnown, linkVars, ntfVars

LEMMA TxCpltInv == ASSUME IInv, TxCplt PROVE IInv'
  <1>1. /\ TypeOK /\ uart' = "READY" /\ txBusy' = FALSE
        /\ UNCHANGED <<linkVars, rxVars, ntfVars, pc, len, masked>>
    BY DEF IInv, TxCplt
  <1>2. TypeOK'
    <2>1. txBusy' \in BOOLEAN /\ uart' \in {"READY", "BUSY_TX"} BY <1>1, Zenon
    <2>q. QED BY <2>1, <1>1, Zenon DEF TypeOK, linkVars, rxVars, ntfVars
  <1>3. InOrder' BY <1>1, <1>2, OrderKept DEF rxVars, ntfVars
  <1>q. QED BY <1>1, <1>2, <1>3 DEF IInv, Masking, Room, MtuKnown, linkVars, ntfVars, rxVars

-----------------------------------------------------------------------------
(* The results. *)

LEMMA InitInv == Init => IInv
  <1> SUFFICES ASSUME Init PROVE IInv OBVIOUS
  <1>1. /\ data = DefaultData /\ linkData = DefaultData /\ index = 0 /\ len = 0 /\ pc = "idle"
        /\ buffer = [i \in 0 .. BufferSize - 1 |-> 0] /\ uart = "READY"
        /\ received = << >> /\ notified = << >> /\ longest = 0 /\ links = 0
    BY DEF Init
  <1>2. /\ connected \in BOOLEAN /\ ntfDone \in BOOLEAN /\ txBusy \in BOOLEAN /\ masked \in BOOLEAN
        /\ inAir \in BOOLEAN /\ ~masked
    BY Zenon DEF Init
  <1>3. TypeOK
    <2>1. /\ data \in Nat \ {0} /\ linkData \in Nat \ {0} /\ index \in 0 .. BufferSize
          /\ len \in 0 .. BufferSize /\ buffer \in [0 .. BufferSize - 1 -> Nat]
          /\ received \in Seq(Nat) /\ notified \in Seq(Nat) /\ longest \in Nat /\ links \in Nat
          /\ uart \in {"READY", "BUSY_TX"} /\ pc \in {"idle", "ntf", "send", "shift", "transmit"}
      BY <1>1, ServerAssumption, EmptySeq
    <2>q. QED BY <2>1, <1>2, Zenon DEF TypeOK
  <1>4. InOrder
    <2>1. Held = << >> BY <1>1 DEF Held
    <2>2. << >> \in Seq(Nat) BY EmptySeq
    <2>3. << >> \o << >> = << >> BY <2>2, ConcatEmptySeq
    <2>q. QED BY <2>1, <2>3, <1>1 DEF InOrder
  <1>5. Masking BY <1>1, <1>2 DEF Masking
  <1>q. QED BY <1>1, <1>3, <1>4, <1>5 DEF IInv, Room, MtuKnown

LEMMA NextInv == IInv /\ [Next]_vars => IInv'
  <1> SUFFICES ASSUME IInv, [Next]_vars PROVE IInv' OBVIOUS
  <1>1. CASE Connect \/ Disconnect \/ \E d \in DataLens : MtuChanged(d) BY <1>1, LinkInv
  <1>2. CASE NotificationDone BY <1>2, NotificationDoneInv
  <1>3. CASE RxCplt BY <1>3, RxCpltInv
  <1>4. CASE Timer BY <1>4, TimerInv
  <1>5. CASE \E n \in WriteLens : WriteReq(n) BY <1>5, WriteReqInv
  <1>6. CASE Callback
    BY <1>6, NtfTakeInv, NtfNoneInv, NtfSendInv, NtfShiftInv, TransmitStartInv DEF Callback
  <1>7. CASE TxCplt BY <1>7, TxCpltInv
  <1>8. CASE UNCHANGED vars
    <2>1. /\ UNCHANGED <<buffer, index, notified, received, pc, len, masked, longest>>
          /\ UNCHANGED <<connected, data, linkData, ntfDone, txBusy, uart, inAir, links>>
      BY <1>8 DEF vars
    <2>2. TypeOK' BY <2>1, Zenon DEF IInv, TypeOK
    <2>3. InOrder' BY <2>1, <2>2, OrderKept
    <2>q. QED BY <2>1, <2>2, <2>3 DEF IInv, Masking, Room, MtuKnown
  <1>q. QED BY <1>1, <1>2, <1>3, <1>4, <1>5, <1>6, <1>7, <1>8 DEF Next

LEMMA Invariance == Spec => []IInv
  BY InitInv, NextInv, PTL DEF Spec

\* Every variable keeps its type; in particular the receive index stays in the buffer.
THEOREM TypeCorrect == Spec => []TypeOK
  <1>1. IInv => TypeOK BY DEF IInv
  <1>q. QED BY <1>1, Invariance, PTL

\* Every byte stored is notified once and in order, however the interrupt falls into the
\* timer's work on the buffer.
THEOREM BytesInOrder == Spec => []InOrder
  <1>1. IInv => InOrder BY DEF IInv
  <1>q. QED BY <1>1, Invariance, PTL

\* No notification is longer than the link can carry at the time.
THEOREM NotificationFits == Spec => []NtfFits
  <1>1. IInv => NtfFits BY DEF IInv, MtuKnown, NtfFits
  <1>q. QED BY <1>1, Invariance, PTL

-----------------------------------------------------------------------------
(* The mark of the other direction. *)

\* The mark is set before the transfer starts and reset when it ends.
BusyInv ==
    /\ txBusy /\ pc # "transmit" => uart = "BUSY_TX"
    /\ pc = "transmit" => txBusy /\ uart = "READY" /\ len > 0
    /\ ~txBusy => uart = "READY"

LEMMA BusyStep ==
  ASSUME 0 \notin WriteLens, IInv, BusyInv, [Next]_vars
  PROVE  BusyInv'
  <1>1. TypeOK BY DEF IInv
  <1>2. uart \in {"READY", "BUSY_TX"} /\ len \in 0 .. BufferSize BY <1>1 DEF TypeOK
  <1>3. CASE UNCHANGED <<txVars, pc, len>>
    BY <1>3 DEF BusyInv, txVars
  <1>4. CASE Timer \/ NtfTake \/ NtfNone \/ NtfSend \/ NtfShift
    <2>1. UNCHANGED txVars /\ pc # "transmit" /\ pc' # "transmit"
      BY <1>4 DEF Timer, NtfTake, NtfNone, NtfSend, NtfShift
    <2>q. QED BY <2>1 DEF BusyInv, txVars
  <1>5. ASSUME NEW n \in WriteLens, WriteReq(n) PROVE BusyInv'
    <2>1. /\ pc = "idle" /\ ~txBusy /\ txBusy' = TRUE /\ pc' = "transmit" /\ len' = n /\ uart' = uart
      BY <1>5 DEF WriteReq
    <2>2. n > 0 BY ServerAssumption
    <2>3. uart' = "READY" BY <2>1 DEF BusyInv
    <2>q. QED BY <2>1, <2>2, <2>3 DEF BusyInv
  <1>6. CASE TransmitStart
    <2>1. /\ pc = "transmit" /\ pc' = "idle" /\ txBusy' = txBusy
          /\ uart' = IF uart = "READY" /\ len > 0 THEN "BUSY_TX" ELSE uart
      BY <1>6 DEF TransmitStart
    <2>2. txBusy /\ uart' = "BUSY_TX" BY <2>1 DEF BusyInv
    <2>q. QED BY <2>1, <2>2 DEF BusyInv
  <1>7. CASE TxCplt
    <2>1. uart = "BUSY_TX" /\ uart' = "READY" /\ txBusy' = FALSE /\ pc' = pc
      BY <1>7 DEF TxCplt
    <2>2. pc' # "transmit" BY <2>1 DEF BusyInv
    <2>q. QED BY <2>1, <2>2 DEF BusyInv
  <1>8. CASE Connect \/ Disconnect \/ (\E d \in DataLens : MtuChanged(d)) \/ NotificationDone
             \/ RxCplt \/ UNCHANGED vars
    <2>1. UNCHANGED <<txVars, pc, len>>
      BY <1>8 DEF Connect, Disconnect, MtuChanged, NotificationDone, RxCplt, vars, txVars
    <2>q. QED BY <2>1, <1>3
  <1>q. QED BY <1>4, <1>5, <1>6, <1>7, <1>8 DEF Next, Callback

\* If the peer writes nothing empty, its writes are refused only while the UART transmits.
THEOREM BusyWhileTransmitting == ASSUME 0 \notin WriteLens PROVE Spec => []BusyMeansBusy
  <1>1. Init => BusyInv BY DEF Init, BusyInv
  <1>2. IInv /\ BusyInv /\ [Next]_vars => BusyInv' BY BusyStep
  <1>3. BusyInv => BusyMeansBusy BY DEF BusyInv, BusyMeansBusy
  <1>q. QED BY <1>1, <1>2, <1>3, Invariance, PTL DEF Spec
=============================================================================
