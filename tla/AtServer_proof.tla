--------------------------- MODULE AtServer_proof ---------------------------
(***************************************************************************)
(* Proofs about AtServer for every size of the buffer, every set of links   *)
(* and every text of the host: the types, that nothing is handed to the     *)
(* stack twice or late, and that transparent mode means one link.           *)
(***************************************************************************)
EXTENDS AtServer, SequenceTheorems, FiniteSetTheorems, NaturalsInduction,
        WellFoundedInduction, TLAPS

Tokens == {<<"none">>} \cup UNION {Range(l) : l \in Lines}

\* What is buffered (r) came in order, after what has been sent (s) and not after the last
\* byte taken (t).
Fresh(r, s, t) ==
    /\ r \in Seq([n : Nat, c : Tokens]) /\ s \in Nat /\ t \in Nat /\ s <= t
    /\ \A i \in 1 .. Len(r) : r[i].n <= t /\ r[i].n > (IF i = 1 THEN s ELSE r[i - 1].n)

\* What the host writes and what is kept of it as a command.
Texts == host \in Seq(Tokens) /\ cmd \in Tokens

\* The bridge is in transparent mode or enters it, and no new link waits for the change.
Single == pc # "connected" /\ (transparent \/ pc = "enter")

\* Data are handed over for a link that is there.
LinkThere == pc = "data" => conIdx \in Connected

\* Neither transparent mode nor the way into it bears a second link, once the mode has
\* been changed for a new link.
OneLink == Single => \A k, l \in Connected : k = l

IInv == TypeOK /\ Texts /\ Fresh(recv, sent, taken) /\ LinkThere /\ OneLink

-----------------------------------------------------------------------------
(* The buffer. *)

LEMMA FreshEmpty == ASSUME NEW s \in Nat, NEW t \in Nat, s <= t PROVE Fresh(<< >>, s, t)
  <1>1. << >> \in Seq([n : Nat, c : Tokens]) /\ Len(<< >>) = 0 BY EmptySeq
  <1>q. QED BY <1>1 DEF Fresh

LEMMA FreshLater == ASSUME NEW r, NEW s, NEW t, Fresh(r, s, t) PROVE Fresh(r, s, t + 1)
  <1>1. \A i \in 1 .. Len(r) : r[i].n \in Nat
    <2>1. \A i \in 1 .. Len(r) : r[i] \in [n : Nat, c : Tokens] BY ElementOfSeq DEF Fresh
    <2>q. QED BY <2>1
  <1>2. r \in Seq([n : Nat, c : Tokens]) /\ s \in Nat /\ t \in Nat /\ s <= t BY DEF Fresh
  <1>3. ASSUME NEW i \in 1 .. Len(r)
        PROVE  r[i].n <= t + 1 /\ r[i].n > (IF i = 1 THEN s ELSE r[i - 1].n)
    <2>1. r[i].n <= t /\ r[i].n > (IF i = 1 THEN s ELSE r[i - 1].n) BY DEF Fresh
    <2>q. QED BY <2>1, <1>1, <1>2
  <1>4. s <= t + 1 /\ t + 1 \in Nat BY <1>2
  <1>q. QED BY <1>2, <1>3, <1>4 DEF Fresh

LEMMA FreshAppend ==
  ASSUME NEW r, NEW s, NEW t, Fresh(r, s, t), NEW x \in Tokens
  PROVE  Fresh(Append(r, [n |-> t + 1, c |-> x]), s, t + 1)
  <1> DEFINE e == [n |-> t + 1, c |-> x]
             q == Append(r, e)
  <1>1. r \in Seq([n : Nat, c : Tokens]) /\ s \in Nat /\ t \in Nat /\ s <= t /\ Len(r) \in Nat
    <2>1. r \in Seq([n : Nat, c : Tokens]) BY DEF Fresh
    <2>q. QED BY <2>1 DEF Fresh
  <1>2. e \in [n : Nat, c : Tokens] /\ e.n = t + 1 BY <1>1
  <1> HIDE DEF e
  <1>3. /\ q \in Seq([n : Nat, c : Tokens]) /\ Len(q) = Len(r) + 1
        /\ \A i \in 1 .. Len(r) : q[i] = r[i]
        /\ q[Len(r) + 1] = e
    BY <1>1, <1>2, AppendProperties
  <1> HIDE DEF q
  <1>4. \A i \in 1 .. Len(r) : r[i].n \in Nat /\ r[i].n <= t
    <2>1. \A i \in 1 .. Len(r) : r[i] \in [n : Nat, c : Tokens] BY <1>1, ElementOfSeq
    <2>q. QED BY <2>1 DEF Fresh
  <1>5. ASSUME NEW i \in 1 .. Len(q)
        PROVE  q[i].n <= t + 1 /\ q[i].n > (IF i = 1 THEN s ELSE q[i - 1].n)
    <2>1. CASE i \in 1 .. Len(r)
      <3>0. i # 1 => i - 1 \in 1 .. Len(r) BY <2>1, <1>1
      <3>1. q[i] = r[i] /\ (i # 1 => q[i - 1] = r[i - 1]) BY <2>1, <3>0, <1>3
      <3>2. r[i].n > (IF i = 1 THEN s ELSE r[i - 1].n) BY <2>1 DEF Fresh
      <3>3. r[i].n <= t /\ r[i].n \in Nat BY <2>1, <1>4
      <3>4. q[i].n <= t + 1 BY <3>1, <3>3, <1>1
      <3>5. q[i].n > (IF i = 1 THEN s ELSE q[i - 1].n) BY <3>1, <3>2
      <3>q. QED BY <3>4, <3>5
    <2>2. CASE i = Len(r) + 1
      <3>1. q[i].n = t + 1 BY <2>2, <1>2, <1>3
      <3>2. CASE i = 1 BY <3>1, <3>2, <1>1
      <3>3. CASE i # 1
        <4>1. i - 1 \in 1 .. Len(r) /\ q[i - 1] = r[i - 1] BY <3>3, <2>2, <1>1, <1>3
        <4>q. QED BY <4>1, <3>1, <3>3, <1>1, <1>4
      <3>q. QED BY <3>2, <3>3
    <2>q. QED BY <2>1, <2>2, <1>1, <1>3
  <1>q. QED BY <1>1, <1>3, <1>5 DEF Fresh, q, e

\* After the first m bytes have been sent, an empty buffer is fresh.
LEMMA FreshTaken ==
  ASSUME NEW r, NEW s, NEW t, Fresh(r, s, t), NEW m \in 1 .. Len(r)
  PROVE  Fresh(<< >>, r[m].n, t)
  <1>1. r[m] \in [n : Nat, c : Tokens] BY ElementOfSeq DEF Fresh
  <1>2. r[m].n \in Nat /\ r[m].n <= t /\ t \in Nat BY <1>1 DEF Fresh
  <1>q. QED BY <1>2, FreshEmpty

-----------------------------------------------------------------------------
(* What actions have in common. *)

LEMMA ConnectedKept == ASSUME table' = table PROVE Connected' = Connected
  BY DEF Connected, Places

LEMMA LinkThereKept ==
  ASSUME IInv, UNCHANGED <<conIdx, table>>, pc' = "data" => pc = "data" PROVE LinkThere'
  BY ConnectedKept DEF IInv, LinkThere

LEMMA OneLinkKept ==
  ASSUME IInv, table' = table, Single' => Single PROVE OneLink'
  BY ConnectedKept DEF IInv, OneLink

\* The types of what the interrupt and the loop share, and of the bounds.
LEMMA Numbers ==
  /\ RecvMax \in Nat /\ RecvMax > 5 /\ DownLevel \in Nat
  /\ Links \subseteq Nat /\ None \notin Links
  BY AtAssumption

LEMMA TextTokens == ASSUME NEW l \in Lines PROVE l \in Seq(Tokens)
  <1>1. l \in Seq(Range(l)) BY AtAssumption
  <1>2. Range(l) \subseteq Tokens BY DEF Tokens
  <1>q. QED BY <1>1, <1>2, SeqMonotonic

LEMMA Arguments ==
  ASSUME NEW c \in Tokens
  PROVE  (c[1] = "SEND" => c[3] \in Nat) /\ (c[1] = "AUTO" => c[2] \in BOOLEAN)
  <1>1. CASE c = <<"none">> BY <1>1
  <1>2. ASSUME NEW l \in Lines, c \in Range(l)
        PROVE  (c[1] = "SEND" => c[3] \in Nat) /\ (c[1] = "AUTO" => c[2] \in BOOLEAN)
    <2>1. \A d \in Range(l) :
            /\ d[1] = "SEND" => d[3] \in Nat
            /\ d[1] = "AUTO" => d[2] \in BOOLEAN
      BY AtAssumption, Zenon
    <2>q. QED BY <2>1, <1>2
  <1>3. c = <<"none">> \/ \E l \in Lines : c \in Range(l) BY DEF Tokens
  <1>q. QED BY <1>1, <1>2, <1>3

-----------------------------------------------------------------------------
(* The interrupt. *)

LEMMA StoredFresh ==
  ASSUME IInv, NEW c \in Tokens
  PROVE  /\ Fresh(Stored(c), sent, taken + 1)
         /\ Len(Stored(c)) < RecvMax
  <1>1. Fresh(recv, sent, taken) /\ Len(recv) < RecvMax BY DEF IInv, TypeOK
  <1>2. recv \in Seq([n : Nat, c : Tokens]) /\ Len(recv) \in Nat /\ taken \in Nat
    <2>1. recv \in Seq([n : Nat, c : Tokens]) BY <1>1 DEF Fresh
    <2>q. QED BY <2>1, <1>1 DEF Fresh
  <1>3. CASE Len(recv) < RecvMax - 2
    <2>1. Stored(c) = Append(recv, [n |-> taken + 1, c |-> c]) BY <1>3 DEF Stored, Token
    <2>2. Len(Append(recv, [n |-> taken + 1, c |-> c])) = Len(recv) + 1
      <3>1. [n |-> taken + 1, c |-> c] \in [n : Nat, c : Tokens] BY <1>2
      <3>q. QED BY <3>1, <1>2, AppendProperties
    <2>q. QED BY <2>1, <2>2, <1>1, <1>2, <1>3, FreshAppend, Numbers
  <1>4. CASE ~(Len(recv) < RecvMax - 2)
    <2>1. Stored(c) = recv BY <1>4 DEF Stored
    <2>q. QED BY <2>1, <1>1, FreshLater
  <1>q. QED BY <1>3, <1>4

\* What at_recv does to the buffer and the variables it shares with the loop.
LEMMA AtRecvStep ==
  ASSUME IInv, NEW c \in Tokens, taken' = taken + 1, sent' = sent,
         AtRecvTransparent(c) \/ AtRecvSlot(c) \/ AtRecvDropped(c) \/ AtRecvCommand(c)
  PROVE  /\ Fresh(recv', sent', taken') /\ Len(recv') < RecvMax
         /\ recvState' \in {0, 3} /\ posted' \in Nat /\ dataSending' \in BOOLEAN
         /\ event' \in {"cmd", "data", "start_timer"} /\ cmd' \in Tokens
         /\ exit' \in BOOLEAN /\ slotLen' \in Nat /\ waiting' \in BOOLEAN
         /\ UNCHANGED <<flush, transparent, conIdx, slotStart, autoTrans>>
  <1>1. /\ Fresh(recv, sent, taken) /\ Len(recv) < RecvMax /\ recvState \in {0, 3}
        /\ posted \in Nat /\ dataSending \in BOOLEAN /\ slotLen \in Nat /\ cmd \in Tokens
        /\ event \in {"cmd", "data", "start_timer"} /\ exit \in BOOLEAN /\ waiting \in BOOLEAN
    BY DEF IInv, TypeOK, Texts
  <1>2. Fresh(recv, sent, taken + 1) BY <1>1, FreshLater
  <1>3. sent \in Nat /\ taken \in Nat /\ sent <= taken /\ sent <= taken + 1 /\ taken + 1 \in Nat
    BY <1>1 DEF Fresh
  <1>4. Fresh(<< >>, sent, taken + 1) /\ Len(<< >>) < RecvMax
    BY <1>3, FreshEmpty, EmptySeq, Numbers
  <1>5. ASSUME NEW f, NEW g, Post(f, g)
        PROVE  /\ posted' \in Nat /\ dataSending' \in BOOLEAN /\ cmd' = cmd
               /\ event' \in {"cmd", "data", "start_timer"}
    <2>1. posted' \in Nat BY <1>1, <1>5 DEF Post
    <2>2. dataSending' \in BOOLEAN BY <1>5, Zenon DEF Post
    <2>q. QED BY <2>1, <2>2, <1>1, <1>5 DEF Post
  <1>6. CASE AtRecvTransparent(c)
    <2>1. /\ recv' = Stored(c) /\ Post(First, Full(recv'))
          /\ UNCHANGED <<waiting, recvState, flush, modeVars>>
      BY <1>6 DEF AtRecvTransparent
    <2>2. exit' \in BOOLEAN BY <1>6, Zenon DEF AtRecvTransparent
    <2>q. QED BY <2>1, <2>2, <1>1, <1>5, StoredFresh DEF modeVars
  <1>7. CASE AtRecvSlot(c)
    <2>1. /\ slotLen > 0 /\ recv' = Stored(c) /\ slotLen' = slotLen - 1
          /\ Post(First, Full(recv') \/ slotLen' = 0)
          /\ UNCHANGED <<waiting, recvState, timerVars, transparent, conIdx, slotStart, autoTrans>>
      BY <1>7 DEF AtRecvSlot
    <2>2. slotLen' \in Nat BY <2>1, <1>1
    <2>q. QED BY <2>1, <2>2, <1>1, <1>5, StoredFresh DEF timerVars
  <1>8. CASE AtRecvDropped(c)
    <2>1. UNCHANGED <<waiting, recv, recvState, queueVars, timerVars, modeVars>>
      BY <1>8 DEF AtRecvDropped
    <2>q. QED BY <2>1, <1>1, <1>2 DEF queueVars, timerVars, modeVars
  <1>9. CASE AtRecvCommand(c)
    <2>1. UNCHANGED <<timerVars, modeVars>> BY <1>9 DEF AtRecvCommand
    <2>2. CASE /\ recvState' = IF c = <<"AT+">> THEN 3 ELSE 0
               /\ UNCHANGED <<recv, queueVars, waiting>>
      BY <2>1, <2>2, <1>1, <1>2 DEF timerVars, modeVars, queueVars
    <2>3. CASE /\ IF Len(recv) + 1 = RecvMax
                  THEN recv' = << >> /\ recvState' = 0
                  ELSE recv' = Append(recv, Token(c)) /\ recvState' = 3
               /\ UNCHANGED <<queueVars, waiting>>
      <3>1. CASE Len(recv) + 1 = RecvMax
        BY <3>1, <2>1, <2>3, <1>1, <1>4 DEF timerVars, modeVars, queueVars
      <3>2. CASE Len(recv) + 1 # RecvMax
        <4>1. recv' = Append(recv, [n |-> taken + 1, c |-> c]) /\ recvState' = 3
          BY <3>2, <2>3 DEF Token
        <4>2. Len(recv') = Len(recv) + 1 /\ Len(recv) \in Nat
          <5>1. recv \in Seq([n : Nat, c : Tokens]) BY <1>1 DEF Fresh
          <5>2. [n |-> taken + 1, c |-> c] \in [n : Nat, c : Tokens] BY <1>3
          <5>q. QED BY <4>1, <5>1, <5>2, AppendProperties
        <4>3. Len(recv') < RecvMax BY <4>2, <3>2, <1>1, Numbers
        <4>4. Fresh(recv', sent, taken + 1) BY <4>1, <1>1, FreshAppend
        <4>q. QED BY <4>1, <4>3, <4>4, <2>1, <2>3, <1>1 DEF timerVars, modeVars, queueVars
      <3>q. QED BY <3>1, <3>2
    <2>4. CASE /\ cmd' = IF recv = << >> THEN <<"none">> ELSE recv[1].c
               /\ event' = "cmd" /\ posted' = posted + 1
               /\ recv' = << >> /\ recvState' = 0 /\ waiting' = TRUE
               /\ UNCHANGED dataSending
      <3>1. cmd' \in Tokens
        <4>1. CASE recv = << >>
          <5>1. cmd' = <<"none">> BY <4>1, <2>4
          <5>q. QED BY <5>1 DEF Tokens
        <4>2. CASE recv # << >>
          <5>1. recv \in Seq([n : Nat, c : Tokens]) BY <1>1 DEF Fresh
          <5>2. 1 \in 1 .. Len(recv) BY <5>1, <4>2, EmptySeq
          <5>3. recv[1] \in [n : Nat, c : Tokens] BY <5>1, <5>2, ElementOfSeq
          <5>q. QED BY <5>3, <4>2, <2>4
        <4>q. QED BY <4>1, <4>2
      <3>2. waiting' \in BOOLEAN BY <2>4, Zenon
      <3>3. posted' \in Nat BY <2>4, <1>1
      <3>q. QED BY <3>1, <3>2, <3>3, <2>1, <2>4, <1>1, <1>4 DEF timerVars, modeVars
    <2>q. QED BY <2>2, <2>3, <2>4, <1>9 DEF AtRecvCommand
  <1>q. QED BY <1>6, <1>7, <1>8, <1>9

LEMMA AtRecvInv == ASSUME IInv, AtRecv PROVE IInv'
  <1> DEFINE c == Head(host)
  <1>1. /\ host # << >> /\ host' = Tail(host) /\ taken' = taken + 1
        /\ AtRecvTransparent(c) \/ AtRecvSlot(c) \/ AtRecvDropped(c) \/ AtRecvCommand(c)
        /\ UNCHANGED <<lines, linkVars, histVars, pc>>
    BY DEF AtRecv
  <1>2. c \in Tokens /\ host' \in Seq(Tokens)
    <2>1. host \in Seq(Tokens) BY DEF IInv, Texts
    <2>q. QED BY <2>1, <1>1, HeadTailProperties
  <1>3. sent' = sent /\ lost' = lost /\ UNCHANGED <<table, done, inAir, conns>>
    BY <1>1 DEF histVars, linkVars
  <1> HIDE DEF c
  <1>4. /\ Fresh(recv', sent', taken') /\ Len(recv') < RecvMax
        /\ recvState' \in {0, 3} /\ posted' \in Nat /\ dataSending' \in BOOLEAN
        /\ event' \in {"cmd", "data", "start_timer"} /\ cmd' \in Tokens
        /\ exit' \in BOOLEAN /\ slotLen' \in Nat /\ waiting' \in BOOLEAN
        /\ UNCHANGED <<flush, transparent, conIdx, slotStart, autoTrans>>
    BY <1>1, <1>2, <1>3, AtRecvStep
  <1>5. taken' \in Nat BY <1>4 DEF Fresh
  <1>6. TypeOK'
    <2>1. Connected' = Connected BY <1>3, ConnectedKept
    <2>q. QED BY <2>1, <1>1, <1>3, <1>4, <1>5, Zenon DEF IInv, TypeOK, Places, Points
  <1>7. LinkThere' /\ OneLink' BY <1>1, <1>3, <1>4, LinkThereKept, OneLinkKept DEF Single
  <1>q. QED BY <1>2, <1>4, <1>6, <1>7 DEF IInv, Texts

LEMMA HostWritesInv == ASSUME IInv, HostWrites PROVE IInv'
  <1>1. PICK l \in Lines : host' = l BY DEF HostWrites
  <1>2. /\ lines' = lines + 1
        /\ UNCHANGED <<waiting, rxVars, queueVars, modeVars, timerVars, linkVars, histVars, pc>>
    BY DEF HostWrites
  <1>3. UNCHANGED <<recv, recvState, taken, posted, event, cmd, dataSending, transparent, conIdx,
                    slotStart, slotLen, autoTrans, flush, exit, table, done, inAir, conns, sent, lost>>
    BY <1>2 DEF rxVars, queueVars, modeVars, timerVars, linkVars, histVars
  <1>4. host' \in Seq(Tokens) BY <1>1, TextTokens
  <1>5. TypeOK'
    <2>1. lines' \in Nat BY <1>2 DEF IInv, TypeOK
    <2>2. Connected' = Connected BY <1>3, ConnectedKept
    <2>3. waiting' = waiting /\ pc' = pc BY <1>2
    <2>q. QED BY <2>1, <2>2, <2>3, <1>3 DEF IInv, TypeOK, Places, Points
  <1>6. LinkThere' /\ OneLink' BY <1>2, <1>3, LinkThereKept, OneLinkKept DEF Single
  <1>q. QED BY <1>3, <1>4, <1>5, <1>6 DEF IInv, Texts

-----------------------------------------------------------------------------
(* The loop. *)

LEMMA ConnectedType == ASSUME TypeOK PROVE Connected \subseteq Links /\ IsFiniteSet(Connected)
  <1>1. Connected \subseteq Links BY DEF TypeOK, Connected
  <1>2. IsFiniteSet(Links) BY AtAssumption
  <1>q. QED BY <1>1, <1>2, FS_Subset

\* The only link is the first one.
LEMMA OnlyLink ==
  ASSUME TypeOK, Cardinality(Connected) = 1
  PROVE  FirstLink \in Connected /\ \A k, l \in Connected : k = l
  <1>1. PICK x : Connected = {x} BY ConnectedType, FS_Singleton
  <1>2. x \in Nat BY <1>1, ConnectedType, Numbers
  <1>3. x <= x BY <1>2
  <1>4. \E l \in Connected : \A k \in Connected : l <= k BY <1>1, <1>3
  <1>5. FirstLink \in Connected BY <1>4 DEF FirstLink
  <1>q. QED BY <1>1, <1>5

LEMMA RunCmdInv == ASSUME IInv, RunCmd PROVE IInv'
  <1>1. /\ TypeOK /\ Fresh(recv, sent, taken) /\ cmd \in Tokens /\ host \in Seq(Tokens)
    BY DEF IInv, Texts
  <1>2. /\ pc = "idle" /\ posted > 0 /\ posted' = posted - 1
        /\ UNCHANGED <<event, cmd, dataSending, recv, recvState, taken, flush, exit, table, done,
                       inAir, conns, host, lines, sent, lost>>
    BY DEF RunCmd, Dispatch, rxVars, timerVars, linkVars, histVars
  <1>3. Command(cmd) /\ waiting' = (pc' = "answer") BY DEF RunCmd
  <1>4. posted' \in Nat /\ waiting' \in BOOLEAN
    <2>1. posted' \in Nat BY <1>1, <1>2 DEF TypeOK
    <2>2. waiting' \in BOOLEAN BY <1>3, Zenon
    <2>q. QED BY <2>1, <2>2
  <1>5. /\ transparent \in BOOLEAN /\ conIdx \in Links /\ slotStart \in BOOLEAN /\ slotLen \in Nat
        /\ autoTrans \in BOOLEAN
    BY <1>1 DEF TypeOK
  <1>6. /\ transparent' \in BOOLEAN /\ conIdx' \in Links /\ slotStart' \in BOOLEAN /\ slotLen' \in Nat
        /\ autoTrans' \in BOOLEAN /\ pc' \in {"idle", "answer"}
        /\ (transparent' => transparent \/ Cardinality(Connected) = 1)
    <2>1. CASE Send(cmd)
      <3>1. CASE cmd[2] \in Connected
        <4>1. /\ conIdx' = cmd[2] /\ slotLen' = cmd[3] /\ slotStart' = TRUE /\ pc' = "answer"
              /\ cmd[1] = "SEND" /\ UNCHANGED <<transparent, autoTrans>>
          BY <2>1, <3>1 DEF Send
        <4>2. conIdx' \in Links BY <4>1, <3>1, <1>1, ConnectedType
        <4>3. slotLen' \in Nat BY <4>1, <1>1, Arguments
        <4>4. slotStart' \in BOOLEAN BY <4>1, Zenon
        <4>q. QED BY <4>1, <4>2, <4>3, <4>4, <1>5
      <3>2. CASE cmd[2] \notin Connected BY <2>1, <3>2, <1>5 DEF Send
      <3>q. QED BY <3>1, <3>2
    <2>2. CASE Transparent(cmd)
      <3>1. CASE Cardinality(Connected) = 1
        <4>1. /\ transparent' = TRUE /\ conIdx' = FirstLink /\ pc' = "answer"
              /\ UNCHANGED <<slotStart, slotLen, autoTrans>>
          BY <2>2, <3>1 DEF Transparent
        <4>2. conIdx' \in Links BY <4>1, <3>1, <1>1, ConnectedType, OnlyLink
        <4>3. transparent' \in BOOLEAN BY <4>1, Zenon
        <4>q. QED BY <4>1, <4>2, <4>3, <3>1, <1>5
      <3>2. CASE Cardinality(Connected) # 1 BY <2>2, <3>2, <1>5 DEF Transparent
      <3>q. QED BY <3>1, <3>2
    <2>3. CASE AutoTrans(cmd)
      <3>1. cmd[1] = "AUTO" /\ autoTrans' = cmd[2]
            /\ UNCHANGED <<transparent, conIdx, slotStart, slotLen, pc>>
        BY <2>3 DEF AutoTrans
      <3>2. autoTrans' \in BOOLEAN
        <4>1. cmd[2] \in BOOLEAN BY <3>1, <1>1, Arguments
        <4>q. QED BY <4>1, <3>1
      <3>q. QED BY <3>1, <3>2, <1>2, <1>5
    <2>4. CASE UNCHANGED <<modeVars, pc>> BY <2>4, <1>2, <1>5 DEF modeVars
    <2>q. QED BY <2>1, <2>2, <2>3, <2>4, <1>3 DEF Command
  <1>7. Connected' = Connected BY <1>2, ConnectedKept
  <1>8. TypeOK'
    <2>1. pc' \in Points BY <1>6 DEF Points
    <2>q. QED BY <2>1, <1>1, <1>2, <1>4, <1>6, <1>7, Zenon DEF TypeOK, Places, Points
  <1>9. LinkThere' BY <1>6 DEF LinkThere
  <1>10. OneLink'
    <2>1. SUFFICES ASSUME transparent' PROVE \A k, l \in Connected : k = l
      BY <1>6, <1>7 DEF OneLink, Single
    <2>2. CASE transparent BY <2>2, <1>2 DEF IInv, OneLink, Single
    <2>3. CASE Cardinality(Connected) = 1 BY <2>3, <1>1, OnlyLink
    <2>q. QED BY <2>1, <2>2, <2>3, <1>6
  <1>q. QED BY <1>1, <1>2, <1>8, <1>9, <1>10 DEF IInv, Texts

LEMMA RunStartTimerInv == ASSUME IInv, RunStartTimer PROVE IInv'
  <1>1. /\ posted > 0 /\ posted' = posted - 1 /\ flush' = TRUE
        /\ UNCHANGED <<event, cmd, dataSending, recv, recvState, taken, transparent, conIdx,
                       slotStart, slotLen, autoTrans, exit, table, done, inAir, conns, host, waiting,
                       lines, sent, lost, pc>>
    BY DEF RunStartTimer, Dispatch, rxVars, modeVars, linkVars, hostVars, histVars
  <1>2. TypeOK /\ posted \in Nat BY DEF IInv, TypeOK
  <1>3. posted' \in Nat BY <1>1, <1>2
  <1>4. flush' \in BOOLEAN BY <1>1, Zenon
  <1>5. Connected' = Connected BY <1>1, ConnectedKept
  <1>6. TypeOK' BY <1>1, <1>2, <1>3, <1>4, <1>5 DEF TypeOK, Places, Points
  <1>7. LinkThere' /\ OneLink' BY <1>1, LinkThereKept, OneLinkKept DEF Single
  <1>q. QED BY <1>1, <1>6, <1>7 DEF IInv, Texts

LEMMA RunDataInv == ASSUME IInv, RunData PROVE IInv'
  <1>1. /\ pc = "idle" /\ posted > 0 /\ posted' = posted - 1 /\ flush' = FALSE
        /\ pc' = IF conIdx \in Connected THEN "data" ELSE "idle"
        /\ UNCHANGED <<event, cmd, dataSending, recv, recvState, taken, transparent, conIdx,
                       slotStart, slotLen, autoTrans, exit, table, done, inAir, conns, host, waiting,
                       lines, sent, lost>>
    BY DEF RunData, Dispatch, rxVars, modeVars, linkVars, hostVars, histVars
  <1>2. TypeOK /\ posted \in Nat BY DEF IInv, TypeOK
  <1>3. posted' \in Nat /\ pc' \in {"idle", "data"} BY <1>1, <1>2
  <1>4. flush' \in BOOLEAN BY <1>1, Zenon
  <1>5. Connected' = Connected BY <1>1, ConnectedKept
  <1>6. TypeOK' BY <1>1, <1>2, <1>3, <1>4, <1>5 DEF TypeOK, Places, Points
  <1>7. LinkThere' BY <1>1, <1>5 DEF LinkThere
  <1>8. OneLink'
    <2>1. pc' # "enter" BY <1>3
    <2>q. QED BY <2>1, <1>1, OneLinkKept DEF Single
  <1>q. QED BY <1>1, <1>6, <1>7, <1>8 DEF IInv, Texts

LEMMA DataSendInv == ASSUME IInv, DataSend PROVE IInv'
  <1> DEFINE p == PlaceOf(conIdx)
             m == IF Len(recv) < MtuData THEN Len(recv) ELSE MtuData
  <1>1. /\ pc = "data" /\ recv' = << >> /\ dataSending' = FALSE /\ pc' = "sent"
        /\ UNCHANGED <<recvState, taken, posted, event, cmd, transparent, conIdx, slotStart, slotLen,
                       autoTrans, flush, exit, table, conns, host, waiting, lines, lost>>
    BY DEF DataSend, modeVars, timerVars, hostVars
  <1>2. \/ /\ done' = [done EXCEPT ![p] = FALSE]
           /\ inAir' = inAir \cup {conIdx}
           /\ HandOver(m)
        \/ UNCHANGED <<done, inAir, sent>>
    BY DEF DataSend
  <1>3. TypeOK /\ Fresh(recv, sent, taken) /\ conIdx \in Connected
    BY <1>1 DEF IInv, LinkThere
  <1>4. Connected' = Connected BY <1>1, ConnectedKept
  <1>5. /\ recv \in Seq([n : Nat, c : Tokens]) /\ Len(recv) \in Nat /\ sent \in Nat /\ taken \in Nat
        /\ sent <= taken
    <2>1. recv \in Seq([n : Nat, c : Tokens]) BY <1>3 DEF Fresh
    <2>q. QED BY <2>1, <1>3 DEF Fresh
  <1>6. Fresh(<< >>, sent, taken) BY <1>5, FreshEmpty
  <1>7. Fresh(<< >>, IF m > 0 THEN recv[m].n ELSE sent, taken)
    <2>1. CASE m > 0
      <3>1. m \in 1 .. Len(recv) BY <2>1, <1>5, AtAssumption
      <3>2. Fresh(<< >>, recv[m].n, taken) BY <3>1, <1>3, FreshTaken
      <3>q. QED BY <3>2, <2>1
    <2>2. CASE ~(m > 0) BY <2>2, <1>6
    <2>q. QED BY <2>1, <2>2
  <1> HIDE DEF m, p
  <1>8. Fresh(recv', sent', taken') BY <1>1, <1>2, <1>6, <1>7 DEF HandOver
  <1>9. done' \in [Places -> BOOLEAN] /\ inAir' \subseteq Connected
    <2>1. done \in [Places -> BOOLEAN] /\ inAir \subseteq Connected BY <1>3 DEF TypeOK
    <2>q. QED BY <2>1, <1>2, <1>3
  <1>10. TypeOK'
    <2>1. dataSending' \in BOOLEAN BY <1>1, Zenon
    <2>2. Len(recv') < RecvMax BY <1>1, EmptySeq, Numbers
    <2>3. pc' \in Points BY <1>1 DEF Points
    <2>q. QED BY <2>1, <2>2, <2>3, <1>1, <1>3, <1>4, <1>9 DEF TypeOK, Places, Points
  <1>11. LinkThere' BY <1>1 DEF LinkThere
  <1>12. OneLink'
    <2>1. pc' # "enter" BY <1>1
    <2>q. QED BY <2>1, <1>1, OneLinkKept DEF Single
  <1>q. QED BY <1>1, <1>8, <1>10, <1>11, <1>12 DEF IInv, Texts

LEMMA DataEndInv == ASSUME IInv, DataEnd PROVE IInv'
  <1>1. /\ pc = "sent" /\ slotStart' = (slotStart /\ slotLen > 0) /\ pc' = "idle"
        /\ UNCHANGED <<recv, recvState, taken, posted, event, cmd, dataSending, transparent, conIdx,
                       slotLen, autoTrans, flush, exit, table, done, inAir, conns, host, waiting,
                       lines, sent, lost>>
    BY DEF DataEnd, rxVars, queueVars, timerVars, linkVars, hostVars, histVars
  <1>2. slotStart' \in BOOLEAN BY <1>1, Zenon
  <1>3. Connected' = Connected BY <1>1, ConnectedKept
  <1>4. TypeOK' BY <1>1, <1>2, <1>3 DEF IInv, TypeOK, Places, Points
  <1>5. LinkThere' BY <1>1 DEF LinkThere
  <1>6. OneLink'
    <2>1. pc' # "enter" BY <1>1
    <2>q. QED BY <2>1, <1>1, OneLinkKept DEF Single
  <1>q. QED BY <1>1, <1>4, <1>5, <1>6 DEF IInv, Texts

\* The buffer is cleared, and the callback ends.
LEMMA ClearInv ==
  ASSUME IInv, Answer \/ Clear PROVE IInv'
  <1>1. /\ pc \in {"answer", "clear"} /\ recv' = << >> /\ pc' = "idle" /\ waiting' \in BOOLEAN
        /\ UNCHANGED <<recvState, taken, posted, event, cmd, dataSending, transparent, conIdx, slotStart,
                       slotLen, autoTrans, flush, exit, table, done, inAir, conns, host, lines, sent, lost>>
    <2>1. CASE Answer
      <3>1. waiting' \in BOOLEAN BY <2>1, Zenon DEF Answer
      <3>q. QED BY <2>1, <3>1 DEF Answer, queueVars, modeVars, timerVars, linkVars, histVars
    <2>2. CASE Clear
      <3>1. waiting' = waiting BY <2>2 DEF Clear, hostVars
      <3>q. QED
        BY <2>2, <3>1 DEF Clear, queueVars, modeVars, timerVars, linkVars, hostVars, histVars, IInv, TypeOK
    <2>q. QED BY <2>1, <2>2
  <1>2. Fresh(recv', sent', taken')
    <2>1. sent \in Nat /\ taken \in Nat /\ sent <= taken BY DEF IInv, Fresh
    <2>q. QED BY <2>1, <1>1, FreshEmpty
  <1>3. Connected' = Connected BY <1>1, ConnectedKept
  <1>4. TypeOK'
    <2>1. Len(recv') < RecvMax BY <1>1, EmptySeq, Numbers
    <2>q. QED BY <2>1, <1>1, <1>3 DEF IInv, TypeOK, Places, Points
  <1>5. LinkThere' BY <1>1 DEF LinkThere
  <1>6. OneLink'
    <2>1. pc' # "enter" BY <1>1
    <2>q. QED BY <2>1, <1>1, OneLinkKept DEF Single
  <1>q. QED BY <1>1, <1>2, <1>4, <1>5, <1>6 DEF IInv, Texts

LEMMA TransparentTimerInv == ASSUME IInv, TransparentTimer PROVE IInv'
  <1>1. /\ pc = "idle" /\ flush' = FALSE /\ pc' \in {"idle", "post"}
        /\ UNCHANGED <<recv, recvState, taken, posted, event, cmd, dataSending, transparent, conIdx,
                       slotStart, slotLen, autoTrans, exit, table, done, inAir, conns, host, waiting,
                       lines, sent, lost>>
    BY DEF TransparentTimer, queueVars, rxVars, modeVars, linkVars, hostVars, histVars
  <1>2. flush' \in BOOLEAN BY <1>1, Zenon
  <1>3. Connected' = Connected BY <1>1, ConnectedKept
  <1>4. TypeOK' BY <1>1, <1>2, <1>3 DEF IInv, TypeOK, Places, Points
  <1>5. LinkThere' /\ OneLink' BY <1>1, LinkThereKept, OneLinkKept DEF Single
  <1>q. QED BY <1>1, <1>4, <1>5 DEF IInv, Texts

LEMMA PostDataInv == ASSUME IInv, PostData PROVE IInv'
  <1>1. /\ pc = "post" /\ pc' = "idle"
        /\ dataSending' = TRUE /\ event' = "data" /\ posted' = posted + 1
        /\ UNCHANGED <<recv, recvState, taken, cmd, transparent, conIdx, slotStart, slotLen, autoTrans,
                       flush, exit, table, done, inAir, conns, host, waiting, lines, sent, lost>>
    BY DEF PostData, rxVars, modeVars, timerVars, linkVars, hostVars, histVars
  <1>2. dataSending' \in BOOLEAN BY <1>1, Zenon
  <1>3. posted' \in Nat BY <1>1 DEF IInv, TypeOK
  <1>4. Connected' = Connected BY <1>1, ConnectedKept
  <1>5. TypeOK' BY <1>1, <1>2, <1>3, <1>4 DEF IInv, TypeOK, Places, Points
  <1>6. LinkThere' /\ OneLink' BY <1>1, LinkThereKept, OneLinkKept DEF Single
  <1>q. QED BY <1>1, <1>5, <1>6 DEF IInv, Texts

LEMMA ExitTransTimerInv == ASSUME IInv, ExitTransTimer PROVE IInv'
  <1>1. /\ pc = "idle" /\ exit' = FALSE /\ pc' = "exit"
        /\ UNCHANGED <<recv, recvState, taken, posted, event, cmd, dataSending, transparent, conIdx,
                       slotStart, slotLen, autoTrans, flush, table, done, inAir, conns, host, waiting,
                       lines, sent, lost>>
    BY DEF ExitTransTimer, queueVars, rxVars, modeVars, linkVars, hostVars, histVars
  <1>2. exit' \in BOOLEAN BY <1>1, Zenon
  <1>3. Connected' = Connected BY <1>1, ConnectedKept
  <1>4. TypeOK' BY <1>1, <1>2, <1>3 DEF IInv, TypeOK, Places, Points
  <1>5. LinkThere' /\ OneLink' BY <1>1, LinkThereKept, OneLinkKept DEF Single
  <1>q. QED BY <1>1, <1>4, <1>5 DEF IInv, Texts

LEMMA ExitInv == ASSUME IInv, Exit PROVE IInv'
  <1>1. /\ transparent' = FALSE /\ pc' = "clear"
        /\ UNCHANGED <<recv, recvState, taken, posted, event, cmd, dataSending, conIdx, slotStart,
                       slotLen, autoTrans, flush, exit, table, done, inAir, conns, host, waiting, lines,
                       sent, lost>>
    BY DEF Exit, queueVars, rxVars, timerVars, linkVars, hostVars, histVars
  <1>2. transparent' \in BOOLEAN BY <1>1, Zenon
  <1>3. Connected' = Connected BY <1>1, ConnectedKept
  <1>4. TypeOK' BY <1>1, <1>2, <1>3 DEF IInv, TypeOK, Places, Points
  <1>5. LinkThere' /\ OneLink' BY <1>1 DEF LinkThere, OneLink, Single
  <1>q. QED BY <1>1, <1>4, <1>5 DEF IInv, Texts

-----------------------------------------------------------------------------
(* The links. *)

\* Where there is a free place in a table, Place finds one.
LEMMA PlaceFound ==
  ASSUME NEW r \in Roles, NEW x, \E p \in Places : p[1] = r /\ table[p] = x
  PROVE  Place(r, x) \in Places /\ table[Place(r, x)] = x
  <1> DEFINE W == {p \in Places : p[1] = r /\ table[p] = x}
             N == {p[2] : p \in W}
  <1>1. N \subseteq Nat /\ N # {} BY DEF Places
  <1>2. PICK m \in N : \A k \in N : ~(<<k, m>> \in OpToRel(<, Nat))
    BY <1>1, NatLessThanWellFounded, WFMin
  <1>3. PICK p \in W : p[2] = m OBVIOUS
  <1>4. ASSUME NEW q \in W PROVE p[2] <= q[2]
    <2>1. q[2] \in N /\ m \in Nat /\ q[2] \in Nat BY <1>1
    <2>2. ~(q[2] < m) BY <2>1, <1>2 DEF OpToRel
    <2>q. QED BY <2>1, <2>2, <1>3
  <1>5. /\ p[1] = r /\ table[p] = x
        /\ \A q \in Places : q[1] = r /\ table[q] = x => p[2] <= q[2]
    BY <1>4
  <1>q. QED BY <1>5 DEF Place

\* Every link that is connected has a place, and PlaceOf finds one.
LEMMA PlaceOfFound ==
  ASSUME NEW l \in Connected PROVE PlaceOf(l) \in Places /\ table[PlaceOf(l)] = l /\ l # None
  <1>1. \E p \in Places : table[p] = l BY DEF Connected
  <1>2. l # None BY DEF Connected
  <1>q. QED BY <1>1, <1>2 DEF PlaceOf

\* What changes of Connected when one place is written.
LEMMA OnePlace ==
  ASSUME table \in [Places -> Links \cup {None}], NEW p \in Places, NEW x \in Links \cup {None},
         table' = [table EXCEPT ![p] = x]
  PROVE  /\ table' \in [Places -> Links \cup {None}]
         /\ \A k \in Connected' : k \in Connected \/ (k = x /\ x # None)
         /\ \A k \in Connected : k # table[p] => k \in Connected'
  <1>1. table' \in [Places -> Links \cup {None}] OBVIOUS
  <1>2. /\ Connected' = {table'[q] : q \in Places} \ {None}
        /\ Connected = {table[q] : q \in Places} \ {None}
    BY DEF Connected, Places
  <1>3. \A q \in Places : table'[q] = IF q = p THEN x ELSE table[q] OBVIOUS
  <1>4. ASSUME NEW k, k \in Connected' PROVE k \in Connected \/ (k = x /\ x # None)
    <2>1. PICK q \in Places : table'[q] = k /\ k # None BY <1>2, <1>4
    <2>2. CASE q = p BY <2>1, <2>2, <1>3
    <2>3. CASE q # p
      <3>1. table[q] = k BY <2>1, <2>3, <1>3
      <3>q. QED BY <3>1, <2>1, <1>2
    <2>q. QED BY <2>2, <2>3
  <1>5. ASSUME NEW k \in Connected, k # table[p] PROVE k \in Connected'
    <2>1. PICK q \in Places : table[q] = k /\ k # None BY <1>2
    <2>q. QED BY <2>1, <1>2, <1>3, <1>5
  <1>q. QED BY <1>1, <1>4, <1>5

LEMMA ConnectInv == ASSUME IInv, NEW r \in Roles, NEW link \in Links, Connect(r, link) PROVE IInv'
  <1> DEFINE p == Place(r, None)
  <1>1. /\ \E q \in Places : q[1] = r /\ table[q] = None
        /\ table' = [table EXCEPT ![p] = link] /\ conns' = conns + 1 /\ pc' = "connected"
        /\ UNCHANGED <<recv, recvState, taken, posted, event, cmd, dataSending, transparent, conIdx,
                       slotStart, slotLen, autoTrans, flush, exit, done, inAir, host, waiting, lines,
                       sent, lost>>
    BY DEF Connect, rxVars, queueVars, modeVars, timerVars, hostVars, histVars
  <1>2. TypeOK BY DEF IInv
  <1>3. p \in Places /\ table[p] = None BY <1>1, PlaceFound
  <1> HIDE DEF p
  <1>4. /\ table' \in [Places -> Links \cup {None}]
        /\ \A k \in Connected : k # None => k \in Connected'
    <2>1. table \in [Places -> Links \cup {None}] BY <1>2 DEF TypeOK
    <2>q. QED BY <2>1, <1>1, <1>3, OnePlace
  <1>5. inAir' \subseteq Connected'
    <2>1. inAir \subseteq Connected /\ None \notin Connected BY <1>2 DEF TypeOK, Connected
    <2>q. QED BY <2>1, <1>1, <1>4
  <1>6. TypeOK'
    <2>1. conns' \in Nat BY <1>1, <1>2 DEF TypeOK
    <2>q. QED BY <2>1, <1>1, <1>2, <1>4, <1>5 DEF TypeOK, Places, Points
  <1>7. LinkThere' /\ OneLink' BY <1>1 DEF LinkThere, OneLink, Single
  <1>q. QED BY <1>1, <1>6, <1>7 DEF IInv, Texts

\* The mode after a connection: the transparent one only where the link is the only one.
LEMMA ChangeModeInv == ASSUME IInv, ChangeMode PROVE IInv'
  <1>1. /\ IF Cardinality(Connected) = 1 THEN EnterTrans ELSE ExitTrans
        /\ UNCHANGED <<recvState, taken, posted, event, cmd, dataSending, conIdx, slotStart, slotLen,
                       autoTrans, flush, exit, table, done, inAir, conns, host, waiting, lines, sent,
                       lost>>
    BY DEF ChangeMode, queueVars, timerVars, linkVars, hostVars, histVars
  <1>2. TypeOK /\ Fresh(recv, sent, taken) /\ Len(recv) < RecvMax BY DEF IInv, TypeOK
  <1>3. Connected' = Connected BY <1>1, ConnectedKept
  <1>4. Fresh(<< >>, sent, taken) /\ Len(<< >>) < RecvMax
    <2>1. sent \in Nat /\ taken \in Nat /\ sent <= taken BY <1>2 DEF Fresh
    <2>q. QED BY <2>1, FreshEmpty, EmptySeq, Numbers
  <1>5. /\ recv' = recv \/ recv' = << >>
        /\ transparent' \in BOOLEAN /\ pc' \in {"idle", "enter", "clear"}
        /\ transparent' \/ pc' = "enter" => \A k, l \in Connected : k = l
    <2>1. CASE Cardinality(Connected) = 1
      <3>1. \A k, l \in Connected : k = l BY <2>1, <1>2, OnlyLink
      <3>2. EnterTrans BY <2>1, <1>1
      <3>3. transparent' \in BOOLEAN BY <3>2, <1>2 DEF EnterTrans, TypeOK
      <3>4. (recv' = recv \/ recv' = << >>) /\ pc' \in {"idle", "enter"} BY <3>2 DEF EnterTrans
      <3>q. QED BY <3>1, <3>3, <3>4
    <2>2. CASE Cardinality(Connected) # 1
      <3>1. transparent' = FALSE /\ pc' \in {"idle", "clear"} /\ recv' = recv
        BY <2>2, <1>1 DEF ExitTrans
      <3>2. transparent' \in BOOLEAN BY <3>1, Zenon
      <3>q. QED BY <3>1, <3>2
    <2>q. QED BY <2>1, <2>2
  <1>6. TypeOK'
    <2>1. Len(recv') < RecvMax BY <1>5, <1>2, <1>4
    <2>q. QED BY <2>1, <1>1, <1>2, <1>3, <1>5 DEF TypeOK, Places, Points
  <1>7. Fresh(recv', sent', taken') BY <1>1, <1>2, <1>4, <1>5
  <1>8. LinkThere' BY <1>5 DEF LinkThere
  <1>9. OneLink' BY <1>3, <1>5 DEF OneLink, Single
  <1>q. QED BY <1>1, <1>6, <1>7, <1>8, <1>9 DEF IInv, Texts

LEMMA EnterInv == ASSUME IInv, Enter PROVE IInv'
  <1>1. /\ pc = "enter" /\ transparent' = TRUE /\ pc' = "idle"
        /\ UNCHANGED <<recv, recvState, taken, posted, event, cmd, dataSending, conIdx, slotStart,
                       slotLen, autoTrans, flush, exit, table, done, inAir, conns, host, waiting,
                       lines, sent, lost>>
    BY DEF Enter, queueVars, rxVars, timerVars, linkVars, hostVars, histVars
  <1>2. transparent' \in BOOLEAN BY <1>1, Zenon
  <1>3. Connected' = Connected BY <1>1, ConnectedKept
  <1>4. TypeOK' BY <1>1, <1>2, <1>3 DEF IInv, TypeOK, Places, Points
  <1>5. LinkThere' BY <1>1 DEF LinkThere
  <1>6. OneLink' BY <1>1, OneLinkKept DEF Single
  <1>q. QED BY <1>1, <1>4, <1>5, <1>6 DEF IInv, Texts

LEMMA DisconnectInv == ASSUME IInv, NEW link \in Links, Disconnect(link) PROVE IInv'
  <1> DEFINE p == PlaceOf(link)
  <1>1. /\ pc = "idle" /\ link \in Connected
        /\ table' = [table EXCEPT ![p] = None]
        /\ inAir' = inAir \ {link} /\ lost' = TRUE /\ pc' \in {"idle", "drop"}
        /\ UNCHANGED <<recv, recvState, taken, posted, event, cmd, dataSending, transparent, conIdx,
                       slotStart, slotLen, autoTrans, flush, exit, done, conns, host, waiting, lines,
                       sent>>
    BY DEF Disconnect, rxVars, queueVars, modeVars, timerVars, hostVars
  <1>2. TypeOK BY DEF IInv
  <1>3. p \in Places /\ table[p] = link BY <1>1, PlaceOfFound
  <1> HIDE DEF p
  <1>4. /\ table' \in [Places -> Links \cup {None}]
        /\ \A k \in Connected' : k \in Connected
        /\ \A k \in Connected : k # link => k \in Connected'
    <2>1. table \in [Places -> Links \cup {None}] BY <1>2 DEF TypeOK
    <2>q. QED BY <2>1, <1>1, <1>3, OnePlace
  <1>5. inAir' \subseteq Connected' BY <1>1, <1>2, <1>4 DEF TypeOK
  <1>6. TypeOK'
    <2>1. lost' \in BOOLEAN BY <1>1, Zenon
    <2>q. QED BY <2>1, <1>1, <1>2, <1>4, <1>5 DEF TypeOK, Places, Points
  <1>7. LinkThere' BY <1>1 DEF LinkThere
  <1>8. OneLink' BY <1>1, <1>4 DEF IInv, OneLink, Single
  <1>q. QED BY <1>1, <1>6, <1>7, <1>8 DEF IInv, Texts

LEMMA DropInv == ASSUME IInv, Drop PROVE IInv'
  <1>1. /\ pc = "drop" /\ recv' = << >> /\ pc' = "abort"
        /\ UNCHANGED <<recvState, taken, posted, event, cmd, dataSending, transparent, conIdx, slotStart,
                       slotLen, autoTrans, flush, exit, table, done, inAir, conns, host, waiting, lines,
                       sent, lost>>
    BY DEF Drop, queueVars, modeVars, timerVars, linkVars, hostVars, histVars
  <1>2. Fresh(recv', sent', taken')
    <2>1. sent \in Nat /\ taken \in Nat /\ sent <= taken BY DEF IInv, Fresh
    <2>q. QED BY <2>1, <1>1, FreshEmpty
  <1>3. Connected' = Connected BY <1>1, ConnectedKept
  <1>4. TypeOK'
    <2>1. Len(recv') < RecvMax BY <1>1, EmptySeq, Numbers
    <2>q. QED BY <2>1, <1>1, <1>3 DEF IInv, TypeOK, Places, Points
  <1>5. LinkThere' /\ OneLink' BY <1>1, LinkThereKept, OneLinkKept DEF Single
  <1>q. QED BY <1>1, <1>2, <1>4, <1>5 DEF IInv, Texts

LEMMA AbortInv == ASSUME IInv, Abort PROVE IInv'
  <1>1. /\ pc = "abort" /\ slotStart' = FALSE /\ slotLen' = 0 /\ pc' = "idle"
        /\ UNCHANGED <<recv, recvState, taken, posted, event, cmd, dataSending, transparent, conIdx,
                       autoTrans, flush, exit, table, done, inAir, conns, host, waiting, lines, sent,
                       lost>>
    BY DEF Abort, queueVars, rxVars, timerVars, linkVars, hostVars, histVars
  <1>2. slotStart' \in BOOLEAN BY <1>1, Zenon
  <1>3. Connected' = Connected BY <1>1, ConnectedKept
  <1>4. TypeOK'
    <2>1. slotLen' \in Nat BY <1>1
    <2>q. QED BY <2>1, <1>1, <1>2, <1>3 DEF IInv, TypeOK, Places, Points
  <1>5. LinkThere' BY <1>1 DEF LinkThere
  <1>6. OneLink'
    <2>1. pc' # "enter" BY <1>1
    <2>q. QED BY <2>1, <1>1, OneLinkKept DEF Single
  <1>q. QED BY <1>1, <1>4, <1>5, <1>6 DEF IInv, Texts

LEMMA SendDoneInv == ASSUME IInv, NEW link \in Links, SendDone(link) PROVE IInv'
  <1> DEFINE p == PlaceOf(link)
  <1>0. PICK ok \in BOOLEAN : done' = [done EXCEPT ![p] = p[1] = "slave" \/ ok] BY DEF SendDone
  <1>1. /\ inAir' = inAir \ {link}
        /\ UNCHANGED <<recv, recvState, taken, posted, event, cmd, dataSending, transparent, conIdx,
                       slotStart, slotLen, autoTrans, flush, exit, table, conns, host, waiting, lines,
                       sent, lost, pc>>
    BY DEF SendDone, queueVars, rxVars, modeVars, timerVars, hostVars, histVars
  <1> HIDE DEF p
  <1>2. done \in [Places -> BOOLEAN] /\ inAir \subseteq Connected BY DEF IInv, TypeOK
  <1>3. Connected' = Connected BY <1>1, ConnectedKept
  <1>4. done' \in [Places -> BOOLEAN]
    <2>1. (p[1] = "slave" \/ ok) \in BOOLEAN OBVIOUS
    <2>q. QED BY <2>1, <1>0, <1>2, Zenon
  <1>5. inAir' \subseteq Connected BY <1>1, <1>2
  <1>6. TypeOK' BY <1>1, <1>3, <1>4, <1>5 DEF IInv, TypeOK, Places, Points
  <1>7. LinkThere' /\ OneLink' BY <1>1, LinkThereKept, OneLinkKept DEF Single
  <1>q. QED BY <1>1, <1>6, <1>7 DEF IInv, Texts

-----------------------------------------------------------------------------
(* The theorems. *)

LEMMA InitInv == Init => IInv
  <1> SUFFICES ASSUME Init PROVE IInv OBVIOUS
  <1>1. /\ recv = << >> /\ recvState = 0 /\ posted = 0 /\ event = "cmd" /\ cmd = <<"none">>
        /\ conIdx = 0 /\ slotLen = 0 /\ table = [p \in Places |-> None]
        /\ inAir = {} /\ pc = "idle" /\ host = << >>
        /\ lines = 0 /\ conns = 0 /\ taken = 0 /\ sent = 0
    BY DEF Init
  <1>2. /\ dataSending \in BOOLEAN /\ transparent \in BOOLEAN /\ slotStart \in BOOLEAN
        /\ flush \in BOOLEAN /\ exit \in BOOLEAN /\ waiting \in BOOLEAN /\ lost \in BOOLEAN
        /\ ~transparent
    BY Zenon DEF Init
  <1>3. autoTrans \in BOOLEAN BY AtAssumption DEF Init
  <1>4. done \in [Places -> BOOLEAN]
    <2>1. done = [p \in Places |-> TRUE] BY DEF Init
    <2>q. QED BY <2>1
  <1>5. Fresh(recv, sent, taken) /\ Len(recv) < RecvMax
    BY <1>1, FreshEmpty, EmptySeq, Numbers
  <1>6. TypeOK
    <2>1. conIdx \in Links BY <1>1, AtAssumption
    <2>q. QED BY <2>1, <1>1, <1>2, <1>3, <1>4, <1>5 DEF TypeOK, Points
  <1>7. Texts BY <1>1, EmptySeq DEF Texts, Tokens
  <1>q. QED BY <1>1, <1>2, <1>5, <1>6, <1>7 DEF IInv, LinkThere, OneLink, Single

LEMMA NextInv == IInv /\ [Next]_vars => IInv'
  <1> SUFFICES ASSUME IInv, [Next]_vars PROVE IInv' OBVIOUS
  <1>1. CASE AtRecv BY <1>1, AtRecvInv
  <1>2. CASE HostWrites BY <1>2, HostWritesInv
  <1>3. CASE Run BY <1>3, RunCmdInv, RunStartTimerInv, RunDataInv DEF Run
  <1>9. CASE Continue
    BY <1>9, DataSendInv, DataEndInv, ClearInv, PostDataInv, ExitInv, ChangeModeInv, EnterInv,
       DropInv, AbortInv DEF Continue
  <1>4. CASE TransparentTimer BY <1>4, TransparentTimerInv
  <1>5. CASE ExitTransTimer BY <1>5, ExitTransTimerInv
  <1>6. CASE \E r \in Roles, l \in Links : Connect(r, l) BY <1>6, ConnectInv
  <1>7. CASE \E l \in Links : Disconnect(l) \/ SendDone(l) BY <1>7, DisconnectInv, SendDoneInv
  <1>8. CASE UNCHANGED vars
    <2>1. UNCHANGED <<recv, recvState, taken, posted, event, cmd, dataSending, transparent, conIdx,
                      slotStart, slotLen, autoTrans, flush, exit, table, done, inAir, conns, host,
                      waiting, lines, sent, lost, pc>>
      BY <1>8 DEF vars, rxVars, queueVars, modeVars, timerVars, linkVars, hostVars, histVars
    <2>2. Connected' = Connected BY <2>1, ConnectedKept
    <2>3. TypeOK' BY <2>1, <2>2 DEF IInv, TypeOK, Places, Points
    <2>4. LinkThere' /\ OneLink' BY <2>1, LinkThereKept, OneLinkKept DEF Single
    <2>q. QED BY <2>1, <2>3, <2>4 DEF IInv, Texts
  <1>q. QED BY <1>1, <1>2, <1>3, <1>4, <1>5, <1>6, <1>7, <1>8, <1>9 DEF Next

LEMMA Invariance == Spec => []IInv
  BY InitInv, NextInv, PTL DEF Spec

\* Every variable of the bridge keeps its type: the receive buffer stays within its array,
\* and data are in the air only for links that are connected.
THEOREM TypeCorrect == Spec => []TypeOK
  <1>1. IInv => TypeOK BY DEF IInv
  <1>q. QED BY <1>1, Invariance, PTL

\* No byte at_recv took is handed to the stack a second time, or after a later one.
THEOREM InOrderOnce == Spec => []NotSentTwice
  <1>1. IInv => NotSentTwice BY DEF IInv, Fresh, NotSentTwice
  <1>q. QED BY <1>1, Invariance, PTL

\* Transparent mode means that there is at most one link, whichever of the command, the
\* connection and the escape sequence came in between, except while a connection is answered.
THEOREM TransparentMeansOneLink == Spec => []OneLinkOnly
  <1>1. IInv => OneLinkOnly
    <2> SUFFICES ASSUME IInv, transparent, pc # "connected" PROVE Cardinality(Connected) <= 1
      BY DEF OneLinkOnly
    <2>1. \A k, l \in Connected : k = l BY DEF IInv, OneLink, Single
    <2>2. CASE Connected = {} BY <2>2, FS_EmptySet
    <2>3. CASE Connected # {}
      <3>1. PICK k \in Connected : TRUE BY <2>3
      <3>2. Connected = {k} BY <3>1, <2>1
      <3>3. Cardinality({k}) = 1 BY FS_Singleton, Zenon
      <3>q. QED BY <3>2, <3>3
    <2>q. QED BY <2>2, <2>3
  <1>q. QED BY <1>1, Invariance, PTL
=============================================================================
