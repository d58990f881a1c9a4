-------------------------- MODULE MultiLink_proof --------------------------
(***************************************************************************)
(* Proofs about MultiLink for every number of places and links, every MTU   *)
(* and every length of a frame: that all variables keep their types, that   *)
(* no byte is lost between the receive interrupt and the timer, that the    *)
(* receiver stays in step with the host, and that a message reaches the     *)
(* UART whole and once.  IInv is the inductive invariant; its parts beside  *)
(* these results are HeaderKnown, SeenPlace and Numbered.                   *)
(***************************************************************************)
EXTENDS MultiLink, SequenceTheorems, NaturalsInduction, WellFoundedInduction, TLAPS

\* The header of the frame being received is there as far as it has come; one that the host
\* has still to send is complete.
HeaderKnown ==
    /\ rxState = "sync" /\ rxLeft = 1 => Len(hdr) = 1
    /\ rxState = "receiving" => Len(hdr) = 2
    /\ inStep /\ rxState = "idle" /\ host # << >> => Len(host) > 3

\* The timer starts a transfer only for a buffer it has seen.
SeenPlace == pc > 0 /\ Steps[pc].do = "start" => seen \in Places

\* Messages are numbered in the order they were written.
Numbered ==
    /\ \A p \in Places : tx[p] <= writes /\ sentNo[p] <= writes
    /\ \A i \in 1 .. Len(leaving) : leaving[i] <= writes

IInv ==
    /\ TypeOK /\ HeaderKnown /\ SeenPlace /\ Numbered
    /\ Conserved /\ InStep /\ FrameWhole /\ SentOnce

-----------------------------------------------------------------------------
(* The steps of the timer. *)

StepSet == [do : {"hand", "look", "start"}, role : Roles, n : Nat]

\* The steps that hand over are one for each place.
LEMMA HandStepsShape ==
  ASSUME NEW r \in Roles
  PROVE  /\ HandSteps(r) \in Seq(StepSet) /\ Len(HandSteps(r)) = Slots[r]
         /\ \A i \in 1 .. Slots[r] :
              HandSteps(r)[i] = [do |-> "hand", role |-> r, n |-> i]
  <1>1. Slots[r] \in Nat BY MultiLinkAssumption
  <1>2. \A i \in 1 .. Slots[r] : [do |-> "hand", role |-> r, n |-> i] \in StepSet
    BY <1>1 DEF StepSet
  <1>3. HandSteps(r) \in [1 .. Slots[r] -> StepSet] BY <1>2 DEF HandSteps
  <1>q. QED BY <1>1, <1>3 DEF HandSteps

\* What the step at every position of the timer's callback does.
LEMMA StepsShape ==
  /\ Steps \in Seq(StepSet)
  /\ Len(Steps) = Slots["slave"] + Slots["master"] + 4
  /\ \A i \in 1 .. Len(Steps) :
       /\ Steps[i].do = "start" <=> i \in {Slots["slave"] + 2, Slots["slave"] + 4}
       /\ Steps[i].do = "look" <=> i \in {Slots["slave"] + 1, Slots["slave"] + 3}
       /\ Steps[i].do = "hand" => <<Steps[i].role, Steps[i].n>> \in Places
  <1> DEFINE a == Slots["slave"]
             b == Slots["master"]
             H1 == HandSteps("slave")
             H2 == HandSteps("master")
             T1 == TxSteps("slave")
             T2 == TxSteps("master")
  <1>1. a \in 0 .. 8 /\ b \in 0 .. 8 /\ Roles = {"slave", "master"}
    BY MultiLinkAssumption
  <1>2. H1 \in Seq(StepSet) /\ Len(H1) = a
        /\ \A i \in 1 .. a : H1[i] = [do |-> "hand", role |-> "slave", n |-> i]
    BY <1>1, HandStepsShape
  <1>3. H2 \in Seq(StepSet) /\ Len(H2) = b
        /\ \A i \in 1 .. b : H2[i] = [do |-> "hand", role |-> "master", n |-> i]
    BY <1>1, HandStepsShape
  <1>4. T1 \in Seq(StepSet) /\ Len(T1) = 2 /\ T1[1].do = "look" /\ T1[2].do = "start"
    BY <1>1 DEF TxSteps, StepSet
  <1>5. T2 \in Seq(StepSet) /\ Len(T2) = 2 /\ T2[1].do = "look" /\ T2[2].do = "start"
    BY <1>1 DEF TxSteps, StepSet
  <1>6. Steps = ((H1 \o T1) \o T2) \o H2
    BY DEF Steps
  <1> HIDE DEF a, b, H1, H2, T1, T2
  <1> DEFINE S1 == H1 \o T1
             S2 == S1 \o T2
  <1>7. S1 \in Seq(StepSet) /\ Len(S1) = Len(H1) + Len(T1)
        /\ \A k \in 1 .. Len(H1) + Len(T1) : S1[k] = IF k <= Len(H1) THEN H1[k] ELSE T1[k - Len(H1)]
    <2>1. H1 \in Seq(StepSet) /\ T1 \in Seq(StepSet) BY <1>2, <1>4
    <2>q. QED BY <2>1, ConcatProperties
  <1> HIDE DEF S1
  <1>8. S2 \in Seq(StepSet) /\ Len(S2) = Len(S1) + Len(T2)
        /\ \A k \in 1 .. Len(S1) + Len(T2) : S2[k] = IF k <= Len(S1) THEN S1[k] ELSE T2[k - Len(S1)]
    <2>1. S1 \in Seq(StepSet) /\ T2 \in Seq(StepSet) BY <1>7, <1>5
    <2>q. QED BY <2>1, ConcatProperties
  <1>9. Steps = S2 \o H2
    BY <1>6 DEF S1
  <1> HIDE DEF S2
  <1>10. /\ Steps \in Seq(StepSet) /\ Len(Steps) = Len(S2) + Len(H2)
         /\ \A k \in 1 .. Len(S2) + Len(H2) :
               Steps[k] = IF k <= Len(S2) THEN S2[k] ELSE H2[k - Len(S2)]
    <2>1. S2 \in Seq(StepSet) /\ H2 \in Seq(StepSet) BY <1>8, <1>3
    <2>q. QED BY <2>1, <1>9, ConcatProperties
  <1>13. /\ Len(H1) = a /\ Len(T1) = 2 /\ Len(T2) = 2 /\ Len(H2) = b
         /\ Len(S1) = a + 2 /\ Len(S2) = a + 4 /\ Len(Steps) = a + 4 + b
    BY <1>1, <1>2, <1>3, <1>4, <1>5, <1>7, <1>8, <1>10
  <1>11. ASSUME NEW i \in 1 .. Len(Steps)
         PROVE  /\ Steps[i].do = "start" <=> i \in {a + 2, a + 4}
                /\ Steps[i].do = "look" <=> i \in {a + 1, a + 3}
                /\ Steps[i].do = "hand" => <<Steps[i].role, Steps[i].n>> \in Places
    <2>0. i <= a + 4 => Steps[i] = IF i <= a + 2 THEN S1[i] ELSE T2[i - (a + 2)]
      <3>1. SUFFICES ASSUME i <= a + 4 PROVE Steps[i] = IF i <= a + 2 THEN S1[i] ELSE T2[i - (a + 2)]
        OBVIOUS
      <3>2. Steps[i] = S2[i] BY <3>1, <1>1, <1>10, <1>13
      <3>3. i \in 1 .. Len(S1) + Len(T2) BY <3>1, <1>1, <1>13
      <3>q. QED BY <3>2, <3>3, <1>8, <1>13
    <2>s. i <= a + 2 => S1[i] = IF i <= a THEN H1[i] ELSE T1[i - a]
      <3>1. SUFFICES ASSUME i <= a + 2 PROVE S1[i] = IF i <= a THEN H1[i] ELSE T1[i - a]
        OBVIOUS
      <3>2. i \in 1 .. Len(H1) + Len(T1) BY <3>1, <1>1, <1>13
      <3>q. QED BY <3>2, <1>7, <1>13
    <2>1. CASE i \in 1 .. a
      <3>1. Steps[i] = [do |-> "hand", role |-> "slave", n |-> i]
        BY <2>1, <1>1, <1>2, <2>0, <2>s
      <3>2. <<"slave", i>> \in Places
        BY <2>1, <1>1 DEF Places, a
      <3>q. QED BY <3>1, <3>2, <2>1, <1>1
    <2>2. CASE i = a + 1
      <3>1. Steps[i] = T1[1] BY <2>2, <1>1, <2>0, <2>s
      <3>q. QED BY <3>1, <1>4, <1>1, <2>2
    <2>3. CASE i = a + 2
      <3>1. Steps[i] = T1[2] BY <2>3, <1>1, <2>0, <2>s
      <3>q. QED BY <3>1, <1>4, <1>1, <2>3
    <2>4. CASE i = a + 3
      <3>1. Steps[i] = T2[1] BY <2>4, <1>1, <2>0
      <3>q. QED BY <3>1, <1>5, <1>1, <2>4
    <2>5. CASE i = a + 4
      <3>1. Steps[i] = T2[2] BY <2>5, <1>1, <2>0
      <3>q. QED BY <3>1, <1>5, <1>1, <2>5
    <2>6. CASE i > a + 4
      <3>1. i - (a + 4) \in 1 .. b BY <2>6, <1>1, <1>13
      <3>2. Steps[i] = [do |-> "hand", role |-> "master", n |-> i - (a + 4)]
        BY <3>1, <2>6, <1>1, <1>3, <1>10, <1>13
      <3>3. <<"master", i - (a + 4)>> \in Places
        BY <3>1, <1>1 DEF Places, b
      <3>q. QED BY <3>2, <3>3, <2>6, <1>1
    <2>q. QED BY <2>1, <2>2, <2>3, <2>4, <2>5, <2>6, <1>1, <1>13
  <1>12. a + 4 + b = Slots["slave"] + Slots["master"] + 4 BY <1>1 DEF a, b
  <1>q. QED BY <1>10, <1>11, <1>12, <1>13 DEF a

\* There is a least place among those waiting for the UART.
LEMMA FirstWaiting ==
  ASSUME NEW W \in SUBSET Places, W # {}
  PROVE  (CHOOSE p \in W : \A q \in W : p[2] <= q[2]) \in W
  <1> DEFINE N == {p[2] : p \in W}
  <1>1. N \subseteq Nat /\ N # {} BY DEF Places
  <1>2. PICK m \in N : \A k \in N : ~(<<k, m>> \in OpToRel(<, Nat))
    BY <1>1, NatLessThanWellFounded, WFMin
  <1>3. \E p \in W : p[2] = m OBVIOUS
  <1>4. PICK p \in W : p[2] = m BY <1>3
  <1>5. ASSUME NEW q \in W PROVE p[2] <= q[2]
    <2>1. q[2] \in N /\ m \in Nat /\ q[2] \in Nat BY <1>1
    <2>2. ~(q[2] < m) BY <2>1, <1>2 DEF OpToRel
    <2>q. QED BY <2>1, <2>2, <1>4
  <1>q. QED BY <1>5

-----------------------------------------------------------------------------
(* What an action leaves alone it preserves. *)

LEMMA RxKept == ASSUME IInv, UNCHANGED <<rxVars, host>> PROVE HeaderKnown' /\ InStep'
  BY DEF IInv, HeaderKnown, InStep, rxVars

LEMMA TxKept ==
  ASSUME IInv, UNCHANGED <<txVars, writes>> PROVE Numbered' /\ FrameWhole' /\ SentOnce'
  BY DEF IInv, Numbered, FrameWhole, SentOnce, txVars, Places

LEMMA TimerKept == ASSUME IInv, UNCHANGED timer PROVE SeenPlace'
  BY DEF IInv, SeenPlace, timer, Steps, HandSteps, TxSteps, Places

LEMMA HeldKept == ASSUME IInv, UNCHANGED <<held, taken, handed>> PROVE Conserved'
  BY DEF IInv, Conserved, Places

-----------------------------------------------------------------------------
(* Reception. *)

\* Storing a frame in a buffer that is empty keeps bytes and counts together.
LEMMA StoreConserves ==
  ASSUME TypeOK, Conserved, NEW p \in Places, NEW len \in Nat, held[p] = << >>,
         Store(p, len), handed' = handed
  PROVE  Conserved' /\ held' \in [Places -> Seq(Nat)] /\ taken' \in [Places -> Nat]
  <1>1. taken[p] \in Nat /\ handed[p] = taken[p] BY DEF TypeOK, Conserved
  <1> DEFINE s == [i \in 1 .. len |-> taken[p] + i]
  <1>2. s \in Seq(Nat) /\ Len(s) = len
    <2>1. s \in [1 .. len -> Nat] BY <1>1
    <2>q. QED BY <2>1
  <1>3. held' = [held EXCEPT ![p] = s] /\ taken' = [taken EXCEPT ![p] = @ + len]
    BY DEF Store
  <1>4. held' \in [Places -> Seq(Nat)] /\ taken' \in [Places -> Nat]
    <2> HIDE DEF s
    <2>1. held \in [Places -> Seq(Nat)] /\ taken \in [Places -> Nat] BY DEF TypeOK
    <2>q. QED BY <2>1, <1>1, <1>2, <1>3
  <1>5. ASSUME NEW q \in Places
        PROVE  /\ held'[q] = [i \in 1 .. Len(held'[q]) |-> handed'[q] + i]
               /\ taken'[q] = handed'[q] + Len(held'[q])
    <2>1. CASE q = p
      <3>1. held'[q] = s /\ taken'[q] = taken[p] + len BY <2>1, <1>3 DEF TypeOK
      <3>2. handed'[q] = taken[p] BY <2>1, <1>1
      <3> HIDE DEF s
      <3>3. Len(held'[q]) = len BY <3>1, <1>2
      <3>q. QED BY <3>1, <3>2, <3>3 DEF s
    <2>2. CASE q # p
      <3>1. held'[q] = held[q] /\ taken'[q] = taken[q] BY <2>2, <1>3 DEF TypeOK
      <3>q. QED BY <3>1 DEF Conserved
    <2>q. QED BY <2>1, <2>2
  <1>q. QED BY <1>4, <1>5 DEF Conserved, Places

LEMMA AcceptConserves ==
  ASSUME TypeOK, Conserved, NEW l, NEW len \in Nat, Accept(l, len), handed' = handed
  PROVE  Conserved' /\ held' \in [Places -> Seq(Nat)] /\ taken' \in [Places -> Nat]
  <1>1. CASE \E p \in At(l) : held[p] = << >> /\ Store(p, len)
    BY <1>1, StoreConserves DEF At
  <1>2. CASE UNCHANGED <<held, taken>>
    BY <1>2 DEF Conserved, TypeOK, Places
  <1>q. QED BY <1>1, <1>2 DEF Accept

\* What the reception changes, and its types.
RxTypeOK ==
    /\ rxState \in {"idle", "sync", "receiving"} /\ hdr \in Seq(Nat) /\ Len(hdr) <= 2
    /\ rxLeft \in Nat \ {0}
    /\ rxState = "receiving" => rxLeft <= PayloadMax
    /\ rxState # "receiving" => rxLeft <= 2
    /\ inStep \in BOOLEAN
    /\ held \in [Places -> Seq(Nat)] /\ taken \in [Places -> Nat]

LEMMA RxTypes == TypeOK => RxTypeOK /\ Len(hdr) \in Nat
  <1> SUFFICES ASSUME TypeOK PROVE RxTypeOK /\ Len(hdr) \in Nat OBVIOUS
  <1>1. /\ rxState \in {"idle", "sync", "receiving"} /\ hdr \in Seq(Nat) /\ Len(hdr) <= 2
        /\ inStep \in BOOLEAN
        /\ held \in [Places -> Seq(Nat)] /\ taken \in [Places -> Nat]
    BY DEF TypeOK
  <1>2. rxState = "receiving" => rxLeft \in 1 .. PayloadMax BY DEF TypeOK
  <1>3. rxState # "receiving" => rxLeft \in 1 .. 2 BY DEF TypeOK
  <1>4. Len(hdr) \in Nat BY <1>1
  <1>q. QED BY <1>1, <1>2, <1>3, <1>4, MultiLinkAssumption DEF RxTypeOK

LEMMA TypesFromRx ==
  ASSUME TypeOK, RxTypeOK', host' \in Seq(Nat),
         UNCHANGED <<txVars, linkVars, handed, timer, left, writes>>
  PROVE  TypeOK'
  <1>1. /\ rxState' \in {"idle", "sync", "receiving"} /\ hdr' \in Seq(Nat) /\ Len(hdr') <= 2
        /\ inStep' \in BOOLEAN
        /\ held' \in [Places -> Seq(Nat)] /\ taken' \in [Places -> Nat]
    BY DEF RxTypeOK
  <1>2. rxLeft' \in 1 .. IF rxState' = "receiving" THEN PayloadMax ELSE 2
    <2>1. CASE rxState' = "receiving" BY <2>1, MultiLinkAssumption DEF RxTypeOK
    <2>2. CASE rxState' # "receiving" BY <2>2 DEF RxTypeOK
    <2>q. QED BY <2>1, <2>2
  <1>3. UNCHANGED <<tx, busy, cur, leaving, sentNo, mixed, link, data, done, handed, pc, seen,
                    left, writes>>
    BY DEF txVars, linkVars, timer
  <1>q. QED BY <1>1, <1>2, <1>3, Zenon DEF TypeOK

LEMMA RxInv == ASSUME IInv, Rx PROVE IInv'
  <1> DEFINE u == Head(host)
  <1>1. /\ TypeOK /\ host # << >> /\ host' = Tail(host)
        /\ UNCHANGED <<txVars, linkVars, handed, timer, left, writes>>
    BY DEF IInv, Rx
  <1>2. /\ u \in Nat /\ u = host[1]
        /\ host' \in Seq(Nat) /\ Len(host') = Len(host) - 1 /\ Len(host) \in Nat \ {0}
        /\ \A i \in 1 .. Len(host') : host'[i] = host[i + 1]
    <2>1. host \in Seq(Nat) BY <1>1 DEF TypeOK
    <2>q. QED BY <1>1, <2>1, HeadTailProperties
  <1>3. Numbered' /\ FrameWhole' /\ SentOnce' /\ SeenPlace'
    BY <1>1, TxKept, TimerKept
  <1>0. RxTypeOK /\ PayloadMax \in Nat /\ Len(hdr) \in Nat
    BY <1>1, RxTypes, MultiLinkAssumption
  <1>4. SUFFICES RxTypeOK' /\ HeaderKnown' /\ InStep' /\ Conserved'
    <2>1. ASSUME RxTypeOK' PROVE TypeOK'
      BY <2>1, <1>1, <1>2, TypesFromRx
    <2>q. QED BY <2>1, <1>3 DEF IInv
  <1>5. CASE RxIdle(u)
    <2>1. hdr' = hdr /\ inStep' = inStep /\ UNCHANGED <<held, taken, handed>> /\ rxState = "idle"
      BY <1>1, <1>5 DEF RxIdle
    <2>2. Conserved' BY <2>1, HeldKept
    <2>3. CASE u = Sync
      <3>1. rxState' = "sync" /\ rxLeft' = 2 BY <1>5, <2>3 DEF RxIdle, Arm
      <3>2. ASSUME inStep PROVE host' # << >> /\ Len(host') = rxLeft' + host'[1]
        <4>1. host[1] = Sync /\ Len(host) = 3 + host[2] /\ Len(host) \in Nat
          BY <3>2, <2>1, <1>1, <1>2 DEF IInv, InStep
        <4>2. Len(host) > 3 BY <3>2, <2>1, <1>1 DEF IInv, HeaderKnown
        <4>3. 1 \in 1 .. Len(host') BY <4>2, <1>2
        <4>4. host'[1] = host[2] BY <4>3, <1>2
        <4>q. QED BY <4>1, <4>2, <4>4, <3>1, <1>2
      <3>3. InStep' BY <3>1, <3>2, <2>1 DEF InStep
      <3>q. QED BY <3>1, <3>3, <2>1, <2>2, <1>0 DEF RxTypeOK, HeaderKnown
    <2>4. CASE u # Sync
      <3>1. rxState' = "idle" /\ rxLeft' = 1 BY <1>5, <2>4 DEF RxIdle, Arm
      <3>2. ~inStep BY <2>1, <2>4, <1>1, <1>2 DEF IInv, InStep
      <3>3. HeaderKnown' /\ InStep' BY <3>1, <3>2, <2>1 DEF HeaderKnown, InStep
      <3>4. RxTypeOK' BY <3>1, <3>2, <2>1, <1>0 DEF RxTypeOK
      <3>q. QED BY <3>3, <3>4, <2>2
    <2>q. QED BY <2>3, <2>4
  <1>6. CASE RxSync(u)
    <2>1. UNCHANGED <<held, taken, handed>> /\ rxState = "sync"
      BY <1>1, <1>6 DEF RxSync
    <2>2. Conserved' BY <2>1, HeldKept
    <2>3. CASE rxLeft > 1
      <3>1. /\ rxLeft = 2 /\ rxState' = "sync" /\ rxLeft' = 1 /\ hdr' = <<u>>
            /\ inStep' = inStep
        BY <1>6, <2>3, <2>1, <1>0 DEF RxSync, Arm, RxTypeOK
      <3>2. ASSUME inStep PROVE host' # << >> /\ Len(host') = rxLeft' + hdr'[1]
        <4>1. Len(host) = 2 + host[1] BY <3>2, <3>1, <2>1 DEF IInv, InStep
        <4>q. QED BY <4>1, <3>1, <1>2
      <3>3. InStep' BY <3>1, <3>2, <2>1 DEF InStep
      <3>q. QED BY <3>1, <3>3, <2>1, <2>2, <1>0, <1>2 DEF RxTypeOK, HeaderKnown
    <2>4. CASE rxLeft = 1 /\ Valid(hdr[1], u)
      <3>1. Len(hdr) = 1 /\ hdr[1] \in Nat
        <4>1. Len(hdr) = 1 /\ hdr \in Seq(Nat) BY <2>1, <2>4, <1>0 DEF IInv, HeaderKnown, RxTypeOK
        <4>q. QED BY <4>1, ElementOfSeq
      <3>2. hdr[1] \in 1 .. PayloadMax
        BY <3>1, <2>4, MultiLinkAssumption DEF Valid
      <3>3. /\ rxState' = "receiving" /\ rxLeft' = hdr[1] /\ hdr' = Append(hdr, u)
            /\ inStep' = inStep
        BY <1>6, <2>4 DEF RxSync, Arm
      <3>4. hdr' \in Seq(Nat) /\ Len(hdr') = 2
        <4>1. hdr \in Seq(Nat) BY <1>0 DEF RxTypeOK
        <4>2. u \in Nat BY <1>2
        <4> HIDE DEF u
        <4>3. Append(hdr, u) \in Seq(Nat) /\ Len(Append(hdr, u)) = Len(hdr) + 1
          BY <4>1, <4>2, AppendProperties
        <4>q. QED BY <4>3, <3>1, <3>3
      <3>5. ASSUME inStep PROVE host' # << >> /\ Len(host') = rxLeft'
        <4>1. Len(host) = 1 + hdr[1] BY <3>5, <2>4, <2>1 DEF IInv, InStep
        <4>q. QED BY <4>1, <3>2, <3>3, <1>2
      <3>6. InStep' BY <3>3, <3>5 DEF InStep
      <3>q. QED BY <3>2, <3>3, <3>4, <3>6, <2>1, <2>2, <1>0 DEF RxTypeOK, HeaderKnown
    <2>5. CASE rxLeft = 1 /\ ~Valid(hdr[1], u)
      <3>1. rxState' = "idle" /\ rxLeft' = 1 /\ hdr' = << >> /\ inStep' = FALSE
        BY <1>6, <2>5 DEF RxSync, Arm
      <3>2. hdr' \in Seq(Nat) /\ Len(hdr') = 0 BY <3>1, EmptySeq
      <3>3. HeaderKnown' /\ InStep' BY <3>1 DEF HeaderKnown, InStep
      <3>5. inStep' \in BOOLEAN BY <3>1, Zenon
      <3>4. RxTypeOK' BY <3>1, <3>2, <3>5, <2>1, <1>0 DEF RxTypeOK
      <3>q. QED BY <3>3, <3>4, <2>2
    <2>q. QED BY <2>3, <2>4, <2>5, <1>6 DEF RxSync
  <1>7. CASE RxPayload(u)
    <2>1. inStep' = inStep /\ rxState = "receiving" /\ handed' = handed
      BY <1>1, <1>7 DEF RxPayload
    <2>2. /\ Len(hdr) = 2 /\ hdr[1] \in Nat /\ rxLeft \in 1 .. PayloadMax /\ PayloadMax \in Nat
      <3>1. Len(hdr) = 2 /\ hdr \in Seq(Nat) /\ rxLeft \in 1 .. PayloadMax
        BY <2>1, <1>0 DEF IInv, HeaderKnown, RxTypeOK
      <3>2. 1 \in 1 .. Len(hdr) /\ PayloadMax \in Nat BY <3>1, <1>0
      <3>3. hdr[1] \in Nat BY <3>1, <3>2, ElementOfSeq
      <3>q. QED BY <3>1, <3>2, <3>3
    <2>3. CASE rxLeft > 1
      <3>1. /\ rxState' = "receiving" /\ rxLeft' = rxLeft - 1
            /\ UNCHANGED <<hdr, held, taken, handed>>
        BY <1>7, <2>3, <2>1 DEF RxPayload, Arm
      <3>2. Conserved' BY <3>1, HeldKept
      <3>3. ASSUME inStep PROVE host' # << >> /\ Len(host') = rxLeft'
        <4>1. Len(host) = rxLeft BY <3>3, <2>1 DEF IInv, InStep
        <4>q. QED BY <4>1, <3>1, <2>2, <2>3, <1>2
      <3>4. InStep' BY <3>1, <3>3, <2>1 DEF InStep
      <3>q. QED BY <3>1, <3>2, <3>4, <2>1, <2>2, <2>3, <1>0 DEF RxTypeOK, HeaderKnown
    <2>4. CASE ~(rxLeft > 1)
      <3>1. /\ rxLeft = 1 /\ rxState' = "idle" /\ rxLeft' = 1 /\ hdr' = << >>
            /\ Accept(hdr[2], hdr[1])
        BY <1>7, <2>4, <2>2 DEF RxPayload, Arm
      <3>2. Conserved' /\ held' \in [Places -> Seq(Nat)] /\ taken' \in [Places -> Nat]
        BY <3>1, <2>1, <2>2, <1>1, AcceptConserves DEF IInv
      <3>3. ASSUME inStep PROVE host' = << >>
        <4>1. Len(host) = 1 BY <3>1, <3>3, <2>1 DEF IInv, InStep
        <4>q. QED BY <4>1, <1>2
      <3>4. InStep' BY <3>1, <3>3, <2>1 DEF InStep
      <3>5. hdr' \in Seq(Nat) /\ Len(hdr') = 0 BY <3>1, EmptySeq
      <3>q. QED BY <3>1, <3>2, <3>3, <3>4, <3>5, <2>1, <1>0 DEF RxTypeOK, HeaderKnown
    <2>q. QED BY <2>3, <2>4
  <1>q. QED BY <1>5, <1>6, <1>7 DEF Rx

LEMMA HostSendsInv == ASSUME IInv, HostSends PROVE IInv'
  <1>1. PICK f \in Frames : host' = f BY DEF HostSends
  <1>2. f \in Seq(Nat) /\ Len(f) > 3 /\ f[1] = Sync /\ Len(f) = 3 + f[2] /\ f # << >>
    BY MultiLinkAssumption
  <1>3. /\ TypeOK /\ host = << >> /\ left.frames > 0
        /\ left' = [left EXCEPT !.frames = @ - 1]
        /\ inStep' = (inStep \/ rxState = "idle")
        /\ UNCHANGED <<rxState, rxLeft, hdr, txVars, linkVars, held, taken, handed, timer, writes>>
    BY DEF IInv, HostSends
  <1>4. Numbered' /\ FrameWhole' /\ SentOnce' /\ SeenPlace' /\ Conserved'
    BY <1>3, TxKept, TimerKept, HeldKept
  <1>5. inStep' => rxState = "idle"
    BY <1>3 DEF IInv, InStep, TypeOK
  <1>6. HeaderKnown' /\ InStep'
    BY <1>1, <1>2, <1>3, <1>5 DEF IInv, HeaderKnown, InStep
  <1>7. TypeOK'
    <2>1. left' \in [frames : Nat, writes : Nat, conns : Nat]
      <3>1. left \in [frames : Nat, writes : Nat, conns : Nat] BY <1>3 DEF TypeOK
      <3>q. QED BY <3>1, <1>3
    <2>2. inStep' \in BOOLEAN BY <1>3 DEF TypeOK
    <2>3. host' \in Seq(Nat) BY <1>1, <1>2
    <2>4. UNCHANGED <<tx, busy, cur, leaving, sentNo, mixed, link, data, done, pc, seen>>
      BY <1>3 DEF txVars, linkVars, timer
    <2>q. QED BY <2>1, <2>2, <2>3, <2>4, <1>3, Zenon DEF TypeOK
  <1>q. QED BY <1>4, <1>6, <1>7 DEF IInv

-----------------------------------------------------------------------------
(* The way to the UART. *)

LEMMA TxPartInv == ASSUME IInv, TxPart PROVE IInv'
  <1>1. /\ TypeOK /\ busy /\ Len(leaving) < 2 /\ leaving' = Append(leaving, tx[cur])
        /\ UNCHANGED <<tx, busy, cur, sentNo, mixed, writes, host>>
        /\ UNCHANGED <<rxVars, linkVars, held, taken, handed, timer, left>>
    BY DEF IInv, TxPart
  <1>2. leaving \in Seq(Nat) /\ cur \in Places /\ tx[cur] \in Nat /\ Len(leaving) \in Nat
    BY <1>1 DEF TypeOK
  <1>3. /\ leaving' \in Seq(Nat) /\ Len(leaving') = Len(leaving) + 1
        /\ \A i \in 1 .. Len(leaving) : leaving'[i] = leaving[i]
        /\ leaving'[Len(leaving) + 1] = tx[cur]
    BY <1>1, <1>2, AppendProperties
  <1>4. HeaderKnown' /\ InStep' /\ SeenPlace' /\ Conserved'
    BY <1>1, RxKept, TimerKept, HeldKept
  <1>5. ASSUME NEW i \in 1 .. Len(leaving')
        PROVE  leaving'[i] <= writes /\ (~mixed => leaving'[i] = tx[cur])
    <2>1. CASE i \in 1 .. Len(leaving)
      BY <2>1, <1>1, <1>2, <1>3 DEF IInv, Numbered, FrameWhole
    <2>2. CASE i = Len(leaving) + 1
      BY <2>2, <1>1, <1>2, <1>3 DEF IInv, Numbered
    <2>q. QED BY <2>1, <2>2, <1>2, <1>3
  <1>6. Numbered' /\ FrameWhole' /\ SentOnce'
    BY <1>1, <1>5 DEF IInv, Numbered, FrameWhole, SentOnce, Places
  <1>7. TypeOK'
    <2>1. leaving' \in Seq(Nat) /\ Len(leaving') <= 2 BY <1>1, <1>2, <1>3
    <2>2. UNCHANGED <<rxState, rxLeft, hdr, inStep, link, data, done, pc, seen>>
      BY <1>1 DEF rxVars, linkVars, timer
    <2>q. QED BY <2>1, <2>2, <1>1, Zenon DEF TypeOK
  <1>q. QED BY <1>4, <1>6, <1>7 DEF IInv

LEMMA TxCpltInv == ASSUME IInv, TxCplt PROVE IInv'
  <1>1. /\ TypeOK /\ busy /\ Len(leaving) = 2 /\ busy' = FALSE /\ leaving' = << >>
        /\ tx' = [tx EXCEPT ![cur] = 0]
        /\ sentNo' = [sentNo EXCEPT ![cur] = IF leaving[2] > @ THEN leaving[2] ELSE @]
        /\ UNCHANGED <<cur, mixed, writes, host>>
        /\ UNCHANGED <<rxVars, linkVars, held, taken, handed, timer, left>>
    BY DEF IInv, TxCplt
  <1>2. /\ tx \in [Places -> Nat] /\ sentNo \in [Places -> Nat] /\ cur \in Places
        /\ leaving \in Seq(Nat) /\ writes \in Nat
    BY <1>1 DEF TypeOK
  <1>3. leaving[2] \in Nat /\ leaving[2] <= writes
    <2>1. 2 \in 1 .. Len(leaving) BY <1>1
    <2>q. QED BY <2>1, <1>2, ElementOfSeq DEF IInv, Numbered
  <1>4. /\ tx' \in [Places -> Nat] /\ sentNo' \in [Places -> Nat]
        /\ \A p \in Places : p # cur => tx'[p] = tx[p] /\ sentNo'[p] = sentNo[p]
        /\ tx'[cur] = 0
        /\ sentNo'[cur] \in {leaving[2], sentNo[cur]}
    BY <1>1, <1>2, <1>3
  <1>5. HeaderKnown' /\ InStep' /\ SeenPlace' /\ Conserved'
    BY <1>1, RxKept, TimerKept, HeldKept
  <1>6. ASSUME NEW p \in Places
        PROVE  tx'[p] <= writes /\ sentNo'[p] <= writes /\ (tx'[p] # 0 => tx'[p] > sentNo'[p])
    <2>1. tx[p] \in Nat /\ sentNo[p] \in Nat /\ tx[p] <= writes /\ sentNo[p] <= writes
          /\ (tx[p] # 0 => tx[p] > sentNo[p])
      BY <1>2 DEF IInv, Numbered, SentOnce
    <2>2. CASE p = cur BY <2>1, <2>2, <1>2, <1>3, <1>4
    <2>3. CASE p # cur BY <2>1, <2>3, <1>4
    <2>q. QED BY <2>2, <2>3
  <1>7. Numbered' /\ FrameWhole' /\ SentOnce'
    BY <1>1, <1>6 DEF Numbered, FrameWhole, SentOnce, Places
  <1>8. TypeOK'
    <2>1. leaving' \in Seq(Nat) /\ Len(leaving') <= 2 BY <1>1, EmptySeq
    <2>3. busy' \in BOOLEAN BY <1>1, Zenon
    <2>2. UNCHANGED <<rxState, rxLeft, hdr, inStep, link, data, done, pc, seen>>
      BY <1>1 DEF rxVars, linkVars, timer
    <2>q. QED BY <2>1, <2>2, <2>3, <1>1, <1>4, Zenon DEF TypeOK
  <1>q. QED BY <1>5, <1>7, <1>8 DEF IInv

\* A transfer that starts with a message waiting is of that message.
LEMMA StartWhole ==
  ASSUME NEW p, Start(p) PROVE FrameWhole' /\ leaving' = << >> /\ cur' = p /\ busy'
  <1>1. cur' = p /\ busy' = TRUE /\ leaving' = << >> /\ mixed' = (tx'[p] = 0) BY DEF Start
  <1>2. Len(leaving') = 0 BY <1>1, EmptySeq
  <1>3. ~mixed' => tx'[cur'] # 0 BY <1>1, Zenon
  <1>4. \A i \in 1 .. Len(leaving') : leaving'[i] = tx'[cur'] BY <1>2
  <1>5. FrameWhole' BY <1>3, <1>4, Zenon DEF FrameWhole
  <1>q. QED BY <1>1, <1>5, Zenon

\* A buffer is filled only while it does not wait, hence not while its frame is sent whole.
LEMMA PeerDataInv == ASSUME IInv, NEW p \in Places, PeerData(p) PROVE IInv'
  <1>1. /\ TypeOK /\ left.writes > 0 /\ tx[p] = 0 /\ pc = 0 /\ pc' = pc /\ seen' = p
        /\ writes' = writes + 1 /\ left' = [left EXCEPT !.writes = @ - 1]
        /\ tx' = [tx EXCEPT ![p] = writes']
        /\ UNCHANGED <<sentNo, host, busy, cur, leaving, mixed>>
        /\ UNCHANGED <<rxVars, linkVars, held, taken, handed>>
    BY DEF IInv, PeerData, Idle, Filled
  <1>2. /\ tx \in [Places -> Nat] /\ sentNo \in [Places -> Nat] /\ cur \in Places
        /\ leaving \in Seq(Nat) /\ writes \in Nat
    BY <1>1 DEF TypeOK
  <1>3. /\ tx' \in [Places -> Nat] /\ tx'[p] = writes + 1
        /\ \A q \in Places : q # p => tx'[q] = tx[q]
    BY <1>1, <1>2
  <1>4. HeaderKnown' /\ InStep' /\ Conserved' BY <1>1, RxKept, HeldKept
  <1>5. SeenPlace' BY <1>1 DEF SeenPlace
  <1>6. ASSUME NEW q \in Places
        PROVE  tx'[q] <= writes' /\ sentNo'[q] <= writes' /\ (tx'[q] # 0 => tx'[q] > sentNo'[q])
    BY <1>1, <1>2, <1>3 DEF IInv, Numbered, SentOnce
  <1>7. Numbered' /\ SentOnce'
    BY <1>1, <1>2, <1>6 DEF IInv, Numbered, SentOnce, Places
  <1>8. FrameWhole' BY <1>1, <1>2, <1>3 DEF IInv, FrameWhole
  <1>9. TypeOK'
    <2>1. left' \in [frames : Nat, writes : Nat, conns : Nat] /\ writes' \in Nat
      <3>1. left \in [frames : Nat, writes : Nat, conns : Nat] BY <1>1 DEF TypeOK
      <3>2. left' \in [frames : Nat, writes : Nat, conns : Nat] BY <3>1, <1>1
      <3>q. QED BY <3>2, <1>1, <1>2
    <2>2. UNCHANGED <<rxState, rxLeft, hdr, inStep, link, data, done>>
      BY <1>1 DEF rxVars, linkVars
    <2>3. seen' \in Places \cup {<< >>} BY <1>1
    <2>q. QED BY <2>1, <2>2, <2>3, <1>1, <1>3, Zenon DEF TypeOK, Steps, HandSteps, TxSteps
  <1>q. QED BY <1>4, <1>5, <1>7, <1>8, <1>9 DEF IInv

\* What is common to the ends of a peer's data and of the timer's look: a transfer starts,
\* if none is under way, for a place.
LEMMA StartSeenInv ==
  ASSUME IInv, StartSeen, seen \in Places, pc' \in 0 .. Len(Steps), SeenPlace' PROVE IInv'
  <1>1. /\ TypeOK /\ tx' = tx /\ seen' = << >>
        /\ UNCHANGED <<writes, host, sentNo, held, taken, handed, left>>
        /\ UNCHANGED <<rxVars, linkVars>>
    BY DEF IInv, StartSeen
  <1>2. \/ busy /\ UNCHANGED <<busy, cur, leaving, mixed>>
        \/ ~busy /\ Start(seen)
    BY DEF StartSeen
  <1>3. HeaderKnown' /\ InStep' /\ Conserved' BY <1>1, RxKept, HeldKept
  <1>4. UNCHANGED <<rxState, rxLeft, hdr, inStep, link, data, done>>
    BY <1>1 DEF rxVars, linkVars
  <1>5. CASE busy
    <2>1. UNCHANGED <<busy, cur, leaving, mixed>> BY <1>2, <1>5
    <2>2. Numbered' /\ FrameWhole' /\ SentOnce' BY <2>1, <1>1, TxKept DEF txVars
    <2>3. TypeOK' BY <2>1, <1>1, <1>4, Zenon DEF TypeOK, Steps, HandSteps, TxSteps
    <2>q. QED BY <1>3, <2>2, <2>3 DEF IInv
  <1>6. CASE ~busy
    <2>1. /\ busy' = TRUE /\ cur' = seen /\ leaving' = << >> /\ mixed' = (tx'[seen] = 0)
          /\ Start(seen)
      BY <1>2, <1>6 DEF Start
    <2>2. FrameWhole' BY <2>1, StartWhole
    <2>3. leaving' \in Seq(Nat) /\ Len(leaving') = 0 /\ Len(leaving') <= 2 BY <2>1, EmptySeq
    <2>4. Numbered' /\ SentOnce' BY <2>3, <1>1 DEF IInv, Numbered, SentOnce, Places
    <2>5. busy' \in BOOLEAN /\ mixed' \in BOOLEAN BY <2>1, Zenon
    <2>6. cur' \in Places /\ seen' \in Places \cup {<< >>} BY <2>1, <1>1
    <2>7. TypeOK' BY <2>3, <2>5, <2>6, <1>1, <1>4, Zenon DEF TypeOK, Steps, HandSteps, TxSteps
    <2>q. QED BY <1>3, <2>2, <2>4, <2>7 DEF IInv
  <1>q. QED BY <1>5, <1>6

LEMMA PeerStartInv == ASSUME IInv, PeerStart PROVE IInv'
  <1>1. pc' = 0 /\ seen # << >> /\ StartSeen BY DEF PeerStart
  <1>2. seen \in Places BY <1>1 DEF IInv, TypeOK
  <1>3. pc' \in 0 .. Len(Steps) BY <1>1 DEF IInv, TypeOK, PeerStart
  <1>4. SeenPlace' BY <1>1 DEF SeenPlace
  <1>q. QED BY <1>1, <1>2, <1>3, <1>4, StartSeenInv

-----------------------------------------------------------------------------
(* The timer. *)

LEMMA TimerInv == ASSUME IInv, Timer PROVE IInv'
  <1>1. /\ TypeOK /\ pc' = 1 /\ seen' = << >>
        /\ UNCHANGED <<writes, host, held, taken, handed, left>>
        /\ UNCHANGED <<rxVars, txVars, linkVars>>
    BY DEF IInv, Timer
  <1>2. HeaderKnown' /\ InStep' /\ Numbered' /\ FrameWhole' /\ SentOnce' /\ Conserved'
    BY <1>1, RxKept, TxKept, HeldKept
  <1>3. Slots["slave"] \in Nat \ {0} /\ Slots["master"] \in Nat
    BY MultiLinkAssumption
  <1>4. 1 \in 1 .. Len(Steps) BY <1>3, StepsShape
  <1>5. Steps[1].do # "start"
    <2>1. 1 \notin {Slots["slave"] + 2, Slots["slave"] + 4} BY <1>3
    <2>q. QED BY <2>1, <1>4, StepsShape
  <1>6. SeenPlace' BY <1>1, <1>5 DEF SeenPlace, Steps, HandSteps, TxSteps
  <1>7. TypeOK'
    <2>1. pc' \in 0 .. Len(Steps) BY <1>1, <1>4, <1>3, StepsShape
    <2>2. UNCHANGED <<rxState, rxLeft, hdr, inStep, link, data, done, tx, busy, cur, leaving,
                      sentNo, mixed>>
      BY <1>1 DEF rxVars, linkVars, txVars
    <2>q. QED BY <2>1, <2>2, <1>1, Zenon DEF TypeOK, Steps, HandSteps, TxSteps
  <1>q. QED BY <1>2, <1>6, <1>7 DEF IInv

LEMMA StepsLength ==
  /\ Len(Steps) \in Nat
  /\ Slots["slave"] \in Nat \ {0} /\ Slots["master"] \in Nat
  <1>1. Slots["slave"] \in Nat \ {0} /\ Slots["master"] \in Nat BY MultiLinkAssumption
  <1>q. QED BY <1>1, StepsShape

\* The next step of the callback, or its end.
LEMMA AfterType ==
  ASSUME NEW n \in Nat, pc \in 1 .. Len(Steps), After(n)
  PROVE  /\ pc' \in 0 .. Len(Steps)
         /\ pc' > 0 => pc' = pc + n /\ pc + n \in 1 .. Len(Steps)
  <1>1. Len(Steps) \in Nat BY StepsShape, MultiLinkAssumption
  <1>q. QED BY <1>1 DEF After

LEMMA HandInv == ASSUME IInv, Hand PROVE IInv'
  <1> DEFINE p == <<Steps[pc].role, Steps[pc].n>>
             m == IF Len(held[p]) > data[p] THEN data[p] ELSE Len(held[p])
  <1>1. /\ TypeOK /\ pc > 0 /\ Steps[pc].do = "hand" /\ After(1) /\ seen' = seen
        /\ UNCHANGED <<rxVars, txVars, link, data, taken, host, left, writes>>
    BY DEF IInv, Hand, Advance
  <1>2. \/ UNCHANGED <<done, held, handed>>
        \/ /\ done' = [done EXCEPT ![p] = FALSE]
           /\ held' = [held EXCEPT ![p] = SubSeq(@, m + 1, Len(@))]
           /\ handed' = [handed EXCEPT ![p] = @ + m]
    BY DEF Hand
  <1>3. /\ pc \in 1 .. Len(Steps) /\ Len(Steps) \in Nat
        /\ Slots["slave"] \in Nat \ {0} /\ Slots["master"] \in Nat
    <2>1. pc \in 0 .. Len(Steps) BY <1>1 DEF TypeOK
    <2>q. QED BY <2>1, <1>1, StepsLength
  <1>4. p \in Places BY <1>1, <1>3, StepsShape
  <1> HIDE DEF p
  <1>5. HeaderKnown' /\ InStep' /\ Numbered' /\ FrameWhole' /\ SentOnce'
    BY <1>1, RxKept, TxKept
  <1>6. pc' \in 0 .. Len(Steps) /\ (pc' > 0 => pc' = pc + 1 /\ pc + 1 \in 1 .. Len(Steps))
    BY <1>1, <1>3, AfterType
  <1>7. SeenPlace'
    <2>1. ASSUME pc' > 0, Steps[pc'].do = "start" PROVE FALSE
      <3>1. pc + 1 \in {Slots["slave"] + 2, Slots["slave"] + 4}
        BY <2>1, <1>6, StepsShape
      <3>2. pc \in {Slots["slave"] + 1, Slots["slave"] + 3} BY <3>1, <1>3
      <3>3. Steps[pc].do = "look" BY <3>2, <1>3, StepsShape
      <3>q. QED BY <3>3, <1>1
    <2>q. QED BY <2>1 DEF SeenPlace, Steps, HandSteps, TxSteps
  <1>8. /\ held \in [Places -> Seq(Nat)] /\ handed \in [Places -> Nat] /\ done \in [Places -> BOOLEAN]
        /\ data[p] \in Nat \ {0} /\ held[p] \in Seq(Nat) /\ handed[p] \in Nat
    BY <1>1, <1>4 DEF TypeOK
  <1>9. m \in 0 .. Len(held[p]) /\ Len(held[p]) \in Nat BY <1>8
  <1> HIDE DEF m
  <1>10. /\ Conserved' /\ held' \in [Places -> Seq(Nat)] /\ handed' \in [Places -> Nat]
         /\ done' \in [Places -> BOOLEAN]
    <2>1. CASE UNCHANGED <<done, held, handed>>
      BY <2>1, <1>1, <1>8, HeldKept
    <2>2. CASE /\ done' = [done EXCEPT ![p] = FALSE]
               /\ held' = [held EXCEPT ![p] = SubSeq(@, m + 1, Len(@))]
               /\ handed' = [handed EXCEPT ![p] = @ + m]
      <3> DEFINE s == SubSeq(held[p], m + 1, Len(held[p]))
      <3>1. /\ s \in Seq(Nat) /\ Len(s) = Len(held[p]) - m
            /\ \A i \in 1 .. Len(s) : s[i] = held[p][m + i]
        BY <1>8, <1>9, SubSeqProperties
      <3>2. held' = [held EXCEPT ![p] = s] BY <2>2
      <3> HIDE DEF s
      <3>3. held' \in [Places -> Seq(Nat)] /\ handed' \in [Places -> Nat]
        BY <3>1, <3>2, <2>2, <1>4, <1>8, <1>9
      <3>4. done' \in [Places -> BOOLEAN]
        BY <2>2, <1>8
      <3>5. ASSUME NEW q \in Places
            PROVE  /\ held'[q] = [i \in 1 .. Len(held'[q]) |-> handed'[q] + i]
                   /\ taken'[q] = handed'[q] + Len(held'[q])
        <4>1. CASE q = p
          <5>1. held'[q] = s /\ handed'[q] = handed[p] + m /\ taken'[q] = taken[p]
            BY <4>1, <3>2, <2>2, <1>1, <1>4, <1>8
          <5>2. /\ held[p] = [i \in 1 .. Len(held[p]) |-> handed[p] + i]
                /\ taken[p] = handed[p] + Len(held[p])
            BY <1>4 DEF IInv, Conserved
          <5>3. ASSUME NEW i \in 1 .. Len(s) PROVE s[i] = (handed[p] + m) + i
            <6>1. m + i \in 1 .. Len(held[p]) BY <3>1, <1>9
            <6>2. s[i] = held[p][m + i] BY <3>1
            <6>3. held[p][m + i] = handed[p] + (m + i) BY <6>1, <5>2
            <6>q. QED BY <6>2, <6>3, <1>8, <1>9
          <5>4. s = [i \in 1 .. Len(s) |-> (handed[p] + m) + i]
            <6>1. s \in [1 .. Len(s) -> Nat] BY <3>1, LenProperties
            <6>q. QED BY <6>1, <5>3
          <5>5. taken[p] = (handed[p] + m) + Len(s)
            <6>1. taken[p] = handed[p] + Len(held[p]) /\ Len(s) = Len(held[p]) - m BY <5>2, <3>1
            <6>2. m \in Nat BY <1>9
            <6>q. QED BY <6>1, <6>2, <1>8, <1>9
          <5>q. QED BY <5>1, <5>4, <5>5
        <4>2. CASE q # p
          <5>1. held'[q] = held[q] /\ handed'[q] = handed[q] /\ taken'[q] = taken[q]
            BY <4>2, <3>2, <2>2, <1>1, <1>4, <1>8
          <5>q. QED BY <5>1 DEF IInv, Conserved
        <4>q. QED BY <4>1, <4>2
      <3>6. Conserved' BY <3>5 DEF Conserved, Places
      <3>q. QED BY <3>3, <3>4, <3>6
    <2>q. QED BY <2>1, <2>2, <1>2
  <1>11. TypeOK'
    <2>1. UNCHANGED <<rxState, rxLeft, hdr, inStep, tx, busy, cur, leaving, sentNo, mixed>>
      BY <1>1 DEF rxVars, txVars
    <2>q. QED BY <2>1, <1>1, <1>6, <1>10, Zenon DEF TypeOK, Steps, HandSteps, TxSteps
  <1>q. QED BY <1>5, <1>7, <1>10, <1>11 DEF IInv

LEMMA LookInv == ASSUME IInv, Look PROVE IInv'
  <1> DEFINE W == Waiting(Steps[pc].role)
  <1>1. /\ TypeOK /\ pc > 0 /\ Steps[pc].do = "look"
        /\ UNCHANGED <<writes, host, held, taken, handed, left>>
        /\ UNCHANGED <<rxVars, txVars, linkVars>>
    BY DEF IInv, Look
  <1>2. \/ W = {} /\ After(2) /\ seen' = << >>
        \/ W # {} /\ After(1) /\ seen' = CHOOSE p \in W : \A q \in W : p[2] <= q[2]
    BY DEF Look, Advance
  <1>3. /\ pc \in 1 .. Len(Steps) /\ Len(Steps) \in Nat
        /\ Slots["slave"] \in Nat \ {0} /\ Slots["master"] \in Nat
    <2>1. pc \in 0 .. Len(Steps) BY <1>1 DEF TypeOK
    <2>q. QED BY <2>1, <1>1, StepsLength
  <1>4. HeaderKnown' /\ InStep' /\ Numbered' /\ FrameWhole' /\ SentOnce' /\ Conserved'
    BY <1>1, RxKept, TxKept, HeldKept
  <1>5. W \in SUBSET Places BY DEF Waiting
  <1> HIDE DEF W
  <1>6. /\ pc' \in 0 .. Len(Steps) /\ seen' \in Places \cup {<< >>}
        /\ (pc' > 0 /\ Steps[pc'].do = "start" => seen' \in Places)
    <2>1. CASE W = {} /\ After(2) /\ seen' = << >>
      <3>1. pc' \in 0 .. Len(Steps) /\ (pc' > 0 => pc' = pc + 2 /\ pc + 2 \in 1 .. Len(Steps))
        BY <2>1, <1>3, AfterType
      <3>2. ASSUME pc' > 0, Steps[pc'].do = "start" PROVE FALSE
        <4>1. pc + 2 \in {Slots["slave"] + 2, Slots["slave"] + 4}
          BY <3>1, <3>2, StepsShape
        <4>2. pc \in {Slots["slave"] + 1, Slots["slave"] + 3} BY <1>1, <1>3, StepsShape
        <4>q. QED BY <4>1, <4>2, <1>3
      <3>q. QED BY <3>1, <3>2, <2>1
    <2>2. CASE W # {} /\ After(1) /\ seen' = CHOOSE p \in W : \A q \in W : p[2] <= q[2]
      <3>1. pc' \in 0 .. Len(Steps) BY <2>2, <1>3, AfterType
      <3>2. seen' \in W BY <2>2, <1>5, FirstWaiting
      <3>q. QED BY <3>1, <3>2, <1>5
    <2>q. QED BY <2>1, <2>2, <1>2
  <1>7. SeenPlace' BY <1>6 DEF SeenPlace, Steps, HandSteps, TxSteps, Places
  <1>8. TypeOK'
    <2>1. UNCHANGED <<rxState, rxLeft, hdr, inStep, link, data, done, tx, busy, cur, leaving,
                      sentNo, mixed>>
      BY <1>1 DEF rxVars, linkVars, txVars
    <2>q. QED BY <2>1, <1>1, <1>6, Zenon DEF TypeOK, Steps, HandSteps, TxSteps
  <1>q. QED BY <1>4, <1>7, <1>8 DEF IInv

LEMMA UartTxInv == ASSUME IInv, UartTx PROVE IInv'
  <1>1. pc > 0 /\ Steps[pc].do = "start" /\ After(1) /\ StartSeen
    BY DEF UartTx, Advance
  <1>2. /\ pc \in 1 .. Len(Steps) /\ Len(Steps) \in Nat
        /\ Slots["slave"] \in Nat \ {0} /\ Slots["master"] \in Nat
    <2>1. pc \in 0 .. Len(Steps) BY DEF IInv, TypeOK
    <2>q. QED BY <2>1, <1>1, StepsLength
  <1>3. seen \in Places BY <1>1 DEF IInv, SeenPlace
  <1>4. pc' \in 0 .. Len(Steps) /\ (pc' > 0 => pc' = pc + 1 /\ pc + 1 \in 1 .. Len(Steps))
    BY <1>1, <1>2, AfterType
  <1>5. ASSUME pc' > 0, Steps[pc'].do = "start" PROVE FALSE
    <2>1. pc + 1 \in {Slots["slave"] + 2, Slots["slave"] + 4}
      BY <1>4, <1>5, StepsShape
    <2>2. pc \in {Slots["slave"] + 2, Slots["slave"] + 4} BY <1>1, <1>2, StepsShape
    <2>q. QED BY <2>1, <2>2, <1>2
  <1>6. SeenPlace' BY <1>5 DEF SeenPlace, Steps, HandSteps, TxSteps
  <1>q. QED BY <1>1, <1>3, <1>4, <1>6, StartSeenInv

-----------------------------------------------------------------------------
(* The links. *)

\* The message about a link is the latest, and spoils the frame it is written over.
LEMMA PatternInv ==
  ASSUME IInv, NEW p \in Places, Pattern(p)
  PROVE  /\ Numbered' /\ FrameWhole' /\ SentOnce'
         /\ writes' \in Nat /\ tx' \in [Places -> Nat] /\ mixed' \in BOOLEAN
         /\ UNCHANGED <<busy, cur, leaving, sentNo>>
  <1>1. /\ writes' = writes + 1 /\ tx' = [tx EXCEPT ![p] = writes']
        /\ mixed' = (mixed \/ (busy /\ cur = p))
        /\ UNCHANGED <<busy, cur, leaving, sentNo>>
    BY DEF Pattern
  <1>2. /\ tx \in [Places -> Nat] /\ sentNo \in [Places -> Nat] /\ cur \in Places
        /\ leaving \in Seq(Nat) /\ writes \in Nat /\ mixed \in BOOLEAN /\ busy \in BOOLEAN
    BY DEF IInv, TypeOK
  <1>3. /\ tx' \in [Places -> Nat] /\ tx'[p] = writes + 1 /\ writes' \in Nat
        /\ \A q \in Places : q # p => tx'[q] = tx[q]
    BY <1>1, <1>2
  <1>4. ASSUME NEW q \in Places
        PROVE  tx'[q] <= writes' /\ sentNo'[q] <= writes' /\ (tx'[q] # 0 => tx'[q] > sentNo'[q])
    <2>1. /\ tx[q] \in Nat /\ sentNo[q] \in Nat /\ tx[q] <= writes /\ sentNo[q] <= writes
          /\ (tx[q] # 0 => tx[q] > sentNo[q])
      BY <1>2 DEF IInv, Numbered, SentOnce
    <2>q. QED BY <2>1, <1>1, <1>2, <1>3
  <1>5. ASSUME NEW i \in 1 .. Len(leaving) PROVE leaving[i] <= writes'
    <2>1. leaving[i] \in Nat /\ leaving[i] <= writes BY <1>2, ElementOfSeq DEF IInv, Numbered
    <2>q. QED BY <2>1, <1>1, <1>2
  <1>6. Numbered' /\ SentOnce' BY <1>1, <1>4, <1>5 DEF Numbered, SentOnce, Places
  <1>7. ASSUME busy, ~mixed, cur # p
        PROVE  tx'[cur] # 0 /\ \A i \in 1 .. Len(leaving) : leaving[i] = tx'[cur]
    BY <1>2, <1>3, <1>7 DEF IInv, FrameWhole
  <1>8. FrameWhole' BY <1>1, <1>7 DEF FrameWhole
  <1>9. mixed' \in BOOLEAN BY <1>1, Zenon
  <1>q. QED BY <1>1, <1>3, <1>6, <1>8, <1>9

LEMMA ConnectInv == ASSUME IInv, NEW r \in Roles, NEW l \in Links, Connect(r, l) PROVE IInv'
  <1>1. PICK p \in Places : link' = [link EXCEPT ![p] = l] /\ Pattern(p)
    BY DEF Connect
  <1>2. /\ TypeOK /\ left.conns > 0 /\ left' = [left EXCEPT !.conns = @ - 1]
        /\ UNCHANGED <<host, data, done, held, taken, handed>> /\ UNCHANGED <<rxVars, timer>>
    BY DEF IInv, Connect
  <1>3. HeaderKnown' /\ InStep' /\ SeenPlace' /\ Conserved'
    BY <1>2, RxKept, TimerKept, HeldKept
  <1>4. TypeOK'
    <2>1. link' \in [Places -> Links \cup {None}] BY <1>1, <1>2 DEF TypeOK
    <2>2. left' \in [frames : Nat, writes : Nat, conns : Nat]
      <3>1. left \in [frames : Nat, writes : Nat, conns : Nat] BY <1>2 DEF TypeOK
      <3>q. QED BY <3>1, <1>2
    <2>3. UNCHANGED <<rxState, rxLeft, hdr, inStep, pc, seen>> BY <1>2 DEF rxVars, timer
    <2>4. writes' \in Nat /\ tx' \in [Places -> Nat] /\ mixed' \in BOOLEAN
          /\ UNCHANGED <<busy, cur, leaving, sentNo>>
      BY <1>1, PatternInv
    <2>q. QED BY <2>1, <2>2, <2>3, <2>4, <1>2, Zenon DEF TypeOK
  <1>q. QED BY <1>1, <1>3, <1>4, PatternInv DEF IInv

LEMMA DisconnectInv == ASSUME IInv, NEW p \in Places, Disconnect(p) PROVE IInv'
  <1>1. /\ TypeOK /\ Pattern(p) /\ link' = [link EXCEPT ![p] = None]
        /\ data' = [data EXCEPT ![p] = DataDefault]
        /\ UNCHANGED <<host, done, held, taken, handed, left>> /\ UNCHANGED <<rxVars, timer>>
    BY DEF IInv, Disconnect
  <1>2. HeaderKnown' /\ InStep' /\ SeenPlace' /\ Conserved'
    BY <1>1, RxKept, TimerKept, HeldKept
  <1>3. TypeOK'
    <2>1. link' \in [Places -> Links \cup {None}] /\ data' \in [Places -> Nat \ {0}]
      BY <1>1, MultiLinkAssumption DEF TypeOK
    <2>2. UNCHANGED <<rxState, rxLeft, hdr, inStep, pc, seen>> BY <1>1 DEF rxVars, timer
    <2>3. writes' \in Nat /\ tx' \in [Places -> Nat] /\ mixed' \in BOOLEAN
          /\ UNCHANGED <<busy, cur, leaving, sentNo>>
      BY <1>1, PatternInv
    <2>q. QED BY <2>1, <2>2, <2>3, <1>1, Zenon DEF TypeOK
  <1>q. QED BY <1>1, <1>2, <1>3, PatternInv DEF IInv

LEMMA MtuChangedInv == ASSUME IInv, NEW p \in Places, MtuChanged(p) PROVE IInv'
  <1>1. PICK m \in DataLens : data' = [data EXCEPT ![p] = m] BY DEF MtuChanged
  <1>2. /\ TypeOK /\ UNCHANGED <<host, link, done, held, taken, handed, left, writes>>
        /\ UNCHANGED <<rxVars, txVars, timer>>
    BY DEF IInv, MtuChanged
  <1>3. data' \in [Places -> Nat \ {0}] BY <1>1, <1>2, MultiLinkAssumption DEF TypeOK
  <1>4. UNCHANGED <<rxState, rxLeft, hdr, inStep, tx, busy, cur, leaving, sentNo, mixed, pc, seen>>
    BY <1>2 DEF rxVars, txVars, timer
  <1>5. TypeOK' BY <1>2, <1>3, <1>4, Zenon DEF TypeOK
  <1>q. QED BY <1>2, <1>5, RxKept, TxKept, TimerKept, HeldKept DEF IInv

LEMMA SendDoneInv == ASSUME IInv, NEW p \in Places, SendDone(p) PROVE IInv'
  <1>1. PICK ok \in BOOLEAN : done' = [done EXCEPT ![p] = p[1] = "slave" \/ ok]
    BY DEF SendDone
  <1>2. /\ TypeOK /\ UNCHANGED <<host, link, data, held, taken, handed, left, writes>>
        /\ UNCHANGED <<rxVars, txVars, timer>>
    BY DEF IInv, SendDone
  <1>3. done' \in [Places -> BOOLEAN]
    <2>1. done \in [Places -> BOOLEAN] BY <1>2 DEF TypeOK
    <2>2. (p[1] = "slave" \/ ok) \in BOOLEAN OBVIOUS
    <2>q. QED BY <2>1, <2>2, <1>1, Zenon
  <1>4. UNCHANGED <<rxState, rxLeft, hdr, inStep, tx, busy, cur, leaving, sentNo, mixed, pc, seen>>
    BY <1>2 DEF rxVars, txVars, timer
  <1>5. TypeOK' BY <1>2, <1>3, <1>4, Zenon DEF TypeOK
  <1>q. QED BY <1>2, <1>5, RxKept, TxKept, TimerKept, HeldKept DEF IInv

-----------------------------------------------------------------------------
(* The results. *)

LEMMA InitInv == Init => IInv
  <1> SUFFICES ASSUME Init PROVE IInv OBVIOUS
  <1>1. <<"slave", 1>> \in Places BY MultiLinkAssumption DEF Places
  <1>2. TypeOK
    <2>1. /\ link \in [Places -> Links \cup {None}] /\ data \in [Places -> Nat \ {0}]
          /\ held \in [Places -> Seq(Nat)] /\ tx \in [Places -> Nat]
          /\ taken \in [Places -> Nat] /\ handed \in [Places -> Nat] /\ sentNo \in [Places -> Nat]
      BY MultiLinkAssumption, EmptySeq DEF Init
    <2>2. done \in [Places -> BOOLEAN] /\ busy \in BOOLEAN /\ inStep \in BOOLEAN /\ mixed \in BOOLEAN
      BY Zenon DEF Init
    <2>3. /\ leaving \in Seq(Nat) /\ Len(leaving) <= 2 /\ hdr \in Seq(Nat) /\ Len(hdr) <= 2
          /\ host \in Seq(Nat)
      BY EmptySeq DEF Init
    <2>4. /\ cur \in Places /\ rxState \in {"idle", "sync", "receiving"} /\ rxState # "receiving"
          /\ rxLeft = 1
          /\ pc = 0 /\ seen \in Places \cup {<< >>} /\ writes \in Nat
      BY <1>1 DEF Init
    <2>5. left \in [frames : Nat, writes : Nat, conns : Nat] BY MultiLinkAssumption DEF Init
    <2>6. rxLeft \in 1 .. IF rxState = "receiving" THEN PayloadMax ELSE 2 BY <2>4
    <2>7. pc \in 0 .. Len(Steps) BY <2>4, StepsLength
    <2>q. QED BY <2>1, <2>2, <2>3, <2>4, <2>5, <2>6, <2>7, Zenon DEF TypeOK
  <1>3. HeaderKnown /\ SeenPlace /\ InStep BY DEF Init, HeaderKnown, SeenPlace, InStep
  <1>4. Numbered /\ FrameWhole /\ SentOnce
    <2>1. Len(leaving) = 0 BY EmptySeq DEF Init
    <2>q. QED BY <2>1 DEF Init, Numbered, FrameWhole, SentOnce
  <1>5. Conserved
    <2>1. ASSUME NEW p \in Places
          PROVE  /\ held[p] = [i \in 1 .. Len(held[p]) |-> handed[p] + i]
                 /\ taken[p] = handed[p] + Len(held[p])
      <3>1. held[p] = << >> /\ Len(held[p]) = 0 /\ handed[p] = 0 /\ taken[p] = 0
        BY EmptySeq DEF Init
      <3>q. QED BY <3>1
    <2>q. QED BY <2>1 DEF Conserved
  <1>q. QED BY <1>2, <1>3, <1>4, <1>5 DEF IInv

LEMMA NextInv == IInv /\ [Next]_vars => IInv'
  <1> SUFFICES ASSUME IInv, [Next]_vars PROVE IInv' OBVIOUS
  <1>1. CASE Rx BY <1>1, RxInv
  <1>2. CASE HostSends BY <1>2, HostSendsInv
  <1>3. CASE TxPart BY <1>3, TxPartInv
  <1>4. CASE TxCplt BY <1>4, TxCpltInv
  <1>12. CASE PeerStart BY <1>12, PeerStartInv
  <1>5. CASE Timer BY <1>5, TimerInv
  <1>6. CASE Hand BY <1>6, HandInv
  <1>7. CASE Look BY <1>7, LookInv
  <1>8. CASE UartTx BY <1>8, UartTxInv
  <1>9. CASE \E r \in Roles, l \in Links : Connect(r, l) BY <1>9, ConnectInv
  <1>10. CASE \E p \in Places : PeerData(p) \/ Disconnect(p) \/ MtuChanged(p) \/ SendDone(p)
    BY <1>10, PeerDataInv, DisconnectInv, MtuChangedInv, SendDoneInv
  <1>11. CASE UNCHANGED vars
    <2>1. /\ UNCHANGED <<host, left, writes, held, taken, handed>>
          /\ UNCHANGED <<rxVars, txVars, linkVars, timer>>
      BY <1>11 DEF vars
    <2>2. UNCHANGED <<rxState, rxLeft, hdr, inStep, tx, busy, cur, leaving, sentNo, mixed, pc, seen,
                      link, data, done>>
      BY <2>1 DEF rxVars, txVars, linkVars, timer
    <2>3. TypeOK' BY <2>1, <2>2, Zenon DEF IInv, TypeOK
    <2>q. QED BY <2>1, <2>3, RxKept, TxKept, TimerKept, HeldKept DEF IInv
  <1>q. QED
    BY <1>1, <1>2, <1>3, <1>4, <1>5, <1>6, <1>7, <1>8, <1>9, <1>10, <1>11, <1>12 DEF Next

LEMMA Invariance == Spec => []IInv
  BY InitInv, NextInv, PTL DEF Spec

\* Every variable of the bridge keeps its type; in particular the index of the place a
\* transfer is started for is always that of a buffer.
THEOREM TypeCorrect == Spec => []TypeOK
  <1>1. IInv => TypeOK BY DEF IInv
  <1>q. QED BY <1>1, Invariance, PTL

\* No byte stored by the receive interrupt is lost, doubled or put out of order by the timer.
THEOREM BytesConserved == Spec => []Conserved
  <1>1. IInv => Conserved BY DEF IInv
  <1>q. QED BY <1>1, Invariance, PTL

\* The receiver and the host agree on where in a frame they are, until a header is refused.
THEOREM ReceiverInStep == Spec => []InStep
  <1>1. IInv => InStep BY DEF IInv
  <1>q. QED BY <1>1, Invariance, PTL

\* A frame on the UART is of one message, unless it was written over or not waiting.
THEOREM FramesWhole == Spec => []FrameWhole
  <1>1. IInv => FrameWhole BY DEF IInv
  <1>q. QED BY <1>1, Invariance, PTL

\* No message waits for the UART that was sent before, or that a later one has overtaken.
THEOREM MessagesOnce == Spec => []SentOnce
  <1>1. IInv => SentOnce BY DEF IInv
  <1>q. QED BY <1>1, Invariance, PTL
=============================================================================
