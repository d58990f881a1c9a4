-------------------------- MODULE TinyFsReset_proof --------------------------
(***************************************************************************)
(* TinyFs under power loss, the reset: tinyfs_init finds in flash what the  *)
(* log left there, unless a node is torn, and goes on from a log of the     *)
(* same kind; so the recovery invariant holds at every step, and the whole  *)
(* implements the store of TinyStore.                                      *)
(***************************************************************************)
EXTENDS TinyFsRecovery_proof

-----------------------------------------------------------------------------
(* The sequences tinyfs_init goes through. *)

\* What a sequence holds, and that it holds it in an order.
Elements(q) == {q[i] : i \in 1 .. Len(q)}
Sorted(q, lt) == \A i, j \in 1 .. Len(q) : i < j => <<q[i], q[j]>> \in lt

\* Step by step from a: f[i] comes of f[i - 1].
StepsBy(f, n, V, a, step) ==
  f \in [0 .. n -> V] /\ f[0] = a /\ \A i \in 1 .. n : f[i] = step[i][f[i - 1]]

\* There is one such function.
LEMMA Steps ==
  ASSUME NEW n \in Nat, NEW V, NEW a \in V, NEW step \in [1 .. n -> [V -> V]]
  PROVE  \E f : StepsBy(f, n, V, a, step)
  <1> DEFINE P(m, f) == /\ f \in [0 .. m -> V] /\ f[0] = a
                        /\ \A i \in 1 .. m : f[i] = step[i][f[i - 1]]
             Bad == {m \in 0 .. n : ~ \E f : P(m, f)}
  <1>1. Bad = {}
    <2> SUFFICES ASSUME Bad # {} PROVE FALSE OBVIOUS
    <2>1. Bad \in SUBSET Nat OBVIOUS
    <2>2. PICK m \in Bad : \A k \in Bad : m <= k
      <3> HIDE DEF Bad
      <3>q. QED BY <2>1, Least
    <2>3. P(0, [i \in 0 .. 0 |-> a]) OBVIOUS
    <2>4. m # 0 BY <2>3
    <2>5. m \in 1 .. n /\ m - 1 \in 0 .. n BY <2>2, <2>4
    <2>6. PICK f : P(m - 1, f)
      <3>1. m - 1 \notin Bad
        <4> HIDE DEF Bad
        <4>q. QED BY <2>2, <2>5
      <3> HIDE DEF P
      <3>q. QED BY <2>5, <3>1
    <2> DEFINE g == [i \in 0 .. m |-> IF i < m THEN f[i] ELSE step[m][f[m - 1]]]
    <2>7. step[m][f[m - 1]] \in V BY <2>5, <2>6
    <2>8. P(m, g)
      <3>1. g \in [0 .. m -> V] BY <2>5, <2>6, <2>7
      <3>2. g[0] = a BY <2>5, <2>6
      <3>3. ASSUME NEW i \in 1 .. m PROVE g[i] = step[i][g[i - 1]]
        <4>1. CASE i = m
          <5>1. g[i] = step[m][f[m - 1]] /\ g[i - 1] = f[m - 1] BY <2>5, <4>1
          <5> HIDE DEF g
          <5>q. QED BY <4>1, <5>1
        <4>2. CASE i # m
          <5>1. i \in 1 .. m - 1 /\ g[i] = f[i] /\ g[i - 1] = f[i - 1] BY <2>5, <4>2
          <5>q. QED BY <2>6, <5>1
        <4>q. QED BY <4>1, <4>2
      <3> HIDE DEF g
      <3>q. QED BY <3>1, <3>2, <3>3
    <2>q. QED BY <2>2, <2>8
  <1>2. \E f : P(n, f)
    <2>1. n \in 0 .. n OBVIOUS
    <2>q. QED BY <1>1, <2>1
  <1>q. QED BY <1>2 DEF StepsBy

\* The elements of a sequence with one more at its end.
LEMMA AppendElements ==
  ASSUME NEW S, NEW q \in Seq(S), NEW x \in S
  PROVE  /\ Append(q, x) \in Seq(S)
         /\ Elements(Append(q, x)) = Elements(q) \cup {x}
         /\ \A lt : Sorted(q, lt) /\ (\A y \in Elements(q) : <<y, x>> \in lt) => Sorted(Append(q, x), lt)
  <1> DEFINE r == Append(q, x)
  <1>1. r \in Seq(S) /\ Len(r) = Len(q) + 1 /\ r[Len(q) + 1] = x /\ \A i \in 1 .. Len(q) : r[i] = q[i] /\ Len(q) \in Nat
    OBVIOUS
  <1>1a. Len(q) \in Nat OBVIOUS
  <1> HIDE DEF r
  <1>2. Elements(r) = Elements(q) \cup {x}
    <2>1. ASSUME NEW i \in 1 .. Len(r) PROVE r[i] \in Elements(q) \cup {x}
      <3>1. CASE i = Len(q) + 1 BY <1>1, <3>1
      <3>2. CASE i # Len(q) + 1
        <4>1. i \in 1 .. Len(q) BY <1>1, <1>1a, <3>2
        <4>q. QED BY <1>1, <4>1 DEF Elements
      <3>q. QED BY <3>1, <3>2
    <2>2. ASSUME NEW i \in 1 .. Len(q) PROVE q[i] \in Elements(r)
      <3>1. i \in 1 .. Len(r) /\ r[i] = q[i] BY <1>1, <1>1a
      <3>q. QED BY <3>1 DEF Elements
    <2>3. x \in Elements(r)
      <3>1. Len(q) + 1 \in 1 .. Len(r) BY <1>1, <1>1a
      <3>q. QED BY <1>1, <3>1 DEF Elements
    <2>q. QED BY <2>1, <2>2, <2>3 DEF Elements
  <1>3. ASSUME NEW lt, Sorted(q, lt), \A y \in Elements(q) : <<y, x>> \in lt PROVE Sorted(r, lt)
    <2>1. ASSUME NEW i \in 1 .. Len(r), NEW j \in 1 .. Len(r), i < j PROVE <<r[i], r[j]>> \in lt
      <3>1. i \in 1 .. Len(q) /\ r[i] = q[i] BY <1>1, <1>1a, <2>1
      <3>2. CASE j = Len(q) + 1
        <4>1. r[j] = x BY <1>1, <3>2
        <4>2. q[i] \in Elements(q) BY <3>1 DEF Elements
        <4>q. QED BY <1>3, <3>1, <4>1, <4>2
      <3>3. CASE j # Len(q) + 1
        <4>1. j \in 1 .. Len(q) /\ r[j] = q[j] BY <1>1, <1>1a, <3>3
        <4>q. QED BY <1>3, <2>1, <3>1, <4>1 DEF Sorted
      <3>q. QED BY <3>2, <3>3
    <2>q. QED BY <2>1 DEF Sorted
  <1>q. QED BY <1>1, <1>2, <1>3 DEF r

\* Among: what is both in the sequence and in the set, in the same order.
LEMMA AmongIs ==
  ASSUME NEW S, NEW seq \in Seq(S), NEW set
  PROVE  /\ Among(seq, set) \in Seq(S)
         /\ Elements(Among(seq, set)) = Elements(seq) \cap set
         /\ \A lt : Sorted(seq, lt) => Sorted(Among(seq, set), lt)
  <1> DEFINE n == Len(seq)
             F(c) == [i \in 0 .. n |-> IF i = 0 THEN << >>
                        ELSE IF seq[i] \in set THEN Append(c[i - 1], seq[i]) ELSE c[i - 1]]
             chosen == CHOOSE c : c = F(c)
             step == [i \in 1 .. n |-> [q \in Seq(S) |-> IF seq[i] \in set THEN Append(q, seq[i]) ELSE q]]
  <1>0. n \in Nat /\ \A i \in 1 .. n : seq[i] \in S OBVIOUS
  <1>1. \E c : c = F(c)
    <2>1. step \in [1 .. n -> [Seq(S) -> Seq(S)]]
      <3>1. ASSUME NEW i \in 1 .. n, NEW q \in Seq(S)
            PROVE  (IF seq[i] \in set THEN Append(q, seq[i]) ELSE q) \in Seq(S)
        BY <1>0, AppendElements
      <3>q. QED BY <3>1
    <2>2. << >> \in Seq(S) OBVIOUS
    <2>3. \A q \in Seq(S), i \in 1 .. n : step[i][q] = IF seq[i] \in set THEN Append(q, seq[i]) ELSE q OBVIOUS
    <2> HIDE DEF step, n
    <2>4. PICK f \in [0 .. n -> Seq(S)] : f[0] = << >> /\ \A i \in 1 .. n : f[i] = step[i][f[i - 1]]
      <3>1. PICK V : V = Seq(S) OBVIOUS
      <3>2. step \in [1 .. n -> [V -> V]] /\ << >> \in V BY <2>1, <2>2, <3>1
      <3>3. \E f : StepsBy(f, n, V, << >>, step) BY <1>0, <3>2, Steps
      <3>q. QED BY <3>1, <3>3 DEF StepsBy
    <2>5. \A i \in 0 .. n : f[i] = F(f)[i]
      <3>1. ASSUME NEW i \in 0 .. n PROVE f[i] = F(f)[i]
        <4>1. CASE i = 0 BY <1>0, <2>4, <4>1
        <4>2. CASE i # 0
          <5>1. i \in 1 .. n /\ i - 1 \in 0 .. n BY <1>0, <4>2
          <5>2. f[i - 1] \in Seq(S) /\ f[i] = step[i][f[i - 1]] BY <2>4, <5>1
          <5>3. f[i] = IF seq[i] \in set THEN Append(f[i - 1], seq[i]) ELSE f[i - 1] BY <2>3, <5>1, <5>2
          <5>q. QED BY <4>2, <5>3
        <4>q. QED BY <4>1, <4>2
      <3>q. QED BY <3>1
    <2>6. f = F(f) BY <2>5
    <2>q. QED BY <2>6
  <1>2. chosen = F(chosen) BY <1>1
  <1>3. Among(seq, set) = chosen[n] BY DEF Among
  <1> HIDE DEF chosen, step
  <1> DEFINE Upto(i) == {seq[k] : k \in 1 .. i}
             Good(i) == /\ chosen[i] \in Seq(S)
                        /\ Elements(chosen[i]) = Upto(i) \cap set
                        /\ \A lt : Sorted(seq, lt) => Sorted(chosen[i], lt)
             Bad == {i \in 0 .. n : ~Good(i)}
  <1>4. chosen[0] = << >> /\ \A i \in 1 .. n : chosen[i] = IF seq[i] \in set THEN Append(chosen[i - 1], seq[i]) ELSE chosen[i - 1]
    <2>1. ASSUME NEW i \in 0 .. n
          PROVE  chosen[i] = IF i = 0 THEN << >>
                             ELSE IF seq[i] \in set THEN Append(chosen[i - 1], seq[i]) ELSE chosen[i - 1]
      BY <1>2
    <2> HIDE DEF n
    <2>2. chosen[0] = << >> BY <1>0, <2>1
    <2>3. ASSUME NEW i \in 1 .. n
          PROVE  chosen[i] = IF seq[i] \in set THEN Append(chosen[i - 1], seq[i]) ELSE chosen[i - 1]
      <3>1. i \in 0 .. n /\ i # 0 BY <1>0
      <3>q. QED BY <2>1, <3>1
    <2>q. QED BY <2>2, <2>3
  <1>5. Good(0)
    <2>1. << >> \in Seq(S) /\ Len(<< >>) = 0 OBVIOUS
    <2>2. Elements(<< >>) = {} BY <2>1 DEF Elements
    <2>3. \A lt : Sorted(<< >>, lt) BY <2>1 DEF Sorted
    <2>4. Upto(0) = {} OBVIOUS
    <2>q. QED BY <1>4, <2>1, <2>2, <2>3, <2>4
  <1>6. ASSUME NEW i \in 1 .. n, Good(i - 1) PROVE Good(i)
    <2>1. Upto(i) = Upto(i - 1) \cup {seq[i]}
      <3>1. ASSUME NEW k \in 1 .. i PROVE seq[k] \in Upto(i - 1) \cup {seq[i]}
        <4>1. k = i \/ k \in 1 .. i - 1 BY <1>0
        <4>q. QED BY <4>1
      <3>2. \A k \in 1 .. i - 1 : k \in 1 .. i BY <1>0
      <3>3. i \in 1 .. i BY <1>0
      <3>q. QED BY <3>1, <3>2, <3>3
    <2>2. seq[i] \in S BY <1>0
    <2>3. CASE seq[i] \notin set
      <3>1. chosen[i] = chosen[i - 1] BY <1>4, <2>3
      <3>2. Upto(i) \cap set = Upto(i - 1) \cap set BY <2>1, <2>3
      <3> HIDE DEF Upto
      <3>q. QED BY <1>6, <3>1, <3>2
    <2>4. CASE seq[i] \in set
      <3>1. chosen[i] = Append(chosen[i - 1], seq[i]) BY <1>4, <2>4
      <3>2. chosen[i] \in Seq(S) /\ Elements(chosen[i]) = Elements(chosen[i - 1]) \cup {seq[i]}
        BY <1>6, <2>2, <3>1, AppendElements
      <3>3. Elements(chosen[i]) = Upto(i) \cap set
        <4> HIDE DEF Upto
        <4>q. QED BY <1>6, <2>1, <2>4, <3>2
      <3>4. ASSUME NEW lt, Sorted(seq, lt) PROVE Sorted(chosen[i], lt)
        <4>1. Sorted(chosen[i - 1], lt) BY <1>6, <3>4
        <4>2. ASSUME NEW y \in Elements(chosen[i - 1]) PROVE <<y, seq[i]>> \in lt
          <5>1. PICK k \in 1 .. i - 1 : y = seq[k] BY <1>6, <4>2
          <5>2. k \in 1 .. n /\ k < i BY <1>0
          <5>q. QED BY <3>4, <5>1, <5>2 DEF Sorted
        <4>q. QED BY <1>6, <2>2, <3>1, <4>1, <4>2, AppendElements
      <3> HIDE DEF Upto
      <3>q. QED BY <3>2, <3>3, <3>4
    <2>q. QED BY <2>3, <2>4
  <1> HIDE DEF Good
  <1>7. Bad = {}
    <2> SUFFICES ASSUME Bad # {} PROVE FALSE OBVIOUS
    <2>1. Bad \in SUBSET Nat BY <1>0
    <2>2. PICK i \in Bad : \A k \in Bad : i <= k
      <3> HIDE DEF Bad
      <3>q. QED BY <2>1, Least
    <2>3. i # 0 BY <1>5, <2>2
    <2>4. i \in 1 .. n /\ i - 1 \in 0 .. n /\ i - 1 \notin Bad
      <3>1. i \in 1 .. n /\ i - 1 \in 0 .. n BY <1>0, <2>2, <2>3
      <3> HIDE DEF Bad
      <3>q. QED BY <1>0, <2>2, <3>1
    <2>5. Good(i - 1) BY <2>4
    <2>q. QED BY <1>6, <2>2, <2>4, <2>5
  <1>8. Good(n) BY <1>0, <1>7
  <1>q. QED BY <1>3, <1>8 DEF Good, Elements

\* The elements of two sequences put together.
LEMMA ConcatElements ==
  ASSUME NEW S, NEW q \in Seq(S), NEW p \in Seq(S)
  PROVE  /\ q \o p \in Seq(S)
         /\ Elements(q \o p) = Elements(q) \cup Elements(p)
         /\ \A lt : /\ Sorted(q, lt) /\ Sorted(p, lt)
                    /\ \A x \in Elements(q), y \in Elements(p) : <<x, y>> \in lt
                    => Sorted(q \o p, lt)
  <1> DEFINE r == q \o p
             a == Len(q)
             b == Len(p)
  <1>0. a \in Nat /\ b \in Nat OBVIOUS
  <1>1. /\ r \in Seq(S) /\ Len(r) = a + b
        /\ \A i \in 1 .. a + b : r[i] = IF i <= a THEN q[i] ELSE p[i - a]
    BY ConcatProperties
  <1>2. Elements(q) = {q[i] : i \in 1 .. a} /\ Elements(p) = {p[i] : i \in 1 .. b}
        /\ Elements(r) = {r[i] : i \in 1 .. a + b}
    BY <1>1 DEF Elements
  <1>3. \A lt : /\ Sorted(q, lt) <=> \A i, j \in 1 .. a : i < j => <<q[i], q[j]>> \in lt
                /\ Sorted(p, lt) <=> \A i, j \in 1 .. b : i < j => <<p[i], p[j]>> \in lt
                /\ Sorted(r, lt) <=> \A i, j \in 1 .. a + b : i < j => <<r[i], r[j]>> \in lt
    BY <1>1 DEF Sorted
  <1> HIDE DEF r, a, b
  <1>4. \A i \in 1 .. a : i \in 1 .. a + b /\ r[i] = q[i] BY <1>0, <1>1
  <1>5. \A i \in 1 .. b : a + i \in 1 .. a + b /\ r[a + i] = p[i] BY <1>0, <1>1
  <1>6. \A i \in 1 .. a + b : (i \in 1 .. a /\ r[i] = q[i]) \/ (i - a \in 1 .. b /\ i > a /\ r[i] = p[i - a])
    BY <1>0, <1>1
  <1>7. Elements(r) = Elements(q) \cup Elements(p)
    <2>1. \A i \in 1 .. a + b : r[i] \in Elements(q) \cup Elements(p) BY <1>2, <1>6
    <2>2. \A i \in 1 .. a : q[i] \in Elements(r) BY <1>2, <1>4
    <2>3. \A i \in 1 .. b : p[i] \in Elements(r)
      <3>1. ASSUME NEW i \in 1 .. b PROVE p[i] \in Elements(r)
        <4>1. a + i \in 1 .. a + b /\ r[a + i] = p[i] BY <1>5
        <4>q. QED BY <1>2, <4>1
      <3>q. QED BY <3>1
    <2>q. QED BY <1>2, <2>1, <2>2, <2>3
  <1>8. ASSUME NEW lt, Sorted(q, lt), Sorted(p, lt), \A x \in Elements(q), y \in Elements(p) : <<x, y>> \in lt
        PROVE  Sorted(r, lt)
    <2>1. ASSUME NEW i \in 1 .. a + b, NEW j \in 1 .. a + b, i < j PROVE <<r[i], r[j]>> \in lt
      <3>1. CASE i \in 1 .. a /\ r[i] = q[i] /\ j \in 1 .. a /\ r[j] = q[j] BY <1>3, <1>8, <2>1, <3>1
      <3>2. CASE i \in 1 .. a /\ r[i] = q[i] /\ j - a \in 1 .. b /\ r[j] = p[j - a]
        <4>1. r[i] \in Elements(q) /\ r[j] \in Elements(p) BY <1>2, <3>2
        <4>q. QED BY <1>8, <4>1
      <3>3. CASE i - a \in 1 .. b /\ r[i] = p[i - a] /\ j - a \in 1 .. b /\ r[j] = p[j - a]
        <4>1. i - a < j - a BY <1>0, <2>1
        <4>q. QED BY <1>3, <1>8, <3>3, <4>1
      <3>4. ~(i > a /\ j \in 1 .. a) BY <1>0, <2>1
      <3>q. QED BY <1>6, <3>1, <3>2, <3>3, <3>4
    <2>q. QED BY <1>3, <2>1
  <1>q. QED BY <1>1, <1>7, <1>8 DEF r

\* FlattenSeq: all sequences, one behind the other.
LEMMA FlattenIs ==
  ASSUME NEW S, NEW seqs \in Seq(Seq(S)), seqs # << >>
  PROVE  /\ FlattenSeq(seqs) \in Seq(S)
         /\ Elements(FlattenSeq(seqs)) = UNION {Elements(seqs[k]) : k \in 1 .. Len(seqs)}
         /\ \A lt : /\ \A k \in 1 .. Len(seqs) : Sorted(seqs[k], lt)
                    /\ \A k, l \in 1 .. Len(seqs) : k < l =>
                         \A x \in Elements(seqs[k]), y \in Elements(seqs[l]) : <<x, y>> \in lt
                    => Sorted(FlattenSeq(seqs), lt)
  <1> DEFINE n == Len(seqs)
             F(c) == [i \in 1 .. n |-> IF i = 1 THEN seqs[i] ELSE c[i - 1] \o seqs[i]]
             flatten == CHOOSE c : c = F(c)
             step == [i \in 1 .. n |-> [q \in Seq(S) |-> q \o seqs[i]]]
  <1>0. n \in Nat /\ n # 0 /\ \A i \in 1 .. n : seqs[i] \in Seq(S) OBVIOUS
  <1>1. \E c : c = F(c)
    <2>1. step \in [1 .. n -> [Seq(S) -> Seq(S)]]
      <3>1. ASSUME NEW i \in 1 .. n, NEW q \in Seq(S) PROVE q \o seqs[i] \in Seq(S)
        BY <1>0, ConcatElements
      <3>q. QED BY <3>1
    <2>2. << >> \in Seq(S) OBVIOUS
    <2>3. \A q \in Seq(S), i \in 1 .. n : step[i][q] = q \o seqs[i] OBVIOUS
    <2> HIDE DEF step, n
    <2>4. PICK f \in [0 .. n -> Seq(S)] : f[0] = << >> /\ \A i \in 1 .. n : f[i] = step[i][f[i - 1]]
      <3>1. PICK V : V = Seq(S) OBVIOUS
      <3>2. step \in [1 .. n -> [V -> V]] /\ << >> \in V BY <2>1, <2>2, <3>1
      <3>3. \E f : StepsBy(f, n, V, << >>, step) BY <1>0, <3>2, Steps
      <3>q. QED BY <3>1, <3>3 DEF StepsBy
    <2> DEFINE g == [i \in 1 .. n |-> f[i]]
    <2>5. ASSUME NEW i \in 1 .. n PROVE g[i] = F(g)[i]
      <3>0. i - 1 \in 0 .. n /\ f[i - 1] \in Seq(S) /\ seqs[i] \in Seq(S) BY <1>0, <2>4
      <3>1. f[i] = f[i - 1] \o seqs[i] BY <2>3, <2>4, <3>0
      <3>2. CASE i = 1
        <4>1. f[i - 1] = << >> BY <2>4, <3>2
        <4>2. f[i] = seqs[i] BY <3>0, <3>1, <4>1
        <4>q. QED BY <3>2, <4>2
      <3>3. CASE i # 1
        <4>1. i - 1 \in 1 .. n BY <1>0, <3>3
        <4>2. g[i - 1] = f[i - 1] BY <4>1
        <4>3. F(g)[i] = g[i - 1] \o seqs[i] BY <3>3
        <4>4. g[i] = f[i] OBVIOUS
        <4>q. QED BY <3>1, <4>2, <4>3, <4>4
      <3>q. QED BY <3>2, <3>3
    <2>6. g = F(g) BY <2>5
    <2>q. QED BY <2>6
  <1>2. flatten = F(flatten) BY <1>1
  <1>3. FlattenSeq(seqs) = flatten[n] BY <1>0 DEF FlattenSeq
  <1> HIDE DEF flatten, step
  <1>4. flatten[1] = seqs[1] /\ \A i \in 2 .. n : flatten[i] = flatten[i - 1] \o seqs[i]
    <2>1. ASSUME NEW i \in 1 .. n PROVE flatten[i] = IF i = 1 THEN seqs[i] ELSE flatten[i - 1] \o seqs[i]
      BY <1>2
    <2> HIDE DEF n
    <2>2. flatten[1] = seqs[1]
      <3>1. 1 \in 1 .. n BY <1>0
      <3>q. QED BY <2>1, <3>1
    <2>3. ASSUME NEW i \in 2 .. n PROVE flatten[i] = flatten[i - 1] \o seqs[i]
      <3>1. i \in 1 .. n /\ i # 1 BY <1>0
      <3>q. QED BY <2>1, <3>1
    <2>q. QED BY <2>2, <2>3
  <1> DEFINE Upto(i) == UNION {Elements(seqs[k]) : k \in 1 .. i}
             Fit(lt) == /\ \A k \in 1 .. n : Sorted(seqs[k], lt)
                        /\ \A k, l \in 1 .. n : k < l =>
                             \A x \in Elements(seqs[k]), y \in Elements(seqs[l]) : <<x, y>> \in lt
             Good(i) == /\ flatten[i] \in Seq(S)
                        /\ Elements(flatten[i]) = Upto(i)
                        /\ \A lt : Fit(lt) => Sorted(flatten[i], lt)
             Bad == {i \in 1 .. n : ~Good(i)}
  <1> HIDE DEF n
  <1>5. Good(1)
    <2>1. Upto(1) = Elements(seqs[1])
      <3>1. 1 .. 1 = {1} OBVIOUS
      <3>q. QED BY <3>1
    <2>2. 1 \in 1 .. n BY <1>0
    <2>3. \A lt : Fit(lt) => Sorted(seqs[1], lt) BY <2>2
    <2> HIDE DEF Upto, Fit
    <2>q. QED BY <1>0, <1>4, <2>1, <2>2, <2>3
  <1>6. ASSUME NEW i \in 2 .. n, Good(i - 1) PROVE Good(i)
    <2>0. i \in 1 .. n /\ seqs[i] \in Seq(S) /\ flatten[i - 1] \in Seq(S) BY <1>0, <1>6
    <2>1. Upto(i) = Upto(i - 1) \cup Elements(seqs[i])
      <3>1. 1 .. i = (1 .. i - 1) \cup {i} BY <1>0
      <3>2. Upto(i) = (UNION {Elements(seqs[k]) : k \in 1 .. i - 1}) \cup Elements(seqs[i]) BY <3>1
      <3>q. QED BY <3>2
    <2>2. flatten[i] = flatten[i - 1] \o seqs[i] BY <1>4
    <2>3. flatten[i] \in Seq(S) /\ Elements(flatten[i]) = Elements(flatten[i - 1]) \cup Elements(seqs[i])
      BY <2>0, <2>2, ConcatElements
    <2>4. Elements(flatten[i]) = Upto(i)
      <3> HIDE DEF Upto, Fit
      <3>q. QED BY <1>6, <2>1, <2>3
    <2>5. ASSUME NEW lt, Fit(lt) PROVE Sorted(flatten[i], lt)
      <3>1. Sorted(flatten[i - 1], lt)
        <4> HIDE DEF Upto, Fit
        <4>q. QED BY <1>6, <2>5
      <3>2. Sorted(seqs[i], lt) BY <2>0, <2>5
      <3>3. ASSUME NEW x \in Elements(flatten[i - 1]), NEW y \in Elements(seqs[i]) PROVE <<x, y>> \in lt
        <4>1. x \in Upto(i - 1) BY <1>6, <3>3
        <4>2. PICK k \in 1 .. i - 1 : x \in Elements(seqs[k]) BY <4>1
        <4>3. k \in 1 .. n /\ k < i BY <1>0, <2>0
        <4>q. QED BY <2>0, <2>5, <4>2, <4>3
      <3> HIDE DEF Fit
      <3>q. QED BY <2>0, <2>2, <3>1, <3>2, <3>3, ConcatElements
    <2> HIDE DEF Upto, Fit
    <2>q. QED BY <2>3, <2>4, <2>5
  <1> HIDE DEF Good
  <1>7. Bad = {}
    <2> SUFFICES ASSUME Bad # {} PROVE FALSE OBVIOUS
    <2>1. Bad \in SUBSET Nat BY <1>0
    <2>2. PICK i \in Bad : \A k \in Bad : i <= k
      <3> HIDE DEF Bad
      <3>q. QED BY <2>1, Least
    <2>3. i # 1 BY <1>5, <2>2
    <2>4. i \in 2 .. n /\ i - 1 \in 1 .. n BY <1>0, <2>2, <2>3
    <2>5. i - 1 \notin Bad
      <3> HIDE DEF Bad
      <3>q. QED BY <1>0, <2>2, <2>4
    <2>6. Good(i - 1) BY <2>4, <2>5
    <2>q. QED BY <1>6, <2>2, <2>4, <2>6
  <1>8. Good(n) BY <1>0, <1>7
  <1>q. QED BY <1>3, <1>8 DEF Good, n

\* A list without one of its entries, when it holds each once.
LEMMA RemoveOnce ==
  ASSUME NEW r \in Seq(Entries), NEW m \in 1 .. Len(r), \A x, y \in 1 .. Len(r) : r[x] = r[y] => x = y
  PROVE  /\ RemoveAt(r, m) \in Seq(Entries) /\ Len(RemoveAt(r, m)) = Len(r) - 1
         /\ \A x, y \in 1 .. Len(RemoveAt(r, m)) : RemoveAt(r, m)[x] = RemoveAt(r, m)[y] => x = y
         /\ Elements(RemoveAt(r, m)) = Elements(r) \ {r[m]}
         /\ Total(RemoveAt(r, m)) = Total(r) - NodeLen(r[m].node)
  <1> DEFINE n == Len(r)
  <1>0. n \in Nat /\ m \in 1 .. n OBVIOUS
  <1>1. /\ RemoveAt(r, m) \in Seq(Entries) /\ Len(RemoveAt(r, m)) = n - 1
        /\ \A j \in 1 .. n - 1 : RemoveAt(r, m)[j] = IF j < m THEN r[j] ELSE r[j + 1]
    BY RemoveAtIs
  <1>2. Total(RemoveAt(r, m)) = Total(r) - NodeLen(r[m].node) BY TotalRemove
  <1>3. PICK w : w = RemoveAt(r, m) OBVIOUS
  <1>4. Elements(w) = {w[j] : j \in 1 .. n - 1} /\ Elements(r) = {r[j] : j \in 1 .. n}
    BY <1>1, <1>3 DEF Elements
  <1>5. \A x, y \in 1 .. n : r[x] = r[y] => x = y OBVIOUS
  <1> HIDE DEF n
  <1>6. \A j \in 1 .. n - 1 : \E x \in 1 .. n : x # m /\ w[j] = r[x] /\ x = (IF j < m THEN j ELSE j + 1)
    BY <1>0, <1>1, <1>3
  <1>7. ASSUME NEW x \in 1 .. n - 1, NEW y \in 1 .. n - 1, w[x] = w[y] PROVE x = y
    <2>1. PICK x1 \in 1 .. n : w[x] = r[x1] /\ x1 = (IF x < m THEN x ELSE x + 1) BY <1>6
    <2>2. PICK y1 \in 1 .. n : w[y] = r[y1] /\ y1 = (IF y < m THEN y ELSE y + 1) BY <1>6
    <2>3. x1 = y1 BY <1>5, <1>7, <2>1, <2>2
    <2>q. QED BY <1>0, <2>1, <2>2, <2>3
  <1>8. Elements(w) = Elements(r) \ {r[m]}
    <2>1. ASSUME NEW j \in 1 .. n - 1 PROVE w[j] \in Elements(r) /\ w[j] # r[m]
      <3>1. PICK x \in 1 .. n : x # m /\ w[j] = r[x] BY <1>6
      <3>2. r[x] # r[m] BY <1>0, <1>5, <3>1
      <3>q. QED BY <1>4, <3>1, <3>2
    <2>2. ASSUME NEW x \in 1 .. n, r[x] # r[m] PROVE r[x] \in Elements(w)
      <3>0. x # m BY <2>2
      <3>1. CASE x < m
        <4>1. x \in 1 .. n - 1 /\ w[x] = r[x] BY <1>0, <1>1, <1>3, <3>1
        <4>q. QED BY <1>4, <4>1
      <3>2. CASE x > m
        <4>1. x - 1 \in 1 .. n - 1 /\ w[x - 1] = r[x] BY <1>0, <1>1, <1>3, <3>2
        <4>q. QED BY <1>4, <4>1
      <3>q. QED BY <1>0, <3>0, <3>1, <3>2
    <2>3. \A z \in Elements(w) : z \in Elements(r) /\ z # r[m] BY <1>4, <2>1
    <2>4. \A z \in Elements(r) : z # r[m] => z \in Elements(w) BY <1>4, <2>2
    <2>q. QED BY <2>3, <2>4
  <1>q. QED BY <1>1, <1>2, <1>3, <1>7, <1>8 DEF n

\* Two lists of the same entries, each without repetitions, have the same total.
LEMMA TotalSame ==
  ASSUME NEW l \in Seq(Entries), NEW k \in Seq(Entries), Elements(l) = Elements(k),
         \A i, j \in 1 .. Len(l) : l[i] = l[j] => i = j,
         \A i, j \in 1 .. Len(k) : k[i] = k[j] => i = j
  PROVE  Total(l) = Total(k)
  <1> DEFINE Once(q) == \A i, j \in 1 .. Len(q) : q[i] = q[j] => i = j
             Pair(n, p, q) == /\ p \in Seq(Entries) /\ q \in Seq(Entries) /\ Elements(p) = Elements(q)
                              /\ Once(p) /\ Once(q) /\ Len(p) = n /\ Total(p) # Total(q)
             Bad == {n \in Nat : \E p, q : Pair(n, p, q)}
  <1>1. Bad = {}
    <2> SUFFICES ASSUME Bad # {} PROVE FALSE OBVIOUS
    <2>1. PICK n \in Bad : \A m \in Bad : n <= m
      <3>1. Bad \in SUBSET Nat OBVIOUS
      <3> HIDE DEF Bad
      <3>q. QED BY <3>1, Least
    <2>2. PICK p, q : Pair(n, p, q) BY <2>1
    <2>2a. n \in Nat BY <2>1
    <2>3. /\ p \in Seq(Entries) /\ q \in Seq(Entries) /\ Elements(p) = Elements(q) /\ Len(p) = n /\ Total(p) # Total(q)
          /\ \A i, j \in 1 .. Len(p) : p[i] = p[j] => i = j
          /\ \A i, j \in 1 .. Len(q) : q[i] = q[j] => i = j
          /\ Len(q) \in Nat
      BY <2>2
    <2>4. n # 0
      <3>1. ASSUME n = 0 PROVE FALSE
        <4>1. p = << >> BY <2>3, <3>1
        <4>2. q = << >>
          <5>0. 1 .. Len(p) = {} BY <2>3, <3>1
          <5>1. Elements(q) = {} BY <2>3, <5>0 DEF Elements
          <5>2. Len(q) = 0
            <6>1. ASSUME Len(q) # 0 PROVE FALSE
              <7>1. 1 \in 1 .. Len(q) BY <2>3, <6>1
              <7>2. q[1] \in Elements(q) BY <7>1 DEF Elements
              <7>q. QED BY <5>1, <7>2
            <6>q. QED BY <6>1
          <5>q. QED BY <2>3, <5>2
        <4>q. QED BY <2>3, <4>1, <4>2
      <3>q. QED BY <3>1
    <2>5. n \in 1 .. Len(p) /\ p[n] \in Elements(q)
      <3>1. n \in 1 .. Len(p) BY <2>2a, <2>3, <2>4
      <3>2. p[n] \in Elements(p) BY <3>1 DEF Elements
      <3>q. QED BY <2>3, <3>1, <3>2
    <2>6. PICK i \in 1 .. Len(q) : q[i] = p[n] BY <2>5 DEF Elements
    <2>8. Pair(n - 1, RemoveAt(p, n), RemoveAt(q, i))
      <3>0. ASSUME NEW r \in Seq(Entries), NEW m \in 1 .. Len(r), \A x, y \in 1 .. Len(r) : r[x] = r[y] => x = y,
                   NEW r1, r1 = RemoveAt(r, m)
            PROVE  /\ r1 \in Seq(Entries) /\ Len(r1) = Len(r) - 1 /\ Once(r1) /\ Elements(r1) = Elements(r) \ {r[m]}
                   /\ Total(r1) = Total(r) - NodeLen(r[m].node)
        <4> USE <3>0
        <4>1. /\ RemoveAt(r, m) \in Seq(Entries) /\ Len(RemoveAt(r, m)) = Len(r) - 1
              /\ Elements(RemoveAt(r, m)) = Elements(r) \ {r[m]}
              /\ Total(RemoveAt(r, m)) = Total(r) - NodeLen(r[m].node)
          BY RemoveOnce
        <4>2. \A x, y \in 1 .. Len(RemoveAt(r, m)) : RemoveAt(r, m)[x] = RemoveAt(r, m)[y] => x = y
          BY RemoveOnce
        <4>q. QED BY <4>1, <4>2
      <3> PICK p1 : p1 = RemoveAt(p, n) OBVIOUS
      <3> PICK q1 : q1 = RemoveAt(q, i) OBVIOUS
      <3>1. /\ p1 \in Seq(Entries) /\ Len(p1) = n - 1 /\ Once(p1) /\ Elements(p1) = Elements(p) \ {p[n]}
            /\ Total(p1) = Total(p) - NodeLen(p[n].node)
                <4>1. p \in Seq(Entries) /\ n \in 1 .. Len(p) /\ \A x, y \in 1 .. Len(p) : p[x] = p[y] => x = y BY <2>3, <2>5
        <4>2. p1 = RemoveAt(p, n) OBVIOUS
        <4> HIDE DEF Once
        <4>3. /\ p1 \in Seq(Entries) /\ Len(p1) = Len(p) - 1 /\ Once(p1) /\ Elements(p1) = Elements(p) \ {p[n]}
              /\ Total(p1) = Total(p) - NodeLen(p[n].node)
          BY <3>0, <4>1, <4>2
        <4>q. QED BY <2>3, <4>3
      <3>2. /\ q1 \in Seq(Entries) /\ Once(q1) /\ Elements(q1) = Elements(q) \ {q[i]}
            /\ Total(q1) = Total(q) - NodeLen(q[i].node)
                <4>1. q \in Seq(Entries) /\ i \in 1 .. Len(q) /\ \A x, y \in 1 .. Len(q) : q[x] = q[y] => x = y BY <2>3, <2>6
        <4>2. q1 = RemoveAt(q, i) OBVIOUS
        <4> HIDE DEF Once
        <4>q. QED BY <3>0, <4>1, <4>2
      <3>3. Total(p) \in Int /\ Total(q) \in Int /\ NodeLen(p[n].node) \in Nat
        BY <2>3, <2>5, AddsExists, TotalIs, ElementType
      <3>4. Total(p1) # Total(q1) BY <2>3, <2>6, <3>1, <3>2, <3>3
      <3>5. Elements(p1) = Elements(q1) BY <2>3, <2>6, <3>1, <3>2
      <3> HIDE DEF Once
      <3>q. QED BY <3>1, <3>2, <3>4, <3>5
    <2>9. n - 1 \in Bad
      <3>1. n - 1 \in Nat BY <2>2a, <2>4
      <3> HIDE DEF Pair
      <3>q. QED BY <2>8, <3>1
    <2>q. QED
      <3> HIDE DEF Bad
      <3>q. QED BY <2>1, <2>2a, <2>9
  <1>2. Len(l) \in Nat OBVIOUS
  <1>3. ~Pair(Len(l), l, k)
    <2> HIDE DEF Pair
    <2>q. QED BY <1>1, <1>2
  <1>q. QED BY <1>3

-----------------------------------------------------------------------------
(* What flash holds when the cache is lost. *)

\* A unit of flash.
Fl(s, o) == flash[FlashAddr(s, o)]

\* The sections whose header is in flash, the youngest of them, and how far it is
\* written.
Valid == {s \in Sections \ Ahead : s = tailSec => Base # 0}
FTail == IF Base = 0 THEN PrevSection(tailSec) ELSE tailSec
FLimit == IF Base = 0 THEN SectionSize ELSE Base

\* A unit of the log that flash holds.
InF(s, o) == s \in Valid /\ o \in HeadLen .. SectionSize - 1 /\ (s = FTail => o < FLimit)

\* The section before.
LEMMA PrevIs ==
  ASSUME NEW s \in Sections
  PROVE  /\ PrevSection(s) \in Sections /\ PrevSection(s) # s /\ NextSection(PrevSection(s)) = s
         /\ NextSection(s) \in Sections /\ PrevSection(NextSection(s)) = s
  BY GeometryAssumption DEF PrevSection, NextSection, Sections

\* The end of what flash holds is the end of a page.
LEMMA LimitIs ==
  ASSUME TypeOK, CacheAligned
  PROVE  /\ FLimit \in Nat /\ FLimit % PageSize = 0 /\ FLimit <= SectionSize
         /\ PageSize <= FLimit /\ HeadLen <= FLimit
         /\ FTail \in Sections
         /\ Base # 0 => FTail = tailSec /\ FLimit = Base
         /\ Base = 0 => FTail = PrevSection(tailSec) /\ FLimit = SectionSize /\ FTail # tailSec /\ NextSection(FTail) = tailSec
  <1>1. /\ Base \in Nat /\ Base <= avail /\ avail <= SectionSize /\ Base % PageSize = 0 /\ avail \in Nat
        /\ Base > 0 => Base >= PageSize
    BY BaseIs
  <1>2. /\ PageSize \in Nat \ {0} /\ SectionSize \in Nat \ {0} /\ HeadLen \in Nat \ {0} /\ SectionSize % PageSize = 0
        /\ HeadLen <= PageSize
    BY Geometry, GeometryAssumption
  <1>3. PageSize <= SectionSize
    <2>1. PICK q \in 1 .. SectionSize : SectionSize = q * PageSize BY GeometryAssumption
    <2>2. q = 1 \/ 1 < q BY <2>1
    <2>3. 1 * PageSize = PageSize BY <1>2
    <2>4. CASE q = 1 BY <2>1, <2>3, <2>4, <1>2
    <2>5. CASE 1 < q
      <3>1. 1 * PageSize + PageSize <= q * PageSize BY <1>2, <2>1, <2>5, Mult
      <3>2. q * PageSize \in Nat BY <2>1, <1>2
      <3>q. QED BY <1>2, <2>1, <2>3, <3>1
    <2>q. QED BY <2>2, <2>4, <2>5
  <1>4. tailSec \in Sections BY DEF TypeOK
  <1>5. CASE Base = 0
    <2>1. FTail = PrevSection(tailSec) /\ FLimit = SectionSize BY <1>5 DEF FTail, FLimit
    <2>q. QED BY <1>2, <1>3, <1>4, <1>5, <2>1, PrevIs
  <1>6. CASE Base # 0
    <2>1. FTail = tailSec /\ FLimit = Base BY <1>6 DEF FTail, FLimit
    <2>q. QED BY <1>1, <1>2, <1>4, <1>6, <2>1
  <1>q. QED BY <1>5, <1>6

\* What flash holds of the log is what lies before the cache.
LEMMA InFIs ==
  ASSUME TypeOK, CacheAligned, NEW s, NEW o
  PROVE  /\ InF(s, o) <=> Has(s, o) /\ (s = tailSec => o < Base)
         /\ InF(s, o) => s \in Sections /\ o \in HeadLen .. SectionSize - 1 /\ o \in Nat /\ s \in Sections \ Ahead
  <1>1. Base \in Nat /\ Base <= avail /\ avail \in Nat BY BaseIs
  <1>2. SectionSize \in Nat \ {0} /\ HeadLen \in Nat \ {0} BY Geometry
  <1>3. CASE Base = 0
    <2>1. FTail # tailSec /\ FLimit = SectionSize BY <1>3, LimitIs
    <2>2. ASSUME InF(s, o) PROVE Has(s, o) /\ s # tailSec BY <1>3, <2>2 DEF InF, Valid, Has
    <2>3. ASSUME Has(s, o), s = tailSec => o < Base PROVE InF(s, o)
      <3>1. o \in HeadLen .. SectionSize - 1 /\ s \in Sections \ Ahead BY <2>3 DEF Has
      <3>2. s # tailSec BY <1>2, <1>3, <2>3, <3>1
      <3>3. s = FTail => o < FLimit BY <1>2, <2>1, <3>1
      <3>q. QED BY <3>1, <3>2, <3>3 DEF InF, Valid
    <2>q. QED BY <1>2, <2>2, <2>3 DEF InF, Valid
  <1>4. CASE Base # 0
    <2>1. FTail = tailSec /\ FLimit = Base BY <1>4, LimitIs
    <2>2. ASSUME InF(s, o) PROVE Has(s, o) /\ (s = tailSec => o < Base)
      <3>1. s \in Sections \ Ahead /\ o \in HeadLen .. SectionSize - 1 /\ (s = tailSec => o < Base)
        BY <2>1, <2>2 DEF InF, Valid
      <3>2. s = tailSec => o < avail BY <1>1, <1>2, <3>1
      <3>q. QED BY <3>1, <3>2 DEF Has
    <2>3. ASSUME Has(s, o), s = tailSec => o < Base PROVE InF(s, o)
      BY <1>4, <2>1, <2>3 DEF InF, Valid, Has
    <2>q. QED BY <1>2, <2>2, <2>3 DEF InF, Valid
  <1>q. QED BY <1>3, <1>4

\* A unit of flash is what a reader finds, or erased.
LEMMA FlashIs ==
  ASSUME IInv, LInv, NEW s \in Sections, NEW o \in 0 .. SectionSize - 1
  PROVE  /\ s \in Valid /\ (s = FTail => o < FLimit) => Fl(s, o) = At(s, o)
         /\ ~(s \in Valid /\ (s = FTail => o < FLimit)) => Fl(s, o) = Erased
         /\ InF(s, o) => Fl(s, o) = At(s, o)
         /\ o >= HeadLen /\ ~InF(s, o) => Fl(s, o) = Erased
         /\ Fl(s, o) # Garbage
  <1>1. /\ Base \in Nat /\ Base <= avail /\ avail \in Nat /\ avail <= SectionSize /\ Base = avail - Len(buf)
    BY BaseIs DEF IInv, Base
  <1>2. SectionSize \in Nat \ {0} /\ HeadLen \in Nat \ {0} BY Geometry
  <1>3. /\ \A p \in Base .. SectionSize - 1 : Fl(tailSec, p) = Erased
        /\ s \in Ahead => Fl(s, o) = Erased
        /\ Fl(s, o) # Garbage
    BY <1>1 DEF LInv, ErasedPlaces, Fl
  <1>4. ASSUME ~(s = tailSec /\ Base <= o) PROVE Fl(s, o) = At(s, o)
    BY <1>1, <1>4 DEF At, Fl
  <1>5. CASE Base = 0
    <2>1. FTail # tailSec /\ FLimit = SectionSize BY <1>5, LimitIs DEF IInv
    <2>2. s = tailSec => Fl(s, o) = Erased BY <1>1, <1>2, <1>3, <1>5
    <2>3. s \in Valid <=> s \notin Ahead /\ s # tailSec BY <1>5 DEF Valid
    <2>4. s = FTail => o < FLimit BY <1>2, <2>1
    <2>5. s # tailSec => Fl(s, o) = At(s, o) BY <1>4
    <2>q. QED BY <1>2, <1>3, <2>2, <2>3, <2>4, <2>5 DEF InF
  <1>6. CASE Base # 0
    <2>1. FTail = tailSec /\ FLimit = Base BY <1>6, LimitIs DEF IInv
    <2>2. s = tailSec /\ Base <= o => Fl(s, o) = Erased BY <1>1, <1>2, <1>3
    <2>3. s \in Valid <=> s \notin Ahead BY <1>6 DEF Valid
    <2>q. QED BY <1>1, <1>2, <1>3, <1>4, <2>1, <2>2, <2>3 DEF InF
  <1>q. QED BY <1>5, <1>6

\* A unit of flash that is not erased is one of the log.
LEMMA WrittenIs ==
  ASSUME IInv, LInv, NEW s \in Sections, NEW o \in HeadLen .. SectionSize - 1, Fl(s, o) # Erased
  PROVE  InF(s, o) /\ Fl(s, o) = At(s, o)
  <1>1. o \in 0 .. SectionSize - 1 /\ o >= HeadLen BY Geometry
  <1>q. QED BY <1>1, FlashIs

\* The sections that flash holds go from the head to its tail.
LEMMA ValidArc ==
  ASSUME IInv, LInv
  PROVE  /\ \A s \in Sections : s \in Valid <=> tailCount # 0 /\ Age(FTail) <= Age(s) /\ Age(s) <= Age(headSec)
         /\ Valid # {} => tailCount # 0 /\ FTail \in Valid /\ headSec \in Valid /\ Age(FTail) <= Age(headSec)
         /\ Age(FTail) \in {0, 1} /\ (Base = 0 <=> Age(FTail) = 1)
         /\ \A s \in Sections : Age(s) \in 0 .. SectionNum - 1
         /\ Sections \ Valid = Ahead \cup (IF Base = 0 THEN {tailSec} ELSE {})
  <1>0. TypeOK /\ CacheAligned BY DEF IInv
  <1>1. /\ \A s \in Sections : Age(s) \in 0 .. SectionNum - 1
        /\ \A s, t \in Sections : Age(s) = Age(t) => s = t
        /\ Age(tailSec) = 0
        /\ \A s \in Sections : s # tailSec => Age(s) > 0 /\ Age(NextSection(s)) = Age(s) - 1
        /\ tailCount # 0 => \A s \in Sections : s \notin Ahead <=> Age(s) <= Age(headSec)
        /\ tailCount = 0 => \A s \in Sections : s \in Ahead
    BY <1>0, Ages
  <1>2. tailSec \in Sections /\ headSec \in Sections /\ FTail \in Sections BY <1>0, LimitIs DEF TypeOK
  <1>3. Age(FTail) \in {0, 1} /\ (Base = 0 <=> Age(FTail) = 1)
    <2>1. CASE Base = 0
      <3>1. FTail # tailSec /\ NextSection(FTail) = tailSec BY <1>0, <2>1, LimitIs
      <3>2. Age(FTail) - 1 = 0 BY <1>1, <1>2, <3>1
      <3>3. Age(FTail) = 1 BY <1>1, <1>2, <3>2
      <3>q. QED BY <2>1, <3>3
    <2>2. CASE Base # 0
      <3>1. FTail = tailSec BY <1>0, <2>2, LimitIs
      <3>q. QED BY <1>1, <2>2, <3>1
    <2>q. QED BY <2>1, <2>2
  <1>4. ASSUME NEW s \in Sections
        PROVE  s \in Valid <=> tailCount # 0 /\ Age(FTail) <= Age(s) /\ Age(s) <= Age(headSec)
    <2>1. s \in Valid <=> s \notin Ahead /\ (s = tailSec => Base # 0) BY DEF Valid
    <2>2. s = tailSec <=> Age(s) = 0 BY <1>1, <1>2
    <2>3. Age(s) \in 0 .. SectionNum - 1 BY <1>1
    <2>4. (s = tailSec => Base # 0) <=> Age(FTail) <= Age(s) BY <1>3, <2>2, <2>3
    <2>q. QED BY <1>1, <2>1, <2>4
  <1>5. ASSUME Valid # {}
        PROVE  tailCount # 0 /\ FTail \in Valid /\ headSec \in Valid /\ Age(FTail) <= Age(headSec)
    <2>1. PICK s \in Sections : s \in Valid BY <1>5 DEF Valid
    <2>2. tailCount # 0 /\ Age(FTail) <= Age(s) /\ Age(s) <= Age(headSec) BY <1>4, <2>1
    <2>3. Age(FTail) <= Age(headSec)
      <3>1. Age(FTail) \in Nat /\ Age(s) \in Nat /\ Age(headSec) \in Nat BY <1>1, <1>2
      <3>q. QED BY <2>2, <3>1
    <2>4. Age(FTail) \in Nat /\ Age(headSec) \in Nat BY <1>1, <1>2
    <2>q. QED BY <1>2, <1>4, <2>2, <2>3, <2>4
  <1>6. Sections \ Valid = Ahead \cup (IF Base = 0 THEN {tailSec} ELSE {})
    <2>1. Ahead \subseteq Sections BY DEF Ahead
    <2>2. \A s \in Sections : s \in Valid <=> s \notin Ahead /\ (s = tailSec => Base # 0) BY DEF Valid
    <2>3. CASE Base = 0 BY <1>2, <2>1, <2>2, <2>3
    <2>4. CASE Base # 0 BY <1>2, <2>1, <2>2, <2>4
    <2>q. QED BY <2>3, <2>4
  <1>q. QED BY <1>1, <1>3, <1>4, <1>5, <1>6

\* The first k units of a node are in flash.
FlHolds(s, o, n, k) ==
  \A i \in 0 .. k - 1 :
     LET p == SectionOffset(s, o, i) IN InF(p.section, p.offset) /\ Fl(p.section, p.offset) = <<n, i + 1>>

\* The k-th unit from a place on is the first one that flash does not hold.
FEnd(s, o, k) ==
  \/ s = FTail /\ o + k = FLimit /\ (o + k = SectionSize => NextSection(s) \notin Valid)
  \/ s # FTail /\ NextSection(s) = FTail /\ o + k >= SectionSize /\ o + k - SectionSize + HeadLen = FLimit

\* A section begins, at the latest, with the metadata of a node: they are in its first
\* page.
MetaInPage == HeadLen + AddLen - 1 <= PageSize

\* There is room for what is still to be copied.
RoomToCopy == free >= unread

\* Of what is stored flash holds all, or what lies before the cache.
LEMMA FlashPart ==
  ASSUME IInv, LInv, NEW s, NEW o, NEW n \in Nodes, NEW m \in 1 .. NodeLen(n),
         Stored([section |-> s, offset |-> o], n, m), InF(s, o)
  PROVE  \E k \in 1 .. m : FlHolds(s, o, n, k) /\ (k < m => FEnd(s, o, k))
  <1>0. TypeOK /\ CacheAligned BY DEF IInv
  <1>1. /\ Base \in Nat /\ Base <= avail /\ avail \in Nat /\ avail <= SectionSize
    BY <1>0, BaseIs
  <1>2. /\ SectionSize \in Nat \ {0} /\ HeadLen \in Nat \ {0} /\ HeadLen < SectionSize /\ Payload = SectionSize - HeadLen
    BY Geometry DEF Payload
  <1>3. /\ s \in Sections \ Ahead /\ o \in HeadLen .. SectionSize - 1 /\ o \in Nat /\ Has(s, o) /\ (s = tailSec => o < Base)
    BY <1>0, InFIs
  <1>4. NodeLen(n) \in Nat \ {0} /\ NodeLen(n) <= Payload /\ m \in Nat \ {0} /\ m <= Payload
    <2>1. NodeLen(n) \in Nat \ {0} /\ NodeLen(n) <= Payload BY NodeFits
    <2>q. QED BY <1>2, <2>1
  <1>5. Laid(s, o, m) /\ Holds(s, o, n, m) BY DEF Stored
  <1>6. tailCount # 0
    <2>1. tailCount = 0 => s \in Ahead BY <1>0, <1>3, Ages
    <2>q. QED BY <1>3, <2>1
  <1>7. ASSUME NEW i \in 0 .. m - 1
        PROVE  LET p == SectionOffset(s, o, i)
               IN  /\ At(p.section, p.offset) = <<n, i + 1>>
                   /\ p.section \in Sections \ Ahead /\ p.offset \in 0 .. SectionSize - 1
                   /\ p.section = tailSec => p.offset < avail
    <2>1. Behind(SectionOffset(s, o, i)) BY <1>0, <1>1, <1>5, <1>6, LaidBehind
    <2>q. QED BY <1>5, <2>1 DEF Holds, AtPlace, Behind
  <1>8. ASSUME NEW k \in 1 .. m,
               \A i \in 0 .. k - 1 : LET p == SectionOffset(s, o, i) IN p.offset >= HeadLen /\ (p.section = tailSec => p.offset < Base)
        PROVE  FlHolds(s, o, n, k)
    <2>1. ASSUME NEW i \in 0 .. k - 1
          PROVE  LET p == SectionOffset(s, o, i) IN InF(p.section, p.offset) /\ Fl(p.section, p.offset) = <<n, i + 1>>
      <3>1. i \in 0 .. m - 1 BY <1>4, <1>8
      <3>2. PICK p : p = SectionOffset(s, o, i) OBVIOUS
      <3>3. /\ At(p.section, p.offset) = <<n, i + 1>> /\ p.section \in Sections \ Ahead
            /\ p.offset \in 0 .. SectionSize - 1 /\ (p.section = tailSec => p.offset < avail)
        BY <1>7, <3>1, <3>2
      <3>4. p.offset >= HeadLen /\ (p.section = tailSec => p.offset < Base) BY <1>8, <3>2
      <3>5. p.offset \in HeadLen .. SectionSize - 1 BY <1>2, <3>3, <3>4
      <3>6. Has(p.section, p.offset) BY <3>3, <3>5 DEF Has
      <3>7. InF(p.section, p.offset) BY <1>0, <3>4, <3>6, InFIs
      <3>8. Fl(p.section, p.offset) = At(p.section, p.offset) BY <3>3, <3>7, FlashIs
      <3>q. QED BY <3>2, <3>3, <3>7, <3>8
    <2>q. QED BY <2>1 DEF FlHolds
  <1>9. \A i \in 0 .. m : /\ o + i < SectionSize => SectionOffset(s, o, i) = [section |-> s, offset |-> o + i]
                          /\ o + i >= SectionSize =>
                               SectionOffset(s, o, i) = [section |-> NextSection(s), offset |-> o + i - SectionSize + HeadLen]
    <2>1. \A i \in 0 .. m : i \in 0 .. Payload BY <1>2, <1>4
    <2>2. s \in Sections /\ o \in 0 .. SectionSize - 1 BY <1>2, <1>3
    <2>q. QED BY <2>1, <2>2, Units
  <1>10. CASE s = tailSec
    <2>1. o + m <= avail /\ o < Base BY <1>3, <1>5, <1>10 DEF Laid
    <2>2. ASSUME NEW i \in 0 .. m - 1 PROVE SectionOffset(s, o, i) = [section |-> s, offset |-> o + i] /\ o + i >= HeadLen
      <3>1. o + i < SectionSize /\ i \in 0 .. m BY <1>1, <1>2, <1>3, <1>4, <2>1
      <3>q. QED BY <1>2, <1>3, <1>9, <3>1
    <2>3. CASE o + m <= Base
      <3>1. m \in 1 .. m BY <1>4
      <3>2. \A i \in 0 .. m - 1 : LET p == SectionOffset(s, o, i) IN p.offset >= HeadLen /\ (p.section = tailSec => p.offset < Base)
        BY <1>1, <1>3, <1>4, <2>2, <2>3
      <3>q. QED BY <1>4, <1>8, <3>1, <3>2
    <2>4. CASE o + m > Base
      <3>1. PICK k \in Nat : k = Base - o BY <1>1, <1>3, <2>1
      <3>2. k \in 1 .. m /\ k < m /\ o + k = Base BY <1>1, <1>3, <1>4, <2>1, <2>4, <3>1
      <3>3. \A i \in 0 .. k - 1 : i \in 0 .. m - 1 /\ o + i < Base BY <1>1, <1>3, <1>4, <3>2
      <3>4. \A i \in 0 .. k - 1 : LET p == SectionOffset(s, o, i) IN p.offset >= HeadLen /\ (p.section = tailSec => p.offset < Base)
        BY <2>2, <3>3
      <3>5. Base # 0 /\ o + k # SectionSize BY <1>1, <1>2, <1>3, <1>4, <2>1, <2>4, <3>2
      <3>6. FEnd(s, o, k)
        <4>1. FTail = tailSec /\ FLimit = Base BY <1>0, <3>5, LimitIs
        <4>q. QED BY <1>10, <3>2, <3>5, <4>1 DEF FEnd
      <3>q. QED BY <1>8, <3>2, <3>4, <3>6
    <2>q. QED BY <1>1, <1>3, <1>4, <2>3, <2>4
  <1>11. CASE s # tailSec
    <2>1. NextSection(s) = tailSec /\ o + m > SectionSize => o + m - SectionSize + HeadLen <= avail
      BY <1>5 DEF Laid
    <2>2. CASE ~(NextSection(s) = tailSec /\ o + m > SectionSize)
      <3>1. m \in 1 .. m BY <1>4
      <3>2. ASSUME NEW i \in 0 .. m - 1
            PROVE  LET p == SectionOffset(s, o, i) IN p.offset >= HeadLen /\ (p.section = tailSec => p.offset < Base)
        <4>1. i \in 0 .. m BY <1>4
        <4>2. CASE o + i < SectionSize
          <5>1. SectionOffset(s, o, i) = [section |-> s, offset |-> o + i] BY <1>9, <4>1, <4>2
          <5>q. QED BY <1>2, <1>3, <1>11, <5>1
        <4>3. CASE o + i >= SectionSize
          <5>1. SectionOffset(s, o, i) = [section |-> NextSection(s), offset |-> o + i - SectionSize + HeadLen]
            BY <1>9, <4>1, <4>3
          <5>2. o + m > SectionSize BY <1>2, <1>3, <1>4, <4>3
          <5>3. NextSection(s) # tailSec BY <2>2, <5>2
          <5>q. QED BY <1>2, <1>3, <4>3, <5>1, <5>3
        <4>q. QED BY <1>2, <1>3, <4>2, <4>3
      <3>q. QED BY <1>4, <1>8, <3>1, <3>2
    <2>3. CASE NextSection(s) = tailSec /\ o + m > SectionSize
      <3>0. o + m - SectionSize + HeadLen <= avail BY <2>1, <2>3
      <3>1. CASE o + m - SectionSize + HeadLen <= Base
        <4>1. m \in 1 .. m BY <1>4
        <4>2. ASSUME NEW i \in 0 .. m - 1
              PROVE  LET p == SectionOffset(s, o, i) IN p.offset >= HeadLen /\ (p.section = tailSec => p.offset < Base)
          <5>1. i \in 0 .. m BY <1>4
          <5>2. CASE o + i < SectionSize
            <6>1. SectionOffset(s, o, i) = [section |-> s, offset |-> o + i] BY <1>9, <5>1, <5>2
            <6>q. QED BY <1>2, <1>3, <1>11, <6>1
          <5>3. CASE o + i >= SectionSize
            <6>1. SectionOffset(s, o, i) = [section |-> NextSection(s), offset |-> o + i - SectionSize + HeadLen]
              BY <1>9, <5>1, <5>3
            <6>2. o + i - SectionSize + HeadLen < Base BY <1>1, <1>2, <1>3, <1>4, <3>1
            <6>q. QED BY <1>2, <1>3, <5>3, <6>1, <6>2
          <5>q. QED BY <1>2, <1>3, <5>2, <5>3
        <4>q. QED BY <1>4, <1>8, <4>1, <4>2
      <3>2. CASE o + m - SectionSize + HeadLen > Base /\ Base = 0
        <4>1. PICK k \in Nat : k = SectionSize - o BY <1>2, <1>3
        <4>2. k \in 1 .. m /\ k < m /\ o + k = SectionSize BY <1>2, <1>3, <1>4, <2>3, <4>1
        <4>3. \A i \in 0 .. k - 1 : i \in 0 .. m /\ o + i < SectionSize /\ o + i >= HeadLen BY <1>2, <1>3, <1>4, <4>2
        <4>4. \A i \in 0 .. k - 1 : SectionOffset(s, o, i) = [section |-> s, offset |-> o + i] BY <1>9, <4>3
        <4>5. \A i \in 0 .. k - 1 : LET p == SectionOffset(s, o, i) IN p.offset >= HeadLen /\ (p.section = tailSec => p.offset < Base)
          BY <1>11, <4>3, <4>4
        <4>6. FEnd(s, o, k)
          <5>1. FTail = PrevSection(tailSec) /\ FLimit = SectionSize BY <1>0, <3>2, LimitIs
          <5>2. PrevSection(NextSection(s)) = s BY <1>3, PrevIs
          <5>3. tailSec \notin Valid BY <3>2 DEF Valid
          <5>q. QED BY <2>3, <4>2, <5>1, <5>2, <5>3 DEF FEnd
        <4>q. QED BY <1>8, <4>2, <4>5, <4>6
      <3>3. CASE o + m - SectionSize + HeadLen > Base /\ Base # 0
        <4>0. FTail = tailSec /\ FLimit = Base /\ HeadLen <= FLimit BY <1>0, <3>3, LimitIs
        <4>1. PICK k \in Nat : k = (SectionSize - o) + (Base - HeadLen) BY <1>1, <1>2, <1>3, <4>0
        <4>2. k \in 1 .. m /\ k < m /\ o + k >= SectionSize /\ o + k - SectionSize + HeadLen = Base
          BY <1>1, <1>2, <1>3, <1>4, <2>3, <3>3, <4>0, <4>1
        <4>3. ASSUME NEW i \in 0 .. k - 1
              PROVE  LET p == SectionOffset(s, o, i) IN p.offset >= HeadLen /\ (p.section = tailSec => p.offset < Base)
          <5>1. i \in 0 .. m BY <1>4, <4>2
          <5>2. CASE o + i < SectionSize
            <6>1. SectionOffset(s, o, i) = [section |-> s, offset |-> o + i] BY <1>9, <5>1, <5>2
            <6>q. QED BY <1>2, <1>3, <1>11, <6>1
          <5>3. CASE o + i >= SectionSize
            <6>1. SectionOffset(s, o, i) = [section |-> NextSection(s), offset |-> o + i - SectionSize + HeadLen]
              BY <1>9, <5>1, <5>3
            <6>2. o + i - SectionSize + HeadLen < Base BY <1>1, <1>2, <1>3, <1>4, <4>2
            <6>q. QED BY <1>2, <1>3, <5>3, <6>1, <6>2
          <5>q. QED BY <1>2, <1>3, <5>2, <5>3
        <4>4. FEnd(s, o, k) BY <1>11, <2>3, <4>0, <4>2 DEF FEnd
        <4>q. QED BY <1>8, <4>2, <4>3, <4>4
      <3>q. QED BY <1>1, <1>2, <1>3, <1>4, <3>1, <3>2, <3>3
    <2>q. QED BY <2>2, <2>3
  <1>q. QED BY <1>10, <1>11

\* The entry under way, when flash holds all that is written of it: the log ends there.
LEMMA EntryPart ==
  ASSUME IInv, LInv, RoomToCopy, Under, Left > 0, InF(entry.section, entry.offset),
         FlHolds(entry.section, entry.offset, entry.node, Done)
  PROVE  FEnd(entry.section, entry.offset, Done)
  <1>0. TypeOK /\ CacheAligned /\ pc = "emit" /\ Done > 0 BY DEF IInv, Under
  <1>1. /\ Base \in Nat /\ Base <= avail /\ avail \in Nat /\ avail <= SectionSize
        /\ avail = SectionSize => Base = SectionSize
    BY <1>0, BaseIs
  <1>2. /\ SectionSize \in Nat \ {0} /\ HeadLen \in Nat \ {0} /\ HeadLen < SectionSize /\ Payload = SectionSize - HeadLen
        /\ Payload \in Nat
    BY Geometry DEF Payload
  <1>3. PICK s \in Sections : s = entry.section BY <1>0, LeftIs
  <1>4. PICK o \in HeadLen .. SectionSize - 1 : o = entry.offset BY DEF InF
  <1>5. PICK m \in Nat \ {0} : m = Done BY <1>0, LeftIs
  <1>6. m <= Payload /\ Left \in Nat /\ Left = unread + (Len(out) - Heading) /\ Len(out) \in Nat /\ unread \in Nat /\ Heading \in Nat
    BY <1>0, <1>2, <1>5, LeftIs
  <1>7. SectionOffset(s, o, m) = NextPlace
    BY <1>0, <1>3, <1>4, <1>5 DEF LInv, Emitting
  <1>8. InF(s, o) BY <1>3, <1>4
  <1>9. PICK p : p = SectionOffset(s, o, m - 1) OBVIOUS
  <1>10. InF(p.section, p.offset)
    <2>1. m - 1 \in 0 .. m - 1 BY <1>5
    <2>q. QED BY <1>3, <1>4, <1>5, <1>9, <2>1 DEF FlHolds
  <1>11. \A i \in 0 .. m : /\ o + i < SectionSize => SectionOffset(s, o, i) = [section |-> s, offset |-> o + i]
                           /\ o + i >= SectionSize =>
                                SectionOffset(s, o, i) = [section |-> NextSection(s), offset |-> o + i - SectionSize + HeadLen]
    <2>1. \A i \in 0 .. m : i \in 0 .. Payload BY <1>2, <1>6
    <2>2. o \in 0 .. SectionSize - 1 BY <1>2
    <2>q. QED BY <2>1, <2>2, Units
  <1>12. m \in 0 .. m /\ m - 1 \in 0 .. m BY <1>5
  <1>13. tailSec \in Sections /\ HeadLen <= o /\ o < SectionSize BY <1>0, <1>2 DEF TypeOK
  <1>14. FEnd(s, o, m)
    <2>1. CASE avail = SectionSize
      <3>1. NextPlace = [section |-> NextSection(tailSec), offset |-> HeadLen] BY <2>1 DEF NextPlace
      <3>2. Base = SectionSize /\ FTail = tailSec /\ FLimit = SectionSize BY <1>0, <1>1, <1>2, <2>1, LimitIs
      <3>3. o + m >= SectionSize
        <4>1. ASSUME o + m < SectionSize PROVE FALSE
          <5>1. SectionOffset(s, o, m) = [section |-> s, offset |-> o + m] BY <1>11, <1>12, <4>1
          <5>2. o + m = HeadLen BY <1>7, <3>1, <5>1
          <5>q. QED BY <1>2, <1>13, <5>2
        <4>q. QED BY <1>2, <4>1
      <3>4. SectionOffset(s, o, m) = [section |-> NextSection(s), offset |-> o + m - SectionSize + HeadLen]
        BY <1>11, <1>12, <3>3
      <3>5. NextSection(s) = NextSection(tailSec) /\ o + m - SectionSize + HeadLen = HeadLen BY <1>7, <3>1, <3>4
      <3>6. s = tailSec BY <1>13, <3>5, PrevIs
      <3>7. o + m = SectionSize BY <1>2, <3>5
      <3>8. NextSection(tailSec) \in Ahead
        <4>1. Heading = 0 BY <1>2, <2>1 DEF Heading
        <4>2. free = SectionSize - avail + Payload * EmptySections - Len(out) BY DEF LInv, FreeExact
        <4>3. EmptySections \in Nat BY <1>0, LogSections
        <4>4. free \in Int /\ free >= unread BY <1>0 DEF TypeOK, RoomToCopy
        <4>5. EmptySections # 0
          <5>1. ASSUME EmptySections = 0 PROVE FALSE
            <6>1. Payload * EmptySections = 0 BY <1>2, <5>1
            <6>2. free = 0 - Len(out) BY <1>1, <1>2, <2>1, <4>2, <6>1
            <6>q. QED BY <1>6, <4>1, <4>4, <6>2
          <5>q. QED BY <5>1
        <4>6. tailCount # 0
          <5>1. tailCount = 0 => s \in Ahead BY <1>0, Ages
          <5>2. s \notin Ahead BY <1>0, <1>8, InFIs
          <5>q. QED BY <5>1, <5>2
        <4>q. QED BY <1>0, <4>5, <4>6, LogSections
      <3>9. NextSection(s) \notin Valid BY <3>6, <3>8 DEF Valid
      <3>q. QED BY <3>2, <3>6, <3>7, <3>9 DEF FEnd
    <2>2. CASE avail # SectionSize
      <3> DEFINE w == IF avail = 0 THEN HeadLen ELSE avail
      <3>1. NextPlace = [section |-> tailSec, offset |-> w] BY <2>2 DEF NextPlace
      <3>2. CASE o + m < SectionSize
        <4>1. SectionOffset(s, o, m) = [section |-> s, offset |-> o + m] BY <1>11, <1>12, <3>2
        <4>2. s = tailSec /\ o + m = w
          <5> HIDE DEF w
          <5>q. QED BY <1>7, <3>1, <4>1
        <4>3. o < Base BY <1>0, <1>8, <4>2, InFIs
        <4>4. o + m = avail /\ Base # 0 BY <1>1, <1>2, <1>13, <4>2, <4>3
        <4>5. p = [section |-> s, offset |-> o + (m - 1)]
          <5>1. o + (m - 1) < SectionSize BY <1>2, <1>13, <3>2
          <5>q. QED BY <1>9, <1>11, <1>12, <5>1
        <4>6. o + (m - 1) < Base BY <1>0, <1>10, <4>2, <4>5, InFIs
        <4>7. Base = avail BY <1>1, <1>13, <4>4, <4>6
        <4>8. FTail = tailSec /\ FLimit = Base BY <1>0, <4>4, LimitIs
        <4>q. QED BY <2>2, <4>2, <4>4, <4>7, <4>8 DEF FEnd
      <3>3. CASE o + m >= SectionSize
        <4>1. SectionOffset(s, o, m) = [section |-> NextSection(s), offset |-> o + m - SectionSize + HeadLen]
          BY <1>11, <1>12, <3>3
        <4>2. NextSection(s) = tailSec /\ o + m - SectionSize + HeadLen = w
          <5> HIDE DEF w
          <5>q. QED BY <1>7, <3>1, <4>1
        <4>3. s # tailSec /\ s = PrevSection(tailSec) BY <4>2, PrevIs
        <4>4. o + m > SectionSize => p = [section |-> tailSec, offset |-> o + (m - 1) - SectionSize + HeadLen]
          <5>1. ASSUME o + m > SectionSize PROVE p = [section |-> tailSec, offset |-> o + (m - 1) - SectionSize + HeadLen]
            <6>1. o + (m - 1) >= SectionSize BY <1>2, <1>13, <5>1
            <6>q. QED BY <1>9, <1>11, <1>12, <4>2, <6>1
          <5>q. QED BY <5>1
        <4>5. o + m > SectionSize => o + (m - 1) - SectionSize + HeadLen < Base
          <5>1. ASSUME o + m > SectionSize PROVE o + (m - 1) - SectionSize + HeadLen < Base
            <6>1. p.section = tailSec /\ p.offset = o + (m - 1) - SectionSize + HeadLen BY <4>4, <5>1
            <6>2. p.section = tailSec => p.offset < Base BY <1>0, <1>10, InFIs
            <6>q. QED BY <6>1, <6>2
          <5>q. QED BY <5>1
        <4>6. CASE Base = 0
          <5>1. o + m = SectionSize BY <1>2, <1>13, <3>3, <4>5, <4>6
          <5>2. FTail = PrevSection(tailSec) /\ FLimit = SectionSize BY <1>0, <4>6, LimitIs
          <5>3. tailSec \notin Valid BY <4>6 DEF Valid
          <5>q. QED BY <4>2, <4>3, <5>1, <5>2, <5>3 DEF FEnd
        <4>7. CASE Base # 0
          <5>1. FTail = tailSec /\ FLimit = Base /\ HeadLen <= FLimit BY <1>0, <4>7, LimitIs
          <5>2. w = avail BY <1>1, <4>7
          <5>3. o + m - SectionSize + HeadLen = avail BY <4>2, <5>2
          <5>4. avail = Base
            <6>1. CASE o + m > SectionSize BY <1>1, <1>2, <1>13, <4>5, <5>3, <6>1
            <6>2. CASE o + m = SectionSize BY <1>1, <1>2, <1>13, <5>1, <5>3, <6>2
            <6>q. QED BY <1>2, <1>13, <3>3, <6>1, <6>2
          <5>q. QED BY <3>3, <4>2, <4>3, <5>1, <5>3, <5>4 DEF FEnd
        <4>q. QED BY <4>6, <4>7
      <3>q. QED BY <1>2, <1>13, <3>2, <3>3
    <2>q. QED BY <2>1, <2>2
  <1>q. QED BY <1>3, <1>4, <1>5, <1>14

\* A unit of a node in flash other than its first.
FMid(s, o) == \E n \in Nodes : \E i \in 2 .. NodeLen(n) : Fl(s, o) = <<n, i>>

\* Of a node flash holds all, or its metadata, or neither.
Whole(s, o, n) == [node |-> n, section |-> s, offset |-> o] \in FlashLog
Halved(s, o, n) == \E k \in MetaLen(n) .. NodeLen(n) - 1 : FlHolds(s, o, n, k) /\ FEnd(s, o, k)
CutShort(s, o, n) ==
  \E k \in 1 .. MetaLen(n) - 1 :
    /\ o + k <= SectionSize /\ (o + k) % PageSize = 0
    /\ s = FTail => o + k <= FLimit
    /\ \A j \in 0 .. k - 1 : Fl(s, o + j) = <<n, j + 1>>
    /\ o + k < SectionSize => ~FMid(s, o + k)
    /\ o + k = SectionSize => IF s = FTail THEN NextSection(s) \notin Valid ELSE ~FMid(NextSection(s), HeadLen)

\* Such a unit is one of the log, and not the first one of a node or padding.
LEMMA FMidIs ==
  ASSUME IInv, LInv, NEW s \in Sections, NEW o \in HeadLen .. SectionSize - 1
  PROVE  /\ FMid(s, o) => InF(s, o) /\ Mid(s, o)
         /\ InF(s, o) /\ Mid(s, o) => FMid(s, o)
         /\ ~InF(s, o) => ~FMid(s, o)
  <1>1. o \in 0 .. SectionSize - 1 /\ o >= HeadLen BY Geometry
  <1>2. ASSUME NEW n \in Nodes, NEW i \in 2 .. NodeLen(n), Fl(s, o) = <<n, i>> PROVE InF(s, o) /\ Mid(s, o)
    <2>1. Fl(s, o) # Erased BY <1>2, UnitIs
    <2>2. InF(s, o) /\ Fl(s, o) = At(s, o) BY <2>1, WrittenIs
    <2>q. QED BY <1>2, <2>2 DEF Mid
  <1>3. ASSUME InF(s, o), Mid(s, o) PROVE FMid(s, o)
    <2>1. Fl(s, o) = At(s, o) BY <1>1, <1>3, FlashIs
    <2>q. QED BY <1>3, <2>1 DEF Mid, FMid
  <1>q. QED BY <1>2, <1>3 DEF FMid

\* What flash holds of a node is cut within its metadata or behind.
LEMMA PartIs ==
  ASSUME IInv, LInv, MetaInPage, NEW s, NEW o, NEW n \in Nodes, InF(s, o),
         NEW k \in 1 .. NodeLen(n) - 1, FlHolds(s, o, n, k), FEnd(s, o, k)
  PROVE  CutShort(s, o, n) \/ Halved(s, o, n)
  <1>0. TypeOK /\ CacheAligned BY DEF IInv
  <1>1. MetaLen(n) \in 1 .. AddLen /\ NodeLen(n) \in Nat \ {0} /\ NodeLen(n) <= Payload BY NodeKinds, NodeFits
  <1>2. /\ SectionSize \in Nat \ {0} /\ HeadLen \in Nat \ {0} /\ HeadLen < SectionSize /\ Payload = SectionSize - HeadLen
        /\ PageSize \in Nat \ {0} /\ SectionSize % PageSize = 0 /\ AddLen \in Nat
    BY Geometry, LengthAssumption DEF Payload
  <1>3. s \in Sections /\ o \in HeadLen .. SectionSize - 1 /\ o \in Nat /\ o < SectionSize /\ HeadLen <= o
    BY <1>0, <1>2, InFIs
  <1>4. FLimit \in Nat /\ FLimit % PageSize = 0 /\ FLimit <= SectionSize /\ PageSize <= FLimit BY <1>0, LimitIs
  <1>5. CASE k >= MetaLen(n)
    <2>1. k \in MetaLen(n) .. NodeLen(n) - 1 BY <1>1, <1>5
    <2>q. QED BY <2>1 DEF Halved
  <1>6. CASE k < MetaLen(n)
    <2>0. k \in Nat \ {0} /\ k \in 1 .. MetaLen(n) - 1 BY <1>1, <1>6
    <2>1. s = FTail /\ o + k = FLimit /\ (o + k = SectionSize => NextSection(s) \notin Valid)
      <3>1. ASSUME o + k >= SectionSize, o + k - SectionSize + HeadLen = FLimit PROVE FALSE
        <4>1. k >= 1 + (PageSize - HeadLen) BY <1>2, <1>3, <1>4, <2>0, <3>1
        <4>2. AddLen <= 1 + (PageSize - HeadLen) BY <1>2 DEF MetaInPage
        <4>q. QED BY <1>1, <1>2, <1>6, <2>0, <4>1, <4>2
      <3>q. QED BY <3>1 DEF FEnd
    <2>2. ASSUME NEW j \in 0 .. k - 1 PROVE Fl(s, o + j) = <<n, j + 1>>
      <3>1. o + j < SectionSize /\ j \in 0 .. Payload /\ o \in 0 .. SectionSize - 1 BY <1>1, <1>2, <1>3, <1>4, <2>0, <2>1
      <3>2. SectionOffset(s, o, j) = [section |-> s, offset |-> o + j] BY <1>3, <3>1, Units
      <3>q. QED BY <3>2 DEF FlHolds
    <2>3. ASSUME o + k < SectionSize PROVE ~FMid(s, o + k)
      <3>1. o + k \in HeadLen .. SectionSize - 1 BY <1>2, <1>3, <2>0, <2>3
      <3>2. ~InF(s, o + k) BY <1>3, <1>4, <2>0, <2>1 DEF InF
      <3>q. QED BY <1>3, <3>1, <3>2, FMidIs
    <2>4. /\ o + k <= SectionSize /\ (o + k) % PageSize = 0 /\ o + k <= FLimit
      BY <1>3, <1>4, <2>0, <2>1
    <2>q. QED BY <2>0, <2>1, <2>2, <2>3, <2>4 DEF CutShort
  <1>q. QED BY <1>1, <1>5, <1>6

\* A cut of an earlier power loss stays one.
LEMMA CutStays ==
  ASSUME IInv, LInv, Shape, NEW s, NEW o, NEW n \in Nodes, InF(s, o), CutAt(s, o, n)
  PROVE  CutShort(s, o, n)
  <1>0. TypeOK /\ CacheAligned BY DEF IInv
  <1>1. PICK k \in 1 .. MetaLen(n) - 1 :
          /\ o + k <= SectionSize /\ (o + k) % PageSize = 0
          /\ s = tailSec => o + k <= avail
          /\ \A j \in 0 .. k - 1 : At(s, o + j) = <<n, j + 1>>
          /\ o + k < SectionSize => ~Mid(s, o + k)
          /\ o + k = SectionSize => IF s = tailSec THEN NextSection(s) \in Ahead ELSE ~Mid(NextSection(s), HeadLen)
    BY DEF CutAt
  <1>2. MetaLen(n) \in 1 .. AddLen /\ AddLen \in Nat BY NodeKinds, LengthAssumption
  <1>3. k \in Nat \ {0} BY <1>2
  <1>4. /\ SectionSize \in Nat \ {0} /\ HeadLen \in Nat \ {0} /\ HeadLen < SectionSize
        /\ PageSize \in Nat \ {0} /\ SectionSize % PageSize = 0
    BY Geometry
  <1>5. s \in Sections \ Ahead /\ o \in HeadLen .. SectionSize - 1 /\ o \in Nat /\ o < SectionSize /\ HeadLen <= o /\ (s = tailSec => o < Base)
    BY <1>0, <1>4, InFIs
  <1>6. /\ Base \in Nat /\ Base <= avail /\ avail \in Nat /\ avail <= SectionSize /\ Base % PageSize = 0
        /\ Base < SectionSize => avail < Base + PageSize
        /\ Base < SectionSize => Base + PageSize <= SectionSize
    <2>1. /\ Base \in Nat /\ Base <= avail /\ avail \in Nat /\ avail <= SectionSize /\ Base % PageSize = 0
          /\ Base < SectionSize => avail < Base + PageSize
          /\ avail < SectionSize => Base + PageSize <= SectionSize
          /\ avail = SectionSize => Base = SectionSize
      BY <1>0, BaseIs
    <2>q. QED BY <1>4, <2>1
  <1>7. s = tailSec => o + k <= Base
    <2>1. ASSUME s = tailSec, o + k > Base PROVE FALSE
      <3>1. o + k <= avail BY <1>1, <2>1
      <3>2. Base < SectionSize /\ o + k < Base + PageSize BY <1>1, <1>3, <1>4, <1>5, <1>6, <2>1, <3>1
      <3>3. NextPage(Base) <= o + k BY <1>1, <1>3, <1>5, <1>6, <2>1, NextPageIs
      <3>4. NextPage(Base) = Base + PageSize BY <1>6, NextPageIs
      <3>q. QED BY <1>3, <1>4, <1>5, <1>6, <3>2, <3>3, <3>4
    <2>q. QED BY <1>3, <1>5, <1>6, <2>1
  <1>8. ASSUME NEW j \in 0 .. k - 1 PROVE Fl(s, o + j) = <<n, j + 1>>
    <2>1. o + j \in HeadLen .. SectionSize - 1 /\ o + j \in 0 .. SectionSize - 1 /\ (s = tailSec => o + j < Base)
      BY <1>1, <1>3, <1>4, <1>5, <1>6, <1>7
    <2>2. Has(s, o + j) BY <1>5, <1>6, <2>1 DEF Has
    <2>3. InF(s, o + j) BY <1>0, <2>1, <2>2, InFIs
    <2>4. Fl(s, o + j) = At(s, o + j) BY <1>5, <2>1, <2>3, FlashIs
    <2>q. QED BY <1>1, <2>4
  <1>9. ASSUME o + k < SectionSize PROVE ~FMid(s, o + k)
    <2>1. o + k \in HeadLen .. SectionSize - 1 BY <1>3, <1>4, <1>5, <1>9
    <2>2. ~Mid(s, o + k) BY <1>1, <1>9
    <2>q. QED BY <1>5, <2>1, <2>2, FMidIs
  <1>10. s = FTail => o + k <= FLimit
    <2>1. CASE Base = 0 BY <1>0, <1>1, <2>1, LimitIs
    <2>2. CASE Base # 0 BY <1>0, <1>7, <2>2, LimitIs
    <2>q. QED BY <2>1, <2>2
  <1>11. ASSUME o + k = SectionSize
         PROVE  IF s = FTail THEN NextSection(s) \notin Valid ELSE ~FMid(NextSection(s), HeadLen)
    <2>1. NextSection(s) \in Sections /\ HeadLen \in HeadLen .. SectionSize - 1 BY <1>4, <1>5, PrevIs
    <2>2. CASE s = tailSec
      <3>1. NextSection(s) \notin Valid BY <1>1, <1>11, <2>2 DEF Valid
      <3>2. ~InF(NextSection(s), HeadLen) BY <3>1 DEF InF
      <3>q. QED BY <2>1, <3>1, <3>2, FMidIs
    <2>3. CASE s # tailSec
      <3>1. ~FMid(NextSection(s), HeadLen) BY <1>1, <1>11, <2>1, <2>3, FMidIs
      <3>2. ASSUME s = FTail PROVE NextSection(s) \notin Valid
        <4>1. Base = 0 /\ NextSection(s) = tailSec BY <1>0, <2>3, <3>2, LimitIs
        <4>q. QED BY <4>1 DEF Valid
      <3>q. QED BY <3>1, <3>2
    <2>q. QED BY <2>2, <2>3
  <1>q. QED BY <1>1, <1>8, <1>9, <1>10, <1>11 DEF CutShort

\* Whatever begins in flash.
LEMMA FlashBegins ==
  ASSUME IInv, LInv, Shape, MetaInPage, RoomToCopy, NEW s, NEW o, NEW n \in Nodes, InF(s, o), Fl(s, o) = <<n, 1>>
  PROVE  Whole(s, o, n) \/ CutShort(s, o, n) \/ Halved(s, o, n)
  <1>0. TypeOK /\ CacheAligned BY DEF IInv
  <1>1. NodeLen(n) \in Nat \ {0} /\ NodeLen(n) <= Payload BY NodeFits
  <1>2. /\ SectionSize \in Nat \ {0} /\ HeadLen \in Nat \ {0} /\ HeadLen < SectionSize BY Geometry
  <1>3. s \in Sections /\ o \in HeadLen .. SectionSize - 1 /\ o \in 0 .. SectionSize - 1 /\ Has(s, o)
    BY <1>0, <1>2, InFIs
  <1>4. At(s, o) = <<n, 1>> BY <1>3, FlashIs
  <1>5. ASSUME NEW m \in 1 .. NodeLen(n), Stored([section |-> s, offset |-> o], n, m),
               m < NodeLen(n) => (FlHolds(s, o, n, m) => FEnd(s, o, m))
        PROVE  Whole(s, o, n) \/ CutShort(s, o, n) \/ Halved(s, o, n)
    <2>1. PICK k \in 1 .. m : FlHolds(s, o, n, k) /\ (k < m => FEnd(s, o, k)) BY <1>5, FlashPart
    <2>2. CASE k = NodeLen(n)
      <3>1. m = NodeLen(n) BY <1>1, <2>2
      <3>2. PICK e : e = [node |-> n, section |-> s, offset |-> o] OBVIOUS
      <3>3. e \in Located /\ e.node = n /\ e.section = s /\ e.offset = o BY <1>3, <3>2 DEF Located
      <3>4. Stored(e, n, NodeLen(n)) BY <1>5, <3>1, <3>3 DEF Stored
      <3>5. e \in Log BY <1>2, <1>3, <3>3, <3>4 DEF Log
      <3>6. InFlash(e)
        <4>1. ASSUME NEW i \in 0 .. NodeLen(e.node) - 1
              PROVE  ~(/\ SectionOffset(e.section, e.offset, i).section = tailSec
                       /\ SectionOffset(e.section, e.offset, i).offset >= Base)
          <5>1. PICK p : p = SectionOffset(s, o, i) OBVIOUS
          <5>2. InF(p.section, p.offset) BY <2>1, <2>2, <3>3, <5>1 DEF FlHolds
          <5>3. p.section = tailSec => p.offset < Base BY <1>0, <5>2, InFIs
          <5>4. p.offset \in Nat /\ Base \in Nat BY <1>0, <1>2, <5>2, BaseIs, InFIs
          <5>q. QED BY <3>3, <5>1, <5>3, <5>4
        <4>q. QED BY <4>1 DEF InFlash
      <3>q. QED BY <3>2, <3>5, <3>6 DEF Whole, FlashLog
    <2>3. CASE k # NodeLen(n)
      <3>1. k \in 1 .. NodeLen(n) - 1 BY <1>1, <2>3
      <3>2. FEnd(s, o, k)
        <4>1. CASE k < m BY <2>1, <4>1
        <4>2. CASE k = m
          <5>1. m < NodeLen(n) BY <1>1, <2>3, <4>2
          <5>q. QED BY <1>5, <2>1, <4>2, <5>1
        <4>q. QED BY <1>1, <4>1, <4>2
      <3>q. QED BY <2>1, <3>1, <3>2, PartIs
    <2>q. QED BY <2>2, <2>3
  <1>6. CASE IsEntry(s, o)
    <2>1. Under /\ entry.section = s /\ entry.offset = o /\ pc = "emit" /\ Done > 0 BY <1>6 DEF IsEntry, Under
    <2>2. Stored(entry, entry.node, Done) BY <2>1 DEF LInv, Emitting
    <2>3. Done \in Nat /\ Done <= NodeLen(entry.node) /\ entry.node \in Nodes /\ NodeLen(entry.node) \in Nat
          /\ Left = NodeLen(entry.node) - Done
      BY <2>1, LeftIs DEF Left
    <2>4. n = entry.node
      <3>1. AtPlace(SectionOffset(s, o, 0)) = <<entry.node, 0 + 1>>
        <4>1. 0 \in 0 .. Done - 1 BY <2>1, <2>3
        <4>q. QED BY <2>1, <2>2, <4>1 DEF Stored, Holds
      <3>2. SectionOffset(s, o, 0) = [section |-> s, offset |-> o]
        <4>1. 0 \in Nat /\ 0 + 0 <= Payload BY Geometry
        <4>q. QED BY <1>3, <4>1, GoOn
      <3>3. At(s, o) = <<entry.node, 0 + 1>> BY <3>1, <3>2 DEF AtPlace
      <3>q. QED BY <1>4, <3>3, UnitIs
    <2>5. Done \in 1 .. NodeLen(n) BY <2>1, <2>3, <2>4
    <2>6. Stored([section |-> s, offset |-> o], n, Done) BY <2>1, <2>2, <2>4 DEF Stored
    <2>7. ASSUME Done < NodeLen(n), FlHolds(s, o, n, Done) PROVE FEnd(s, o, Done)
      <3>1. Left > 0 BY <2>3, <2>4, <2>7
      <3>q. QED BY <2>1, <2>4, <2>7, <3>1, EntryPart
    <2>8. PICK m : m = Done OBVIOUS
    <2>q. QED BY <1>5, <2>5, <2>6, <2>7, <2>8
  <1>7. CASE ~IsEntry(s, o)
    <2>1. Stored([section |-> s, offset |-> o], n, NodeLen(n)) \/ CutAt(s, o, n)
      BY <1>3, <1>4, <1>7 DEF Shape, Begins
    <2>2. CASE CutAt(s, o, n) BY <2>2, CutStays
    <2>3. CASE Stored([section |-> s, offset |-> o], n, NodeLen(n))
      <3>1. NodeLen(n) \in 1 .. NodeLen(n) BY <1>1
      <3>2. PICK m : m = NodeLen(n) OBVIOUS
      <3>3. ~(m < NodeLen(n)) BY <1>1, <3>2
      <3>q. QED BY <1>5, <2>3, <3>1, <3>2, <3>3
    <2>q. QED BY <2>1, <2>2, <2>3
  <1>q. QED BY <1>6, <1>7

-----------------------------------------------------------------------------
(* What tinyfs_init finds in flash. *)

\* The nodes whose metadata flash holds.
Found ==
  {e \in Located : e.offset >= HeadLen /\ MetadataAt(e.section, e.offset) /\ NodeAt(e.section, e.offset) = e.node}

\* A node of the log, all of it in flash.
LEMMA WholeHolds ==
  ASSUME IInv, LInv, NEW s, NEW o, NEW n, Whole(s, o, n)
  PROVE  /\ n \in Nodes /\ s \in Sections /\ o \in HeadLen .. SectionSize - 1
         /\ FlHolds(s, o, n, NodeLen(n))
         /\ s = FTail => o + NodeLen(n) <= FLimit
  <1>0. TypeOK /\ CacheAligned BY DEF IInv
  <1>1. PICK e : e = [node |-> n, section |-> s, offset |-> o] OBVIOUS
  <1>2. e \in Log /\ InFlash(e) /\ e.node = n /\ e.section = s /\ e.offset = o BY <1>1 DEF Whole, FlashLog
  <1>3. /\ n \in Nodes /\ s \in Sections /\ o \in HeadLen .. SectionSize - 1 /\ o \in Nat
        /\ NodeLen(n) \in Nat \ {0} /\ NodeLen(n) <= Payload /\ Stored(e, n, NodeLen(n)) /\ tailCount # 0
    BY <1>2, LogEntry
  <1>4. Laid(s, o, NodeLen(n)) /\ Holds(s, o, n, NodeLen(n)) BY <1>2, <1>3 DEF Stored
  <1>5. /\ SectionSize \in Nat \ {0} /\ HeadLen \in Nat \ {0} /\ HeadLen < SectionSize /\ Payload = SectionSize - HeadLen
    BY Geometry DEF Payload
  <1>6. /\ Base \in Nat /\ Base <= avail /\ avail \in Nat /\ avail <= SectionSize
        /\ o \in 0 .. SectionSize - 1 /\ tailSec \in Sections
    BY <1>0, <1>3, <1>5, BaseIs DEF TypeOK
  <1>7. ASSUME NEW i \in 0 .. NodeLen(n) - 1, NEW p, p = SectionOffset(s, o, i)
        PROVE  InF(p.section, p.offset) /\ Fl(p.section, p.offset) = <<n, i + 1>>
    <2>1. Behind(p) BY <1>0, <1>3, <1>4, <1>6, <1>7, LaidBehind
    <2>2. i \in 0 .. Payload /\ i \in Nat BY <1>3, <1>5
    <2>3. p.offset \in HeadLen .. SectionSize - 1
      <3>1. CASE o + i < SectionSize
        <4>1. p = [section |-> s, offset |-> o + i] BY <1>3, <1>6, <1>7, <2>2, <3>1, Units
        <4>q. QED BY <1>3, <1>5, <2>2, <3>1, <4>1
      <3>2. CASE o + i >= SectionSize
        <4>1. p = [section |-> NextSection(s), offset |-> o + i - SectionSize + HeadLen]
          BY <1>3, <1>6, <1>7, <2>2, <3>2, Units
        <4>q. QED BY <1>3, <1>5, <2>2, <3>2, <4>1
      <3>q. QED BY <1>3, <1>5, <2>2, <3>1, <3>2
    <2>4. Has(p.section, p.offset) BY <2>1, <2>3 DEF Behind, Has
    <2>5. p.section = tailSec => p.offset < Base
      <3>1. ~(p.section = tailSec /\ p.offset >= Base) BY <1>2, <1>7 DEF InFlash
      <3>q. QED BY <1>5, <1>6, <2>3, <3>1
    <2>6. InF(p.section, p.offset) BY <1>0, <2>4, <2>5, InFIs
    <2>7. p.section \in Sections /\ p.offset \in 0 .. SectionSize - 1 BY <1>0, <1>5, <2>3, <2>6, InFIs
    <2>8. Fl(p.section, p.offset) = At(p.section, p.offset) BY <2>6, <2>7, FlashIs
    <2>9. At(p.section, p.offset) = <<n, i + 1>> BY <1>4, <1>7 DEF Holds, AtPlace
    <2>q. QED BY <2>6, <2>8, <2>9
  <1>8. FlHolds(s, o, n, NodeLen(n)) BY <1>7 DEF FlHolds
  <1>9. ASSUME s = FTail PROVE o + NodeLen(n) <= FLimit
    <2>1. CASE Base = 0
      <3>1. FLimit = SectionSize /\ FTail # tailSec /\ NextSection(s) = tailSec BY <1>0, <1>9, <2>1, LimitIs
      <3>2. ASSUME o + NodeLen(n) > SectionSize PROVE FALSE
        <4>1. SectionSize - o \in 0 .. NodeLen(n) - 1 /\ SectionSize - o \in 0 .. Payload BY <1>3, <1>5, <3>2
        <4>2. PICK i : i = SectionSize - o OBVIOUS
        <4>3. o + i >= SectionSize BY <1>3, <1>5, <4>2
        <4>4. SectionOffset(s, o, i) = [section |-> NextSection(s), offset |-> o + i - SectionSize + HeadLen]
          BY <1>3, <1>6, <4>1, <4>2, <4>3, Units
        <4>5. InF(NextSection(s), o + i - SectionSize + HeadLen) BY <1>7, <4>1, <4>2, <4>4
        <4>q. QED BY <2>1, <3>1, <4>5 DEF InF, Valid
      <3>q. QED BY <1>3, <1>5, <3>1, <3>2
    <2>2. CASE Base # 0
      <3>1. FLimit = Base /\ FTail = tailSec BY <1>0, <2>2, LimitIs
      <3>2. o + NodeLen(n) <= avail BY <1>4, <1>9, <3>1 DEF Laid
      <3>3. PICK i : i = NodeLen(n) - 1 OBVIOUS
      <3>4. i \in 0 .. NodeLen(n) - 1 /\ i \in 0 .. Payload /\ o + i < SectionSize BY <1>3, <1>5, <1>6, <3>2, <3>3
      <3>5. SectionOffset(s, o, i) = [section |-> s, offset |-> o + i] BY <1>3, <1>6, <3>4, Units
      <3>6. InF(s, o + i) BY <1>7, <3>4, <3>5
      <3>7. o + i < Base BY <1>9, <3>1, <3>6 DEF InF
      <3>q. QED BY <1>3, <1>5, <1>6, <3>1, <3>3, <3>4, <3>7
    <2>q. QED BY <2>1, <2>2
  <1>q. QED BY <1>3, <1>8, <1>9

\* What a reader without a cache reads, unit by unit.
LEMMA FlashUnitsIs ==
  ASSUME NEW s \in Sections, NEW o \in 0 .. SectionSize - 1, NEW len \in 0 .. Payload
  PROVE  /\ FlashUnits(s, o, len)
              = [i \in 1 .. len |-> Fl(SectionOffset(s, o, i - 1).section, SectionOffset(s, o, i - 1).offset)]
         /\ \A n : FlashUnits(s, o, len) = [i \in 1 .. len |-> <<n, i>>] <=>
              \A i \in 0 .. len - 1 : Fl(SectionOffset(s, o, i).section, SectionOffset(s, o, i).offset) = <<n, i + 1>>
  <1>1. SectionSize \in Nat \ {0} /\ HeadLen \in Nat \ {0} /\ Payload = SectionSize - HeadLen /\ HeadLen < SectionSize
    BY Geometry DEF Payload
  <1>2. ASSUME NEW i \in 1 .. len
        PROVE  (IF o + i - 1 < SectionSize THEN flash[FlashAddr(s, o + i - 1)]
                ELSE flash[FlashAddr(NextSection(s), HeadLen + o + i - 1 - SectionSize)])
               = Fl(SectionOffset(s, o, i - 1).section, SectionOffset(s, o, i - 1).offset)
    <2>1. i - 1 \in 0 .. Payload BY <1>1
    <2>2. PICK j \in 0 .. Payload : j = i - 1 BY <2>1
    <2>3. o + i - 1 = o + j /\ HeadLen + o + i - 1 - SectionSize = o + j - SectionSize + HeadLen BY <1>1, <2>2
    <2>4. CASE o + j < SectionSize
      <3>1. SectionOffset(s, o, j) = [section |-> s, offset |-> o + j] BY <2>4, Units
      <3>q. QED BY <2>2, <2>3, <2>4, <3>1 DEF Fl
    <2>5. CASE o + j >= SectionSize
      <3>1. SectionOffset(s, o, j) = [section |-> NextSection(s), offset |-> o + j - SectionSize + HeadLen] BY <2>5, Units
      <3>2. ~(o + j < SectionSize) BY <1>1, <2>5
      <3>q. QED BY <2>2, <2>3, <3>1, <3>2 DEF Fl
    <2>q. QED BY <1>1, <2>4, <2>5
  <1>3. FlashUnits(s, o, len)
          = [i \in 1 .. len |-> Fl(SectionOffset(s, o, i - 1).section, SectionOffset(s, o, i - 1).offset)]
    BY <1>2 DEF FlashUnits
  <1> DEFINE G == [i \in 1 .. len |-> Fl(SectionOffset(s, o, i - 1).section, SectionOffset(s, o, i - 1).offset)]
  <1>4. ASSUME NEW n
        PROVE  G = [i \in 1 .. len |-> <<n, i>>] <=>
                 \A i \in 0 .. len - 1 : Fl(SectionOffset(s, o, i).section, SectionOffset(s, o, i).offset) = <<n, i + 1>>
    <2>1. ASSUME G = [i \in 1 .. len |-> <<n, i>>], NEW i \in 0 .. len - 1
          PROVE  Fl(SectionOffset(s, o, i).section, SectionOffset(s, o, i).offset) = <<n, i + 1>>
      <3>1. i + 1 \in 1 .. len /\ i + 1 - 1 = i BY <1>1
      <3>2. G[i + 1] = Fl(SectionOffset(s, o, i).section, SectionOffset(s, o, i).offset) BY <3>1
      <3>3. G[i + 1] = <<n, i + 1>>
        <4> HIDE DEF G
        <4>q. QED BY <2>1, <3>1
      <3>q. QED BY <3>2, <3>3
    <2>2. ASSUME \A i \in 0 .. len - 1 : Fl(SectionOffset(s, o, i).section, SectionOffset(s, o, i).offset) = <<n, i + 1>>
          PROVE  G = [i \in 1 .. len |-> <<n, i>>]
      <3>1. ASSUME NEW i \in 1 .. len PROVE Fl(SectionOffset(s, o, i - 1).section, SectionOffset(s, o, i - 1).offset) = <<n, i>>
        <4>1. i - 1 \in 0 .. len - 1 /\ i - 1 + 1 = i BY <1>1
        <4>q. QED BY <2>2, <4>1
      <3>q. QED BY <3>1
    <2>q. QED BY <2>1, <2>2
  <1>5. FlashUnits(s, o, len) = G BY <1>3
  <1>q. QED BY <1>3, <1>4, <1>5

\* node_metadata_read finds the whole nodes, and those of which flash holds the
\* metadata only.
LEMMA MetadataIs ==
  ASSUME IInv, LInv, Shape, MetaInPage, RoomToCopy, NEW s \in Sections, NEW o \in HeadLen .. SectionSize - 1
  PROVE  /\ MetadataAt(s, o) =>
              /\ NodeAt(s, o) \in Nodes /\ InF(s, o) /\ Fl(s, o) = <<NodeAt(s, o), 1>>
              /\ Whole(s, o, NodeAt(s, o)) \/ Halved(s, o, NodeAt(s, o))
         /\ \A n \in Nodes : Whole(s, o, n) \/ Halved(s, o, n) => MetadataAt(s, o) /\ NodeAt(s, o) = n
  <1>0. TypeOK /\ CacheAligned BY DEF IInv
  <1>1. /\ SectionSize \in Nat \ {0} /\ HeadLen \in Nat \ {0} /\ HeadLen < SectionSize /\ Payload = SectionSize - HeadLen
    BY Geometry DEF Payload
  <1>2. o \in 0 .. SectionSize - 1 /\ o \in Nat BY <1>1
  <1>3. ASSUME NEW n \in Nodes
        PROVE  /\ MetaLen(n) \in 0 .. Payload /\ MetaLen(n) \in Nat \ {0} /\ MetaLen(n) <= NodeLen(n) /\ NodeLen(n) \in Nat \ {0}
               /\ NodeLen(n) <= Payload
               /\ SubSeq(Image(n), 1, MetaLen(n)) = [i \in 1 .. MetaLen(n) |-> <<n, i>>]
               /\ n.type \in {"RECORD_ADD", "DIR_ADD", "RECORD_REMOVE", "DIR_REMOVE"}
    <2>1. MetaLen(n) \in 1 .. AddLen /\ AddLen \in Nat \ {0} /\ AddLen <= Payload BY <1>1, NodeKinds, LengthAssumption
    <2>2. NodeLen(n) \in Nat \ {0} /\ NodeLen(n) <= Payload BY NodeFits
    <2>3. MetaLen(n) <= NodeLen(n)
      <3>1. CASE IsRecord(n) BY <2>1, <2>2, <3>1, NodeLengths
      <3>2. CASE ~IsRecord(n) BY <2>1, <2>2, <3>2 DEF NodeLen
      <3>q. QED BY <3>1, <3>2
    <2>4. MetaLen(n) \in Nat \ {0} /\ 0 + MetaLen(n) <= NodeLen(n) BY <2>1, <2>2, <2>3
    <2>5. SubSeq(Image(n), 0 + 1, 0 + MetaLen(n)) = [i \in 1 .. MetaLen(n) |-> <<n, 0 + i>>]
      <3>1. 0 \in Nat OBVIOUS
      <3>q. QED BY <2>4, <3>1, ImagePart
    <2>6. 0 + 1 = 1 /\ 0 + MetaLen(n) = MetaLen(n) /\ \A i \in 1 .. MetaLen(n) : 0 + i = i BY <2>4
    <2>7. [i \in 1 .. MetaLen(n) |-> <<n, 0 + i>>] = [i \in 1 .. MetaLen(n) |-> <<n, i>>] BY <2>6
    <2>8. n.type \in {"RECORD_ADD", "DIR_ADD", "RECORD_REMOVE", "DIR_REMOVE"}
      BY DEF Nodes, RecordAdds, DirAdds, RecordRemoves, DirRemoves
    <2>9. SubSeq(Image(n), 1, MetaLen(n)) = [i \in 1 .. MetaLen(n) |-> <<n, i>>] BY <2>5, <2>6, <2>7
    <2>10. MetaLen(n) \in 0 .. Payload BY <1>1, <2>1, <2>2, <2>3, <2>4
    <2>q. QED BY <2>2, <2>3, <2>4, <2>8, <2>9, <2>10
  <1>4. Fl(s, o) \in Cells BY <1>0, <1>2, AddressOf DEF TypeOK, Fl
  <1>5. ASSUME MetadataAt(s, o)
        PROVE  /\ NodeAt(s, o) \in Nodes /\ InF(s, o) /\ Fl(s, o) = <<NodeAt(s, o), 1>>
               /\ Whole(s, o, NodeAt(s, o)) \/ Halved(s, o, NodeAt(s, o))
    <2>1. PICK n : n = NodeAt(s, o) OBVIOUS
    <2>2. /\ n.type \in {"RECORD_ADD", "DIR_ADD", "RECORD_REMOVE", "DIR_REMOVE"}
          /\ FlashUnits(s, o, MetaLen(n)) = SubSeq(Image(n), 1, MetaLen(n))
      BY <1>5, <2>1 DEF MetadataAt
    <2>3. n = Fl(s, o)[1] BY <2>1 DEF NodeAt, Fl
    <2>4. n \in Nodes
      <3>1. Fl(s, o) # Erased
        <4>1. Erased[1].type = "ERASED" BY DEF Erased
        <4>q. QED BY <2>2, <2>3, <4>1
      <3>2. Fl(s, o) # Garbage
        <4>1. Garbage[1].type = "GARBAGE" BY DEF Garbage
        <4>q. QED BY <2>2, <2>3, <4>1
      <3>3. Fl(s, o) \in (Nodes \cup Heads) \X Nat BY <1>4, <3>1, <3>2 DEF Cells
      <3>4. n \in Nodes \cup Heads BY <2>3, <3>3
      <3>5. n \notin Heads BY <2>2 DEF Heads
      <3>q. QED BY <3>4, <3>5
    <2>5. /\ MetaLen(n) \in 0 .. Payload /\ MetaLen(n) \in Nat \ {0} /\ MetaLen(n) <= NodeLen(n) /\ NodeLen(n) \in Nat \ {0}
          /\ NodeLen(n) <= Payload
          /\ FlashUnits(s, o, MetaLen(n)) = [i \in 1 .. MetaLen(n) |-> <<n, i>>]
      BY <1>3, <2>2, <2>4
    <2>6. \A i \in 0 .. MetaLen(n) - 1 : Fl(SectionOffset(s, o, i).section, SectionOffset(s, o, i).offset) = <<n, i + 1>>
      BY <1>2, <2>5, FlashUnitsIs
    <2>7. Fl(s, o) = <<n, 1>>
      <3>1. 0 \in 0 .. MetaLen(n) - 1 /\ 0 \in 0 .. Payload /\ o + 0 < SectionSize /\ o + 0 = o /\ 0 + 1 = 1 BY <1>1, <1>2, <2>5
      <3>2. SectionOffset(s, o, 0) = [section |-> s, offset |-> o + 0] BY <1>2, <3>1, Units
      <3>q. QED BY <2>6, <3>1, <3>2
    <2>8. InF(s, o)
      <3>1. Fl(s, o) # Erased BY <2>7, UnitIs
      <3>q. QED BY <3>1, WrittenIs
    <2>9. Whole(s, o, n) \/ CutShort(s, o, n) \/ Halved(s, o, n) BY <2>4, <2>7, <2>8, FlashBegins
    <2>10. ~CutShort(s, o, n)
      <3> SUFFICES ASSUME CutShort(s, o, n) PROVE FALSE OBVIOUS
      <3>1. PICK k \in 1 .. MetaLen(n) - 1 :
              /\ o + k <= SectionSize
              /\ o + k < SectionSize => ~FMid(s, o + k)
              /\ o + k = SectionSize => IF s = FTail THEN NextSection(s) \notin Valid ELSE ~FMid(NextSection(s), HeadLen)
        BY DEF CutShort
      <3>2. k \in 0 .. MetaLen(n) - 1 /\ k \in 0 .. Payload /\ k \in Nat /\ k + 1 \in 2 .. NodeLen(n) BY <1>1, <2>5
      <3>3. Fl(SectionOffset(s, o, k).section, SectionOffset(s, o, k).offset) = <<n, k + 1>> BY <2>6, <3>2
      <3>4. CASE o + k < SectionSize
        <4>1. SectionOffset(s, o, k) = [section |-> s, offset |-> o + k] BY <1>2, <3>2, <3>4, Units
        <4>2. FMid(s, o + k) BY <2>4, <3>2, <3>3, <4>1 DEF FMid
        <4>q. QED BY <3>1, <3>4, <4>2
      <3>5. CASE o + k = SectionSize
        <4>1. SectionOffset(s, o, k) = [section |-> NextSection(s), offset |-> o + k - SectionSize + HeadLen]
              /\ o + k - SectionSize + HeadLen = HeadLen
          BY <1>1, <1>2, <3>2, <3>5, Units
        <4>2. FMid(NextSection(s), HeadLen) BY <2>4, <3>2, <3>3, <4>1 DEF FMid
        <4>3. NextSection(s) \in Sections /\ HeadLen \in HeadLen .. SectionSize - 1 BY <1>1, PrevIs
        <4>4. NextSection(s) \in Valid BY <4>2, <4>3, FMidIs DEF InF
        <4>q. QED BY <3>1, <3>5, <4>2, <4>4
      <3>q. QED BY <1>1, <1>2, <3>1, <3>2, <3>4, <3>5
    <2>q. QED BY <2>1, <2>4, <2>7, <2>8, <2>9, <2>10
  <1>6. ASSUME NEW n \in Nodes, Whole(s, o, n) \/ Halved(s, o, n) PROVE MetadataAt(s, o) /\ NodeAt(s, o) = n
    <2>1. PICK k \in MetaLen(n) .. NodeLen(n) : FlHolds(s, o, n, k)
      <3>1. CASE Whole(s, o, n)
        <4>1. FlHolds(s, o, n, NodeLen(n)) BY <3>1, WholeHolds
        <4>2. NodeLen(n) \in MetaLen(n) .. NodeLen(n) BY <1>3
        <4>q. QED BY <4>1, <4>2
      <3>2. CASE Halved(s, o, n)
        <4>1. PICK k \in MetaLen(n) .. NodeLen(n) - 1 : FlHolds(s, o, n, k) BY <3>2 DEF Halved
        <4>2. k \in MetaLen(n) .. NodeLen(n) BY <1>3
        <4>q. QED BY <4>1, <4>2
      <3>q. QED BY <1>6, <3>1, <3>2
    <2>2. \A i \in 0 .. MetaLen(n) - 1 : Fl(SectionOffset(s, o, i).section, SectionOffset(s, o, i).offset) = <<n, i + 1>>
      <3>1. ASSUME NEW i \in 0 .. MetaLen(n) - 1
            PROVE Fl(SectionOffset(s, o, i).section, SectionOffset(s, o, i).offset) = <<n, i + 1>>
        <4>1. i \in 0 .. k - 1 BY <1>3, <2>1
        <4>q. QED BY <2>1, <4>1 DEF FlHolds
      <3>q. QED BY <3>1
    <2>3. FlashUnits(s, o, MetaLen(n)) = SubSeq(Image(n), 1, MetaLen(n))
      <3>1. MetaLen(n) \in 0 .. Payload /\ SubSeq(Image(n), 1, MetaLen(n)) = [i \in 1 .. MetaLen(n) |-> <<n, i>>] BY <1>3
      <3>2. FlashUnits(s, o, MetaLen(n)) = [i \in 1 .. MetaLen(n) |-> <<n, i>>] BY <1>2, <2>2, <3>1, FlashUnitsIs
      <3>q. QED BY <3>1, <3>2
    <2>4. Fl(s, o) = <<n, 1>>
      <3>1. 0 \in 0 .. MetaLen(n) - 1 /\ 0 \in 0 .. Payload /\ o + 0 < SectionSize /\ o + 0 = o /\ 0 + 1 = 1 BY <1>1, <1>2, <1>3
      <3>2. SectionOffset(s, o, 0) = [section |-> s, offset |-> o + 0] BY <1>2, <3>1, Units
      <3>q. QED BY <2>2, <3>1, <3>2
    <2>5. NodeAt(s, o) = n BY <2>4 DEF NodeAt, Fl
    <2>q. QED BY <1>3, <2>3, <2>5 DEF MetadataAt
  <1>q. QED BY <1>5, <1>6

\* What is found are the nodes of the log that are in flash, and a record of which
\* flash holds the metadata and not the rest.
LEMMA FoundIs ==
  ASSUME IInv, LInv, Shape, MetaInPage, RoomToCopy, NEW e
  PROVE  /\ e \in Found <=> /\ e \in Located /\ e.offset >= HeadLen
                            /\ e \in FlashLog \/ Halved(e.section, e.offset, e.node)
         /\ e \in Found => /\ e.node \in Nodes /\ e.section \in Sections /\ e.section \in Valid
                           /\ e.offset \in HeadLen .. SectionSize - 1 /\ e.offset \in Nat
                           /\ InF(e.section, e.offset) /\ Fl(e.section, e.offset) = <<e.node, 1>>
  <1>0. TypeOK /\ CacheAligned BY DEF IInv
  <1>1. /\ SectionSize \in Nat \ {0} /\ HeadLen \in Nat \ {0} /\ HeadLen < SectionSize BY Geometry
  <1>2. ASSUME e \in Located, e.offset >= HeadLen
        PROVE  /\ e.node \in Nodes /\ e.section \in Sections /\ e.offset \in HeadLen .. SectionSize - 1 /\ e.offset \in Nat
               /\ e \in FlashLog <=> Whole(e.section, e.offset, e.node)
    <2>1. e = [node |-> e.node, section |-> e.section, offset |-> e.offset]
          /\ e.node \in Nodes /\ e.section \in Sections /\ e.offset \in 0 .. SectionSize - 1
      BY <1>2 DEF Located
    <2>2. e.offset \in HeadLen .. SectionSize - 1 /\ e.offset \in Nat BY <1>1, <1>2, <2>1
    <2>q. QED BY <2>1, <2>2 DEF Whole
  <1>3. ASSUME e \in Found
        PROVE  /\ e \in Located /\ e.offset >= HeadLen
               /\ e \in FlashLog \/ Halved(e.section, e.offset, e.node)
               /\ e.node \in Nodes /\ e.section \in Sections /\ e.section \in Valid
               /\ e.offset \in HeadLen .. SectionSize - 1 /\ e.offset \in Nat
               /\ InF(e.section, e.offset) /\ Fl(e.section, e.offset) = <<e.node, 1>>
    <2>1. e \in Located /\ e.offset >= HeadLen /\ MetadataAt(e.section, e.offset) /\ NodeAt(e.section, e.offset) = e.node
      BY <1>3 DEF Found
    <2>2. /\ e.node \in Nodes /\ e.section \in Sections /\ e.offset \in HeadLen .. SectionSize - 1 /\ e.offset \in Nat
          /\ e \in FlashLog <=> Whole(e.section, e.offset, e.node)
      BY <1>2, <2>1
    <2>3. /\ InF(e.section, e.offset) /\ Fl(e.section, e.offset) = <<e.node, 1>>
          /\ Whole(e.section, e.offset, e.node) \/ Halved(e.section, e.offset, e.node)
      BY <2>1, <2>2, MetadataIs
    <2>4. e.section \in Valid BY <2>3 DEF InF
    <2>q. QED BY <2>1, <2>2, <2>3, <2>4
  <1>4. ASSUME e \in Located, e.offset >= HeadLen, e \in FlashLog \/ Halved(e.section, e.offset, e.node)
        PROVE  e \in Found
    <2>1. /\ e.node \in Nodes /\ e.section \in Sections /\ e.offset \in HeadLen .. SectionSize - 1 /\ e.offset \in Nat
          /\ e \in FlashLog <=> Whole(e.section, e.offset, e.node)
      BY <1>2, <1>4
    <2>2. MetadataAt(e.section, e.offset) /\ NodeAt(e.section, e.offset) = e.node BY <1>4, <2>1, MetadataIs
    <2>q. QED BY <1>4, <2>2 DEF Found
  <1>q. QED BY <1>3, <1>4

\* The nodes of the log that are in flash are found.
LEMMA WholeFound ==
  ASSUME IInv, LInv, Shape, MetaInPage, RoomToCopy
  PROVE  FlashLog \subseteq Found
  <1>1. ASSUME NEW e \in FlashLog PROVE e \in Found
    <2>1. e \in Log BY DEF FlashLog
    <2>2. e \in Located /\ e.offset >= HeadLen BY <2>1 DEF Log
    <2>q. QED BY <2>2, FoundIs
  <1>q. QED BY <1>1

\* At one place one node is found.
LEMMA FoundPlace ==
  ASSUME IInv, LInv, Shape, MetaInPage, RoomToCopy, NEW e \in Found, NEW f \in Found,
         e.section = f.section, e.offset = f.offset
  PROVE  e = f
  <1>1. Fl(e.section, e.offset) = <<e.node, 1>> /\ Fl(f.section, f.offset) = <<f.node, 1>> BY FoundIs
  <1>2. e.node = f.node BY <1>1, UnitIs
  <1>3. e \in Located /\ f \in Located BY FoundIs
  <1>q. QED BY <1>2, <1>3 DEF Located

\* A node of which flash does not hold all is a record, and the end of what flash
\* holds.
LEMMA HalvedIs ==
  ASSUME IInv, LInv, NEW s, NEW o, NEW n \in Nodes, InF(s, o), Halved(s, o, n)
  PROVE  /\ IsRecord(n)
         /\ \A t, p : InF(t, p) =>
              \/ Age(t) > Age(s) \/ (t = s /\ p < o)
              \/ \E i \in 0 .. NodeLen(n) - 1 :
                    SectionOffset(s, o, i) = [section |-> t, offset |-> p] /\ Fl(t, p) = <<n, i + 1>>
         /\ FlashUnits(s, o, NodeLen(n)) # Image(n)
         /\ s = FTail => o + NodeLen(n) > FLimit
  <1>0. TypeOK /\ CacheAligned BY DEF IInv
  <1>1. /\ SectionSize \in Nat \ {0} /\ HeadLen \in Nat \ {0} /\ HeadLen < SectionSize /\ Payload = SectionSize - HeadLen
    BY Geometry DEF Payload
  <1>2. s \in Sections /\ o \in HeadLen .. SectionSize - 1 /\ o \in Nat /\ o \in 0 .. SectionSize - 1
        /\ s \in Valid /\ o >= HeadLen /\ o < SectionSize
    <2>1. s \in Valid BY DEF InF
    <2>2. s \in Sections /\ o \in HeadLen .. SectionSize - 1 /\ o \in Nat BY <1>0, InFIs
    <2>q. QED BY <1>1, <2>1, <2>2
  <1>3. MetaLen(n) \in Nat \ {0} /\ NodeLen(n) \in Nat \ {0} /\ NodeLen(n) <= Payload
    BY NodeKinds, NodeFits, LengthAssumption
  <1>4. PICK k \in MetaLen(n) .. NodeLen(n) - 1 : FlHolds(s, o, n, k) /\ FEnd(s, o, k) BY DEF Halved
  <1>5. k \in Nat \ {0} /\ k < NodeLen(n) /\ k \in 0 .. Payload /\ k \in 0 .. NodeLen(n) - 1 BY <1>1, <1>3, <1>4
  <1>6. IsRecord(n) BY <1>3, <1>4 DEF NodeLen
  <1>7. FLimit \in Nat /\ FLimit <= SectionSize /\ HeadLen <= FLimit /\ FTail \in Sections BY <1>0, LimitIs
  <1>8. /\ \A x \in Sections : Age(x) \in Nat
        /\ \A x, y \in Sections : Age(x) = Age(y) => x = y
    BY <1>0, Ages
  <1>9. \A x \in Valid : x \in Sections /\ Age(FTail) <= Age(x) BY ValidArc DEF Valid
  <1>10. ASSUME NEW t, NEW p, InF(t, p)
         PROVE  \/ Age(t) > Age(s) \/ (t = s /\ p < o)
                \/ \E i \in 0 .. NodeLen(n) - 1 :
                      SectionOffset(s, o, i) = [section |-> t, offset |-> p] /\ Fl(t, p) = <<n, i + 1>>
    <2>1. t \in Sections /\ t \in Valid /\ p \in HeadLen .. SectionSize - 1 /\ p \in Nat /\ p < SectionSize /\ HeadLen <= p
      <3>1. t \in Valid BY <1>10 DEF InF
      <3>2. t \in Sections /\ p \in HeadLen .. SectionSize - 1 /\ p \in Nat BY <1>0, <1>10, InFIs
      <3>q. QED BY <1>1, <3>1, <3>2
    <2>2. ASSUME NEW i \in Nat, i < k, SectionOffset(s, o, i) = [section |-> t, offset |-> p]
          PROVE  \E j \in 0 .. NodeLen(n) - 1 :
                      SectionOffset(s, o, j) = [section |-> t, offset |-> p] /\ Fl(t, p) = <<n, j + 1>>
      <3>1. i \in 0 .. k - 1 /\ i \in 0 .. NodeLen(n) - 1 BY <1>3, <1>5, <2>2
      <3>2. Fl(t, p) = <<n, i + 1>> BY <1>4, <2>2, <3>1 DEF FlHolds
      <3>q. QED BY <2>2, <3>1, <3>2
    <2>3. CASE t = s /\ p >= o /\ o + k > p
      <3>1. PICK i \in Nat : i = p - o BY <1>2, <2>1, <2>3
      <3>2. i < k /\ i \in 0 .. Payload /\ o + i < SectionSize /\ o + i = p BY <1>1, <1>2, <1>5, <2>1, <2>3, <3>1
      <3>3. SectionOffset(s, o, i) = [section |-> t, offset |-> p] BY <1>2, <2>3, <3>2, Units
      <3>q. QED BY <2>2, <3>2, <3>3
    <2>4. CASE s = FTail /\ o + k = FLimit
      <3>1. Age(t) >= Age(s) /\ Age(t) \in Nat /\ Age(s) \in Nat BY <1>2, <1>8, <1>9, <2>1, <2>4
      <3>2. CASE t = s
        <4>1. p < FLimit BY <1>10, <2>4, <3>2 DEF InF
        <4>q. QED BY <1>2, <2>1, <2>3, <2>4, <3>2, <4>1
      <3>3. CASE t # s
        <4>1. Age(t) # Age(s) BY <1>2, <1>8, <2>1, <3>3
        <4>q. QED BY <3>1, <4>1
      <3>q. QED BY <3>2, <3>3
    <2>5. CASE s # FTail /\ NextSection(s) = FTail /\ o + k >= SectionSize /\ o + k - SectionSize + HeadLen = FLimit
      <3>1. Age(s) = Age(FTail) + 1 /\ Age(FTail) \in Nat /\ Age(t) \in Nat /\ Age(FTail) <= Age(t)
        <4>1. s # tailSec
          <5>1. s = tailSec => Age(s) = 0 BY <1>0, Ages
          <5>2. Age(s) # Age(FTail) BY <1>2, <1>7, <1>8, <2>5
          <5>3. Age(FTail) <= Age(s) /\ Age(FTail) \in Nat /\ Age(s) \in Nat BY <1>2, <1>7, <1>8, <1>9
          <5>q. QED BY <5>1, <5>2, <5>3
        <4>2. Age(NextSection(s)) = Age(s) - 1 BY <1>0, <1>2, <4>1, Ages
        <4>q. QED BY <1>2, <1>7, <1>8, <1>9, <2>1, <2>5, <4>2
      <3>2. CASE t = s BY <1>1, <1>2, <1>5, <2>1, <2>3, <2>5, <3>2
      <3>3. CASE t = FTail
        <4>1. p < FLimit BY <1>10, <3>3 DEF InF
        <4>2. PICK i \in Nat : i = (SectionSize - o) + (p - HeadLen) BY <1>1, <1>2, <2>1
        <4>3. i < k /\ i \in 0 .. Payload /\ o + i >= SectionSize /\ o + i - SectionSize + HeadLen = p
          BY <1>1, <1>2, <1>5, <1>7, <2>1, <2>5, <4>1, <4>2
        <4>4. SectionOffset(s, o, i) = [section |-> NextSection(s), offset |-> o + i - SectionSize + HeadLen]
          BY <1>2, <4>3, Units
        <4>5. SectionOffset(s, o, i) = [section |-> t, offset |-> p] BY <2>5, <3>3, <4>3, <4>4
        <4>q. QED BY <2>2, <4>3, <4>5
      <3>4. CASE t # s /\ t # FTail
        <4>1. Age(t) # Age(s) /\ Age(t) # Age(FTail) BY <1>2, <1>7, <1>8, <2>1, <3>4
        <4>q. QED BY <3>1, <4>1
      <3>q. QED BY <3>2, <3>3, <3>4
    <2>q. QED BY <1>4, <2>4, <2>5 DEF FEnd
  <1>11. \E t, p : /\ SectionOffset(s, o, k) = [section |-> t, offset |-> p] /\ t \in Sections
                   /\ p \in HeadLen .. SectionSize - 1 /\ ~InF(t, p)
    <2>1. CASE o + k < SectionSize
      <3>1. SectionOffset(s, o, k) = [section |-> s, offset |-> o + k] BY <1>2, <1>5, <2>1, Units
      <3>2. s = FTail /\ o + k = FLimit BY <1>2, <1>4, <1>5, <1>1, <2>1 DEF FEnd
      <3>3. ~InF(s, o + k) BY <1>2, <1>5, <1>7, <3>2 DEF InF
      <3>4. o + k \in HeadLen .. SectionSize - 1 BY <1>1, <1>2, <1>5, <2>1
      <3>q. QED BY <1>2, <3>1, <3>3, <3>4
    <2>2. CASE o + k >= SectionSize
      <3>1. SectionOffset(s, o, k) = [section |-> NextSection(s), offset |-> o + k - SectionSize + HeadLen]
        BY <1>2, <1>5, <2>2, Units
      <3>2. o + k - SectionSize + HeadLen \in HeadLen .. SectionSize - 1 BY <1>1, <1>2, <1>3, <1>5, <2>2
      <3>3. ~InF(NextSection(s), o + k - SectionSize + HeadLen)
        <4>1. CASE s = FTail /\ o + k = FLimit /\ (o + k = SectionSize => NextSection(s) \notin Valid)
          <5>1. NextSection(s) \notin Valid BY <1>2, <1>5, <1>7, <1>1, <2>2, <4>1
          <5>q. QED BY <5>1 DEF InF
        <4>2. CASE NextSection(s) = FTail /\ o + k - SectionSize + HeadLen = FLimit
          <5>1. ~(o + k - SectionSize + HeadLen < FLimit) BY <1>7, <4>2
          <5>q. QED BY <4>2, <5>1 DEF InF
        <4>q. QED BY <1>4, <4>1, <4>2 DEF FEnd
      <3>4. NextSection(s) \in Sections BY <1>2, PrevIs
      <3>q. QED BY <3>1, <3>2, <3>3, <3>4
    <2>q. QED BY <1>1, <1>2, <1>5, <2>1, <2>2
  <1>12. FlashUnits(s, o, NodeLen(n)) # Image(n)
    <2> SUFFICES ASSUME FlashUnits(s, o, NodeLen(n)) = Image(n) PROVE FALSE OBVIOUS
    <2>1. FlashUnits(s, o, NodeLen(n)) = [i \in 1 .. NodeLen(n) |-> <<n, i>>] BY DEF Image
    <2>2. NodeLen(n) \in 0 .. Payload BY <1>1, <1>3
    <2>3. \A i \in 0 .. NodeLen(n) - 1 : Fl(SectionOffset(s, o, i).section, SectionOffset(s, o, i).offset) = <<n, i + 1>>
      BY <1>2, <2>1, <2>2, FlashUnitsIs
    <2>4. PICK t, p : /\ SectionOffset(s, o, k) = [section |-> t, offset |-> p] /\ t \in Sections
                      /\ p \in HeadLen .. SectionSize - 1 /\ ~InF(t, p)
      BY <1>11
    <2>5. Fl(t, p) = <<n, k + 1>> BY <1>5, <2>3, <2>4
    <2>6. Fl(t, p) # Erased BY <1>5, <2>5, UnitIs
    <2>q. QED BY <2>4, <2>6, WrittenIs
  <1>13. ASSUME s = FTail PROVE o + NodeLen(n) > FLimit
    BY <1>2, <1>3, <1>4, <1>5, <1>7, <1>13 DEF FEnd
  <1>q. QED BY <1>6, <1>10, <1>12, <1>13

\* What is found begins behind what was found before it ...
LEMMA Apart ==
  ASSUME IInv, LInv, Shape, MetaInPage, RoomToCopy, NEW e \in Found, NEW f \in Found,
         e.section = f.section, e.offset < f.offset
  PROVE  e.offset + NodeLen(e.node) <= f.offset
  <1> DEFINE s == e.section  o == e.offset  n == e.node  p == f.offset
  <1>0. TypeOK /\ CacheAligned BY DEF IInv
  <1>1. /\ n \in Nodes /\ s \in Sections /\ o \in HeadLen .. SectionSize - 1 /\ o \in Nat /\ InF(s, o)
        /\ p \in HeadLen .. SectionSize - 1 /\ p \in Nat /\ InF(s, p) /\ Fl(s, p) = <<f.node, 1>>
        /\ e \in FlashLog \/ Halved(s, o, n)
    BY FoundIs
  <1>2. e = [node |-> n, section |-> s, offset |-> o]
    <2>1. e \in Located BY FoundIs
    <2>q. QED BY <2>1 DEF Located
  <1>3. /\ SectionSize \in Nat \ {0} /\ HeadLen \in Nat \ {0} /\ HeadLen < SectionSize /\ Payload = SectionSize - HeadLen
        /\ NodeLen(n) \in Nat \ {0} /\ NodeLen(n) <= Payload /\ o \in 0 .. SectionSize - 1
    BY <1>1, NodeFits, Geometry DEF Payload
  <1>4. o < p /\ o <= p /\ ~(p < o) BY <1>1
  <1> HIDE DEF s, o, n, p
  <1> SUFFICES ASSUME o + NodeLen(n) > p PROVE FALSE
    BY <1>1, <1>3 DEF s, o, n, p
  <1>5. PICK i \in Nat : i = p - o BY <1>1, <1>4
  <1>6. i \in 0 .. NodeLen(n) - 1 /\ i \in 0 .. Payload /\ o + i = p /\ o + i < SectionSize /\ i # 0 BY <1>1, <1>3, <1>4, <1>5
  <1>7. SectionOffset(s, o, i) = [section |-> s, offset |-> p] BY <1>1, <1>3, <1>6, Units
  <1>8. CASE e \in FlashLog
    <2>1. Whole(s, o, n) BY <1>2, <1>8 DEF Whole
    <2>2. FlHolds(s, o, n, NodeLen(n)) BY <2>1, WholeHolds
    <2>3. Fl(s, p) = <<n, i + 1>> BY <1>6, <1>7, <2>2 DEF FlHolds
    <2>4. 1 = i + 1 BY <1>1, <2>3, UnitIs
    <2>q. QED BY <1>6, <2>4
  <1>9. CASE Halved(s, o, n)
    <2>1. Age(s) \in Nat BY <1>0, <1>1, Ages
    <2>2. PICK j \in 0 .. NodeLen(n) - 1 : SectionOffset(s, o, j) = [section |-> s, offset |-> p] /\ Fl(s, p) = <<n, j + 1>>
      BY <1>1, <1>4, <1>9, <2>1, HalvedIs
    <2>3. 1 = j + 1 BY <1>1, <2>2, UnitIs
    <2>4. j = 0 BY <1>3, <2>2, <2>3
    <2>5. o + 0 < SectionSize /\ 0 \in 0 .. Payload /\ o + 0 = o BY <1>1, <1>3
    <2>6. SectionOffset(s, o, 0) = [section |-> s, offset |-> o + 0] BY <1>1, <1>3, <2>5, Units
    <2>q. QED BY <1>1, <1>4, <2>2, <2>4, <2>5, <2>6
  <1>q. QED BY <1>1, <1>8, <1>9

\* ... and where a node ends no other one is going on.
LEMMA AfterFound ==
  ASSUME IInv, LInv, Shape, MetaInPage, RoomToCopy, NEW e \in Found, e.offset + NodeLen(e.node) < SectionSize
  PROVE  ~FMid(e.section, e.offset + NodeLen(e.node))
  <1> DEFINE s == e.section  o == e.offset  n == e.node
  <1>0. TypeOK /\ CacheAligned BY DEF IInv
  <1>1. /\ n \in Nodes /\ s \in Sections /\ o \in HeadLen .. SectionSize - 1 /\ o \in Nat /\ InF(s, o)
        /\ e \in FlashLog \/ Halved(s, o, n)
    BY FoundIs
  <1>2. e = [node |-> n, section |-> s, offset |-> o]
    <2>1. e \in Located BY FoundIs
    <2>q. QED BY <2>1 DEF Located
  <1>3. /\ SectionSize \in Nat \ {0} /\ HeadLen \in Nat \ {0} /\ HeadLen < SectionSize /\ Payload = SectionSize - HeadLen
        /\ NodeLen(n) \in Nat \ {0} /\ NodeLen(n) <= Payload /\ o \in 0 .. SectionSize - 1
    BY <1>1, NodeFits, Geometry DEF Payload
  <1>4. o + NodeLen(n) < SectionSize OBVIOUS
  <1> HIDE DEF s, o, n
  <1> SUFFICES ASSUME FMid(s, o + NodeLen(n)) PROVE FALSE BY DEF s, o, n
  <1>5a. PICK m \in Nodes : \E j \in 2 .. NodeLen(m) : Fl(s, o + NodeLen(n)) = <<m, j>> BY DEF FMid
  <1>5. PICK j \in 2 .. NodeLen(m) : Fl(s, o + NodeLen(n)) = <<m, j>> BY <1>5a
  <1>6. PICK q : q = o + NodeLen(n) OBVIOUS
  <1>7. q \in HeadLen + 1 .. SectionSize - 1 /\ q \in HeadLen .. SectionSize - 1 /\ q - 1 \in HeadLen .. SectionSize - 1
        /\ q - 1 \in 0 .. SectionSize - 1 /\ q - 1 \in Nat /\ q \in Nat
    BY <1>1, <1>3, <1>4, <1>6
  <1>8. NodeLen(m) \in Nat BY NodeFits
  <1>9. InF(s, q) /\ At(s, q) = <<m, j>> /\ Has(s, q)
    <2>1. FMid(s, q) BY <1>6
    <2>2. InF(s, q) BY <1>1, <1>7, <2>1, FMidIs
    <2>3. Fl(s, q) = At(s, q) BY <1>1, <1>7, <2>2, WrittenIs, FlashIs
    <2>q. QED BY <1>0, <1>5, <1>6, <2>2, <2>3, InFIs
  <1>10. At(s, q - 1) = <<m, j - 1>> BY <1>1, <1>7, <1>9 DEF Shape, Follows
  <1>11. InF(s, q - 1)
    <2>1. FLimit \in Nat BY <1>0, LimitIs
    <2>q. QED BY <1>7, <1>9, <2>1 DEF InF
  <1>12. Fl(s, q - 1) = <<m, j - 1>> BY <1>1, <1>7, <1>10, <1>11, FlashIs
  <1>13. PICK i : i = NodeLen(n) - 1 OBVIOUS
  <1>14. i \in 0 .. NodeLen(n) - 1 /\ i \in 0 .. Payload /\ o + i = q - 1 /\ o + i < SectionSize BY <1>1, <1>3, <1>4, <1>6, <1>13
  <1>15. SectionOffset(s, o, i) = [section |-> s, offset |-> q - 1] BY <1>1, <1>3, <1>14, Units
  <1>16. Fl(s, q - 1) = <<n, i + 1>>
    <2>1. CASE e \in FlashLog
      <3>1. Whole(s, o, n) BY <1>2, <2>1 DEF Whole
      <3>2. FlHolds(s, o, n, NodeLen(n)) BY <3>1, WholeHolds
      <3>q. QED BY <1>14, <1>15, <3>2 DEF FlHolds
    <2>2. CASE Halved(s, o, n)
      <3>1. Age(s) \in Nat BY <1>0, <1>1, Ages
      <3>2. ~(q - 1 < o) BY <1>1, <1>3, <1>6
      <3>3. PICK k \in 0 .. NodeLen(n) - 1 :
              SectionOffset(s, o, k) = [section |-> s, offset |-> q - 1] /\ Fl(s, q - 1) = <<n, k + 1>>
        BY <1>1, <1>11, <2>2, <3>1, <3>2, HalvedIs
      <3>4. k = i
        <4>1. k \in 0 .. Payload /\ k \in Nat BY <1>3
        <4>2. CASE o + k < SectionSize
          <5>1. SectionOffset(s, o, k) = [section |-> s, offset |-> o + k] BY <1>1, <1>3, <4>1, <4>2, Units
          <5>2. o + k = q - 1 BY <3>3, <5>1
          <5>q. QED BY <1>1, <1>14, <4>1, <5>2
        <4>3. CASE o + k >= SectionSize
          <5>1. SectionOffset(s, o, k) = [section |-> NextSection(s), offset |-> o + k - SectionSize + HeadLen]
            BY <1>1, <1>3, <4>1, <4>3, Units
          <5>2. NextSection(s) = s BY <3>3, <5>1
          <5>q. QED BY <1>0, <1>1, <5>2, LogSections
        <4>q. QED BY <1>1, <1>3, <4>1, <4>2, <4>3
      <3>q. QED BY <3>3, <3>4
    <2>q. QED BY <1>1, <2>1, <2>2
  <1>17. m = n /\ j - 1 = i + 1 BY <1>12, <1>16, UnitIs
  <1>q. QED BY <1>3, <1>8, <1>13, <1>17

\* The order of the log, on what is found.
LEMMA FoundOrder ==
  ASSUME IInv, LInv, Shape, MetaInPage, RoomToCopy, NEW e \in Found, NEW f \in Found
  PROVE  /\ ~(Before(e, f) /\ Before(f, e))
         /\ ~Before(e, e)
         /\ e = f \/ Before(e, f) \/ Before(f, e)
         /\ Halved(e.section, e.offset, e.node) /\ f # e => Before(f, e)
  <1>0. TypeOK /\ CacheAligned BY DEF IInv
  <1>1. /\ e.node \in Nodes /\ e.section \in Sections /\ e.offset \in Nat /\ InF(e.section, e.offset)
        /\ f.node \in Nodes /\ f.section \in Sections /\ f.offset \in Nat /\ InF(f.section, f.offset)
        /\ Fl(f.section, f.offset) = <<f.node, 1>>
        /\ e.offset \in HeadLen .. SectionSize - 1
    BY FoundIs
  <1>2. /\ Age(e.section) \in Nat /\ Age(f.section) \in Nat
        /\ Age(e.section) = Age(f.section) => e.section = f.section
    BY <1>0, <1>1, Ages
  <1>3. e.section = f.section /\ e.offset = f.offset => e = f BY FoundPlace
  <1>4. e = f \/ Before(e, f) \/ Before(f, e) BY <1>1, <1>2, <1>3 DEF Before
  <1>5. ASSUME Halved(e.section, e.offset, e.node), f # e PROVE Before(f, e)
    <2>1. \/ Age(f.section) > Age(e.section) \/ (f.section = e.section /\ f.offset < e.offset)
          \/ \E i \in 0 .. NodeLen(e.node) - 1 :
               /\ SectionOffset(e.section, e.offset, i) = [section |-> f.section, offset |-> f.offset]
               /\ Fl(f.section, f.offset) = <<e.node, i + 1>>
      BY <1>1, <1>5, HalvedIs
    <2>2. ASSUME NEW i \in 0 .. NodeLen(e.node) - 1,
                 SectionOffset(e.section, e.offset, i) = [section |-> f.section, offset |-> f.offset],
                 Fl(f.section, f.offset) = <<e.node, i + 1>>
          PROVE  FALSE
      <3>1. 1 = i + 1 BY <1>1, <2>2, UnitIs
      <3>2. NodeLen(e.node) \in Nat BY <1>1, NodeFits
      <3>3. i = 0 BY <3>1, <3>2
      <3>4. SectionSize \in Nat \ {0} /\ HeadLen \in Nat \ {0} /\ Payload \in Nat \ {0} BY Geometry
      <3>5. e.offset + 0 < SectionSize /\ 0 \in 0 .. Payload /\ e.offset + 0 = e.offset /\ e.offset \in 0 .. SectionSize - 1
        BY <1>1, <3>4
      <3>6. SectionOffset(e.section, e.offset, 0) = [section |-> e.section, offset |-> e.offset + 0] BY <1>1, <3>5, Units
      <3>q. QED BY <1>3, <1>5, <2>2, <3>3, <3>5, <3>6
    <2>q. QED BY <2>1, <2>2 DEF Before
  <1>q. QED BY <1>1, <1>2, <1>4, <1>5 DEF Before

\* From n down to 0: each value comes of those above it.
Downward(g, n, V, body) == g \in [0 .. n -> V] /\ \A o \in 0 .. n : g[o] = body[o][g]

\* There is such a function.
LEMMA Down ==
  ASSUME NEW n \in Nat, NEW V, NEW v \in V, NEW body \in [0 .. n -> [[0 .. n -> V] -> V]],
         \A o \in 0 .. n : \A g, h \in [0 .. n -> V] :
            (\A p \in 0 .. n : p > o => g[p] = h[p]) => body[o][g] = body[o][h]
  PROVE  \E g : Downward(g, n, V, body)
  <1> DEFINE Good(k, g) == g \in [0 .. n -> V] /\ \A o \in 0 .. n : o + k > n => g[o] = body[o][g]
             Bad == {k \in 0 .. n + 1 : ~ \E g : Good(k, g)}
  <1>1. Bad = {}
    <2> SUFFICES ASSUME Bad # {} PROVE FALSE OBVIOUS
    <2>1. Bad \in SUBSET Nat OBVIOUS
    <2>2. PICK k \in Bad : \A l \in Bad : k <= l
      <3> HIDE DEF Bad
      <3>q. QED BY <2>1, Least
    <2>3. k \in 0 .. n + 1 /\ ~ \E g : Good(k, g) OBVIOUS
    <2>4. Good(0, [o \in 0 .. n |-> v]) OBVIOUS
    <2>5. k # 0
      <3> HIDE DEF Good, Bad
      <3>q. QED BY <2>3, <2>4
    <2>6. k - 1 \in 0 .. n + 1 /\ k - 1 < k /\ k \in 1 .. n + 1 BY <2>3, <2>5
    <2>7. PICK g : Good(k - 1, g)
      <3>1. k - 1 \notin Bad
        <4> HIDE DEF Bad
        <4>q. QED BY <2>1, <2>2, <2>6
      <3> HIDE DEF Good
      <3>q. QED BY <2>6, <3>1
    <2>8. PICK m \in 0 .. n : m = n + 1 - k BY <2>6
    <2>9. body[m][g] \in V
      <3>1. g \in [0 .. n -> V] BY <2>7
      <3>q. QED BY <3>1
    <2> DEFINE h == [g EXCEPT ![m] = body[m][g]]
    <2>10. h \in [0 .. n -> V] /\ h[m] = body[m][g] /\ \A o \in 0 .. n : o # m => h[o] = g[o]
      <3>1. g \in [0 .. n -> V] BY <2>7
      <3>q. QED BY <2>9, <3>1
    <2> HIDE DEF h
    <2>11. ASSUME NEW o \in 0 .. n, o + k > n PROVE h[o] = body[o][h]
      <3>1. o >= m BY <2>6, <2>8, <2>11
      <3>2. g \in [0 .. n -> V] BY <2>7
      <3>3. \A p \in 0 .. n : p > o => g[p] = h[p] BY <2>10, <3>1
      <3>4. body[o][g] = body[o][h] BY <2>10, <3>2, <3>3
      <3>5. CASE o = m BY <2>10, <3>4, <3>5
      <3>6. CASE o # m
        <4>1. o + (k - 1) > n BY <2>6, <2>8, <3>1, <3>6
        <4>2. g[o] = body[o][g] BY <2>7, <4>1
        <4>q. QED BY <2>10, <3>4, <3>6, <4>2
      <3>q. QED BY <3>5, <3>6
    <2>12. Good(k, h) BY <2>10, <2>11
    <2> HIDE DEF Good, Bad
    <2>q. QED BY <2>3, <2>12
  <1>2. PICK g : Good(n + 1, g)
    <2>1. n + 1 \in 0 .. n + 1 OBVIOUS
    <2>2. n + 1 \notin Bad
      <3> HIDE DEF Bad
      <3>q. QED BY <1>1
    <2> HIDE DEF Good
    <2>q. QED BY <2>1, <2>2
  <1>3. Downward(g, n, V, body) BY <1>2 DEF Downward
  <1>q. QED BY <1>3

\* nodes_info_load's walk, step by step.
LEMMA WalkIs ==
  ASSUME IInv, LInv, Shape, MetaInPage, RoomToCopy, NEW s \in Sections, NEW o \in 0 .. 3 * SectionSize
  PROVE  /\ Walk(s, o) \in [nodes : Seq(Located), end : Nat]
         /\ o < HeadLen \/ o >= SectionSize => Walk(s, o) = [nodes |-> << >>, end |-> o]
         /\ HeadLen <= o /\ o < SectionSize /\ MetadataAt(s, o) =>
              /\ Walk(s, o).nodes = <<[node |-> NodeAt(s, o), section |-> s, offset |-> o]>>
                                      \o Walk(s, o + NodeLen(NodeAt(s, o))).nodes
              /\ Walk(s, o).end = Walk(s, o + NodeLen(NodeAt(s, o))).end
         /\ HeadLen <= o /\ o < SectionSize /\ ~MetadataAt(s, o) /\ o % PageSize = 0 /\ PageEmpty(s, o) =>
              Walk(s, o) = [nodes |-> << >>, end |-> o]
         /\ HeadLen <= o /\ o < SectionSize /\ ~MetadataAt(s, o) /\ ~(o % PageSize = 0 /\ PageEmpty(s, o)) =>
              Walk(s, o) = Walk(s, NextPage(o))
  <1> DEFINE n == 3 * SectionSize
             V == [nodes : Seq(Located), end : Nat]
             E(p) == [node |-> NodeAt(s, p), section |-> s, offset |-> p]
             B(p, c) ==
               IF p < HeadLen \/ p >= SectionSize THEN [nodes |-> << >>, end |-> p]
               ELSE IF MetadataAt(s, p)
               THEN [c[p + NodeLen(NodeAt(s, p))] EXCEPT !.nodes = <<E(p)>> \o @]
               ELSE IF p % PageSize = 0 /\ PageEmpty(s, p) THEN [nodes |-> << >>, end |-> p]
               ELSE c[(p \div PageSize) * PageSize + PageSize]
             F(c) == [p \in 0 .. n |-> B(p, c)]
             walk == CHOOSE c : c = F(c)
             body == [p \in 0 .. n |-> [c \in [0 .. n -> V] |-> B(p, c)]]
  <1>1. /\ SectionSize \in Nat \ {0} /\ HeadLen \in Nat \ {0} /\ HeadLen < SectionSize /\ n \in Nat
        /\ n = SectionSize + SectionSize + SectionSize /\ Payload < SectionSize /\ Payload \in Nat
    BY Geometry DEF Payload
  <1>2. ASSUME NEW p \in 0 .. n, HeadLen <= p, p < SectionSize
        PROVE  /\ p \in HeadLen .. SectionSize - 1 /\ p \in Nat
               /\ NextPage(p) \in 0 .. n /\ p < NextPage(p)
               /\ MetadataAt(s, p) => /\ p + NodeLen(NodeAt(s, p)) \in 0 .. n /\ p < p + NodeLen(NodeAt(s, p))
                                      /\ E(p) \in Located
    <2>1. p \in HeadLen .. SectionSize - 1 /\ p \in 0 .. SectionSize - 1 /\ p \in Nat BY <1>1, <1>2
    <2>2. NextPage(p) \in Nat /\ p < NextPage(p) /\ NextPage(p) <= SectionSize BY <2>1, NextPageIs, PageInSection
    <2>3. ASSUME MetadataAt(s, p)
          PROVE  p + NodeLen(NodeAt(s, p)) \in 0 .. n /\ p < p + NodeLen(NodeAt(s, p)) /\ E(p) \in Located
      <3>1. NodeAt(s, p) \in Nodes BY <2>1, <2>3, MetadataIs
      <3>2. NodeLen(NodeAt(s, p)) \in Nat \ {0} /\ NodeLen(NodeAt(s, p)) <= Payload BY <3>1, NodeFits
      <3>3. E(p) \in Located BY <2>1, <3>1 DEF Located
      <3> HIDE DEF n, E
      <3>q. QED BY <1>1, <1>2, <2>1, <3>2, <3>3
    <2> HIDE DEF n, E
    <2>q. QED BY <1>1, <2>1, <2>2, <2>3
  <1>3. ASSUME NEW p \in 0 .. n, NEW c \in [0 .. n -> V] PROVE B(p, c) \in V
    <2>1. << >> \in Seq(Located) /\ p \in Nat BY <1>1
    <2>2. CASE p < HeadLen \/ p >= SectionSize BY <2>1, <2>2
    <2>3. CASE HeadLen <= p /\ p < SectionSize /\ MetadataAt(s, p)
      <3>1. c[p + NodeLen(NodeAt(s, p))] \in V /\ E(p) \in Located BY <1>2, <2>3
      <3>2. PICK r \in V : r = c[p + NodeLen(NodeAt(s, p))] BY <3>1
      <3>3. <<E(p)>> \o r.nodes \in Seq(Located)
        <4>1. r.nodes \in Seq(Located) BY <3>2
        <4> HIDE DEF E
        <4>q. QED BY <3>1, <4>1
      <3>4. [r EXCEPT !.nodes = <<E(p)>> \o @] \in V
        <4> HIDE DEF E
        <4>q. QED BY <3>2, <3>3
      <3>5. B(p, c) = [r EXCEPT !.nodes = <<E(p)>> \o @]
        <4>1. ~(p < HeadLen \/ p >= SectionSize) BY <1>1, <2>3
        <4> HIDE DEF E
        <4>q. QED BY <2>3, <3>2, <4>1
      <3>q. QED BY <3>4, <3>5
    <2>4. CASE HeadLen <= p /\ p < SectionSize /\ ~MetadataAt(s, p) /\ p % PageSize = 0 /\ PageEmpty(s, p)
      <3>1. ~(p < HeadLen \/ p >= SectionSize) BY <1>1, <2>4
      <3>q. QED BY <2>1, <2>4, <3>1
    <2>5. CASE HeadLen <= p /\ p < SectionSize /\ ~MetadataAt(s, p) /\ ~(p % PageSize = 0 /\ PageEmpty(s, p))
      <3>1. c[NextPage(p)] \in V BY <1>2, <2>5
      <3>2. ~(p < HeadLen \/ p >= SectionSize) BY <1>1, <2>5
      <3>3. B(p, c) = c[NextPage(p)] BY <2>5, <3>2 DEF NextPage
      <3>q. QED BY <3>1, <3>3
    <2>q. QED BY <1>1, <2>2, <2>3, <2>4, <2>5
  <1>4. ASSUME NEW p \in 0 .. n, NEW g \in [0 .. n -> V], NEW h \in [0 .. n -> V],
               \A q \in 0 .. n : q > p => g[q] = h[q]
        PROVE  B(p, g) = B(p, h)
    <2>1. CASE p < HeadLen \/ p >= SectionSize BY <2>1
    <2>2. CASE HeadLen <= p /\ p < SectionSize
      <3>1. g[NextPage(p)] = h[NextPage(p)] BY <1>2, <1>4, <2>2
      <3>2. MetadataAt(s, p) => g[p + NodeLen(NodeAt(s, p))] = h[p + NodeLen(NodeAt(s, p))] BY <1>2, <1>4, <2>2
      <3> HIDE DEF E
      <3>q. QED BY <3>1, <3>2 DEF NextPage
    <2>q. QED BY <1>1, <2>1, <2>2
  <1>5. \E c : c = F(c)
    <2>1. body \in [0 .. n -> [[0 .. n -> V] -> V]]
      <3> HIDE DEF B, V, n
      <3>q. QED BY <1>3
    <2>2. \A p \in 0 .. n, c \in [0 .. n -> V] : body[p][c] = B(p, c)
      <3> HIDE DEF B, V, n
      <3>q. QED OBVIOUS
    <2>3. [nodes |-> << >>, end |-> 0] \in V OBVIOUS
    <2> HIDE DEF body, B, V, n
    <2>4. \A p \in 0 .. n : \A g, h \in [0 .. n -> V] :
            (\A q \in 0 .. n : q > p => g[q] = h[q]) => body[p][g] = body[p][h]
      <3>1. ASSUME NEW p \in 0 .. n, NEW g \in [0 .. n -> V], NEW h \in [0 .. n -> V],
                   \A q \in 0 .. n : q > p => g[q] = h[q]
            PROVE  body[p][g] = body[p][h]
        <4>1. B(p, g) = B(p, h) BY <1>4, <3>1
        <4>q. QED BY <2>2, <4>1
      <3>q. QED BY <3>1
    <2>5. PICK g : Downward(g, n, V, body)
      <3>1. n \in Nat BY <1>1
      <3>q. QED BY <2>1, <2>3, <2>4, <3>1, Down
    <2>6. g \in [0 .. n -> V] /\ \A p \in 0 .. n : g[p] = body[p][g] BY <2>5 DEF Downward
    <2>7. \A p \in 0 .. n : g[p] = B(p, g) BY <2>2, <2>6
    <2>8. g = F(g) BY <2>6, <2>7
    <2> HIDE DEF F
    <2>q. QED BY <2>8
  <1>6. walk = F(walk)
    <2> HIDE DEF F
    <2>q. QED BY <1>5
  <1>7. \A p : Walk(s, p) = walk[p] BY DEF Walk
  <1> HIDE DEF walk
  <1>8. \A p \in 0 .. n : walk[p] = B(p, walk)
    <2> HIDE DEF B, n
    <2>1. \A p \in 0 .. n : F(walk)[p] = B(p, walk) OBVIOUS
    <2> HIDE DEF F
    <2>q. QED BY <1>6, <2>1
  <1>9. \A p \in 0 .. n : walk[p] \in V
    <2> DEFINE Bad == {k \in 0 .. n : walk[n - k] \notin V}
    <2>1. Bad = {}
      <3> SUFFICES ASSUME Bad # {} PROVE FALSE OBVIOUS
      <3>1. Bad \in SUBSET Nat OBVIOUS
      <3>2. PICK k \in Bad : \A l \in Bad : k <= l
        <4> HIDE DEF Bad
        <4>q. QED BY <3>1, Least
      <3>2a. k \in 0 .. n OBVIOUS
      <3>3. PICK p \in 0 .. n : p = n - k
        <4>1. n - k \in 0 .. n
          <5> HIDE DEF n, Bad
          <5>q. QED BY <1>1, <3>2a
        <4>q. QED BY <4>1
      <3>4. \A q \in 0 .. n : q > p => walk[q] \in V
        <4>1. ASSUME NEW q \in 0 .. n, q > p PROVE walk[q] \in V
          <5>1. n - q \in 0 .. n /\ n - q < k /\ n - (n - q) = q
            <6> HIDE DEF V
            <6>q. QED BY <1>1, <3>3, <4>1
          <5>2. n - q \notin Bad
            <6> HIDE DEF Bad
            <6>q. QED BY <3>1, <3>2, <5>1
          <5>q. QED BY <5>1, <5>2
        <4>q. QED BY <4>1
      <3> DEFINE c == [q \in 0 .. n |-> IF q > p THEN walk[q] ELSE [nodes |-> << >>, end |-> 0]]
      <3>5. c \in [0 .. n -> V]
        <4>1. [nodes |-> << >>, end |-> 0] \in V OBVIOUS
        <4> HIDE DEF V, n
        <4>q. QED BY <3>4, <4>1
      <3>6. \A q \in 0 .. n : q > p => c[q] = walk[q] OBVIOUS
      <3> HIDE DEF c
      <3>7. B(p, c) = B(p, walk)
        <4>1. CASE p < HeadLen \/ p >= SectionSize BY <4>1
        <4>2. CASE HeadLen <= p /\ p < SectionSize
          <5>1. c[NextPage(p)] = walk[NextPage(p)] BY <1>2, <3>6, <4>2
          <5>2. MetadataAt(s, p) => c[p + NodeLen(NodeAt(s, p))] = walk[p + NodeLen(NodeAt(s, p))] BY <1>2, <3>6, <4>2
          <5> HIDE DEF E
          <5>q. QED BY <5>1, <5>2 DEF NextPage
        <4>q. QED BY <1>1, <4>1, <4>2
      <3>8. walk[p] \in V
        <4> HIDE DEF B, V, n
        <4>q. QED BY <1>3, <1>8, <3>5, <3>7
      <3>q. QED BY <3>2, <3>3, <3>8
    <2>2. ASSUME NEW p \in 0 .. n PROVE walk[p] \in V
      <3>1. n - p \in 0 .. n /\ n - (n - p) = p BY <1>1
      <3>2. n - p \notin Bad
        <4> HIDE DEF Bad
        <4>q. QED BY <2>1
      <3> HIDE DEF V, n
      <3>q. QED BY <3>1, <3>2
    <2>q. QED BY <2>2
  <1>10. walk[o] = B(o, walk) /\ walk[o] \in V BY <1>8, <1>9
  <1>11. o < HeadLen \/ o >= SectionSize => walk[o] = [nodes |-> << >>, end |-> o] BY <1>10
  <1>12. ASSUME HeadLen <= o, o < SectionSize PROVE ~(o < HeadLen \/ o >= SectionSize) BY <1>1, <1>12
  <1>13. ASSUME HeadLen <= o, o < SectionSize, MetadataAt(s, o)
         PROVE  /\ walk[o].nodes = <<E(o)>> \o walk[o + NodeLen(NodeAt(s, o))].nodes
                /\ walk[o].end = walk[o + NodeLen(NodeAt(s, o))].end
    <2>1. walk[o + NodeLen(NodeAt(s, o))] \in V
      <3>1. o \in 0 .. n OBVIOUS
      <3> HIDE DEF V, n
      <3>2. o + NodeLen(NodeAt(s, o)) \in 0 .. n BY <1>2, <1>13, <3>1
      <3>q. QED BY <1>9, <3>2
    <2>2. PICK r \in V : r = walk[o + NodeLen(NodeAt(s, o))] BY <2>1
    <2> HIDE DEF E
    <2>3. walk[o] = [r EXCEPT !.nodes = <<E(o)>> \o @] BY <1>10, <1>12, <1>13, <2>2
    <2>q. QED BY <2>2, <2>3
  <1>14. ASSUME HeadLen <= o, o < SectionSize, ~MetadataAt(s, o), o % PageSize = 0, PageEmpty(s, o)
         PROVE  walk[o] = [nodes |-> << >>, end |-> o]
    BY <1>10, <1>12, <1>14
  <1>15. ASSUME HeadLen <= o, o < SectionSize, ~MetadataAt(s, o), ~(o % PageSize = 0 /\ PageEmpty(s, o))
         PROVE  walk[o] = walk[NextPage(o)]
    BY <1>10, <1>12, <1>15 DEF NextPage
  <1>16. walk[o] \in [nodes : Seq(Located), end : Nat] BY <1>10
  <1> HIDE DEF V, n, B, F
  <1>q. QED BY <1>7, <1>11, <1>13, <1>14, <1>15, <1>16

\* The order of the log, as a set of pairs.
Earlier == {p \in Found \X Found : Before(p[1], p[2])}

\* The walk over a section, from an offset on, finds the nodes there in their order;
\* in the last section it stops at the end of what flash holds.
Finds(s, o) ==
  /\ Elements(Walk(s, o).nodes) = {e \in Found : e.section = s /\ e.offset >= o}
  /\ Sorted(Walk(s, o).nodes, Earlier)
  /\ s = FTail /\ o <= FLimit /\ Found \subseteq FlashLog => Walk(s, o).end = FLimit

\* Sequences of no element and of one.
LEMMA ShortElements ==
  /\ Elements(<< >>) = {} /\ \A lt : Sorted(<< >>, lt)
  /\ \A x : Elements(<<x>>) = {x} /\ \A lt : Sorted(<<x>>, lt)
  <1>1. Len(<< >>) = 0 /\ \A x : Len(<<x>>) = 1 /\ <<x>>[1] = x OBVIOUS
  <1>q. QED BY <1>1 DEF Elements, Sorted

\* Where padding begins, or the rest of a node that was cut, the walk goes on with the
\* next page and misses nothing.
LEMMA NothingBetween ==
  ASSUME IInv, LInv, Shape, MetaInPage, RoomToCopy, NEW s \in Valid, NEW o \in HeadLen .. SectionSize - 1,
         ~FMid(s, o), ~MetadataAt(s, o), InF(s, o)
  PROVE  /\ NextPage(o) < SectionSize => ~FMid(s, NextPage(o))
         /\ \A e \in Found : e.section = s /\ e.offset >= o => e.offset >= NextPage(o)
         /\ s = FTail => NextPage(o) <= FLimit
  <1>0. TypeOK /\ CacheAligned BY DEF IInv
  <1>1. /\ SectionSize \in Nat \ {0} /\ HeadLen \in Nat \ {0} /\ HeadLen < SectionSize
        /\ PageSize \in Nat \ {0} /\ SectionSize % PageSize = 0 /\ AddLen \in Nat /\ AddLen <= PageSize
    <2>1. HeadLen + AddLen - 1 <= PageSize BY DEF MetaInPage
    <2>q. QED BY <2>1, Geometry, LengthAssumption
  <1>2. s \in Sections /\ o \in Nat /\ o \in 0 .. SectionSize - 1 /\ HeadLen <= o /\ o < SectionSize
        /\ Has(s, o) /\ Fl(s, o) = At(s, o)
    <2>1. s \in Sections /\ o \in 0 .. SectionSize - 1 BY <1>1 DEF Valid
    <2>q. QED BY <1>0, <1>1, <2>1, InFIs, FlashIs
  <1>3. /\ NextPage(o) \in Nat /\ o < NextPage(o) /\ NextPage(o) <= o + PageSize /\ NextPage(o) <= SectionSize
        /\ NextPage(o) % PageSize = 0
        /\ \A q \in Nat : o < q /\ q % PageSize = 0 => NextPage(o) <= q
        /\ \A q \in Nat : o <= q /\ q < NextPage(o) => NextPage(q) = NextPage(o)
    BY <1>2, NextPageIs, PageInSection
  <1>4. FLimit \in Nat /\ FLimit % PageSize = 0 /\ FLimit <= SectionSize BY <1>0, LimitIs
  <1>5. s = FTail => NextPage(o) <= FLimit
    <2>1. s = FTail => o < FLimit BY DEF InF
    <2>q. QED BY <1>2, <1>3, <1>4, <2>1
  <1>6. \A e \in Found : e.section = s => e.offset \in Nat /\ Fl(s, e.offset) = <<e.node, 1>> /\ e.node \in Nodes
    BY FoundIs
  <1>7. \A e \in Found : ~(e.section = s /\ e.offset = o)
    <2>1. ASSUME NEW e \in Found, e.section = s, e.offset = o PROVE FALSE
      <3>1. MetadataAt(e.section, e.offset) BY DEF Found
      <3>q. QED BY <2>1, <3>1
    <2>q. QED BY <2>1
  <1>8. CASE Fl(s, o) = Erased
    <2>1. \A q \in o .. NextPage(o) - 1 : Has(s, q) /\ At(s, q) = Erased BY <1>2, <1>8 DEF Shape, Padded
    <2>2. ASSUME NEW q \in o .. NextPage(o) - 1 PROVE Fl(s, q) = Erased
      <3>1. q \in HeadLen .. SectionSize - 1 /\ q \in 0 .. SectionSize - 1 /\ q >= HeadLen BY <1>1, <1>2, <1>3
      <3>2. InF(s, q) => Fl(s, q) = At(s, q) BY <1>2, <3>1, FlashIs
      <3>3. ~InF(s, q) => Fl(s, q) = Erased BY <1>2, <3>1, FlashIs
      <3>q. QED BY <2>1, <3>2, <3>3
    <2>3. ASSUME NEW e \in Found, e.section = s, e.offset >= o PROVE e.offset >= NextPage(o)
      <3>1. ASSUME e.offset < NextPage(o) PROVE FALSE
        <4>1. e.offset \in o .. NextPage(o) - 1 BY <1>2, <1>3, <1>6, <2>3, <3>1
        <4>2. <<e.node, 1>> = Erased BY <1>6, <2>2, <2>3, <4>1
        <4>q. QED BY <4>2, UnitIs
      <3>2. e.offset \in Nat BY <1>6, <2>3
      <3>q. QED BY <1>3, <3>1, <3>2
    <2>4. ASSUME NextPage(o) < SectionSize, FMid(s, NextPage(o)) PROVE FALSE
      <3>1. PICK q \in Nat : q = NextPage(o) BY <1>3
      <3>2. q \in HeadLen + 1 .. SectionSize - 1 /\ q \in HeadLen .. SectionSize - 1 /\ q - 1 \in o .. NextPage(o) - 1
        BY <1>1, <1>2, <1>3, <2>4, <3>1
      <3>3. InF(s, q) /\ Mid(s, q) BY <1>2, <2>4, <3>1, <3>2, FMidIs
      <3>4. Has(s, q) BY <1>0, <3>3, InFIs
      <3>5. PICK m \in Nodes : \E j \in 2 .. NodeLen(m) : At(s, q) = <<m, j>> BY <3>3 DEF Mid
      <3>6. PICK j \in 2 .. NodeLen(m) : At(s, q) = <<m, j>> BY <3>5
      <3>7. At(s, q - 1) = <<m, j - 1>> BY <1>2, <3>2, <3>4, <3>6 DEF Shape, Follows
      <3>8. NodeLen(m) \in Nat BY NodeFits
      <3>9. j - 1 # 0 BY <3>6, <3>8
      <3>10. <<m, j - 1>> # Erased BY <3>9, UnitIs
      <3>11. At(s, q - 1) = Erased BY <2>1, <3>2
      <3>q. QED BY <3>7, <3>10, <3>11
    <2>q. QED BY <1>5, <2>3, <2>4
  <1>9. CASE Fl(s, o) # Erased
    <2>1. PICK n \in Nodes : \E i \in 1 .. NodeLen(n) : At(s, o) = <<n, i>> BY <1>2, <1>9 DEF Shape, Kinds
    <2>2. PICK i \in 1 .. NodeLen(n) : At(s, o) = <<n, i>> BY <2>1
    <2>3. NodeLen(n) \in Nat BY NodeFits
    <2>4. i = 1
      <3>1. ASSUME i # 1 PROVE FALSE
        <4>1. i \in 2 .. NodeLen(n) BY <2>2, <2>3, <3>1
        <4>q. QED BY <1>2, <2>2, <4>1 DEF FMid
      <3>q. QED BY <3>1
    <2>5. Fl(s, o) = <<n, 1>> BY <1>2, <2>2, <2>4
    <2>6. Whole(s, o, n) \/ CutShort(s, o, n) \/ Halved(s, o, n) BY <2>5, FlashBegins
    <2>7. CutShort(s, o, n) BY <1>2, <2>6, MetadataIs
    <2>8. PICK k \in 1 .. MetaLen(n) - 1 :
            /\ o + k <= SectionSize /\ (o + k) % PageSize = 0
            /\ \A j \in 0 .. k - 1 : Fl(s, o + j) = <<n, j + 1>>
            /\ o + k < SectionSize => ~FMid(s, o + k)
      BY <2>7 DEF CutShort
    <2>9. MetaLen(n) \in 1 .. AddLen BY NodeKinds
    <2>10. k \in Nat \ {0} /\ k < PageSize BY <1>1, <2>8, <2>9
    <2>11. o + k = NextPage(o)
      <3>1. NextPage(o) <= o + k BY <1>2, <1>3, <2>8, <2>10
      <3>2. ASSUME NextPage(o) < o + k PROVE FALSE
        <4>1. NextPage(NextPage(o)) <= o + k BY <1>2, <1>3, <2>8, <2>10, <3>2, NextPageIs
        <4>2. NextPage(NextPage(o)) = NextPage(o) + PageSize BY <1>3, NextPageIs
        <4>q. QED BY <1>1, <1>2, <1>3, <2>10, <4>1, <4>2
      <3>q. QED BY <1>2, <1>3, <2>10, <3>1, <3>2
    <2>12. ASSUME NEW e \in Found, e.section = s, e.offset >= o PROVE e.offset >= NextPage(o)
      <3>1. ASSUME e.offset < NextPage(o) PROVE FALSE
        <4>1. e.offset \in Nat /\ e.offset # o BY <1>6, <1>7, <2>12
        <4>2. PICK j \in Nat : j = e.offset - o BY <1>2, <2>12, <4>1
        <4>3. j \in 0 .. k - 1 /\ o + j = e.offset /\ j # 0 BY <1>2, <2>10, <2>11, <3>1, <4>1, <4>2
        <4>4. <<e.node, 1>> = <<n, j + 1>> BY <1>6, <2>8, <2>12, <4>3
        <4>5. 1 = j + 1 BY <4>4, UnitIs
        <4>q. QED BY <4>3, <4>5
      <3>2. e.offset \in Nat BY <1>6, <2>12
      <3>q. QED BY <1>3, <3>1, <3>2
    <2>q. QED BY <1>5, <2>8, <2>11, <2>12
  <1>q. QED BY <1>8, <1>9

\* One step of the walk.
LEMMA WalkStep ==
  ASSUME IInv, LInv, Shape, MetaInPage, RoomToCopy, NEW s \in Valid, NEW o \in HeadLen .. 3 * SectionSize,
         o < SectionSize => ~FMid(s, o),
         \A q \in HeadLen .. 3 * SectionSize : q > o /\ (q < SectionSize => ~FMid(s, q)) => Finds(s, q)
  PROVE  Finds(s, o)
  <1>0. TypeOK /\ CacheAligned BY DEF IInv
  <1>1. /\ SectionSize \in Nat \ {0} /\ HeadLen \in Nat \ {0} /\ HeadLen < SectionSize
        /\ PageSize \in Nat \ {0} /\ SectionSize % PageSize = 0 /\ Payload < SectionSize /\ Payload \in Nat
        /\ 3 * SectionSize = SectionSize + SectionSize + SectionSize
    BY Geometry DEF Payload
  <1>2. s \in Sections BY DEF Valid
  <1>3. o \in 0 .. 3 * SectionSize /\ o \in Nat /\ o >= HeadLen BY <1>1
  <1>4. FLimit \in Nat /\ FLimit % PageSize = 0 /\ FLimit <= SectionSize BY <1>0, LimitIs
  <1>5. \A e \in Found : e.offset \in HeadLen .. SectionSize - 1 /\ e.offset \in Nat /\ InF(e.section, e.offset) BY FoundIs
  <1>6. CASE o >= SectionSize
    <2>1. Walk(s, o) = [nodes |-> << >>, end |-> o] BY <1>2, <1>3, <1>6, WalkIs
    <2>2. {e \in Found : e.section = s /\ e.offset >= o} = {} BY <1>1, <1>3, <1>5, <1>6
    <2>3. o <= FLimit => o = FLimit BY <1>1, <1>3, <1>4, <1>6
    <2>q. QED BY <2>1, <2>2, <2>3, ShortElements DEF Finds
  <1>7. CASE o < SectionSize /\ MetadataAt(s, o)
    <2>1. o \in HeadLen .. SectionSize - 1 BY <1>1, <1>3, <1>7
    <2>2. PICK n : n = NodeAt(s, o) OBVIOUS
    <2>3. n \in Nodes /\ InF(s, o) BY <1>2, <1>7, <2>1, <2>2, MetadataIs
    <2>4. NodeLen(n) \in Nat \ {0} /\ NodeLen(n) <= Payload BY <2>3, NodeFits
    <2>5. PICK e : e = [node |-> n, section |-> s, offset |-> o] OBVIOUS
    <2>6. e \in Found /\ e \in Located /\ e.node = n /\ e.section = s /\ e.offset = o
      <3>1. e \in Located BY <1>1, <1>2, <2>1, <2>3, <2>5 DEF Located
      <3>q. QED BY <1>3, <1>7, <2>2, <2>5, <3>1 DEF Found
    <2>7. PICK q : q = o + NodeLen(n) OBVIOUS
    <2>8. q \in HeadLen .. 3 * SectionSize /\ q > o /\ q \in 0 .. 3 * SectionSize /\ q \in Nat BY <1>1, <1>3, <1>7, <2>4, <2>7
    <2>9. q < SectionSize => ~FMid(s, q) BY <2>6, <2>7, AfterFound
    <2>10. Finds(s, q) BY <2>8, <2>9
    <2>11. Walk(s, o).nodes = <<e>> \o Walk(s, q).nodes /\ Walk(s, o).end = Walk(s, q).end
      BY <1>2, <1>3, <1>7, <2>2, <2>5, <2>7, WalkIs
    <2>12. Walk(s, q).nodes \in Seq(Located) BY <1>2, <2>8, WalkIs
    <2>13. <<e>> \in Seq(Located) BY <2>6
    <2>14. \A f \in Found : f.section = s /\ f.offset >= o <=> f = e \/ (f.section = s /\ f.offset >= q)
      <3>1. ASSUME NEW f \in Found, f.section = s, f.offset >= o, f # e PROVE f.offset >= q
        <4>1. f.offset # o BY <2>6, <3>1, FoundPlace
        <4>2. o < f.offset BY <1>3, <1>5, <3>1, <4>1
        <4>q. QED BY <2>6, <2>7, <3>1, <4>2, Apart
      <3>2. ASSUME NEW f \in Found, f.offset >= q PROVE f.offset >= o
        <4>1. f.offset \in Nat BY <1>5
        <4>q. QED BY <1>3, <2>8, <3>2, <4>1
      <3>3. o >= o BY <1>3
      <3>q. QED BY <2>6, <3>1, <3>2, <3>3
    <2>15. Elements(Walk(s, o).nodes) = {f \in Found : f.section = s /\ f.offset >= o}
      <3>1. Elements(<<e>> \o Walk(s, q).nodes) = Elements(<<e>>) \cup Elements(Walk(s, q).nodes)
        BY <2>12, <2>13, ConcatElements
      <3>2. Elements(<<e>>) = {e} BY ShortElements
      <3>3. Elements(Walk(s, q).nodes) = {f \in Found : f.section = s /\ f.offset >= q} BY <2>10 DEF Finds
      <3>q. QED BY <2>6, <2>11, <2>14, <3>1, <3>2, <3>3
    <2>16. Sorted(Walk(s, o).nodes, Earlier)
      <3>1. Sorted(<<e>>, Earlier) /\ Elements(<<e>>) = {e} BY ShortElements
      <3>2. Sorted(Walk(s, q).nodes, Earlier) BY <2>10 DEF Finds
      <3>3. ASSUME NEW x \in Elements(<<e>>), NEW y \in Elements(Walk(s, q).nodes) PROVE <<x, y>> \in Earlier
        <4>1. x = e BY <3>1
        <4>2. y \in Found /\ y.section = s /\ y.offset >= q BY <2>10 DEF Finds
        <4>3. o < y.offset BY <1>3, <1>5, <2>8, <4>2
        <4>4. Before(e, y) BY <2>6, <4>2, <4>3 DEF Before
        <4>q. QED BY <2>6, <4>1, <4>2, <4>4 DEF Earlier
      <3>4. Sorted(<<e>> \o Walk(s, q).nodes, Earlier) BY <2>12, <2>13, <3>1, <3>2, <3>3, ConcatElements
      <3>q. QED BY <2>11, <3>4
    <2>17. ASSUME s = FTail, o <= FLimit, Found \subseteq FlashLog PROVE Walk(s, o).end = FLimit
      <3>1. Whole(s, o, n) BY <2>5, <2>6, <2>17 DEF Whole
      <3>2. q <= FLimit BY <2>7, <2>17, <3>1, WholeHolds
      <3>q. QED BY <2>10, <2>11, <2>17, <3>2 DEF Finds
    <2>q. QED BY <2>15, <2>16, <2>17 DEF Finds
  <1>8. CASE o < SectionSize /\ ~MetadataAt(s, o) /\ o % PageSize = 0 /\ PageEmpty(s, o)
    <2>1. Walk(s, o) = [nodes |-> << >>, end |-> o] BY <1>2, <1>3, <1>8, WalkIs
    <2>2. o \in HeadLen .. SectionSize - 1 /\ o \in 0 .. SectionSize - 1 BY <1>1, <1>3, <1>8
    <2>3. Fl(s, o) = Erased
      <3>1. 0 \in 0 .. PageSize - 1 /\ o + 0 = o BY <1>1, <1>3
      <3>q. QED BY <1>8, <3>1 DEF PageEmpty, Fl
    <2>4. ~InF(s, o)
      <3>1. ASSUME InF(s, o) PROVE FALSE
        <4>1. Has(s, o) /\ At(s, o) = Erased BY <1>0, <1>2, <2>2, <2>3, <3>1, InFIs, FlashIs
        <4>q. QED BY <1>2, <1>8, <2>2, <4>1 DEF Shape, PagesUsed
      <3>q. QED BY <3>1
    <2>5. s = FTail /\ o >= FLimit BY <1>3, <1>4, <2>2, <2>4 DEF InF
    <2>6. {e \in Found : e.section = s /\ e.offset >= o} = {}
      <3>1. ASSUME NEW e \in Found, e.section = s, e.offset >= o PROVE FALSE
        <4>1. e.offset \in Nat /\ InF(s, e.offset) BY <1>5, <3>1
        <4>2. e.offset < FLimit BY <2>5, <4>1 DEF InF
        <4>q. QED BY <1>3, <1>4, <2>5, <3>1, <4>1, <4>2
      <3>q. QED BY <3>1
    <2>7. o <= FLimit => o = FLimit BY <1>3, <1>4, <2>5
    <2>q. QED BY <2>1, <2>6, <2>7, ShortElements DEF Finds
  <1>9. CASE o < SectionSize /\ ~MetadataAt(s, o) /\ ~(o % PageSize = 0 /\ PageEmpty(s, o))
    <2>1. Walk(s, o) = Walk(s, NextPage(o)) BY <1>2, <1>3, <1>9, WalkIs
    <2>2. o \in HeadLen .. SectionSize - 1 /\ o \in 0 .. SectionSize - 1 BY <1>1, <1>3, <1>9
    <2>3. NextPage(o) \in Nat /\ o < NextPage(o) /\ NextPage(o) <= SectionSize BY <1>3, <2>2, NextPageIs, PageInSection
    <2>4. NextPage(o) \in HeadLen .. 3 * SectionSize /\ NextPage(o) > o BY <1>1, <1>3, <2>3
    <2>5. CASE InF(s, o)
      <3>1. /\ NextPage(o) < SectionSize => ~FMid(s, NextPage(o))
            /\ \A e \in Found : e.section = s /\ e.offset >= o => e.offset >= NextPage(o)
            /\ s = FTail => NextPage(o) <= FLimit
        BY <1>9, <2>2, <2>5, NothingBetween
      <3>2. Finds(s, NextPage(o)) BY <2>4, <3>1
      <3>3. ASSUME NEW e \in Found, e.offset >= NextPage(o) PROVE e.offset >= o
        BY <1>3, <1>5, <2>3, <3>3
      <3>4. {e \in Found : e.section = s /\ e.offset >= NextPage(o)} = {e \in Found : e.section = s /\ e.offset >= o}
        BY <3>1, <3>3
      <3>q. QED BY <2>1, <3>1, <3>2, <3>4 DEF Finds
    <2>6. CASE ~InF(s, o)
      <3>1. s = FTail /\ o >= FLimit BY <1>3, <1>4, <2>2, <2>6 DEF InF
      <3>2. ~InF(s, NextPage(o)) BY <1>3, <1>4, <2>3, <3>1 DEF InF
      <3>3. NextPage(o) < SectionSize => ~FMid(s, NextPage(o))
        <4>1. ASSUME NextPage(o) < SectionSize PROVE NextPage(o) \in HeadLen .. SectionSize - 1 BY <1>1, <1>3, <2>3, <4>1
        <4>q. QED BY <1>2, <3>2, <4>1, FMidIs
      <3>4. Finds(s, NextPage(o)) BY <2>4, <3>3
      <3>5. ASSUME NEW e \in Found, e.section = s PROVE ~(e.offset >= o) /\ ~(e.offset >= NextPage(o))
        <4>1. e.offset \in Nat /\ InF(s, e.offset) BY <1>5, <3>5
        <4>2. e.offset < FLimit BY <3>1, <4>1 DEF InF
        <4>q. QED BY <1>3, <1>4, <2>3, <3>1, <4>1, <4>2
      <3>6. {e \in Found : e.section = s /\ e.offset >= NextPage(o)} = {e \in Found : e.section = s /\ e.offset >= o}
        BY <3>5
      <3>7. ~(o <= FLimit)
        <4> SUFFICES ASSUME o <= FLimit PROVE FALSE OBVIOUS
        <4>1. o = FLimit /\ o % PageSize = 0 BY <1>3, <1>4, <3>1
        <4>2. ASSUME NEW i \in 0 .. PageSize - 1 PROVE flash[FlashAddr(s, o + i)] = Erased
          <5>1. o + PageSize <= SectionSize
            <6>1. NextPage(o) = o + PageSize BY <1>3, <4>1, NextPageIs
            <6>q. QED BY <2>3, <6>1
          <5>2. o + i \in HeadLen .. SectionSize - 1 /\ o + i \in 0 .. SectionSize - 1 /\ o + i >= HeadLen /\ ~(o + i < FLimit)
            BY <1>1, <1>3, <1>4, <3>1, <5>1
          <5>3. ~InF(s, o + i) BY <3>1, <5>2 DEF InF
          <5>4. Fl(s, o + i) = Erased BY <1>2, <5>2, <5>3, FlashIs
          <5>q. QED BY <5>4 DEF Fl
        <4>3. PageEmpty(s, o) BY <4>2 DEF PageEmpty
        <4>q. QED BY <1>9, <4>1, <4>3
      <3>q. QED BY <2>1, <3>4, <3>6, <3>7 DEF Finds
    <2>q. QED BY <2>5, <2>6
  <1>q. QED BY <1>1, <1>3, <1>6, <1>7, <1>8, <1>9

\* The walk over a section finds all its nodes.
LEMMA WalkFinds ==
  ASSUME IInv, LInv, Shape, MetaInPage, RoomToCopy, NEW s \in Valid, NEW o \in HeadLen .. 3 * SectionSize,
         o < SectionSize => ~FMid(s, o)
  PROVE  Finds(s, o)
  <1> DEFINE n == 3 * SectionSize
             Bad == {k \in 0 .. n : n - k \in HeadLen .. n /\ (n - k < SectionSize => ~FMid(s, n - k)) /\ ~Finds(s, n - k)}
  <1>1. n \in Nat /\ HeadLen \in Nat \ {0} BY Geometry
  <1>2. Bad = {}
    <2> SUFFICES ASSUME Bad # {} PROVE FALSE OBVIOUS
    <2>1. Bad \in SUBSET Nat OBVIOUS
    <2>2. PICK k \in Bad : \A l \in Bad : k <= l
      <3> HIDE DEF Bad
      <3>q. QED BY <2>1, Least
    <2>3. k \in 0 .. n /\ n - k \in HeadLen .. n /\ (n - k < SectionSize => ~FMid(s, n - k)) /\ ~Finds(s, n - k) OBVIOUS
    <2>4. PICK p \in HeadLen .. n : p = n - k BY <2>3
    <2>5. ASSUME NEW q \in HeadLen .. n, q > p, q < SectionSize => ~FMid(s, q) PROVE Finds(s, q)
      <3> SUFFICES ASSUME ~Finds(s, q) PROVE FALSE OBVIOUS
      <3> HIDE DEF n
      <3>1. n - q \in 0 .. n /\ n - q < k /\ n - (n - q) = q BY <1>1, <2>3, <2>4, <2>5
      <3>2. n - q \in Bad BY <2>5, <3>1
      <3> HIDE DEF Bad
      <3>q. QED BY <2>1, <2>2, <3>1, <3>2
    <2>6. Finds(s, p) BY <2>3, <2>4, <2>5, WalkStep
    <2>q. QED BY <2>3, <2>4, <2>6
  <1>3. PICK k : k = n - o OBVIOUS
  <1>4. k \in 0 .. n /\ n - k = o BY <1>1, <1>3
  <1>5. k \notin Bad
    <2> HIDE DEF Bad
    <2>q. QED BY <1>2
  <1>q. QED BY <1>4, <1>5

-----------------------------------------------------------------------------
(* The sections tinyfs_init finds. *)

\* The header of a section in flash.
LEMMA HeadIs ==
  ASSUME IInv, LInv, Shape, NEW s \in Valid
  PROVE  /\ Fl(s, 0) = <<SectionHead(tailCount - Age(s), HeadOf(s).offset), 1>>
         /\ HeadOf(s).count = tailCount - Age(s)
         /\ HeadOf(s).offset \in HeadLen .. SectionSize - 1
         /\ StartsAt(s, HeadOf(s).offset)
  <1>0. TypeOK /\ CacheAligned BY DEF IInv
  <1>1. s \in Sections \ Ahead /\ s \in Sections /\ (s = tailSec => Base # 0) BY DEF Valid
  <1>2. s = tailSec => avail # 0
    <2>1. Base \in Nat /\ Base <= avail /\ avail \in Nat BY <1>0, BaseIs
    <2>q. QED BY <1>1, <2>1
  <1>3. PICK off \in HeadLen .. SectionSize - 1 :
          At(s, 0) = <<SectionHead(tailCount - Age(s), off), 1>> /\ StartsAt(s, off)
    BY <1>1, <1>2 DEF Shape, Headed
  <1>4. Fl(s, 0) = At(s, 0)
    <2>1. FLimit \in Nat /\ HeadLen <= FLimit BY <1>0, LimitIs
    <2>2. HeadLen \in Nat \ {0} /\ HeadLen < SectionSize /\ SectionSize \in Nat BY Geometry
    <2>3. 0 \in 0 .. SectionSize - 1 /\ 0 < FLimit BY <2>1, <2>2
    <2>q. QED BY <1>1, <2>3, FlashIs
  <1>5. HeadOf(s) = SectionHead(tailCount - Age(s), off) BY <1>3, <1>4 DEF HeadOf, Fl
  <1>6. HeadOf(s).offset = off /\ HeadOf(s).count = tailCount - Age(s) BY <1>5 DEF SectionHead
  <1>q. QED BY <1>3, <1>4, <1>6

\* section_head_read_all finds the sections of the log whose header is in flash.
LEMMA ValidIs ==
  ASSUME IInv, LInv, Shape
  PROVE  ValidSections = Valid
  <1>1. ASSUME NEW s \in Sections PROVE flash[FlashAddr(s, 0)][1].type = "HEAD" <=> s \in Valid
    <2>1. CASE s \in Valid
      <3>1. Fl(s, 0) = <<SectionHead(tailCount - Age(s), HeadOf(s).offset), 1>> BY <2>1, HeadIs
      <3>q. QED BY <2>1, <3>1 DEF Fl, SectionHead
    <2>2. CASE s \notin Valid
      <3>1. 0 \in 0 .. SectionSize - 1 BY Geometry
      <3>2. Fl(s, 0) = Erased BY <2>2, <3>1, FlashIs
      <3>q. QED BY <2>2, <3>2 DEF Fl, Erased
    <2>q. QED BY <2>1, <2>2
  <1>2. Valid \subseteq Sections BY DEF Valid
  <1>q. QED BY <1>1, <1>2 DEF ValidSections

\* Sections counted on from a section, round the volume.
LEMMA Turn ==
  ASSUME TypeOK, NEW s \in Sections, NEW d \in 1 .. SectionNum
  PROVE  /\ (s + d) % SectionNum \in Sections
         /\ d <= Age(s) => Age((s + d) % SectionNum) = Age(s) - d
         /\ d > Age(s) => Age((s + d) % SectionNum) = Age(s) - d + SectionNum
  <1>1. SectionNum \in Nat \ {0} BY Geometry
  <1>2. tailSec \in 0 .. SectionNum - 1 /\ s \in 0 .. SectionNum - 1 BY DEF TypeOK, Sections
  <1>3. PICK t \in 0 .. SectionNum - 1 : t = (s + d) % SectionNum /\ (t = s + d \/ t = s + d - SectionNum)
    <2>1. CASE s + d < SectionNum
      <3>1. (0 * SectionNum + (s + d)) % SectionNum = s + d
        <4>1. s + d \in 0 .. SectionNum - 1 BY <1>1, <1>2, <2>1
        <4>q. QED BY <1>1, <4>1, ModUnique
      <3>2. 0 * SectionNum + (s + d) = s + d BY <1>1, <1>2
      <3>q. QED BY <1>1, <1>2, <2>1, <3>1, <3>2
    <2>2. CASE s + d >= SectionNum
      <3>1. (1 * SectionNum + (s + d - SectionNum)) % SectionNum = s + d - SectionNum
        <4>1. s + d - SectionNum \in 0 .. SectionNum - 1 BY <1>1, <1>2, <2>2
        <4>q. QED BY <1>1, <4>1, ModUnique
      <3>2. 1 * SectionNum + (s + d - SectionNum) = s + d BY <1>1, <1>2
      <3>q. QED BY <1>1, <1>2, <2>2, <3>1, <3>2
    <2>q. QED BY <1>1, <1>2, <2>1, <2>2
  <1>q. QED BY <1>1, <1>2, <1>3 DEF Age, Sections

\* The first d for which P holds is the one get_next_valid_section stops at.
LEMMA FirstIs ==
  ASSUME TypeOK, NEW s \in Sections, NEW D \in 1 .. SectionNum, (s + D) % SectionNum \in Valid,
         \A k \in 1 .. D - 1 : (s + k) % SectionNum \notin Valid
  PROVE  NextValid(Valid, s) = (s + D) % SectionNum
  <1> DEFINE next(d) == (s + d) % SectionNum
             P(d) == next(d) \in Valid /\ \A k \in 1 .. d - 1 : next(k) \notin Valid
  <1>1. P(D) OBVIOUS
  <1>2. ASSUME NEW d \in 1 .. SectionNum, P(d) PROVE d = D
    <2>1. ~(d < D)
      <3>1. d < D => d \in 1 .. D - 1 OBVIOUS
      <3>q. QED BY <1>2, <3>1
    <2>2. ~(D < d)
      <3>1. D < d => D \in 1 .. d - 1 OBVIOUS
      <3>q. QED BY <1>1, <1>2, <3>1
    <2>q. QED BY <2>1, <2>2
  <1>3. (CHOOSE d \in 1 .. SectionNum : P(d)) = D
    <2> HIDE DEF P
    <2>q. QED BY <1>1, <1>2
  <1>q. QED BY <1>3 DEF NextValid

\* get_next_valid_section: the next younger section, behind the youngest the head.
LEMMA NextValidIs ==
  ASSUME IInv, LInv, NEW s \in Valid
  PROVE  /\ NextValid(Valid, s) \in Valid
         /\ s = FTail => NextValid(Valid, s) = headSec
         /\ s # FTail => Age(NextValid(Valid, s)) = Age(s) - 1
  <1>0. TypeOK BY DEF IInv
  <1>1. SectionNum \in Nat \ {0} /\ s \in Sections BY Geometry DEF Valid
  <1>2. PICK a \in Nat, h \in Nat : a = Age(FTail) /\ h = Age(headSec)
    <2>1. FTail \in Sections /\ headSec \in Sections BY <1>0, LimitIs DEF IInv, TypeOK
    <2>q. QED BY <1>0, <2>1, Ages
  <1>3. /\ tailCount # 0 /\ FTail \in Valid /\ headSec \in Valid /\ a <= h /\ h < SectionNum
        /\ \A t \in Sections : t \in Valid <=> a <= Age(t) /\ Age(t) <= h
    <2>1. Age(headSec) \in 0 .. SectionNum - 1 BY <1>0, Ages DEF TypeOK
    <2>2. tailCount # 0 /\ FTail \in Valid /\ headSec \in Valid /\ a <= h BY <1>2, ValidArc
    <2>3. \A t \in Sections : t \in Valid <=> tailCount # 0 /\ Age(FTail) <= Age(t) /\ Age(t) <= Age(headSec)
      BY ValidArc
    <2>q. QED BY <1>1, <1>2, <2>1, <2>2, <2>3
  <1>4. \A t, u \in Sections : Age(t) = Age(u) => t = u BY <1>0, Ages
  <1>5. CASE s = FTail
    <2>1. PICK D \in 1 .. SectionNum : D = SectionNum + a - h BY <1>1, <1>3
    <2>2. Age(s) = a BY <1>2, <1>5
    <2>3. Age((s + D) % SectionNum) = h /\ (s + D) % SectionNum \in Sections
      <3>1. D > a BY <1>1, <1>3, <2>1
      <3>2. (s + D) % SectionNum \in Sections /\ Age((s + D) % SectionNum) = Age(s) - D + SectionNum
        BY <1>0, <1>1, <2>2, <3>1, Turn
      <3>3. a - D + SectionNum = h BY <1>1, <2>1
      <3>q. QED BY <2>2, <3>2, <3>3
    <2>4. (s + D) % SectionNum = headSec
      <3>1. headSec \in Sections BY <1>0 DEF TypeOK
      <3>q. QED BY <1>2, <1>4, <2>3, <3>1
    <2>5. ASSUME NEW k \in 1 .. D - 1 PROVE (s + k) % SectionNum \notin Valid
      <3>0. k \in 1 .. SectionNum BY <1>1
      <3>1. CASE k <= a
        <4>1. (s + k) % SectionNum \in Sections /\ Age((s + k) % SectionNum) = a - k BY <1>0, <1>1, <2>2, <3>0, <3>1, Turn
        <4>2. ~(a <= a - k) OBVIOUS
        <4>q. QED BY <1>3, <4>1, <4>2
      <3>2. CASE k > a
        <4>1. (s + k) % SectionNum \in Sections /\ Age((s + k) % SectionNum) = a - k + SectionNum
          BY <1>0, <1>1, <2>2, <3>0, <3>2, Turn
        <4>2. ~(a - k + SectionNum <= h) BY <1>1, <2>1
        <4>q. QED BY <1>3, <4>1, <4>2
      <3>q. QED BY <3>1, <3>2
    <2>6. (s + D) % SectionNum \in Valid BY <1>3, <2>4
    <2>7. NextValid(Valid, s) = (s + D) % SectionNum BY <1>0, <1>1, <2>5, <2>6, FirstIs
    <2>q. QED BY <1>5, <2>4, <2>6, <2>7
  <1>6. CASE s # FTail
    <2>1. Age(s) \in Nat /\ Age(s) > a
      <3>1. Age(s) \in Nat BY <1>0, <1>1, Ages
      <3>2. a <= Age(s) BY <1>1, <1>3
      <3>3. Age(s) # a BY <1>1, <1>2, <1>3, <1>4, <1>6 DEF Valid
      <3>q. QED BY <3>1, <3>2, <3>3
    <2>2. 1 \in 1 .. SectionNum BY <1>1
    <2>3. (s + 1) % SectionNum \in Sections /\ Age((s + 1) % SectionNum) = Age(s) - 1
      <3>1. 1 <= Age(s) BY <2>1
      <3>q. QED BY <1>0, <1>1, <2>2, <3>1, Turn
    <2>4. (s + 1) % SectionNum \in Valid
      <3>1. Age(s) <= h BY <1>1, <1>3
      <3>2. a <= Age(s) - 1 /\ Age(s) - 1 <= h BY <2>1, <3>1
      <3>q. QED BY <1>3, <2>3, <3>2
    <2>5. \A k \in 1 .. 1 - 1 : (s + k) % SectionNum \notin Valid OBVIOUS
    <2>6. NextValid(Valid, s) = (s + 1) % SectionNum BY <1>0, <1>1, <2>2, <2>4, <2>5, FirstIs
    <2>q. QED BY <1>6, <2>3, <2>4, <2>6
  <1>q. QED BY <1>5, <1>6

\* The sections can be told apart by their counts.
Countable == CountRange >= 2 * SectionNum

\* A distance between two counts is its own value as an int16_t.
LEMMA SignedIs ==
  ASSUME Countable, NEW r \in 0 .. SectionNum - 1
  PROVE  Signed(r) = r
  <1>1. SectionNum \in Nat \ {0} /\ CountRange \in Nat \ {0} /\ CountRange >= 2 * SectionNum
    BY Geometry, LengthAssumption DEF Countable
  <1>2. PICK h \in Nat : h = CountRange \div 2 /\ 2 * h <= CountRange /\ CountRange <= 2 * h + 1 BY <1>1
  <1>3. r + h \in 0 .. CountRange - 1 BY <1>1, <1>2
  <1>4. (0 * CountRange + (r + h)) % CountRange = r + h BY <1>1, <1>3, ModUnique
  <1>5. 0 * CountRange + (r + h) = r + h BY <1>1, <1>2
  <1>6. Signed(r) = ((r + h) % CountRange) - h BY <1>2 DEF Signed
  <1>q. QED BY <1>2, <1>3, <1>4, <1>5, <1>6

\* find_head_tail_section finds the ends of the log.
LEMMA EndsAre ==
  ASSUME Countable, IInv, LInv, Valid # {}, NEW count, \A s \in Valid : count[s] = tailCount - Age(s)
  PROVE  FindHeadTail(Valid, count) = [head |-> headSec, tail |-> FTail]
  <1> DEFINE first == CHOOSE s \in Valid : \A t \in Valid : s <= t
             start == [prev |-> first, curr |-> NextValid(Valid, first)]
             on(p) == IF count[p.prev] + 1 = count[p.curr]
                      THEN [prev |-> p.curr, curr |-> NextValid(Valid, p.curr)] ELSE p
             F(c) == [i \in 0 .. SectionNum |-> IF i = 0 THEN start ELSE on(c[i - 1])]
             pair == CHOOSE c : c = F(c)
             V == [prev : Valid, curr : Valid]
             step == [i \in 1 .. SectionNum |-> [p \in V |-> on(p)]]
  <1>0. TypeOK BY DEF IInv
  <1>1. SectionNum \in Nat \ {0} BY Geometry
  <1>2. PICK a \in Nat, h \in Nat : a = Age(FTail) /\ h = Age(headSec)
    <2>1. FTail \in Sections /\ headSec \in Sections BY <1>0, LimitIs DEF IInv, TypeOK
    <2>q. QED BY <1>0, <2>1, Ages
  <1>3. tailCount # 0 /\ FTail \in Valid /\ headSec \in Valid /\ a <= h BY <1>2, ValidArc
  <1>4. /\ \A s \in Valid : s \in Sections /\ Age(s) \in 0 .. SectionNum - 1 /\ a <= Age(s) /\ Age(s) <= h
        /\ \A s, t \in Valid : Age(s) = Age(t) => s = t
        /\ tailCount \in Nat
    <2>1. \A s \in Valid : s \in Sections BY DEF Valid
    <2>2. \A s \in Sections : Age(s) \in 0 .. SectionNum - 1 BY <1>0, Ages
    <2>3. \A s, t \in Sections : Age(s) = Age(t) => s = t BY <1>0, Ages
    <2>4. \A s \in Valid : a <= Age(s) /\ Age(s) <= h BY <1>2, <2>1, ValidArc
    <2>5. tailCount \in Nat BY <1>0 DEF TypeOK
    <2>q. QED BY <2>1, <2>2, <2>3, <2>4, <2>5
  <1>5. first \in Valid
    <2>1. Valid \in SUBSET Nat
      <3>1. Sections \subseteq Nat BY <1>1 DEF Sections
      <3>q. QED BY <1>4, <3>1
    <2>2. \E s \in Valid : \A t \in Valid : s <= t BY <2>1, Least
    <2>q. QED BY <2>2
  <1>6. ASSUME NEW s \in Valid
        PROVE  /\ NextValid(Valid, s) \in Valid
               /\ s # FTail => count[s] + 1 = count[NextValid(Valid, s)] /\ Age(NextValid(Valid, s)) = Age(s) - 1
               /\ s = FTail => count[s] + 1 # count[NextValid(Valid, s)]
    <2>1. PICK t \in Valid : t = NextValid(Valid, s) BY NextValidIs
    <2>2. /\ s = FTail => t = headSec
          /\ s # FTail => Age(t) = Age(s) - 1
      BY <2>1, NextValidIs
    <2>3. count[s] = tailCount - Age(s) /\ count[t] = tailCount - Age(t) OBVIOUS
    <2>4. PICK x \in Nat, y \in Nat, c \in Nat : x = Age(s) /\ y = Age(t) /\ c = tailCount BY <1>4
    <2>5. s = FTail => count[s] + 1 # count[t]
      <3>1. s = FTail => x = a /\ y = h BY <1>2, <2>2, <2>4
      <3>q. QED BY <1>3, <2>3, <2>4, <3>1
    <2>6. s # FTail => count[s] + 1 = count[t] BY <2>2, <2>3, <2>4
    <2>q. QED BY <2>1, <2>2, <2>5, <2>6
  <1> HIDE DEF first
  <1>7. ASSUME NEW p \in V PROVE on(p) \in V
    <2>1. p.prev \in Valid /\ p.curr \in Valid OBVIOUS
    <2>2. NextValid(Valid, p.curr) \in Valid BY <1>6, <2>1
    <2>q. QED BY <2>1, <2>2
  <1>8. start \in V BY <1>5, <1>6
  <1>9. \E c : c = F(c)
    <2>1. step \in [1 .. SectionNum -> [V -> V]]
      <3> HIDE DEF on, V
      <3>q. QED BY <1>7
    <2>2. \A i \in 1 .. SectionNum, p \in V : step[i][p] = on(p)
      <3> HIDE DEF on, V
      <3>q. QED OBVIOUS
    <2> HIDE DEF step, V, on, start
    <2>3. PICK f : StepsBy(f, SectionNum, V, start, step) BY <1>1, <1>8, <2>1, Steps
    <2>4. f \in [0 .. SectionNum -> V] /\ f[0] = start /\ \A i \in 1 .. SectionNum : f[i] = step[i][f[i - 1]]
      BY <2>3 DEF StepsBy
    <2>5. ASSUME NEW i \in 0 .. SectionNum PROVE f[i] = IF i = 0 THEN start ELSE on(f[i - 1])
      <3>1. CASE i = 0 BY <2>4, <3>1
      <3>2. CASE i # 0
        <4>1. i \in 1 .. SectionNum /\ i - 1 \in 0 .. SectionNum BY <1>1, <3>2
        <4>2. f[i - 1] \in V /\ f[i] = step[i][f[i - 1]] BY <2>4, <4>1
        <4>q. QED BY <2>2, <3>2, <4>1, <4>2
      <3>q. QED BY <3>1, <3>2
    <2>6. f = F(f) BY <2>4, <2>5
    <2> HIDE DEF F
    <2>q. QED BY <2>6
  <1>10. pair = F(pair)
    <2> HIDE DEF F
    <2>q. QED BY <1>9
  <1> DEFINE ends == pair[SectionNum]
  <1>11. FindHeadTail(Valid, count)
           = IF Signed(count[ends.prev] - count[ends.curr]) > 0
             THEN [head |-> ends.curr, tail |-> ends.prev]
             ELSE [head |-> ends.prev, tail |-> ends.curr]
    BY DEF FindHeadTail, first
  <1> HIDE DEF pair, step
  <1>12. pair[0] = start /\ \A i \in 1 .. SectionNum : pair[i] = on(pair[i - 1])
    <2> HIDE DEF on, start
    <2>1. \A i \in 0 .. SectionNum : pair[i] = IF i = 0 THEN start ELSE on(pair[i - 1]) BY <1>10
    <2>2. 0 \in 0 .. SectionNum BY <1>1
    <2>3. \A i \in 1 .. SectionNum : i \in 0 .. SectionNum /\ i # 0 BY <1>1
    <2>q. QED BY <2>1, <2>2, <2>3
  <1>13. PICK A \in Nat : A = Age(first) /\ a <= A /\ A < SectionNum BY <1>1, <1>4, <1>5
  <1> DEFINE Good(i) == /\ pair[i] \in V
                        /\ pair[i].curr = NextValid(Valid, pair[i].prev)
                        /\ i <= A - a => Age(pair[i].prev) = A - i
                        /\ i > A - a => Age(pair[i].prev) = a
             Bad == {i \in 0 .. SectionNum : ~Good(i)}
  <1>14. Good(0)
    <2>1. 0 <= A - a BY <1>13
    <2>2. pair[0] \in V BY <1>8, <1>12
    <2>3. pair[0].prev = first /\ pair[0].curr = NextValid(Valid, first) BY <1>12
    <2>q. QED BY <1>13, <2>1, <2>2, <2>3
  <1>15. ASSUME NEW i \in 1 .. SectionNum, Good(i - 1) PROVE Good(i)
    <2>1. PICK p \in V : p = pair[i - 1] BY <1>15
    <2>2. p.prev \in Valid /\ p.curr \in Valid /\ p.curr = NextValid(Valid, p.prev) BY <1>15, <2>1
    <2>3. pair[i] = on(p) BY <1>12, <2>1
    <2>4. pair[i] \in V BY <1>7, <2>3
    <2>5. /\ i - 1 <= A - a => Age(p.prev) = A - (i - 1)
          /\ i - 1 > A - a => Age(p.prev) = a
      BY <1>15, <2>1
    <2>6. CASE p.prev = FTail
      <3>1. pair[i] = p BY <1>6, <2>2, <2>3, <2>6
      <3>2. Age(p.prev) = a BY <1>2, <2>6
      <3>3. i <= A - a => FALSE BY <1>13, <2>5, <3>2
      <3>q. QED BY <2>2, <2>4, <3>1, <3>2, <3>3
    <2>7. CASE p.prev # FTail
      <3>1. pair[i] = [prev |-> p.curr, curr |-> NextValid(Valid, p.curr)] BY <1>6, <2>2, <2>3, <2>7
      <3>2. Age(p.curr) = Age(p.prev) - 1 BY <1>6, <2>2, <2>7
      <3>3. Age(p.prev) # a BY <1>2, <1>3, <1>4, <2>2, <2>7
      <3>4. i - 1 <= A - a /\ Age(p.prev) = A - (i - 1) BY <1>13, <2>5, <3>3
      <3>5. i <= A - a BY <1>13, <3>3, <3>4
      <3>6. Age(p.curr) = A - i BY <1>13, <3>2, <3>4
      <3>7. pair[i].prev = p.curr /\ pair[i].curr = NextValid(Valid, p.curr) BY <3>1
      <3>8. ~(i > A - a) BY <1>13, <3>5
      <3> HIDE DEF V
      <3>q. QED BY <2>4, <3>6, <3>7, <3>8
    <2>q. QED BY <2>6, <2>7
  <1> HIDE DEF Good
  <1>16. Bad = {}
    <2> SUFFICES ASSUME Bad # {} PROVE FALSE OBVIOUS
    <2>1. Bad \in SUBSET Nat BY <1>1
    <2>2. PICK i \in Bad : \A k \in Bad : i <= k
      <3> HIDE DEF Bad
      <3>q. QED BY <2>1, Least
    <2>3. i # 0 BY <1>14, <2>2
    <2>4. i \in 1 .. SectionNum /\ i - 1 \in 0 .. SectionNum /\ i - 1 \notin Bad
      <3>1. i \in 1 .. SectionNum /\ i - 1 \in 0 .. SectionNum BY <1>1, <2>2, <2>3
      <3> HIDE DEF Bad
      <3>q. QED BY <1>1, <2>2, <3>1
    <2>5. Good(i - 1) BY <2>4
    <2>q. QED BY <1>15, <2>2, <2>4, <2>5
  <1>17. Good(SectionNum)
    <2>1. SectionNum \in 0 .. SectionNum BY <1>1
    <2>q. QED BY <1>16, <2>1
  <1>18. PICK p \in V : p = pair[SectionNum] BY <1>17 DEF Good
  <1>19. p.prev = FTail
    <2>1. SectionNum > A - a BY <1>1, <1>13
    <2>2. Age(p.prev) = a BY <1>17, <1>18, <2>1 DEF Good
    <2>q. QED BY <1>2, <1>3, <1>4, <1>18, <2>2
  <1>20. p.curr = headSec
    <2>1. p.curr = NextValid(Valid, p.prev) BY <1>17, <1>18 DEF Good
    <2>q. QED BY <1>3, <1>19, <2>1, NextValidIs
  <1>21. Signed(count[p.prev] - count[p.curr]) = h - a
    <2>1. count[p.prev] = tailCount - a /\ count[p.curr] = tailCount - h BY <1>2, <1>3, <1>19, <1>20
    <2>2. h - a \in 0 .. SectionNum - 1
      <3>1. h \in 0 .. SectionNum - 1 BY <1>2, <1>3, <1>4
      <3>q. QED BY <1>1, <1>3, <3>1
    <2>3. (tailCount - a) - (tailCount - h) = h - a BY <1>4
    <2>q. QED BY <2>1, <2>2, <2>3, SignedIs
  <1>22. h - a > 0 \/ FTail = headSec
    <2>1. h = a => FTail = headSec BY <1>2, <1>3, <1>4
    <2>q. QED BY <1>3, <2>1
  <1>q. QED BY <1>11, <1>18, <1>19, <1>20, <1>21, <1>22

\* nodes_info_load goes through them from the oldest to the youngest.
LEMMA OrderIs ==
  ASSUME IInv, LInv, Valid # {}
  PROVE  /\ LoadOrder(Valid, FTail) \in Seq(Sections) /\ LoadOrder(Valid, FTail) # << >>
         /\ Elements(LoadOrder(Valid, FTail)) = Valid
         /\ \A k, l \in 1 .. Len(LoadOrder(Valid, FTail)) :
              k < l => Age(LoadOrder(Valid, FTail)[k]) > Age(LoadOrder(Valid, FTail)[l])
  <1> DEFINE q == [i \in 1 .. SectionNum |-> (FTail + i) % SectionNum]
             lt == {p \in Sections \X Sections : p[1] \in Valid /\ p[2] \in Valid => Age(p[1]) > Age(p[2])}
  <1>0. TypeOK BY DEF IInv
  <1>1. SectionNum \in Nat \ {0} BY Geometry
  <1>2. PICK a \in Nat : a = Age(FTail) /\ FTail \in Sections
    <2>1. FTail \in Sections BY <1>0, LimitIs DEF IInv
    <2>q. QED BY <1>0, <2>1, Ages
  <1>3. ASSUME NEW i \in 1 .. SectionNum
        PROVE  /\ q[i] \in Sections
               /\ q[i] \in Valid => i > a /\ Age(q[i]) = a - i + SectionNum
    <2>1. q[i] = (FTail + i) % SectionNum OBVIOUS
    <2>2. q[i] \in Sections BY <1>0, <1>2, <2>1, Turn
    <2>3. CASE i <= a
      <3>1. Age(q[i]) = a - i BY <1>0, <1>2, <2>1, <2>3, Turn
      <3>2. q[i] \in Valid => a <= Age(q[i]) BY <1>2, <2>2, ValidArc
      <3>3. ~(a <= a - i) OBVIOUS
      <3>q. QED BY <2>2, <3>1, <3>2, <3>3
    <2>4. CASE i > a
      <3>1. Age(q[i]) = a - i + SectionNum BY <1>0, <1>2, <2>1, <2>4, Turn
      <3>q. QED BY <2>2, <2>4, <3>1
    <2>q. QED BY <1>2, <2>3, <2>4
  <1>4. q \in Seq(Sections) /\ Len(q) = SectionNum
    <2>1. q \in [1 .. SectionNum -> Sections] BY <1>3
    <2> HIDE DEF q
    <2>q. QED BY <1>1, <2>1
  <1>5. ASSUME NEW s \in Sections PROVE \E i \in 1 .. SectionNum : q[i] = s
    <2>1. FTail \in 0 .. SectionNum - 1 /\ s \in 0 .. SectionNum - 1 BY <1>2 DEF Sections
    <2>2. CASE s > FTail
      <3>1. s - FTail \in 1 .. SectionNum /\ FTail + (s - FTail) = 0 * SectionNum + s BY <1>1, <2>1, <2>2
      <3>2. (0 * SectionNum + s) % SectionNum = s BY <1>1, <2>1, ModUnique
      <3>3. q[s - FTail] = s BY <3>1, <3>2
      <3>q. QED BY <3>1, <3>3
    <2>3. CASE s <= FTail
      <3>1. s - FTail + SectionNum \in 1 .. SectionNum /\ FTail + (s - FTail + SectionNum) = 1 * SectionNum + s
        BY <1>1, <2>1, <2>3
      <3>2. (1 * SectionNum + s) % SectionNum = s BY <1>1, <2>1, ModUnique
      <3>3. q[s - FTail + SectionNum] = s BY <3>1, <3>2
      <3>q. QED BY <3>1, <3>3
    <2>q. QED BY <2>1, <2>2, <2>3
  <1>6. Elements(q) = Sections BY <1>3, <1>4, <1>5 DEF Elements
  <1>7. Sorted(q, lt)
    <2>1. ASSUME NEW i \in 1 .. SectionNum, NEW j \in 1 .. SectionNum, i < j PROVE <<q[i], q[j]>> \in lt
      <3>1. q[i] \in Sections /\ q[j] \in Sections BY <1>3
      <3>2. ASSUME q[i] \in Valid, q[j] \in Valid PROVE Age(q[i]) > Age(q[j])
        <4>1. Age(q[i]) = a - i + SectionNum /\ Age(q[j]) = a - j + SectionNum BY <1>3, <3>2
        <4>2. a - i + SectionNum > a - j + SectionNum BY <1>1, <2>1
        <4>q. QED BY <4>1, <4>2
      <3> HIDE DEF q
      <3>q. QED BY <3>1, <3>2
    <2> HIDE DEF q, lt
    <2>q. QED BY <1>4, <2>1 DEF Sorted
  <1>8. LoadOrder(Valid, FTail) = Among(q, Valid) BY DEF LoadOrder
  <1>9. Valid \subseteq Sections BY DEF Valid
  <1> HIDE DEF q
  <1>10. PICK o : o = LoadOrder(Valid, FTail) OBVIOUS
  <1>11. o \in Seq(Sections) /\ Elements(o) = Sections \cap Valid BY <1>4, <1>6, <1>8, <1>10, AmongIs
  <1>12. Sorted(o, lt)
    <2> HIDE DEF lt
    <2>q. QED BY <1>4, <1>7, <1>8, <1>10, AmongIs
  <1>13. ASSUME NEW k \in 1 .. Len(o), NEW l \in 1 .. Len(o), k < l PROVE Age(o[k]) > Age(o[l])
    <2>1. <<o[k], o[l]>> \in lt BY <1>12, <1>13 DEF Sorted
    <2>2. o[k] \in Elements(o) /\ o[l] \in Elements(o) BY DEF Elements
    <2>3. o[k] \in Valid /\ o[l] \in Valid BY <1>11, <2>2
    <2>q. QED BY <2>1, <2>3
  <1>14. o # << >>
    <2>1. CASE o = << >>
      <3>1. Len(o) = 0 BY <2>1
      <3>2. Elements(o) = {} BY <3>1 DEF Elements
      <3>q. QED BY <1>9, <1>11, <3>2
    <2>q. QED BY <2>1
  <1>q. QED BY <1>9, <1>10, <1>11, <1>13, <1>14

-----------------------------------------------------------------------------
(* What tinyfs_init makes of it. *)

\* A node that goes on behind the end of what flash holds, in the section where that
\* is, is found with its metadata only.
LEMMA StraddlesHalved ==
  ASSUME IInv, LInv, MetaInPage, RoomToCopy, Base # 0, NEW e \in Located,
         e.section # tailSec, e.offset >= HeadLen, NEW off \in Nat, off > Base,
         SectionOffset(e.section, e.offset, NodeLen(e.node)) = [section |-> tailSec, offset |-> off],
         Stored(e, e.node, NodeLen(e.node)) \/ (Under /\ e = entry)
  PROVE  InF(e.section, e.offset) /\ Halved(e.section, e.offset, e.node)
  <1>0. TypeOK /\ CacheAligned BY DEF IInv
  <1>1. e.node \in Nodes /\ e.section \in Sections /\ e.offset \in 0 .. SectionSize - 1
        /\ e = [node |-> e.node, section |-> e.section, offset |-> e.offset]
    BY DEF Located
  <1>2. PICK s \in Sections, o \in HeadLen .. SectionSize - 1, n \in Nodes :
          s = e.section /\ o = e.offset /\ n = e.node /\ s # tailSec
    <2>1. HeadLen \in Nat /\ SectionSize \in Nat BY Geometry
    <2>2. e.offset \in HeadLen .. SectionSize - 1 BY <1>1, <2>1
    <2>q. QED BY <1>1, <2>2
  <1>3. PICK L \in Nat \ {0} : L = NodeLen(n) /\ L <= Payload BY NodeFits
  <1>4. /\ HeadLen \in Nat \ {0} /\ SectionSize \in Nat /\ HeadLen < SectionSize /\ Payload = SectionSize - HeadLen
        /\ PageSize \in Nat /\ AddLen \in Nat /\ HeadLen + AddLen - 1 <= PageSize
    BY Geometry, LengthAssumption DEF Payload, MetaInPage
  <1>5. /\ Base \in Nat /\ PageSize <= Base /\ FTail = tailSec /\ FLimit = Base
    <2>1. Base \in Nat /\ (Base > 0 => Base >= PageSize) BY <1>0, BaseIs
    <2>2. FTail = tailSec /\ FLimit = Base BY <1>0, LimitIs
    <2>q. QED BY <2>1, <2>2, <1>4
  <1>6. NextSection(s) = tailSec /\ o + L >= SectionSize /\ o + L - SectionSize + HeadLen = off
    <2>1. L \in 0 .. Payload /\ o \in 0 .. SectionSize - 1 BY <1>3, <1>4
    <2>2. SectionOffset(s, o, L) = [section |-> tailSec, offset |-> off] BY <1>2, <1>3
    <2>3. CASE o + L < SectionSize
      <3>1. SectionOffset(s, o, L) = [section |-> s, offset |-> o + L] BY <2>1, <2>3, Units
      <3>2. [section |-> s, offset |-> o + L].section = s
            /\ [section |-> tailSec, offset |-> off].section = tailSec
        OBVIOUS
      <3>q. QED BY <1>2, <2>2, <3>1, <3>2
    <2>4. CASE o + L >= SectionSize
      <3>1. SectionOffset(s, o, L) = [section |-> NextSection(s), offset |-> o + L - SectionSize + HeadLen]
        BY <2>1, <2>4, Units
      <3>2. [section |-> NextSection(s), offset |-> o + L - SectionSize + HeadLen].section = NextSection(s)
            /\ [section |-> NextSection(s), offset |-> o + L - SectionSize + HeadLen].offset = o + L - SectionSize + HeadLen
            /\ [section |-> tailSec, offset |-> off].section = tailSec
            /\ [section |-> tailSec, offset |-> off].offset = off
        OBVIOUS
      <3>q. QED BY <2>2, <2>4, <3>1, <3>2
    <2>q. QED BY <1>3, <1>4, <2>3, <2>4
  \* The part in flash, when m units are stored.
  <1>7. ASSUME NEW m \in 1 .. L, Stored([section |-> s, offset |-> o], n, m)
        PROVE  /\ InF(s, o)
               /\ \E k \in 1 .. m : FlHolds(s, o, n, k) /\ (k < m => FEnd(s, o, k))
    <2>1. s \in Sections \ Ahead BY <1>7 DEF Stored, Laid
    <2>2. Has(s, o) BY <1>2, <2>1 DEF Has
    <2>3. InF(s, o) BY <1>0, <1>2, <2>2, InFIs
    <2>4. m \in 1 .. NodeLen(n) BY <1>3
    <2>q. QED BY <1>7, <2>3, <2>4, FlashPart
  <1>8. ASSUME NEW k \in 1 .. L - 1, FlHolds(s, o, n, k), FEnd(s, o, k) PROVE Halved(s, o, n)
    <2>1. o + k >= SectionSize /\ o + k - SectionSize + HeadLen = Base
      BY <1>2, <1>5, <1>8 DEF FEnd
    <2>2. MetaLen(n) \in 1 .. AddLen BY NodeKinds
    <2>3. k >= MetaLen(n) BY <1>4, <1>5, <2>1, <2>2
    <2>4. k \in MetaLen(n) .. NodeLen(n) - 1 BY <1>3, <2>2, <2>3
    <2>q. QED BY <1>8, <2>4 DEF Halved
  <1>9. ~FlHolds(s, o, n, L)
    <2> SUFFICES ASSUME FlHolds(s, o, n, L) PROVE FALSE OBVIOUS
    <2>1. L - 1 \in 0 .. L - 1 /\ L - 1 \in 0 .. Payload /\ o \in 0 .. SectionSize - 1 BY <1>3, <1>4
    <2>2. o + (L - 1) >= SectionSize
      <3>1. off > HeadLen BY <1>4, <1>5, LengthAssumption
      <3>q. QED BY <1>3, <1>4, <1>6, <3>1
    <2>3. SectionOffset(s, o, L - 1) = [section |-> NextSection(s), offset |-> o + (L - 1) - SectionSize + HeadLen]
      BY <2>1, <2>2, Units
    <2>4. PICK p : p = SectionOffset(s, o, L - 1) OBVIOUS
    <2>5. InF(p.section, p.offset) BY <2>1, <2>4 DEF FlHolds
    <2>6. p.section = tailSec /\ p.offset = o + (L - 1) - SectionSize + HeadLen BY <1>6, <2>3, <2>4
    <2>7. p.offset < FLimit BY <1>5, <2>5, <2>6 DEF InF
    <2>8. p.offset = off - 1 BY <1>3, <1>4, <1>6, <2>6
    <2>q. QED BY <1>5, <2>7, <2>8
  <1>10. ASSUME Stored([section |-> s, offset |-> o], n, L) PROVE InF(s, o) /\ Halved(s, o, n)
    <2>1. L \in 1 .. L BY <1>3
    <2>2. InF(s, o) /\ \E k \in 1 .. L : FlHolds(s, o, n, k) /\ (k < L => FEnd(s, o, k)) BY <1>7, <1>10, <2>1
    <2>3. PICK k \in 1 .. L : FlHolds(s, o, n, k) /\ (k < L => FEnd(s, o, k)) BY <2>2
    <2>4. k # L BY <1>9, <2>3
    <2>5. k \in 1 .. L - 1 /\ FEnd(s, o, k) BY <1>3, <2>3, <2>4
    <2>q. QED BY <1>8, <2>2, <2>3, <2>5
  <1>11. \A m : Stored(e, n, m) <=> Stored([section |-> s, offset |-> o], n, m) BY <1>2 DEF Stored
  <1>12. CASE Stored(e, e.node, NodeLen(e.node)) BY <1>2, <1>3, <1>10, <1>11, <1>12
  <1>13. CASE Under /\ e = entry
    <2>1. pc = "emit" /\ Done > 0 BY <1>13 DEF Under
    <2>2. Done \in Nat /\ Left \in Nat /\ Done <= NodeLen(entry.node) BY <2>1, LeftIs
    <2>3. NodeLen(entry.node) = L BY <1>2, <1>3, <1>13
    <2>4. Stored(entry, entry.node, Done) BY <2>1 DEF LInv, Emitting
    <2>5. PICK m \in 1 .. L : m = Done BY <2>1, <2>2, <2>3
    <2>6. Stored([section |-> s, offset |-> o], n, m) BY <1>2, <1>11, <1>13, <2>4, <2>5
    <2>7. InF(s, o) /\ \E k \in 1 .. m : FlHolds(s, o, n, k) /\ (k < m => FEnd(s, o, k)) BY <1>7, <2>6
    <2>8. PICK k \in 1 .. m : FlHolds(s, o, n, k) /\ (k < m => FEnd(s, o, k)) BY <2>7
    <2>9. k # L BY <1>9, <2>8
    <2>10. FEnd(s, o, k)
      <3>1. CASE k < m BY <2>8, <3>1
      <3>2. CASE k = m
        <4>1. Left > 0
          <5>1. Left = L - Done BY <2>3 DEF Left
          <5>q. QED BY <2>2, <2>5, <2>9, <3>2, <5>1
        <4>2. InF(entry.section, entry.offset) /\ FlHolds(entry.section, entry.offset, entry.node, Done)
          BY <1>2, <1>13, <2>5, <2>7, <2>8, <3>2
        <4>3. FEnd(entry.section, entry.offset, Done) BY <1>13, <4>1, <4>2, EntryPart
        <4>q. QED BY <1>2, <1>13, <2>5, <3>2, <4>3
      <3>q. QED BY <3>1, <3>2
    <2>11. k \in 1 .. L - 1 BY <2>9
    <2>q. QED BY <1>2, <1>8, <2>7, <2>8, <2>10, <2>11
  <1>q. QED BY <1>12, <1>13

\* Where a header says that the first node of its section is, the walk may begin.
LEMMA StartIs ==
  ASSUME IInv, LInv, Shape, MetaInPage, RoomToCopy, NEW s \in Valid
  PROVE  /\ ~FMid(s, HeadOf(s).offset)
         /\ \A e \in Found : e.section = s => e.offset >= HeadOf(s).offset
         /\ s = FTail /\ Found \subseteq FlashLog => HeadOf(s).offset <= FLimit
  <1>0. TypeOK /\ CacheAligned BY DEF IInv
  <1>1. PICK off \in HeadLen .. SectionSize - 1 : off = HeadOf(s).offset /\ StartsAt(s, off) BY HeadIs
  <1>2. s \in Sections /\ s \in Sections \ Ahead BY DEF Valid
  <1>3. HeadLen \in Nat \ {0} /\ SectionSize \in Nat /\ HeadLen < SectionSize BY Geometry
  <1>4. ~FMid(s, off)
    <2> SUFFICES ASSUME FMid(s, off) PROVE FALSE OBVIOUS
    <2>1. InF(s, off) /\ Mid(s, off) BY <1>2, FMidIs
    <2>2. Has(s, off) BY <1>0, <2>1, InFIs
    <2>q. QED BY <1>1, <2>1, <2>2 DEF StartsAt
  <1>5. ASSUME NEW e \in Found, e.section = s PROVE e.offset >= off
    <2> SUFFICES ASSUME e.offset < off PROVE FALSE
      <3>1. e.offset \in Nat BY FoundIs
      <3>q. QED BY <3>1
    <2>1. /\ e.offset \in HeadLen .. SectionSize - 1 /\ InF(s, e.offset) /\ Fl(s, e.offset) = <<e.node, 1>>
      BY <1>5, FoundIs
    <2>2. Has(s, e.offset) BY <1>0, <2>1, InFIs
    <2>3. e.offset \in HeadLen .. off - 1 BY <1>3, <2>1
    <2>4. Mid(s, e.offset) BY <1>1, <2>2, <2>3 DEF StartsAt
    <2>5. At(s, e.offset) = <<e.node, 1>>
      <3>1. e.offset \in 0 .. SectionSize - 1 BY <1>3, <2>1
      <3>q. QED BY <1>2, <2>1, <3>1, FlashIs
    <2>6. PICK n \in Nodes : \E i \in 2 .. NodeLen(n) : At(s, e.offset) = <<n, i>> BY <2>4 DEF Mid
    <2>7. PICK i \in 2 .. NodeLen(n) : At(s, e.offset) = <<n, i>> BY <2>6
    <2>8. i = 1 BY <2>5, <2>7, UnitIs
    <2>9. i >= 2 OBVIOUS
    <2>q. QED BY <2>8, <2>9
  <1>6. ASSUME s = FTail, Found \subseteq FlashLog PROVE off <= FLimit
    <2> SUFFICES ASSUME ~(off <= FLimit) PROVE FALSE OBVIOUS
    <2>1. FLimit \in Nat /\ HeadLen <= FLimit BY <1>0, LimitIs
    <2>2. off > FLimit BY <2>1
    <2>3. Base # 0
      <3>1. Base = 0 => FLimit = SectionSize BY <1>0, LimitIs
      <3>q. QED BY <1>3, <2>2, <3>1
    <2>4. FTail = tailSec /\ FLimit = Base BY <1>0, <2>3, LimitIs
    <2>5. Straddles(s, off)
      <3>1. off > Base /\ off > HeadLen BY <1>3, <2>1, <2>2, <2>4
      <3>q. QED BY <1>1, <1>6, <2>4, <3>1 DEF StartsAt
    <2>6. PICK e \in Located :
             /\ e.section # s /\ e.offset >= HeadLen
             /\ SectionOffset(e.section, e.offset, NodeLen(e.node)) = [section |-> s, offset |-> off]
             /\ Stored(e, e.node, NodeLen(e.node)) \/ (Under /\ e = entry)
      BY <2>5 DEF Straddles
    <2>7. off \in Nat /\ off > Base BY <1>3, <2>1, <2>2, <2>4
    <2>8. InF(e.section, e.offset) /\ Halved(e.section, e.offset, e.node)
      BY <1>6, <2>3, <2>4, <2>6, <2>7, StraddlesHalved
    <2>9. e \in Found BY <2>6, <2>8, FoundIs
    <2>10. e \in FlashLog BY <1>6, <2>9
    <2>11. Stored(e, e.node, NodeLen(e.node)) /\ e.node \in Nodes
      BY <2>10 DEF FlashLog, Log, Located
    <2>12. PICK n \in Nodes, o \in HeadLen .. SectionSize - 1, t \in Sections :
              n = e.node /\ o = e.offset /\ t = e.section
      <3>1. e.offset \in 0 .. SectionSize - 1 BY DEF Located
      <3>2. e.offset \in HeadLen .. SectionSize - 1 BY <1>3, <2>6, <3>1
      <3>q. QED BY <3>2 DEF Located
    <2>13. NodeLen(n) \in Nat \ {0} /\ NodeLen(n) <= Payload /\ Payload = SectionSize - HeadLen BY NodeFits DEF Payload
    <2>14. PICK k \in MetaLen(n) .. NodeLen(n) - 1 : FlHolds(t, o, n, k) /\ FEnd(t, o, k)
      BY <2>8, <2>12 DEF Halved
    <2>15. MetaLen(n) \in 1 .. AddLen BY NodeKinds
    <2>16. k \in Nat /\ k \in 0 .. NodeLen(n) - 1 /\ k \in 0 .. Payload BY <2>13, <2>14, <2>15
    <2>17. o + k >= SectionSize /\ o + k - SectionSize + HeadLen = Base /\ NextSection(t) = tailSec
      BY <1>6, <2>4, <2>6, <2>12, <2>14 DEF FEnd
    <2>18. SectionOffset(t, o, k) = [section |-> tailSec, offset |-> Base]
      <3>1. o \in 0 .. SectionSize - 1 BY <1>3
      <3>q. QED BY <2>16, <2>17, <3>1, Units
    <2>19. InFlash(e) BY <2>10 DEF FlashLog
    <2>20. ~(SectionOffset(t, o, k).section = tailSec /\ SectionOffset(t, o, k).offset >= Base)
      BY <2>12, <2>16, <2>19 DEF InFlash
    <2>21. Base \in Nat BY <1>0, BaseIs
    <2>q. QED BY <2>18, <2>20, <2>21
  <1>q. QED BY <1>1, <1>4, <1>5, <1>6

\* nodes_info_load's walk over a section.
SectionNodes(s) == Walk(s, HeadOf(s).offset)

\* The walk over a section finds the nodes of flash that begin in it, in their order, and over
\* the last one it ends where the log in flash does.
LEMMA SectionFound ==
  ASSUME IInv, LInv, Shape, MetaInPage, RoomToCopy, NEW s \in Valid
  PROVE  /\ SectionNodes(s).nodes \in Seq(Located)
         /\ Elements(SectionNodes(s).nodes) = {e \in Found : e.section = s}
         /\ Sorted(SectionNodes(s).nodes, Earlier)
         /\ s = FTail /\ Found \subseteq FlashLog => SectionNodes(s).end = FLimit
         /\ SectionNodes(s).end \in Nat
  <1>1. PICK off \in HeadLen .. SectionSize - 1 : off = HeadOf(s).offset BY HeadIs
  <1>2. HeadLen \in Nat /\ SectionSize \in Nat /\ off \in HeadLen .. 3 * SectionSize /\ off \in 0 .. 3 * SectionSize
    BY Geometry
  <1>3. ~FMid(s, off) /\ (\A e \in Found : e.section = s => e.offset >= off)
        /\ (s = FTail /\ Found \subseteq FlashLog => off <= FLimit)
    BY <1>1, StartIs
  <1>4. Finds(s, off) BY <1>2, <1>3, WalkFinds
  <1>5. s \in Sections BY DEF Valid
  <1>6. Walk(s, off) \in [nodes : Seq(Located), end : Nat] BY <1>2, <1>5, WalkIs
  <1>7. {e \in Found : e.section = s /\ e.offset >= off} = {e \in Found : e.section = s} BY <1>3
  <1>q. QED BY <1>1, <1>3, <1>4, <1>6, <1>7 DEF Finds, SectionNodes

\* The log that nodes_info_load goes through.
Loaded ==
  LET order == LoadOrder(Valid, FTail)
  IN  FlattenSeq([i \in DOMAIN order |-> SectionNodes(order[i]).nodes])

\* nodes_info_load.
LEMMA LoadMeans ==
  ASSUME Countable, IInv, LInv, Shape, Valid # {}, Load
  PROVE  /\ list' = Survivors(Loaded)
         /\ size' = [s \in Sections |-> Total(list'[s])]
         /\ dirIdMax' = Max({0} \cup {e.node.id : e \in {x \in ToSet(Loaded) : IsDir(x.node)}})
         /\ headSec' = headSec /\ tailSec' = FTail /\ tailCount' = tailCount - Age(FTail)
         /\ avail' = SectionNodes(FTail).end
         /\ free' = SectionSize - avail' + Payload * Gap(headSec, FTail)
  <1>1. ValidSections = Valid BY ValidIs
  <1> DEFINE count == [s \in Valid |-> HeadOf(s).count]
  <1>2. FindHeadTail(Valid, count) = [head |-> headSec, tail |-> FTail]
    <2>1. \A s \in Valid : count[s] = tailCount - Age(s) BY HeadIs
    <2> HIDE DEF count
    <2>q. QED BY <2>1, EndsAre
  <1>3. HeadOf(FTail).count = tailCount - Age(FTail)
    <2>1. FTail \in Valid BY ValidArc
    <2>q. QED BY <2>1, HeadIs
  <1> DEFINE ends == FindHeadTail(Valid, count)
  <1>4. ends.head = headSec /\ ends.tail = FTail BY <1>2
  <1> HIDE DEF ends
  <1>5. Load = LET order == LoadOrder(Valid, ends.tail)
                   log == FlattenSeq([i \in DOMAIN order |-> SectionNodes(order[i]).nodes])
               IN  /\ list' = Survivors(log)
                   /\ size' = [s \in Sections |-> Total(list'[s])]
                   /\ dirIdMax' = Max({0} \cup {e.node.id : e \in {x \in ToSet(log) : IsDir(x.node)}})
                   /\ headSec' = ends.head /\ tailSec' = ends.tail
                   /\ tailCount' = HeadOf(ends.tail).count
                   /\ avail' = SectionNodes(ends.tail).end
                   /\ free' = SectionSize - avail' + Payload * Gap(ends.head, ends.tail)
    BY <1>1 DEF Load, SectionNodes, ends
  <1>q. QED BY <1>3, <1>4, <1>5 DEF Loaded

\* It goes through all that is found, in the order of the log.
LEMMA LoadedIs ==
  ASSUME IInv, LInv, Shape, MetaInPage, RoomToCopy, Valid # {}
  PROVE  /\ Loaded \in Seq(Located)
         /\ Elements(Loaded) = Found
         /\ Sorted(Loaded, Earlier)
  <1> DEFINE order == LoadOrder(Valid, FTail)
             seqs == [i \in DOMAIN order |-> SectionNodes(order[i]).nodes]
  <1>1. /\ order \in Seq(Sections) /\ order # << >>
        /\ Elements(order) = Valid
        /\ \A k, l \in 1 .. Len(order) : k < l => Age(order[k]) > Age(order[l])
    BY OrderIs
  <1> HIDE DEF order
  <1>2. DOMAIN order = 1 .. Len(order) /\ Len(order) \in Nat BY <1>1
  <1>3. \A i \in 1 .. Len(order) : order[i] \in Valid BY <1>1 DEF Elements
  <1>4. seqs \in Seq(Seq(Located)) /\ Len(seqs) = Len(order) /\ \A i \in 1 .. Len(order) : seqs[i] = SectionNodes(order[i]).nodes
    <2>1. \A i \in 1 .. Len(order) : SectionNodes(order[i]).nodes \in Seq(Located) BY <1>3, SectionFound
    <2>2. seqs \in [1 .. Len(order) -> Seq(Located)] BY <1>2, <2>1
    <2>3. \A i \in 1 .. Len(order) : seqs[i] = SectionNodes(order[i]).nodes BY <1>2
    <2> HIDE DEF seqs
    <2>q. QED BY <1>2, <2>2, <2>3
  <1> HIDE DEF seqs
  <1>5. \A i \in 1 .. Len(order) : /\ Elements(seqs[i]) = {e \in Found : e.section = order[i]}
                                   /\ Sorted(seqs[i], Earlier)
    BY <1>3, <1>4, SectionFound
  <1>6. seqs # << >>
    <2>1. Len(order) # 0 BY <1>1
    <2>2. Len(<< >>) = 0 OBVIOUS
    <2>q. QED BY <1>4, <2>1, <2>2
  <1>7. UNION {Elements(seqs[k]) : k \in 1 .. Len(seqs)} = Found
    <2>1. ASSUME NEW e \in Found PROVE \E k \in 1 .. Len(seqs) : e \in Elements(seqs[k])
      <3>1. e.section \in Valid BY FoundIs
      <3>2. e.section \in Elements(order) BY <1>1, <3>1
      <3>3. PICK k \in 1 .. Len(order) : order[k] = e.section BY <3>2 DEF Elements
      <3>q. QED BY <1>4, <1>5, <3>3
    <2>2. ASSUME NEW k \in 1 .. Len(seqs), NEW e \in Elements(seqs[k]) PROVE e \in Found
      BY <1>4, <1>5
    <2>q. QED BY <2>1, <2>2
  <1>8. ASSUME NEW k \in 1 .. Len(seqs), NEW l \in 1 .. Len(seqs), k < l,
               NEW x \in Elements(seqs[k]), NEW y \in Elements(seqs[l])
        PROVE  <<x, y>> \in Earlier
    <2>1. x \in Found /\ y \in Found /\ x.section = order[k] /\ y.section = order[l] BY <1>4, <1>5
    <2>2. Age(x.section) > Age(y.section) BY <1>1, <1>4, <1>8, <2>1
    <2>3. Before(x, y) BY <2>2 DEF Before
    <2>q. QED BY <2>1, <2>3 DEF Earlier
  <1>9. PICK lt : lt = Earlier OBVIOUS
  <1>10. \A k \in 1 .. Len(seqs) : Sorted(seqs[k], lt) BY <1>4, <1>5, <1>9
  <1>11. \A k, l \in 1 .. Len(seqs) : k < l =>
           \A x \in Elements(seqs[k]), y \in Elements(seqs[l]) : <<x, y>> \in lt
    BY <1>8, <1>9
  <1>12. PICK f : f = FlattenSeq(seqs) OBVIOUS
  <1>13. f \in Seq(Located) /\ Elements(f) = UNION {Elements(seqs[k]) : k \in 1 .. Len(seqs)}
    BY <1>4, <1>6, <1>12, FlattenIs
  <1>14. Sorted(f, lt) BY <1>4, <1>6, <1>10, <1>11, <1>12, FlattenIs
  <1>15. Loaded = f BY <1>12 DEF Loaded, order, seqs
  <1>q. QED BY <1>7, <1>9, <1>13, <1>14, <1>15

\* A sequence in the order of the log holds each entry once.
LEMMA SortedOnce ==
  ASSUME IInv, LInv, Shape, MetaInPage, RoomToCopy, NEW q, Elements(q) \subseteq Found, Sorted(q, Earlier),
         NEW i \in 1 .. Len(q), NEW j \in 1 .. Len(q), q[i] = q[j], Len(q) \in Nat
  PROVE  i = j
  <1>1. q[i] \in Found BY DEF Elements
  <1>2. ~Before(q[i], q[i]) BY <1>1, FoundOrder
  <1>3. \A x, y \in 1 .. Len(q) : x < y => Before(q[x], q[y])
    <2>1. \A x, y \in 1 .. Len(q) : x < y => <<q[x], q[y]>> \in Earlier BY DEF Sorted
    <2>2. \A a, b : <<a, b>> \in Earlier => Before(a, b) BY DEF Earlier
    <2>q. QED BY <2>1, <2>2
  <1>q. QED BY <1>2, <1>3

\* node_metadata_parse, one node after the other: what is left is what the log says.
LEMMA SurvivorsAre ==
  ASSUME IInv, LInv, Shape, MetaInPage, RoomToCopy, Valid # {}, NEW s \in Sections
  PROVE  /\ Survivors(Loaded)[s] \in Seq(Entries)
         /\ Elements(Survivors(Loaded)[s]) = {e \in Surv(Found) : e.section = s}
         /\ \A i, j \in 1 .. Len(Survivors(Loaded)[s]) :
              Survivors(Loaded)[s][i] = Survivors(Loaded)[s][j] => i = j
  <1>1. PICK log \in Seq(Located) : log = Loaded /\ Elements(log) = Found /\ Sorted(log, Earlier) BY LoadedIs
  <1> DEFINE Lasts(k) == Adds(log[k].node) /\ \A j \in k + 1 .. Len(log) : ~Overrides(log[j].node, log[k].node)
             left == {log[i] : i \in {k \in 1 .. Len(log) : Lasts(k)}}
             q == Among(log, {e \in left : e.section = s})
  <1>2. Survivors(log)[s] = q BY DEF Survivors
  <1>3. Len(log) \in Nat OBVIOUS
  <1>4. \A k, j \in 1 .. Len(log) : k < j => Before(log[k], log[j])
    <2>1. \A x, y \in 1 .. Len(log) : x < y => <<log[x], log[y]>> \in Earlier BY <1>1 DEF Sorted
    <2>2. \A a, b : <<a, b>> \in Earlier => Before(a, b) BY DEF Earlier
    <2>q. QED BY <2>1, <2>2
  <1>5. \A k \in 1 .. Len(log) : log[k] \in Found BY <1>1 DEF Elements
  <1>6. ASSUME NEW k \in 1 .. Len(log) PROVE Lasts(k) <=> log[k] \in Surv(Found)
    <2>1. ASSUME Lasts(k), NEW f \in Found, Before(log[k], f) PROVE ~Overrides(f.node, log[k].node)
      <3>1. f \in Elements(log) BY <1>1
      <3>2. PICK j \in 1 .. Len(log) : f = log[j] BY <3>1 DEF Elements
      <3>3. ~(j < k)
        <4>1. j < k => Before(f, log[k]) BY <1>4, <3>2
        <4>q. QED BY <1>5, <2>1, <4>1, FoundOrder
      <3>4. j # k BY <1>5, <2>1, <3>2, FoundOrder
      <3>5. j \in k + 1 .. Len(log) BY <1>3, <3>3, <3>4
      <3>q. QED BY <2>1, <3>2, <3>5
    <2>2. ASSUME log[k] \in Surv(Found), NEW j \in k + 1 .. Len(log) PROVE ~Overrides(log[j].node, log[k].node)
      <3>1. j \in 1 .. Len(log) /\ k < j BY <1>3
      <3>2. log[j] \in Found /\ Before(log[k], log[j]) BY <1>4, <1>5, <3>1
      <3>q. QED BY <2>2, <3>2 DEF Surv
    <2>3. log[k] \in Surv(Found) => Adds(log[k].node) BY DEF Surv
    <2>4. Lasts(k) => log[k] \in Surv(Found)
      <3>1. log[k] \in Found BY <1>5
      <3>q. QED BY <2>1, <3>1 DEF Surv
    <2>q. QED BY <2>2, <2>3, <2>4
  <1>7. left = Surv(Found)
    <2>1. ASSUME NEW e \in Surv(Found) PROVE e \in left
      <3>1. e \in Elements(log) BY <1>1 DEF Surv
      <3>2. PICK k \in 1 .. Len(log) : e = log[k] BY <3>1 DEF Elements
      <3>q. QED BY <1>6, <2>1, <3>2
    <2>2. ASSUME NEW e \in left PROVE e \in Surv(Found)
      <3>1. PICK k \in 1 .. Len(log) : Lasts(k) /\ e = log[k] OBVIOUS
      <3> HIDE DEF Lasts
      <3>q. QED BY <1>6, <3>1
    <2>q. QED BY <2>1, <2>2
  <1> HIDE DEF left, q
  <1>8. PICK S : S = {e \in left : e.section = s} OBVIOUS
  <1>9. q \in Seq(Located) /\ Elements(q) = Elements(log) \cap S /\ Sorted(q, Earlier)
    <2>1. PICK lt : lt = Earlier OBVIOUS
    <2>2. q = Among(log, S) BY <1>8 DEF q
    <2>3. q \in Seq(Located) /\ Elements(q) = Elements(log) \cap S BY <2>2, AmongIs
    <2>4. Sorted(log, lt) BY <1>1, <2>1
    <2>5. Sorted(q, lt) BY <2>2, <2>4, AmongIs
    <2>q. QED BY <2>1, <2>3, <2>5
  <1>10. Elements(q) = {e \in Surv(Found) : e.section = s}
    <2>1. Surv(Found) \subseteq Found BY DEF Surv
    <2>q. QED BY <1>1, <1>7, <1>8, <1>9, <2>1
  <1>11. q \in Seq(Entries)
    <2>1. ASSUME NEW i \in 1 .. Len(q) PROVE q[i] \in Entries
      <3>1. q[i] \in Elements(q) BY DEF Elements
      <3>2. q[i] \in Surv(Found) BY <1>10, <3>1
      <3>3. q[i] \in Located /\ Adds(q[i].node) BY <1>9, <3>2 DEF Surv
      <3>4. q[i].node \in RecordAdds \cup DirAdds BY <3>3, NodeKinds DEF Located, Adds
      <3>q. QED BY <3>3, <3>4 DEF Located, Entries
    <2>2. Len(q) \in Nat /\ q \in [1 .. Len(q) -> Located] BY <1>9
    <2>3. q \in [1 .. Len(q) -> Entries] BY <2>1, <2>2
    <2>q. QED BY <2>2, <2>3
  <1>12. \A i, j \in 1 .. Len(q) : q[i] = q[j] => i = j
    <2>1. Elements(q) \subseteq Found BY <1>1, <1>9
    <2>2. Len(q) \in Nat BY <1>9
    <2>q. QED BY <1>9, <2>1, <2>2, SortedOnce
  <1>q. QED BY <1>1, <1>2, <1>10, <1>11, <1>12

\* A set of ids has a greatest element.
LEMMA MaxIs ==
  ASSUME NEW S \in SUBSET (0 .. DirIdMax), 0 \in S
  PROVE  Max(S) \in S /\ \A x \in S : x <= Max(S)
  <1>1. DirIdMax \in Nat BY LengthAssumption
  <1> DEFINE T == {DirIdMax - x : x \in S}
  <1>2. T \in SUBSET Nat /\ T # {}
    <2>1. ASSUME NEW x \in S PROVE DirIdMax - x \in Nat
      <3>1. x \in 0 .. DirIdMax OBVIOUS
      <3>q. QED BY <1>1, <3>1
    <2>2. DirIdMax - 0 \in T OBVIOUS
    <2>3. T \in SUBSET Nat BY <2>1
    <2> HIDE DEF T
    <2>q. QED BY <2>2, <2>3
  <1>3. PICK y \in T : \A z \in T : y <= z
    <2> HIDE DEF T
    <2>q. QED BY <1>2, Least
  <1>4. PICK m \in S : y = DirIdMax - m BY <1>3
  <1>4a. S \subseteq Nat BY <1>1
  <1>5. ASSUME NEW x \in S PROVE m >= x
    <2>1. DirIdMax - x \in T OBVIOUS
    <2>2. y <= DirIdMax - x
      <3> HIDE DEF T
      <3>q. QED BY <1>3, <2>1
    <2>3. x \in Nat /\ m \in Nat BY <1>4a
    <2>q. QED BY <1>1, <1>4, <2>2, <2>3
  <1>6. \E x \in S : \A z \in S : x >= z BY <1>4, <1>5
  <1>7. Max(S) \in S /\ \A z \in S : Max(S) >= z BY <1>6 DEF Max
  <1>q. QED BY <1>1, <1>7

\* nodes_info_load rebuilds the lists, their sizes and dir_id_max.
LEMMA LoadIs ==
  ASSUME Countable, IInv, LInv, Shape, MetaInPage, RoomToCopy, Valid # {}, Load
  PROVE  /\ list' \in [Sections -> Seq(Entries)] /\ size' \in [Sections -> Int]
         /\ Placed' /\ NoRepeat' /\ Summed'
         /\ Live' = Surv(Found)
         /\ dirIdMax' \in Parents /\ \A e \in Found : IsDir(e.node) => e.node.id <= dirIdMax'
  <1>1. list' = Survivors(Loaded) BY LoadMeans
  <1>2. \A s \in Sections : /\ list'[s] \in Seq(Entries)
                            /\ Elements(list'[s]) = {e \in Surv(Found) : e.section = s}
                            /\ \A i, j \in 1 .. Len(list'[s]) : list'[s][i] = list'[s][j] => i = j
    BY <1>1, SurvivorsAre
  <1>3. list' \in [Sections -> Seq(Entries)]
    <2>1. \E f : list' = [s \in Sections |-> f[s]]
      <3>1. PICK f : f = [s \in Sections |-> list'[s]] OBVIOUS
      <3>2. list' = [s \in Sections |-> list'[s]] BY <1>1 DEF Survivors
      <3>q. QED BY <3>1, <3>2
    <2>q. QED BY <1>2, <2>1
  <1>4. Placed'
    <2>1. ASSUME NEW s \in Sections, NEW i \in 1 .. Len(list'[s]) PROVE list'[s][i].section = s
      <3>1. list'[s][i] \in Elements(list'[s]) BY DEF Elements
      <3>q. QED BY <1>2, <3>1
    <2>q. QED BY <2>1 DEF Placed
  <1>5. NoRepeat' BY <1>2 DEF NoRepeat
  <1>6. size' = [s \in Sections |-> Total(list'[s])] BY LoadMeans
  <1>7. Summed' BY <1>6 DEF Summed
  <1>8. size' \in [Sections -> Int]
    <2>1. ASSUME NEW s \in Sections PROVE Total(list'[s]) \in Int
      <3>1. PICK l \in Seq(Entries) : l = list'[s] BY <1>2
      <3>2. PICK f : AddsUp(f, l) BY AddsExists
      <3>q. QED BY <3>1, <3>2, TotalIs
    <2>q. QED BY <1>6, <2>1
  <1>9. Live' = Surv(Found)
    <2>1. Live' = UNION {Elements(list'[s]) : s \in Sections} BY DEF Live, Elements
    <2>2. ASSUME NEW e \in Surv(Found) PROVE e.section \in Sections
      <3>1. e \in Found BY DEF Surv
      <3>q. QED BY <3>1, FoundIs
    <2>q. QED BY <1>2, <2>1, <2>2
  <1>10. PICK S : S = {0} \cup {e.node.id : e \in {x \in ToSet(Loaded) : IsDir(x.node)}} OBVIOUS
  <1>11. ToSet(Loaded) = Found
    <2>1. Loaded \in Seq(Located) /\ Elements(Loaded) = Found BY LoadedIs
    <2>2. DOMAIN Loaded = 1 .. Len(Loaded) BY <2>1
    <2>q. QED BY <2>1, <2>2 DEF ToSet, Elements
  <1>12. \A e \in Found : IsDir(e.node) => e.node.id \in DirIds
    <2>1. ASSUME NEW e \in Found, IsDir(e.node) PROVE e.node.id \in DirIds
      <3>1. e.node \in Nodes BY FoundIs
      <3>2. e.node \in DirAdds BY <2>1, <3>1, NodeKinds
      <3>q. QED BY <3>2 DEF DirAdds
    <2>q. QED BY <2>1
  <1>13. Parents = 0 .. DirIdMax /\ DirIds \subseteq 0 .. DirIdMax
    BY LengthAssumption DEF Parents, RootId, DirIds
  <1>14. S \in SUBSET (0 .. DirIdMax) /\ 0 \in S
    <2>1. 0 \in 0 .. DirIdMax BY LengthAssumption
    <2>q. QED BY <1>10, <1>11, <1>12, <1>13, <2>1
  <1>15. dirIdMax' = Max(S) BY <1>10, LoadMeans
  <1>16. dirIdMax' \in S /\ \A x \in S : x <= dirIdMax' BY <1>14, <1>15, MaxIs
  <1>17. \A e \in Found : IsDir(e.node) => e.node.id \in S BY <1>10, <1>11
  <1>q. QED BY <1>3, <1>4, <1>5, <1>7, <1>8, <1>9, <1>13, <1>14, <1>16, <1>17

\* With no header in flash the volume is empty.
LEMMA FreshIs ==
  ASSUME IInv, LInv, Shape, MetaInPage, RoomToCopy, Valid = {}
  PROVE  /\ Found = {} /\ FlashLog = {}
         /\ flash = [a \in Addresses |-> Erased]
  <1>1. Found = {}
    <2>1. \A e \in Found : e.section \in Valid BY FoundIs
    <2>q. QED BY <2>1
  <1>2. FlashLog = {} BY <1>1, WholeFound
  <1>3. ASSUME NEW a \in Addresses PROVE flash[a] = Erased
    <2>1. PICK s \in Sections, o \in 0 .. SectionSize - 1 : a = FlashAddr(s, o) BY AddressSplit
    <2>2. Fl(s, o) = Erased BY FlashIs
    <2>q. QED BY <2>1, <2>2 DEF Fl
  <1>4. flash \in [Addresses -> Cells] BY DEF IInv, TypeOK
  <1>q. QED BY <1>1, <1>2, <1>3, <1>4

\* A reset finds whole nodes only, unless it cuts one in two.
LEMMA TornIs ==
  ASSUME Countable, IInv, LInv, Shape, MetaInPage, RoomToCopy, Reset
  PROVE  /\ Live' = Surv(Found)
         /\ ~torn' => ~torn /\ Found = FlashLog
         /\ ~torn /\ Found = FlashLog => ~torn'
  <1>1. Live' = Surv(Found)
    <2>1. CASE Valid = {}
      <3>1. ValidSections = {} BY <2>1, ValidIs
      <3>2. Fresh BY <3>1 DEF Reset
      <3>3. list' = [s \in Sections |-> << >>] BY <3>2 DEF Fresh
      <3>4. Live' = {}
        <4>1. ASSUME NEW s \in Sections PROVE 1 .. Len(list'[s]) = {}
          <5>1. list'[s] = << >> BY <3>3
          <5>2. Len(<< >>) = 0 OBVIOUS
          <5>q. QED BY <5>1, <5>2
        <4>q. QED BY <4>1 DEF Live
      <3>5. Found = {} BY <2>1, FreshIs
      <3>q. QED BY <3>4, <3>5 DEF Surv
    <2>2. CASE Valid # {}
      <3>1. ValidSections # {} BY <2>2, ValidIs
      <3>2. Load BY <3>1 DEF Reset
      <3>q. QED BY <2>2, <3>2, LoadIs
    <2>q. QED BY <2>1, <2>2
  <1>2. torn' <=> (torn \/ \E e \in Live' : ~IntactIn(e)) BY DEF Reset
  <1>3. ASSUME NEW e \in Found, e \notin FlashLog PROVE e \in Surv(Found) /\ ~IntactIn(e)
    <2>1. /\ Halved(e.section, e.offset, e.node) /\ e.node \in Nodes /\ e.section \in Sections
          /\ e.offset \in HeadLen .. SectionSize - 1 /\ InF(e.section, e.offset)
      BY <1>3, FoundIs
    <2>2. IsRecord(e.node) /\ FlashUnits(e.section, e.offset, NodeLen(e.node)) # Image(e.node)
      BY <2>1, HalvedIs
    <2>3. \A f \in Found : ~Before(e, f)
      <3>1. ASSUME NEW f \in Found PROVE ~Before(e, f)
        <4>1. f # e => Before(f, e) BY <2>1, FoundOrder
        <4>2. ~Before(e, e) BY FoundOrder
        <4>3. ~(Before(e, f) /\ Before(f, e)) BY FoundOrder
        <4>q. QED BY <4>1, <4>2, <4>3
      <3>q. QED BY <3>1
    <2>q. QED BY <2>2, <2>3 DEF Surv, Adds, IntactIn
  <1>4. ASSUME NEW e \in FlashLog PROVE IntactIn(e)
    <2>1. e \in Located /\ e = [node |-> e.node, section |-> e.section, offset |-> e.offset]
      BY DEF FlashLog, Log, Located
    <2>2. Whole(e.section, e.offset, e.node) BY <2>1 DEF Whole
    <2>3. PICK n \in Nodes, s \in Sections, o \in HeadLen .. SectionSize - 1 :
             n = e.node /\ s = e.section /\ o = e.offset /\ FlHolds(s, o, n, NodeLen(n))
      BY <2>2, WholeHolds
    <2>4. PICK L \in Nat : L = NodeLen(n) /\ L <= Payload BY NodeFits
    <2>5. L \in 0 .. Payload /\ o \in 0 .. SectionSize - 1 BY <2>4, Geometry DEF Payload
    <2>6. \A i \in 0 .. L - 1 : Fl(SectionOffset(s, o, i).section, SectionOffset(s, o, i).offset) = <<n, i + 1>>
      BY <2>3, <2>4 DEF FlHolds
    <2>7. FlashUnits(s, o, L) = [i \in 1 .. L |-> <<n, i>>] BY <2>5, <2>6, FlashUnitsIs
    <2>8. Image(n) = [i \in 1 .. L |-> <<n, i>>] BY <2>4 DEF Image
    <2>q. QED BY <2>3, <2>4, <2>7, <2>8 DEF IntactIn
  <1>5. FlashLog \subseteq Found BY WholeFound
  <1>6. Surv(Found) \subseteq Found BY DEF Surv
  <1>7. ~torn' => ~torn /\ Found = FlashLog BY <1>1, <1>2, <1>3, <1>5
  <1>8. ~torn /\ Found = FlashLog => ~torn' BY <1>1, <1>2, <1>4, <1>6
  <1>q. QED BY <1>1, <1>7, <1>8

-----------------------------------------------------------------------------
(* The state after a reset that has torn nothing. *)

\* What is in flash of the log is its beginning.
LEMMA FlashPrefix ==
  ASSUME IInv, LInv
  PROVE  Prefix(FlashLog)
  <1> SUFFICES ASSUME NEW e \in FlashLog, NEW f \in Log, Before(f, e), f \notin FlashLog PROVE FALSE BY DEF Prefix
  <1>0. TypeOK /\ CacheAligned BY DEF IInv
  <1>1. e \in Log /\ InFlash(e) BY DEF FlashLog
  <1>2. PICK t \in Sections, q \in HeadLen .. SectionSize - 1 : t = e.section /\ q = e.offset BY <1>1, LogEntry
  <1>3. PICK s \in Sections, o \in HeadLen .. SectionSize - 1, n \in Nodes :
          s = f.section /\ o = f.offset /\ n = f.node /\ Stored(f, n, NodeLen(n))
    BY LogEntry
  <1>4. PICK L \in Nat \ {0} : L = NodeLen(n) /\ L <= Payload BY NodeFits
  <1>5. HeadLen \in Nat \ {0} /\ SectionSize \in Nat /\ HeadLen < SectionSize /\ Payload = SectionSize - HeadLen
    BY Geometry DEF Payload
  <1>6. Base \in Nat BY <1>0, BaseIs
  <1>7. ~InFlash(f) BY DEF FlashLog
  <1>8. PICK i \in 0 .. L - 1 : /\ SectionOffset(s, o, i).section = tailSec
                                /\ SectionOffset(s, o, i).offset >= Base
    BY <1>3, <1>4, <1>7 DEF InFlash
  <1>9. ~(t = tailSec /\ q >= Base)
    <2>1. 0 \in 0 .. NodeLen(e.node) - 1
      <3>1. NodeLen(e.node) \in Nat \ {0} BY <1>1, LogEntry
      <3>q. QED BY <3>1
    <2>2. SectionOffset(t, q, 0) = [section |-> t, offset |-> q]
      <3>1. 0 \in 0 .. Payload /\ q \in 0 .. SectionSize - 1 /\ q + 0 < SectionSize /\ q + 0 = q BY <1>5
      <3>q. QED BY <3>1, Units
    <2>3. ~(SectionOffset(t, q, 0).section = tailSec /\ SectionOffset(t, q, 0).offset >= Base)
      BY <1>1, <1>2, <2>1 DEF InFlash
    <2>q. QED BY <2>2, <2>3
  <1>10. At(t, q) = <<e.node, 1>> BY <1>1, <1>2, LogEntry
  <1>11. ~ \E j \in 1 .. L - 1 : SectionOffset(s, o, j) = [section |-> t, offset |-> q]
    <2> SUFFICES ASSUME NEW j \in 1 .. L - 1, SectionOffset(s, o, j) = [section |-> t, offset |-> q] PROVE FALSE
      OBVIOUS
    <2>1. j \in 0 .. L - 1 OBVIOUS
    <2>2. Holds(s, o, n, L) BY <1>3, <1>4 DEF Stored
    <2>3. AtPlace(SectionOffset(s, o, j)) = <<n, j + 1>> BY <2>1, <2>2 DEF Holds
    <2>4. At(t, q) = <<n, j + 1>> BY <2>3 DEF AtPlace
    <2>5. j + 1 = 1 BY <1>10, <2>4, UnitIs
    <2>q. QED BY <2>5
  <1>12. /\ Age(tailSec) = 0 /\ Age(s) \in Nat /\ Age(t) \in Nat
         /\ Age(t) = 0 => t = tailSec
         /\ s # tailSec => Age(NextSection(s)) = Age(s) - 1
    <2>1. /\ \A x \in Sections : Age(x) \in 0 .. SectionNum - 1
          /\ \A x, y \in Sections : Age(x) = Age(y) => x = y
          /\ Age(tailSec) = 0
          /\ \A x \in Sections : x # tailSec => Age(x) > 0 /\ Age(NextSection(x)) = Age(x) - 1
      BY <1>0, Ages
    <2>2. tailSec \in Sections BY <1>0 DEF TypeOK
    <2>3. Age(s) \in Nat /\ Age(t) \in Nat BY <2>1, Geometry
    <2>q. QED BY <2>1, <2>2, <2>3
  <1>13. Age(s) > Age(t) \/ (s = t /\ o < q) BY <1>2, <1>3 DEF Before
  <1>14. i \in 0 .. Payload /\ o \in 0 .. SectionSize - 1 /\ i \in Nat BY <1>4, <1>5
  <1>15. CASE o + i < SectionSize
    <2>1. SectionOffset(s, o, i) = [section |-> s, offset |-> o + i] BY <1>14, <1>15, Units
    <2>2. s = tailSec /\ o + i >= Base BY <1>8, <2>1
    <2>3. s = t /\ o < q BY <1>12, <1>13, <2>2
    <2>4. q < Base BY <1>6, <1>9, <2>2, <2>3
    <2>5. PICK j \in 1 .. L - 1 : j = q - o BY <1>4, <1>5, <1>6, <2>2, <2>3, <2>4
    <2>6. j \in 0 .. Payload /\ o + j < SectionSize /\ o + j = q BY <1>4, <1>5, <2>5
    <2>7. SectionOffset(s, o, j) = [section |-> s, offset |-> q] BY <1>14, <2>6, Units
    <2>q. QED BY <1>11, <2>3, <2>7
  <1>16. CASE o + i >= SectionSize
    <2>1. SectionOffset(s, o, i) = [section |-> NextSection(s), offset |-> o + i - SectionSize + HeadLen]
      BY <1>14, <1>16, Units
    <2>2. NextSection(s) = tailSec /\ o + i - SectionSize + HeadLen >= Base BY <1>8, <2>1
    <2>3. s # tailSec
      <3>1. NextSection(s) # s BY PrevIs DEF NextSection
      <3>q. QED BY <2>2, <3>1
    <2>4. Age(s) = 1 BY <1>12, <2>2, <2>3
    <2>5. CASE s = t /\ o < q
      <3>1. PICK j \in 1 .. L - 1 : j = q - o BY <1>4, <1>5, <1>16, <2>5
      <3>2. j \in 0 .. Payload /\ o + j < SectionSize /\ o + j = q BY <1>4, <1>5, <3>1
      <3>3. SectionOffset(s, o, j) = [section |-> s, offset |-> q] BY <1>14, <3>2, Units
      <3>q. QED BY <1>11, <2>5, <3>3
    <2>6. CASE Age(s) > Age(t)
      <3>1. t = tailSec BY <1>12, <2>4, <2>6
      <3>2. q < Base BY <1>6, <1>9, <3>1
      <3>3. PICK j \in 1 .. L - 1 : j = q - HeadLen + SectionSize - o
        BY <1>4, <1>5, <1>6, <1>16, <2>2, <3>2
      <3>4. j \in 0 .. Payload /\ o + j >= SectionSize /\ o + j - SectionSize + HeadLen = q BY <1>4, <1>5, <3>3
      <3>5. SectionOffset(s, o, j) = [section |-> NextSection(s), offset |-> o + j - SectionSize + HeadLen]
        BY <1>14, <3>4, Units
      <3>6. SectionOffset(s, o, j) = [section |-> t, offset |-> q] BY <2>2, <3>1, <3>4, <3>5
      <3>q. QED BY <1>11, <3>6
    <2>q. QED BY <1>13, <2>5, <2>6
  <1>q. QED BY <1>5, <1>14, <1>15, <1>16

\* What a reset brings back is a store that was kept, but for records at risk.
LEMMA FlashBack ==
  ASSUME IInv, LInv, Meaning
  PROVE  Back(Remains(FlashLog))
  <1>1. Prefix(FlashLog) BY FlashPrefix
  <1>2. FlashLog \in SUBSET Log BY DEF FlashLog
  <1>q. QED BY <1>1, <1>2 DEF Meaning, Recoverable

\* What tinyfs_init leaves in the variables when there is something in flash.
Restarted ==
  /\ Valid # {} /\ Found = FlashLog
  /\ flash' = flash /\ buf' = << >> /\ bufAddr' = 0
  /\ headSec' = headSec /\ tailSec' = FTail /\ tailCount' = tailCount - Age(FTail)
  /\ avail' = FLimit
  /\ free' = SectionSize - FLimit + Payload * Gap(headSec, FTail)
  /\ pc' = "idle" /\ todo' = << >> /\ out' = << >> /\ ~starting' /\ starting' \in BOOLEAN
  /\ entry' = NoEntry /\ ~copying' /\ copying' \in BOOLEAN
  /\ source' = NoSource /\ unread' = 0 /\ rounds' = 0 /\ allowed' = 0
  /\ list' \in [Sections -> Seq(Entries)] /\ size' \in [Sections -> Int]
  /\ Lists' /\ Live' = Surv(FlashLog)
  /\ dirIdMax' \in Parents /\ \A e \in FlashLog : IsDir(e.node) => e.node.id <= dirIdMax'
  /\ vol' = LiveNodes' /\ kept' = {vol'} /\ risk' = {}

\* A reset that tears no node, with something in flash, leaves just that.
LEMMA RestartIs ==
  ASSUME Countable, IInv, LInv, Shape, MetaInPage, RoomToCopy, Reset, ~torn', Valid # {}
  PROVE  Restarted
  <1>1. Found = FlashLog BY TornIs
  <1>2. Load
    <2>1. ValidSections # {} BY ValidIs
    <2>q. QED BY <2>1 DEF Reset
  <1>3. headSec' = headSec /\ tailSec' = FTail /\ tailCount' = tailCount - Age(FTail)
        /\ avail' = SectionNodes(FTail).end
        /\ free' = SectionSize - avail' + Payload * Gap(headSec, FTail)
    BY <1>2, LoadMeans
  <1>4. avail' = FLimit
    <2>1. FTail \in Valid BY ValidArc
    <2>2. SectionNodes(FTail).end = FLimit BY <1>1, <2>1, SectionFound
    <2>q. QED BY <1>3, <2>2
  <1>5. /\ list' \in [Sections -> Seq(Entries)] /\ size' \in [Sections -> Int]
        /\ Placed' /\ NoRepeat' /\ Summed'
        /\ Live' = Surv(Found)
        /\ dirIdMax' \in Parents /\ \A e \in Found : IsDir(e.node) => e.node.id <= dirIdMax'
    BY <1>2, LoadIs
  <1>6. Lists' BY <1>5 DEF Lists
  <1>7. /\ flash' = flash /\ buf' = << >> /\ bufAddr' = 0
        /\ pc' = "idle" /\ todo' = << >> /\ out' = << >> /\ starting' = FALSE
        /\ entry' = NoEntry /\ copying' = FALSE
        /\ source' = NoSource /\ unread' = 0 /\ rounds' = 0 /\ allowed' = 0
        /\ vol' = LiveNodes' /\ kept' = {vol'} /\ risk' = {}
    BY DEF Reset
  <1>q. QED BY <1>1, <1>3, <1>4, <1>5, <1>6, <1>7 DEF Restarted

\* The sections of the log after it.
LEMMA RestartSections ==
  ASSUME IInv, LInv, Shape, Restarted
  PROVE  /\ tailCount' \in 1 .. CountRange - 1
         /\ Ahead' = Sections \ Valid
         /\ \A s \in Valid : Age(s)' = Age(s) - Age(FTail)
         /\ \A s \in Valid : Age(s) \in Nat /\ Age(FTail) <= Age(s) /\ Age(FTail) \in Nat
         /\ tailCount' > Age(headSec) - Age(FTail)
         /\ EmptySections' = Gap(headSec, FTail)
         /\ FTail \in Valid /\ headSec \in Valid
  <1>0. TypeOK /\ CacheAligned BY DEF IInv
  <1>1. SectionNum \in Nat \ {0} /\ CountRange \in Nat BY Geometry, LengthAssumption
  <1>2. PICK f \in 0 .. SectionNum - 1, h \in 0 .. SectionNum - 1, t \in 0 .. SectionNum - 1 :
          f = FTail /\ h = headSec /\ t = tailSec
    BY <1>0, LimitIs DEF TypeOK, Sections
  <1>3. /\ tailSec' = f /\ headSec' = h
        /\ tailCount' = tailCount - Age(FTail)
    BY <1>2 DEF Restarted
  <1>4. Valid # {} BY DEF Restarted
  <1>5. /\ \A s \in Sections : s \in Valid <=> tailCount # 0 /\ Age(FTail) <= Age(s) /\ Age(s) <= Age(headSec)
        /\ tailCount # 0 /\ FTail \in Valid /\ headSec \in Valid /\ Age(FTail) <= Age(headSec)
        /\ Age(FTail) \in {0, 1}
        /\ \A s \in Sections : Age(s) \in 0 .. SectionNum - 1
    BY <1>4, ValidArc
  <1> DEFINE A(x, s) == IF s <= x THEN x - s ELSE x - s + SectionNum
  <1>6. \A s : Age(s) = A(t, s) BY <1>2 DEF Age
  <1>7. \A s : Age(s)' = A(f, s) BY <1>3 DEF Age
  <1>8. PICK a \in {0, 1} : a = Age(FTail) /\ a = A(t, f) BY <1>2, <1>5, <1>6
  <1>9. PICK c \in Nat : c = tailCount /\ c < CountRange BY <1>0, <1>1 DEF TypeOK
  <1>10. c > A(t, h)
    <2>1. c > Age(headSec) BY <1>5, <1>9 DEF Shape, Counted
    <2>q. QED BY <1>2, <1>6, <2>1
  <1>11. a <= A(t, h) BY <1>2, <1>5, <1>6, <1>8
  <1>12. tailCount' = c - a BY <1>3, <1>8, <1>9
  <1>13. \A s \in Sections : s \in Valid <=> a <= A(t, s) /\ A(t, s) <= A(t, h)
    BY <1>2, <1>5, <1>6, <1>8
  <1>14. ASSUME NEW s \in Valid PROVE A(f, s) = A(t, s) - a /\ a <= A(t, s) /\ s \in 0 .. SectionNum - 1
    <2>1. s \in 0 .. SectionNum - 1 BY DEF Valid, Sections
    <2>2. a <= A(t, s) BY <1>13, <2>1 DEF Sections
    <2>q. QED BY <1>1, <1>2, <1>8, <2>1, <2>2
  <1>15. ASSUME NEW s \in Sections PROVE s \in Ahead' <=> s \notin Valid
    <2>1. s \in 0 .. SectionNum - 1 BY DEF Sections
    <2>2. s \in Ahead' <=> \/ f >= h /\ (s > f \/ s < h)
                           \/ f < h /\ s > f /\ s < h
      <3>1. tailCount' # 0 BY <1>9, <1>10, <1>11, <1>12, <1>1, <1>2
      <3>q. QED BY <1>3, <3>1 DEF Ahead
    <2>3. s \in Valid <=> a <= A(t, s) /\ A(t, s) <= A(t, h) BY <1>13
    <2> HIDE DEF Sections
    <2>q. QED BY <1>1, <1>2, <1>8, <1>11, <2>1, <2>2, <2>3
  <1>16. Ahead' = Sections \ Valid
    <2>1. Ahead' \subseteq Sections BY DEF Ahead
    <2>q. QED BY <1>15, <2>1
  <1>17. tailCount' \in 1 .. CountRange - 1 /\ tailCount' > Age(headSec) - Age(FTail)
    <2>1. c - a \in 1 .. CountRange - 1 /\ c - a > A(t, h) - a BY <1>1, <1>2, <1>9, <1>10, <1>11
    <2>2. Age(headSec) = A(t, h) /\ Age(FTail) = a BY <1>2, <1>6, <1>8
    <2> HIDE DEF A
    <2>q. QED BY <1>12, <2>1, <2>2
  <1>18. EmptySections' = Gap(headSec, FTail)
    <2>1. tailCount' # 0 BY <1>17, <1>1
    <2>q. QED BY <1>2, <1>3, <2>1 DEF EmptySections, Gap
  <1>19. \A s \in Valid : Age(s)' = Age(s) - Age(FTail) BY <1>6, <1>7, <1>8, <1>14
  <1>20. \A s \in Valid : Age(s) \in Nat /\ Age(FTail) <= Age(s) /\ Age(FTail) \in Nat
    <2>1. \A s \in Valid : s \in Sections BY DEF Valid
    <2>q. QED BY <1>1, <1>5, <2>1
  <1>q. QED BY <1>5, <1>16, <1>17, <1>18, <1>19, <1>20

\* What a reader finds after it.
LEMMA RestartUnits ==
  ASSUME IInv, LInv, Shape, Restarted
  PROVE  /\ FLimit \in Nat /\ avail' = FLimit /\ Base' = FLimit /\ tailSec' = FTail
         /\ \A s \in Sections, o \in 0 .. SectionSize - 1 : At(s, o)' = Fl(s, o)
         /\ \A s, o : Has(s, o)' <=> InF(s, o)
         /\ \A s \in Sections, o \in 0 .. SectionSize - 1 : Mid(s, o)' <=> FMid(s, o)
         /\ ~Under'
  <1>0. TypeOK /\ CacheAligned BY DEF IInv
  <1>1. PICK l \in Nat : l = FLimit BY <1>0, LimitIs
  <1>2. /\ avail' = l /\ buf' = << >> /\ tailSec' = FTail /\ flash' = flash /\ pc' = "idle"
    BY <1>1 DEF Restarted
  <1>3. Len(buf') = 0 BY <1>2
  <1>4. Base' = l BY <1>2, <1>3 DEF Base
  <1>5. ASSUME NEW s \in Sections, NEW o \in 0 .. SectionSize - 1 PROVE At(s, o)' = Fl(s, o)
    <2>1. ~(avail' - Len(buf') <= o /\ o < avail') BY <1>2, <1>3, Geometry
    <2>2. At(s, o)' = flash'[FlashAddr(s, o)] BY <2>1 DEF At
    <2>q. QED BY <1>2, <2>2 DEF Fl
  <1>6. ASSUME NEW s, NEW o PROVE Has(s, o)' <=> InF(s, o)
    <2>1. Ahead' = Sections \ Valid BY RestartSections
    <2>2. Valid \subseteq Sections BY DEF Valid
    <2>3. s \in Sections \ Ahead' <=> s \in Valid BY <2>1, <2>2
    <2>q. QED BY <1>1, <1>2, <2>3 DEF Has, InF
  <1>7. ASSUME NEW s \in Sections, NEW o \in 0 .. SectionSize - 1 PROVE Mid(s, o)' <=> FMid(s, o)
    <2>1. At(s, o)' = Fl(s, o) BY <1>5
    <2>q. QED BY <2>1 DEF Mid, FMid
  <1>8. ~Under' BY <1>2 DEF Under
  <1>q. QED BY <1>1, <1>2, <1>4, <1>5, <1>6, <1>7, <1>8

\* The types, the cache, which is empty, and no call.
LEMMA RestartInv ==
  ASSUME IInv, LInv, Shape, Restarted
  PROVE  IInv'
  <1>0. TypeOK /\ CacheAligned BY DEF IInv
  <1>1. /\ FLimit \in Nat /\ FLimit <= SectionSize /\ FLimit % PageSize = 0 /\ FTail \in Sections BY <1>0, LimitIs
  <1>2. tailCount' \in 1 .. CountRange - 1 /\ CountRange \in Nat BY RestartSections, LengthAssumption
  <1>3. SectionNum \in Nat \ {0} /\ SectionSize \in Nat /\ HeadLen \in Nat /\ Payload \in Nat /\ PageSize \in Nat \ {0}
    BY Geometry
  <1>4. headSec \in Sections BY <1>0 DEF TypeOK
  <1>5. TypeOK'
    <2>1. flash' \in [Addresses -> Cells] BY <1>0 DEF TypeOK, Restarted
    <2>2. buf' \in Seq(Cells) /\ out' \in Seq(Cells) /\ todo' \in Seq(Nodes) /\ bufAddr' \in Nat
      BY DEF Restarted
    <2>3. avail' \in Nat /\ headSec' \in Sections /\ tailSec' \in Sections BY <1>1, <1>4 DEF Restarted
    <2>4. tailCount' \in 0 .. CountRange - 1 BY <1>2
    <2>5. free' \in Int
      <3>1. Gap(headSec, FTail) \in Int BY <1>1, <1>3, <1>4 DEF Gap, Sections
      <3>2. Payload * Gap(headSec, FTail) \in Int BY <1>3, <3>1
      <3>q. QED BY <1>1, <1>3, <3>2 DEF Restarted
    <2>6. /\ dirIdMax' \in Parents /\ list' \in [Sections -> Seq(Entries)] /\ size' \in [Sections -> Int]
          /\ pc' = "idle" /\ starting' \in BOOLEAN /\ copying' \in BOOLEAN /\ entry' = NoEntry
      BY DEF Restarted
    <2>7. source' \in [section : Sections, offset : 0 .. SectionSize]
      <3>1. 0 \in Sections /\ 0 \in 0 .. SectionSize BY <1>3 DEF Sections
      <3>q. QED BY <3>1 DEF Restarted, NoSource
    <2>8. unread' \in Nat /\ rounds' \in Nat /\ allowed' \in 0 .. SectionNum + 1 BY <1>3 DEF Restarted
    <2>q. QED BY <2>1, <2>2, <2>3, <2>4, <2>5, <2>6, <2>7, <2>8 DEF TypeOK
  <1>6. CacheAligned'
    <2>1. avail' = FLimit /\ buf' = << >> BY DEF Restarted
    <2>2. Len(buf') = 0 BY <2>1
    <2>q. QED BY <1>1, <2>1, <2>2 DEF CacheAligned
  <1>7. PageAddress'
    <2>1. (0 * PageSize + 0) % PageSize = 0 /\ 0 * PageSize + 0 = 0
      <3>1. 0 \in 0 .. PageSize - 1 BY <1>3
      <3>q. QED BY <1>3, <3>1, ModUnique
    <2>q. QED BY <2>1 DEF PageAddress, Restarted
  <1>8. CallShape' BY <1>3 DEF CallShape, Restarted
  <1>q. QED BY <1>5, <1>6, <1>7, <1>8 DEF IInv

\* The lists hold each node once, and the tree has no node that no path leads to.
LEMMA RestartTree ==
  ASSUME IInv, LInv, Shape, MetaInPage, RoomToCopy, Meaning, Restarted
  PROVE  TInv' /\ LiveNodes' = Remains(FlashLog) /\ Tree' = LiveNodes'
  <1>1. LiveNodes' = Remains(FlashLog)
    <2>1. Live' = Surv(FlashLog) BY DEF Restarted
    <2>2. LiveNodes' = {e.node : e \in Live'} BY DEF LiveNodes
    <2>q. QED BY <2>1, <2>2 DEF Remains
  <1>2. Tree' = LiveNodes'
    <2>1. ~copying' BY DEF Restarted
    <2>q. QED BY <2>1 DEF Tree
  <1>3. PICK R : R = Remains(FlashLog) OBVIOUS
  <1>4. R \subseteq TreeNodes
    <2>1. FlashLog \in SUBSET Located BY DEF FlashLog, Log
    <2>q. QED BY <1>3, <2>1, RemainsType
  <1>5. PICK store \in kept : R \subseteq store /\ \A m \in store \ R : Key(m) \in risk
    BY <1>3, FlashBack DEF Back
  <1>6. store \subseteq TreeNodes /\ Unique(store) /\ Rooted(store) /\ Younger(store, dirIdMax)
    BY DEF Meaning, KeptIs
  <1>7. Unique(R) BY <1>5, <1>6 DEF Unique
  <1>8. Rooted(R)
    <2> SUFFICES ASSUME NEW m \in R, m.parent # RootId PROVE Exists(R, m.parent) BY DEF Rooted, Exists
    <2>1. PICK d \in store : IsDir(d) /\ d.id = m.parent BY <1>5, <1>6 DEF Rooted, Exists
    <2>2. d \in R
      <3> SUFFICES ASSUME d \notin R PROVE FALSE OBVIOUS
      <3>1. Key(d) \in risk BY <1>5
      <3>2. Key(d)[1] = "record" BY <3>1 DEF Meaning, OnlyRecords
      <3>3. ~IsRecord(d) BY <2>1 DEF IsRecord, IsDir
      <3>4. Key(d) = <<"dir", d.id>> BY <3>3 DEF Key
      <3>q. QED BY <3>2, <3>4
    <2>q. QED BY <2>1, <2>2 DEF Exists
  <1>9. Younger(R, dirIdMax')
    <2> SUFFICES ASSUME NEW m \in R, IsDir(m) PROVE m.parent < m.id /\ m.id <= dirIdMax' BY DEF Younger
    <2>1. m.parent < m.id BY <1>5, <1>6 DEF Younger
    <2>2. PICK e \in Surv(FlashLog) : m = e.node BY <1>3 DEF Remains
    <2>3. e \in FlashLog BY DEF Surv
    <2>q. QED BY <2>1, <2>2, <2>3 DEF Restarted
  <1>10. Sound(R, << >>, dirIdMax')
    <2>1. Adding(R, << >>, dirIdMax') /\ Removing(R, << >>) BY DEF Adding, Removing
    <2>q. QED BY <1>7, <1>8, <1>9, <2>1 DEF Sound
  <1>11. Single'
    <2>1. ASSUME NEW e \in Surv(FlashLog), NEW f \in Surv(FlashLog), e.node = f.node PROVE e = f
      <3>1. e \in FlashLog /\ f \in FlashLog /\ Adds(e.node) BY DEF Surv
      <3>2. e \in Found /\ f \in Found BY <3>1, WholeFound
      <3>3. SameKey(e.node, f.node) /\ SameKey(f.node, e.node) BY <2>1, <3>1 DEF Adds, SameKey
      <3>4. ~Before(e, f) /\ ~Before(f, e) BY <3>1, <3>3 DEF Surv, Overrides
      <3>q. QED BY <3>2, <3>4, FoundOrder
    <2>2. Live' = Surv(FlashLog) /\ ~copying' BY DEF Restarted
    <2>q. QED BY <2>1, <2>2 DEF Single
  <1>12. Lists' /\ todo' = << >> BY DEF Restarted
  <1>13. Sound(Tree, todo, dirIdMax)' BY <1>1, <1>2, <1>3, <1>10, <1>12 DEF Sound, Unique, Clash, Rooted, Exists, Younger, Adding, Removing
  <1>q. QED BY <1>1, <1>2, <1>11, <1>12, <1>13 DEF TInv

\* The metadata of a node are part of it.
LEMMA MetaFits ==
  ASSUME NEW n \in Nodes
  PROVE  MetaLen(n) \in Nat \ {0} /\ MetaLen(n) <= NodeLen(n)
  <1>1. MetaLen(n) \in 1 .. AddLen /\ AddLen \in Nat \ {0} BY NodeKinds, LengthAssumption
  <1>2. NodeLen(n) \in Nat \ {0} /\ (IsRecord(n) => NodeLen(n) > AddLen) BY NodeLengths
  <1>3. ~IsRecord(n) => NodeLen(n) = MetaLen(n) BY DEF NodeLen
  <1>q. QED BY <1>1, <1>2, <1>3

\* What is stored after it is what flash held of a node before it.
LEMMA RestartHolds ==
  ASSUME IInv, LInv, Shape, Restarted, NEW s \in Sections, NEW o \in HeadLen .. SectionSize - 1,
         NEW n \in Nodes, NEW m \in 1 .. NodeLen(n)
  PROVE  Stored([section |-> s, offset |-> o], n, m)' <=> FlHolds(s, o, n, m) /\ (s = FTail => o + m <= FLimit)
  <1>0. TypeOK /\ CacheAligned BY DEF IInv
  <1>1. PICK l \in Nat : l = FLimit /\ l <= SectionSize BY <1>0, LimitIs
  <1>2. avail' = l /\ tailSec' = FTail BY <1>1 DEF Restarted
  <1>3. HeadLen \in Nat \ {0} /\ SectionSize \in Nat /\ HeadLen < SectionSize /\ Payload = SectionSize - HeadLen
    BY Geometry DEF Payload
  <1>4. NodeLen(n) \in Nat \ {0} /\ NodeLen(n) <= Payload BY NodeFits
  <1>5. m \in Nat \ {0} /\ m <= Payload /\ o \in 0 .. SectionSize - 1 /\ o \in Nat BY <1>3, <1>4
  <1> DEFINE P(i) == SectionOffset(s, o, i)
  <1>6. ASSUME NEW i \in 0 .. m - 1
        PROVE  /\ P(i).section \in Sections /\ P(i).offset \in 0 .. SectionSize - 1 /\ P(i).offset \in HeadLen .. SectionSize - 1
               /\ o + i < SectionSize => P(i).section = s /\ P(i).offset = o + i
               /\ o + i >= SectionSize => P(i).section = NextSection(s) /\ P(i).offset = o + i - SectionSize + HeadLen
    <2>1. i \in 0 .. Payload /\ i \in Nat BY <1>3, <1>5
    <2>2. /\ o + i < SectionSize => P(i) = [section |-> s, offset |-> o + i]
          /\ o + i >= SectionSize => P(i) = [section |-> NextSection(s), offset |-> o + i - SectionSize + HeadLen]
      BY <1>5, <2>1, Units
    <2>3. NextSection(s) \in Sections BY NextSectionType
    <2>4. CASE o + i < SectionSize BY <1>3, <1>5, <2>1, <2>2, <2>4
    <2>5. CASE ~(o + i < SectionSize) BY <1>3, <1>5, <2>1, <2>2, <2>3, <2>5
    <2>q. QED BY <2>4, <2>5
  <1>7. Holds(s, o, n, m)' <=> \A i \in 0 .. m - 1 : Fl(P(i).section, P(i).offset) = <<n, i + 1>>
    <2>1. \A i \in 0 .. m - 1 : At(P(i).section, P(i).offset)' = Fl(P(i).section, P(i).offset)
      BY <1>6, RestartUnits
    <2>2. Holds(s, o, n, m)' <=> \A i \in 0 .. m - 1 : At(P(i).section, P(i).offset)' = <<n, i + 1>>
      BY DEF Holds, AtPlace
    <2> HIDE DEF P
    <2>q. QED BY <2>1, <2>2
  <1>8. Laid(s, o, m)' <=> /\ s \in Valid
                           /\ s = FTail => o + m <= l
                           /\ o + m > SectionSize /\ NextSection(s) = FTail => o + m - SectionSize + HeadLen <= l
    <2>1. Ahead' = Sections \ Valid BY RestartSections
    <2>2. s \in Sections \ Ahead' <=> s \in Valid BY <2>1
    <2>3. m \in 0 .. Payload BY <1>3, <1>5
    <2>q. QED BY <1>2, <1>5, <2>2, <2>3 DEF Laid
  <1>9. Stored([section |-> s, offset |-> o], n, m)' <=> Laid(s, o, m)' /\ Holds(s, o, n, m)' BY DEF Stored
  <1>10. ASSUME s \in Valid, s = FTail => o + m <= l,
                o + m > SectionSize /\ NextSection(s) = FTail => o + m - SectionSize + HeadLen <= l
         PROVE  \A i \in 0 .. m - 1 : InF(P(i).section, P(i).offset)
    <2> SUFFICES ASSUME NEW i \in 0 .. m - 1 PROVE InF(P(i).section, P(i).offset) OBVIOUS
    <2>1. i \in Nat /\ i < m BY <1>5
    <2>2. CASE o + i < SectionSize
      <3>1. s = FTail => o + i < FLimit BY <1>1, <1>5, <1>10, <2>1
      <3>2. P(i).section = s /\ P(i).offset = o + i /\ o + i \in HeadLen .. SectionSize - 1 BY <1>6, <2>2
      <3> HIDE DEF P
      <3>q. QED BY <1>10, <3>1, <3>2 DEF InF
    <2>3. CASE ~(o + i < SectionSize)
      <3>1. P(i).section = NextSection(s) /\ P(i).offset = o + i - SectionSize + HeadLen
        BY <1>5, <1>6, <2>1, <2>3, <1>3
      <3>2. o + m > SectionSize /\ s # FTail BY <1>1, <1>3, <1>5, <1>10, <2>1, <2>3
      <3>3. NextSection(s) \in Valid
        <4>1. /\ tailCount # 0 /\ Age(FTail) <= Age(s) /\ Age(s) <= Age(headSec)
              /\ Age(FTail) \in {0, 1}
              /\ \A t \in Sections : Age(t) \in 0 .. SectionNum - 1
              /\ \A t \in Sections : t \in Valid <=> tailCount # 0 /\ Age(FTail) <= Age(t) /\ Age(t) <= Age(headSec)
          BY <1>10, ValidArc
        <4>2. FTail \in Sections /\ headSec \in Sections /\ NextSection(s) \in Sections
          BY <1>0, LimitIs, NextSectionType DEF TypeOK
        <4>3. Age(s) # Age(FTail) BY <1>0, <3>2, <4>2, Ages
        <4>4. PICK a \in Nat, b \in Nat, c \in Nat : a = Age(FTail) /\ b = Age(s) /\ c = Age(headSec)
          BY <4>1, <4>2
        <4>5. s # tailSec
          <5>1. Age(tailSec) = 0 BY <1>0, Ages
          <5>2. b # 0 BY <4>1, <4>3, <4>4
          <5>q. QED BY <4>4, <5>1, <5>2
        <4>6. Age(NextSection(s)) = b - 1 BY <1>0, <4>4, <4>5, Ages
        <4>7. a <= b - 1 /\ b - 1 <= c BY <4>1, <4>3, <4>4
        <4>q. QED BY <4>1, <4>2, <4>4, <4>6, <4>7
      <3>4. P(i).section = FTail => P(i).offset < FLimit
        BY <1>1, <1>3, <1>5, <1>10, <2>1, <3>1, <3>2
      <3>5. P(i).offset \in HeadLen .. SectionSize - 1 BY <1>6
      <3> HIDE DEF P
      <3>q. QED BY <3>1, <3>3, <3>4, <3>5 DEF InF
    <2>q. QED BY <2>2, <2>3
  <1>11. ASSUME FlHolds(s, o, n, m), s = FTail => o + m <= l
         PROVE  s \in Valid /\ (o + m > SectionSize /\ NextSection(s) = FTail => o + m - SectionSize + HeadLen <= l)
    <2>1. \A i \in 0 .. m - 1 : InF(P(i).section, P(i).offset) BY <1>11 DEF FlHolds
    <2>2. 0 \in 0 .. m - 1 /\ m - 1 \in 0 .. m - 1 BY <1>5
    <2>3. P(0).section = s BY <1>3, <1>5, <1>6, <2>2
    <2>4. s \in Valid
      <3>1. InF(P(0).section, P(0).offset) BY <2>1, <2>2
      <3> HIDE DEF P
      <3>q. QED BY <2>3, <3>1 DEF InF
    <2>5. ASSUME o + m > SectionSize, NextSection(s) = FTail PROVE o + m - SectionSize + HeadLen <= l
      <3>1. o + (m - 1) >= SectionSize BY <1>3, <1>5, <2>5
      <3>2. P(m - 1).section = FTail /\ P(m - 1).offset = o + (m - 1) - SectionSize + HeadLen
        BY <1>6, <2>2, <2>5, <3>1
      <3>3. InF(P(m - 1).section, P(m - 1).offset) BY <2>1, <2>2
      <3>4. P(m - 1).offset < l
        <4> HIDE DEF P
        <4>q. QED BY <1>1, <3>2, <3>3 DEF InF
      <3>5. o + (m - 1) - SectionSize + HeadLen < l BY <3>2, <3>4
      <3>q. QED BY <1>1, <1>3, <1>5, <3>5
    <2>q. QED BY <2>4, <2>5
  <1>12. FlHolds(s, o, n, m) <=> /\ \A i \in 0 .. m - 1 : InF(P(i).section, P(i).offset)
                                 /\ \A i \in 0 .. m - 1 : Fl(P(i).section, P(i).offset) = <<n, i + 1>>
    BY DEF FlHolds
  <1> HIDE DEF P
  <1>q. QED BY <1>1, <1>7, <1>8, <1>9, <1>10, <1>11, <1>12

\* The log after it is what was in flash of the log before it.
LEMMA RestartLog ==
  ASSUME IInv, LInv, Shape, MetaInPage, RoomToCopy, Restarted
  PROVE  Log' = FlashLog
  <1>0. HeadLen \in Nat \ {0} /\ SectionSize \in Nat /\ HeadLen < SectionSize BY Geometry
  <1>1. ASSUME NEW e \in FlashLog PROVE e \in Log'
    <2>1. e \in Log /\ e \in Located /\ e.offset >= HeadLen BY <1>1 DEF FlashLog, Log
    <2>2. PICK n \in Nodes, o \in 0 .. SectionSize - 1, s \in Sections : e = [node |-> n, section |-> s, offset |-> o]
      BY <2>1 DEF Located
    <2>3. o >= HeadLen /\ o \in HeadLen .. SectionSize - 1 BY <1>0, <2>1, <2>2
    <2>4. Whole(s, o, n) BY <1>1, <2>2 DEF Whole
    <2>5. FlHolds(s, o, n, NodeLen(n)) /\ (s = FTail => o + NodeLen(n) <= FLimit) BY <2>4, WholeHolds
    <2>6. NodeLen(n) \in 1 .. NodeLen(n) BY NodeFits
    <2>7. Stored([section |-> s, offset |-> o], n, NodeLen(n))' BY <2>3, <2>5, <2>6, RestartHolds
    <2>8. Stored(e, e.node, NodeLen(e.node))' BY <2>2, <2>7 DEF Stored
    <2>q. QED BY <2>1, <2>8 DEF Log
  <1>2. ASSUME NEW e \in Log' PROVE e \in FlashLog
    <2>1. e \in Located /\ e.offset >= HeadLen /\ Stored(e, e.node, NodeLen(e.node))' BY <1>2 DEF Log
    <2>2. PICK n \in Nodes, o \in 0 .. SectionSize - 1, s \in Sections : e = [node |-> n, section |-> s, offset |-> o]
      BY <2>1 DEF Located
    <2>3. o >= HeadLen /\ o \in HeadLen .. SectionSize - 1 BY <1>0, <2>1, <2>2
    <2>4. Stored([section |-> s, offset |-> o], n, NodeLen(n))' BY <2>1, <2>2 DEF Stored
    <2>5. NodeLen(n) \in 1 .. NodeLen(n) /\ NodeLen(n) \in Nat \ {0} /\ NodeLen(n) <= Payload BY NodeFits
    <2>6. FlHolds(s, o, n, NodeLen(n)) BY <2>3, <2>4, <2>5, RestartHolds
    <2>7. MetadataAt(s, o) /\ NodeAt(s, o) = n
      <3>1. MetaLen(n) \in Nat \ {0} /\ MetaLen(n) <= NodeLen(n) BY MetaFits
      <3>2. MetaLen(n) \in 0 .. Payload BY <2>5, <3>1, Geometry
      <3>3. \A i \in 0 .. MetaLen(n) - 1 : Fl(SectionOffset(s, o, i).section, SectionOffset(s, o, i).offset) = <<n, i + 1>>
        BY <2>5, <2>6, <3>1 DEF FlHolds
      <3>4. FlashUnits(s, o, MetaLen(n)) = [i \in 1 .. MetaLen(n) |-> <<n, i>>] BY <3>2, <3>3, FlashUnitsIs
      <3>5. SubSeq(Image(n), 1, MetaLen(n)) = [i \in 1 .. MetaLen(n) |-> <<n, i>>]
        <4>0. 0 \in Nat /\ MetaLen(n) \in Nat \ {0} /\ 0 + MetaLen(n) <= NodeLen(n) BY <3>1
        <4>1. SubSeq(Image(n), 0 + 1, 0 + MetaLen(n)) = [i \in 1 .. MetaLen(n) |-> <<n, 0 + i>>]
          BY <4>0, ImagePart
        <4>2. 0 + 1 = 1 /\ 0 + MetaLen(n) = MetaLen(n) /\ \A i \in 1 .. MetaLen(n) : 0 + i = i BY <3>1
        <4>3. [i \in 1 .. MetaLen(n) |-> <<n, 0 + i>>] = [i \in 1 .. MetaLen(n) |-> <<n, i>>] BY <4>2
        <4>q. QED BY <4>1, <4>2, <4>3
      <3>6. NodeAt(s, o) = n
        <4>1. 0 \in 0 .. NodeLen(n) - 1 BY <2>5
        <4>2. Fl(SectionOffset(s, o, 0).section, SectionOffset(s, o, 0).offset) = <<n, 0 + 1>> BY <2>6, <4>1 DEF FlHolds
        <4>3. SectionOffset(s, o, 0) = [section |-> s, offset |-> o]
          <5>1. 0 \in 0 .. Payload BY Geometry
          <5>q. QED BY <1>0, <5>1, Units
        <4>q. QED BY <4>2, <4>3 DEF NodeAt, Fl
      <3>7. n.type \in {"RECORD_ADD", "DIR_ADD", "RECORD_REMOVE", "DIR_REMOVE"}
        BY DEF Nodes, RecordAdds, DirAdds, RecordRemoves, DirRemoves
      <3>q. QED BY <3>4, <3>5, <3>6, <3>7 DEF MetadataAt
    <2>8. e \in Found BY <2>1, <2>2, <2>7 DEF Found
    <2>q. QED BY <2>8 DEF Restarted
  <1>q. QED BY <1>1, <1>2

\* It is a log again: behind its tail flash is erased, and every live node is in it.
LEMMA RestartStored ==
  ASSUME IInv, LInv, Shape, MetaInPage, RoomToCopy, Restarted
  PROVE  LInv'
  <1>0. TypeOK /\ CacheAligned BY DEF IInv
  <1>1. PICK l \in Nat : l = FLimit /\ l <= SectionSize /\ HeadLen <= l /\ FTail \in Sections BY <1>0, LimitIs
  <1>2. /\ avail' = l /\ tailSec' = FTail /\ buf' = << >> /\ out' = << >> /\ flash' = flash
        /\ pc' = "idle" /\ ~copying' /\ unread' = 0
        /\ free' = SectionSize - l + Payload * Gap(headSec, FTail)
    BY <1>1 DEF Restarted
  <1>3. Len(buf') = 0 /\ Len(out') = 0 BY <1>2
  <1>4. tailCount' # 0 /\ Ahead' = Sections \ Valid /\ EmptySections' = Gap(headSec, FTail) BY RestartSections
  <1>5. HeadLen \in Nat \ {0} /\ SectionSize \in Nat \ {0} /\ Payload \in Nat \ {0} /\ SectionNum \in Nat BY Geometry
  <1>6. FreeExact'
    <2>1. PICK g \in Int : g = Gap(headSec, FTail)
      <3>1. headSec \in Int /\ FTail \in Int BY <1>0, <1>1, <1>5 DEF TypeOK, Sections
      <3>2. Gap(headSec, FTail) \in Int BY <1>5, <3>1 DEF Gap
      <3>q. QED BY <3>2
    <2>2. PICK x \in Int : x = Payload * g BY <1>5
    <2>3. free' = SectionSize - avail' + Payload * EmptySections' - Len(out')
      <3>1. free' = SectionSize - l + x BY <1>2, <2>1, <2>2
      <3>2. SectionSize - l + x = SectionSize - l + x - 0 BY <1>1, <1>5, <2>2
      <3>3. Payload * EmptySections' = x BY <1>4, <2>1, <2>2
      <3>q. QED BY <1>2, <1>3, <3>1, <3>2, <3>3
    <2>q. QED BY <2>3 DEF FreeExact
  <1>7. ErasedPlaces'
    <2>1. ASSUME NEW o \in l .. SectionSize - 1 PROVE Fl(FTail, o) = Erased
      <3>1. o \in 0 .. SectionSize - 1 /\ ~(o < FLimit) BY <1>1, <1>5
      <3>q. QED BY <1>1, <3>1, FlashIs
    <2>2. ASSUME NEW s \in Sections \ Valid, NEW o \in 0 .. SectionSize - 1 PROVE Fl(s, o) = Erased BY FlashIs
    <2>3. ASSUME NEW s \in Sections, NEW o \in 0 .. SectionSize - 1 PROVE Fl(s, o) # Garbage BY FlashIs
    <2>4. avail' - Len(buf') = l BY <1>1, <1>2, <1>3
    <2>q. QED BY <1>2, <1>4, <2>1, <2>2, <2>3, <2>4 DEF ErasedPlaces, Fl
  <1>8. Clean' BY <1>2, <1>3 DEF Clean
  <1>9. Untouched' BY <1>4 DEF Untouched
  <1>10. Phases' BY <1>1, <1>2 DEF Phases
  <1>11. Kept'
    <2>1. ASSUME NEW e \in Surv(FlashLog) PROVE Stored(e, e.node, NodeLen(e.node))'
      <3>1. e \in FlashLog BY DEF Surv
      <3>2. e \in Log' BY <3>1, RestartLog
      <3>q. QED BY <3>2 DEF Log
    <2>2. Live' = Surv(FlashLog) BY DEF Restarted
    <2>q. QED BY <2>1, <2>2 DEF Kept
  <1>12. Emitting' /\ Original' BY <1>2 DEF Emitting, Original
  <1>q. QED BY <1>6, <1>7, <1>8, <1>9, <1>10, <1>11, <1>12 DEF LInv

\* Its units follow each other as they did.
LEMMA RestartKinds ==
  ASSUME IInv, LInv, Shape, Restarted
  PROVE  Kinds' /\ Follows' /\ Padded' /\ PagesUsed'
  <1>0. TypeOK /\ CacheAligned BY DEF IInv
  <1>1. PICK l \in Nat : l = FLimit /\ l <= SectionSize /\ l % PageSize = 0 BY <1>0, LimitIs
  <1>2. HeadLen \in Nat \ {0} /\ SectionSize \in Nat \ {0} BY Geometry
  <1>3. ASSUME NEW s, NEW o
        PROVE  /\ Has(s, o)' <=> InF(s, o)
               /\ InF(s, o) => /\ s \in Sections /\ o \in HeadLen .. SectionSize - 1 /\ Has(s, o)
                               /\ At(s, o)' = At(s, o)
    <2>1. Has(s, o)' <=> InF(s, o) BY RestartUnits
    <2>2. ASSUME InF(s, o) PROVE s \in Sections /\ o \in HeadLen .. SectionSize - 1 /\ Has(s, o) /\ At(s, o)' = At(s, o)
      <3>1. s \in Sections /\ o \in HeadLen .. SectionSize - 1 /\ Has(s, o) BY <1>0, <2>2, InFIs
      <3>2. o \in 0 .. SectionSize - 1 BY <1>2, <3>1
      <3>3. At(s, o)' = Fl(s, o) BY <3>1, <3>2, RestartUnits
      <3>4. Fl(s, o) = At(s, o) BY <2>2, <3>1, <3>2, FlashIs
      <3>q. QED BY <3>1, <3>3, <3>4
    <2>q. QED BY <2>1, <2>2
  <1>4. Kinds'
    <2> SUFFICES ASSUME NEW s \in Sections, NEW o \in HeadLen .. SectionSize - 1, Has(s, o)'
                 PROVE  At(s, o)' = Erased \/ \E n \in Nodes : \E i \in 1 .. NodeLen(n) : At(s, o)' = <<n, i>>
      BY DEF Kinds
    <2>1. Has(s, o) /\ At(s, o)' = At(s, o) BY <1>3
    <2>2. At(s, o) = Erased \/ \E n \in Nodes : \E i \in 1 .. NodeLen(n) : At(s, o) = <<n, i>> BY <2>1 DEF Shape, Kinds
    <2>q. QED BY <2>1, <2>2
  <1>5. Follows'
    <2> SUFFICES ASSUME NEW s \in Sections, NEW o \in HeadLen + 1 .. SectionSize - 1, NEW n \in Nodes,
                        NEW i \in 2 .. NodeLen(n), Has(s, o)', At(s, o)' = <<n, i>>
                 PROVE  At(s, o - 1)' = <<n, i - 1>>
      BY DEF Follows
    <2>1. InF(s, o) /\ Has(s, o) /\ At(s, o) = <<n, i>> BY <1>3
    <2>2. At(s, o - 1) = <<n, i - 1>> BY <2>1 DEF Shape, Follows
    <2>3. InF(s, o - 1) BY <1>1, <1>2, <2>1 DEF InF
    <2>q. QED BY <1>3, <2>2, <2>3
  <1>6. Padded'
    <2> SUFFICES ASSUME NEW s \in Sections, NEW o \in HeadLen .. SectionSize - 1, Has(s, o)', At(s, o)' = Erased,
                        NEW q \in o .. NextPage(o) - 1
                 PROVE  Has(s, q)' /\ At(s, q)' = Erased
      BY DEF Padded, NextPage
    <2>1. InF(s, o) /\ Has(s, o) /\ At(s, o) = Erased BY <1>3
    <2>2. Has(s, q) /\ At(s, q) = Erased BY <2>1 DEF Shape, Padded
    <2>3. InF(s, q)
      <3>1. NextPage(o) \in Nat /\ \A r \in Nat : o < r /\ r % PageSize = 0 => NextPage(o) <= r BY <1>2, NextPageIs
      <3>2. s = FTail => q < l
        <4>1. s = FTail => o < l BY <1>1, <2>1 DEF InF
        <4>2. s = FTail => NextPage(o) <= l BY <1>1, <3>1, <4>1
        <4>q. QED BY <1>1, <1>2, <3>1, <4>2
      <3>3. s \in Valid BY <2>1 DEF InF
      <3>4. q \in HeadLen .. SectionSize - 1 BY <2>2 DEF Has
      <3>q. QED BY <1>1, <3>2, <3>3, <3>4 DEF InF
    <2>q. QED BY <1>3, <2>2, <2>3
  <1>7. PagesUsed'
    <2> SUFFICES ASSUME NEW s \in Sections, NEW o \in HeadLen .. SectionSize - 1, Has(s, o)', o % PageSize = 0
                 PROVE  At(s, o)' # Erased
      BY DEF PagesUsed
    <2>1. Has(s, o) /\ At(s, o)' = At(s, o) BY <1>3
    <2>q. QED BY <2>1 DEF Shape, PagesUsed
  <1>q. QED BY <1>4, <1>5, <1>6, <1>7

\* Whatever begins in it is there as a whole, or cut.
LEMMA RestartBegins ==
  ASSUME IInv, LInv, Shape, MetaInPage, RoomToCopy, Restarted
  PROVE  Begins'
  <1> SUFFICES ASSUME NEW s \in Sections, NEW o \in HeadLen .. SectionSize - 1, NEW n \in Nodes,
                      Has(s, o)', At(s, o)' = <<n, 1>>
               PROVE  Stored([section |-> s, offset |-> o], n, NodeLen(n))' \/ CutAt(s, o, n)'
    BY DEF Begins
  <1>0. TypeOK /\ CacheAligned BY DEF IInv
  <1>1. PICK l \in Nat : l = FLimit /\ l <= SectionSize BY <1>0, LimitIs
  <1>2. HeadLen \in Nat \ {0} /\ SectionSize \in Nat \ {0} /\ HeadLen < SectionSize BY Geometry
  <1>3. avail' = l /\ tailSec' = FTail /\ Ahead' = Sections \ Valid BY <1>1, RestartSections DEF Restarted
  <1>4. InF(s, o) BY RestartUnits
  <1>5. Fl(s, o) = <<n, 1>>
    <2>1. o \in 0 .. SectionSize - 1 BY <1>2
    <2>q. QED BY <2>1, RestartUnits
  <1>6. ASSUME Whole(s, o, n) PROVE Stored([section |-> s, offset |-> o], n, NodeLen(n))'
    <2>1. FlHolds(s, o, n, NodeLen(n)) /\ (s = FTail => o + NodeLen(n) <= FLimit) BY <1>6, WholeHolds
    <2>2. NodeLen(n) \in 1 .. NodeLen(n) BY NodeFits
    <2>q. QED BY <2>1, <2>2, RestartHolds
  <1>7. ASSUME Halved(s, o, n) PROVE Whole(s, o, n)
    <2>1. o \in 0 .. SectionSize - 1 /\ o >= HeadLen BY <1>2
    <2>2. PICK e : e = [node |-> n, section |-> s, offset |-> o] OBVIOUS
    <2>3. e \in Located /\ e.offset >= HeadLen BY <2>1, <2>2 DEF Located
    <2>4. Halved(e.section, e.offset, e.node) BY <1>7, <2>2
    <2>5. e \in Found BY <2>3, <2>4, FoundIs
    <2>q. QED BY <2>2, <2>5 DEF Restarted, Whole
  <1>8. ASSUME CutShort(s, o, n) PROVE CutAt(s, o, n)'
    <2>1. PICK k \in 1 .. MetaLen(n) - 1 :
            /\ o + k <= SectionSize /\ (o + k) % PageSize = 0
            /\ s = FTail => o + k <= FLimit
            /\ \A j \in 0 .. k - 1 : Fl(s, o + j) = <<n, j + 1>>
            /\ o + k < SectionSize => ~FMid(s, o + k)
            /\ o + k = SectionSize => IF s = FTail THEN NextSection(s) \notin Valid ELSE ~FMid(NextSection(s), HeadLen)
      BY <1>8 DEF CutShort
    <2>2. k \in Nat \ {0}
      <3>1. MetaLen(n) \in Nat BY MetaFits
      <3>q. QED BY <3>1
    <2>3. \A j \in 0 .. k - 1 : At(s, o + j)' = <<n, j + 1>>
      <3>1. \A j \in 0 .. k - 1 : o + j \in 0 .. SectionSize - 1 BY <1>2, <2>1, <2>2
      <3>q. QED BY <2>1, <3>1, RestartUnits
    <2>4. o + k < SectionSize => ~Mid(s, o + k)'
      <3>1. o + k < SectionSize => o + k \in 0 .. SectionSize - 1 BY <1>2, <2>2
      <3>q. QED BY <2>1, <3>1, RestartUnits
    <2>5. NextSection(s) \in Sections BY NextSectionType
    <2>6. ~FMid(NextSection(s), HeadLen) => ~Mid(NextSection(s), HeadLen)'
      <3>1. HeadLen \in 0 .. SectionSize - 1 BY <1>2
      <3>q. QED BY <2>5, <3>1, RestartUnits
    <2>7. o + k = SectionSize => IF s = tailSec' THEN NextSection(s) \in Ahead' ELSE ~Mid(NextSection(s), HeadLen)'
      BY <1>3, <2>1, <2>5, <2>6
    <2>8. s = tailSec' => o + k <= avail' BY <1>1, <1>3, <2>1
    <2>q. QED BY <2>1, <2>3, <2>4, <2>7, <2>8 DEF CutAt
  <1>q. QED BY <1>4, <1>5, <1>6, <1>7, <1>8, FlashBegins

\* Its headers say where the first node of their section is.
LEMMA RestartHeaded ==
  ASSUME IInv, LInv, Shape, MetaInPage, RoomToCopy, Restarted
  PROVE  Headed' /\ Counted'
  <1>0. TypeOK /\ CacheAligned BY DEF IInv
  <1>1. PICK l \in Nat : l = FLimit /\ l <= SectionSize BY <1>0, LimitIs
  <1>2. HeadLen \in Nat \ {0} /\ SectionSize \in Nat \ {0} /\ HeadLen < SectionSize BY Geometry
  <1>3. /\ avail' = l /\ tailSec' = FTail /\ headSec' = headSec /\ tailCount' = tailCount - Age(FTail)
    BY <1>1 DEF Restarted
  <1>4. Base' = l /\ ~Under' BY <1>1, RestartUnits
  <1>5. ASSUME NEW s \in Valid
        PROVE  \E off \in HeadLen .. SectionSize - 1 :
                 At(s, 0)' = <<SectionHead(tailCount' - Age(s)', off), 1>> /\ StartsAt(s, off)'
    <2>1. PICK off \in HeadLen .. SectionSize - 1 :
            off = HeadOf(s).offset /\ Fl(s, 0) = <<SectionHead(tailCount - Age(s), off), 1>> /\ StartsAt(s, off)
      BY HeadIs
    <2>2. s \in Sections BY DEF Valid
    <2>3. ~FMid(s, off) /\ (s = FTail => off <= FLimit)
      <3>1. Found \subseteq FlashLog BY DEF Restarted
      <3>q. QED BY <2>1, <3>1, StartIs
    <2>4. tailCount' - Age(s)' = tailCount - Age(s)
      <3>1. Age(s)' = Age(s) - Age(FTail) /\ Age(s) \in Nat /\ Age(FTail) \in Nat BY RestartSections
      <3>2. PICK a \in Nat, b \in Nat, c \in Nat : a = Age(s) /\ b = Age(FTail) /\ c = tailCount
        BY <1>0, <3>1 DEF TypeOK
      <3>3. (c - b) - (a - b) = c - a BY <3>2
      <3>q. QED BY <1>3, <3>1, <3>2, <3>3
    <2>5. At(s, 0)' = Fl(s, 0)
      <3>1. 0 \in 0 .. SectionSize - 1 BY <1>2
      <3>q. QED BY <2>2, <3>1, RestartUnits
    <2>6. At(s, 0)' = <<SectionHead(tailCount' - Age(s)', off), 1>> BY <2>1, <2>4, <2>5
    <2>7. ASSUME NEW o \in HeadLen .. off - 1, Has(s, o)' PROVE Mid(s, o)'
      <3>1. o \in HeadLen .. SectionSize - 1 /\ o \in 0 .. SectionSize - 1 BY <1>2
      <3>2. InF(s, o) BY <2>7, RestartUnits
      <3>3. Has(s, o) BY <1>0, <3>2, InFIs
      <3>4. Mid(s, o) BY <2>1, <3>3 DEF StartsAt
      <3>5. FMid(s, o) BY <2>2, <3>1, <3>2, <3>4, FMidIs
      <3>q. QED BY <2>2, <3>1, <3>5, RestartUnits
    <2>8. ~Mid(s, off)'
      <3>1. off \in 0 .. SectionSize - 1 BY <1>2
      <3>q. QED BY <2>2, <2>3, <3>1, RestartUnits
    <2>9. s = tailSec' /\ off >= avail' => off = avail' + 0
      <3>1. s = FTail => off <= l BY <1>1, <2>3
      <3>2. s = FTail /\ off >= l => off = l + 0 BY <1>1, <1>2, <3>1
      <3>q. QED BY <1>3, <3>2
    <2>10. ~(s = tailSec' /\ off > Base')
      <3>1. s = FTail => ~(off > l) BY <1>1, <1>2, <2>3
      <3>q. QED BY <1>3, <1>4, <3>1
    <2>11. StartsAt(s, off)' BY <1>4, <2>7, <2>8, <2>9, <2>10 DEF StartsAt
    <2>q. QED BY <2>6, <2>11
  <1>6. Headed'
    <2>1. Ahead' = Sections \ Valid BY RestartSections
    <2>2. Sections \ Ahead' \subseteq Valid BY <2>1
    <2>q. QED BY <1>5, <2>2 DEF Headed
  <1>7. Counted'
    <2>1. PICK h : h = headSec OBVIOUS
    <2>2. h \in Valid /\ tailCount' > Age(h) - Age(FTail) BY <2>1, RestartSections
    <2>3. Age(h)' = Age(h) - Age(FTail) BY <2>2, RestartSections
    <2>4. headSec' = h BY <1>3, <2>1
    <2>5. tailCount' > Age(h)' BY <2>2, <2>3
    <2>q. QED BY <2>4, <2>5 DEF Counted, Age
  <1>q. QED BY <1>6, <1>7

\* The log after a reset has the shape it had.
LEMMA RestartShape ==
  ASSUME IInv, LInv, Shape, MetaInPage, RoomToCopy, Restarted
  PROVE  Shape'
  <1>1. HeaderAhead' BY DEF HeaderAhead, Restarted
  <1>q. QED BY <1>1, RestartKinds, RestartBegins, RestartHeaded DEF Shape

\* Between two resets the same can be said of the next state.
LEMMA AllInFlashThen == IInv /\ LInv /\ Base >= avail => FlashLog = Log BY AllInFlash

\* The same in the next state.
LEMMA AllInFlashNext == IInv' /\ LInv' /\ (Base >= avail)' => (FlashLog = Log)' BY AllInFlashThen, PTL

\* After a reset the log says what flash said before it.
LEMMA RestartMeaning ==
  ASSUME IInv, LInv, Shape, MetaInPage, RoomToCopy, Meaning, Restarted
  PROVE  Meaning'
  <1>0. TypeOK /\ CacheAligned BY DEF IInv
  <1>1. IInv' /\ LInv' /\ TInv' BY RestartInv, RestartStored, RestartTree
  <1>2. PICK L : L = FlashLog OBVIOUS
  <1>3. Log' = L BY <1>2, RestartLog
  <1>4. FlashLog' = L
    <2>1. (Base >= avail)'
      <3>1. PICK l \in Nat : l = FLimit BY <1>0, LimitIs
      <3>2. avail' = l /\ Base' = l BY <3>1, RestartUnits
      <3>q. QED BY <3>2
    <2>2. (FlashLog = Log)' BY <1>1, <2>1, AllInFlashNext
    <2>q. QED BY <1>3, <2>2
  <1>5. pc' = "idle" /\ todo' = << >> /\ ~copying' BY DEF Restarted
  <1>6. Older' = L BY <1>3, <1>5 DEF Older
  <1>7. \A e, f \in L : Before(e, f)' <=> Before(e, f)
    <2> SUFFICES ASSUME NEW e \in L, NEW f \in L PROVE Before(e, f)' <=> Before(e, f) OBVIOUS
    <2>1. e \in Found /\ f \in Found BY <1>2, WholeFound
    <2>2. e.section \in Valid /\ f.section \in Valid BY <2>1, FoundIs
    <2>3. /\ Age(e.section)' = Age(e.section) - Age(FTail) /\ Age(f.section)' = Age(f.section) - Age(FTail)
          /\ Age(e.section) \in Nat /\ Age(f.section) \in Nat /\ Age(FTail) \in Nat
      BY <2>2, RestartSections
    <2>4. PICK a \in Nat, b \in Nat, c \in Nat : a = Age(e.section) /\ b = Age(f.section) /\ c = Age(FTail) BY <2>3
    <2>5. (a - c > b - c) <=> (a > b) BY <2>4
    <2>6. Age(e.section)' > Age(f.section)' <=> Age(e.section) > Age(f.section) BY <2>3, <2>4, <2>5
    <2>q. QED BY <2>6 DEF Before
  <1>8. Surv(L)' = Surv(L) /\ Remains(L)' = Remains(L) BY <1>7, SurvSame
  <1>9. PICK R : R = Remains(L) OBVIOUS
  <1>10. Live' = Surv(L) /\ vol' = R /\ kept' = {R} /\ risk' = {} /\ Tree' = R
    <2>1. LiveNodes' = R /\ Tree' = LiveNodes' BY <1>2, <1>9, RestartTree
    <2>q. QED BY <1>2, <2>1 DEF Restarted
  <1>11. \A m : ~Replaced(m)' BY <1>5 DEF Replaced
  <1>12. Recoverable'
    <2>1. ASSUME NEW Q \in SUBSET L, L \subseteq Q PROVE Back(Remains(Q))'
      <3>1. Q = L BY <2>1
      <3>2. Remains(Q)' = R BY <1>8, <1>9, <3>1
      <3>3. \E store \in kept' : R \subseteq store /\ \A m \in store \ R : Key(m) \in risk' BY <1>10
      <3>q. QED BY <3>2, <3>3 DEF Back
    <2>q. QED BY <1>3, <1>4, <2>1 DEF Recoverable
  <1>13. LiveIs'
    <2>1. Surv(Older)' = Surv(L)
      <3>1. Surv(Older)' = {e \in L : Adds(e.node) /\ \A f \in L : Before(e, f)' => ~Overrides(f.node, e.node)}
        BY <1>6 DEF Surv
      <3>2. Surv(L) = {e \in L : Adds(e.node) /\ \A f \in L : Before(e, f) => ~Overrides(f.node, e.node)}
        BY DEF Surv
      <3>q. QED BY <1>7, <3>1, <3>2
    <2>q. QED BY <1>5, <1>10, <1>11, <2>1 DEF LiveIs
  <1>14. Remains(Older)' = R
    <2>1. Remains(Older)' = {e.node : e \in Surv(Older)'} BY DEF Remains
    <2>2. Surv(Older)' = Surv(L)
      <3>1. Surv(Older)' = {e \in L : Adds(e.node) /\ \A f \in L : Before(e, f)' => ~Overrides(f.node, e.node)}
        BY <1>6 DEF Surv
      <3>2. Surv(L) = {e \in L : Adds(e.node) /\ \A f \in L : Before(e, f) => ~Overrides(f.node, e.node)}
        BY DEF Surv
      <3>q. QED BY <1>7, <3>1, <3>2
    <2>q. QED BY <1>9, <2>1, <2>2 DEF Remains
  <1>15. VolIs' BY <1>10, <1>11, <1>14 DEF VolIs
  <1>16. KeptIs'
    <2>1. R \subseteq TreeNodes
      <3>1. L \in SUBSET Located BY <1>2 DEF FlashLog, Log
      <3>q. QED BY <1>9, <3>1, RemainsType
    <2>2. Unique(R) /\ Rooted(R) /\ Younger(R, dirIdMax')
      <3>1. Sound(Tree, todo, dirIdMax)' BY <1>1 DEF TInv
      <3>2. Unique(Tree') /\ Rooted(Tree') /\ Younger(Tree', dirIdMax') BY <3>1 DEF Sound, Unique, Rooted, Younger
      <3>q. QED BY <1>10, <3>2
    <2>q. QED BY <1>5, <1>10, <2>1, <2>2 DEF KeptIs, Unique, Rooted, Younger
  <1>17. EntryLast' /\ Erasing' /\ OnlyRecords' /\ Resting'
    BY <1>5, <1>10 DEF EntryLast, Under, Erasing, OnlyRecords, Resting
  <1>q. QED BY <1>12, <1>13, <1>15, <1>16, <1>17 DEF Meaning

\* The same for the state after an erased volume has been found.
LEMMA InitNext == RInit' => RInv' BY InitPower, PTL

\* A reset that finds no header starts from an erased volume.
LEMMA ResetFresh ==
  ASSUME IInv, LInv, Shape, MetaInPage, RoomToCopy, Reset, ~torn', Valid = {}
  PROVE  RInit' /\ vol' = {}
  <1>1. ValidSections = {} BY ValidIs
  <1>2. Fresh BY <1>1 DEF Reset
  <1>3. /\ list' = [s \in Sections |-> << >>] /\ size' = [s \in Sections |-> 0]
        /\ dirIdMax' = 0 /\ headSec' = 0 /\ tailSec' = PrevSection(0) /\ tailCount' = 0
        /\ avail' = SectionSize /\ free' = SectionNum * Payload
    BY <1>2 DEF Fresh
  <1>4. /\ flash' = flash /\ buf' = << >> /\ bufAddr' = 0
        /\ pc' = "idle" /\ todo' = << >> /\ out' = << >> /\ starting' = FALSE
        /\ entry' = NoEntry /\ copying' = FALSE
        /\ source' = NoSource /\ unread' = 0 /\ rounds' = 0 /\ allowed' = 0
        /\ torn' = (torn \/ \E e \in Live' : ~IntactIn(e))
        /\ vol' = LiveNodes' /\ kept' = {vol'} /\ risk' = {}
    BY DEF Reset
  <1>5. flash' = [a \in Addresses |-> Erased] BY <1>4, FreshIs
  <1>6. Live' = {}
    <2>1. ASSUME NEW s \in Sections PROVE 1 .. Len(list'[s]) = {}
      <3>1. list'[s] = << >> BY <1>3
      <3>2. Len(<< >>) = 0 OBVIOUS
      <3>q. QED BY <3>1, <3>2
    <2>q. QED BY <2>1 DEF Live
  <1>7. vol' = {}
    <2>1. LiveNodes' = {e.node : e \in Live'} BY DEF LiveNodes
    <2>q. QED BY <1>4, <1>6, <2>1
  <1>8. kept' = {{}} BY <1>4, <1>7
  <1>9. torn' = FALSE
    <2>1. torn' \in BOOLEAN BY <1>4
    <2>q. QED BY <2>1
  <1>10. Init' BY <1>3, <1>4, <1>5 DEF Init
  <1>q. QED BY <1>4, <1>7, <1>8, <1>9, <1>10 DEF RInit

\* A reset that tears nothing leaves a volume as good as before.
LEMMA ResetStep ==
  ASSUME RInv, Countable, MetaInPage, RoomToCopy, Reset, ~torn'
  PROVE  RInv' /\ vol' = Remains(FlashLog)
  <1>1. IInv /\ TInv /\ LInv /\ Shape /\ Meaning BY DEF RInv
  <1>2. CASE Valid = {}
    <2>1. RInit' /\ vol' = {} BY <1>1, <1>2, ResetFresh
    <2>2. FlashLog = {} BY <1>1, <1>2, FreshIs
    <2>3. Remains(FlashLog) = {} BY <2>2 DEF Remains, Surv
    <2>q. QED BY <2>1, <2>3, InitNext
  <1>3. CASE Valid # {}
    <2>1. Restarted BY <1>1, <1>3, RestartIs
    <2>2. IInv' BY <1>1, <2>1, RestartInv
    <2>3. TInv' /\ LiveNodes' = Remains(FlashLog) BY <1>1, <2>1, RestartTree
    <2>4. LInv' BY <1>1, <2>1, RestartStored
    <2>5. Shape' BY <1>1, <2>1, RestartShape
    <2>6. Meaning' BY <1>1, <2>1, RestartMeaning
    <2>7. vol' = LiveNodes' BY <2>1 DEF Restarted
    <2>q. QED BY <2>2, <2>3, <2>4, <2>5, <2>6, <2>7 DEF RInv
  <1>q. QED BY <1>2, <1>3

\* A reset brings back a store that was kept, but for records at risk; or it has torn a
\* record.
LEMMA ResetStore ==
  ASSUME torn \in BOOLEAN, torn \/ (RInv /\ Countable /\ MetaInPage /\ RoomToCopy), Reset
  PROVE  Store!StoreNext
  <1>1. torn' \in BOOLEAN /\ (torn => torn') BY DEF Reset
  <1>2. CASE torn'
    <2>1. torn' = TRUE BY <1>1, <1>2
    <2>q. QED BY <2>1 DEF Store!StoreNext, Store!ResetTorn
  <1>3. CASE ~torn'
    <2>1. RInv /\ Countable /\ MetaInPage /\ RoomToCopy /\ torn' = torn BY <1>1, <1>3
    <2>2. PICK R : R = Remains(FlashLog) OBVIOUS
    <2>3. vol' = R BY <1>3, <2>1, <2>2, ResetStep
    <2>4. PICK store \in kept : R \subseteq store /\ \A m \in store \ R : Key(m) \in risk
      <3>1. Back(R) BY <2>1, <2>2, FlashBack DEF RInv
      <3>q. QED BY <3>1 DEF Back
    <2>5. store \in SUBSET TreeNodes /\ Unique(store) BY <2>1 DEF RInv, Meaning, KeptIs
    <2>6. PICK lost : lost = {Key(m) : m \in store \ R} OBVIOUS
    <2>7. lost \in SUBSET risk BY <2>4, <2>6
    <2>8. ASSUME NEW m \in R PROVE Key(m) \notin lost
      <3> SUFFICES ASSUME NEW n \in store \ R, Key(m) = Key(n) PROVE FALSE BY <2>6
      <3>1. m \in store /\ n \in store BY <2>4
      <3>2. Adds(m) /\ Adds(n) BY <2>5, <3>1, TreeNodeKinds DEF Adds, IsAdd
      <3>3. SameKey(m, n) BY <3>2, KeyIs
      <3>4. m = n BY <2>5, <3>1, <3>3, OneKey DEF Overrides
      <3>q. QED BY <3>4
    <2>9. R = {m \in store : Store!NodeKey(m) \notin lost}
      <3>1. \A m \in store : m \in R <=> Key(m) \notin lost BY <2>6, <2>8
      <3>2. R = {m \in store : Key(m) \notin lost} BY <2>4, <3>1
      <3>q. QED BY <3>2, SameTerms
    <2>10. kept' = {vol'} /\ risk' = {} BY DEF Reset
    <2>11. Store!ResetClean BY <2>1, <2>3, <2>4, <2>7, <2>9, <2>10 DEF Store!ResetClean
    <2>q. QED BY <2>11 DEF Store!StoreNext
  <1>q. QED BY <1>2, <1>3

-----------------------------------------------------------------------------
(* The results. *)

\* As long as no reset has torn a record: the sections can be counted, and the
\* collector has room for what it has started to copy (CopyFits, which the runs check).
Steady == CopyFits /\ (torn \/ NoWrap)

\* What holds at every step.
Held == torn \in BOOLEAN /\ (torn \/ RInv)

\* There is room for what is written when there is room for what is copied.
LEMMA SteadyRoom ==
  ASSUME IInv, RoomToCopy
  PROVE  RoomLeft
  <1>1. unread \in Nat /\ free \in Int BY DEF IInv, TypeOK
  <1>q. QED BY <1>1 DEF RoomToCopy, RoomLeft

\* Every step, a reset as well, keeps it.
LEMMA HeldStep ==
  ASSUME Roomy, Countable, MetaInPage, Held, Steady, Steady', [RNext]_recoveryVars
  PROVE  Held'
  <1>1. CASE Reset
    <2>1. torn' \in BOOLEAN /\ (torn => torn') BY <1>1 DEF Reset
    <2>2. ASSUME ~torn' PROVE RInv'
      <3>1. RInv /\ RoomToCopy BY <2>1, <2>2 DEF Held, Steady, CopyFits, RoomToCopy
      <3>q. QED BY <1>1, <2>2, <3>1, ResetStep
    <2>q. QED BY <2>1, <2>2 DEF Held
  <1>2. CASE Next /\ History
    <2>1. torn' = torn BY <1>2 DEF History
    <2>2. ASSUME ~torn PROVE RInv'
      <3>1. RInv /\ RoomToCopy /\ NoWrap /\ RoomToCopy' BY <2>1, <2>2 DEF Held, Steady, CopyFits, RoomToCopy
      <3>2. IInv BY <3>1 DEF RInv
      <3>3. RoomLeft BY <3>1, <3>2, SteadyRoom
      <3>4. IInv' BY <1>2, <3>2, NextInv
      <3>5. RoomLeft'
        <4>1. unread' \in Nat /\ free' \in Int BY <3>4 DEF IInv, TypeOK
        <4>q. QED BY <3>1, <4>1 DEF RoomToCopy, RoomLeft
      <3>q. QED BY <1>2, <3>1, <3>3, <3>5, PowerStep
    <2>q. QED BY <2>1, <2>2 DEF Held
  <1>3. CASE UNCHANGED recoveryVars
    <2>1. torn' = torn BY <1>3 DEF recoveryVars, historyVars
    <2>2. RInv => RInv' BY <1>3, StutterPower
    <2>q. QED BY <2>1, <2>2 DEF Held
  <1>q. QED BY <1>1, <1>2, <1>3 DEF RNext

\* The invariant of the log and of what it says holds of every behaviour, whenever the
\* power is lost, until a reset has torn a record.
THEOREM RecoveryInvariance ==
  ASSUME Roomy, Countable, MetaInPage
  PROVE  RSpec /\ []Steady => []Held
  <1>1. RInit => Held
    <2>1. RInit => torn = FALSE BY DEF RInit
    <2>q. QED BY <2>1, InitPower DEF Held
  <1>2. Held /\ Steady /\ Steady' /\ [RNext]_recoveryVars => Held' BY HeldStep
  <1>q. QED BY <1>1, <1>2, PTL DEF RSpec

\* tinyfs_init, whenever the power was lost, recovers a volume of which everything holds
\* that holds while power lasts: the tail at the start of a page as the empty cache needs
\* it, the free count, erased flash ahead of the log, every live node readable, the lists.
THEOREM VolumeIsRecovered ==
  ASSUME Roomy, Countable, MetaInPage
  PROVE  RSpec /\ []Steady => []Recovered
  <1>1. Held /\ Steady => Recovered
    <2> SUFFICES ASSUME RInv, RoomToCopy
                 PROVE  CacheAligned /\ FreeExact /\ RoomLeft /\ ErasedAhead /\ LiveReadable /\ ListsExact
      BY DEF Held, Steady, CopyFits, RoomToCopy, Recovered
    <2>1. IInv /\ TInv /\ LInv BY DEF RInv
    <2>2. CacheAligned /\ FreeExact BY <2>1 DEF IInv, LInv
    <2>3. RoomLeft BY <2>1, SteadyRoom
    <2>4. ErasedAhead BY <2>1, ErasedByPlace DEF IInv, LInv
    <2>5. LiveReadable
      <3> SUFFICES ASSUME NEW e \in Live PROVE Readable(e) BY DEF LiveReadable
      <3>1. tailCount # 0 BY <2>1 DEF LInv, Untouched
      <3>2. Stored(e, e.node, NodeLen(e.node)) BY <2>1 DEF LInv, Kept
      <3>3. e \in Located BY <2>1, LiveType DEF IInv
      <3>q. QED BY <2>1, <3>1, <3>2, <3>3, StoredReadable DEF IInv
    <2>6. ListsExact BY <2>1 DEF TInv, Lists, Placed, Summed, Single, ListsExact
    <2>q. QED BY <2>2, <2>3, <2>4, <2>5, <2>6
  <1>q. QED BY <1>1, RecoveryInvariance, PTL

\* The tree a reset brings back is one: no node without its directory, no name or id
\* twice, whichever of the entries of the calls before have reached flash.
THEOREM TreeIsRecovered ==
  ASSUME Roomy, Countable, MetaInPage
  PROVE  RSpec /\ []Steady => [](torn \/ TreeSound)
  <1>1. Held => torn \/ TreeSound
    <2> SUFFICES ASSUME TInv, ~copying
                 PROVE  /\ \A m \in LiveNodes : DirExists(m.parent)
                        /\ \A m, n \in LiveNodes :
                            m.type = n.type /\ m.parent = n.parent /\ m.name = n.name => m = n
      BY DEF Held, RInv, TreeSound
    <2>1. Unique(Tree) /\ Rooted(Tree) BY DEF TInv, Sound
    <2>2. Tree = LiveNodes /\ \A x : DirExists(x) <=> Exists(Tree, x) BY IdleTree
    <2>q. QED BY <2>1, <2>2 DEF Unique, Rooted, Clash
  <1>q. QED BY <1>1, RecoveryInvariance, PTL

\* TinyFs under power loss is the store of TinyStore: a reset brings back a state the store
\* has been in since it was last synced, but for records whose replacement was under way.
THEOREM StoreIsImplemented ==
  ASSUME Roomy, Countable, MetaInPage
  PROVE  RSpec /\ []Steady => StoreSpec
  <1>1. RInit => Store!StoreInit BY DEF RInit, Store!StoreInit
  <1>2. Held /\ Held' /\ Steady /\ [RNext]_recoveryVars => [Store!StoreNext]_(Store!storeVars)
    <2> SUFFICES ASSUME Held, Held', Steady, [RNext]_recoveryVars
                 PROVE  [Store!StoreNext]_(Store!storeVars)
      OBVIOUS
    <2>1. CASE Reset
      <3>1. torn \in BOOLEAN /\ (torn \/ (RInv /\ Countable /\ MetaInPage /\ RoomToCopy)) BY DEF Held, Steady, CopyFits, RoomToCopy
      <3>q. QED BY <2>1, <3>1, ResetStore
    <2>2. CASE Next /\ History
      <3>1. torn' = torn BY <2>2 DEF History
      <3>2. CASE torn
        <4>1. torn' = TRUE BY <3>1, <3>2 DEF Held
        <4>q. QED BY <4>1 DEF Store!StoreNext, Store!ResetTorn
      <3>3. CASE ~torn
        <4>1. RInv /\ RInv' BY <3>1, <3>3 DEF Held
        <4>q. QED BY <2>2, <4>1, PowerStore DEF Store!storeVars
      <3>q. QED BY <3>2, <3>3
    <2>3. CASE UNCHANGED recoveryVars
      BY <2>3 DEF recoveryVars, historyVars, Store!storeVars
    <2>q. QED BY <2>1, <2>2, <2>3 DEF RNext
  <1>q. QED BY <1>1, <1>2, RecoveryInvariance, PTL DEF RSpec, StoreSpec, Store!StoreSpec

\* With an empty cache and no call under way flash holds every node as a whole.
LEMMA SyncedFound ==
  ASSUME IInv, LInv, Shape, MetaInPage, RoomToCopy, pc = "idle", buf = << >>
  PROVE  FlashLog = Log /\ Found = FlashLog
  <1>0. TypeOK /\ CacheAligned BY DEF IInv
  <1>1. HeadLen \in Nat \ {0} /\ SectionSize \in Nat \ {0} /\ HeadLen < SectionSize BY Geometry
  <1>2. FlashLog = Log
    <2>1. Len(buf) = 0 /\ avail \in Nat BY <1>0 DEF TypeOK
    <2>2. Base >= avail BY <2>1 DEF Base
    <2>q. QED BY <2>2, AllInFlash
  <1>3. ASSUME NEW e \in Found, e \notin FlashLog PROVE FALSE
    <2>1. /\ Halved(e.section, e.offset, e.node) /\ e.node \in Nodes /\ e.section \in Sections
          /\ e.offset \in HeadLen .. SectionSize - 1 /\ InF(e.section, e.offset)
          /\ Fl(e.section, e.offset) = <<e.node, 1>> /\ e \in Located
      BY <1>3, FoundIs
    <2>2. PICK s \in Sections, o \in HeadLen .. SectionSize - 1, n \in Nodes :
            s = e.section /\ o = e.offset /\ n = e.node
      BY <2>1
    <2>3. e = [node |-> n, section |-> s, offset |-> o] /\ o \in 0 .. SectionSize - 1 /\ o \in Nat
      BY <1>1, <2>1, <2>2 DEF Located
    <2>4. InF(s, o) /\ Fl(s, o) = <<n, 1>> /\ Halved(s, o, n) BY <2>1, <2>2
    <2>5. Has(s, o) /\ At(s, o) = <<n, 1>>
      <3>1. Has(s, o) BY <1>0, <2>4, InFIs
      <3>2. Fl(s, o) = At(s, o) BY <2>3, <2>4, FlashIs
      <3>q. QED BY <2>4, <3>1, <3>2
    <2>6. ~IsEntry(s, o) BY DEF IsEntry, Under
    <2>7. Stored([section |-> s, offset |-> o], n, NodeLen(n)) \/ CutAt(s, o, n)
      BY <2>5, <2>6 DEF Shape, Begins
    <2>8. ~Stored([section |-> s, offset |-> o], n, NodeLen(n))
      <3> SUFFICES ASSUME Stored([section |-> s, offset |-> o], n, NodeLen(n)) PROVE FALSE OBVIOUS
      <3>1. Stored(e, e.node, NodeLen(e.node)) BY <2>2, <2>3 DEF Stored
      <3>2. e.offset >= HeadLen BY <1>1, <2>2
      <3>3. e \in Log BY <2>1, <3>1, <3>2 DEF Log
      <3>q. QED BY <1>2, <1>3, <3>3
    <2>9. CutShort(s, o, n) BY <2>4, <2>7, <2>8, CutStays
    <2>10. PICK k \in 1 .. MetaLen(n) - 1 :
             /\ o + k <= SectionSize
             /\ o + k < SectionSize => ~FMid(s, o + k)
             /\ o + k = SectionSize => IF s = FTail THEN NextSection(s) \notin Valid ELSE ~FMid(NextSection(s), HeadLen)
      BY <2>9 DEF CutShort
    <2>11. PICK c \in MetaLen(n) .. NodeLen(n) - 1 : FlHolds(s, o, n, c) BY <2>4 DEF Halved
    <2>12. /\ MetaLen(n) \in Nat \ {0} /\ NodeLen(n) \in Nat \ {0} /\ NodeLen(n) <= Payload /\ Payload \in Nat
           /\ Payload = SectionSize - HeadLen
      BY MetaFits, NodeFits, Geometry DEF Payload
    <2>13. k \in Nat \ {0} /\ k \in 0 .. c - 1 /\ k + 1 \in 2 .. NodeLen(n) /\ k \in 0 .. Payload
      BY <2>10, <2>11, <2>12
    <2>14. PICK p : p = SectionOffset(s, o, k) OBVIOUS
    <2>15. InF(p.section, p.offset) /\ Fl(p.section, p.offset) = <<n, k + 1>> BY <2>11, <2>13, <2>14 DEF FlHolds
    <2>16. FMid(p.section, p.offset) BY <2>13, <2>15 DEF FMid
    <2>17. CASE o + k < SectionSize
      <3>1. p = [section |-> s, offset |-> o + k] BY <2>3, <2>13, <2>14, <2>17, Units
      <3>q. QED BY <2>10, <2>16, <2>17, <3>1
    <2>18. CASE ~(o + k < SectionSize)
      <3>1. o + k = SectionSize BY <1>1, <2>3, <2>10, <2>13, <2>18
      <3>2. p = [section |-> NextSection(s), offset |-> o + k - SectionSize + HeadLen]
        BY <1>1, <2>3, <2>13, <2>14, <3>1, Units
      <3>3. o + k - SectionSize + HeadLen = HeadLen BY <1>1, <3>1
      <3>4. p.section = NextSection(s) /\ p.offset = HeadLen BY <3>2, <3>3
      <3>5. NextSection(s) \in Valid BY <2>15, <3>4 DEF InF
      <3>q. QED BY <2>10, <2>16, <3>1, <3>4, <3>5
    <2>q. QED BY <2>17, <2>18
  <1>4. FlashLog \subseteq Found BY WholeFound
  <1>q. QED BY <1>2, <1>3, <1>4

\* Where a live entry is.
LEMMA LivePlaceThen ==
  Placed => \A e : e \in Live <=> e.section \in Sections /\ \E i \in 1 .. Len(list[e.section]) : list[e.section][i] = e
  BY LivePlace

\* The same in the next state.
LEMMA LivePlaceNext ==
  Placed' => (\A e : e \in Live <=> e.section \in Sections /\ \E i \in 1 .. Len(list[e.section]) : list[e.section][i] = e)'
  BY LivePlaceThen, PTL

\* The lists that a reset rebuilds of the same nodes have the sizes they had.
LEMMA SameSizes ==
  ASSUME IInv, IInv', TInv, TInv', Live' = Live
  PROVE  size' = size
  <1>1. size \in [Sections -> Int] /\ size' \in [Sections -> Int] BY DEF IInv, TypeOK
  <1>2. ASSUME NEW s \in Sections PROVE size'[s] = size[s]
    <2>1. PICK l \in Seq(Entries), k \in Seq(Entries) : l = list[s] /\ k = list'[s]
      <3>1. list[s] \in Seq(Entries) /\ list'[s] \in Seq(Entries) BY DEF IInv, TypeOK
      <3>q. QED BY <3>1
    <2>2. /\ \A i, j \in 1 .. Len(l) : l[i] = l[j] => i = j
          /\ \A i, j \in 1 .. Len(k) : k[i] = k[j] => i = j
          /\ \A i \in 1 .. Len(l) : l[i].section = s
          /\ \A i \in 1 .. Len(k) : k[i].section = s
      BY <2>1 DEF TInv, Lists, Placed, NoRepeat
    <2>3. \A e : e \in Live <=> e.section \in Sections /\ \E i \in 1 .. Len(list[e.section]) : list[e.section][i] = e
      BY LivePlace DEF TInv, Lists
    <2>4. \A e : e \in Live' <=> e.section \in Sections /\ \E i \in 1 .. Len(list'[e.section]) : list'[e.section][i] = e
      BY LivePlaceNext DEF TInv, Lists
    <2>5. Elements(l) = Elements(k)
      <3>1. ASSUME NEW i \in 1 .. Len(l) PROVE \E j \in 1 .. Len(k) : k[j] = l[i]
        <4>1. PICK e : e = l[i] OBVIOUS
        <4>2. e.section = s BY <2>2, <4>1
        <4>3. e \in Live BY <2>1, <2>3, <4>1, <4>2
        <4>4. e \in Live' BY <4>3
        <4>q. QED BY <2>1, <2>4, <4>1, <4>2, <4>4
      <3>2. ASSUME NEW i \in 1 .. Len(k) PROVE \E j \in 1 .. Len(l) : l[j] = k[i]
        <4>1. PICK e : e = k[i] OBVIOUS
        <4>2. e.section = s BY <2>2, <4>1
        <4>3. e \in Live' BY <2>1, <2>4, <4>1, <4>2
        <4>4. e \in Live BY <4>3
        <4>q. QED BY <2>1, <2>3, <4>1, <4>2, <4>4
      <3>3. ASSUME NEW x \in Elements(l) PROVE x \in Elements(k)
        <4>1. PICK i \in 1 .. Len(l) : x = l[i] BY DEF Elements
        <4>2. PICK j \in 1 .. Len(k) : k[j] = l[i] BY <3>1
        <4>q. QED BY <4>1, <4>2 DEF Elements
      <3>4. ASSUME NEW x \in Elements(k) PROVE x \in Elements(l)
        <4>1. PICK i \in 1 .. Len(k) : x = k[i] BY DEF Elements
        <4>2. PICK j \in 1 .. Len(l) : l[j] = k[i] BY <3>2
        <4>q. QED BY <4>1, <4>2 DEF Elements
      <3>q. QED BY <3>3, <3>4
    <2>6. Total(l) = Total(k) BY <2>2, <2>5, TotalSame
    <2>7. size[s] = Total(l) BY <2>1 DEF TInv, Lists, Summed
    <2>8. size'[s] = Total(k) BY <2>1 DEF TInv, Lists, Summed
    <2>q. QED BY <2>6, <2>7, <2>8
  <1>q. QED BY <1>1, <1>2

\* After tinyfs_write_through a reset changes nothing.
LEMMA SyncedReset ==
  ASSUME Countable, MetaInPage, Held, Steady, Reset, ~torn, pc = "idle", buf = << >>
  PROVE  /\ ~torn'
         /\ Live' = Live /\ size' = size
         /\ tailCount > 0 => <<headSec', tailSec', tailCount', avail', free'>>
                               = <<headSec, tailSec, tailCount, avail, free>>
  <1>1. RInv /\ RoomToCopy BY DEF Held, Steady, CopyFits, RoomToCopy
  <1>2. IInv /\ TInv /\ LInv /\ Shape /\ Meaning BY <1>1 DEF RInv
  <1>3. FlashLog = Log /\ Found = FlashLog BY <1>1, <1>2, SyncedFound
  <1>4. ~torn' /\ Live' = Surv(Found) BY <1>1, <1>2, <1>3, TornIs
  <1>5. Live' = Live
    <2>1. Live = Surv(Log) BY <1>2, IdleMeaning
    <2>q. QED BY <1>3, <1>4, <2>1
  <1>6. RInv' BY <1>1, <1>4, ResetStep
  <1>7. size' = size
    <2>1. IInv' /\ TInv' BY <1>6 DEF RInv
    <2>q. QED BY <1>2, <1>5, <2>1, SameSizes
  <1>8. ASSUME tailCount > 0
        PROVE  /\ headSec' = headSec /\ tailSec' = tailSec /\ tailCount' = tailCount
               /\ avail' = avail /\ free' = free
    <2>1. TypeOK /\ CacheAligned BY <1>2 DEF IInv
    <2>2. HeadLen \in Nat \ {0} /\ SectionSize \in Nat \ {0} /\ Payload \in Nat BY Geometry
    <2>3. PICK a \in Nat, c \in Nat : a = avail /\ c = tailCount BY <2>1 DEF TypeOK
    <2>4. c # 0 BY <1>8, <2>3
    <2>5. HeadLen <= a BY <1>2, <2>3 DEF LInv, Phases
    <2>6. Base = a
      <3>1. Len(buf) = 0 OBVIOUS
      <3>q. QED BY <2>3, <3>1 DEF Base
    <2>7. Base # 0 BY <2>2, <2>3, <2>5, <2>6
    <2>8. FTail = tailSec /\ FLimit = a BY <2>1, <2>6, <2>7, LimitIs
    <2>9. tailSec \in Valid
      <3>1. tailSec \in Sections \ Ahead
        <4>1. tailSec \in Sections BY <2>1 DEF TypeOK
        <4>2. tailSec \notin Ahead BY <2>1, <2>3, <2>4, LogSections
        <4>q. QED BY <4>1, <4>2
      <3>q. QED BY <2>7, <3>1 DEF Valid
    <2>10. Restarted
      <3>1. Valid # {} BY <2>9
      <3>q. QED BY <1>1, <1>2, <1>4, <3>1, RestartIs
    <2>11. /\ headSec' = headSec /\ tailSec' = tailSec /\ avail' = a
           /\ tailCount' = tailCount - Age(tailSec)
           /\ free' = SectionSize - a + Payload * Gap(headSec, tailSec)
      <3>1. PICK t : t = FTail OBVIOUS
      <3>2. /\ headSec' = headSec /\ tailSec' = t /\ avail' = FLimit
            /\ tailCount' = tailCount - Age(t)
            /\ free' = SectionSize - FLimit + Payload * Gap(headSec, t)
        BY <2>10, <3>1 DEF Restarted
      <3>q. QED BY <2>8, <3>1, <3>2
    <2>12. tailCount' = tailCount
      <3>1. Age(tailSec) = 0 BY <2>1, Ages
      <3>2. c - 0 = c BY <2>3
      <3>q. QED BY <2>3, <2>11, <3>1, <3>2
    <2>13. free' = free
      <3>1. EmptySections = Gap(headSec, tailSec) BY <2>3, <2>4 DEF EmptySections, Gap
      <3>2. free = SectionSize - avail + Payload * EmptySections - Len(out) BY <1>2 DEF LInv, FreeExact
      <3>3. Len(out) = 0
        <4>1. out = << >> BY <1>2 DEF LInv, Phases
        <4>q. QED BY <4>1
      <3>4. PICK g \in Int : g = Payload * EmptySections
        <4>1. EmptySections \in Nat BY <2>1, LogSections
        <4>2. Payload * EmptySections \in Int BY <2>2, <4>1
        <4>q. QED BY <4>2
      <3>5. free = SectionSize - a + g - 0 BY <2>3, <3>2, <3>3, <3>4
      <3>6. free' = SectionSize - a + g BY <2>11, <3>1, <3>4
      <3>q. QED BY <2>2, <2>3, <3>4, <3>5, <3>6
    <2>q. QED BY <2>3, <2>11, <2>12, <2>13
  <1>q. QED BY <1>4, <1>5, <1>7, <1>8

\* Only a reset that finds the last record half in the cache tears it: after
\* tinyfs_write_through, between calls, the volume comes back as it was, to the byte.
THEOREM SyncedResetIsExact ==
  ASSUME Roomy, Countable, MetaInPage
  PROVE  RSpec /\ []Steady => SyncedResetExact
  <1>1. Held /\ Steady =>
          [Reset /\ ~torn /\ pc = "idle" /\ buf = << >> =>
            /\ ~torn'
            /\ Live' = Live /\ size' = size
            /\ (tailCount > 0 => <<headSec', tailSec', tailCount', avail', free'>>
                                   = <<headSec, tailSec, tailCount, avail, free>>)]_recoveryVars
    BY SyncedReset
  <1>q. QED BY <1>1, RecoveryInvariance, PTL DEF SyncedResetExact
=============================================================================
