------------------------ MODULE TinyFsRecovery_proof ------------------------
(***************************************************************************)
(* TinyFs under power loss, while power lasts: what the log looks like at   *)
(* every step, unit by unit, and that what it says of the volume is what    *)
(* the lists in RAM say.  The reset itself is in TinyFsReset_proof.         *)
(***************************************************************************)
EXTENDS TinyFsRecovery, TinyFsLog_proof

-----------------------------------------------------------------------------
(* What the log looks like. *)

\* The units before this offset of the tail section are in flash, the others in the
\* cache.
Base == avail - Len(buf)

\* How many sections lie from this one on to the tail.
Age(s) == IF s <= tailSec THEN tailSec - s ELSE tailSec - s + SectionNum

\* A unit of the log that may belong to a node.
Has(s, o) == s \in Sections \ Ahead /\ o \in HeadLen .. SectionSize - 1 /\ (s = tailSec => o < avail)

\* A unit of a node other than its first.
Mid(s, o) == \E n \in Nodes : \E i \in 2 .. NodeLen(n) : At(s, o) = <<n, i>>

\* The entry under way has begun.
Under == pc = "emit" /\ Done > 0
IsEntry(s, o) == Under /\ entry.section = s /\ entry.offset = o
Left == NodeLen(entry.node) - Done

\* Every unit is part of a node or padding.
Kinds ==
  \A s \in Sections, o \in HeadLen .. SectionSize - 1 : Has(s, o) =>
     At(s, o) = Erased \/ \E n \in Nodes : \E i \in 1 .. NodeLen(n) : At(s, o) = <<n, i>>

\* The units of a node follow each other.
Follows ==
  \A s \in Sections, o \in HeadLen + 1 .. SectionSize - 1, n \in Nodes : \A i \in 2 .. NodeLen(n) :
     Has(s, o) /\ At(s, o) = <<n, i>> => At(s, o - 1) = <<n, i - 1>>

\* Padding goes on to the end of its page.
NextPage(o) == (o \div PageSize) * PageSize + PageSize
Padded ==
  \A s \in Sections, o \in HeadLen .. SectionSize - 1 : Has(s, o) /\ At(s, o) = Erased =>
     \A q \in o .. NextPage(o) - 1 : Has(s, q) /\ At(s, q) = Erased

\* No page of the log is empty.
PagesUsed ==
  \A s \in Sections, o \in HeadLen .. SectionSize - 1 : Has(s, o) /\ o % PageSize = 0 => At(s, o) # Erased

\* A power loss has left only the beginning of a node, up to the end of a page.
CutAt(s, o, n) ==
  \E k \in 1 .. MetaLen(n) - 1 :
    /\ o + k <= SectionSize /\ (o + k) % PageSize = 0
    /\ s = tailSec => o + k <= avail
    /\ \A j \in 0 .. k - 1 : At(s, o + j) = <<n, j + 1>>
    /\ o + k < SectionSize => ~Mid(s, o + k)
    /\ o + k = SectionSize =>
         IF s = tailSec THEN NextSection(s) \in Ahead ELSE ~Mid(NextSection(s), HeadLen)

\* Every node that begins is there as a whole, or cut, or under way.
Begins ==
  \A s \in Sections, o \in HeadLen .. SectionSize - 1, n \in Nodes :
     Has(s, o) /\ At(s, o) = <<n, 1>> /\ ~IsEntry(s, o) =>
        Stored([section |-> s, offset |-> o], n, NodeLen(n)) \/ CutAt(s, o, n)

\* A node over the end of the section before leads up to this place.
Straddles(s, off) ==
  \E e \in Located :
     /\ e.section # s /\ e.offset >= HeadLen
     /\ SectionOffset(e.section, e.offset, NodeLen(e.node)) = [section |-> s, offset |-> off]
     /\ Stored(e, e.node, NodeLen(e.node)) \/ (Under /\ e = entry)

\* The header of a section: its count, and where the first node begins in it.
StartsAt(s, off) ==
  /\ \A o \in HeadLen .. off - 1 : Has(s, o) => Mid(s, o)
  /\ Has(s, off) => ~Mid(s, off)
  /\ s = tailSec /\ off >= avail => off = avail + (IF Under THEN Left ELSE 0)
  /\ s = tailSec /\ off > Base /\ off > HeadLen => Straddles(s, off)

Headed ==
  \A s \in Sections \ Ahead : (s = tailSec => avail # 0) =>
     \E off \in HeadLen .. SectionSize - 1 :
        At(s, 0) = <<SectionHead(tailCount - Age(s), off), 1>> /\ StartsAt(s, off)

\* The counts start above 0.
Counted == tailCount # 0 => tailCount > Age(headSec)

\* The header that is still to be written, and the rest of the entry under way.
HeaderAhead ==
  pc = "emit" =>
    /\ avail = 0 => out[1] = <<SectionHead(tailCount, HeadLen + (IF Done = 0 THEN 0 ELSE Left)), 1>>
    /\ starting => Done = 0
    /\ ~starting /\ Done = 0 => avail = HeadLen
    /\ entry.offset >= HeadLen
    /\ unread <= NodeLen(entry.node) - MetaLen(entry.node)

Shape == Kinds /\ Follows /\ Padded /\ PagesUsed /\ Begins /\ Headed /\ Counted /\ HeaderAhead

-----------------------------------------------------------------------------
(* What the log says. *)

\* The entries of the log, and those of which flash holds every unit.
Log == {e \in Located : e.offset >= HeadLen /\ Stored(e, e.node, NodeLen(e.node))}

InFlash(e) ==
  \A i \in 0 .. NodeLen(e.node) - 1 :
     ~(/\ SectionOffset(e.section, e.offset, i).section = tailSec
       /\ SectionOffset(e.section, e.offset, i).offset >= Base)

FlashLog == {e \in Log : InFlash(e)}

Before(e, f) == Age(e.section) > Age(f.section) \/ (e.section = f.section /\ e.offset < f.offset)

\* What is left of a set of entries, and of the store they stand for.
Surv(L) == {e \in L : Adds(e.node) /\ \A f \in L : Before(e, f) => ~Overrides(f.node, e.node)}
Remains(L) == {e.node : e \in Surv(L)}

Prefix(Q) == \A e \in Q, f \in Log : Before(f, e) => f \in Q

\* A store a reset may bring back.
Back(R) == \E store \in kept : R \subseteq store /\ \A m \in store \ R : Key(m) \in risk

\* Whatever part of the cache has reached flash, what a reset finds is such a store.
Recoverable == \A Q \in SUBSET Log : FlashLog \subseteq Q /\ Prefix(Q) => Back(Remains(Q))

\* The log without the entry that is being written.
Older == IF pc = "emit" THEN Log \ {entry} ELSE Log

\* What the call under way has taken off the lists already.
Replaced(m) == todo # << >> /\ SameKey(todo[1], m)

LiveIs ==
  Live = {e \in Surv(Older) : ~Replaced(e.node) /\ (copying => e.node # entry.node)}

VolIs ==
  /\ Tree = {m \in vol : ~Replaced(m)}
  /\ \A m \in vol : Replaced(m) => Key(m) \in risk
  /\ Tree \subseteq Remains(Older) /\ Remains(Older) \subseteq vol

KeptIs ==
  /\ vol \in kept
  /\ pc = "emit" /\ ~copying => Applied(vol, todo[1]) \in kept
  /\ \A store \in kept :
        store \subseteq TreeNodes /\ Unique(store) /\ Rooted(store) /\ Younger(store, dirIdMax)
  /\ pc # "idle" /\ IsDir(todo[1]) /\ (pc = "emit" => copying) =>
        \A store \in kept : \A m \in store : IsDir(m) => m.id # todo[1].id

EntryLast == Under => \A e \in Log : e # entry => Before(e, entry)

Erasing == pc = "erase" => buf = << >> /\ kept = {vol}

OnlyRecords == \A k \in risk : k[1] = "record"

Resting == pc = "idle" => todo = << >>

Meaning == Recoverable /\ LiveIs /\ VolIs /\ KeptIs /\ EntryLast /\ Erasing /\ OnlyRecords /\ Resting

\* The invariant.
RInv == IInv /\ TInv /\ LInv /\ Shape /\ Meaning

-----------------------------------------------------------------------------
(* Sections and places. *)

\* Sections by their distance from the tail.
LEMMA Ages ==
  ASSUME TypeOK
  PROVE  /\ \A s \in Sections : Age(s) \in 0 .. SectionNum - 1
         /\ \A s, t \in Sections : Age(s) = Age(t) => s = t
         /\ Age(tailSec) = 0
         /\ \A s \in Sections : s # tailSec => Age(s) > 0 /\ Age(NextSection(s)) = Age(s) - 1
         /\ tailCount # 0 => \A s \in Sections : s \notin Ahead <=> Age(s) <= Age(headSec)
         /\ tailCount = 0 => \A s \in Sections : s \in Ahead
  <1>1. /\ SectionNum \in Nat /\ SectionNum >= 3 /\ tailSec \in Nat /\ headSec \in Nat
        /\ tailSec < SectionNum /\ headSec < SectionNum
    BY GeometryAssumption DEF TypeOK, Sections
  <1>q. QED BY <1>1 DEF Age, Ahead, NextSection, Sections

\* A place in a node tells where the node begins.
LEMMA GoBack ==
  ASSUME NEW s \in Sections, NEW o \in HeadLen .. SectionSize - 1,
         NEW t \in Sections, NEW p \in HeadLen .. SectionSize - 1,
         NEW i \in 0 .. Payload, SectionOffset(s, o, i) = SectionOffset(t, p, i)
  PROVE  s = t /\ o = p
  <1>1. /\ SectionSize \in Nat /\ HeadLen \in Nat \ {0} /\ HeadLen < SectionSize /\ Payload = SectionSize - HeadLen
        /\ SectionNum \in Nat
    BY Geometry DEF Payload
  <1>2. NextSection(s) = NextSection(t) => s = t BY <1>1 DEF NextSection, Sections
  <1>3. /\ o + i < SectionSize => SectionOffset(s, o, i).section = s /\ SectionOffset(s, o, i).offset = o + i
        /\ ~(o + i < SectionSize) =>
             SectionOffset(s, o, i).section = NextSection(s) /\ SectionOffset(s, o, i).offset = o + i - SectionSize + HeadLen
    BY <1>1 DEF SectionOffset
  <1>4. /\ p + i < SectionSize => SectionOffset(t, p, i).section = t /\ SectionOffset(t, p, i).offset = p + i
        /\ ~(p + i < SectionSize) =>
             SectionOffset(t, p, i).section = NextSection(t) /\ SectionOffset(t, p, i).offset = p + i - SectionSize + HeadLen
    BY <1>1 DEF SectionOffset
  <1>q. QED BY <1>1, <1>2, <1>3, <1>4

\* Where a node lies, unit by unit.
LEMMA Units ==
  ASSUME NEW s \in Sections, NEW o \in 0 .. SectionSize - 1, NEW i \in 0 .. Payload
  PROVE  /\ o + i < SectionSize => SectionOffset(s, o, i) = [section |-> s, offset |-> o + i]
         /\ o + i >= SectionSize =>
              SectionOffset(s, o, i) = [section |-> NextSection(s), offset |-> o + i - SectionSize + HeadLen]
  <1>1. SectionSize \in Nat /\ HeadLen \in Nat BY Geometry
  <1>q. QED BY <1>1 DEF SectionOffset

\* The next page begins after an offset, by at most a page.
LEMMA NextPageIs ==
  ASSUME NEW o \in Nat
  PROVE  /\ NextPage(o) \in Nat /\ o < NextPage(o) /\ NextPage(o) <= o + PageSize
         /\ NextPage(o) % PageSize = 0
         /\ \A q \in Nat : o < q /\ q % PageSize = 0 => NextPage(o) <= q
         /\ o % PageSize = 0 => NextPage(o) = o + PageSize
         /\ \A q \in Nat : o <= q /\ q < NextPage(o) => NextPage(q) = NextPage(o)
  <1> DEFINE k == o \div PageSize
             r == o % PageSize
  <1>1. k \in Nat /\ r \in 0 .. PageSize - 1 /\ o = k * PageSize + r /\ PageSize \in Nat \ {0}
    BY ModDef, Geometry
  <1>2. NextPage(o) = k * PageSize + PageSize BY DEF NextPage
  <1> HIDE DEF k, r
  <1>3. k * PageSize \in Nat /\ (k + 1) * PageSize = k * PageSize + PageSize BY <1>1
  <1>4. NextPage(o) \in Nat /\ o < NextPage(o) /\ NextPage(o) <= o + PageSize BY <1>1, <1>2, <1>3
  <1>5. NextPage(o) % PageSize = 0
    <2>1. ((k + 1) * PageSize + 0) % PageSize = 0 BY <1>1, ModUnique
    <2>2. (k + 1) * PageSize + 0 = NextPage(o) BY <1>1, <1>2, <1>3
    <2>q. QED BY <2>1, <2>2
  <1>6. ASSUME NEW q \in Nat, o < q, q % PageSize = 0 PROVE NextPage(o) <= q
    <2> DEFINE l == q \div PageSize
    <2>1. l \in Nat /\ q = l * PageSize + 0 BY <1>1, <1>6, ModDef
    <2> HIDE DEF l
    <2>2. k < l
      <3>1. k = l => FALSE BY <1>1, <1>3, <1>6, <2>1
      <3>2. l < k => l * PageSize + PageSize <= k * PageSize BY <1>1, <2>1, Mult
      <3>3. l * PageSize \in Nat BY <1>1, <2>1
      <3>4. ~(l < k) BY <1>1, <1>3, <1>6, <2>1, <3>2, <3>3
      <3>q. QED BY <1>1, <2>1, <3>1, <3>4
    <2>3. k * PageSize + PageSize <= l * PageSize BY <1>1, <2>1, <2>2, Mult
    <2>q. QED BY <1>1, <1>2, <1>3, <2>1, <2>3
  <1>7. r = 0 => NextPage(o) = o + PageSize BY <1>1, <1>2, <1>3
  <1>8. ASSUME NEW q \in Nat, o <= q, q < NextPage(o) PROVE NextPage(q) = NextPage(o)
    <2> DEFINE j == q - k * PageSize
    <2>1. j \in 0 .. PageSize - 1 BY <1>1, <1>2, <1>3, <1>8
    <2>2. (k * PageSize + j) \div PageSize = k BY <1>1, <2>1, ModUnique
    <2>3. k * PageSize + j = q BY <1>3
    <2>4. q \div PageSize = k BY <2>2, <2>3
    <2>q. QED BY <1>2, <2>4 DEF NextPage
  <1>q. QED BY <1>4, <1>5, <1>6, <1>7, <1>8 DEF r

\* Pages do not go over the end of a section.
LEMMA PageInSection ==
  ASSUME NEW o \in 0 .. SectionSize - 1
  PROVE  NextPage(o) <= SectionSize
  <1>1. SectionSize \in Nat /\ SectionSize % PageSize = 0 BY Geometry
  <1>q. QED BY <1>1, NextPageIs

\* The cache begins at the start of a page.
LEMMA BaseIs ==
  ASSUME TypeOK, CacheAligned
  PROVE  /\ Base \in Nat /\ Base <= avail /\ avail <= SectionSize /\ avail \in Nat /\ Base % PageSize = 0
         /\ avail - Base = Len(buf) /\ Len(buf) \in 0 .. PageSize - 1
         /\ avail < SectionSize => Base + PageSize <= SectionSize
         /\ Base > 0 => Base >= PageSize
         /\ Base < SectionSize => avail < Base + PageSize
         /\ avail = SectionSize => Base = SectionSize
  <1>1. /\ avail \in 0 .. SectionSize /\ Len(buf) \in 0 .. PageSize - 1 /\ Base \in Nat
        /\ avail < SectionSize => Base + PageSize <= SectionSize
        /\ avail = SectionSize => buf = << >>
    BY CacheStart DEF Base
  <1>2. avail \in Nat /\ PageSize \in Nat \ {0} /\ SectionSize \in Nat BY <1>1, Geometry
  <1> DEFINE k == avail \div PageSize
  <1>3. k \in Nat /\ avail = k * PageSize + Len(buf) BY <1>2, ModDef DEF CacheAligned
  <1> HIDE DEF k
  <1>4. k * PageSize \in Nat /\ Base = k * PageSize + 0 BY <1>1, <1>2, <1>3 DEF Base
  <1>5. Base % PageSize = 0
    <2>1. PICK r \in 0 .. PageSize - 1 : r = 0 BY <1>2
    <2>2. (k * PageSize + r) % PageSize = r BY <1>2, <1>3, ModUnique
    <2>3. k * PageSize + r = Base BY <1>4, <2>1
    <2> HIDE DEF Base
    <2>q. QED BY <2>1, <2>2, <2>3
  <1>6. Base > 0 => Base >= PageSize
    <2>1. k # 0 => 0 * PageSize + PageSize <= k * PageSize BY <1>2, <1>3, Mult
    <2>2. k = 0 => k * PageSize = 0 BY <1>2
    <2>3. 0 * PageSize = 0 BY <1>2
    <2>q. QED BY <1>2, <1>4, <2>1, <2>2, <2>3
  <1>7. avail = SectionSize => Base = SectionSize
    <2>1. avail = SectionSize => Len(buf) = 0 BY <1>1
    <2>q. QED BY <1>1, <1>2, <2>1 DEF Base
  <1>q. QED BY <1>1, <1>2, <1>5, <1>6, <1>7 DEF Base

\* A step that leaves the log alone.
LEMMA SameShape ==
  ASSUME UNCHANGED <<logVars, headSec>>
  PROVE  /\ Base' = Base /\ Ahead' = Ahead
         /\ \A s, o : At(s, o)' = At(s, o)
         /\ \A s : Age(s)' = Age(s)
         /\ \A s, o : Has(s, o)' <=> Has(s, o)
         /\ \A s, o : Mid(s, o)' <=> Mid(s, o)
         /\ \A p, node, n : Stored(p, node, n)' <=> Stored(p, node, n)
         /\ \A s, o, n : CutAt(s, o, n)' <=> CutAt(s, o, n)
         /\ \A e, f : Before(e, f)' <=> Before(e, f)
         /\ Log' = Log /\ FlashLog' = FlashLog
         /\ \A L : Surv(L)' = Surv(L)
         /\ \A L : Remains(L)' = Remains(L)
  <1>1. UNCHANGED <<flash, buf, avail, tailSec, tailCount, headSec>> BY DEF logVars
  <1>2. Base' = Base /\ Ahead' = Ahead BY <1>1 DEF Base, Ahead
  <1>3. \A s, o : At(s, o)' = At(s, o) BY <1>1 DEF At
  <1>4. \A s : Age(s)' = Age(s) BY <1>1 DEF Age
  <1>5. \A s, o : Has(s, o)' <=> Has(s, o) BY <1>1, <1>2 DEF Has
  <1>6. \A s, o : Mid(s, o)' <=> Mid(s, o) BY <1>3 DEF Mid
  <1>7. \A p : AtPlace(p)' = AtPlace(p) BY <1>3 DEF AtPlace
  <1>8. \A s, o, n : Laid(s, o, n)' <=> Laid(s, o, n) BY <1>1, <1>2 DEF Laid
  <1>9. \A s, o, node, n : Holds(s, o, node, n)' <=> Holds(s, o, node, n) BY <1>7 DEF Holds
  <1>10. \A p, node, n : Stored(p, node, n)' <=> Stored(p, node, n) BY <1>8, <1>9 DEF Stored
  <1>11. \A s, o, n : CutAt(s, o, n)' <=> CutAt(s, o, n) BY <1>1, <1>2, <1>3, <1>6 DEF CutAt
  <1>12. \A e, f : Before(e, f)' <=> Before(e, f) BY <1>4 DEF Before
  <1>13. Log' = Log BY <1>10 DEF Log
  <1>14. FlashLog' = FlashLog
    <2>1. \A e : InFlash(e)' <=> InFlash(e) BY <1>1, <1>2 DEF InFlash
    <2>q. QED BY <1>13, <2>1 DEF FlashLog
  <1>15. \A L : Surv(L)' = Surv(L) BY <1>12 DEF Surv
  <1>16. \A L : Remains(L)' = Remains(L) BY <1>15 DEF Remains
  <1>q. QED BY <1>2, <1>3, <1>4, <1>5, <1>6, <1>10, <1>11, <1>12, <1>13, <1>14, <1>15, <1>16

-----------------------------------------------------------------------------
(* The units of the log, and the steps that write none. *)

\* A unit of a node tells the node and the unit, and is not padding.
LEMMA UnitIs ==
  /\ \A n, m, i, j : <<n, i>> = <<m, j>> => n = m /\ i = j
  /\ \A n, i : i # 0 => <<n, i>> # Erased
  <1>q. QED BY DEF Erased

\* The units of the log stay what they are, but for those of some sections.
LEMMA KeepUnits ==
  ASSUME TypeOK, Kinds, Follows, Padded, PagesUsed, NEW X,
         \A s, o : Has(s, o)' <=> Has(s, o) /\ s \notin X,
         \A s \in Sections \ X, o \in 0 .. SectionSize - 1 : Has(s, o) => At(s, o)' = At(s, o)
  PROVE  Kinds' /\ Follows' /\ Padded' /\ PagesUsed'
  <1>1. HeadLen \in Nat /\ SectionSize \in Nat /\ avail \in Nat BY Geometry DEF TypeOK
  <1>2. \A s, o : Has(s, o)' => s \in Sections \ X /\ o \in HeadLen .. SectionSize - 1 /\ o \in 0 .. SectionSize - 1
                                /\ Has(s, o) /\ At(s, o)' = At(s, o)
    <2>1. \A s, o : Has(s, o) => s \in Sections /\ o \in HeadLen .. SectionSize - 1 BY DEF Has
    <2>q. QED BY <1>1, <2>1
  <1>3. Kinds' BY <1>2 DEF Kinds
  <1>4. Follows'
    <2> SUFFICES ASSUME NEW s \in Sections, NEW o \in HeadLen + 1 .. SectionSize - 1, NEW n \in Nodes,
                        NEW i \in 2 .. NodeLen(n), Has(s, o)', At(s, o)' = <<n, i>>
                 PROVE  At(s, o - 1)' = <<n, i - 1>>
      BY DEF Follows
    <2>1. At(s, o - 1) = <<n, i - 1>> BY <1>2 DEF Follows
    <2>2. Has(s, o - 1) BY <1>1, <1>2 DEF Has
    <2>3. o - 1 \in 0 .. SectionSize - 1 BY <1>1
    <2>q. QED BY <1>2, <2>1, <2>2, <2>3
  <1>5. Padded'
    <2> SUFFICES ASSUME NEW s \in Sections, NEW o \in HeadLen .. SectionSize - 1, Has(s, o)', At(s, o)' = Erased,
                        NEW q \in o .. NextPage(o) - 1
                 PROVE  Has(s, q)' /\ At(s, q)' = Erased
      BY DEF Padded, NextPage
    <2>1. Has(s, q) /\ At(s, q) = Erased BY <1>2 DEF Padded
    <2>2. Has(s, q)' BY <1>2, <2>1
    <2>q. QED BY <1>2, <2>1, <2>2
  <1>6. PagesUsed' BY <1>2 DEF PagesUsed
  <1>q. QED BY <1>3, <1>4, <1>5, <1>6

\* A step that leaves the log alone, and the entry under way unless it is complete.
LEMMA QuietShape ==
  ASSUME IInv, Shape, UNCHANGED <<logVars, headSec>>, HeaderAhead',
         ~Under => ~Under',
         Under => \/ Under' /\ entry' = entry /\ Left' = Left
                  \/ ~Under' /\ Left = 0 /\ Stored(entry, entry.node, NodeLen(entry.node))
  PROVE  Shape'
  <1>u. UNCHANGED <<avail, tailSec, tailCount, headSec>> BY DEF logVars
  <1> USE DEF Shape
  <1>1. Kinds' /\ Follows' /\ Padded' /\ PagesUsed'
    <2> DEFINE X == {}
    <2>1. \A s : s \notin X OBVIOUS
    <2> HIDE DEF X
    <2>2. \A s, o : Has(s, o)' <=> Has(s, o) /\ s \notin X BY <2>1, SameShape
    <2>3. \A s \in Sections \ X, o \in 0 .. SectionSize - 1 : Has(s, o) => At(s, o)' = At(s, o) BY SameShape
    <2>q. QED BY <2>2, <2>3, KeepUnits DEF IInv
  <1>2. Begins'
    <2> SUFFICES ASSUME NEW s \in Sections, NEW o \in HeadLen .. SectionSize - 1, NEW n \in Nodes,
                        Has(s, o)', At(s, o)' = <<n, 1>>, ~IsEntry(s, o)'
                 PROVE  Stored([section |-> s, offset |-> o], n, NodeLen(n))' \/ CutAt(s, o, n)'
      BY DEF Begins
    <2>1. Has(s, o) /\ At(s, o) = <<n, 1>> BY SameShape
    <2>2. CASE ~IsEntry(s, o)
      <3>1. Stored([section |-> s, offset |-> o], n, NodeLen(n)) \/ CutAt(s, o, n) BY <2>1, <2>2 DEF Begins
      <3>q. QED BY <3>1, SameShape
    <2>3. CASE IsEntry(s, o)
      <3>1. ~Under' /\ Stored(entry, entry.node, NodeLen(entry.node)) BY <2>3 DEF IsEntry
      <3>2. entry.section = s /\ entry.offset = o BY <2>3 DEF IsEntry
      <3>3. PICK m : m = entry.node OBVIOUS
      <3>4. Laid(s, o, NodeLen(m)) /\ Holds(s, o, m, NodeLen(m)) BY <3>1, <3>2, <3>3 DEF Stored
      <3>5. m \in Nodes BY <2>3, <3>3 DEF IInv, CallShape, Located, IsEntry, Under
      <3>6. NodeLen(m) \in Nat \ {0} BY <3>5, NodeFits
      <3>7. AtPlace(SectionOffset(s, o, 0)) = <<m, 0 + 1>> BY <3>4, <3>6 DEF Holds
      <3>8. SectionOffset(s, o, 0) = [section |-> s, offset |-> o] BY Geometry DEF SectionOffset
      <3>9. At(s, o) = <<m, 1>> BY <3>7, <3>8 DEF AtPlace
      <3>10. m = n BY <2>1, <3>9, UnitIs
      <3>11. Stored([section |-> s, offset |-> o], n, NodeLen(n)) BY <3>4, <3>10 DEF Stored
      <3>q. QED BY <3>11, SameShape
    <2>q. QED BY <2>2, <2>3
  <1>3. Headed'
    <2> SUFFICES ASSUME NEW s \in Sections \ Ahead, s = tailSec => avail # 0
                 PROVE  \E off \in HeadLen .. SectionSize - 1 :
                          At(s, 0)' = <<SectionHead(tailCount - Age(s), off), 1>> /\ StartsAt(s, off)'
      BY <1>u, SameShape DEF Headed
    <2>1. PICK off \in HeadLen .. SectionSize - 1 :
                 At(s, 0) = <<SectionHead(tailCount - Age(s), off), 1>> /\ StartsAt(s, off)
      BY DEF Headed
    <2>2. At(s, 0)' = At(s, 0) BY SameShape
    <2>3. (\A o \in HeadLen .. off - 1 : Has(s, o) => Mid(s, o))' BY <2>1, SameShape DEF StartsAt
    <2>4. (Has(s, off) => ~Mid(s, off))' BY <2>1, SameShape DEF StartsAt
    <2>5. (s = tailSec /\ off >= avail => off = avail + (IF Under THEN Left ELSE 0))'
      <3>1. s = tailSec /\ off >= avail => off = avail + (IF Under THEN Left ELSE 0) BY <2>1 DEF StartsAt
      <3>2. avail \in Nat BY DEF IInv, TypeOK
      <3>3. (IF Under THEN Left ELSE 0)' = (IF Under THEN Left ELSE 0) OBVIOUS
      <3>q. QED BY <1>u, <3>1, <3>3
    <2>6. (s = tailSec /\ off > Base /\ off > HeadLen => Straddles(s, off))'
      <3>1. SUFFICES ASSUME Straddles(s, off) PROVE Straddles(s, off)'
        BY <1>u, <2>1, SameShape DEF StartsAt
      <3>2. PICK e \in Located :
               /\ e.section # s /\ e.offset >= HeadLen
               /\ SectionOffset(e.section, e.offset, NodeLen(e.node)) = [section |-> s, offset |-> off]
               /\ Stored(e, e.node, NodeLen(e.node)) \/ (Under /\ e = entry)
        BY <3>1 DEF Straddles
      <3>3. (Stored(e, e.node, NodeLen(e.node)) \/ (Under /\ e = entry))'
        <4>1. Stored(e, e.node, NodeLen(e.node)) => Stored(e, e.node, NodeLen(e.node))' BY SameShape
        <4>2. Under /\ e = entry => Stored(e, e.node, NodeLen(e.node)) \/ (Under' /\ e = entry') OBVIOUS
        <4>q. QED BY <3>2, <4>1, <4>2
      <3>q. QED BY <3>2, <3>3 DEF Straddles
    <2>7. StartsAt(s, off)' BY <2>3, <2>4, <2>5, <2>6 DEF StartsAt
    <2>q. QED BY <2>1, <2>2, <2>7
  <1>4. Counted' BY <1>u, SameShape DEF Counted
  <1>q. QED BY <1>1, <1>2, <1>3, <1>4

-----------------------------------------------------------------------------
(* The steps that leave the log alone. *)

\* How much of the entry there is to be written.
LEMMA LeftIs ==
  ASSUME IInv, LInv, pc = "emit"
  PROVE  /\ entry.node \in Nodes /\ entry.section \in Sections /\ entry.offset \in 0 .. SectionSize - 1
         /\ NodeLen(entry.node) \in Nat \ {0} /\ NodeLen(entry.node) <= Payload
         /\ Done \in Nat /\ Left \in Nat /\ Left = unread + (Len(out) - Heading)
         /\ Heading \in Nat /\ Heading <= Len(out) /\ Len(out) \in Nat /\ unread \in Nat
         /\ Done <= NodeLen(entry.node)
  <1>1. entry.node \in Nodes /\ entry.section \in Sections /\ entry.offset \in 0 .. SectionSize - 1
    BY DEF IInv, CallShape, Located
  <1>2. NodeLen(entry.node) \in Nat \ {0} /\ NodeLen(entry.node) <= Payload BY <1>1, NodeFits
  <1>3. Len(out) \in Nat /\ unread \in Nat /\ Heading \in Nat BY Geometry DEF IInv, TypeOK, Heading
  <1>4. Done \in Nat /\ Heading <= Len(out) BY DEF LInv, Emitting
  <1>5. Left = unread + (Len(out) - Heading) BY <1>2, <1>3 DEF Left, Done
  <1>6. Left \in Nat BY <1>3, <1>4, <1>5
  <1>7. Done <= NodeLen(entry.node) BY <1>2, <1>4, <1>6 DEF Left
  <1>q. QED BY <1>1, <1>2, <1>3, <1>4, <1>5, <1>6, <1>7

\* Nothing is being written, before and after.
LEMMA RestShape ==
  ASSUME IInv, Shape, UNCHANGED <<logVars, headSec>>, pc # "emit", pc' # "emit"
  PROVE  Shape'
  <1>1. ~Under /\ ~Under' BY DEF Under
  <1>2. HeaderAhead' BY DEF HeaderAhead
  <1>q. QED BY <1>1, <1>2, QuietShape

\* An entry is started.
LEMMA StartShape ==
  ASSUME IInv, LInv, Shape, pc # "emit", UNCHANGED <<logVars, headSec>>,
         NEW node \in Nodes, NEW c \in 1 .. NodeLen(node), NEW cells,
         cells = [i \in 1 .. c |-> <<node, i>>],
         StartEntry(node, cells), unread' = NodeLen(node) - c, unread' <= NodeLen(node) - MetaLen(node)
  PROVE  Shape' /\ Done' = 0
  <1>1. HeadLen <= avail BY RestFacts
  <1>2. avail' = avail BY DEF logVars
  <1>3. entry'.node = node /\ starting' = TRUE /\ out' = cells BY DEF StartEntry
  <1>4. entry'.offset >= HeadLen
    <2>1. HeadLen \in Nat /\ avail \in Nat BY Geometry DEF IInv, TypeOK
    <2>q. QED BY <1>1, <2>1 DEF StartEntry, NewAddress
  <1>5. Done' = 0
    <2>1. Heading' = 0 BY <1>1, <1>2, Geometry DEF Heading
    <2>2. Len(out') = c BY <1>3
    <2>3. NodeLen(node) \in Nat BY NodeFits
    <2>q. QED BY <1>3, <2>1, <2>2, <2>3 DEF Done
  <1>6. ~Under /\ ~Under' BY <1>5 DEF Under
  <1>7. HeaderAhead' BY <1>1, <1>2, <1>3, <1>4, <1>5, Geometry DEF HeaderAhead
  <1>q. QED BY <1>5, <1>6, <1>7, QuietShape

\* An entry of the call is started.
LEMMA EntryStartShape ==
  ASSUME IInv, LInv, Shape, EntryStart
  PROVE  Shape' /\ Done' = 0
  <1>1. todo[1] \in Nodes /\ pc = "gc" BY DEF EntryStart, IInv, TypeOK, CallShape
  <1>2. unread = 0 BY <1>1, RestFacts
  <1>3. PICK c : c = NodeLen(todo[1]) OBVIOUS
  <1>4. c \in 1 .. NodeLen(todo[1]) /\ unread' = NodeLen(todo[1]) - c /\ NodeLen(todo[1]) \in Nat
    BY <1>1, <1>2, <1>3, NodeFits DEF EntryStart
  <1>5. PICK cells : cells = Image(todo[1]) OBVIOUS
  <1>6. cells = [i \in 1 .. c |-> <<todo[1], i>>] BY <1>3, <1>5 DEF Image
  <1>7. StartEntry(todo[1], cells) BY <1>5 DEF EntryStart
  <1>8. unread' <= NodeLen(todo[1]) - MetaLen(todo[1])
    <2>1. MetaLen(todo[1]) \in Nat BY <1>1, NodeKinds
    <2>2. IsRecord(todo[1]) => MetaLen(todo[1]) = AddLen BY DEF IsRecord, MetaLen
    <2>3. ~IsRecord(todo[1]) => MetaLen(todo[1]) = NodeLen(todo[1]) BY DEF NodeLen
    <2>4. AddLen \in Nat BY LengthAssumption
    <2>5. IsRecord(todo[1]) => NodeLen(todo[1]) > AddLen BY <1>1, NodeLengths
    <2>q. QED BY <1>2, <1>4, <2>1, <2>2, <2>3, <2>4, <2>5 DEF EntryStart
  <1>9. UNCHANGED <<logVars, headSec>> BY DEF EntryStart
  <1>10. pc # "emit" BY <1>1
  <1>11. PICK node \in Nodes : node = todo[1] BY <1>1
  <1>q. QED BY <1>4, <1>6, <1>7, <1>8, <1>9, <1>10, <1>11, StartShape

\* The copy of a node of the head section is started.
LEMMA NodeCopyShape ==
  ASSUME IInv, LInv, Shape, NodeCopy
  PROVE  Shape' /\ Done' = 0
  <1>1. PICK e : e = list[headSec][1] OBVIOUS
  <1>2. pc # "emit" /\ UNCHANGED <<logVars, headSec>> BY DEF NodeCopy
  <1>3. e.node \in Nodes
    <2>1. list[headSec] \in Seq(Entries) /\ list[headSec] # << >> BY DEF NodeCopy, IInv, TypeOK
    <2>2. e \in Entries BY <1>1, <2>1
    <2>q. QED BY <2>2 DEF Entries, Nodes
  <1>4. MetaLen(e.node) \in 1 .. NodeLen(e.node) /\ NodeLen(e.node) \in Nat
    <2>1. MetaLen(e.node) \in 1 .. AddLen BY <1>3, NodeKinds
    <2>2. IsRecord(e.node) => NodeLen(e.node) > AddLen BY <1>3, NodeLengths
    <2>3. ~IsRecord(e.node) => MetaLen(e.node) = NodeLen(e.node) BY DEF NodeLen
    <2>4. NodeLen(e.node) \in Nat \ {0} BY <1>3, NodeFits
    <2>5. AddLen \in Nat BY LengthAssumption
    <2>q. QED BY <2>1, <2>2, <2>3, <2>4, <2>5
  <1>5. PICK node \in Nodes : node = e.node BY <1>3
  <1>6. PICK c : c = MetaLen(node) OBVIOUS
  <1>7. PICK cells : cells = SubSeq(Image(node), 1, c) OBVIOUS
  <1>8. c \in 1 .. NodeLen(node) /\ NodeLen(node) \in Nat BY <1>4, <1>5, <1>6
  <1>9. cells = [i \in 1 .. c |-> <<node, i>>]
    <2>0. PICK a \in Nat : a = 0 OBVIOUS
    <2>1. c \in Nat \ {0} /\ a + c <= NodeLen(node) BY <1>8, <2>0
    <2>2. SubSeq(Image(node), a + 1, a + c) = [i \in 1 .. c |-> <<node, a + i>>] BY <2>1, ImagePart
    <2>3. a + c = c /\ a + 1 = 1 BY <2>0, <2>1
    <2>4. [i \in 1 .. c |-> <<node, a + i>>] = [i \in 1 .. c |-> <<node, i>>] BY <2>0
    <2>q. QED BY <1>7, <2>2, <2>3, <2>4
  <1>10. StartEntry(node, cells) BY <1>1, <1>5, <1>6, <1>7 DEF NodeCopy
  <1>11. unread' = NodeLen(node) - c BY <1>1, <1>5, <1>6 DEF NodeCopy
  <1>12. unread' <= NodeLen(node) - MetaLen(node) BY <1>6, <1>8, <1>11
  <1>q. QED BY <1>2, <1>8, <1>9, <1>10, <1>11, <1>12, StartShape

\* Data are read to be copied.
LEMMA DataCopyShape ==
  ASSUME IInv, LInv, Shape, DataCopy
  PROVE  Shape' /\ Done' = Done /\ Under /\ Under'
  <1>1. pc = "emit" /\ out = << >> /\ pc' = "emit" BY DEF DataCopy
  <1>2. HeadLen <= avail /\ Heading = 0 /\ avail # 0 BY <1>1, Opened
  <1>3. UNCHANGED <<logVars, headSec, entry, starting>> BY DEF DataCopy
  <1>4. avail' = avail BY <1>3 DEF logVars
  <1>5. Heading' = 0 BY <1>2, <1>4 DEF Heading
  <1>6. PICK k : k = IF unread > CopyLen THEN CopyLen ELSE unread OBVIOUS
  <1>7. k \in Nat /\ k <= unread /\ unread' = unread - k /\ unread \in Nat
    BY <1>6, BoundAssumption DEF DataCopy, IInv, TypeOK
  <1>8. Len(out') = k
    <2>1. out' = ReadNode(source.section, source.offset, k) BY <1>6 DEF DataCopy
    <2>2. k <= Payload BY <1>7, Geometry DEF IInv, CallShape
    <2>3. source.section \in Sections /\ source.offset \in 0 .. SectionSize BY DEF IInv, TypeOK
    <2>q. QED BY <1>7, <2>1, <2>2, <2>3, ReadNodeType DEF IInv
  <1>9. Done' = Done
    <2>1. Len(out) = 0 BY <1>1
    <2>2. NodeLen(entry.node) \in Nat BY <1>1, LeftIs
    <2>3. Done = NodeLen(entry.node) - unread - (0 - 0) BY <1>2, <2>1 DEF Done
    <2>4. Done' = NodeLen(entry.node) - unread' - (k - 0) BY <1>3, <1>5, <1>8 DEF Done
    <2>q. QED BY <1>7, <2>2, <2>3, <2>4
  <1>10. Done > 0
    <2>1. unread <= NodeLen(entry.node) - MetaLen(entry.node) BY <1>1 DEF Shape, HeaderAhead
    <2>2. entry.node \in Nodes BY <1>1, LeftIs
    <2>3. MetaLen(entry.node) \in Nat \ {0} BY <2>2, NodeKinds, LengthAssumption
    <2>4. NodeLen(entry.node) \in Nat BY <1>1, LeftIs
    <2>5. Done = NodeLen(entry.node) - unread - (0 - 0) BY <1>1, <1>2 DEF Done
    <2>6. PICK m \in Nat \ {0} : m = MetaLen(entry.node) BY <2>3
    <2>7. PICK l \in Nat : l = NodeLen(entry.node) BY <2>4
    <2>8. Done = l - unread /\ unread <= l - m BY <1>7, <2>1, <2>5, <2>6, <2>7
    <2>q. QED BY <1>7, <2>8
  <1>11. Under /\ Under' BY <1>1, <1>9, <1>10 DEF Under
  <1>12. Left' = Left BY <1>3, <1>9 DEF Left
  <1>13. HeaderAhead'
    <2>1. HeaderAhead BY DEF Shape
    <2>2. entry.node \in Nodes BY <1>1, LeftIs
    <2>3. MetaLen(entry.node) \in Nat \ {0} BY <2>2, NodeKinds, LengthAssumption
    <2>4. NodeLen(entry.node) \in Nat BY <1>1, LeftIs
    <2>5. unread' <= NodeLen(entry.node) - MetaLen(entry.node) BY <1>1, <1>7, <2>1, <2>3, <2>4 DEF HeaderAhead
    <2>q. QED BY <1>1, <1>2, <1>3, <1>4, <1>9, <2>1, <2>5 DEF HeaderAhead
  <1>q. QED BY <1>3, <1>9, <1>11, <1>12, <1>13, QuietShape

\* An entry is complete.
LEMMA EndShape ==
  ASSUME IInv, LInv, Shape, pc = "emit", out = << >>, unread = 0, pc' # "emit", UNCHANGED <<logVars, headSec>>
  PROVE  Shape' /\ Under /\ Left = 0
  <1>1. Heading = 0 BY Opened
  <1>2. Left = 0 BY <1>1, LeftIs
  <1>3. Under BY <1>2, LeftIs DEF Under, Left
  <1>4. Stored(entry, entry.node, NodeLen(entry.node)) BY Written
  <1>5. ~Under' BY DEF Under
  <1>6. HeaderAhead' BY DEF HeaderAhead
  <1>q. QED BY <1>2, <1>3, <1>4, <1>5, <1>6, QuietShape

-----------------------------------------------------------------------------
(* The steps that program or erase without writing a unit. *)

\* data_write_through closes the page of the tail.
LEMMA PageClosed ==
  ASSUME TypeOK, CacheAligned, WriteThrough
  PROVE  /\ avail \in Nat /\ avail' \in Nat /\ avail <= avail' /\ avail' <= SectionSize
         /\ \A q \in Nat : avail <= q /\ q < avail' => q % PageSize # 0 /\ NextPage(q) = avail'
         /\ Base' = avail' /\ Base <= avail'
  <1>1. avail \in Nat /\ SectionSize \in Nat /\ avail <= SectionSize BY Geometry DEF TypeOK, CacheAligned
  <1>2. PageSize \in Nat \ {0} BY Geometry
  <1>3. avail' \in 0 .. SectionSize /\ buf' = << >> BY WriteThroughType
  <1>a. avail' \in Nat /\ Len(buf') = 0 BY <1>1, <1>3
  <1>b. PICK a \in Nat : avail' = a BY <1>a
  <1>c. a - 0 = a BY <1>b
  <1>4. Base' = avail'
    <2>1. Base' = a - 0 BY <1>a, <1>b DEF Base
    <2>q. QED BY <1>b, <1>c, <2>1
  <1>5. CASE avail % PageSize = 0
    <2>1. avail' = avail BY <1>5 DEF WriteThrough
    <2>q. QED BY <1>1, <1>3, <1>4, <2>1, BaseIs
  <1>6. CASE avail % PageSize # 0
    <2>1. avail' = NextPage(avail)
      <3>1. avail = (avail \div PageSize) * PageSize + (avail % PageSize) BY <1>1, <1>2, ModDef
      <3>2. avail % PageSize \in Nat /\ avail \div PageSize \in Nat BY <1>1, <1>2, ModDef
      <3>3. PICK c \in Nat : c = (avail \div PageSize) * PageSize BY <1>2, <3>2
      <3>4. avail' = avail - (avail % PageSize) + PageSize BY <1>6 DEF WriteThrough
      <3>5. avail - (avail % PageSize) = c BY <1>1, <3>1, <3>2, <3>3
      <3>q. QED BY <3>3, <3>4, <3>5 DEF NextPage
    <2>2. avail < avail' BY <1>1, <2>1, NextPageIs
    <2>3. ASSUME NEW q \in Nat, avail <= q, q < avail'
          PROVE  q % PageSize # 0 /\ NextPage(q) = avail'
      <3>1. q % PageSize # 0 BY <1>1, <1>3, <1>6, <2>1, <2>3, NextPageIs
      <3>q. QED BY <1>1, <2>1, <2>3, <3>1, NextPageIs
    <2>q. QED BY <1>1, <1>3, <1>4, <2>2, <2>3, BaseIs
  <1>q. QED BY <1>5, <1>6

\* data_write_through, between calls or before an erasure.
LEMMA WriteThroughShape ==
  ASSUME IInv, LInv, Shape, pc # "emit", pc' # "emit", WriteThrough, UNCHANGED <<tailSec, tailCount, headSec>>
  PROVE  /\ Shape'
         /\ \A s, o : Has(s, o) => Has(s, o)'
         /\ \A s \in Sections, o \in 0 .. SectionSize - 1 :
              /\ At(s, o)' = At(s, o)
              /\ Has(s, o)' => Has(s, o) \/ At(s, o) = Erased
         /\ \A p, node, n : Stored(p, node, n) /\ tailCount # 0 => Stored(p, node, n)'
  <1> USE DEF Shape
  <1>t. TypeOK /\ CacheAligned /\ ErasedPlaces /\ Clean BY DEF IInv, LInv
  <1>g. HeadLen \in Nat \ {0} /\ SectionSize \in Nat /\ HeadLen < SectionSize BY Geometry
  <1>1. \A s \in Sections, o \in 0 .. SectionSize - 1 : At(s, o)' = At(s, o)
    BY WriteThroughLog DEF LInv, Untouched
  <1>2. /\ avail \in Nat /\ avail' \in Nat /\ avail <= avail' /\ avail' <= SectionSize
        /\ \A q \in Nat : avail <= q /\ q < avail' => q % PageSize # 0 /\ NextPage(q) = avail'
        /\ Base' = avail' /\ Base <= avail'
    BY <1>t, PageClosed
  <1>a. PICK a \in Nat : avail' = a /\ avail \in Nat /\ avail <= a BY <1>2
  <1>3. Ahead' = Ahead /\ \A s : Age(s)' = Age(s) BY DEF Ahead, Age
  <1>4. \A s, o : Has(s, o) => Has(s, o)' BY <1>2, <1>3, <1>g DEF Has
  <1>5. \A s, o : Has(s, o)' => Has(s, o) \/ (s = tailSec /\ avail <= o /\ o < avail' /\ At(s, o) = Erased)
    <2> SUFFICES ASSUME NEW s, NEW o, Has(s, o)', ~Has(s, o)
                 PROVE  s = tailSec /\ avail <= o /\ o < avail' /\ At(s, o) = Erased
      OBVIOUS
    <2>1. s \in Sections \ Ahead /\ o \in HeadLen .. SectionSize - 1 /\ s = tailSec /\ ~(o < avail) /\ o < avail'
      BY <1>3 DEF Has
    <2>2. avail <= o /\ o \in Nat BY <1>2, <1>g, <2>1
    <2>3. Base \in Nat /\ Base <= avail BY <1>t, BaseIs
    <2>4. o \in Base .. SectionSize - 1 BY <1>g, <2>1, <2>2, <2>3, <1>2
    <2>5. flash[FlashAddr(tailSec, o)] = Erased BY <1>t, <2>4 DEF ErasedPlaces, Base
    <2>q. QED BY <2>1, <2>2, <2>5 DEF At
  <1>6. \A p, node, n : Stored(p, node, n) /\ tailCount # 0 => Stored(p, node, n)'
    <2> SUFFICES ASSUME NEW p, NEW node, NEW n, Stored(p, node, n), tailCount # 0 PROVE Stored(p, node, n)' OBVIOUS
    <2>1. Laid(p.section, p.offset, n)' BY <1>t, <1>2, LaidKept DEF Stored
    <2>2. avail <= SectionSize BY <1>t DEF CacheAligned
    <2>q. QED BY <1>t, <1>1, <2>1, <2>2, StoredKept
  <1>7. ~Under /\ ~Under' /\ HeaderAhead' BY DEF Under, HeaderAhead
  <1>8. \A s, o : s \in Sections /\ o \in 0 .. SectionSize - 1 => (Mid(s, o)' <=> Mid(s, o)) BY <1>1 DEF Mid
  <1>9. Kinds' BY <1>1, <1>5, <1>g DEF Kinds
  <1>10. Follows'
    <2> SUFFICES ASSUME NEW s \in Sections, NEW o \in HeadLen + 1 .. SectionSize - 1, NEW n \in Nodes,
                        NEW i \in 2 .. NodeLen(n), Has(s, o)', At(s, o)' = <<n, i>>
                 PROVE  At(s, o - 1)' = <<n, i - 1>>
      BY DEF Follows
    <2>1. o \in 0 .. SectionSize - 1 /\ o - 1 \in 0 .. SectionSize - 1 BY <1>g
    <2>2. At(s, o) = <<n, i>> BY <1>1, <2>1
    <2>3. i # 0 OBVIOUS
    <2>4. Has(s, o) BY <1>5, <2>2, <2>3, UnitIs
    <2>5. At(s, o - 1) = <<n, i - 1>> BY <2>2, <2>4 DEF Follows
    <2>q. QED BY <1>1, <2>1, <2>5
  <1>11. Padded'
    <2> SUFFICES ASSUME NEW s \in Sections, NEW o \in HeadLen .. SectionSize - 1, Has(s, o)', At(s, o)' = Erased,
                        NEW q \in o .. NextPage(o) - 1
                 PROVE  Has(s, q)' /\ At(s, q)' = Erased
      BY DEF Padded, NextPage
    <2>0. o \in 0 .. SectionSize - 1 /\ o \in Nat BY <1>g
    <2>1. At(s, o) = Erased BY <1>1, <2>0
    <2>2. CASE Has(s, o)
      <3>1. Has(s, q) /\ At(s, q) = Erased BY <2>1, <2>2 DEF Padded
      <3>2. q \in 0 .. SectionSize - 1 BY <1>g, <3>1 DEF Has
      <3>q. QED BY <1>1, <1>4, <3>1, <3>2
    <2>3. CASE ~Has(s, o)
      <3>1. s = tailSec /\ avail <= o /\ o < avail' BY <1>5, <2>3
      <3>2. NextPage(o) = avail' BY <1>2, <2>0, <3>1
      <3>a. q \in o .. a - 1 BY <1>a, <3>2
      <3>b. q \in Nat /\ o <= q /\ q < avail' BY <1>a, <2>0, <3>a
      <3>3. q \in Nat /\ avail <= q /\ q < avail' /\ HeadLen <= q /\ q < SectionSize BY <1>2, <1>g, <2>0, <3>1, <3>b
      <3>4. s \in Sections \ Ahead BY <1>3 DEF Has
      <3>5. Has(s, q)' BY <1>3, <1>g, <3>1, <3>3, <3>4 DEF Has
      <3>6. ~Has(s, q) BY <1>2, <3>1, <3>3 DEF Has
      <3>7. At(s, q) = Erased BY <1>5, <3>5, <3>6
      <3>8. q \in 0 .. SectionSize - 1 BY <1>g, <3>3
      <3>q. QED BY <1>1, <3>5, <3>7, <3>8
    <2>q. QED BY <2>2, <2>3
  <1>12. PagesUsed'
    <2> SUFFICES ASSUME NEW s \in Sections, NEW o \in HeadLen .. SectionSize - 1, Has(s, o)', o % PageSize = 0
                 PROVE  At(s, o)' # Erased
      BY DEF PagesUsed
    <2>1. o \in 0 .. SectionSize - 1 /\ o \in Nat BY <1>g
    <2>2. Has(s, o) BY <1>2, <1>5, <2>1
    <2>q. QED BY <1>1, <2>1, <2>2 DEF PagesUsed
  <1>13. Begins'
    <2> SUFFICES ASSUME NEW s \in Sections, NEW o \in HeadLen .. SectionSize - 1, NEW n \in Nodes,
                        Has(s, o)', At(s, o)' = <<n, 1>>
                 PROVE  Stored([section |-> s, offset |-> o], n, NodeLen(n))' \/ CutAt(s, o, n)'
      BY DEF Begins
    <2>1. o \in 0 .. SectionSize - 1 /\ o \in Nat BY <1>g
    <2>2. At(s, o) = <<n, 1>> BY <1>1, <2>1
    <2>3. Has(s, o) BY <1>5, <2>2, UnitIs
    <2>4. ~IsEntry(s, o) BY <1>7 DEF IsEntry
    <2>5. tailCount # 0 BY <1>t, <2>3, Ages DEF Has
    <2>6. CASE Stored([section |-> s, offset |-> o], n, NodeLen(n)) BY <1>6, <2>5, <2>6
    <2>7. CASE CutAt(s, o, n)
      <3>1. PICK k \in 1 .. MetaLen(n) - 1 :
              /\ o + k <= SectionSize /\ (o + k) % PageSize = 0
              /\ s = tailSec => o + k <= avail
              /\ \A j \in 0 .. k - 1 : At(s, o + j) = <<n, j + 1>>
              /\ o + k < SectionSize => ~Mid(s, o + k)
              /\ o + k = SectionSize =>
                   IF s = tailSec THEN NextSection(s) \in Ahead ELSE ~Mid(NextSection(s), HeadLen)
        BY <2>7 DEF CutAt
      <3>2. k \in Nat /\ MetaLen(n) \in Nat BY NodeKinds, LengthAssumption
      <3>3. s = tailSec => o + k <= avail' BY <1>2, <2>1, <3>1, <3>2
      <3>4. \A j \in 0 .. k - 1 : At(s, o + j)' = <<n, j + 1>>
        <4>1. \A j \in 0 .. k - 1 : o + j \in 0 .. SectionSize - 1 BY <1>g, <2>1, <3>1, <3>2
        <4>q. QED BY <1>1, <3>1, <4>1
      <3>5. o + k < SectionSize => ~Mid(s, o + k)'
        <4>1. o + k < SectionSize => o + k \in 0 .. SectionSize - 1 BY <1>g, <2>1, <3>2
        <4>q. QED BY <1>8, <3>1, <4>1
      <3>6. o + k = SectionSize =>
                   IF s = tailSec THEN NextSection(s) \in Ahead' ELSE ~Mid(NextSection(s), HeadLen)'
        <4>1. NextSection(s) \in Sections /\ HeadLen \in 0 .. SectionSize - 1 BY <1>g, NextSectionType
        <4>q. QED BY <1>3, <1>8, <3>1, <4>1
      <3>q. QED BY <3>1, <3>3, <3>4, <3>5, <3>6 DEF CutAt
    <2>q. QED BY <2>2, <2>3, <2>4, <2>6, <2>7 DEF Begins
  <1>14. Headed'
    <2> SUFFICES ASSUME NEW s \in Sections \ Ahead, s = tailSec => avail' # 0
                 PROVE  \E off \in HeadLen .. SectionSize - 1 :
                          At(s, 0)' = <<SectionHead(tailCount - Age(s), off), 1>> /\ StartsAt(s, off)'
      BY <1>3 DEF Headed
    <2>0. s \in Sections /\ 0 \in 0 .. SectionSize - 1 BY <1>g
    <2>1. avail # 0 /\ tailCount # 0
      <3>1. pc # "emit" => HeadLen <= avail BY RestFacts
      <3>2. tailCount # 0 BY <1>t, <2>0, Ages
      <3>q. QED BY <3>1, <3>2, <1>g
    <2>2. PICK off \in HeadLen .. SectionSize - 1 :
                 At(s, 0) = <<SectionHead(tailCount - Age(s), off), 1>> /\ StartsAt(s, off)
      BY <2>1 DEF Headed
    <2>3. off \in Nat /\ off \in 0 .. SectionSize - 1 BY <1>g
    <2>4. s = tailSec => off <= avail BY <1>2, <1>7, <2>2, <2>3 DEF StartsAt
    <2>5. (\A o \in HeadLen .. off - 1 : Has(s, o) => Mid(s, o))'
      <3> SUFFICES ASSUME NEW o \in HeadLen .. off - 1, Has(s, o)' PROVE Mid(s, o)' OBVIOUS
      <3>1. o \in 0 .. SectionSize - 1 /\ o < off BY <1>g, <2>3
      <3>2. Has(s, o) BY <1>5, <1>2, <2>3, <2>4, <3>1
      <3>q. QED BY <1>8, <2>0, <2>2, <3>1, <3>2 DEF StartsAt
    <2>6. (Has(s, off) => ~Mid(s, off))'
      <3>1. At(s, off) = Erased => ~Mid(s, off) BY UnitIs DEF Mid
      <3>q. QED BY <1>5, <1>8, <2>0, <2>2, <2>3, <3>1 DEF StartsAt
    <2>7. (s = tailSec /\ off >= avail => off = avail + (IF Under THEN Left ELSE 0))'
      <3>1. s = tailSec /\ off >= a => off = a + 0 BY <1>a, <2>3, <2>4
      <3>q. QED BY <1>7, <1>a, <3>1
    <2>8. (s = tailSec /\ off > Base /\ off > HeadLen => Straddles(s, off))'
      <3>1. s = tailSec => off <= Base' BY <1>2, <2>3, <2>4
      <3>2. Base' \in Nat BY <1>2
      <3>q. QED BY <3>1, <3>2, <2>3
    <2>9. StartsAt(s, off)' BY <2>5, <2>6, <2>7, <2>8 DEF StartsAt
    <2>q. QED BY <1>1, <2>0, <2>2, <2>9
  <1>15. Counted' BY <1>3 DEF Counted
  <1>16. \A s \in Sections, o \in 0 .. SectionSize - 1 : Has(s, o)' => Has(s, o) \/ At(s, o) = Erased BY <1>5
  <1>q. QED BY <1>1, <1>4, <1>6, <1>7, <1>9, <1>10, <1>11, <1>12, <1>13, <1>14, <1>15, <1>16

-----------------------------------------------------------------------------
(* The head section leaves the log. *)

\* A step that adds no unit to what is stored.
LEMMA StoredBack ==
  ASSUME TypeOK, tailCount # 0, avail <= SectionSize,
         NEW p, NEW node, NEW n, Stored(p, node, n)', Laid(p.section, p.offset, n),
         \A s \in Sections \ Ahead, o \in 0 .. SectionSize - 1 :
            (s = tailSec => o < avail) /\ (s = headSec => p.section = headSec) => At(s, o)' = At(s, o)
  PROVE  Stored(p, node, n)
  <1>1. Holds(p.section, p.offset, node, n)' BY DEF Stored
  <1>2. Holds(p.section, p.offset, node, n)
    <2> SUFFICES ASSUME NEW i \in 0 .. n - 1
                 PROVE  AtPlace(SectionOffset(p.section, p.offset, i)) = <<node, i + 1>>
      BY DEF Holds
    <2>1. PICK q : q = SectionOffset(p.section, p.offset, i) OBVIOUS
    <2>2. Behind(q) /\ (q.section = headSec => p.section = headSec) BY <2>1, LaidBehind
    <2>3. AtPlace(q)' = <<node, i + 1>> BY <1>1, <2>1 DEF Holds
    <2>4. At(q.section, q.offset)' = At(q.section, q.offset) BY <2>2 DEF Behind
    <2>q. QED BY <2>1, <2>3, <2>4 DEF AtPlace
  <1>q. QED BY <1>2 DEF Stored

\* What tinyfs_section_erase does to the log.
LEMMA EraseFacts ==
  ASSUME IInv, LInv, CollectErase
  PROVE  /\ pc = "erase" /\ pc' = "gc" /\ headSec' = NextSection(headSec)
         /\ UNCHANGED <<buf, avail, tailSec, tailCount, list, todo, out, copying, entry, unread>>
         /\ headSec # tailSec /\ tailCount # 0 /\ headSec \in Sections \ Ahead /\ tailSec \in Sections \ Ahead
         /\ list[headSec] = << >>
         /\ Ahead' = Ahead \cup {headSec}
         /\ \A s : Age(s)' = Age(s)
         /\ Age(headSec') = Age(headSec) - 1 /\ Age(headSec) \in Nat
         /\ \A s \in Sections, o \in 0 .. SectionSize - 1 : s # headSec => At(s, o)' = At(s, o)
         /\ \A s, o : Has(s, o)' <=> Has(s, o) /\ s \notin {headSec}
         /\ \A p, node, n : Stored(p, node, n)' <=> Stored(p, node, n) /\ p.section # headSec
  <1>1. /\ pc = "erase" /\ pc' = "gc" /\ SectionErase(headSec) /\ headSec' = NextSection(headSec)
        /\ UNCHANGED <<buf, avail, tailSec, tailCount, list, todo, out, copying, entry, unread>>
    BY DEF CollectErase, treeVars
  <1>2. headSec # tailSec /\ tailCount # 0 /\ list[headSec] = << >> BY <1>1 DEF LInv, Phases
  <1>3. TypeOK /\ headSec \in Sections /\ tailSec \in Sections /\ avail \in Nat /\ avail <= SectionSize
    BY DEF IInv, TypeOK, CacheAligned
  <1>4. Ahead' = Ahead \cup {headSec} BY <1>1, <1>2, <1>3, LeaveSection
  <1>5. headSec \notin Ahead /\ tailSec \notin Ahead BY <1>2, <1>3, LogSections
  <1>6. \A s \in Sections, o \in 0 .. SectionSize - 1 :
          flash'[FlashAddr(s, o)] = IF s = headSec THEN Erased ELSE flash[FlashAddr(s, o)]
    BY <1>1, AddressOf DEF SectionErase
  <1>7. \A s \in Sections, o \in 0 .. SectionSize - 1 : s # headSec => At(s, o)' = At(s, o)
    BY <1>1, <1>6 DEF At
  <1>8. \A s : Age(s)' = Age(s) BY <1>1 DEF Age
  <1>9. Age(headSec') = Age(headSec) - 1 /\ Age(headSec) \in Nat
    <2>1. Age(NextSection(headSec)) = Age(headSec) - 1 /\ Age(headSec) \in 0 .. SectionNum - 1 BY <1>2, <1>3, Ages
    <2>q. QED BY <1>1, <2>1
  <1>10. \A s, o : Has(s, o)' <=> Has(s, o) /\ s \notin {headSec} BY <1>1, <1>4 DEF Has
  <1>11. ASSUME NEW p, NEW node, NEW n, Stored(p, node, n), p.section # headSec
         PROVE  Stored(p, node, n)'
    <2>1. Laid(p.section, p.offset, n)' BY <1>1, <1>4, <1>11 DEF Stored, Laid
    <2>2. ASSUME NEW s \in Sections \ Ahead, NEW o \in 0 .. SectionSize - 1, s # headSec
          PROVE  At(s, o)' = At(s, o)
      BY <1>7, <2>2
    <2>q. QED BY <1>2, <1>3, <1>11, <2>1, <2>2, StoredKept
  <1>12. ASSUME NEW p, NEW node, NEW n, Stored(p, node, n)'
         PROVE  Stored(p, node, n) /\ p.section # headSec
    <2>1. Laid(p.section, p.offset, n)' BY <1>12 DEF Stored
    <2>2. Laid(p.section, p.offset, n) /\ p.section # headSec BY <1>1, <1>4, <2>1 DEF Laid
    <2>3. ASSUME NEW s \in Sections \ Ahead, NEW o \in 0 .. SectionSize - 1, s # headSec
          PROVE  At(s, o)' = At(s, o)
      BY <1>7, <2>3
    <2>q. QED BY <1>2, <1>3, <1>12, <2>2, <2>3, StoredBack
  <1>q. QED BY <1>1, <1>2, <1>3, <1>4, <1>5, <1>7, <1>8, <1>9, <1>10, <1>11, <1>12

\* The head section is erased.
LEMMA EraseShape ==
  ASSUME IInv, LInv, Shape, Erasing, CollectErase
  PROVE  Shape'
  <1> USE DEF Shape
  <1>f. /\ pc = "erase" /\ pc' = "gc" /\ headSec' = NextSection(headSec)
        /\ UNCHANGED <<buf, avail, tailSec, tailCount>>
        /\ headSec # tailSec /\ tailCount # 0 /\ headSec \in Sections \ Ahead /\ tailSec \in Sections \ Ahead
        /\ Ahead' = Ahead \cup {headSec}
        /\ \A s : Age(s)' = Age(s)
        /\ Age(headSec') = Age(headSec) - 1 /\ Age(headSec) \in Nat
    BY EraseFacts
  <1>a. \A s \in Sections, o \in 0 .. SectionSize - 1 : s # headSec => At(s, o)' = At(s, o) BY EraseFacts
  <1>h. \A s, o : Has(s, o)' <=> Has(s, o) /\ s \notin {headSec} BY EraseFacts
  <1>t. TypeOK /\ avail \in Nat /\ tailCount \in Nat BY DEF IInv, TypeOK
  <1>g. HeadLen \in Nat \ {0} /\ SectionSize \in Nat /\ HeadLen < SectionSize BY Geometry
  <1>m. \A s, o : s \in Sections /\ s # headSec /\ o \in 0 .. SectionSize - 1 => (Mid(s, o)' <=> Mid(s, o))
    BY <1>a DEF Mid
  <1>u. ~Under /\ ~Under' BY <1>f DEF Under
  <1>1. Kinds' /\ Follows' /\ Padded' /\ PagesUsed'
    <2>1. PICK X : X = {headSec} OBVIOUS
    <2>2. \A s, o : Has(s, o)' <=> Has(s, o) /\ s \notin X BY <1>h, <2>1
    <2>3. \A s \in Sections \ X, o \in 0 .. SectionSize - 1 : Has(s, o) => At(s, o)' = At(s, o) BY <1>a, <2>1
    <2>q. QED BY <1>t, <2>2, <2>3, KeepUnits
  <1>2. Begins'
    <2> SUFFICES ASSUME NEW s \in Sections, NEW o \in HeadLen .. SectionSize - 1, NEW n \in Nodes,
                        Has(s, o)', At(s, o)' = <<n, 1>>
                 PROVE  Stored([section |-> s, offset |-> o], n, NodeLen(n))' \/ CutAt(s, o, n)'
      BY DEF Begins
    <2>1. o \in 0 .. SectionSize - 1 /\ o \in Nat /\ Has(s, o) /\ s # headSec BY <1>g, <1>h
    <2>2. At(s, o) = <<n, 1>> BY <1>a, <2>1
    <2>3. ~IsEntry(s, o) BY <1>u DEF IsEntry
    <2>4. CASE Stored([section |-> s, offset |-> o], n, NodeLen(n)) BY <2>1, <2>4, EraseFacts
    <2>5. CASE CutAt(s, o, n)
      <3>1. PICK k \in 1 .. MetaLen(n) - 1 :
              /\ o + k <= SectionSize /\ (o + k) % PageSize = 0
              /\ s = tailSec => o + k <= avail
              /\ \A j \in 0 .. k - 1 : At(s, o + j) = <<n, j + 1>>
              /\ o + k < SectionSize => ~Mid(s, o + k)
              /\ o + k = SectionSize =>
                   IF s = tailSec THEN NextSection(s) \in Ahead ELSE ~Mid(NextSection(s), HeadLen)
        BY <2>5 DEF CutAt
      <3>2. k \in Nat /\ MetaLen(n) \in Nat BY NodeKinds, LengthAssumption
      <3>4. \A j \in 0 .. k - 1 : At(s, o + j)' = <<n, j + 1>>
        <4>1. \A j \in 0 .. k - 1 : o + j \in 0 .. SectionSize - 1 BY <1>g, <2>1, <3>1, <3>2
        <4>q. QED BY <1>a, <2>1, <3>1, <4>1
      <3>5. o + k < SectionSize => ~Mid(s, o + k)'
        <4>1. o + k < SectionSize => o + k \in 0 .. SectionSize - 1 BY <1>g, <2>1, <3>2
        <4>q. QED BY <1>m, <2>1, <3>1, <4>1
      <3>6. o + k = SectionSize =>
                   IF s = tailSec THEN NextSection(s) \in Ahead' ELSE ~Mid(NextSection(s), HeadLen)'
        <4>1. HeadLen \in 0 .. SectionSize - 1 BY <1>g
        <4>2. s # tailSec => NextSection(s) \in Sections /\ NextSection(s) # headSec
          BY <1>t, <2>1, LogSections DEF Has
        <4>q. QED BY <1>f, <1>m, <3>1, <4>1, <4>2
      <3>q. QED BY <1>f, <3>1, <3>4, <3>5, <3>6 DEF CutAt
    <2>q. QED BY <2>1, <2>2, <2>3, <2>4, <2>5 DEF Begins
  <1>3. Headed'
    <2> SUFFICES ASSUME NEW s \in Sections \ Ahead', s = tailSec => avail # 0
                 PROVE  \E off \in HeadLen .. SectionSize - 1 :
                          At(s, 0)' = <<SectionHead(tailCount - Age(s), off), 1>> /\ StartsAt(s, off)'
      BY <1>f DEF Headed
    <2>0. s \in Sections \ Ahead /\ s # headSec /\ 0 \in 0 .. SectionSize - 1 BY <1>f, <1>g
    <2>2. PICK off \in HeadLen .. SectionSize - 1 :
                 At(s, 0) = <<SectionHead(tailCount - Age(s), off), 1>> /\ StartsAt(s, off)
      BY <2>0 DEF Headed
    <2>3. off \in Nat /\ off \in 0 .. SectionSize - 1 BY <1>g
    <2>5. (\A o \in HeadLen .. off - 1 : Has(s, o) => Mid(s, o))'
      <3> SUFFICES ASSUME NEW o \in HeadLen .. off - 1, Has(s, o)' PROVE Mid(s, o)' OBVIOUS
      <3>1. o \in 0 .. SectionSize - 1 BY <1>g, <2>3
      <3>q. QED BY <1>h, <1>m, <2>0, <2>2, <3>1 DEF StartsAt
    <2>6. (Has(s, off) => ~Mid(s, off))' BY <1>h, <1>m, <2>0, <2>2, <2>3 DEF StartsAt
    <2>7. s = tailSec /\ off >= avail => off = avail + 0 BY <1>u, <2>2 DEF StartsAt
    <2>8. s = tailSec => off <= avail
      <3>1. s = tailSec /\ ~(off <= avail) => off >= avail BY <1>t, <2>3
      <3>q. QED BY <1>t, <2>3, <2>7, <3>1
    <2>9. Base' = avail
      <3>1. Len(buf) = 0 /\ Base' = Base BY <1>f DEF Erasing, Base
      <3>q. QED BY <1>t, <3>1 DEF Base
    <2>10. (s = tailSec /\ off > Base /\ off > HeadLen => Straddles(s, off))'
      <3>1. s = tailSec /\ off > avail => FALSE BY <1>t, <2>3, <2>8
      <3>q. QED BY <1>f, <2>9, <3>1
    <2>11. StartsAt(s, off)' BY <1>f, <1>u, <2>5, <2>6, <2>7, <2>10 DEF StartsAt
    <2>q. QED BY <1>a, <2>0, <2>2, <2>11
  <1>4. Counted'
    <2>1. tailCount > Age(headSec) BY <1>f DEF Counted
    <2>2. tailCount > Age(headSec) - 1 BY <1>f, <1>t, <2>1
    <2>3. tailCount' > Age(headSec') BY <1>f, <2>2
    <2>q. QED BY <1>f, <2>3 DEF Counted, Age
  <1>5. HeaderAhead' BY <1>f DEF HeaderAhead
  <1>q. QED BY <1>1, <1>2, <1>3, <1>4, <1>5

-----------------------------------------------------------------------------
(* A section is opened. *)

\* What the first half of section_head_write does to the log.
LEMMA OpenFacts ==
  ASSUME IInv, LInv, RoomLeft, NoWrap, SectionHeadWrite
  PROVE  /\ pc = "emit" /\ pc' = "emit" /\ tailSec' = NextSection(tailSec) /\ tailCount' = tailCount + 1
         /\ tailSec' \in Sections
         /\ avail = SectionSize /\ avail' = 0 /\ Len(buf) = 0 /\ Len(buf') = 0
         /\ UNCHANGED <<flash, buf, headSec, list, todo, starting, entry, copying, unread>>
         /\ Ahead' = Ahead \ {tailSec'} /\ tailSec' \in Ahead
         /\ Heading = 0 /\ Heading' = HeadLen /\ Len(out') = HeadLen + Len(out) /\ Len(out) \in Nat
         /\ Done' = Done
         /\ \A s \in Sections : s # tailSec' => Age(s)' = Age(s) + 1 /\ Age(s) \in Nat
         /\ \A s : s = tailSec' => Age(s)' = 0
         /\ \A s \in Sections, o \in 0 .. SectionSize - 1 : At(s, o)' = At(s, o)
         /\ \A o \in 0 .. SectionSize - 1 : At(tailSec', o) = Erased
         /\ \A s, o : Has(s, o)' <=> Has(s, o)
         /\ \A p, node, n : Stored(p, node, n) => Stored(p, node, n)'
         /\ \A p, node, n : n # 0 /\ Stored(p, node, n)' => Stored(p, node, n)
  <1>1. /\ pc = "emit" /\ out # << >> /\ avail = SectionSize
        /\ tailSec' = NextSection(tailSec) /\ avail' = 0 /\ tailCount' = (tailCount + 1) % CountRange
        /\ UNCHANGED <<flash, buf, headSec, free, list, pc, todo, starting, entry, copying, source, unread>>
    BY DEF SectionHeadWrite, treeVars
  <1>2. TypeOK /\ tailSec \in Sections /\ headSec \in Sections /\ out \in Seq(Cells) /\ Len(out) \in Nat \ {0}
        /\ tailCount \in Nat /\ free \in Int
    BY <1>1 DEF IInv, TypeOK
  <1>3. tailCount' = tailCount + 1 /\ tailCount' # 0
    <2>1. tailCount + 1 \in 0 .. CountRange - 1 /\ CountRange \in Nat \ {0}
      BY <1>2, LengthAssumption DEF NoWrap, IInv, TypeOK
    <2>2. (0 * CountRange + (tailCount + 1)) % CountRange = tailCount + 1 BY <1>2, <2>1, ModUnique
    <2>3. 0 * CountRange + (tailCount + 1) = tailCount + 1 BY <1>2, <2>1
    <2>q. QED BY <1>1, <1>2, <2>1, <2>2, <2>3
  <1>4. Len(out') = HeadLen + Len(out) BY HeaderInFront
  <1>5. buf = << >> /\ Len(buf) = 0 /\ Len(buf') = 0 /\ SectionSize \in Nat \ {0} /\ HeadLen \in Nat \ {0}
        /\ HeadLen < SectionSize /\ Payload \in Nat \ {0} /\ Payload = SectionSize - HeadLen
    BY <1>1, <1>2, CacheStart, Geometry DEF IInv, Payload
  <1>6. EmptySections \in Nat BY <1>2, LogSections
  <1>7. EmptySections # 0
    <2>1. free = SectionSize - SectionSize + Payload * EmptySections - Len(out)
      BY <1>1 DEF LInv, FreeExact
    <2>2. EmptySections = 0 => Payload * EmptySections = 0 BY <1>5
    <2>3. Payload * EmptySections \in Nat BY <1>5, <1>6
    <2>q. QED BY <1>2, <1>5, <2>1, <2>2, <2>3 DEF RoomLeft
  <1>8. Ahead' = Ahead \ {tailSec'} /\ tailSec' \in Ahead
    BY <1>1, <1>2, <1>3, <1>7, OpenSection DEF LInv, Untouched
  <1>9. tailSec' \in Sections BY <1>8 DEF Ahead
  <1>10. \A s \in Sections, o \in 0 .. SectionSize - 1 : At(s, o)' = At(s, o)
    <2> SUFFICES ASSUME NEW s \in Sections, NEW o \in 0 .. SectionSize - 1 PROVE At(s, o)' = At(s, o)
      OBVIOUS
    <2>1. ~(avail - Len(buf) <= o /\ o < avail) BY <1>1, <1>5
    <2>2. ~(avail' - Len(buf') <= o /\ o < avail') BY <1>1, <1>5
    <2>3. At(s, o) = flash[FlashAddr(s, o)] BY <2>1 DEF At
    <2>4. At(s, o)' = flash'[FlashAddr(s, o)] BY <2>2 DEF At
    <2>q. QED BY <1>1, <2>3, <2>4
  <1>11. \A o \in 0 .. SectionSize - 1 : At(tailSec', o) = Erased
    <2> SUFFICES ASSUME NEW o \in 0 .. SectionSize - 1 PROVE At(tailSec', o) = Erased OBVIOUS
    <2>1. flash[FlashAddr(tailSec', o)] = Erased BY <1>8 DEF LInv, ErasedPlaces
    <2>2. ~(avail - Len(buf) <= o /\ o < avail) BY <1>1, <1>5
    <2>q. QED BY <2>1, <2>2 DEF At
  <1>12. (\A s \in Sections : s # tailSec' => Age(s)' = Age(s) + 1 /\ Age(s) \in Nat) /\ \A s : s = tailSec' => Age(s)' = 0
    <2>1. SectionNum \in Nat /\ SectionNum >= 3 /\ tailSec \in 0 .. SectionNum - 1
      BY <1>2, GeometryAssumption DEF Sections
    <2>2. PICK t \in 0 .. SectionNum - 1 : tailSec' = t BY <1>9 DEF Sections
    <2>3. t = IF tailSec + 1 = SectionNum THEN 0 ELSE tailSec + 1 BY <1>1, <2>2 DEF NextSection
    <2>4. \A s : Age(s)' = IF s <= t THEN t - s ELSE t - s + SectionNum BY <2>2 DEF Age
    <2>5. \A s \in 0 .. SectionNum - 1 : s # t =>
             (IF s <= t THEN t - s ELSE t - s + SectionNum)
               = (IF s <= tailSec THEN tailSec - s ELSE tailSec - s + SectionNum) + 1
      BY <2>1, <2>3
    <2>6. \A s \in Sections : s # tailSec' => Age(s)' = Age(s) + 1 BY <2>2, <2>4, <2>5 DEF Age, Sections
    <2>7. Age(t)' = 0 BY <2>1, <2>2, <2>4
    <2>8. \A s \in Sections : Age(s) \in Nat BY <1>2, Ages
    <2>q. QED BY <2>2, <2>6, <2>7, <2>8
  <1>13. \A s, o : Has(s, o)' <=> Has(s, o)
    <2> SUFFICES ASSUME NEW s, NEW o, s \in Sections, o \in HeadLen .. SectionSize - 1
                 PROVE  Has(s, o)' <=> Has(s, o)
      BY DEF Has
    <2>1. ~(o < avail') /\ o < avail BY <1>1, <1>5
    <2>2. s = tailSec => s # tailSec' BY <1>1, <1>2, LogSections
    <2>q. QED BY <1>8, <2>1, <2>2 DEF Has
  <1>14. Heading = 0 /\ Heading' = HeadLen BY <1>1, <1>5 DEF Heading
  <1>15. Done' = Done
    <2>1. Len(out') - HeadLen = Len(out) - 0 BY <1>2, <1>4, <1>5
    <2>q. QED BY <1>1, <1>14, <2>1 DEF Done
  <1>16. \A s, o, n : Laid(s, o, n) => Laid(s, o, n)'
    <2> SUFFICES ASSUME NEW s, NEW o, NEW n, Laid(s, o, n) PROVE Laid(s, o, n)' OBVIOUS
    <2>1. s # tailSec' /\ s \notin Ahead' BY <1>8 DEF Laid
    <2>2. ~(o + n > SectionSize /\ NextSection(s) = tailSec')
      <3> SUFFICES ASSUME o + n > SectionSize, NextSection(s) = tailSec' PROVE FALSE
        OBVIOUS
      <3>1. s = tailSec BY <1>1, <1>2, LogSections DEF Laid
      <3>2. o + n <= avail BY <3>1 DEF Laid
      <3>q. QED BY <1>1, <1>5, <3>2 DEF Laid
    <2>q. QED BY <2>1, <2>2 DEF Laid
  <1>17. \A s, o, n : n # 0 /\ Laid(s, o, n)' => Laid(s, o, n)
    <2> SUFFICES ASSUME NEW s, NEW o, NEW n, n # 0, Laid(s, o, n)' PROVE Laid(s, o, n) OBVIOUS
    <2>1. /\ s \in Sections \ Ahead' /\ o \in 0 .. SectionSize - 1 /\ n \in 0 .. Payload
          /\ s = tailSec' => o + n <= avail'
          /\ o + n > SectionSize /\ NextSection(s) = tailSec' => o + n - SectionSize + HeadLen <= avail'
      BY DEF Laid
    <2>2. o \in Nat /\ n \in Nat \ {0} /\ o < SectionSize /\ n <= Payload BY <1>5, <2>1
    <2>3. s # tailSec' BY <1>1, <2>1, <2>2
    <2>4. s \in Sections \ Ahead BY <1>8, <2>1, <2>3
    <2>5. s = tailSec => o + n <= avail BY <1>1, <1>5, <2>1, <2>2
    <2>6. o + n - SectionSize + HeadLen <= avail BY <1>1, <1>5, <2>2
    <2>q. QED BY <2>1, <2>4, <2>5, <2>6 DEF Laid
  <1>18. avail <= SectionSize BY <1>1, <1>5
  <1>19. \A s, o, n : Laid(s, o, n) => tailCount # 0 BY DEF Laid, Ahead
  <1>20. ASSUME NEW p, NEW node, NEW n, Stored(p, node, n)
         PROVE  Stored(p, node, n)'
    <2>1. Laid(p.section, p.offset, n) BY <1>20 DEF Stored
    <2>2. Laid(p.section, p.offset, n)' /\ tailCount # 0 BY <1>16, <1>19, <2>1
    <2>q. QED BY <1>2, <1>10, <1>18, <1>20, <2>2, StoredKept
  <1>21. ASSUME NEW p, NEW node, NEW n, n # 0, Stored(p, node, n)'
         PROVE  Stored(p, node, n)
    <2>1. Laid(p.section, p.offset, n)' BY <1>21 DEF Stored
    <2>2. Laid(p.section, p.offset, n) /\ tailCount # 0 BY <1>17, <1>19, <1>21, <2>1
    <2>q. QED BY <1>2, <1>10, <1>18, <1>21, <2>2, StoredBack
  <1>q. QED BY <1>1, <1>2, <1>3, <1>4, <1>5, <1>8, <1>9, <1>10, <1>11, <1>12, <1>13, <1>14, <1>15, <1>20, <1>21

\* The tail section is full: the next one is opened.
LEMMA OpenShape ==
  ASSUME IInv, LInv, Shape, RoomLeft, NoWrap, SectionHeadWrite
  PROVE  Shape'
  <1> USE DEF Shape
  <1>f. /\ pc = "emit" /\ pc' = "emit" /\ tailSec' = NextSection(tailSec) /\ tailCount' = tailCount + 1
        /\ tailSec' \in Sections
        /\ avail = SectionSize /\ avail' = 0 /\ Len(buf) = 0 /\ Len(buf') = 0
        /\ UNCHANGED <<flash, buf, headSec, list, todo, starting, entry, copying, unread>>
        /\ Ahead' = Ahead \ {tailSec'} /\ tailSec' \in Ahead
        /\ Heading = 0 /\ Heading' = HeadLen /\ Len(out') = HeadLen + Len(out) /\ Len(out) \in Nat
        /\ Done' = Done
    BY OpenFacts
  <1>y. (\A s \in Sections : s # tailSec' => Age(s)' = Age(s) + 1 /\ Age(s) \in Nat) /\ \A s : s = tailSec' => Age(s)' = 0
    BY OpenFacts
  <1>a. \A s \in Sections, o \in 0 .. SectionSize - 1 : At(s, o)' = At(s, o) BY OpenFacts
  <1>e. \A o \in 0 .. SectionSize - 1 : At(tailSec', o) = Erased BY OpenFacts
  <1>h. \A s, o : Has(s, o)' <=> Has(s, o) BY OpenFacts
  <1>t. TypeOK /\ tailCount \in Nat /\ tailSec \in Sections /\ headSec \in Sections BY DEF IInv, TypeOK
  <1>g. HeadLen \in Nat \ {0} /\ SectionSize \in Nat /\ HeadLen < SectionSize BY Geometry
  <1>m. \A s, o : s \in Sections /\ o \in 0 .. SectionSize - 1 => (Mid(s, o)' <=> Mid(s, o))
    BY <1>a DEF Mid
  <1>l. /\ NodeLen(entry.node) \in Nat \ {0} /\ NodeLen(entry.node) <= Payload
        /\ Done \in Nat /\ Left \in Nat /\ Left = unread + (Len(out) - Heading)
    BY <1>f, LeftIs
  <1>u. (Under' <=> Under) /\ Left' = Left /\ \A s, o : IsEntry(s, o)' <=> IsEntry(s, o)
    BY <1>f DEF Under, Left, IsEntry
  <1>w. tailSec # tailSec' BY <1>f, <1>t, LogSections
  <1>1. Kinds' /\ Follows' /\ Padded' /\ PagesUsed'
    <2> DEFINE X == {}
    <2>1. \A s : s \notin X OBVIOUS
    <2> HIDE DEF X
    <2>2. \A s, o : Has(s, o)' <=> Has(s, o) /\ s \notin X BY <1>h, <2>1
    <2>3. \A s \in Sections \ X, o \in 0 .. SectionSize - 1 : Has(s, o) => At(s, o)' = At(s, o) BY <1>a
    <2>q. QED BY <1>t, <2>2, <2>3, KeepUnits
  <1>2. Begins'
    <2> SUFFICES ASSUME NEW s \in Sections, NEW o \in HeadLen .. SectionSize - 1, NEW n \in Nodes,
                        Has(s, o)', At(s, o)' = <<n, 1>>, ~IsEntry(s, o)'
                 PROVE  Stored([section |-> s, offset |-> o], n, NodeLen(n))' \/ CutAt(s, o, n)'
      BY DEF Begins
    <2>1. o \in 0 .. SectionSize - 1 /\ o \in Nat /\ Has(s, o) BY <1>g, <1>h
    <2>2. At(s, o) = <<n, 1>> BY <1>a, <2>1
    <2>3. ~IsEntry(s, o) BY <1>u
    <2>a. s # tailSec' BY <1>f, <2>1 DEF Has
    <2>4. CASE Stored([section |-> s, offset |-> o], n, NodeLen(n)) BY <2>4, OpenFacts
    <2>5. CASE CutAt(s, o, n)
      <3>1. PICK k \in 1 .. MetaLen(n) - 1 :
              /\ o + k <= SectionSize /\ (o + k) % PageSize = 0
              /\ s = tailSec => o + k <= avail
              /\ \A j \in 0 .. k - 1 : At(s, o + j) = <<n, j + 1>>
              /\ o + k < SectionSize => ~Mid(s, o + k)
              /\ o + k = SectionSize =>
                   IF s = tailSec THEN NextSection(s) \in Ahead ELSE ~Mid(NextSection(s), HeadLen)
        BY <2>5 DEF CutAt
      <3>2. k \in Nat /\ MetaLen(n) \in Nat BY NodeKinds, LengthAssumption
      <3>4. \A j \in 0 .. k - 1 : At(s, o + j)' = <<n, j + 1>>
        <4>1. \A j \in 0 .. k - 1 : o + j \in 0 .. SectionSize - 1 BY <1>g, <2>1, <3>1, <3>2
        <4>q. QED BY <1>a, <3>1, <4>1
      <3>5. o + k < SectionSize => ~Mid(s, o + k)'
        <4>1. o + k < SectionSize => o + k \in 0 .. SectionSize - 1 BY <1>g, <2>1, <3>2
        <4>q. QED BY <1>m, <3>1, <4>1
      <3>6. o + k = SectionSize => ~Mid(NextSection(s), HeadLen)'
        <4>1. HeadLen \in 0 .. SectionSize - 1 /\ NextSection(s) \in Sections BY <1>g, NextSectionType
        <4>2. At(tailSec', HeadLen) = Erased BY <1>e, <4>1
        <4>3. s = tailSec => ~Mid(NextSection(s), HeadLen) BY <1>f, <4>2, UnitIs DEF Mid
        <4>q. QED BY <1>m, <3>1, <4>1, <4>3
      <3>q. QED BY <2>a, <3>1, <3>4, <3>5, <3>6 DEF CutAt
    <2>q. QED BY <2>1, <2>2, <2>3, <2>4, <2>5 DEF Begins
  <1>3. Headed'
    <2> SUFFICES ASSUME NEW s \in Sections \ Ahead', s = tailSec' => avail' # 0
                 PROVE  \E off \in HeadLen .. SectionSize - 1 :
                          At(s, 0)' = <<SectionHead(tailCount' - Age(s)', off), 1>> /\ StartsAt(s, off)'
      BY DEF Headed
    <2>0. s \in Sections \ Ahead /\ s # tailSec' /\ 0 \in 0 .. SectionSize - 1 BY <1>f, <1>g
    <2>1. s = tailSec => avail # 0 BY <1>f, <1>g
    <2>2. PICK off \in HeadLen .. SectionSize - 1 :
                 At(s, 0) = <<SectionHead(tailCount - Age(s), off), 1>> /\ StartsAt(s, off)
      BY <2>0, <2>1 DEF Headed
    <2>3. off \in Nat /\ off \in 0 .. SectionSize - 1 BY <1>g
    <2>4. tailCount' - Age(s)' = tailCount - Age(s)
      <3>1. Age(s)' = Age(s) + 1 /\ Age(s) \in Nat /\ tailCount' = tailCount + 1 BY <1>f, <1>y, <2>0
      <3>2. PICK a \in Nat : Age(s) = a BY <3>1
      <3>3. (tailCount + 1) - (a + 1) = tailCount - a BY <1>t, <3>2
      <3>q. QED BY <3>1, <3>2, <3>3
    <2>5. (\A o \in HeadLen .. off - 1 : Has(s, o) => Mid(s, o))'
      <3> SUFFICES ASSUME NEW o \in HeadLen .. off - 1, Has(s, o)' PROVE Mid(s, o)' OBVIOUS
      <3>1. o \in 0 .. SectionSize - 1 BY <1>g, <2>3
      <3>q. QED BY <1>h, <1>m, <2>0, <2>2, <3>1 DEF StartsAt
    <2>6. (Has(s, off) => ~Mid(s, off))' BY <1>h, <1>m, <2>0, <2>2, <2>3 DEF StartsAt
    <2>7. StartsAt(s, off)' BY <2>0, <2>5, <2>6 DEF StartsAt
    <2>q. QED BY <1>a, <2>0, <2>2, <2>4, <2>7
  <1>4. Counted'
    <2>1. CASE tailCount # 0
      <3>1. tailCount > Age(headSec) BY <2>1 DEF Counted
      <3>2. headSec # tailSec' BY <1>f, <1>t, <2>1, LogSections
      <3>h. PICK h \in Sections : headSec = h BY <1>t
      <3>3. Age(h)' = Age(h) + 1 /\ Age(h) \in Nat BY <1>y, <3>h, <3>2
      <3>4. PICK a \in Nat : Age(h) = a BY <3>3
      <3>5. tailCount + 1 > a + 1 BY <1>t, <3>1, <3>h, <3>4
      <3>6. headSec' = h /\ tailCount' = tailCount + 1 BY <1>f, <3>h
      <3>7. tailCount' > Age(h)' BY <3>3, <3>4, <3>5, <3>6
      <3>q. QED BY <3>6, <3>7 DEF Counted, Age
    <2>2. CASE tailCount = 0
      <3>1. headSec = 0 /\ tailSec = PrevSection(0) BY <2>2 DEF LInv, Untouched
      <3>2. NextSection(PrevSection(0)) = 0 BY GeometryAssumption DEF NextSection, PrevSection
      <3>3. tailSec' = headSec' BY <1>f, <3>1, <3>2
      <3>h. PICK h : headSec' = h BY <1>t
      <3>4. Age(h)' = 0 BY <1>y, <3>h, <3>3
      <3>5. tailCount' > Age(h)' BY <1>f, <2>2, <3>4
      <3>q. QED BY <3>h, <3>5 DEF Counted, Age
    <2>q. QED BY <2>1, <2>2
  <1>5. HeaderAhead'
    <2>1. HeaderAhead BY DEF Shape
    <2>2. starting <=> Done = 0 BY <1>f, <1>g, <2>1 DEF HeaderAhead
    <2>3. PICK h : h = SectionHead(tailCount', HeadNodeOffset(starting, Len(out) + unread)) OBVIOUS
    <2>4. out' = HeadImage(h) \o out BY <2>3 DEF SectionHeadWrite
    <2>5. HeadNodeOffset(starting, Len(out) + unread) = HeadLen + (IF Done = 0 THEN 0 ELSE Left)
      <3>1. Left = Len(out) + unread
        <4>1. unread \in Nat /\ Len(out) \in Nat BY <1>f DEF IInv, TypeOK
        <4>q. QED BY <1>f, <1>l, <4>1
      <3>2. Done # 0 => ~(Left + HeadLen >= SectionSize)
        <4>1. Left = NodeLen(entry.node) - Done BY DEF Left
        <4>q. QED BY <1>g, <1>l, <4>1 DEF Payload
      <3>q. QED BY <1>g, <1>l, <2>2, <3>1, <3>2 DEF HeadNodeOffset
    <2>6. out'[1] = <<h, 1>>
      <3>1. HeadImage(h) = [i \in 1 .. HeadLen |-> <<h, i>>] BY DEF HeadImage
      <3>2. out \in Seq(Cells) BY DEF IInv, TypeOK
      <3>q. QED BY <1>g, <2>4, <3>1, <3>2
    <2>7. avail' = 0 => out'[1] = <<SectionHead(tailCount', HeadLen + (IF Done' = 0 THEN 0 ELSE Left')), 1>>
      BY <1>f, <1>u, <2>3, <2>5, <2>6
    <2>q. QED BY <1>f, <1>g, <2>1, <2>2, <2>7 DEF HeaderAhead
  <1>q. QED BY <1>1, <1>2, <1>3, <1>4, <1>5

-----------------------------------------------------------------------------
(* Units are appended to the log. *)

\* d units of the entry, of which n are in the log, are written from offset v of the
\* tail section on, behind its header if that is still to come.
Appends(n, v, d) ==
  /\ pc = "emit" /\ pc' = "emit" /\ avail < SectionSize /\ tailCount # 0 /\ ~starting'
  /\ UNCHANGED <<tailSec, tailCount, headSec, list, todo, entry, copying, source, unread>>
  /\ n \in Nat /\ v \in Nat /\ d \in Nat
  /\ HeadLen <= v /\ v < SectionSize /\ v = avail + Heading
  /\ avail' \in Nat /\ avail' = v + d /\ v + d <= SectionSize
  /\ avail # 0 => v = avail /\ d # 0
  /\ avail = 0 => v = HeadLen
  /\ Base <= Base' /\ Base' \in Nat
  /\ Done = n /\ Done' = n + d /\ n + d <= NodeLen(entry.node)
  /\ Left = NodeLen(entry.node) - n /\ Left' = NodeLen(entry.node) - (n + d)
  /\ SectionOffset(entry.section, entry.offset, n) = [section |-> tailSec, offset |-> v]
  /\ \A s \in Sections, o \in HeadLen .. SectionSize - 1 :
       At(s, o)' = IF s = tailSec /\ v <= o /\ o < v + d
                   THEN <<entry.node, n + (o - v) + 1>> ELSE At(s, o)
  /\ \A s \in Sections : At(s, 0)' = IF s = tailSec /\ avail = 0 THEN out[1] ELSE At(s, 0)
  /\ Ahead' = Ahead /\ tailSec \in Sections \ Ahead
  /\ \A s : Age(s)' = Age(s)
  /\ \A s, o : Has(s, o)' <=> Has(s, o) \/ (s = tailSec /\ v <= o /\ o < v + d /\ o \in Nat)
  /\ \A o : Has(tailSec, o) => o < v
  /\ \A p, node, c : Stored(p, node, c) => Stored(p, node, c)'

\* One pass of node_write's loop.
LEMMA AppendFacts ==
  ASSUME IInv, LInv, NodeWrite
  PROVE  \E n, v, d : Appends(n, v, d)
  <1>1. /\ pc = "emit" /\ pc' = "emit" /\ out # << >> /\ avail < SectionSize /\ ~starting'
        /\ UNCHANGED <<tailSec, tailCount, headSec, list, todo, entry, copying, source, unread>>
    BY DEF NodeWrite, treeVars
  <1>2. PICK k \in 1 .. Len(out), cells \in Seq(Cells) :
           /\ Len(cells) = k /\ \A j \in 1 .. k : cells[j] = out[j]
           /\ Len(buf) + k <= PageSize /\ avail + k <= SectionSize
           /\ k = Len(out) \/ k = PageSize - Len(buf) \/ k = SectionSize - avail
           /\ CacheProgram(cells, FlashAddr(tailSec, avail))
           /\ avail' = avail + k
           /\ Len(out') = Len(out) - k
    BY NodeWriteFacts
  <1>3. /\ TypeOK /\ CacheAligned /\ tailSec \in Sections /\ Len(out) \in Nat \ {0} /\ unread \in Nat
        /\ avail \in Nat /\ SectionSize \in Nat /\ HeadLen \in Nat \ {0} /\ HeadLen < SectionSize
        /\ HeadLen <= PageSize /\ k \in Nat \ {0} /\ k <= Len(out) /\ Payload = SectionSize - HeadLen
        /\ PageSize \in Nat
    BY <1>1, <1>2, GeometryAssumption DEF IInv, TypeOK, Payload
  <1>4. /\ Done \in Nat /\ Heading <= Len(out) /\ (avail = 0 => Len(out) > HeadLen)
        /\ \A j \in 1 .. Len(out) - Heading : out[Heading + j] = <<entry.node, Done + j>>
        /\ \A j \in 1 .. Len(out) : out[j] # Garbage
        /\ SectionOffset(entry.section, entry.offset, Done) = NextPlace
    BY <1>1 DEF LInv, Emitting
  <1>5. tailCount # 0 BY <1>1, <1>3 DEF LInv, Untouched
  <1>6. /\ Heading \in Nat /\ Heading <= k /\ Heading' = 0
        /\ avail = 0 => Heading = HeadLen
        /\ avail # 0 => Heading = 0 /\ HeadLen <= avail
    <2>1. CASE avail = 0
      <3>1. Len(buf) = 0
        <4>1. Len(buf) \in Nat /\ avail - Len(buf) \in Nat BY CacheStart DEF IInv
        <4>q. QED BY <2>1, <4>1
      <3>2. Heading = HeadLen BY <2>1 DEF Heading
      <3>3. HeadLen <= k BY <1>2, <1>3, <1>4, <2>1, <3>1
      <3>q. QED BY <1>2, <1>3, <2>1, <3>2, <3>3 DEF Heading
    <2>2. CASE avail # 0
      <3>1. HeadLen <= avail BY <2>2 DEF LInv, Phases
      <3>q. QED BY <1>2, <1>3, <2>2, <3>1 DEF Heading
    <2>q. QED BY <2>1, <2>2
  <1>7. \A s \in Sections, o \in 0 .. SectionSize - 1 :
              At(s, o)' = IF s = tailSec /\ avail <= o /\ o < avail'
                          THEN cells[o - avail + 1] ELSE At(s, o)
    <2>a. k \in Nat \ {0} /\ Len(out) \in Nat /\ k <= Len(out) /\ Len(cells) = k BY <1>2, <1>3
    <2>b. \A j \in 1 .. k : j \in 1 .. Len(out) BY <2>a
    <2>c. \A j \in 1 .. k : cells[j] # Garbage BY <1>2, <1>4, <2>b
    <2>1. cells # << >> /\ \A j \in 1 .. Len(cells) : cells[j] # Garbage BY <2>a, <2>c
    <2>2. ErasedPlaces /\ Clean BY DEF LInv
    <2>q. QED BY <1>1, <1>2, <1>5, <2>1, <2>2, CacheProgramLog
  <1>8. ASSUME NEW p, NEW node, NEW c, Stored(p, node, c)
        PROVE  Stored(p, node, c)'
    <2>1. Laid(p.section, p.offset, c)'
      <3>1. Laid(p.section, p.offset, c) /\ avail' \in Nat /\ avail <= avail' BY <1>2, <1>3, <1>8 DEF Stored
      <3>q. QED BY <1>1, <1>3, <3>1, LaidKept
    <2>2. \A s \in Sections, o \in 0 .. SectionSize - 1 : (s = tailSec => o < avail) => At(s, o)' = At(s, o)
      BY <1>3, <1>7
    <2>q. QED BY <1>1, <1>3, <1>5, <1>8, <2>1, <2>2, StoredKept
  <1>9. PICK n, v, d, h, b : n = Done /\ h = Heading /\ d = k - Heading /\ v = (IF avail = 0 THEN HeadLen ELSE avail)
                          /\ b = avail OBVIOUS
  <1>10. /\ NextPlace = [section |-> tailSec, offset |-> v]
         /\ v \in 0 .. SectionSize - 1 /\ v = b + h /\ v + d = avail'
         /\ d \in Nat /\ h \in Nat /\ k = d + h
    <2>1. k >= Heading BY <1>3, <1>6
    <2>2. k - Heading \in Nat /\ k = (k - Heading) + Heading BY <1>3, <1>6
    <2>q. QED BY <1>1, <1>2, <1>3, <1>6, <1>9, <2>1, <2>2, NextPlaceMoves
  <1>11. NodeLen(entry.node) \in Nat /\ n \in Nat /\ Left = unread + (Len(out) - h) /\ Left = NodeLen(entry.node) - n
    BY <1>1, <1>9, LeftIs DEF Left
  <1>12. PICK l \in Nat : NodeLen(entry.node) = l BY <1>11
  <1>13. Done' = n + d /\ n + d <= l /\ Left' = l - (n + d)
    <2>1. Done' = l - unread - (Len(out) - k - 0) BY <1>1, <1>2, <1>6, <1>12 DEF Done
    <2>2. l - n = unread + (Len(out) - h) BY <1>11, <1>12
    <2>a. PICK x \in Nat, u \in Nat : Len(out) = x /\ unread = u BY <1>3
    <2>b. k \in Nat /\ k <= x /\ k = d + h /\ d \in Nat /\ h \in Nat /\ n \in Nat /\ l \in Nat
      BY <1>3, <1>10, <1>11, <1>12, <2>a
    <2>c. l - u - (x - k - 0) = n + d /\ n + d <= l BY <2>2, <2>a, <2>b
    <2>3. Done' = n + d /\ n + d <= l BY <2>1, <2>a, <2>c
    <2>q. QED BY <1>1, <1>12, <2>3 DEF Left
  <1>14. b \in Nat /\ v \in Nat /\ d \in Nat /\ h \in Nat /\ v = b + h /\ HeadLen <= v /\ v < SectionSize /\ v + d = b + k
         /\ v + d <= SectionSize /\ avail' = v + d /\ avail = b
         /\ (avail # 0 => v = avail /\ d # 0) /\ (avail = 0 => v = HeadLen)
    <2>1. b \in Nat /\ avail = b BY <1>3, <1>9
    <2>2. v \in Nat /\ d \in Nat /\ h \in Nat /\ v = b + h /\ v < SectionSize /\ k = d + h BY <1>3, <1>10
    <2>3. v + d = b + k /\ b + k <= SectionSize BY <1>2, <1>3, <2>1, <2>2
    <2>4. (b # 0 => v = b /\ h = 0) /\ (b = 0 => v = HeadLen) /\ HeadLen <= v BY <1>3, <1>6, <1>9, <2>1
    <2>5. b # 0 => d # 0 BY <1>3, <2>2, <2>4
    <2>q. QED BY <1>10, <2>1, <2>2, <2>3, <2>4, <2>5
  <1>15. Base <= Base' /\ Base' \in Nat
    <2>1. PICK a : Base = a OBVIOUS
    <2>2. PICK e \in Nat : Len(buf) = e BY CacheLength, Geometry DEF IInv
    <2>3. a = b - e /\ a \in Nat /\ a <= b BY <1>3, <1>14, <2>1, <2>2, BaseIs DEF Base
    <2>4. Len(buf') = 0 \/ Len(buf') = e + k
      <3>0. buf \in Seq(Cells) BY <1>3 DEF TypeOK
      <3>1. Len(buf \o cells) = e + k BY <1>2, <2>2, <3>0
      <3>q. QED BY <1>2, <3>1 DEF CacheProgram
    <2>5. Base' = (v + d) - Len(buf') BY <1>14 DEF Base
    <2>6. Base' = v + d \/ Base' = (v + d) - (e + k) BY <1>14, <2>4, <2>5
    <2>q. QED BY <1>3, <1>14, <2>1, <2>2, <2>3, <2>6
  <1>16. ASSUME NEW s \in Sections, NEW o \in HeadLen .. SectionSize - 1
         PROVE  At(s, o)' = IF s = tailSec /\ v <= o /\ o < v + d
                   THEN <<entry.node, n + (o - v) + 1>> ELSE At(s, o)
    <2>1. o \in 0 .. SectionSize - 1 /\ o \in Nat /\ o >= HeadLen BY <1>3
    <2>2. CASE s = tailSec /\ v <= o /\ o < v + d
      <3>1. b <= o BY <1>14, <2>1, <2>2
      <3>2. At(s, o)' = cells[o - b + 1] BY <1>7, <1>14, <2>1, <2>2, <3>1
      <3>3. PICK j : j = o - v + 1 OBVIOUS
      <3>4. j \in 1 .. Len(out) - h /\ h + j \in 1 .. k /\ o - b + 1 = h + j
        BY <1>3, <1>10, <1>14, <2>1, <2>2, <3>3
      <3>5. out[h + j] = <<entry.node, n + j>> BY <1>4, <1>9, <3>4
      <3>6. At(s, o)' = <<entry.node, n + j>> BY <1>2, <3>2, <3>4, <3>5
      <3>7. n + j = n + (o - v) + 1 BY <1>11, <1>14, <2>1, <3>3
      <3>q. QED BY <2>2, <3>6, <3>7
    <2>3. CASE ~(s = tailSec /\ v <= o /\ o < v + d)
      <3>1. ~(s = tailSec /\ b <= o /\ o < v + d)
        <4>1. b <= o => v <= o BY <1>9, <1>14, <2>1
        <4>q. QED BY <2>3, <4>1
      <3>2. At(s, o)' = At(s, o) BY <1>7, <1>14, <2>1, <3>1
      <3>q. QED BY <2>3, <3>2
    <2>q. QED BY <2>2, <2>3
  <1>17. ASSUME NEW s \in Sections PROVE At(s, 0)' = IF s = tailSec /\ avail = 0 THEN out[1] ELSE At(s, 0)
    <2>1. 0 \in 0 .. SectionSize - 1 BY <1>3
    <2>2. avail <= 0 <=> avail = 0 BY <1>3
    <2>3. 0 < avail' BY <1>2, <1>3
    <2>4. At(s, 0)' = IF s = tailSec /\ avail = 0 THEN cells[0 - avail + 1] ELSE At(s, 0) BY <1>7, <2>1, <2>2, <2>3
    <2>5. cells[1] = out[1] BY <1>2, <1>3
    <2>6. 0 - 0 + 1 = 1 OBVIOUS
    <2>q. QED BY <2>4, <2>5, <2>6
  <1>18. Ahead' = Ahead /\ tailSec \in Sections \ Ahead /\ \A s : Age(s)' = Age(s)
    BY <1>1, <1>3, <1>5, LogSections DEF Ahead, Age
  <1>19. \A s, o : Has(s, o)' <=> Has(s, o) \/ (s = tailSec /\ v <= o /\ o < v + d /\ o \in Nat)
    <2> SUFFICES ASSUME NEW s, NEW o
                 PROVE  Has(s, o)' <=> Has(s, o) \/ (s = tailSec /\ v <= o /\ o < v + d /\ o \in Nat)
      OBVIOUS
    <2>1. Has(s, o)' <=> s \in Sections \ Ahead /\ o \in HeadLen .. SectionSize - 1 /\ (s = tailSec => o < v + d)
      BY <1>1, <1>14, <1>18 DEF Has
    <2>2. Has(s, o) <=> s \in Sections \ Ahead /\ o \in HeadLen .. SectionSize - 1 /\ (s = tailSec => o < b)
      BY <1>14 DEF Has
    <2>3. ASSUME o \in HeadLen .. SectionSize - 1 PROVE o < b => o < v + d BY <1>3, <1>14, <2>3
    <2>4. ASSUME o \in HeadLen .. SectionSize - 1, o < v + d PROVE o < b \/ (v <= o /\ o \in Nat)
      BY <1>3, <1>9, <1>14, <2>4
    <2>5. ASSUME o \in Nat, v <= o, o < v + d PROVE o \in HeadLen .. SectionSize - 1
      BY <1>3, <1>14, <2>5
    <2>q. QED BY <1>18, <2>1, <2>2, <2>3, <2>4, <2>5
  <1>20. \A o : Has(tailSec, o) => o < v
    <2>1. \A o : Has(tailSec, o) => o \in HeadLen .. SectionSize - 1 /\ o < b BY <1>14 DEF Has
    <2>q. QED BY <1>3, <1>14, <2>1
  <1>21. SectionOffset(entry.section, entry.offset, n) = [section |-> tailSec, offset |-> v] BY <1>4, <1>9, <1>10
  <1>22. v = avail + Heading /\ avail' \in Nat BY <1>9, <1>14
  <1>23. Done = n /\ Done' = n + d /\ n + d <= NodeLen(entry.node)
         /\ Left = NodeLen(entry.node) - n /\ Left' = NodeLen(entry.node) - (n + d)
    BY <1>9, <1>11, <1>12, <1>13
  <1>24. /\ n \in Nat /\ v \in Nat /\ d \in Nat /\ HeadLen <= v /\ v < SectionSize
         /\ avail' = v + d /\ v + d <= SectionSize
         /\ (avail # 0 => v = avail /\ d # 0) /\ (avail = 0 => v = HeadLen)
    BY <1>11, <1>14
  <1>25. \A p, node, c : Stored(p, node, c) => Stored(p, node, c)' BY <1>8
  <1>26. \A s \in Sections, o \in HeadLen .. SectionSize - 1 :
           At(s, o)' = IF s = tailSec /\ v <= o /\ o < v + d
                       THEN <<entry.node, n + (o - v) + 1>> ELSE At(s, o)
    BY <1>16
  <1>27. \A s \in Sections : At(s, 0)' = IF s = tailSec /\ avail = 0 THEN out[1] ELSE At(s, 0) BY <1>17
  <1>28. Appends(n, v, d)
    BY <1>1, <1>5, <1>15, <1>18, <1>19, <1>20, <1>21, <1>22, <1>23, <1>24, <1>25, <1>26, <1>27, Zenon DEF Appends
  <1>q. QED BY <1>28

\* Where the last unit of the entry is.
LEMMA LastUnit ==
  ASSUME IInv, LInv, HeaderAhead, NEW n, NEW v, NEW d, Appends(n, v, d), n # 0
  PROVE  /\ v > HeadLen => At(tailSec, v - 1) = <<entry.node, n>>
         /\ v = HeadLen =>
              /\ entry.section # tailSec /\ NextSection(entry.section) = tailSec
              /\ entry.offset + n = SectionSize /\ At(entry.section, SectionSize - 1) = <<entry.node, n>>
         /\ entry.section # tailSec => entry.offset + n - SectionSize + HeadLen = v
         /\ entry.section = tailSec => entry.offset + n = v
  <1>1. /\ pc = "emit" /\ n \in Nat /\ v \in Nat /\ HeadLen <= v /\ v < SectionSize /\ Done = n
        /\ SectionOffset(entry.section, entry.offset, n) = [section |-> tailSec, offset |-> v]
        /\ tailSec \in Sections
    BY DEF Appends
  <1>2. /\ entry.section \in Sections /\ entry.offset \in 0 .. SectionSize - 1 /\ entry.offset >= HeadLen
        /\ NodeLen(entry.node) \in Nat /\ NodeLen(entry.node) <= Payload /\ n <= NodeLen(entry.node)
    BY <1>1, LeftIs DEF HeaderAhead
  <1>3. SectionSize \in Nat /\ HeadLen \in Nat \ {0} /\ HeadLen < SectionSize /\ Payload = SectionSize - HeadLen
    BY Geometry DEF Payload
  <1>4. Holds(entry.section, entry.offset, entry.node, n)
    <2>1. Done > 0 => Stored(entry, entry.node, Done) BY <1>1 DEF LInv, Emitting
    <2>2. n > 0 BY <1>1
    <2>q. QED BY <1>1, <2>1, <2>2 DEF Stored
  <1>5. PICK s, o, m : s = entry.section /\ o = entry.offset /\ m = entry.node OBVIOUS
  <1>6. n - 1 \in 0 .. n - 1 /\ (n - 1) + 1 = n BY <1>1
  <1>7. AtPlace(SectionOffset(s, o, n - 1)) = <<m, n>> BY <1>4, <1>5, <1>6 DEF Holds
  <1>8. NextSection(s) # s BY <1>2, <1>5, LogSections DEF IInv
  <1>9. CASE o + n < SectionSize
    <2>1. s = tailSec /\ o + n = v BY <1>1, <1>5, <1>9, <1>3, <1>2 DEF SectionOffset
    <2>2. SectionOffset(s, o, n - 1) = [section |-> s, offset |-> v - 1]
      <3>1. o + (n - 1) = v - 1 /\ ~(o + (n - 1) >= SectionSize) BY <1>1, <1>2, <1>3, <1>5, <1>9, <2>1
      <3>q. QED BY <3>1 DEF SectionOffset
    <2>3. v > HeadLen BY <1>1, <1>2, <1>3, <1>5, <2>1
    <2>4. v # HeadLen BY <1>1, <1>3, <2>3
    <2>q. QED BY <1>5, <1>7, <2>1, <2>2, <2>4 DEF AtPlace
  <1>10. CASE o + n >= SectionSize
    <2>1. NextSection(s) = tailSec /\ o + n - SectionSize + HeadLen = v /\ s # tailSec
      BY <1>1, <1>5, <1>8, <1>10, <1>3, <1>2 DEF SectionOffset
    <2>2. CASE v > HeadLen
      <3>1. o + (n - 1) - SectionSize + HeadLen = v - 1 /\ o + (n - 1) >= SectionSize
        BY <1>1, <1>2, <1>3, <1>5, <2>1, <2>2
      <3>2. SectionOffset(s, o, n - 1) = [section |-> tailSec, offset |-> v - 1]
        BY <2>1, <3>1 DEF SectionOffset
      <3>3. v # HeadLen BY <1>1, <1>3, <2>2
      <3>q. QED BY <1>5, <1>7, <2>1, <3>2, <3>3 DEF AtPlace
    <2>3. CASE v = HeadLen
      <3>1. o + (n - 1) = SectionSize - 1 /\ ~(o + (n - 1) >= SectionSize) /\ o + n = SectionSize
        BY <1>1, <1>2, <1>3, <1>5, <2>1, <2>3
      <3>2. SectionOffset(s, o, n - 1) = [section |-> s, offset |-> SectionSize - 1]
        BY <3>1 DEF SectionOffset
      <3>3. ~(v > HeadLen) BY <1>3, <2>3
      <3>q. QED BY <1>5, <1>7, <2>1, <3>1, <3>2, <3>3 DEF AtPlace
    <2>q. QED BY <1>1, <1>3, <2>2, <2>3
  <1>q. QED BY <1>1, <1>2, <1>3, <1>5, <1>9, <1>10

\* The units written belong to the entry: nothing that was there before changes.
LEMMA AppendUnits ==
  ASSUME IInv, LInv, Shape, NEW n, NEW v, NEW d, Appends(n, v, d)
  PROVE  Kinds' /\ Follows' /\ Padded' /\ PagesUsed'
  <1> USE DEF Shape
  <1>1. /\ pc = "emit" /\ n \in Nat /\ v \in Nat /\ d \in Nat /\ HeadLen <= v /\ v < SectionSize /\ v + d <= SectionSize
        /\ n + d <= NodeLen(entry.node)
    BY DEF Appends
  <1>2. HeadLen \in Nat \ {0} /\ SectionSize \in Nat /\ HeadLen < SectionSize BY Geometry
  <1>3. entry.node \in Nodes /\ NodeLen(entry.node) \in Nat BY <1>1, LeftIs
  <1>4. \A s \in Sections, o \in HeadLen .. SectionSize - 1 :
          At(s, o)' = IF s = tailSec /\ v <= o /\ o < v + d
                      THEN <<entry.node, n + (o - v) + 1>> ELSE At(s, o)
    BY DEF Appends
  <1>5. \A s, o : Has(s, o)' <=> Has(s, o) \/ (s = tailSec /\ v <= o /\ o < v + d /\ o \in Nat) BY DEF Appends
  <1>6. \A o : Has(tailSec, o) => o < v BY DEF Appends
  <1>7. \A s, o : Has(s, o) => /\ s \in Sections /\ o \in HeadLen .. SectionSize - 1 /\ o \in Nat
                               /\ At(s, o)' = At(s, o) /\ ~(s = tailSec /\ v <= o /\ o < v + d)
    <2> SUFFICES ASSUME NEW s, NEW o, Has(s, o)
                 PROVE  /\ s \in Sections /\ o \in HeadLen .. SectionSize - 1 /\ o \in Nat
                        /\ At(s, o)' = At(s, o) /\ ~(s = tailSec /\ v <= o /\ o < v + d)
      OBVIOUS
    <2>1. s \in Sections /\ o \in HeadLen .. SectionSize - 1 BY DEF Has
    <2>2. o \in Nat BY <1>2, <2>1
    <2>3. ~(s = tailSec /\ v <= o /\ o < v + d) BY <1>1, <1>6, <2>2
    <2>q. QED BY <1>4, <2>1, <2>2, <2>3
  <1>8. ASSUME NEW s \in Sections, NEW o \in HeadLen .. SectionSize - 1, Has(s, o)', ~Has(s, o)
        PROVE  s = tailSec /\ v <= o /\ o < v + d /\ n + (o - v) + 1 \in 1 .. NodeLen(entry.node)
               /\ At(s, o)' = <<entry.node, n + (o - v) + 1>> /\ At(s, o)' # Erased
    <2>1. s = tailSec /\ v <= o /\ o < v + d /\ o \in Nat BY <1>5, <1>8
    <2>2. At(s, o)' = <<entry.node, n + (o - v) + 1>> BY <1>4, <2>1
    <2>3. n + (o - v) + 1 \in 1 .. NodeLen(entry.node) BY <1>1, <1>3, <2>1
    <2>4. n + (o - v) + 1 # 0 BY <2>3
    <2>q. QED BY <2>1, <2>2, <2>3, <2>4, UnitIs
  <1>9. Kinds'
    <2> SUFFICES ASSUME NEW s \in Sections, NEW o \in HeadLen .. SectionSize - 1, Has(s, o)'
                 PROVE  At(s, o)' = Erased \/ \E m \in Nodes : \E i \in 1 .. NodeLen(m) : At(s, o)' = <<m, i>>
      BY DEF Kinds
    <2>1. CASE Has(s, o) BY <1>7, <2>1 DEF Kinds
    <2>2. CASE ~Has(s, o) BY <1>3, <1>8, <2>2
    <2>q. QED BY <2>1, <2>2
  <1>10. Follows'
    <2> SUFFICES ASSUME NEW s \in Sections, NEW o \in HeadLen + 1 .. SectionSize - 1, NEW m \in Nodes,
                        NEW i \in 2 .. NodeLen(m), Has(s, o)', At(s, o)' = <<m, i>>
                 PROVE  At(s, o - 1)' = <<m, i - 1>>
      BY DEF Follows
    <2>0. o \in HeadLen .. SectionSize - 1 /\ o - 1 \in HeadLen .. SectionSize - 1 /\ o \in Nat BY <1>2
    <2>1. CASE Has(s, o)
      <3>1. At(s, o) = <<m, i>> BY <1>7, <2>1
      <3>2. At(s, o - 1) = <<m, i - 1>> BY <2>1, <3>1 DEF Follows
      <3>3. ~(s = tailSec /\ v <= o - 1 /\ o - 1 < v + d)
        <4>1. s = tailSec => o < v BY <1>6, <2>1
        <4>q. QED BY <1>1, <2>0, <4>1
      <3>q. QED BY <1>4, <2>0, <3>2, <3>3
    <2>2. CASE ~Has(s, o)
      <3>1. s = tailSec /\ v <= o /\ o < v + d /\ At(s, o)' = <<entry.node, n + (o - v) + 1>> BY <1>8, <2>0, <2>2
      <3>2. m = entry.node /\ i = n + (o - v) + 1 BY <3>1, UnitIs
      <3>3. CASE v < o
        <4>1. v <= o - 1 /\ o - 1 < v + d /\ n + ((o - 1) - v) + 1 = i - 1 BY <1>1, <2>0, <3>1, <3>2, <3>3
        <4>q. QED BY <1>4, <2>0, <3>1, <3>2, <4>1
      <3>4. CASE ~(v < o)
        <4>1. o = v /\ n = i - 1 /\ n # 0 /\ v > HeadLen BY <1>1, <1>2, <2>0, <3>1, <3>2, <3>4
        <4>2. At(tailSec, v - 1) = <<entry.node, n>> BY <4>1, LastUnit
        <4>3. ~(v <= v - 1) BY <1>1
        <4>q. QED BY <1>4, <2>0, <3>1, <3>2, <4>1, <4>2, <4>3
      <3>q. QED BY <3>3, <3>4
    <2>q. QED BY <2>1, <2>2
  <1>11. Padded'
    <2> SUFFICES ASSUME NEW s \in Sections, NEW o \in HeadLen .. SectionSize - 1, Has(s, o)', At(s, o)' = Erased,
                        NEW q \in o .. NextPage(o) - 1
                 PROVE  Has(s, q)' /\ At(s, q)' = Erased
      BY DEF Padded, NextPage
    <2>1. Has(s, o) BY <1>8
    <2>2. At(s, o) = Erased BY <1>7, <2>1
    <2>3. Has(s, q) /\ At(s, q) = Erased BY <2>1, <2>2 DEF Padded
    <2>q. QED BY <1>5, <1>7, <2>3
  <1>12. PagesUsed'
    <2> SUFFICES ASSUME NEW s \in Sections, NEW o \in HeadLen .. SectionSize - 1, Has(s, o)', o % PageSize = 0
                 PROVE  At(s, o)' # Erased
      BY DEF PagesUsed
    <2>1. CASE Has(s, o) BY <1>7, <2>1 DEF PagesUsed
    <2>2. CASE ~Has(s, o) BY <1>8, <2>2
    <2>q. QED BY <2>1, <2>2
  <1>q. QED BY <1>9, <1>10, <1>11, <1>12

\* The numbers of what is appended.
LEMMA AppendNumbers ==
  ASSUME IInv, LInv, NEW n, NEW v, NEW d, Appends(n, v, d)
  PROVE  /\ n \in Nat /\ v \in Nat /\ d \in Nat /\ avail \in Nat /\ avail < SectionSize /\ avail <= v
         /\ HeadLen \in Nat \ {0} /\ SectionSize \in Nat /\ HeadLen < SectionSize /\ Payload = SectionSize - HeadLen
         /\ HeadLen <= v /\ v < SectionSize /\ v + d <= SectionSize
         /\ entry \in Located /\ entry.node \in Nodes /\ entry.section \in Sections /\ entry.offset \in 0 .. SectionSize - 1
         /\ NodeLen(entry.node) \in Nat \ {0} /\ NodeLen(entry.node) <= Payload /\ n + d <= NodeLen(entry.node)
         /\ pc = "emit" /\ tailSec \in Sections
         /\ Under <=> n # 0
         /\ Under' <=> n + d # 0
  <1>1. /\ n \in Nat /\ v \in Nat /\ d \in Nat /\ HeadLen <= v /\ v < SectionSize /\ v + d <= SectionSize
        /\ n + d <= NodeLen(entry.node) /\ pc = "emit" /\ pc' = "emit" /\ avail < SectionSize
        /\ v = avail + Heading /\ Done = n /\ Done' = n + d /\ tailSec \in Sections
    BY DEF Appends
  <1>2. HeadLen \in Nat \ {0} /\ SectionSize \in Nat /\ HeadLen < SectionSize /\ Payload = SectionSize - HeadLen
    BY Geometry DEF Payload
  <1>3. avail \in Nat /\ entry \in Located BY <1>1 DEF IInv, TypeOK, CallShape
  <1>4. Heading \in Nat BY <1>2 DEF Heading
  <1>5. entry.node \in Nodes /\ entry.section \in Sections /\ entry.offset \in 0 .. SectionSize - 1 BY <1>3 DEF Located
  <1>6. NodeLen(entry.node) \in Nat \ {0} /\ NodeLen(entry.node) <= Payload BY <1>5, NodeFits
  <1>7. avail <= v BY <1>1, <1>3, <1>4
  <1>8. Under <=> n # 0 BY <1>1 DEF Under
  <1>9. Under' <=> n + d # 0
    <2>1. Under' <=> Done' > 0 BY <1>1 DEF Under
    <2>2. PICK t \in Nat : Done' = t /\ t = n + d BY <1>1
    <2>3. Under' <=> t > 0 BY <2>1, <2>2
    <2>q. QED BY <2>2, <2>3
  <1>q. QED BY <1>1, <1>2, <1>3, <1>5, <1>6, <1>7, <1>8, <1>9

\* What was written before of the entry under way does not begin another node.
LEMMA AppendBegins ==
  ASSUME IInv, LInv, Shape, NEW n, NEW v, NEW d, Appends(n, v, d)
  PROVE  Begins'
  <1>h. HeaderAhead /\ Begins BY DEF Shape
  <1>1. /\ n \in Nat /\ v \in Nat /\ d \in Nat /\ avail \in Nat /\ avail < SectionSize /\ avail <= v
        /\ HeadLen <= v /\ v < SectionSize /\ v + d <= SectionSize
        /\ entry.node \in Nodes /\ entry.section \in Sections /\ entry.offset \in 0 .. SectionSize - 1
        /\ NodeLen(entry.node) \in Nat \ {0} /\ NodeLen(entry.node) <= Payload /\ n + d <= NodeLen(entry.node)
        /\ tailSec \in Sections
    BY AppendNumbers
  <1>2. HeadLen \in Nat \ {0} /\ SectionSize \in Nat /\ HeadLen < SectionSize /\ Payload = SectionSize - HeadLen
    BY AppendNumbers
  <1>3. (Under <=> n # 0) /\ (Under' <=> n + d # 0) BY AppendNumbers
  <1>4. \A s \in Sections, o \in HeadLen .. SectionSize - 1 :
          At(s, o)' = IF s = tailSec /\ v <= o /\ o < v + d
                      THEN <<entry.node, n + (o - v) + 1>> ELSE At(s, o)
    BY DEF Appends
  <1>5. \A s, o : Has(s, o)' <=> Has(s, o) \/ (s = tailSec /\ v <= o /\ o < v + d /\ o \in Nat) BY DEF Appends
  <1>6. /\ UNCHANGED <<tailSec, entry>> /\ avail' \in Nat /\ avail' = v + d /\ Ahead' = Ahead
        /\ SectionOffset(entry.section, entry.offset, n) = [section |-> tailSec, offset |-> v]
        /\ \A p, node, c : Stored(p, node, c) => Stored(p, node, c)'
        /\ \A o : Has(tailSec, o) => o < v
    BY DEF Appends
  <1>7. \A s, o : IsEntry(s, o) => IsEntry(s, o)'
    <2>1. Under => Under' BY <1>1, <1>3
    <2>q. QED BY <1>6, <2>1 DEF IsEntry
  <1>8. ASSUME NEW t \in Sections, NEW q \in HeadLen .. SectionSize - 1, Mid(t, q)'
        PROVE  Mid(t, q) \/ (t = tailSec /\ v <= q /\ q < v + d /\ (q = v => n # 0))
    <2>1. PICK x \in Nodes : \E i \in 2 .. NodeLen(x) : At(t, q)' = <<x, i>> BY <1>8 DEF Mid
    <2>2. PICK i \in 2 .. NodeLen(x) : At(t, q)' = <<x, i>> BY <2>1
    <2>3. CASE t = tailSec /\ v <= q /\ q < v + d
      <3>1. i = n + (q - v) + 1 BY <1>4, <2>2, <2>3, UnitIs
      <3>2. q = v => n # 0 BY <1>1, <3>1
      <3>q. QED BY <2>3, <3>2
    <2>4. CASE ~(t = tailSec /\ v <= q /\ q < v + d)
      <3>1. At(t, q) = <<x, i>> BY <1>4, <2>2, <2>4
      <3>q. QED BY <3>1 DEF Mid
    <2>q. QED BY <2>3, <2>4
  <1> SUFFICES ASSUME NEW s \in Sections, NEW o \in HeadLen .. SectionSize - 1, NEW m \in Nodes,
                      Has(s, o)', At(s, o)' = <<m, 1>>, ~IsEntry(s, o)'
               PROVE  Stored([section |-> s, offset |-> o], m, NodeLen(m))' \/ CutAt(s, o, m)'
    BY DEF Begins
  <1>9. o \in Nat /\ o >= HeadLen /\ o <= SectionSize - 1 BY <1>2
  <1>10. ~IsEntry(s, o) BY <1>7
  <1>11. CASE ~Has(s, o)
    <2>1. s = tailSec /\ v <= o /\ o < v + d BY <1>5, <1>11
    <2>2. At(s, o)' = <<entry.node, n + (o - v) + 1>> BY <1>4, <2>1
    <2>3. n + (o - v) + 1 = 1 BY <2>2, UnitIs
    <2>4. n = 0 /\ o = v /\ d # 0 BY <1>1, <1>9, <2>1, <2>3
    <2>5. SectionOffset(entry.section, entry.offset, 0) = [section |-> tailSec, offset |-> v] BY <1>6, <2>4
    <2>6. SectionOffset(entry.section, entry.offset, 0) = [section |-> entry.section, offset |-> entry.offset]
      BY <1>1, <1>2 DEF SectionOffset
    <2>7. entry.section = s /\ entry.offset = o BY <2>1, <2>4, <2>5, <2>6
    <2>8. Under' BY <1>1, <1>3, <2>4
    <2>9. IsEntry(s, o)' BY <1>6, <2>7, <2>8 DEF IsEntry
    <2>q. QED BY <2>9
  <1>12. CASE Has(s, o)
    <2>0. ~(s = tailSec /\ v <= o /\ o < v + d)
      <3>1. s = tailSec => o < v BY <1>6, <1>12
      <3>q. QED BY <1>1, <1>9, <3>1
    <2>1. At(s, o) = <<m, 1>> BY <1>4, <2>0
    <2>2. CASE Stored([section |-> s, offset |-> o], m, NodeLen(m)) BY <1>6, <2>2
    <2>3. CASE CutAt(s, o, m)
      <3>1. PICK k \in 1 .. MetaLen(m) - 1 :
              /\ o + k <= SectionSize /\ (o + k) % PageSize = 0
              /\ s = tailSec => o + k <= avail
              /\ \A j \in 0 .. k - 1 : At(s, o + j) = <<m, j + 1>>
              /\ o + k < SectionSize => ~Mid(s, o + k)
              /\ o + k = SectionSize =>
                   IF s = tailSec THEN NextSection(s) \in Ahead ELSE ~Mid(NextSection(s), HeadLen)
        BY <2>3 DEF CutAt
      <3>2. k \in Nat \ {0} /\ k <= Payload
        <4>1. MetaLen(m) \in 1 .. AddLen BY NodeKinds
        <4>2. AddLen \in Nat /\ AddLen <= Payload BY LengthAssumption DEF Payload
        <4>q. QED BY <1>2, <4>1, <4>2
      <3>3. k - 1 \in 0 .. k - 1 /\ (k - 1) + 1 = k /\ o + (k - 1) = o + k - 1 BY <1>9, <3>2
      <3>4. At(s, o + k - 1) = <<m, k>> BY <3>1, <3>3
      <3>5. s = tailSec => o + k <= avail'
        <4>1. PICK a \in Nat : avail' = a /\ a = v + d BY <1>1, <1>6
        <4>2. s = tailSec => o + k <= avail BY <3>1
        <4>3. s = tailSec => o + k <= a BY <1>1, <1>9, <3>2, <4>1, <4>2
        <4>q. QED BY <4>1, <4>3
      <3>6. ASSUME NEW j \in 0 .. k - 1 PROVE At(s, o + j)' = <<m, j + 1>>
        <4>1. At(s, o + j) = <<m, j + 1>> /\ o + k <= SectionSize /\ (s = tailSec => o + k <= avail) BY <3>1
        <4>2. o + j \in HeadLen .. SectionSize - 1 BY <1>2, <1>9, <3>2, <4>1
        <4>3. ~(s = tailSec /\ v <= o + j /\ o + j < v + d) BY <1>1, <1>9, <3>2, <4>1
        <4>q. QED BY <1>4, <4>1, <4>2, <4>3
      <3>7. ASSUME o + k < SectionSize PROVE ~Mid(s, o + k)'
        <4>1. ~Mid(s, o + k) /\ (s = tailSec => o + k <= avail) BY <3>1, <3>7
        <4>2. o + k \in HeadLen .. SectionSize - 1 BY <1>2, <1>9, <3>2, <3>7
        <4>3. SUFFICES ASSUME Mid(s, o + k)' PROVE FALSE OBVIOUS
        <4>4. s = tailSec /\ v <= o + k /\ o + k < v + d /\ (o + k = v => n # 0) BY <1>8, <4>1, <4>2, <4>3
        <4>5. o + k = v /\ n # 0 /\ v > HeadLen BY <1>1, <1>2, <1>9, <3>2, <4>1, <4>4
        <4>6. At(tailSec, v - 1) = <<entry.node, n>> BY <1>h, <4>5, LastUnit
        <4>7. <<m, k>> = <<entry.node, n>> BY <3>4, <4>4, <4>5, <4>6
        <4>8. m = entry.node /\ k = n BY <4>7, UnitIs
        <4>9. SectionOffset(s, o, k) = [section |-> s, offset |-> o + k] BY <1>2, <1>9, <3>2, <3>7 DEF SectionOffset
        <4>10. SectionOffset(entry.section, entry.offset, n) = SectionOffset(s, o, n) BY <1>6, <4>4, <4>5, <4>8, <4>9
        <4>11. entry.offset \in HeadLen .. SectionSize - 1
          <5>1. entry.offset >= HeadLen BY <1>h, AppendNumbers DEF HeaderAhead
          <5>q. QED BY <1>1, <1>2, <5>1
        <4>12. n \in 0 .. Payload BY <1>1, <1>2, <3>2, <4>8
        <4>13. entry.section = s /\ entry.offset = o BY <1>1, <4>10, <4>11, <4>12, GoBack
        <4>14. IsEntry(s, o) BY <1>3, <4>5, <4>13 DEF IsEntry
        <4>q. QED BY <1>10, <4>14
      <3>8. ASSUME o + k = SectionSize
            PROVE  IF s = tailSec THEN NextSection(s) \in Ahead' ELSE ~Mid(NextSection(s), HeadLen)'
        <4>1. s # tailSec BY <1>1, <1>2, <1>9, <3>1, <3>8
        <4>2. ~Mid(NextSection(s), HeadLen) BY <3>1, <3>8, <4>1
        <4>3. NextSection(s) \in Sections /\ HeadLen \in HeadLen .. SectionSize - 1 BY <1>2, NextSectionType
        <4>4. SUFFICES ASSUME Mid(NextSection(s), HeadLen)' PROVE FALSE BY <4>1
        <4>5. NextSection(s) = tailSec /\ v <= HeadLen /\ (HeadLen = v => n # 0) BY <1>8, <4>2, <4>3, <4>4
        <4>6. v = HeadLen /\ n # 0 BY <1>1, <1>2, <4>5
        <4>7. /\ NextSection(entry.section) = tailSec
              /\ entry.offset + n = SectionSize /\ At(entry.section, SectionSize - 1) = <<entry.node, n>>
          BY <1>h, <4>6, LastUnit
        <4>8. entry.section = s BY <1>1, <4>5, <4>7, LogSections DEF IInv
        <4>9. <<m, k>> = <<entry.node, n>> BY <3>4, <3>8, <4>7, <4>8
        <4>10. k = n BY <4>9, UnitIs
        <4>11. entry.offset = o BY <1>1, <1>9, <3>2, <3>8, <4>7, <4>10
        <4>12. IsEntry(s, o) BY <1>3, <4>6, <4>8, <4>11 DEF IsEntry
        <4>q. QED BY <1>10, <4>12
      <3>9. CutAt(s, o, m)'
        <4>1. o + k <= SectionSize /\ (o + k) % PageSize = 0 BY <3>1
        <4>q. QED BY <1>6, <3>5, <3>6, <3>7, <3>8, <4>1 DEF CutAt
      <3>q. QED BY <3>9
    <2>q. QED BY <1>10, <1>12, <2>1, <2>2, <2>3, <1>h DEF Begins
  <1>q. QED BY <1>11, <1>12

\* The header of a section is written with its offset: the rest of the entry under way.
LEMMA AppendHeaded ==
  ASSUME IInv, LInv, Shape, NEW n, NEW v, NEW d, Appends(n, v, d)
  PROVE  Headed'
  <1>h. HeaderAhead /\ Headed BY DEF Shape
  <1>1. /\ n \in Nat /\ v \in Nat /\ d \in Nat /\ avail \in Nat /\ avail < SectionSize /\ avail <= v
        /\ HeadLen <= v /\ v < SectionSize /\ v + d <= SectionSize
        /\ entry \in Located /\ entry.node \in Nodes /\ entry.section \in Sections /\ entry.offset \in 0 .. SectionSize - 1
        /\ NodeLen(entry.node) \in Nat \ {0} /\ NodeLen(entry.node) <= Payload /\ n + d <= NodeLen(entry.node)
        /\ tailSec \in Sections /\ pc = "emit"
    BY AppendNumbers
  <1>2. HeadLen \in Nat \ {0} /\ SectionSize \in Nat /\ HeadLen < SectionSize /\ Payload = SectionSize - HeadLen
    BY AppendNumbers
  <1>3. (Under <=> n # 0) /\ (Under' <=> n + d # 0) BY AppendNumbers
  <1>4. \A s \in Sections, o \in HeadLen .. SectionSize - 1 :
          At(s, o)' = IF s = tailSec /\ v <= o /\ o < v + d
                      THEN <<entry.node, n + (o - v) + 1>> ELSE At(s, o)
    BY DEF Appends
  <1>5. \A s, o : Has(s, o)' <=> Has(s, o) \/ (s = tailSec /\ v <= o /\ o < v + d /\ o \in Nat) BY DEF Appends
  <1>6. /\ UNCHANGED <<tailSec, entry, tailCount>> /\ avail' \in Nat /\ avail' = v + d /\ Ahead' = Ahead
        /\ Base <= Base' /\ Base' \in Nat
        /\ Done = n /\ Left = NodeLen(entry.node) - n /\ Left' = NodeLen(entry.node) - (n + d)
        /\ \A p, node, c : Stored(p, node, c) => Stored(p, node, c)'
        /\ \A o : Has(tailSec, o) => o < v
        /\ \A s \in Sections : At(s, 0)' = IF s = tailSec /\ avail = 0 THEN out[1] ELSE At(s, 0)
        /\ \A s : Age(s)' = Age(s)
    BY DEF Appends
  <1>7. /\ avail # 0 => v = avail /\ d # 0
        /\ avail = 0 => v = HeadLen
    BY DEF Appends
  <1>8. PICK a \in Nat : avail' = a /\ a = v + d BY <1>1, <1>6
  <1>9. PICK l \in Nat : Left = l /\ l = NodeLen(entry.node) - n BY <1>1, <1>6
  <1>10. PICK r \in Nat : Left' = r /\ r = NodeLen(entry.node) - (n + d) BY <1>1, <1>6
  <1>11. \A t \in Sections, q \in HeadLen .. SectionSize - 1 :
           Mid(t, q) /\ ~(t = tailSec /\ v <= q /\ q < v + d) => Mid(t, q)'
    BY <1>4 DEF Mid
  <1>12. \A t \in Sections, q \in HeadLen .. SectionSize - 1 :
           Mid(t, q)' /\ ~(t = tailSec /\ v <= q /\ q < v + d) => Mid(t, q)
    BY <1>4 DEF Mid
  <1>13. \A t, q : t = tailSec /\ q \in HeadLen .. SectionSize - 1 /\ v <= q /\ q < v + d =>
           /\ n # 0 \/ q # v => Mid(t, q)'
           /\ n = 0 /\ q = v => ~Mid(t, q)'
    <2> SUFFICES ASSUME NEW t, t = tailSec, NEW q \in HeadLen .. SectionSize - 1, v <= q, q < v + d
                 PROVE  /\ n # 0 \/ q # v => Mid(t, q)'
                        /\ n = 0 /\ q = v => ~Mid(t, q)'
      OBVIOUS
    <2>1. At(t, q)' = <<entry.node, n + (q - v) + 1>> BY <1>1, <1>4
    <2>2. n # 0 \/ q # v => n + (q - v) + 1 \in 2 .. NodeLen(entry.node) BY <1>1, <1>2
    <2>3. n # 0 \/ q # v => Mid(t, q)' BY <1>1, <2>1, <2>2 DEF Mid
    <2>4. ASSUME n = 0, q = v, Mid(t, q)' PROVE FALSE
      <3>1. PICK x \in Nodes : \E i \in 2 .. NodeLen(x) : At(t, q)' = <<x, i>> BY <2>4 DEF Mid
      <3>2. PICK i \in 2 .. NodeLen(x) : At(t, q)' = <<x, i>> BY <3>1
      <3>3. i = n + (q - v) + 1 BY <2>1, <3>2, UnitIs
      <3>q. QED BY <1>1, <2>4, <3>3
    <2>q. QED BY <2>3, <2>4
  <1>14. \A t, off : Straddles(t, off) => Straddles(t, off)'
    <2> SUFFICES ASSUME NEW t, NEW off, Straddles(t, off) PROVE Straddles(t, off)' OBVIOUS
    <2>1. PICK e \in Located :
             /\ e.section # t /\ e.offset >= HeadLen
             /\ SectionOffset(e.section, e.offset, NodeLen(e.node)) = [section |-> t, offset |-> off]
             /\ Stored(e, e.node, NodeLen(e.node)) \/ (Under /\ e = entry)
      BY DEF Straddles
    <2>2. Under => Under' BY <1>1, <1>3
    <2>3. (Stored(e, e.node, NodeLen(e.node)) \/ (Under /\ e = entry))' BY <1>6, <2>1, <2>2
    <2>q. QED BY <2>1, <2>3 DEF Straddles
  <1> SUFFICES ASSUME NEW s \in Sections \ Ahead, s = tailSec => avail' # 0
               PROVE  \E off \in HeadLen .. SectionSize - 1 :
                        At(s, 0)' = <<SectionHead(tailCount - Age(s), off), 1>> /\ StartsAt(s, off)'
    BY <1>6 DEF Headed
  <1>15. CASE s # tailSec
    <2>1. PICK off \in HeadLen .. SectionSize - 1 :
                 At(s, 0) = <<SectionHead(tailCount - Age(s), off), 1>> /\ StartsAt(s, off)
      BY <1>h, <1>15 DEF Headed
    <2>2. At(s, 0)' = At(s, 0) BY <1>6, <1>15
    <2>3. \A q : Has(s, q)' <=> Has(s, q) BY <1>5, <1>15
    <2>4. \A q \in HeadLen .. SectionSize - 1 : Mid(s, q)' <=> Mid(s, q) BY <1>11, <1>12, <1>15
    <2>5. \A o \in HeadLen .. off - 1 : Has(s, o)' => Mid(s, o)'
      <3>1. \A o \in HeadLen .. off - 1 : o \in HeadLen .. SectionSize - 1 BY <1>2
      <3>q. QED BY <2>1, <2>3, <2>4, <3>1 DEF StartsAt
    <2>6. Has(s, off)' => ~Mid(s, off)' BY <2>1, <2>3, <2>4 DEF StartsAt
    <2>7. s # tailSec' BY <1>6, <1>15
    <2>8. StartsAt(s, off)' BY <2>5, <2>6, <2>7 DEF StartsAt
    <2>q. QED BY <2>1, <2>2, <2>8
  <1>16. CASE s = tailSec /\ avail # 0
    <2>0. v = avail /\ d # 0 BY <1>7, <1>16
    <2>1. PICK off \in HeadLen .. SectionSize - 1 :
                 At(s, 0) = <<SectionHead(tailCount - Age(s), off), 1>> /\ StartsAt(s, off)
      BY <1>h, <1>16 DEF Headed
    <2>2. At(s, 0)' = At(s, 0) BY <1>6, <1>16
    <2>3. off \in Nat /\ off >= HeadLen /\ off <= SectionSize - 1 BY <1>2
    <2>4. /\ \A o \in HeadLen .. off - 1 : Has(s, o) => Mid(s, o)
          /\ Has(s, off) => ~Mid(s, off)
          /\ off >= avail => off = avail + (IF Under THEN Left ELSE 0)
          /\ off > Base /\ off > HeadLen => Straddles(s, off)
      BY <1>16, <2>1 DEF StartsAt
    <2>5. /\ off >= avail /\ n # 0 => off = v + l
          /\ off >= avail /\ n = 0 => off = v
      <3>1. off >= avail /\ n # 0 => off = avail + l BY <1>3, <1>9, <2>4
      <3>2. off >= avail /\ n = 0 => off = avail BY <1>1, <1>3, <2>4
      <3>q. QED BY <2>0, <3>1, <3>2
    <2>6. ASSUME NEW o \in HeadLen .. off - 1, Has(s, o)' PROVE Mid(s, o)'
      <3>0. o \in HeadLen .. SectionSize - 1 /\ o < off /\ o \in Nat BY <1>2, <2>3
      <3>1. CASE Has(s, o)
        <4>1. Mid(s, o) BY <2>4, <3>1
        <4>2. o < v BY <1>6, <1>16, <3>1
        <4>q. QED BY <1>1, <1>11, <3>0, <4>1, <4>2
      <3>2. CASE ~Has(s, o)
        <4>1. v <= o /\ o < v + d BY <1>5, <2>6, <3>2
        <4>2. n # 0 BY <1>1, <2>0, <2>3, <2>5, <3>0, <4>1
        <4>q. QED BY <1>13, <1>16, <3>0, <4>1, <4>2
      <3>q. QED BY <3>1, <3>2
    <2>7. Has(s, off)' => ~Mid(s, off)'
      <3>1. CASE Has(s, off)
        <4>1. off < v BY <1>6, <1>16, <3>1
        <4>q. QED BY <1>1, <1>12, <2>3, <2>4, <3>1, <4>1
      <3>2. ASSUME ~Has(s, off), Has(s, off)' PROVE ~Mid(s, off)'
        <4>1. v <= off /\ off < v + d BY <1>5, <3>2
        <4>2. n = 0 /\ off = v BY <1>1, <1>9, <2>0, <2>3, <2>5, <4>1
        <4>q. QED BY <1>13, <1>16, <4>1, <4>2
      <3>q. QED BY <3>1, <3>2
    <2>8. off >= a => off = a + r /\ n # 0 BY <1>1, <1>8, <1>9, <1>10, <2>0, <2>3, <2>5
    <2>9. off >= avail' => off = avail' + (IF Under THEN Left ELSE 0)'
      <3>1. off >= a => off = a + r /\ Under' BY <1>1, <1>3, <2>8
      <3>q. QED BY <1>8, <1>10, <3>1
    <2>10. off > Base' /\ off > HeadLen => Straddles(s, off)'
      <3>1. PICK b \in Nat : Base' = b BY <1>6
      <3>2. Base \in Nat BY BaseIs DEF IInv
      <3>3. off > b => off > Base BY <1>6, <2>3, <3>1, <3>2
      <3>q. QED BY <1>14, <2>4, <3>1, <3>3
    <2>11. StartsAt(s, off)' BY <2>6, <2>7, <2>9, <2>10 DEF StartsAt
    <2>q. QED BY <2>1, <2>2, <2>11
  <1>17. CASE s = tailSec /\ avail = 0
    <2>0. v = HeadLen BY <1>7, <1>17
    <2>1. PICK off : off = HeadLen + (IF Done = 0 THEN 0 ELSE Left) OBVIOUS
    <2>2. At(s, 0)' = <<SectionHead(tailCount - Age(s), off), 1>>
      <3>1. out[1] = <<SectionHead(tailCount, off), 1>> BY <1>h, <1>1, <1>17, <2>1 DEF HeaderAhead
      <3>2. At(s, 0)' = out[1] BY <1>6, <1>17
      <3>3. Age(s) = 0 BY <1>17, Ages DEF IInv
      <3>4. tailCount \in Nat BY DEF IInv, TypeOK
      <3>5. tailCount - Age(s) = tailCount BY <3>3, <3>4
      <3>q. QED BY <3>1, <3>2, <3>5
    <2>3. (n = 0 => off = HeadLen) /\ (n # 0 => off = HeadLen + l)
      <3>1. Done = n BY <1>6
      <3>2. n = 0 => off = HeadLen + 0 BY <2>1, <3>1
      <3>3. n # 0 => off = HeadLen + l BY <2>1, <3>1, <1>9
      <3>q. QED BY <1>2, <3>2, <3>3
    <2>4. off \in HeadLen .. SectionSize - 1 /\ off \in Nat
      <3>1. CASE n = 0 BY <1>2, <2>3, <3>1
      <3>2. CASE n # 0
        <4>1. l <= Payload - 1 BY <1>1, <1>2, <1>9, <3>2
        <4>q. QED BY <1>2, <1>9, <2>3, <3>2, <4>1
      <3>q. QED BY <3>1, <3>2
    <2>5. \A q \in HeadLen .. SectionSize - 1 : Has(s, q)' => v <= q /\ q < v + d
      <3>1. \A q \in HeadLen .. SectionSize - 1 : ~Has(s, q) BY <1>1, <1>2, <1>6, <1>17, <2>0
      <3>q. QED BY <1>5, <3>1
    <2>6. ASSUME NEW o \in HeadLen .. off - 1, Has(s, o)' PROVE Mid(s, o)'
      <3>1. o \in HeadLen .. SectionSize - 1 BY <1>2, <2>4
      <3>2. v <= o /\ o < v + d BY <2>5, <2>6, <3>1
      <3>3. n # 0 BY <1>1, <1>2, <2>0, <2>3, <2>4, <3>2
      <3>q. QED BY <1>13, <1>17, <3>1, <3>2, <3>3
    <2>7. Has(s, off)' => ~Mid(s, off)'
      <3>1. ASSUME Has(s, off)' PROVE ~Mid(s, off)'
        <4>1. v <= off /\ off < v + d BY <2>4, <2>5, <3>1
        <4>2. n = 0 /\ off = v BY <1>1, <1>2, <1>9, <2>0, <2>3, <4>1
        <4>q. QED BY <1>13, <1>17, <2>4, <4>1, <4>2
      <3>q. QED BY <3>1
    <2>8. off >= avail' => off = avail' + (IF Under THEN Left ELSE 0)'
      <3>1. CASE n = 0
        <4>1. off >= a => off = a /\ d = 0 BY <1>1, <1>2, <1>8, <2>0, <2>3, <2>4, <3>1
        <4>2. off >= a => ~Under' BY <1>1, <1>3, <3>1, <4>1
        <4>3. off >= a => off = a + 0 BY <1>8, <4>1
        <4>q. QED BY <1>8, <4>2, <4>3
      <3>2. CASE n # 0
        <4>1. off = a + r BY <1>1, <1>2, <1>8, <1>9, <1>10, <2>0, <2>3, <3>2
        <4>2. Under' BY <1>1, <1>3, <3>2
        <4>q. QED BY <1>8, <1>10, <4>1, <4>2
      <3>q. QED BY <3>1, <3>2
    <2>9. off > HeadLen => Straddles(s, off)'
      <3> SUFFICES ASSUME off > HeadLen PROVE Straddles(s, off)' OBVIOUS
      <3>1. n # 0 BY <1>2, <2>3
      <3>2. /\ entry.section # tailSec /\ NextSection(entry.section) = tailSec
            /\ entry.offset + n = SectionSize
        BY <1>h, <2>0, <3>1, LastUnit
      <3>3. entry.offset >= HeadLen BY <1>h, <1>1 DEF HeaderAhead
      <3>4. PICK c \in Nat : c = NodeLen(entry.node) BY <1>1
      <3>5. PICK eo \in Nat : eo = entry.offset BY <1>1, <1>2
      <3>6. eo + c >= SectionSize /\ eo + c - SectionSize + HeadLen = off
        BY <1>1, <1>2, <1>9, <2>3, <3>1, <3>2, <3>4, <3>5
      <3>7. SectionOffset(entry.section, entry.offset, NodeLen(entry.node)) = [section |-> s, offset |-> off]
        BY <1>17, <3>2, <3>4, <3>5, <3>6 DEF SectionOffset
      <3>8. Under' /\ entry = entry' BY <1>1, <1>3, <1>6, <3>1
      <3>q. QED BY <1>1, <1>17, <3>2, <3>3, <3>7, <3>8 DEF Straddles
    <2>10. StartsAt(s, off)' BY <2>6, <2>7, <2>8, <2>9 DEF StartsAt
    <2>q. QED BY <2>2, <2>4, <2>10
  <1>q. QED BY <1>15, <1>16, <1>17

\* Units are appended: the log keeps its shape.
LEMMA AppendShape ==
  ASSUME IInv, LInv, Shape, NEW n, NEW v, NEW d, Appends(n, v, d)
  PROVE  Shape'
  <1>h. HeaderAhead /\ Counted BY DEF Shape
  <1>1. Kinds' /\ Follows' /\ Padded' /\ PagesUsed' BY AppendUnits
  <1>2. Begins' /\ Headed' BY AppendBegins, AppendHeaded
  <1>3. /\ UNCHANGED <<tailCount, headSec, entry, unread>> /\ ~starting' /\ avail' \in Nat /\ avail' = v + d
        /\ Done' = n + d /\ (avail # 0 => d # 0) /\ (avail = 0 => v = HeadLen)
        /\ \A s : Age(s)' = Age(s)
    BY DEF Appends
  <1>4. n \in Nat /\ v \in Nat /\ d \in Nat /\ HeadLen \in Nat \ {0} /\ HeadLen <= v /\ pc = "emit"
    BY AppendNumbers
  <1>5. Counted' BY <1>h, <1>3 DEF Counted
  <1>6. HeaderAhead'
    <2>1. PICK a \in Nat : avail' = a /\ a = v + d BY <1>3
    <2>2. avail' # 0 BY <1>4, <2>1
    <2>3. Done' = 0 => avail' = HeadLen
      <3>1. PICK x \in Nat : Done' = x /\ x = n + d BY <1>3, <1>4
      <3>2. x = 0 => d = 0 BY <1>4, <3>1
      <3>3. x = 0 => avail = 0 BY <1>3, <3>2
      <3>4. x = 0 => a = HeadLen BY <1>3, <1>4, <2>1, <3>2, <3>3
      <3>q. QED BY <2>1, <3>1, <3>4
    <2>4. entry.offset >= HeadLen /\ unread <= NodeLen(entry.node) - MetaLen(entry.node) BY <1>h, <1>4 DEF HeaderAhead
    <2>q. QED BY <1>3, <2>2, <2>3, <2>4 DEF HeaderAhead
  <1>q. QED BY <1>1, <1>2, <1>5, <1>6 DEF Shape

\* Every step of a call keeps the shape of the log.
LEMMA NextShape ==
  ASSUME IInv, TInv, LInv, Shape, Erasing, RoomLeft, NoWrap, Next
  PROVE  Shape'
  <1>1. CASE Call /\ ~Sync
    <2>1. /\ UNCHANGED <<logVars, headSec>> /\ pc = "idle" /\ pc' = "gc"
      <3>1. CASE \E p \in Parents, n \in Names, v \in Values : Write(p, n, v) BY <3>1 DEF Write, CanCall, Enter
      <3>2. CASE \E p \in Parents, n \in Names : DelRecord(p, n) BY <3>2 DEF DelRecord, CanCall, Enter
      <3>3. CASE \E p \in Parents, n \in Names : Mkdir(p, n) BY <3>3 DEF Mkdir, CanCall, Enter
      <3>4. CASE \E d \in DirIds, force \in BOOLEAN : DelDir(d, force) BY <3>4 DEF DelDir, CanCall, Enter
      <3>q. QED BY <1>1, <3>1, <3>2, <3>3, <3>4 DEF Call
    <2>q. QED BY <2>1, RestShape
  <1>2. CASE Sync
    <2>1. pc # "emit" /\ pc' # "emit" /\ WriteThrough /\ UNCHANGED <<tailSec, tailCount, headSec>>
      BY <1>2 DEF Sync, callVars
    <2>q. QED BY <2>1, WriteThroughShape
  <1>3. CASE CollectStart
    <2>1. UNCHANGED <<logVars, headSec>> /\ pc # "emit" /\ pc' # "emit" BY <1>3 DEF CollectStart
    <2>q. QED BY <2>1, RestShape
  <1>4. CASE NodeCopy BY <1>4, NodeCopyShape
  <1>5. CASE DataCopy BY <1>5, DataCopyShape
  <1>6. CASE NodeCopied
    <2>1. pc = "emit" /\ out = << >> /\ unread = 0 /\ pc' # "emit" /\ UNCHANGED <<logVars, headSec>>
      BY <1>6 DEF NodeCopied
    <2>q. QED BY <2>1, EndShape
  <1>7. CASE CollectSync
    <2>1. pc # "emit" /\ pc' # "emit" /\ WriteThrough /\ UNCHANGED <<tailSec, tailCount, headSec>>
      BY <1>7 DEF CollectSync
    <2>q. QED BY <2>1, WriteThroughShape
  <1>8. CASE CollectErase BY <1>8, EraseShape
  <1>9. CASE EntryStart BY <1>9, EntryStartShape
  <1>10. CASE SectionHeadWrite BY <1>10, OpenShape
  <1>11. CASE NodeWrite
    <2>1. PICK n, v, d : Appends(n, v, d) BY <1>11, AppendFacts
    <2>q. QED BY <2>1, AppendShape
  <1>12. CASE EntryDone
    <2>1. pc = "emit" /\ out = << >> /\ pc' # "emit" /\ UNCHANGED <<logVars, headSec>> /\ ~copying
      <3>1. pc' # "emit" BY <1>12 DEF EntryDone, Enter
      <3>q. QED BY <1>12, <3>1 DEF EntryDone
    <2>2. unread = 0 BY <2>1 DEF LInv, Phases
    <2>q. QED BY <2>1, <2>2, EndShape
  <1>q. QED BY <1>1, <1>2, <1>3, <1>4, <1>5, <1>6, <1>7, <1>8, <1>9, <1>10, <1>11, <1>12 DEF Next, Call, Work

-----------------------------------------------------------------------------
(* The entries of the log. *)

\* What an entry of the log is.
LEMMA LogEntry ==
  ASSUME IInv, LInv, NEW e \in Log
  PROVE  /\ e \in Located /\ e.node \in Nodes /\ e.section \in Sections \ Ahead
         /\ e.offset \in HeadLen .. SectionSize - 1 /\ e.offset \in Nat
         /\ NodeLen(e.node) \in Nat \ {0} /\ NodeLen(e.node) <= Payload
         /\ Stored(e, e.node, NodeLen(e.node))
         /\ Has(e.section, e.offset) /\ At(e.section, e.offset) = <<e.node, 1>>
         /\ tailCount # 0
  <1>1. e \in Located /\ e.offset >= HeadLen /\ Stored(e, e.node, NodeLen(e.node)) BY DEF Log
  <1>2. e.node \in Nodes /\ e.section \in Sections /\ e.offset \in 0 .. SectionSize - 1 BY <1>1 DEF Located
  <1>3. HeadLen \in Nat \ {0} /\ SectionSize \in Nat BY Geometry
  <1>4. e.offset \in HeadLen .. SectionSize - 1 /\ e.offset \in Nat BY <1>1, <1>2, <1>3
  <1>5. NodeLen(e.node) \in Nat \ {0} /\ NodeLen(e.node) <= Payload BY <1>2, NodeFits
  <1>6. PICK c \in Nat \ {0} : c = NodeLen(e.node) BY <1>5
  <1>7. Laid(e.section, e.offset, c) /\ Holds(e.section, e.offset, e.node, c) BY <1>1, <1>6 DEF Stored
  <1>8. e.section \in Sections \ Ahead /\ (e.section = tailSec => e.offset + c <= avail) BY <1>7 DEF Laid
  <1>9. avail \in Nat BY DEF IInv, TypeOK
  <1>10. e.section = tailSec => e.offset < avail BY <1>4, <1>6, <1>8, <1>9
  <1>11. Has(e.section, e.offset) BY <1>4, <1>8, <1>10 DEF Has
  <1>12. 0 \in 0 .. c - 1 /\ 0 + 1 = 1 BY <1>6
  <1>13. AtPlace(SectionOffset(e.section, e.offset, 0)) = <<e.node, 1>> BY <1>7, <1>12 DEF Holds
  <1>14. SectionOffset(e.section, e.offset, 0) = [section |-> e.section, offset |-> e.offset]
    BY <1>2, <1>3 DEF SectionOffset
  <1>15. At(e.section, e.offset) = <<e.node, 1>> BY <1>13, <1>14 DEF AtPlace
  <1>16. tailCount # 0 BY <1>8, Ages DEF IInv
  <1>q. QED BY <1>1, <1>2, <1>4, <1>5, <1>8, <1>11, <1>15, <1>16

\* With an empty cache all of the log is in flash.
LEMMA AllInFlash ==
  ASSUME IInv, LInv, Base >= avail
  PROVE  FlashLog = Log
  <1> SUFFICES ASSUME NEW e \in Log PROVE InFlash(e) BY DEF FlashLog
  <1>1. e \in Log => tailCount # 0 /\ Stored(e, e.node, NodeLen(e.node)) BY LogEntry
  <1>2. avail \in Nat /\ avail <= SectionSize /\ Base \in Nat BY BaseIs DEF IInv
  <1> SUFFICES ASSUME NEW i \in 0 .. NodeLen(e.node) - 1,
                      SectionOffset(e.section, e.offset, i).section = tailSec,
                      SectionOffset(e.section, e.offset, i).offset >= Base
               PROVE  FALSE
    BY DEF InFlash
  <1>3. Laid(e.section, e.offset, NodeLen(e.node)) BY <1>1 DEF Stored
  <1>4. PICK p : p = SectionOffset(e.section, e.offset, i) OBVIOUS
  <1>5. Behind(p) BY <1>1, <1>2, <1>3, <1>4, LaidBehind DEF IInv
  <1>6. p.offset < avail /\ p.offset \in 0 .. SectionSize - 1 BY <1>4, <1>5 DEF Behind
  <1>7. p.offset >= Base BY <1>4
  <1>8. p.offset \in Nat BY <1>6, Geometry
  <1>q. QED BY <1>2, <1>6, <1>7, <1>8

\* data_write_through leaves the entries what they are, all of them in flash.
LEMMA LogClosed ==
  ASSUME IInv, IInv', LInv, LInv', Shape, pc # "emit", pc' # "emit", WriteThrough,
         UNCHANGED <<tailSec, tailCount, headSec>>
  PROVE  /\ Log' = Log /\ FlashLog' = Log
         /\ \A e, f : Before(e, f)' <=> Before(e, f)
  <1>1. /\ \A s, o : Has(s, o) => Has(s, o)'
        /\ \A s \in Sections, o \in 0 .. SectionSize - 1 :
             /\ At(s, o)' = At(s, o)
             /\ Has(s, o)' => Has(s, o) \/ At(s, o) = Erased
        /\ \A p, node, n : Stored(p, node, n) /\ tailCount # 0 => Stored(p, node, n)'
    BY WriteThroughShape
  <1>2. Log \subseteq Log'
    <2> SUFFICES ASSUME NEW e \in Log PROVE e \in Log' OBVIOUS
    <2>1. /\ e \in Located /\ e.offset \in HeadLen .. SectionSize - 1 /\ Stored(e, e.node, NodeLen(e.node))
          /\ tailCount # 0
      BY LogEntry
    <2>2. Stored(e, e.node, NodeLen(e.node))' BY <1>1, <2>1
    <2>3. e.offset >= HeadLen BY <2>1, Geometry
    <2>q. QED BY <2>1, <2>2, <2>3 DEF Log
  <1>3. Log' \subseteq Log
    <2> SUFFICES ASSUME NEW e \in Log' PROVE e \in Log OBVIOUS
    <2>1. e \in Located /\ e.offset >= HeadLen /\ Stored(e, e.node, NodeLen(e.node))' BY DEF Log
    <2>2. e.section \in Sections /\ e.offset \in 0 .. SectionSize - 1 /\ e.node \in Nodes BY <2>1 DEF Located
    <2>3. PICK c \in Nat \ {0} : c = NodeLen(e.node) /\ c <= Payload BY <2>2, NodeFits
    <2>4. PICK s, o, m : s = e.section /\ o = e.offset /\ m = e.node OBVIOUS
    <2>5. Laid(s, o, c)' /\ Holds(s, o, m, c)' BY <2>1, <2>3, <2>4 DEF Stored
    <2>6. tailCount # 0 /\ Ahead' = Ahead
      <3>1. Ahead' = Ahead BY DEF Ahead
      <3>2. s \in Sections \ Ahead BY <2>5, <3>1 DEF Laid
      <3>q. QED BY <3>1, <3>2, Ages DEF IInv
    <2>7. /\ avail \in Nat /\ avail <= SectionSize /\ SectionSize \in Nat /\ HeadLen \in Nat \ {0} /\ HeadLen < SectionSize
          /\ Payload = SectionSize - HeadLen
      BY Geometry, BaseIs DEF IInv, Payload
    <2>8. c - 1 \in 0 .. c - 1 /\ (c - 1) + 1 = c /\ c - 1 \in 0 .. Payload BY <2>3, <2>7
    <2>9. PICK p : p = SectionOffset(s, o, c - 1) OBVIOUS
    <2>10. AtPlace(p)' = <<m, c>> BY <2>5, <2>8, <2>9 DEF Holds
    <2>11. p.section \in Sections /\ p.offset \in 0 .. SectionSize - 1
      <3>1. PICK k \in Nat : k = c - 1 BY <2>8
      <3>2. k + 0 <= Payload /\ 0 \in Nat BY <2>3, <2>7, <3>1
      <3>q. QED BY <2>2, <2>4, <2>9, <3>1, <3>2, GoOn
    <2>12. At(p.section, p.offset) = <<m, c>> BY <1>1, <2>10, <2>11 DEF AtPlace
    <2>13. At(p.section, p.offset) # Erased BY <2>3, <2>12, UnitIs
    <2>14. o \in Nat /\ o >= HeadLen /\ o < SectionSize /\ s \in Sections /\ c \in Nat \ {0}
      BY <2>1, <2>2, <2>3, <2>4, <2>7
    <2>15. PICK a \in Nat : avail' = a /\ a <= SectionSize
      BY DEF IInv, TypeOK, CacheAligned
    <2>16. /\ s \in Sections \ Ahead /\ o \in 0 .. SectionSize - 1 /\ c \in 0 .. Payload
           /\ s = tailSec => o + c <= a
           /\ o + c > SectionSize /\ NextSection(s) = tailSec => o + c - SectionSize + HeadLen <= a
      BY <2>5, <2>6, <2>15 DEF Laid
    <2>17. \A q, r : Has(q, r)' <=> q \in Sections \ Ahead /\ r \in HeadLen .. SectionSize - 1 /\ (q = tailSec => r < a)
      BY <2>6, <2>15 DEF Has
    <2>21. ASSUME Laid(s, o, c) PROVE e \in Log
      <3>1. \A q \in Sections \ Ahead, r \in 0 .. SectionSize - 1 :
              (q = tailSec => r < avail) /\ (q = headSec => s = headSec) => At(q, r)' = At(q, r)
        BY <1>1
      <3>2. Stored(e, m, c)' BY <2>1, <2>3, <2>4
      <3>3. Laid(e.section, e.offset, c) BY <2>4, <2>21
      <3>4. Stored(e, m, c) BY <2>4, <2>6, <2>7, <3>1, <3>2, <3>3, StoredBack DEF IInv
      <3>q. QED BY <2>1, <2>3, <2>4, <3>4 DEF Log
    <2>18. \A q, r : Has(q, r) => (q = tailSec => r < avail) BY DEF Has
    <2>19. CASE o + (c - 1) < SectionSize
      <3>1. p.section = s /\ p.offset = o + (c - 1) BY <2>7, <2>9, <2>14, <2>19 DEF SectionOffset
      <3>2. p.offset \in HeadLen .. SectionSize - 1 /\ (s = tailSec => p.offset < a)
        BY <2>7, <2>14, <2>15, <2>16, <2>19, <3>1
      <3>3. Has(s, p.offset)' BY <2>16, <2>17, <3>2
      <3>4. Has(s, p.offset) BY <1>1, <2>11, <2>13, <3>1, <3>3
      <3>5. s = tailSec => o + c <= avail BY <2>7, <2>14, <2>18, <3>1, <3>4
      <3>6. ~(o + c > SectionSize) BY <2>7, <2>14, <2>19
      <3>7. Laid(s, o, c) BY <2>16, <3>5, <3>6 DEF Laid
      <3>q. QED BY <3>7, <2>21
    <2>20. CASE ~(o + (c - 1) < SectionSize)
      <3>1. p.section = NextSection(s) /\ p.offset = o + (c - 1) - SectionSize + HeadLen
        BY <2>7, <2>9, <2>14, <2>20 DEF SectionOffset
      <3>2. s # tailSec BY <2>7, <2>14, <2>15, <2>16, <2>20
      <3>3. NextSection(s) \in Sections \ Ahead BY <2>16, <3>2, LogSections DEF IInv
      <3>4. p.offset \in HeadLen .. SectionSize - 1 BY <2>7, <2>14, <2>16, <2>20, <3>1
      <3>5. NextSection(s) = tailSec => p.offset < a BY <2>7, <2>14, <2>15, <2>16, <2>20, <3>1
      <3>6. Has(p.section, p.offset)' BY <2>17, <3>1, <3>3, <3>4, <3>5
      <3>7. Has(p.section, p.offset) BY <1>1, <2>11, <2>13, <3>6
      <3>8. NextSection(s) = tailSec => o + c - SectionSize + HeadLen <= avail
        BY <2>7, <2>14, <2>18, <3>1, <3>7
      <3>9. Laid(s, o, c) BY <2>16, <3>2, <3>8 DEF Laid
      <3>q. QED BY <3>9, <2>21
    <2>q. QED BY <2>19, <2>20
  <1>4. Log' = Log BY <1>2, <1>3
  <1>5. \A e, f : Before(e, f)' <=> Before(e, f) BY DEF Before, Age
  <1>6. FlashLog' = Log'
    <2> SUFFICES ASSUME NEW e \in Log' PROVE InFlash(e)' BY DEF FlashLog
    <2>1. e \in Log BY <1>4
    <2>2. /\ e.section \in Sections /\ e.offset \in 0 .. SectionSize - 1 /\ NodeLen(e.node) \in Nat \ {0}
          /\ NodeLen(e.node) <= Payload /\ tailCount # 0 /\ Stored(e, e.node, NodeLen(e.node))
      BY <2>1, LogEntry, Geometry
    <2>3. avail \in Nat /\ avail <= SectionSize BY BaseIs DEF IInv
    <2>4. avail' \in Nat /\ avail <= avail' /\ Base' = avail' BY PageClosed DEF IInv
    <2>5. ASSUME NEW i \in 0 .. NodeLen(e.node) - 1
          PROVE  ~(/\ SectionOffset(e.section, e.offset, i).section = tailSec
                   /\ SectionOffset(e.section, e.offset, i).offset >= Base')
      <3>1. PICK p : p = SectionOffset(e.section, e.offset, i) OBVIOUS
      <3>2. Behind(p) BY <2>2, <2>3, <3>1, LaidBehind DEF IInv, Stored
      <3>3. p.section = tailSec => p.offset < avail /\ p.offset \in 0 .. SectionSize - 1 BY <3>2 DEF Behind
      <3>4. PICK a \in Nat : avail' = a /\ avail <= a /\ Base' = a BY <2>4
      <3>5. p.section = tailSec => ~(p.offset >= a) BY <2>3, <3>3, <3>4, Geometry
      <3>q. QED BY <3>1, <3>4, <3>5
    <2>q. QED BY <2>5 DEF InFlash
  <1>q. QED BY <1>4, <1>5, <1>6

\* Opening a section leaves the entries what they are.
LEMMA LogOpened ==
  ASSUME IInv, LInv, RoomLeft, NoWrap, SectionHeadWrite
  PROVE  /\ Log' = Log /\ FlashLog \subseteq FlashLog'
         /\ \A e, f \in Log : Before(e, f)' <=> Before(e, f)
  <1>1. /\ tailSec' \in Ahead /\ tailSec' \in Sections /\ avail = SectionSize
        /\ \A s \in Sections : s # tailSec' => Age(s)' = Age(s) + 1 /\ Age(s) \in Nat
        /\ \A p, node, n : Stored(p, node, n) => Stored(p, node, n)'
        /\ \A p, node, n : n # 0 /\ Stored(p, node, n)' => Stored(p, node, n)
    BY OpenFacts
  <1>2. Log' = Log
    <2>1. \A e \in Located : NodeLen(e.node) # 0 BY NodeFits DEF Located
    <2>q. QED BY <1>1, <2>1 DEF Log
  <1>3. \A e \in Log : e.section # tailSec' /\ e.section \in Sections BY <1>1, LogEntry
  <1>4. ASSUME NEW e \in Log, NEW f \in Log PROVE Before(e, f)' <=> Before(e, f)
    <2>1. PICK a \in Nat, b \in Nat : Age(e.section) = a /\ Age(f.section) = b BY <1>1, <1>3
    <2>2. Age(e.section)' = a + 1 /\ Age(f.section)' = b + 1 BY <1>1, <1>3, <2>1
    <2>3. a + 1 > b + 1 <=> a > b OBVIOUS
    <2>q. QED BY <2>1, <2>2, <2>3 DEF Before
  <1>5. ASSUME NEW e \in FlashLog PROVE e \in FlashLog'
    <2>1. e \in Log BY DEF FlashLog
    <2>2. /\ e.section \in Sections /\ e.offset \in 0 .. SectionSize - 1 /\ NodeLen(e.node) \in Nat \ {0}
          /\ NodeLen(e.node) <= Payload /\ tailCount # 0 /\ Stored(e, e.node, NodeLen(e.node))
      BY <2>1, LogEntry, Geometry
    <2>3. avail <= SectionSize BY DEF IInv, CacheAligned
    <2>4. ASSUME NEW i \in 0 .. NodeLen(e.node) - 1
          PROVE  SectionOffset(e.section, e.offset, i).section # tailSec'
      <3>1. Behind(SectionOffset(e.section, e.offset, i)) BY <2>2, <2>3, LaidBehind DEF IInv, Stored
      <3>q. QED BY <1>1, <3>1 DEF Behind
    <2>5. InFlash(e)' BY <2>4 DEF InFlash
    <2>q. QED BY <1>2, <2>1, <2>5 DEF FlashLog
  <1>q. QED BY <1>2, <1>4, <1>5

\* What is appended may complete the entry under way, the last one of the log.
LEMMA LogAppended ==
  ASSUME IInv, IInv', LInv, LInv', Shape, Shape', RoomLeft', EntryLast,
         NEW n, NEW v, NEW d, Appends(n, v, d)
  PROVE  /\ Log \subseteq Log' /\ Log' \subseteq Log \cup {entry} /\ FlashLog \subseteq FlashLog'
         /\ \A e, f : Before(e, f)' <=> Before(e, f)
         /\ EntryLast'
         /\ \A e \in Log' : e # entry => Before(e, entry)
  <1>1. /\ n \in Nat /\ v \in Nat /\ d \in Nat /\ avail \in Nat /\ avail < SectionSize /\ avail <= v
        /\ HeadLen <= v /\ v < SectionSize /\ v + d <= SectionSize
        /\ entry \in Located /\ entry.node \in Nodes /\ entry.section \in Sections /\ entry.offset \in 0 .. SectionSize - 1
        /\ NodeLen(entry.node) \in Nat \ {0} /\ NodeLen(entry.node) <= Payload /\ n + d <= NodeLen(entry.node)
        /\ tailSec \in Sections /\ pc = "emit"
        /\ HeadLen \in Nat \ {0} /\ SectionSize \in Nat /\ HeadLen < SectionSize /\ Payload = SectionSize - HeadLen
        /\ Under <=> n # 0
        /\ Under' <=> n + d # 0
    BY AppendNumbers
  <1>2. /\ UNCHANGED <<tailSec, tailCount, headSec, entry>>
        /\ Base <= Base' /\ Base' \in Nat
        /\ SectionOffset(entry.section, entry.offset, n) = [section |-> tailSec, offset |-> v]
        /\ \A s \in Sections, o \in HeadLen .. SectionSize - 1 :
             At(s, o)' = IF s = tailSec /\ v <= o /\ o < v + d
                         THEN <<entry.node, n + (o - v) + 1>> ELSE At(s, o)
        /\ Ahead' = Ahead
        /\ \A s : Age(s)' = Age(s)
        /\ \A s, o : Has(s, o)' <=> Has(s, o) \/ (s = tailSec /\ v <= o /\ o < v + d /\ o \in Nat)
        /\ \A o : Has(tailSec, o) => o < v
        /\ \A p, node, c : Stored(p, node, c) => Stored(p, node, c)'
    BY DEF Appends
  <1>3. \A e, f : Before(e, f)' <=> Before(e, f) BY <1>2 DEF Before
  <1>4. Log \subseteq Log' BY <1>2 DEF Log
  <1>5. FlashLog \subseteq FlashLog'
    <2> SUFFICES ASSUME NEW e \in FlashLog PROVE e \in FlashLog' OBVIOUS
    <2>1. e \in Log /\ InFlash(e) BY DEF FlashLog
    <2>2. PICK b \in Nat : Base' = b /\ Base <= b BY <1>2
    <2>3. Base \in Nat BY BaseIs DEF IInv
    <2>4. e.section \in Sections /\ e.offset \in 0 .. SectionSize - 1 /\ NodeLen(e.node) \in Nat /\ NodeLen(e.node) <= Payload
      BY <2>1, LogEntry, Geometry
    <2>5. ASSUME NEW i \in 0 .. NodeLen(e.node) - 1
          PROVE  ~(/\ SectionOffset(e.section, e.offset, i).section = tailSec'
                   /\ SectionOffset(e.section, e.offset, i).offset >= Base')
      <3>1. PICK x : x = SectionOffset(e.section, e.offset, i).offset OBVIOUS
      <3>2. PICK c \in Nat, j \in Nat : c = NodeLen(e.node) /\ j = i /\ j + 0 <= Payload
        <4>1. PICK c \in Nat : c = NodeLen(e.node) /\ c <= Payload BY <2>4
        <4>2. i \in 0 .. c - 1 BY <4>1
        <4>3. i \in Nat /\ i + 0 <= Payload BY <1>1, <4>1, <4>2
        <4>q. QED BY <4>1, <4>3
      <3>3. x \in 0 .. SectionSize - 1 BY <2>4, <3>1, <3>2, GoOn
      <3>4. x >= b => x >= Base BY <1>1, <2>2, <2>3, <3>3
      <3>5. ~(SectionOffset(e.section, e.offset, i).section = tailSec /\ x >= Base) BY <2>1, <3>1 DEF InFlash
      <3>q. QED BY <1>2, <2>2, <3>1, <3>4, <3>5
    <2>6. InFlash(e)' BY <2>5 DEF InFlash
    <2>q. QED BY <1>4, <2>1, <2>6 DEF FlashLog
  <1>6. ASSUME NEW e \in Log', e # entry PROVE e \in Log
    <2>1. e \in Located /\ e.offset >= HeadLen /\ Stored(e, e.node, NodeLen(e.node))' BY DEF Log
    <2>2. /\ e.node \in Nodes /\ e.section \in Sections /\ e.offset \in HeadLen .. SectionSize - 1
          /\ e.offset \in 0 .. SectionSize - 1 /\ e.offset \in Nat
      BY <1>1, <2>1 DEF Located
    <2>3. PICK c \in Nat \ {0} : c = NodeLen(e.node) /\ c <= Payload BY <2>2, NodeFits
    <2>4. PICK s, o, m : s = e.section /\ o = e.offset /\ m = e.node OBVIOUS
    <2>5. Laid(s, o, c)' /\ Holds(s, o, m, c)' BY <2>1, <2>3, <2>4 DEF Stored
    <2>6. \A i \in 0 .. c - 1 : /\ SectionOffset(s, o, i).section \in Sections
                                /\ SectionOffset(s, o, i).offset \in HeadLen .. SectionSize - 1
      <3> SUFFICES ASSUME NEW i \in 0 .. c - 1
                   PROVE  /\ SectionOffset(s, o, i).section \in Sections
                          /\ SectionOffset(s, o, i).offset \in HeadLen .. SectionSize - 1
        OBVIOUS
      <3>1. i \in Nat /\ i < c BY <2>3
      <3>2. CASE o + i < SectionSize
        <4>1. SectionOffset(s, o, i) = [section |-> s, offset |-> o + i] BY <1>1, <2>2, <2>4, <3>1, <3>2 DEF SectionOffset
        <4>2. o + i \in HeadLen .. SectionSize - 1 BY <1>1, <2>2, <2>4, <3>1, <3>2
        <4>q. QED BY <2>2, <2>4, <4>1, <4>2
      <3>3. CASE ~(o + i < SectionSize)
        <4>1. SectionOffset(s, o, i) = [section |-> NextSection(s), offset |-> o + i - SectionSize + HeadLen]
          BY <1>1, <2>2, <2>4, <3>1, <3>3 DEF SectionOffset
        <4>2. o + i - SectionSize + HeadLen \in HeadLen .. SectionSize - 1 BY <1>1, <2>2, <2>3, <2>4, <3>1, <3>3
        <4>3. NextSection(s) \in Sections BY <2>2, <2>4, NextSectionType
        <4>q. QED BY <4>1, <4>2, <4>3
      <3>q. QED BY <3>2, <3>3
    <2>7. ASSUME NEW i \in 0 .. c - 1, SectionOffset(s, o, i).section = tailSec,
                 v <= SectionOffset(s, o, i).offset, SectionOffset(s, o, i).offset < v + d
          PROVE  FALSE
      <3>1. PICK x \in HeadLen .. SectionSize - 1 : x = SectionOffset(s, o, i).offset BY <2>6
      <3>2. AtPlace(SectionOffset(s, o, i))' = <<m, i + 1>> BY <2>5 DEF Holds
      <3>3. PICK p : p = SectionOffset(s, o, i) OBVIOUS
      <3>4. At(p.section, p.offset)' = <<m, i + 1>> BY <3>2, <3>3 DEF AtPlace
      <3>5. p.section = tailSec /\ p.offset = x /\ v <= x /\ x < v + d BY <2>7, <3>1, <3>3
      <3>6. At(p.section, p.offset)' = <<entry.node, n + (x - v) + 1>> BY <1>1, <1>2, <3>5
      <3>7. m = entry.node /\ i + 1 = n + (x - v) + 1 BY <3>4, <3>6, UnitIs
      <3>8. PICK y \in Nat : y = x - v BY <1>1, <3>5
      <3>9. i = n + y /\ i \in Nat /\ y < d /\ i <= Payload BY <1>1, <2>3, <3>5, <3>7, <3>8
      <3>10. SectionOffset(entry.section, entry.offset, i) = SectionOffset(s, o, i)
        <4>1. n + y <= Payload BY <3>9
        <4>2. SectionOffset(entry.section, entry.offset, n + y) = SectionOffset(tailSec, v, y)
          BY <1>1, <1>2, <3>8, <4>1, GoOn
        <4>3. v + y = x /\ x < SectionSize BY <1>1, <3>5, <3>8
        <4>4. SectionOffset(tailSec, v, y) = [section |-> tailSec, offset |-> x] BY <1>1, <4>3 DEF SectionOffset
        <4>5. SectionOffset(s, o, i) = [section |-> tailSec, offset |-> x]
          <5>0. o \in 0 .. SectionSize /\ s \in Sections BY <1>1, <2>2, <2>4
          <5>1. p \in [section : Sections, offset : 0 .. SectionSize]
            BY <3>3, <3>9, <5>0, SectionOffsetType
          <5>q. QED BY <3>3, <3>5, <5>1
        <4>q. QED BY <3>9, <4>2, <4>4, <4>5
      <3>11. entry.offset \in HeadLen .. SectionSize - 1
        <4>1. entry.offset >= HeadLen BY <1>1 DEF Shape, HeaderAhead
        <4>q. QED BY <1>1, <4>1
      <3>12. i \in 0 .. Payload BY <1>1, <3>9
      <3>13. entry.section = s /\ entry.offset = o BY <1>1, <2>2, <2>4, <3>10, <3>11, <3>12, GoBack
      <3>14. e = entry
        <4>1. e.node = entry.node /\ e.section = entry.section /\ e.offset = entry.offset BY <2>4, <3>7, <3>13
        <4>2. e \in Located /\ entry \in Located BY <1>1, <2>1
        <4>q. QED BY <4>1, <4>2 DEF Located
      <3>q. QED BY <1>6, <3>14
    <2>8. \A i \in 0 .. c - 1 : AtPlace(SectionOffset(s, o, i)) = <<m, i + 1>>
      <3> SUFFICES ASSUME NEW i \in 0 .. c - 1 PROVE AtPlace(SectionOffset(s, o, i)) = <<m, i + 1>> OBVIOUS
      <3>1. AtPlace(SectionOffset(s, o, i))' = <<m, i + 1>> BY <2>5 DEF Holds
      <3>2. PICK q, x : q = SectionOffset(s, o, i).section /\ x = SectionOffset(s, o, i).offset OBVIOUS
      <3>3. At(q, x)' = <<m, i + 1>> BY <3>1, <3>2 DEF AtPlace
      <3>4. At(q, x)' = At(q, x) BY <1>2, <2>6, <2>7, <3>2
      <3>q. QED BY <3>2, <3>3, <3>4 DEF AtPlace
    <2>9. Holds(s, o, m, c) BY <2>8 DEF Holds
    <2>10. Laid(s, o, c)
      <3>0. c - 1 \in 0 .. c - 1 BY <2>3
      <3>1. /\ s \in Sections \ Ahead /\ o \in 0 .. SectionSize - 1 /\ c \in 0 .. Payload
            /\ s = tailSec => o + c <= avail'
            /\ o + c > SectionSize /\ NextSection(s) = tailSec => o + c - SectionSize + HeadLen <= avail'
        BY <1>2, <2>5 DEF Laid
      <3>a. avail' = v + d /\ (avail # 0 => v = avail /\ d # 0) /\ (avail = 0 => v = HeadLen) BY DEF Appends
      <3>2. avail' = v + d /\ (v = avail \/ (avail = 0 /\ v = HeadLen))
        <4>1. CASE avail = 0 BY <3>a, <4>1
        <4>2. CASE avail # 0 BY <3>a, <4>2
        <4>q. QED BY <4>1, <4>2
      <3>3. ~(/\ SectionOffset(s, o, c - 1).section = tailSec
              /\ v <= SectionOffset(s, o, c - 1).offset /\ SectionOffset(s, o, c - 1).offset < v + d)
        BY <2>7, <3>0
      <3>4. PICK k \in Nat : k = c - 1 BY <3>0, <2>3
      <3>5. o \in Nat /\ o >= HeadLen /\ o < SectionSize BY <1>1, <2>2, <2>4
      <3>6. PICK a \in Nat : a = v + d /\ avail' = a BY <1>1, <3>2
      <3>7. CASE o + k < SectionSize
        <4>1. SectionOffset(s, o, k) = [section |-> s, offset |-> o + k] BY <1>1, <3>4, <3>5, <3>7 DEF SectionOffset
        <4>2. s = tailSec => ~(v <= o + k /\ o + k < a) BY <3>3, <3>4, <3>6, <4>1
        <4>3. s = tailSec => o + k < v BY <1>1, <2>3, <3>1, <3>4, <3>5, <3>6, <4>2
        <4>4. s = tailSec => o + c <= avail BY <1>1, <2>3, <3>2, <3>4, <3>5, <4>3
        <4>5. ~(o + c > SectionSize) BY <1>1, <2>3, <3>4, <3>5, <3>7
        <4>q. QED BY <3>1, <4>4, <4>5 DEF Laid
      <3>8. CASE ~(o + k < SectionSize)
        <4>1. SectionOffset(s, o, k) = [section |-> NextSection(s), offset |-> o + k - SectionSize + HeadLen]
          BY <1>1, <3>4, <3>5, <3>8 DEF SectionOffset
        <4>2. s # tailSec BY <1>1, <2>3, <3>1, <3>4, <3>5, <3>6, <3>8
        <4>3. NextSection(s) = tailSec => ~(v <= o + k - SectionSize + HeadLen /\ o + k - SectionSize + HeadLen < a)
          BY <3>3, <3>4, <3>6, <4>1
        <4>4. NextSection(s) = tailSec => o + k - SectionSize + HeadLen < v
          BY <1>1, <2>3, <3>1, <3>4, <3>5, <3>6, <3>8, <4>3
        <4>5. NextSection(s) = tailSec => o + c - SectionSize + HeadLen <= avail
          BY <1>1, <2>3, <3>2, <3>4, <3>5, <3>8, <4>4
        <4>q. QED BY <3>1, <4>2, <4>5 DEF Laid
      <3>q. QED BY <3>7, <3>8
    <2>q. QED BY <2>1, <2>3, <2>4, <2>9, <2>10 DEF Log, Stored
  <1>7. ASSUME NEW e \in Log', e # entry PROVE Before(e, entry)
    <2>1. e \in Log BY <1>6, <1>7
    <2>2. CASE Under BY <2>1, <1>7, <2>2 DEF EntryLast
    <2>3. CASE ~Under
      <3>1. n = 0 BY <1>1, <2>3
      <3>2. SectionOffset(entry.section, entry.offset, 0) = [section |-> entry.section, offset |-> entry.offset]
        BY <1>1 DEF SectionOffset
      <3>3. entry.section = tailSec /\ entry.offset = v BY <1>2, <3>1, <3>2
      <3>4. Has(e.section, e.offset) /\ e.section \in Sections BY <2>1, LogEntry
      <3>5. CASE e.section = tailSec
        <4>1. e.offset < v BY <1>2, <3>4, <3>5
        <4>q. QED BY <3>3, <3>5, <4>1 DEF Before
      <3>6. CASE e.section # tailSec
        <4>1. Age(tailSec) = 0 /\ Age(e.section) > 0 BY <3>4, <3>6, Ages DEF IInv
        <4>q. QED BY <3>3, <4>1 DEF Before
      <3>q. QED BY <3>5, <3>6
    <2>q. QED BY <2>2, <2>3
  <1>8. EntryLast' BY <1>2, <1>3, <1>7 DEF EntryLast
  <1>q. QED BY <1>3, <1>4, <1>5, <1>6, <1>7, <1>8

\* Erasing the head section takes its entries out of the log.
LEMMA LogErased ==
  ASSUME IInv, IInv', LInv, LInv', Erasing, CollectErase
  PROVE  /\ Log' = {e \in Log : e.section # headSec} /\ FlashLog' = Log'
         /\ \A e, f : Before(e, f)' <=> Before(e, f)
         /\ \A e, f \in Log : e.section # headSec /\ Before(e, f) => f.section # headSec
  <1>1. /\ pc = "erase" /\ UNCHANGED <<buf, avail, tailSec, tailCount>>
        /\ headSec # tailSec /\ tailCount # 0 /\ headSec \in Sections \ Ahead
        /\ \A s : Age(s)' = Age(s)
        /\ \A p, node, n : Stored(p, node, n)' <=> Stored(p, node, n) /\ p.section # headSec
    BY EraseFacts
  <1>2. Log' = {e \in Log : e.section # headSec} BY <1>1 DEF Log
  <1>3. \A e, f : Before(e, f)' <=> Before(e, f) BY <1>1 DEF Before
  <1>4. FlashLog = Log
    <2>1. buf = << >> BY <1>1 DEF Erasing
    <2>2. avail \in Nat BY DEF IInv, TypeOK
    <2>3. Base >= avail BY <2>1, <2>2 DEF Base
    <2>q. QED BY <2>3, AllInFlash
  <1>5. FlashLog' = Log'
    <2>1. \A e \in Log' : InFlash(e) BY <1>2, <1>4 DEF FlashLog
    <2>2. \A e : InFlash(e)' <=> InFlash(e) BY <1>1 DEF InFlash, Base
    <2>q. QED BY <2>1, <2>2 DEF FlashLog
  <1>6. ASSUME NEW e \in Log, NEW f \in Log, e.section # headSec, Before(e, f) PROVE f.section # headSec
    <2>1. e.section \in Sections \ Ahead /\ f.section \in Sections \ Ahead BY LogEntry
    <2>2. Age(e.section) <= Age(headSec) /\ Age(e.section) # Age(headSec) /\ Age(e.section) \in Nat /\ Age(headSec) \in Nat
      BY <1>1, <1>6, <2>1, Ages DEF IInv
    <2>3. Age(e.section) > Age(f.section) \/ e.section = f.section BY <1>6 DEF Before
    <2>4. f.section = headSec => FALSE BY <1>6, <2>2, <2>3
    <2>q. QED BY <2>4
  <1>q. QED BY <1>2, <1>3, <1>5, <1>6

-----------------------------------------------------------------------------
(* What the log says. *)

\* The order of the entries.
LEMMA BeforeOrder ==
  ASSUME TypeOK, NEW e, NEW f, e.section \in Sections, f.section \in Sections, e.offset \in Nat, f.offset \in Nat
  PROVE  /\ ~Before(e, e)
         /\ Before(e, f) => ~Before(f, e)
         /\ Before(e, f) \/ Before(f, e) \/ (e.section = f.section /\ e.offset = f.offset)
  <1>1. PICK a \in Nat, b \in Nat : Age(e.section) = a /\ Age(f.section) = b BY Ages
  <1>2. a = b => e.section = f.section BY <1>1, Ages
  <1>q. QED BY <1>1, <1>2 DEF Before

\* Entries of which the order does not change.
LEMMA SurvSame ==
  ASSUME NEW L, \A e, f \in L : Before(e, f)' <=> Before(e, f)
  PROVE  Surv(L)' = Surv(L) /\ Remains(L)' = Remains(L)
  <1>1. Surv(L)' = Surv(L) BY DEF Surv
  <1>2. Remains(L)' = {e.node : e \in Surv(L)'} BY DEF Remains
  <1>3. Remains(L) = {e.node : e \in Surv(L)} BY DEF Remains
  <1>q. QED BY <1>1, <1>2, <1>3

\* One more entry behind all others.
LEMMA SurvAdded ==
  ASSUME NEW L, NEW x, \A e \in L : Before(e, x) /\ ~Before(x, e), ~Before(x, x)
  PROVE  /\ \A e : e \in Surv(L \cup {x}) <=> \/ e \in Surv(L) /\ ~Overrides(x.node, e.node)
                                              \/ e = x /\ Adds(x.node)
         /\ \A m : m \in Remains(L \cup {x}) <=> \/ m \in Remains(L) /\ ~Overrides(x.node, m)
                                                 \/ m = x.node /\ Adds(x.node)
  <1>1. ASSUME NEW e PROVE e \in Surv(L \cup {x}) <=> \/ e \in Surv(L) /\ ~Overrides(x.node, e.node)
                                                      \/ e = x /\ Adds(x.node)
    <2>1. CASE e \in L BY <2>1 DEF Surv
    <2>2. CASE e \notin L BY <2>2 DEF Surv
    <2>q. QED BY <2>1, <2>2
  <1>2. \A m : m \in Remains(L \cup {x}) <=> (m \in Remains(L) /\ ~Overrides(x.node, m)) \/ (m = x.node /\ Adds(x.node))
    BY <1>1 DEF Remains
  <1>q. QED BY <1>1, <1>2

\* What remains of entries are nodes of trees.
LEMMA RemainsType ==
  ASSUME NEW L \in SUBSET Located
  PROVE  Remains(L) \subseteq TreeNodes
  <1> SUFFICES ASSUME NEW e \in Surv(L) PROVE e.node \in TreeNodes BY DEF Remains
  <1>1. e \in Located /\ Adds(e.node) BY DEF Surv
  <1>q. QED BY <1>1, NodeKinds DEF Located, Adds, TreeNodes

\* The log without the entry under way.
LEMMA OlderIs ==
  /\ Older \subseteq Log /\ Log \subseteq Located
  /\ pc # "emit" => Older = Log
  /\ entry \notin Log => Older = Log
  /\ pc = "emit" => entry \notin Older
  BY DEF Older, Log

\* No step that only adds to what may come back takes anything from it.
LEMMA KeepBack ==
  ASSUME Recoverable, Log' = Log, FlashLog \subseteq FlashLog', kept \subseteq kept', risk \subseteq risk',
         \A e, f \in Log : Before(e, f)' <=> Before(e, f)
  PROVE  Recoverable'
  <1> SUFFICES ASSUME NEW Q \in SUBSET Log', FlashLog' \subseteq Q, Prefix(Q)' PROVE Back(Remains(Q))'
    BY DEF Recoverable
  <1>1. Q \subseteq Log /\ FlashLog \subseteq Q OBVIOUS
  <1>2. Prefix(Q) BY <1>1 DEF Prefix
  <1>3. Back(Remains(Q)) BY <1>1, <1>2 DEF Recoverable
  <1>4. Remains(Q)' = Remains(Q)
    <2>1. \A e, f \in Q : Before(e, f)' <=> Before(e, f) BY <1>1
    <2>q. QED BY <2>1, SurvSame
  <1>q. QED BY <1>3, <1>4 DEF Back

\* The whole log is one of the logs a reset may find.
LEMMA WholeBack ==
  ASSUME Recoverable
  PROVE  Back(Remains(Log))
  <1>1. FlashLog \subseteq Log /\ Prefix(Log) BY DEF FlashLog, Prefix
  <1>q. QED BY <1>1 DEF Recoverable

\* A step that leaves what the log says alone, and the call under way.
LEMMA QuietMeaning ==
  ASSUME Meaning, Log' = Log, FlashLog \subseteq FlashLog', Older' = Older,
         \A e, f \in Log : Before(e, f)' <=> Before(e, f),
         UNCHANGED <<list, todo, copying, dirIdMax, vol, kept, risk>>, copying => entry' = entry,
         EntryLast', Erasing', Resting',
         pc' = "emit" /\ ~copying => pc = "emit",
         pc' # "idle" => pc # "idle",
         pc = "emit" => copying \/ pc' = "emit"
  PROVE  Meaning'
  <1>1. Recoverable' BY KeepBack DEF Meaning
  <1>2. Surv(Older)' = Surv(Older) /\ Remains(Older)' = Remains(Older)
    <2>1. PICK L : L = Older OBVIOUS
    <2>2. \A e, f \in L : Before(e, f)' <=> Before(e, f) BY <2>1, OlderIs
    <2>3. Surv(L)' = Surv(L) /\ Remains(L)' = Remains(L) BY <2>2, SurvSame
    <2>q. QED BY <2>1, <2>3
  <1>3. Live' = Live /\ Tree' = Tree BY DEF Live, Tree, LiveNodes
  <1>4. \A m : Replaced(m)' <=> Replaced(m) BY DEF Replaced
  <1>5. LiveIs' BY <1>2, <1>3, <1>4 DEF Meaning, LiveIs
  <1>6. VolIs' BY <1>2, <1>3, <1>4 DEF Meaning, VolIs
  <1>7. KeptIs' BY DEF Meaning, KeptIs
  <1>8. OnlyRecords' BY DEF Meaning, OnlyRecords
  <1>q. QED BY <1>1, <1>5, <1>6, <1>7, <1>8 DEF Meaning

\* The cache is written to flash: what the log says is all that can come back.
LEMMA FlushMeaning ==
  ASSUME IInv, IInv', LInv, LInv', Shape, Meaning, pc # "emit", pc' # "emit",
         WriteThrough, UNCHANGED <<tailSec, tailCount, headSec, list, todo, copying, dirIdMax, vol>>,
         kept' = {vol}, risk' = risk \/ (pc = "idle" /\ risk' = {}), Erasing', Resting', pc' # "idle" => pc # "idle"
  PROVE  Meaning'
  <1>0. Recoverable /\ LiveIs /\ VolIs /\ KeptIs /\ OnlyRecords /\ Resting BY DEF Meaning
  <1>1. Log' = Log /\ FlashLog' = Log /\ \A e, f : Before(e, f)' <=> Before(e, f) BY LogClosed
  <1>2. Older = Log /\ Older' = Log BY <1>1, OlderIs DEF Older
  <1>3. ~copying BY RestFacts
  <1>4. PICK L : L = Log OBVIOUS
  <1>5. Surv(L)' = Surv(L) /\ Remains(L)' = Remains(L) BY <1>1, SurvSame
  <1>6. Live' = Live /\ Tree' = Tree
    <2>1. ~copying' BY <1>3
    <2>q. QED BY <1>3, <2>1 DEF Live, Tree, LiveNodes
  <1>7. \A m : Replaced(m)' <=> Replaced(m) BY DEF Replaced
  <1>8. \A m \in vol : Replaced(m) => Key(m) \in risk'
    <2>1. CASE risk' = risk BY <1>0, <2>1 DEF VolIs
    <2>2. CASE pc = "idle" BY <1>0, <2>2 DEF Resting, Replaced
    <2>q. QED BY <2>1, <2>2
  <1>9. /\ Tree = {m \in vol : ~Replaced(m)} /\ Tree \subseteq Remains(L) /\ Remains(L) \subseteq vol
    BY <1>0, <1>2, <1>4 DEF VolIs
  <1>10. Recoverable'
    <2> SUFFICES ASSUME NEW Q \in SUBSET Log', FlashLog' \subseteq Q PROVE Back(Remains(Q))'
      BY DEF Recoverable
    <2>1. Q = L BY <1>1, <1>4
    <2>2. Remains(Q)' = Remains(L) BY <1>5, <2>1
    <2>3. \A m \in vol \ Remains(L) : Key(m) \in risk' BY <1>8, <1>9
    <2>q. QED BY <1>9, <2>2, <2>3 DEF Back
  <1>11. LiveIs'
    <2>1. Live = {e \in Surv(L) : ~Replaced(e.node)} BY <1>0, <1>2, <1>3, <1>4 DEF LiveIs
    <2>2. Surv(Older)' = Surv(L) BY <1>2, <1>4, <1>5
    <2>q. QED BY <1>3, <1>6, <1>7, <2>1, <2>2 DEF LiveIs
  <1>12. VolIs'
    <2>1. Remains(Older)' = Remains(L) BY <1>2, <1>4, <1>5
    <2>q. QED BY <1>6, <1>7, <1>8, <1>9, <2>1 DEF VolIs
  <1>13. KeptIs' BY <1>0 DEF KeptIs
  <1>14. EntryLast' BY DEF EntryLast, Under
  <1>15. OnlyRecords' BY <1>0 DEF OnlyRecords
  <1>q. QED BY <1>10, <1>11, <1>12, <1>13, <1>14, <1>15 DEF Meaning

\* The head section is erased: nothing in it is live.
LEMMA EraseMeaning ==
  ASSUME IInv, IInv', TInv, LInv, LInv', Shape, Meaning, CollectErase, UNCHANGED <<vol, kept, risk>>
  PROVE  Meaning'
  <1>0. Recoverable /\ LiveIs /\ VolIs /\ KeptIs /\ OnlyRecords /\ Erasing BY DEF Meaning
  <1>1. /\ Log' = {e \in Log : e.section # headSec} /\ FlashLog' = Log'
        /\ \A e, f : Before(e, f)' <=> Before(e, f)
        /\ \A e, f \in Log : e.section # headSec /\ Before(e, f) => f.section # headSec
    BY <1>0, LogErased
  <1>2. /\ pc = "erase" /\ pc' = "gc" /\ UNCHANGED <<buf, list, todo, copying, entry, dirIdMax>> /\ list[headSec] = << >>
    BY EraseFacts DEF CollectErase, treeVars
  <1>3. Older = Log /\ Older' = Log' BY <1>2 DEF Older
  <1>4. ~copying BY <1>2, RestFacts
  <1>5. kept = {vol} BY <1>0, <1>2 DEF Erasing
  <1>6. Live' = Live /\ Tree' = Tree /\ Tree = LiveNodes
    <2>1. ~copying' BY <1>2, <1>4
    <2>q. QED BY <1>2, <1>4, <2>1 DEF Live, Tree, LiveNodes
  <1>7. \A m : Replaced(m)' <=> Replaced(m) BY <1>2 DEF Replaced
  <1>8. PICK L, M : L = Log /\ M = Log' OBVIOUS
  <1>9. Surv(M)' = Surv(M) /\ Remains(M)' = Remains(M) BY <1>1, SurvSame
  <1>10. Surv(M) = {e \in Surv(L) : e.section # headSec} BY <1>1, <1>8 DEF Surv
  <1>11. \A e \in Live : e.section # headSec
    <2>1. Placed BY DEF TInv, Lists
    <2>q. QED BY <1>2, <2>1, LivePlace
  <1>12. Live = {e \in Surv(L) : ~Replaced(e.node)} BY <1>0, <1>3, <1>4, <1>8 DEF LiveIs
  <1>13. Live = {e \in Surv(M) : ~Replaced(e.node)} BY <1>10, <1>11, <1>12
  <1>14. Tree \subseteq Remains(M) /\ Remains(M) \subseteq vol
    <2>1. Remains(L) \subseteq vol BY <1>0, <1>3, <1>8 DEF VolIs
    <2>2. Remains(M) \subseteq Remains(L) BY <1>10 DEF Remains
    <2>3. Tree \subseteq Remains(M) BY <1>6, <1>13 DEF Remains, LiveNodes
    <2>q. QED BY <2>1, <2>2, <2>3
  <1>15. Tree = {m \in vol : ~Replaced(m)} /\ \A m \in vol : Replaced(m) => Key(m) \in risk BY <1>0 DEF VolIs
  <1>16. Recoverable'
    <2> SUFFICES ASSUME NEW Q \in SUBSET Log', FlashLog' \subseteq Q PROVE Back(Remains(Q))'
      BY DEF Recoverable
    <2>1. Q = M BY <1>1, <1>8
    <2>2. Remains(Q)' = Remains(M) BY <1>9, <2>1
    <2>3. \A m \in vol \ Remains(M) : Key(m) \in risk BY <1>14, <1>15
    <2>q. QED BY <1>5, <1>14, <2>2, <2>3 DEF Back
  <1>17. LiveIs'
    <2>1. Surv(Older)' = Surv(M) BY <1>3, <1>8, <1>9
    <2>q. QED BY <1>2, <1>4, <1>6, <1>7, <1>13, <2>1 DEF LiveIs
  <1>18. VolIs'
    <2>1. Remains(Older)' = Remains(M) BY <1>3, <1>8, <1>9
    <2>q. QED BY <1>6, <1>7, <1>14, <1>15, <2>1 DEF VolIs
  <1>19. KeptIs' BY <1>0, <1>2 DEF KeptIs
  <1>20. EntryLast' /\ Erasing' /\ Resting' BY <1>2 DEF EntryLast, Under, Erasing, Resting
  <1>21. OnlyRecords' BY <1>0 DEF OnlyRecords
  <1>q. QED BY <1>16, <1>17, <1>18, <1>19, <1>20, <1>21 DEF Meaning

\* Between calls the store is what is live, and what the log says.
LEMMA IdleMeaning ==
  ASSUME IInv, LInv, Meaning, pc = "idle"
  PROVE  /\ todo = << >> /\ ~copying /\ Older = Log
         /\ Live = Surv(Log) /\ LiveNodes = vol /\ Tree = vol /\ Remains(Log) = vol
         /\ \A m : ~Replaced(m)
  <1>1. todo = << >> BY DEF Meaning, Resting
  <1>2. ~copying BY RestFacts
  <1>3. Older = Log BY DEF Older
  <1>4. \A m : ~Replaced(m) BY <1>1 DEF Replaced
  <1>5. Live = Surv(Log) BY <1>2, <1>3, <1>4 DEF Meaning, LiveIs
  <1>6. Tree = LiveNodes BY <1>2, IdleTree
  <1>7. Tree = vol /\ Remains(Older) = vol BY <1>4 DEF Meaning, VolIs
  <1>q. QED BY <1>1, <1>2, <1>3, <1>4, <1>5, <1>6, <1>7

\* A call is entered: what it replaces leaves the lists, and is at risk.
LEMMA CallMeaning ==
  ASSUME IInv, LInv, Meaning, pc = "idle", pc' = "gc", UNCHANGED <<logVars, headSec, entry, copying>>,
         UNCHANGED <<vol, kept>>, risk' = risk \cup {Key(m) : m \in LiveNodes \ LiveNodes'},
         \A e : e \in Live' <=> e \in Live /\ ~Replaced(e.node)',
         \A m \in LiveNodes \ LiveNodes' : IsRecord(m),
         dirIdMax \in Nat, dirIdMax' \in Nat, dirIdMax <= dirIdMax',
         IsDir(todo'[1]) => dirIdMax' > dirIdMax /\ todo'[1].id = dirIdMax'
  PROVE  Meaning'
  <1>0. Recoverable /\ LiveIs /\ VolIs /\ KeptIs /\ OnlyRecords BY DEF Meaning
  <1>1. /\ todo = << >> /\ ~copying /\ Older = Log
        /\ Live = Surv(Log) /\ LiveNodes = vol /\ Tree = vol /\ Remains(Log) = vol
    BY IdleMeaning
  <1>2. /\ Log' = Log /\ FlashLog' = FlashLog /\ \A e, f : Before(e, f)' <=> Before(e, f)
        /\ (\A L : Surv(L)' = Surv(L)) /\ (\A L : Remains(L)' = Remains(L))
    BY SameShape
  <1>3. Older' = Log BY <1>2 DEF Older
  <1>4. Surv(Older)' = Surv(Log) /\ Remains(Older)' = vol BY <1>1, <1>2, <1>3
  <1>5. Recoverable' BY <1>0, <1>2, KeepBack
  <1>6. LiveIs' BY <1>1, <1>4 DEF LiveIs
  <1>7. \A m : m \in LiveNodes' <=> m \in vol /\ ~Replaced(m)'
    <2>1. \A m : m \in LiveNodes <=> \E e \in Live : e.node = m BY DEF LiveNodes
    <2>2. \A m : m \in LiveNodes' <=> \E e \in Live' : e.node = m BY DEF LiveNodes
    <2>q. QED BY <1>1, <2>1, <2>2
  <1>8. Tree' = LiveNodes' BY <1>1 DEF Tree
  <1>9. VolIs'
    <2>1. Tree' = {m \in vol : ~Replaced(m)'} BY <1>7, <1>8
    <2>2. \A m \in vol : Replaced(m)' => Key(m) \in risk' BY <1>1, <1>7
    <2>q. QED BY <1>4, <1>7, <1>8, <2>1, <2>2 DEF VolIs
  <1>10. KeptIs'
    <2>1. \A store \in kept : \A m \in store : IsDir(m) => m.id <= dirIdMax /\ m.id \in Nat
      <3> SUFFICES ASSUME NEW store \in kept, NEW m \in store, IsDir(m) PROVE m.id <= dirIdMax /\ m.id \in Nat
        OBVIOUS
      <3>1. m \in TreeNodes /\ m.id <= dirIdMax BY <1>0 DEF KeptIs, Younger
      <3>2. m.id \in Nat BY <3>1, TreeNodeKinds, IdsAreNumbers
      <3>q. QED BY <3>1, <3>2
    <2>2. \A store \in kept : Younger(store, dirIdMax')
      <3>1. \A store \in kept : \A m \in store : IsDir(m) => m.parent < m.id BY <1>0 DEF KeptIs, Younger
      <3>2. \A store \in kept : \A m \in store : IsDir(m) => m.id <= dirIdMax' BY <2>1
      <3>q. QED BY <3>1, <3>2 DEF Younger
    <2>3. IsDir(todo'[1]) => \A store \in kept : \A m \in store : IsDir(m) => m.id # todo'[1].id
      BY <2>1
    <2>q. QED BY <1>0, <2>2, <2>3 DEF KeptIs
  <1>11. EntryLast' /\ Erasing' /\ Resting' BY DEF EntryLast, Under, Erasing, Resting
  <1>12. OnlyRecords' BY <1>0 DEF OnlyRecords, Key
  <1>q. QED BY <1>5, <1>6, <1>9, <1>10, <1>11, <1>12 DEF Meaning

\* What the history says of the steps that neither start, nor end, nor flush anything.
LEMMA QuietHistory ==
  ASSUME History, ~Entered, ~Begun, ~Flushed
  PROVE  /\ vol' = vol /\ kept' = kept /\ torn' = torn
         /\ ~(pc = "idle" /\ pc' = "gc") => risk' = risk
         /\ pc = "idle" /\ pc' = "gc" => risk' = risk \cup {Key(m) : m \in LiveNodes \ LiveNodes'}
  BY DEF History

\* tinyfs_write.
LEMMA WriteMeaning ==
  ASSUME IInv, TInv, LInv, Meaning, History, NEW p \in Parents, NEW n \in Names, NEW v \in Values, Write(p, n, v)
  PROVE  Meaning'
  <1>1. /\ pc = "idle" /\ pc' = "gc" /\ UNCHANGED <<logVars, headSec, entry, copying>> /\ dirIdMax' = dirIdMax
        /\ todo' = <<RecordAdd(p, n, v)>>
    BY DEF Write, CanCall, Enter, logVars
  <1>2. ~Entered /\ ~Begun /\ ~Flushed BY <1>1 DEF Entered, Begun, Flushed
  <1>3. vol' = vol /\ kept' = kept /\ risk' = risk \cup {Key(m) : m \in LiveNodes \ LiveNodes'}
    BY <1>1, <1>2, QuietHistory
  <1>4. \A m : Replaced(m)' <=> IsRecord(m) /\ m.parent = p /\ m.name = n
    BY <1>1 DEF Replaced, SameKey, RecordAdd, IsRecord, IsDir
  <1>5. /\ \A e : e \in Live' <=> e \in Live /\ ~Replaced(e.node)'
        /\ \A m \in LiveNodes \ LiveNodes' : IsRecord(m)
    <2>1. CASE Records(p, n) # {}
      <3>1. PICK r \in Records(p, n) : ListDel(r) BY <2>1 DEF Write
      <3>2. Live' = Live \ {r} BY <3>1, DelLists DEF Records, TInv, IInv
      <3>3. r \in Live /\ IsRecord(r.node) /\ r.node.parent = p /\ r.node.name = n BY DEF Records
      <3>4. \A e \in Live : IsRecord(e.node) /\ e.node.parent = p /\ e.node.name = n => e = r
        <4> SUFFICES ASSUME NEW e \in Live, IsRecord(e.node), e.node.parent = p, e.node.name = n PROVE e = r
          OBVIOUS
        <4>1. e.node \in Tree /\ r.node \in Tree BY <3>3 DEF Tree, LiveNodes
        <4>2. Clash(e.node, r.node) BY <3>3 DEF Clash, IsRecord
        <4>3. Unique(Tree) BY DEF TInv, Sound
        <4>4. e.node = r.node BY <4>1, <4>2, <4>3 DEF Unique
        <4>q. QED BY <3>3, <4>4 DEF TInv, Single
      <3>5. \A e : e \in Live' <=> e \in Live /\ ~Replaced(e.node)' BY <1>4, <3>2, <3>3, <3>4
      <3>6. \A m \in LiveNodes \ LiveNodes' : IsRecord(m)
        <4>1. \A m : m \in LiveNodes <=> \E e \in Live : e.node = m BY DEF LiveNodes
        <4>2. \A m : m \in LiveNodes' <=> \E e \in Live' : e.node = m BY DEF LiveNodes
        <4>q. QED BY <3>2, <3>3, <4>1, <4>2
      <3>q. QED BY <3>5, <3>6
    <2>2. CASE Records(p, n) = {}
      <3>1. Live' = Live BY <2>2 DEF Write, Live
      <3>2. LiveNodes' = LiveNodes BY <3>1 DEF LiveNodes
      <3>3. \A e \in Live : ~(IsRecord(e.node) /\ e.node.parent = p /\ e.node.name = n) BY <2>2 DEF Records
      <3>q. QED BY <1>4, <3>1, <3>2, <3>3
    <2>q. QED BY <2>1, <2>2
  <1>6. dirIdMax \in Nat BY IdsAreNumbers DEF IInv, TypeOK
  <1>7. ~IsDir(todo'[1]) BY <1>1 DEF RecordAdd, IsDir
  <1>q. QED BY <1>1, <1>3, <1>5, <1>6, <1>7, CallMeaning

\* A call that takes nothing off the lists.
LEMMA KeepMeaning ==
  ASSUME IInv, LInv, Meaning, History, pc = "idle", pc' = "gc", UNCHANGED <<logVars, headSec, entry, copying, list>>,
         dirIdMax' \in Parents, dirIdMax <= dirIdMax',
         ~IsRecord(todo'[1]), IsDir(todo'[1]) => dirIdMax' > dirIdMax /\ todo'[1].id = dirIdMax'
  PROVE  Meaning'
  <1>1. Live' = Live /\ LiveNodes' = LiveNodes BY DEF Live, LiveNodes
  <1>2. dirIdMax \in Nat /\ dirIdMax' \in Nat BY IdsAreNumbers DEF IInv, TypeOK
  <1>3. ~Entered /\ ~Begun /\ ~Flushed BY DEF Entered, Begun, Flushed
  <1>4. vol' = vol /\ kept' = kept /\ risk' = risk \cup {Key(m) : m \in LiveNodes \ LiveNodes'}
    BY <1>3, QuietHistory
  <1>5. \A e \in Live : ~Replaced(e.node)'
    <2> SUFFICES ASSUME NEW e \in Live, Replaced(e.node)' PROVE FALSE OBVIOUS
    <2>1. IsDir(todo'[1]) /\ IsDir(e.node) /\ todo'[1].id = e.node.id BY DEF Replaced, SameKey
    <2>2. e.node \in vol BY IdleMeaning DEF LiveNodes
    <2>3. vol \in kept /\ Younger(vol, dirIdMax) BY DEF Meaning, KeptIs
    <2>4. e.node.id <= dirIdMax BY <2>1, <2>2, <2>3 DEF Younger
    <2>5. PICK x \in Nat, y \in Nat : dirIdMax = x /\ dirIdMax' = y BY <1>2
    <2>6. y > x /\ e.node.id = y /\ e.node.id <= x BY <2>1, <2>4, <2>5
    <2>q. QED BY <2>5, <2>6
  <1>q. QED BY <1>1, <1>2, <1>4, <1>5, CallMeaning

\* Every call.
LEMMA CallsMeaning ==
  ASSUME IInv, IInv', TInv, LInv, LInv', Shape, Meaning, History, Call
  PROVE  Meaning'
  <1>1. ASSUME NEW p \in Parents, NEW n \in Names, NEW v \in Values, Write(p, n, v) PROVE Meaning'
    BY <1>1, WriteMeaning
  <1>2. ASSUME NEW p \in Parents, NEW n \in Names, DelRecord(p, n) PROVE Meaning'
    <2>1. /\ pc = "idle" /\ pc' = "gc" /\ UNCHANGED <<logVars, headSec, entry, copying, list>> /\ dirIdMax' = dirIdMax
          /\ todo' = <<RecordRemove(p, n)>>
      BY <1>2 DEF DelRecord, CanCall, Enter, logVars
    <2>2. ~IsRecord(todo'[1]) /\ ~IsDir(todo'[1]) BY <2>1 DEF RecordRemove, IsRecord, IsDir
    <2>3. dirIdMax' \in Parents /\ dirIdMax <= dirIdMax' BY <2>1, IdsAreNumbers DEF IInv, TypeOK
    <2>q. QED BY <2>1, <2>2, <2>3, KeepMeaning
  <1>3. ASSUME NEW p \in Parents, NEW n \in Names, Mkdir(p, n) PROVE Meaning'
    <2>1. /\ pc = "idle" /\ pc' = "gc" /\ UNCHANGED <<logVars, headSec, entry, copying, list>> /\ dirIdMax' = dirIdMax + 1
          /\ todo' = <<DirAdd(p, n, dirIdMax + 1)>>
      BY <1>3 DEF Mkdir, CanCall, Enter, logVars
    <2>2. ~IsRecord(todo'[1]) /\ todo'[1].id = dirIdMax' BY <2>1 DEF DirAdd, IsRecord
    <2>3. dirIdMax' \in Parents BY DEF IInv, TypeOK
    <2>4. dirIdMax \in Nat BY IdsAreNumbers DEF IInv, TypeOK
    <2>5. dirIdMax <= dirIdMax' /\ dirIdMax' > dirIdMax BY <2>1, <2>4
    <2>q. QED BY <2>1, <2>2, <2>3, <2>5, KeepMeaning
  <1>4. ASSUME NEW d \in DirIds, NEW force \in BOOLEAN, DelDir(d, force) PROVE Meaning'
    <2>1. /\ pc = "idle" /\ UNCHANGED <<logVars, headSec, entry, copying, list>> /\ dirIdMax' = dirIdMax
      BY <1>4 DEF DelDir, CanCall, logVars
    <2>2. PICK order \in RemovalOrders(IF force THEN Below(d) ELSE {}) :
            Enter(Append([i \in DOMAIN order |-> RemovalOf(order[i])], DirRemove(d)))
      BY <1>4 DEF DelDir
    <2>3. PICK k \in 0 .. NodeMax : order \in [1 .. k -> (IF force THEN Below(d) ELSE {})]
      BY <2>2 DEF RemovalOrders
    <2>4. k \in Nat BY BoundAssumption
    <2>5. DOMAIN order = 1 .. k BY <2>3
    <2>6. pc' = "gc" /\ todo' = Append([i \in 1 .. k |-> RemovalOf(order[i])], DirRemove(d))
      BY <2>2, <2>5 DEF Enter
    <2>7. \E x : todo'[1] = RemovalOf(x) \/ todo'[1] = DirRemove(d)
      <3> DEFINE f == [i \in 1 .. k |-> RemovalOf(order[i])]
      <3>1. f \in Seq({RemovalOf(order[i]) : i \in 1 .. k}) /\ Len(f) = k BY <2>4, SeqDef
      <3>2. Append(f, DirRemove(d))[1] = IF k >= 1 THEN f[1] ELSE DirRemove(d)
        <4> DEFINE S == {RemovalOf(order[i]) : i \in 1 .. k}
        <4>0. f \in Seq(S \cup {DirRemove(d)}) BY <2>4, SeqDef
        <4> HIDE DEF f, S
        <4>q. QED BY <3>1, <4>0, <2>4
      <3>3. k >= 1 => f[1] = RemovalOf(order[1]) BY <2>4
      <3>q. QED BY <2>6, <3>2, <3>3
    <2>8. ~IsRecord(todo'[1]) /\ ~IsDir(todo'[1]) BY <2>7 DEF RemovalOf, DirRemove, RecordRemove, IsRecord, IsDir
    <2>9. dirIdMax' \in Parents /\ dirIdMax <= dirIdMax' BY <2>1, IdsAreNumbers DEF IInv, TypeOK
    <2>q. QED BY <2>1, <2>6, <2>8, <2>9, KeepMeaning
  <1>5. ASSUME Sync PROVE Meaning'
    <2>1. /\ pc = "idle" /\ pc' = "idle" /\ WriteThrough
          /\ UNCHANGED <<tailSec, tailCount, headSec, list, todo, copying, dirIdMax, out>>
      BY <1>5 DEF Sync, treeVars, callVars
    <2>2. ~Entered /\ ~Begun BY <2>1 DEF Entered, Begun
    <2>3. Flushed BY <2>1 DEF Flushed, WriteThrough
    <2>4. vol' = vol /\ kept' = {vol} /\ risk' = {} BY <2>1, <2>2, <2>3 DEF History
    <2>5. Erasing' BY <2>1 DEF Erasing
    <2>6. Resting' BY <2>1 DEF Resting, Meaning
    <2>q. QED BY <2>1, <2>4, <2>5, <2>6, FlushMeaning
  <1>q. QED BY <1>1, <1>2, <1>3, <1>4, <1>5 DEF Call

\* garbage_collect_try starts a round; its copies reach flash; the head section is erased.
LEMMA CollectMeaning ==
  ASSUME IInv, IInv', TInv, LInv, LInv', Shape, Meaning, History, CollectStart \/ CollectSync \/ CollectErase
  PROVE  Meaning'
  <1>1. CASE CollectStart
    <2>1. /\ pc = "gc" /\ pc' = "copy" /\ UNCHANGED <<logVars, headSec, list, dirIdMax, todo, out, copying, entry>>
      BY <1>1 DEF CollectStart, treeVars
    <2>2. ~Entered /\ ~Begun /\ ~Flushed BY <2>1 DEF Entered, Begun, Flushed
    <2>3. vol' = vol /\ kept' = kept /\ risk' = risk BY <2>1, <2>2 DEF History
    <2>4. Log' = Log /\ FlashLog' = FlashLog /\ \A e, f : Before(e, f)' <=> Before(e, f) BY <2>1, SameShape
    <2>5. Older' = Older BY <2>1, <2>4 DEF Older
    <2>6. EntryLast' /\ Erasing' /\ Resting' BY <2>1 DEF EntryLast, Under, Erasing, Resting
    <2>q. QED BY <2>1, <2>3, <2>4, <2>5, <2>6, QuietMeaning
  <1>2. CASE CollectSync
    <2>1. /\ pc = "copy" /\ pc' = "erase" /\ WriteThrough
          /\ UNCHANGED <<tailSec, tailCount, headSec, list, todo, copying, dirIdMax, out>>
      BY <1>2 DEF CollectSync, treeVars
    <2>2. ~Entered /\ ~Begun BY <2>1 DEF Entered, Begun
    <2>3. Flushed /\ buf' = << >> BY <2>1 DEF Flushed, WriteThrough
    <2>4. vol' = vol /\ kept' = {vol} /\ risk' = risk BY <2>1, <2>2, <2>3 DEF History
    <2>5. Erasing' BY <2>3, <2>4 DEF Erasing
    <2>6. Resting' BY <2>1 DEF Resting
    <2>q. QED BY <2>1, <2>4, <2>5, <2>6, FlushMeaning
  <1>3. CASE CollectErase
    <2>1. pc = "erase" /\ pc' = "gc" BY <1>3 DEF CollectErase
    <2>2. ~Entered /\ ~Begun /\ ~Flushed BY <2>1 DEF Entered, Begun, Flushed
    <2>3. vol' = vol /\ kept' = kept /\ risk' = risk BY <2>1, <2>2 DEF History
    <2>q. QED BY <1>3, <2>3, EraseMeaning
  <1>q. QED BY <1>1, <1>2, <1>3

\* Data are read to be copied, or a section is opened.
LEMMA ThroughMeaning ==
  ASSUME IInv, TInv, LInv, Shape, Meaning, RoomLeft, NoWrap, History, DataCopy \/ SectionHeadWrite
  PROVE  Meaning'
  <1>1. CASE DataCopy
    <2>1. /\ pc = "emit" /\ pc' = "emit" /\ UNCHANGED <<logVars, headSec, list, dirIdMax, todo, copying, entry>>
          /\ unread > 0
      BY <1>1 DEF DataCopy, treeVars
    <2>2. ~Begun /\ ~Flushed BY <2>1 DEF Begun, Flushed
    <2>3. copying /\ ~Entered
      <3>1. unread \in Nat BY DEF IInv, TypeOK
      <3>2. copying BY <2>1, <3>1 DEF LInv, Phases
      <3>q. QED BY <3>2 DEF Entered
    <2>4. vol' = vol /\ kept' = kept /\ risk' = risk BY <2>1, <2>2, <2>3 DEF History
    <2>5. Log' = Log /\ FlashLog' = FlashLog /\ \A e, f : Before(e, f)' <=> Before(e, f) BY <2>1, SameShape
    <2>6. Older' = Older BY <2>1, <2>5 DEF Older
    <2>7. Under /\ Under' BY <1>1, DataCopyShape
    <2>8. EntryLast' BY <2>1, <2>5, <2>7 DEF EntryLast, Meaning
    <2>9. Erasing' /\ Resting' BY <2>1 DEF Erasing, Resting
    <2>q. QED BY <2>1, <2>3, <2>4, <2>5, <2>6, <2>8, <2>9, QuietMeaning
  <1>2. CASE SectionHeadWrite
    <2>1. /\ pc = "emit" /\ pc' = "emit" /\ UNCHANGED <<list, dirIdMax, todo, copying, entry>> /\ out # << >>
      BY <1>2 DEF SectionHeadWrite, treeVars
    <2>2. ~Begun /\ ~Flushed /\ ~Entered BY <2>1 DEF Begun, Flushed, Entered
    <2>4. vol' = vol /\ kept' = kept /\ risk' = risk BY <2>1, <2>2 DEF History
    <2>5. Log' = Log /\ FlashLog \subseteq FlashLog' /\ \A e, f \in Log : Before(e, f)' <=> Before(e, f)
      BY <1>2, LogOpened
    <2>6. Older' = Older BY <2>1, <2>5 DEF Older
    <2>7. Done' = Done BY <1>2, OpenFacts
    <2>8. EntryLast'
      <3> SUFFICES ASSUME Under', NEW e \in Log', e # entry PROVE Before(e, entry)'
        BY <2>1 DEF EntryLast
      <3>1. Under BY <2>1, <2>7 DEF Under
      <3>2. Before(e, entry) BY <2>5, <3>1 DEF Meaning, EntryLast
      <3>3. PICK s, t : s = entry.section /\ t = e.section OBVIOUS
      <3>4. Age(s)' = Age(s) + 1 /\ Age(s) \in Nat /\ Age(t)' = Age(t) + 1 /\ Age(t) \in Nat
        <4>0. \A x \in Sections : x # tailSec' => Age(x)' = Age(x) + 1 /\ Age(x) \in Nat BY <1>2, OpenFacts
        <4>1. tailSec' \in Ahead BY <1>2, OpenFacts
        <4>2. e.section \in Sections \ Ahead BY <2>5, LogEntry
        <4>3. entry.section \in Sections \ Ahead
          <5>1. Stored(entry, entry.node, Done) BY <3>1 DEF Under, LInv, Emitting
          <5>q. QED BY <5>1 DEF Stored, Laid
        <4>4. s \in Sections /\ t \in Sections /\ s # tailSec' /\ t # tailSec' BY <3>3, <4>1, <4>2, <4>3
        <4>q. QED BY <4>0, <4>4
      <3>5. s = entry'.section BY <2>1, <3>3
      <3>6. Before(e, entry)' <=> Age(t)' > Age(s)' \/ (t = s /\ e.offset < entry.offset)
        BY <2>1, <3>3, <3>5 DEF Before
      <3>7. Before(e, entry) <=> Age(t) > Age(s) \/ (t = s /\ e.offset < entry.offset)
        BY <3>3 DEF Before
      <3>8. PICK a \in Nat, b \in Nat : Age(t) = a /\ Age(s) = b BY <3>4
      <3>q. QED BY <3>2, <3>4, <3>6, <3>7, <3>8
    <2>9. Erasing' /\ Resting' BY <2>1 DEF Erasing, Resting
    <2>q. QED BY <2>1, <2>4, <2>5, <2>6, <2>8, <2>9, QuietMeaning
  <1>q. QED BY <1>1, <1>2

\* What the entry of the call makes of the store.
LEMMA AppliedIs ==
  ASSUME IInv, TInv, VolIs, todo # << >>
  PROVE  /\ Adds(todo[1]) => Applied(vol, todo[1]) = Tree \cup {todo[1]}
         /\ ~Adds(todo[1]) => /\ vol = Tree
                              /\ Applied(vol, todo[1]) = {m \in Tree : ~Removes(todo[1], m)}
                              /\ \A m, n \in Tree : Removes(todo[1], m) /\ Removes(todo[1], n) => m = n
         /\ Applied(vol, todo[1]) \subseteq TreeNodes /\ Unique(Applied(vol, todo[1]))
         /\ Rooted(Applied(vol, todo[1])) /\ Younger(Applied(vol, todo[1]), dirIdMax)
  <1>1. todo \in Seq(Nodes) /\ todo[1] \in Nodes BY DEF IInv, TypeOK
  <1>2. Tree \in SUBSET TreeNodes BY TreeType
  <1>3. Sound(Tree, todo, dirIdMax) BY DEF TInv
  <1>4. Tree = {m \in vol : ~SameKey(todo[1], m)} BY DEF VolIs, Replaced
  <1>5. CASE Adds(todo[1])
    <2>1. Applied(vol, todo[1]) = Tree \cup {todo[1]}
      <3>1. \A m : SameKey(m, todo[1]) <=> SameKey(todo[1], m) BY DEF SameKey
      <3>q. QED BY <1>4, <1>5, <3>1 DEF Applied
    <2>2. IsAdd(todo[1]) BY <1>5 DEF IsAdd, Adds
    <2>3. Sound(Tree \cup {todo[1]}, << >>, dirIdMax) BY <1>1, <1>2, <1>3, <2>2, SoundAdded
    <2>4. todo[1] \in TreeNodes BY <1>1, <1>5, NodeKinds DEF Adds, TreeNodes
    <2>q. QED BY <1>2, <1>5, <2>1, <2>3, <2>4 DEF Sound
  <1>6. CASE ~Adds(todo[1])
    <2>1. vol = Tree BY <1>4, <1>6 DEF SameKey, Adds
    <2>2. Applied(vol, todo[1]) = {m \in Tree : ~Removes(todo[1], m)} BY <1>6, <2>1 DEF Applied
    <2>3. Unique(Tree) BY <1>3 DEF Sound
    <2>4. \A m, n \in Tree : Removes(todo[1], m) /\ Removes(todo[1], n) => m = n
      <3>1. \A m, n : Removes(todo[1], m) /\ Removes(todo[1], n) => Clash(m, n) BY DEF Removes, Clash, IsRecord, IsDir
      <3>q. QED BY <2>3, <3>1 DEF Unique
    <2>5. CASE \E m \in Tree : Removes(todo[1], m)
      <3>1. PICK m \in Tree : Removes(todo[1], m) BY <2>5
      <3>2. Applied(vol, todo[1]) = Tree \ {m} BY <2>2, <2>4, <3>1
      <3>3. ~IsAdd(todo[1]) BY <1>6 DEF IsAdd, Adds
      <3>4. Sound(Tree \ {m}, << >>, dirIdMax) BY <1>1, <1>2, <1>3, <3>1, <3>3, SoundRemoved
      <3>q. QED BY <1>2, <1>6, <2>1, <2>2, <2>4, <3>2, <3>4 DEF Sound
    <2>6. CASE ~ \E m \in Tree : Removes(todo[1], m)
      <3>1. Applied(vol, todo[1]) = Tree BY <2>2, <2>6
      <3>q. QED BY <1>2, <1>3, <1>6, <2>1, <2>2, <2>4, <3>1 DEF Sound
    <2>q. QED BY <2>5, <2>6
  <1>q. QED BY <1>5, <1>6

\* An entry that is started is not in the log yet.
LEMMA NewEntry ==
  ASSUME IInv, LInv, LInv', pc # "emit", RoomLeft', UNCHANGED <<logVars, headSec>>,
         NEW node, NEW cells, StartEntry(node, cells), out' \in Seq(Cells), out' # << >>
  PROVE  Log' = Log /\ Older = Log /\ Older' = Log /\ entry'.node = node
  <1>1. Log' = Log BY SameShape
  <1>2. pc' = "emit" BY DEF StartEntry
  <1>3. PICK x : x = entry' OBVIOUS
  <1>4. x.node = node /\ x.section = NewAddress.section /\ x.offset = NewAddress.offset BY <1>3 DEF StartEntry
  <1>5. ASSUME x \in Log PROVE FALSE
    <2>1. Has(x.section, x.offset) /\ tailCount # 0 BY <1>5, LogEntry
    <2>2. CASE avail # SectionSize
      <3>1. x.section = tailSec /\ x.offset = avail BY <1>4, <2>2 DEF NewAddress
      <3>2. avail \in Nat BY DEF IInv, TypeOK
      <3>q. QED BY <2>1, <3>1, <3>2 DEF Has
    <2>3. CASE avail = SectionSize
      <3>1. x.section = NextSection(tailSec) BY <1>4, <2>3 DEF NewAddress
      <3>2. EmptySections # 0
        <4>1. free' = SectionSize - avail' + Payload * EmptySections' - Len(out') BY DEF LInv, FreeExact
        <4>2. avail' = avail /\ EmptySections' = EmptySections
          <5>1. avail' = avail BY DEF logVars
          <5>q. QED BY <5>1, SameLog
        <4>3. PICK l \in Nat : Len(out') = l BY LenProperties
        <4>4. l # 0 BY <4>3, EmptySeq
        <4>5. PICK f \in Int : free' = f BY <4>1, <4>2, <4>3, <2>3, LogSections, Geometry DEF IInv
        <4>6. f >= 0 BY <4>5 DEF RoomLeft
        <4>7. ASSUME EmptySections = 0 PROVE FALSE
          <5>1. f = SectionSize - SectionSize + Payload * 0 - l BY <4>1, <4>2, <4>3, <4>5, <4>7, <2>3
          <5>q. QED BY <4>3, <4>4, <4>6, <5>1, Geometry
        <4>q. QED BY <4>7
      <3>3. NextSection(tailSec) \in Ahead BY <2>1, <3>2, LogSections DEF IInv
      <3>q. QED BY <2>1, <3>1, <3>3 DEF Has
    <2>q. QED BY <2>2, <2>3
  <1>q. QED BY <1>1, <1>2, <1>3, <1>4, <1>5 DEF Older

\* A node of the head section is taken from its list to be copied.
LEMMA NodeCopyMeaning ==
  ASSUME IInv, IInv', TInv, LInv, LInv', Shape, Meaning, RoomLeft', History, NodeCopy
  PROVE  Meaning'
  <1>0. Recoverable /\ LiveIs /\ VolIs /\ KeptIs /\ OnlyRecords BY DEF Meaning
  <1>1. PICK e : e = list[headSec][1] OBVIOUS
  <1>2. /\ pc = "copy" /\ pc' = "emit" /\ copying' /\ UNCHANGED <<logVars, headSec, dirIdMax, todo>>
        /\ list[headSec] # << >> /\ ListDel(e)
        /\ StartEntry(e.node, SubSeq(Image(e.node), 1, MetaLen(e.node)))
    BY <1>1 DEF NodeCopy, StartEntry
  <1>3. e \in Live
    <2>1. headSec \in Sections /\ list[headSec] \in Seq(Entries) BY DEF IInv, TypeOK
    <2>2. 1 \in 1 .. Len(list[headSec]) BY <1>2, <2>1
    <2>q. QED BY <1>1, <2>1, <2>2 DEF Live
  <1>4. Live' = Live \ {e} BY <1>2, <1>3, DelLists DEF TInv, IInv
  <1>5. ~copying BY <1>2, RestFacts
  <1>6. out' \in Seq(Cells) /\ out' # << >>
    <2>1. out' \in Seq(Cells) BY DEF IInv, TypeOK
    <2>2. e.node \in Nodes BY <1>3, LiveType DEF IInv
    <2>3. MetaLen(e.node) \in Nat \ {0} BY <2>2, NodeKinds, LengthAssumption
    <2>4. Len(SubSeq(Image(e.node), 1, MetaLen(e.node))) = MetaLen(e.node)
      <3>1. MetaLen(e.node) <= NodeLen(e.node) BY <2>2, <2>3, NodeKinds, NodeLengths, LengthAssumption DEF NodeLen
      <3>2. Image(e.node) \in Seq(Cells) /\ Len(Image(e.node)) = NodeLen(e.node) BY <2>2, ImageType
      <3>3. NodeLen(e.node) \in Nat BY <2>2, NodeLengths
      <3>q. QED BY <2>3, <3>1, <3>2, <3>3, SubSeqProperties
    <2>q. QED BY <1>2, <2>1, <2>3, <2>4 DEF StartEntry
  <1>7. Log' = Log /\ Older = Log /\ Older' = Log /\ entry'.node = e.node BY <1>2, <1>6, NewEntry
  <1>8. /\ FlashLog' = FlashLog /\ \A x, y : Before(x, y)' <=> Before(x, y)
        /\ (\A L : Surv(L)' = Surv(L)) /\ (\A L : Remains(L)' = Remains(L))
    BY <1>2, SameShape
  <1>9. ~Entered /\ ~Begun /\ ~Flushed BY <1>2 DEF Entered, Begun, Flushed
  <1>10. vol' = vol /\ kept' = kept /\ risk' = risk BY <1>2, <1>9 DEF History
  <1>11. Recoverable' BY <1>0, <1>7, <1>8, <1>10, KeepBack
  <1>12. Surv(Older)' = Surv(Older) /\ Remains(Older)' = Remains(Older) BY <1>7, <1>8
  <1>13. \A m : Replaced(m)' <=> Replaced(m) BY <1>2 DEF Replaced
  <1>14. LiveIs'
    <2>1. \A x \in Live : x.node = e.node => x = e BY <1>3 DEF TInv, Single
    <2>2. \A x : x \in Live <=> x \in Surv(Older) /\ ~Replaced(x.node) BY <1>0, <1>5 DEF LiveIs
    <2>3. \A x : x \in Live' <=> x \in Surv(Older) /\ ~Replaced(x.node) /\ x.node # e.node
      BY <1>4, <2>1, <2>2
    <2>4. Live' = {x \in Surv(Older)' : ~Replaced(x.node)' /\ (copying' => x.node # entry'.node)}
      BY <1>2, <1>7, <1>12, <1>13, <2>3
    <2>q. QED BY <2>4 DEF LiveIs
  <1>15. Tree' = Tree
    <2>1. LiveNodes' = LiveNodes \ {e.node} /\ e.node \in LiveNodes BY <1>3, <1>4, Without DEF TInv
    <2>q. QED BY <1>2, <1>5, <1>7, <2>1 DEF Tree
  <1>16. VolIs' BY <1>0, <1>10, <1>12, <1>13, <1>15 DEF VolIs
  <1>17. KeptIs' BY <1>0, <1>2, <1>10 DEF KeptIs
  <1>18. EntryLast'
    <2>1. Done' = 0 BY NodeCopyShape
    <2>q. QED BY <2>1 DEF EntryLast, Under
  <1>19. Erasing' /\ Resting' /\ OnlyRecords' BY <1>0, <1>2, <1>10 DEF Erasing, Resting, OnlyRecords
  <1>q. QED BY <1>11, <1>14, <1>16, <1>17, <1>18, <1>19 DEF Meaning

\* The entry of the call is started: from here on a reset may find it.
LEMMA EntryStartMeaning ==
  ASSUME IInv, IInv', TInv, LInv, LInv', Shape, Meaning, RoomLeft', History, EntryStart
  PROVE  Meaning'
  <1>0. Recoverable /\ LiveIs /\ VolIs /\ KeptIs /\ OnlyRecords BY DEF Meaning
  <1>2. /\ pc = "gc" /\ pc' = "emit" /\ UNCHANGED <<logVars, headSec, list, dirIdMax, todo, copying>>
        /\ StartEntry(todo[1], Image(todo[1]))
    BY DEF EntryStart, StartEntry, treeVars
  <1>3. ~copying /\ todo # << >> /\ todo[1] \in Nodes
    <2>1. ~copying BY <1>2, RestFacts
    <2>2. todo # << >> /\ todo \in Seq(Nodes) BY <1>2 DEF IInv, CallShape, TypeOK
    <2>q. QED BY <2>1, <2>2
  <1>6. out' \in Seq(Cells) /\ out' # << >>
    <2>1. Image(todo[1]) \in Seq(Cells) /\ Len(Image(todo[1])) = NodeLen(todo[1]) BY <1>3, ImageType
    <2>2. NodeLen(todo[1]) \in Nat \ {0} BY <1>3, NodeLengths
    <2>q. QED BY <1>2, <2>1, <2>2 DEF StartEntry
  <1>7. Log' = Log /\ Older = Log /\ Older' = Log BY <1>2, <1>6, NewEntry
  <1>8. /\ FlashLog' = FlashLog /\ \A x, y : Before(x, y)' <=> Before(x, y)
        /\ (\A L : Surv(L)' = Surv(L)) /\ (\A L : Remains(L)' = Remains(L))
    BY <1>2, SameShape
  <1>9. ~Entered /\ Begun BY <1>2 DEF Entered, Begun
  <1>10. vol' = vol /\ kept' = kept \cup {Applied(vol, todo[1])} /\ risk' = risk
    <2>1. ~Flushed BY <1>2 DEF Flushed
    <2>q. QED BY <1>2, <1>9, <2>1 DEF History
  <1>11. Recoverable' BY <1>0, <1>7, <1>8, <1>10, KeepBack
  <1>12. Surv(Older)' = Surv(Older) /\ Remains(Older)' = Remains(Older) BY <1>7, <1>8
  <1>13. \A m : Replaced(m)' <=> Replaced(m) BY <1>2 DEF Replaced
  <1>14. Live' = Live /\ Tree' = Tree
    <2>1. ~copying' BY <1>2, <1>3
    <2>q. QED BY <1>2, <1>3, <2>1 DEF Live, Tree, LiveNodes
  <1>15. LiveIs' BY <1>0, <1>2, <1>3, <1>12, <1>13, <1>14 DEF LiveIs
  <1>16. VolIs' BY <1>0, <1>10, <1>12, <1>13, <1>14 DEF VolIs
  <1>17. KeptIs'
    <2>1. Applied(vol, todo[1])' = Applied(vol, todo[1]) BY <1>2, <1>10 DEF Applied
    <2>2. LET a == Applied(vol, todo[1])
          IN  a \subseteq TreeNodes /\ Unique(a) /\ Rooted(a) /\ Younger(a, dirIdMax)
      BY <1>0, <1>3, AppliedIs
    <2>3. \A store \in kept' :
            store \subseteq TreeNodes /\ Unique(store) /\ Rooted(store) /\ Younger(store, dirIdMax)
      BY <1>0, <1>10, <2>2 DEF KeptIs
    <2>q. QED BY <1>0, <1>2, <1>3, <1>10, <2>1, <2>3 DEF KeptIs
  <1>18. EntryLast'
    <2>1. Done' = 0 BY EntryStartShape
    <2>q. QED BY <2>1 DEF EntryLast, Under
  <1>19. Erasing' /\ Resting' /\ OnlyRecords' BY <1>0, <1>2, <1>10 DEF Erasing, Resting, OnlyRecords
  <1>q. QED BY <1>11, <1>15, <1>16, <1>17, <1>18, <1>19 DEF Meaning

\* An entry is complete: it counts in the log from here on.
LEMMA EntryEnds ==
  ASSUME IInv, LInv, Shape, EntryLast, pc = "emit", out = << >>, unread = 0, pc' # "emit", UNCHANGED <<logVars, headSec>>
  PROVE  /\ entry \in Log /\ Log' = Log /\ Older' = Log /\ FlashLog' = FlashLog
         /\ \A e, f : Before(e, f)' <=> Before(e, f)
         /\ \A L : Surv(L)' = Surv(L)
         /\ \A L : Remains(L)' = Remains(L)
         /\ \A e : e \in Surv(Log) <=> \/ e \in Surv(Older) /\ ~Overrides(entry.node, e.node)
                                       \/ e = entry /\ Adds(entry.node)
         /\ \A m : m \in Remains(Log) <=> \/ m \in Remains(Older) /\ ~Overrides(entry.node, m)
                                          \/ m = entry.node /\ Adds(entry.node)
  <1>1. /\ Log' = Log /\ FlashLog' = FlashLog /\ \A e, f : Before(e, f)' <=> Before(e, f)
        /\ (\A L : Surv(L)' = Surv(L)) /\ (\A L : Remains(L)' = Remains(L))
    BY SameShape
  <1>2. Older' = Log BY <1>1 DEF Older
  <1>3. Under BY EndShape
  <1>4. entry \in Log
    <2>1. Stored(entry, entry.node, NodeLen(entry.node)) BY Written
    <2>2. entry.offset >= HeadLen BY DEF Shape, HeaderAhead
    <2>3. entry \in Located BY DEF IInv, CallShape
    <2>q. QED BY <2>1, <2>2, <2>3 DEF Log
  <1>5. PICK O, x : O = Older /\ x = entry OBVIOUS
  <1>6. O \cup {x} = Log /\ x \notin O BY <1>4, <1>5 DEF Older
  <1>7. \A e \in O : Before(e, x) BY <1>3, <1>5, <1>6 DEF EntryLast
  <1>8. \A e \in O : ~Before(x, e)
    <2> SUFFICES ASSUME NEW e \in O PROVE ~Before(x, e) OBVIOUS
    <2>1. e \in Log /\ x \in Log BY <1>6
    <2>2. /\ e.section \in Sections /\ e.offset \in Nat /\ x.section \in Sections /\ x.offset \in Nat
      <3>1. e.section \in Sections /\ e.offset \in Nat BY <2>1, LogEntry
      <3>2. x.section \in Sections /\ x.offset \in Nat BY <2>1, LogEntry
      <3>q. QED BY <3>1, <3>2
    <2>q. QED BY <1>7, <2>2, BeforeOrder DEF IInv
  <1>9. ~Before(x, x)
    <2>1. x \in Log BY <1>6
    <2>2. x.section \in Sections /\ x.offset \in Nat BY <2>1, LogEntry
    <2>q. QED BY <2>2, BeforeOrder DEF IInv
  <1>10. /\ \A e : e \in Surv(O \cup {x}) <=> \/ e \in Surv(O) /\ ~Overrides(x.node, e.node)
                                              \/ e = x /\ Adds(x.node)
         /\ \A m : m \in Remains(O \cup {x}) <=> \/ m \in Remains(O) /\ ~Overrides(x.node, m)
                                                 \/ m = x.node /\ Adds(x.node)
    BY <1>7, <1>8, <1>9, SurvAdded
  <1>11. /\ \A e : e \in Surv(Log) <=> \/ e \in Surv(Older) /\ ~Overrides(entry.node, e.node)
                                       \/ e = entry /\ Adds(entry.node)
         /\ \A m : m \in Remains(Log) <=> \/ m \in Remains(Older) /\ ~Overrides(entry.node, m)
                                          \/ m = entry.node /\ Adds(entry.node)
    BY <1>5, <1>6, <1>10
  <1>q. QED BY <1>1, <1>2, <1>4, <1>11

\* In a store, a node of the same key is the same node.
LEMMA OneKey ==
  ASSUME NEW T \in SUBSET TreeNodes, Unique(T), NEW m \in T, NEW n \in T
  PROVE  Overrides(m, n) <=> m = n
  <1>1. Adds(m) /\ Adds(n) /\ ~(m.type = "RECORD_REMOVE") /\ ~(m.type = "DIR_REMOVE")
    BY TreeNodeKinds DEF TreeNodes, RecordAdds, DirAdds, Adds, IsAdd
  <1>2. SameKey(m, n) => Clash(m, n) BY DEF SameKey, Clash, IsRecord, IsDir
  <1>3. m = n => SameKey(m, n) BY <1>1 DEF SameKey, Adds
  <1>4. ~Removes(m, n) BY <1>1 DEF Removes
  <1>q. QED BY <1>2, <1>3, <1>4 DEF Unique, Overrides

\* The copy of a node takes the place of the original.
LEMMA CopyReplaces ==
  ASSUME IInv, Meaning, copying
  PROVE  /\ entry.node \in Tree /\ entry.node \in Remains(Older) /\ Adds(entry.node) /\ ~Replaced(entry.node)
         /\ \A m \in Remains(Older) : Overrides(entry.node, m) <=> m = entry.node
  <1>1. entry.node \in Tree BY DEF Tree
  <1>2. entry.node \in vol /\ entry.node \in Remains(Older) /\ ~Replaced(entry.node) /\ Remains(Older) \subseteq vol
    BY <1>1 DEF Meaning, VolIs
  <1>3. vol \in SUBSET TreeNodes /\ Unique(vol) BY DEF Meaning, KeptIs
  <1>4. Adds(entry.node) BY <1>2, <1>3, TreeNodeKinds DEF IsAdd, Adds
  <1>5. \A m \in Remains(Older) : Overrides(entry.node, m) <=> m = entry.node BY <1>2, <1>3, OneKey
  <1>q. QED BY <1>1, <1>2, <1>4, <1>5

\* A copy is done: the node is where its copy is.
LEMMA NodeCopiedMeaning ==
  ASSUME IInv, TInv, LInv, Shape, Meaning, History, NodeCopied
  PROVE  Meaning'
  <1>0. Recoverable /\ LiveIs /\ VolIs /\ KeptIs /\ OnlyRecords /\ EntryLast BY DEF Meaning
  <1>1. /\ pc = "emit" /\ pc' = "copy" /\ out = << >> /\ copying /\ unread = 0 /\ copying' = FALSE
        /\ UNCHANGED <<logVars, headSec, dirIdMax, todo>> /\ ListPush(entry)
    BY DEF NodeCopied
  <1>2. /\ entry \in Log /\ Log' = Log /\ Older' = Log /\ FlashLog' = FlashLog
        /\ \A e, f : Before(e, f)' <=> Before(e, f)
        /\ \A L : Surv(L)' = Surv(L)
        /\ \A L : Remains(L)' = Remains(L)
        /\ \A e : e \in Surv(Log) <=> \/ e \in Surv(Older) /\ ~Overrides(entry.node, e.node)
                                      \/ e = entry /\ Adds(entry.node)
        /\ \A m : m \in Remains(Log) <=> \/ m \in Remains(Older) /\ ~Overrides(entry.node, m)
                                         \/ m = entry.node /\ Adds(entry.node)
    BY <1>0, <1>1, EntryEnds
  <1>3. /\ entry.node \in Tree /\ entry.node \in Remains(Older) /\ Adds(entry.node) /\ ~Replaced(entry.node)
        /\ \A m \in Remains(Older) : Overrides(entry.node, m) <=> m = entry.node
    BY <1>1, CopyReplaces
  <1>4. Remains(Log) = Remains(Older) BY <1>2, <1>3
  <1>5. Live' = Live \cup {entry}
    <2>1. entry \in Entries BY <1>1 DEF IInv, CallShape, Located, Entries
    <2>2. entry \notin Live BY <1>1 DEF TInv, Single, LiveNodes
    <2>q. QED BY <1>1, <2>1, <2>2, PushLists DEF TInv, IInv
  <1>6. ~Entered /\ ~Begun /\ ~Flushed BY <1>1 DEF Entered, Begun, Flushed
  <1>7. vol' = vol /\ kept' = kept /\ risk' = risk BY <1>1, <1>6 DEF History
  <1>8. \A m : Replaced(m)' <=> Replaced(m) BY <1>1 DEF Replaced
  <1>9. \A e \in Surv(Older) : e.node \in Remains(Older) BY DEF Remains
  <1>10. \A e : e \in Live' <=> e \in Surv(Log) /\ ~Replaced(e.node)
    <2>1. \A e : e \in Live <=> e \in Surv(Older) /\ ~Replaced(e.node) /\ e.node # entry.node
      BY <1>0, <1>1 DEF LiveIs
    <2>2. \A e : e \in Surv(Log) <=> (e \in Surv(Older) /\ e.node # entry.node) \/ e = entry
      BY <1>2, <1>3, <1>9
    <2>q. QED BY <1>3, <1>5, <2>1, <2>2
  <1>11. LiveIs'
    <2>1. Surv(Older)' = Surv(Log) BY <1>2
    <2>q. QED BY <1>1, <1>8, <1>10, <2>1 DEF LiveIs
  <1>12. Tree' = Tree
    <2>1. LiveNodes' = LiveNodes \cup {entry.node} BY <1>5 DEF LiveNodes
    <2>q. QED BY <1>1, <2>1 DEF Tree
  <1>13. VolIs'
    <2>1. Remains(Older)' = Remains(Older) BY <1>2, <1>4
    <2>q. QED BY <1>0, <1>7, <1>8, <1>12, <2>1 DEF VolIs
  <1>14. KeptIs' BY <1>0, <1>1, <1>7 DEF KeptIs
  <1>15. Recoverable' BY <1>0, <1>2, <1>7, KeepBack
  <1>16. EntryLast' /\ Erasing' /\ Resting' /\ OnlyRecords'
    BY <1>0, <1>1, <1>7 DEF EntryLast, Under, Erasing, Resting, OnlyRecords
  <1>q. QED BY <1>11, <1>13, <1>14, <1>15, <1>16 DEF Meaning

\* The entry of the call is in the log: the store has changed.
LEMMA EntryDoneMeaning ==
  ASSUME IInv, TInv, LInv, Shape, Meaning, History, EntryDone
  PROVE  Meaning' /\ vol' = Applied(vol, todo[1])
  <1>0. Recoverable /\ LiveIs /\ VolIs /\ KeptIs /\ OnlyRecords /\ EntryLast BY DEF Meaning
  <1>1. /\ pc = "emit" /\ out = << >> /\ ~copying /\ copying' = copying /\ UNCHANGED <<logVars, headSec, dirIdMax>>
        /\ pc' \in {"idle", "gc"}
    BY DEF EntryDone, Enter
  <1>2. unread = 0 /\ entry.node = todo[1] /\ todo # << >> /\ todo[1] \in Nodes /\ entry \in Located
    <2>1. unread = 0 BY <1>1 DEF LInv, Phases
    <2>2. entry.node = todo[1] /\ todo # << >> /\ todo \in Seq(Nodes) /\ entry \in Located
      BY <1>1 DEF IInv, CallShape, TypeOK
    <2>q. QED BY <2>1, <2>2
  <1>3. pc' # "emit" BY <1>1
  <1>4. /\ entry \in Log /\ Log' = Log /\ Older' = Log /\ FlashLog' = FlashLog
        /\ \A e, f : Before(e, f)' <=> Before(e, f)
        /\ \A L : Surv(L)' = Surv(L)
        /\ \A L : Remains(L)' = Remains(L)
        /\ \A e : e \in Surv(Log) <=> \/ e \in Surv(Older) /\ ~Overrides(entry.node, e.node)
                                      \/ e = entry /\ Adds(entry.node)
        /\ \A m : m \in Remains(Log) <=> \/ m \in Remains(Older) /\ ~Overrides(entry.node, m)
                                         \/ m = entry.node /\ Adds(entry.node)
    BY <1>0, <1>1, <1>2, <1>3, EntryEnds
  <1>5. Entered /\ ~Begun /\ ~Flushed BY <1>1 DEF Entered, Begun, Flushed
  <1>6. vol' = LiveNodes' /\ kept' = kept /\ risk' = risk BY <1>1, <1>5 DEF History
  <1>7. Sound(Tree, todo, dirIdMax) BY DEF TInv
  <1>8. Tree = LiveNodes /\ Tree' = LiveNodes' BY <1>1 DEF Tree
  <1>9. \A e : e \in Live <=> e \in Surv(Older) /\ ~Replaced(e.node) BY <1>0, <1>1 DEF LiveIs
  <1>10. /\ \A e : e \in Live' <=> e \in Surv(Log)
         /\ \A m : ~Replaced(m)'
         /\ vol' = Applied(vol, todo[1])
         /\ ~IsDir(todo'[1]) \/ pc' = "idle"
    <2>1. CASE Adds(todo[1])
      <3>1. Live' = Live \cup {entry}
        <4>1. entry \in Entries BY <1>2, <2>1, NodeKinds DEF Located, Entries, Adds
        <4>2. entry \notin Live
          <5>1. IsAdd(todo[1]) BY <2>1 DEF IsAdd, Adds
          <5>2. todo[1] \notin Tree BY <1>2, <1>7, <5>1 DEF Sound, Adding, Clash
          <5>q. QED BY <1>2, <1>8, <5>2 DEF LiveNodes
        <4>3. ListPush(entry) BY <2>1 DEF EntryDone, Adds
        <4>q. QED BY <4>1, <4>2, <4>3, PushLists DEF TInv, IInv
      <3>2. Len(todo) = 1 BY <1>2, <1>7, <2>1 DEF Sound, Adding, IsAdd, Adds
      <3>3. todo' = << >> /\ pc' = "idle" BY <3>2 DEF EntryDone
      <3>4. \A m : ~Replaced(m)' BY <3>3 DEF Replaced
      <3>5. \A m : Overrides(todo[1], m) <=> Replaced(m)
        BY <1>2, <2>1 DEF Overrides, Replaced, Removes, Adds, IsRecord, IsDir
      <3>6. \A e : e \in Live' <=> e \in Surv(Log) BY <1>2, <1>4, <1>9, <2>1, <3>1, <3>5
      <3>7. vol' = Applied(vol, todo[1])
        <4>1. LiveNodes' = LiveNodes \cup {entry.node} BY <3>1 DEF LiveNodes
        <4>2. Applied(vol, todo[1]) = Tree \cup {todo[1]} BY <1>0, <1>2, <2>1, AppliedIs
        <4>q. QED BY <1>2, <1>6, <1>8, <4>1, <4>2
      <3>q. QED BY <3>3, <3>4, <3>6, <3>7
    <2>2. CASE ~Adds(todo[1])
      <3>1. PICK e \in Live : Removes(todo[1], e.node) /\ ListDel(e) BY <2>2 DEF EntryDone, Adds
      <3>2. Live' = Live \ {e} BY <3>1, DelLists DEF TInv, IInv
      <3>3. \A m : ~Replaced(m) BY <2>2 DEF Replaced, SameKey, Adds
      <3>4. \A m : Overrides(todo[1], m) <=> Removes(todo[1], m) BY <2>2 DEF Overrides, SameKey, Adds
      <3>5. /\ Applied(vol, todo[1]) = {m \in Tree : ~Removes(todo[1], m)}
            /\ \A m, n \in Tree : Removes(todo[1], m) /\ Removes(todo[1], n) => m = n
        BY <1>0, <1>2, <2>2, AppliedIs
      <3>6. \A x \in Live : x.node \in Tree BY <1>8 DEF LiveNodes
      <3>7. \A x \in Live : Removes(todo[1], x.node) <=> x = e
        <4>1. \A x \in Live : Removes(todo[1], x.node) => x.node = e.node BY <3>1, <3>5, <3>6
        <4>q. QED BY <3>1, <4>1 DEF TInv, Single
      <3>8. \A x : x \in Live' <=> x \in Surv(Log)
        <4>1. ~Adds(entry.node) BY <1>2, <2>2
        <4>2. \A x : x \in Live <=> x \in Surv(Older) BY <1>9, <3>3
        <4>3. \A x : x \in Surv(Log) <=> x \in Live /\ ~Removes(todo[1], x.node)
          BY <1>2, <1>4, <3>4, <4>1, <4>2
        <4>q. QED BY <3>2, <3>7, <4>3
      <3>9. vol' = Applied(vol, todo[1])
        <4>1. LiveNodes' = LiveNodes \ {e.node} BY <3>1, <3>2, Without DEF TInv
        <4>2. \A m \in Tree : Removes(todo[1], m) <=> m = e.node BY <3>1, <3>5, <3>6
        <4>q. QED BY <1>6, <1>8, <3>5, <4>1, <4>2
      <3>10. todo' = << >> \/ (~IsAdd(todo'[1]) /\ todo' # << >>)
        <4>1. CASE Len(todo) > 1
          <5>1. todo' = SubSeq(todo, 2, Len(todo)) BY <4>1 DEF EntryDone, Enter
          <5>2. todo \in Seq(Nodes) /\ Len(todo) \in Nat BY DEF IInv, TypeOK
          <5>3. todo'[1] = todo[2] /\ todo' # << >>
            <6>1. Len(todo') = Len(todo) - 1 /\ todo'[1] = todo[2] BY <4>1, <5>1, <5>2
            <6>q. QED BY <4>1, <5>2, <6>1
          <5>4. ~IsAdd(todo[1]) BY <2>2 DEF IsAdd, Adds
          <5>5. 2 \in 1 .. Len(todo) BY <4>1, <5>2
          <5>6. ~IsAdd(todo[2]) BY <1>2, <1>7, <5>4, <5>5 DEF Sound, Removing
          <5>q. QED BY <5>3, <5>6
        <4>2. CASE ~(Len(todo) > 1) BY <4>2 DEF EntryDone
        <4>q. QED BY <4>1, <4>2
      <3>11. \A m : ~Replaced(m)' BY <3>10 DEF Replaced, SameKey, IsAdd
      <3>12. ~IsDir(todo'[1]) \/ pc' = "idle"
        <4>1. CASE todo' = << >>
          <5>1. ~(Len(todo) > 1)
            <6>1. ASSUME Len(todo) > 1 PROVE FALSE
              <7>1. todo' = SubSeq(todo, 2, Len(todo)) BY <6>1 DEF EntryDone, Enter
              <7>2. todo \in Seq(Nodes) /\ Len(todo) \in Nat BY DEF IInv, TypeOK
              <7>3. Len(todo') = Len(todo) - 1 BY <6>1, <7>1, <7>2
              <7>4. PICK l \in Nat : Len(todo) = l BY <7>2
              <7>5. l > 1 /\ l - 1 = 0
                <8>1. Len(todo') = 0 BY <4>1
                <8>q. QED BY <6>1, <7>3, <7>4, <8>1
              <7>q. QED BY <7>4, <7>5
            <6>q. QED BY <6>1
          <5>q. QED BY <5>1 DEF EntryDone
        <4>2. CASE todo' # << >> BY <3>10, <4>2 DEF IsAdd
        <4>q. QED BY <4>1, <4>2
      <3>q. QED BY <3>8, <3>9, <3>11, <3>12
    <2>q. QED BY <2>1, <2>2
  <1>11. Surv(Older)' = Surv(Log) /\ Remains(Older)' = Remains(Log) BY <1>4
  <1>12. LiveIs' BY <1>1, <1>10, <1>11 DEF LiveIs
  <1>13. Remains(Log) = LiveNodes'
    <2>1. Live' = Surv(Log) BY <1>10
    <2>q. QED BY <2>1 DEF Remains, LiveNodes
  <1>14. VolIs' BY <1>6, <1>8, <1>10, <1>11, <1>13 DEF VolIs
  <1>15. KeptIs'
    <2>1. vol' \in kept BY <1>0, <1>1, <1>10 DEF KeptIs
    <2>q. QED BY <1>0, <1>1, <1>3, <1>6, <1>10, <2>1 DEF KeptIs
  <1>16. Recoverable' BY <1>0, <1>4, <1>6, KeepBack
  <1>17. EntryLast' /\ Erasing' /\ OnlyRecords' BY <1>0, <1>1, <1>6 DEF EntryLast, Under, Erasing, OnlyRecords
  <1>18. Resting' BY DEF Resting, EntryDone, Enter
  <1>q. QED BY <1>10, <1>12, <1>14, <1>15, <1>16, <1>17, <1>18 DEF Meaning

\* The entry of the call makes of the log the store it makes of the volume.
LEMMA AppliedRemains ==
  ASSUME IInv, TInv, VolIs, todo # << >>,
         NEW R, \A m : m \in R <=> \/ m \in Remains(Older) /\ ~Overrides(todo[1], m)
                                   \/ m = todo[1] /\ Adds(todo[1])
  PROVE  R = Applied(vol, todo[1])
  <1>1. Tree = {m \in vol : ~Replaced(m)} /\ Tree \subseteq Remains(Older) /\ Remains(Older) \subseteq vol
    BY DEF VolIs
  <1>2. CASE Adds(todo[1])
    <2>1. \A m : Overrides(todo[1], m) <=> Replaced(m)
      BY <1>2 DEF Overrides, Replaced, Removes, Adds, IsRecord, IsDir
    <2>2. Applied(vol, todo[1]) = Tree \cup {todo[1]} BY <1>2, AppliedIs
    <2>q. QED BY <1>1, <1>2, <2>1, <2>2
  <1>3. CASE ~Adds(todo[1])
    <2>1. \A m : Overrides(todo[1], m) <=> Removes(todo[1], m) BY <1>3 DEF Overrides, SameKey, Adds
    <2>2. vol = Tree /\ Applied(vol, todo[1]) = {m \in Tree : ~Removes(todo[1], m)} BY <1>3, AppliedIs
    <2>q. QED BY <1>1, <1>3, <2>1, <2>2
  <1>q. QED BY <1>2, <1>3

\* The entry under way is complete in the log: what remains of it may come back.
LEMMA CompleteBack ==
  ASSUME IInv, TInv, LInv, Meaning, pc = "emit", entry \notin Log,
         \A e \in Log : Before(e, entry) /\ ~Before(entry, e), ~Before(entry, entry)
  PROVE  Back(Remains(Log \cup {entry}))
  <1>0. Recoverable /\ VolIs /\ KeptIs BY DEF Meaning
  <1>1. Older = Log BY OlderIs
  <1>2. PICK O, x : O = Log /\ x = entry OBVIOUS
  <1>3. \A m : m \in Remains(O \cup {x}) <=> \/ m \in Remains(O) /\ ~Overrides(x.node, m)
                                             \/ m = x.node /\ Adds(x.node)
    BY <1>2, SurvAdded
  <1>4. CASE copying
    <2>1. /\ entry.node \in Remains(Older) /\ Adds(entry.node)
          /\ \A m \in Remains(Older) : Overrides(entry.node, m) <=> m = entry.node
      BY <1>4, CopyReplaces
    <2>2. Remains(O \cup {x}) = Remains(O) BY <1>1, <1>2, <1>3, <2>1
    <2>q. QED BY <1>0, <1>2, <2>2, WholeBack
  <1>5. CASE ~copying
    <2>1. entry.node = todo[1] /\ todo # << >> BY <1>5 DEF IInv, CallShape
    <2>2. \A m : m \in Remains(O \cup {x}) <=> \/ m \in Remains(Older) /\ ~Overrides(todo[1], m)
                                               \/ m = todo[1] /\ Adds(todo[1])
      BY <1>1, <1>2, <1>3, <2>1
    <2>3. Remains(O \cup {x}) = Applied(vol, todo[1]) BY <1>0, <2>1, <2>2, AppliedRemains
    <2>4. Applied(vol, todo[1]) \in kept BY <1>0, <1>5 DEF KeptIs
    <2>q. QED BY <1>2, <2>3, <2>4 DEF Back
  <1>q. QED BY <1>4, <1>5

\* Units are appended.
LEMMA NodeWriteMeaning ==
  ASSUME IInv, IInv', TInv, LInv, LInv', Shape, Shape', Meaning, RoomLeft', History, NodeWrite
  PROVE  Meaning'
  <1>0. Recoverable /\ LiveIs /\ VolIs /\ KeptIs /\ OnlyRecords /\ EntryLast BY DEF Meaning
  <1>1. /\ pc = "emit" /\ pc' = "emit" /\ out # << >> /\ UNCHANGED <<list, dirIdMax, todo, copying, entry>>
    BY DEF NodeWrite, treeVars
  <1>2. PICK n, v, d : Appends(n, v, d) BY AppendFacts
  <1>3. /\ Log \subseteq Log' /\ Log' \subseteq Log \cup {entry} /\ FlashLog \subseteq FlashLog'
        /\ \A e, f : Before(e, f)' <=> Before(e, f)
        /\ EntryLast'
        /\ \A e \in Log' : e # entry => Before(e, entry)
    BY <1>0, <1>2, LogAppended
  <1>4. Older' = Older BY <1>1, <1>3 DEF Older
  <1>5. \A L : Surv(L)' = Surv(L) /\ Remains(L)' = Remains(L)
    <2> TAKE L
    <2>q. QED BY <1>3, SurvSame
  <1>6. Surv(Older)' = Surv(Older) /\ Remains(Older)' = Remains(Older) BY <1>4, <1>5
  <1>7. ~Entered /\ ~Begun /\ ~Flushed BY <1>1 DEF Entered, Begun, Flushed
  <1>8. vol' = vol /\ kept' = kept /\ risk' = risk BY <1>1, <1>7 DEF History
  <1>9. Live' = Live /\ Tree' = Tree BY <1>1 DEF Live, Tree, LiveNodes
  <1>10. \A m : Replaced(m)' <=> Replaced(m) BY <1>1 DEF Replaced
  <1>11. LiveIs' BY <1>0, <1>1, <1>6, <1>9, <1>10 DEF LiveIs
  <1>12. VolIs' BY <1>0, <1>6, <1>8, <1>9, <1>10 DEF VolIs
  <1>13. KeptIs'
    <2>1. Applied(vol, todo[1])' = Applied(vol, todo[1]) BY <1>1, <1>8 DEF Applied
    <2>q. QED BY <1>0, <1>1, <1>8, <2>1 DEF KeptIs
  <1>14. Recoverable'
    <2> SUFFICES ASSUME NEW Q \in SUBSET Log', FlashLog' \subseteq Q, Prefix(Q)' PROVE Back(Remains(Q))'
      BY DEF Recoverable
    <2>1. \A e \in Q, f \in Log' : Before(f, e) => f \in Q BY <1>3 DEF Prefix
    <2>2. Back(Remains(Q))
      <3>1. CASE Q \subseteq Log
        <4>1. Prefix(Q) BY <1>3, <2>1 DEF Prefix
        <4>2. FlashLog \subseteq Q BY <1>3
        <4>q. QED BY <1>0, <3>1, <4>1, <4>2 DEF Recoverable
      <3>2. CASE ~(Q \subseteq Log)
        <4>1. entry \in Q /\ entry \notin Log BY <1>3, <3>2
        <4>2. Q = Log' BY <1>3, <2>1, <4>1
        <4>3. Q = Log \cup {entry} BY <1>3, <4>1, <4>2
        <4>4. PICK x : x = entry OBVIOUS
        <4>5. entry.section \in Sections /\ entry.offset \in Nat
          BY <1>1 DEF IInv, CallShape, Located
        <4>6. \A e \in Log : e.section \in Sections /\ e.offset \in Nat
          <5> TAKE e \in Log
          <5>q. QED BY LogEntry
        <4>7. ~Before(x, x) BY <4>4, <4>5, BeforeOrder DEF IInv
        <4>8. \A e \in Log : Before(e, x) /\ ~Before(x, e)
          <5> TAKE e \in Log
          <5>1. Before(e, x) BY <1>3, <4>1, <4>4
          <5>q. QED BY <4>4, <4>5, <4>6, <5>1, BeforeOrder DEF IInv
        <4>q. QED BY <1>1, <4>1, <4>3, <4>4, <4>7, <4>8, CompleteBack
      <3>q. QED BY <3>1, <3>2
    <2>3. Remains(Q)' = Remains(Q) BY <1>5
    <2>q. QED BY <1>8, <2>2, <2>3 DEF Back
  <1>15. Erasing' /\ Resting' /\ OnlyRecords' BY <1>0, <1>1, <1>8 DEF Erasing, Resting, OnlyRecords
  <1>q. QED BY <1>3, <1>11, <1>12, <1>13, <1>14, <1>15 DEF Meaning

\* Every step while power lasts keeps what the log says.
LEMMA NextMeaning ==
  ASSUME IInv, IInv', TInv, LInv, LInv', Shape, Shape', Meaning, RoomLeft, RoomLeft', NoWrap, History, Next
  PROVE  Meaning'
  <1>1. CASE Call BY <1>1, CallsMeaning
  <1>2. CASE CollectStart \/ CollectSync \/ CollectErase BY <1>2, CollectMeaning
  <1>3. CASE DataCopy \/ SectionHeadWrite BY <1>3, ThroughMeaning
  <1>4. CASE NodeCopy BY <1>4, NodeCopyMeaning
  <1>5. CASE NodeCopied BY <1>5, NodeCopiedMeaning
  <1>6. CASE EntryStart BY <1>6, EntryStartMeaning
  <1>7. CASE EntryDone BY <1>7, EntryDoneMeaning
  <1>8. CASE NodeWrite BY <1>8, NodeWriteMeaning
  <1>q. QED BY <1>1, <1>2, <1>3, <1>4, <1>5, <1>6, <1>7, <1>8 DEF Next, Work

-----------------------------------------------------------------------------
(* The steps while power lasts. *)

\* They keep the invariant.
LEMMA PowerStep ==
  ASSUME Roomy, RInv, RoomLeft, RoomLeft', NoWrap, Next, History
  PROVE  RInv'
  <1>1. IInv /\ TInv /\ LInv /\ Shape /\ Meaning BY DEF RInv
  <1>2. IInv' BY <1>1, NextInv
  <1>3. TInv' BY <1>1, NextTree
  <1>4. LInv' BY <1>1, NextLog
  <1>5. Shape' BY <1>1, NextShape DEF Meaning
  <1>6. Meaning' BY <1>1, <1>2, <1>4, <1>5, NextMeaning
  <1>q. QED BY <1>2, <1>3, <1>4, <1>5, <1>6 DEF RInv

\* A step that changes nothing.
LEMMA StutterPower ==
  ASSUME RInv, UNCHANGED recoveryVars
  PROVE  RInv'
  <1>1. UNCHANGED vars /\ UNCHANGED historyVars BY DEF recoveryVars
  <1>2. IInv /\ TInv /\ LInv /\ Shape /\ Meaning BY DEF RInv
  <1>3. IInv' /\ TInv' /\ LInv' BY <1>1, <1>2, NextInv, NextTree, StutterLog
  <1>4. UNCHANGED <<logVars, headSec>> /\ UNCHANGED <<list, dirIdMax, pc, todo, copying, entry, out, starting, unread, buf>>
    BY <1>1 DEF vars, logVars
  <1>5. UNCHANGED <<vol, kept, risk>> BY <1>1 DEF historyVars
  <1>6. Shape'
    <2>1. Under' <=> Under BY <1>4 DEF Under, Done, Heading, logVars
    <2>2. Left' = Left BY <1>4 DEF Left, Done, Heading, logVars
    <2>3. HeaderAhead' BY <1>2, <1>4, <2>1 DEF HeaderAhead, Shape, Left, Done, Heading, logVars
    <2>q. QED BY <1>2, <1>4, <2>1, <2>2, <2>3, QuietShape
  <1>7. Meaning'
    <2>1. Log' = Log /\ FlashLog' = FlashLog /\ \A e, f : Before(e, f)' <=> Before(e, f) BY <1>4, SameShape
    <2>2. Older' = Older BY <1>4, <2>1 DEF Older
    <2>3. Under' <=> Under BY <1>4 DEF Under, Done, Heading, logVars
    <2>4. EntryLast' BY <1>2, <1>4, <2>1, <2>3 DEF EntryLast, Meaning
    <2>5. Erasing' /\ Resting' BY <1>2, <1>4, <1>5 DEF Erasing, Resting, Meaning
    <2>6. Recoverable' BY <1>2, <1>5, <2>1, KeepBack DEF Meaning
    <2>7. (\A L : Surv(L)' = Surv(L)) /\ (\A L : Remains(L)' = Remains(L)) BY <1>4, SameShape
    <2>8. Surv(Older)' = Surv(Older) /\ Remains(Older)' = Remains(Older) BY <2>2, <2>7
    <2>9. Live' = Live /\ Tree' = Tree /\ \A m : Replaced(m)' <=> Replaced(m)
      BY <1>4 DEF Live, Tree, LiveNodes, Replaced
    <2>10. LiveIs' BY <1>2, <1>4, <2>8, <2>9 DEF Meaning, LiveIs
    <2>11. VolIs' BY <1>2, <1>5, <2>8, <2>9 DEF Meaning, VolIs
    <2>12. KeptIs'
      <3>1. Applied(vol, todo[1])' = Applied(vol, todo[1]) BY <1>4, <1>5 DEF Applied
      <3>q. QED BY <1>2, <1>4, <1>5, <3>1 DEF Meaning, KeptIs
    <2>13. OnlyRecords' BY <1>2, <1>5 DEF Meaning, OnlyRecords
    <2>q. QED BY <2>4, <2>5, <2>6, <2>10, <2>11, <2>12, <2>13 DEF Meaning
  <1>q. QED BY <1>3, <1>6, <1>7 DEF RInv

\* An erased volume.
LEMMA InitPower == RInit => RInv
  <1> SUFFICES ASSUME RInit PROVE RInv OBVIOUS
  <1>1. Init /\ vol = {} /\ kept = {{}} /\ risk = {} BY DEF RInit
  <1>2. IInv /\ TInv /\ LInv BY <1>1, InitInv, InitTree, InitLog
  <1>3. tailCount = 0 /\ pc = "idle" /\ todo = << >> /\ ~copying /\ \A s \in Sections : list[s] = << >> BY <1>1 DEF Init
  <1>4. Sections \ Ahead = {} BY <1>2, <1>3, Ages DEF IInv
  <1>5. Shape
    <2>1. \A s, o : ~Has(s, o) BY <1>4 DEF Has
    <2>2. Kinds /\ Follows /\ Padded /\ PagesUsed /\ Begins BY <2>1 DEF Kinds, Follows, Padded, PagesUsed, Begins
    <2>3. Headed /\ Counted /\ HeaderAhead BY <1>3, <1>4 DEF Headed, Counted, HeaderAhead
    <2>q. QED BY <2>2, <2>3 DEF Shape
  <1>6. Log = {} BY <1>4 DEF Log, Stored, Laid
  <1>7. Older = {} BY <1>3, <1>6 DEF Older
  <1>8. \A L : L = {} => Surv(L) = {} /\ Remains(L) = {} BY DEF Surv, Remains
  <1>9. Live = {}
    <2> SUFFICES ASSUME NEW e \in Live PROVE FALSE OBVIOUS
    <2>1. PICK s \in Sections : e \in {list[s][i] : i \in 1 .. Len(list[s])} BY DEF Live
    <2>2. Len(list[s]) = 0 BY <1>3
    <2>3. PICK i \in 1 .. Len(list[s]) : TRUE BY <2>1
    <2>q. QED BY <2>2, <2>3
  <1>10. Tree = {} BY <1>3, <1>9 DEF Tree, LiveNodes
  <1>11. Recoverable
    <2> SUFFICES ASSUME NEW Q \in SUBSET Log PROVE Back(Remains(Q)) BY DEF Recoverable
    <2>1. Remains(Q) = {} BY <1>6, <1>8
    <2>q. QED BY <1>1, <2>1 DEF Back
  <1>12. LiveIs BY <1>7, <1>8, <1>9 DEF LiveIs
  <1>13. VolIs BY <1>1, <1>7, <1>8, <1>10 DEF VolIs
  <1>14. KeptIs BY <1>1, <1>3 DEF KeptIs, Unique, Rooted, Younger
  <1>15. EntryLast /\ Erasing /\ OnlyRecords /\ Resting
    BY <1>1, <1>3 DEF EntryLast, Under, Erasing, OnlyRecords, Resting
  <1>q. QED BY <1>2, <1>5, <1>11, <1>12, <1>13, <1>14, <1>15 DEF RInv, Meaning

-----------------------------------------------------------------------------
(* The store. *)

\* The store speaks of the same things.
LEMMA SameTerms ==
  /\ Store!Parents = Parents /\ Store!DirIds = DirIds /\ Store!RootId = RootId
  /\ \A m : Store!IsRecord(m) = IsRecord(m) /\ Store!IsDir(m) = IsDir(m) /\ Store!NodeKey(m) = Key(m)
  /\ \A p, n, v : Store!RecordAdd(p, n, v) = RecordAdd(p, n, v)
  /\ \A p, n, id : Store!DirAdd(p, n, id) = DirAdd(p, n, id)
  BY DEF Store!Parents, Store!DirIds, Store!RootId, Parents, DirIds, RootId, Store!IsRecord, Store!IsDir,
         IsRecord, IsDir, Store!NodeKey, Key, Store!RecordAdd, Store!DirAdd, RecordAdd, DirAdd

\* Two nodes of a tree have one key when one replaces the other.
LEMMA KeyIs ==
  ASSUME NEW m, NEW n, Adds(m), Adds(n)
  PROVE  Key(m) = Key(n) <=> SameKey(m, n)
  <1>1. \A x : ~(IsRecord(x) /\ IsDir(x)) BY DEF IsRecord, IsDir
  <1>2. CASE IsRecord(m) /\ IsRecord(n)
    <2>1. Key(m) = <<"record", m.parent, m.name>> /\ Key(n) = <<"record", n.parent, n.name>> BY <1>2 DEF Key
    <2>2. Key(m) = Key(n) <=> m.parent = n.parent /\ m.name = n.name BY <2>1
    <2>q. QED BY <1>1, <1>2, <2>2 DEF SameKey
  <1>3. CASE IsDir(m) /\ IsDir(n)
    <2>1. Key(m) = <<"dir", m.id>> /\ Key(n) = <<"dir", n.id>> BY <1>1, <1>3 DEF Key
    <2>2. Key(m) = Key(n) <=> m.id = n.id BY <2>1
    <2>q. QED BY <1>1, <1>3, <2>2 DEF SameKey
  <1>4. CASE IsRecord(m) /\ IsDir(n)
    <2>1. Key(m)[1] = "record" /\ Key(n)[1] = "dir" BY <1>1, <1>4 DEF Key
    <2>2. Key(m) # Key(n) BY <2>1
    <2>q. QED BY <1>1, <1>4, <2>2 DEF SameKey
  <1>5. CASE IsDir(m) /\ IsRecord(n)
    <2>1. Key(m)[1] = "dir" /\ Key(n)[1] = "record" BY <1>1, <1>5 DEF Key
    <2>2. Key(m) # Key(n) BY <2>1
    <2>q. QED BY <1>1, <1>5, <2>2 DEF SameKey
  <1>q. QED BY <1>2, <1>3, <1>4, <1>5 DEF Adds

\* A directory is at risk of nothing.
LEMMA NoDirReplaced ==
  ASSUME VolIs, OnlyRecords, todo # << >>, IsDir(todo[1])
  PROVE  vol = Tree
  <1>1. \A m \in vol : ~Replaced(m)
    <2> SUFFICES ASSUME NEW m \in vol, Replaced(m) PROVE FALSE OBVIOUS
    <2>1. IsDir(m) /\ ~IsRecord(m) BY DEF Replaced, SameKey, IsRecord, IsDir
    <2>2. Key(m)[1] = "dir" BY <2>1 DEF Key
    <2>3. Key(m) \in risk BY DEF VolIs
    <2>q. QED BY <2>2, <2>3 DEF OnlyRecords
  <1>q. QED BY <1>1 DEF VolIs

\* The changes of the store.
LEMMA ChangesAre ==
  /\ \A p \in Parents, n \in Names, v \in Values : Store!Put(p, n, v) \subseteq Store!Changes
  /\ \A p \in Parents, n \in Names, id \in DirIds : Store!MakeDir(p, n, id) \subseteq Store!Changes
  /\ \A m \in vol : Store!Remove(m) \subseteq Store!Changes
  BY SameTerms DEF Store!Changes

\* What the entry of the call makes of the store is a change of the store, if any.
LEMMA AppliedChanges ==
  ASSUME IInv, TInv, VolIs, KeptIs, OnlyRecords, todo # << >>
  PROVE  /\ Applied(vol, todo[1]) \in Store!Changes \/ Applied(vol, todo[1]) = vol
         /\ IsDir(todo[1]) \/ Store!Ids(Applied(vol, todo[1])) \subseteq Store!Ids(vol)
         /\ IsDir(todo[1]) => Store!Ids(Applied(vol, todo[1])) \subseteq Store!Ids(vol) \cup {todo[1].id}
  <1>1. PICK q : q = todo[1] OBVIOUS
  <1>2. q \in Nodes BY <1>1 DEF IInv, TypeOK
  <1>3. Sound(Tree, todo, dirIdMax) BY DEF TInv
  <1>4. Tree \subseteq vol /\ vol \in SUBSET TreeNodes BY DEF VolIs, KeptIs
  <1>5. \A x : Store!HasDir(x) <=> Exists(vol, x)
    BY SameTerms DEF Store!HasDir, Store!Ids, Exists
  <1>6. \A x : Exists(Tree, x) => Exists(vol, x) BY <1>4 DEF Exists
  <1>7. \A S : \A i : i \in Store!Ids(S) <=> \E x \in S : IsDir(x) /\ x.id = i
    BY SameTerms DEF Store!Ids
  <1>8. CASE IsRecord(q)
    <2>1. q \in RecordAdds BY <1>2, <1>8, NodeKinds
    <2>2. q.parent \in Parents /\ q.name \in Names /\ q.val \in Values /\ q = RecordAdd(q.parent, q.name, q.val)
      BY <2>1 DEF RecordAdds, RecordAdd
    <2>3. Exists(vol, q.parent) BY <1>1, <1>3, <1>6, <1>8 DEF Sound, Adding, IsAdd
    <2>4. Key(q) = <<"record", q.parent, q.name>> BY <1>8 DEF Key
    <2>5. Applied(vol, q) = {m \in vol : Key(m) # <<"record", q.parent, q.name>>} \cup {q}
      <3>1. \A m \in vol : SameKey(m, q) <=> Key(m) = Key(q)
        <4> TAKE m \in vol
        <4>1. Adds(m) /\ Adds(q) BY <1>4, <1>8, TreeNodeKinds DEF Adds, IsAdd
        <4>q. QED BY <4>1, KeyIs
      <3>2. Adds(q) BY <1>8 DEF Adds
      <3>q. QED BY <2>4, <3>1, <3>2 DEF Applied
    <2>6. Applied(vol, q) \in Store!Put(q.parent, q.name, q.val)
      BY <1>5, <2>2, <2>3, <2>5, SameTerms DEF Store!Put
    <2>7. Applied(vol, q) \in Store!Changes BY <2>2, <2>6, ChangesAre
    <2>8. ~IsDir(q) BY <1>8 DEF IsRecord, IsDir
    <2>9. Store!Ids(Applied(vol, q)) \subseteq Store!Ids(vol) BY <1>7, <2>5, <2>8
    <2>q. QED BY <1>1, <2>7, <2>8, <2>9
  <1>9. CASE IsDir(q)
    <2>1. q \in DirAdds BY <1>2, <1>9, NodeKinds
    <2>2. q.parent \in Parents /\ q.name \in Names /\ q.id \in DirIds /\ q = DirAdd(q.parent, q.name, q.id)
      BY <2>1 DEF DirAdds, DirAdd
    <2>3. IsAdd(q) /\ Adds(q) BY <1>9 DEF IsAdd, Adds
    <2>4. Exists(vol, q.parent) /\ \A m \in Tree : ~Clash(m, q)
      BY <1>1, <1>3, <1>6, <2>3 DEF Sound, Adding
    <2>5. vol = Tree BY <1>1, <1>9, NoDirReplaced
    <2>6. Applied(vol, q) = vol \cup {q} BY <1>1, <2>3, <2>5, AppliedIs
    <2>7. \A m \in vol : ~(IsDir(m) /\ m.parent = q.parent /\ m.name = q.name)
      BY <1>9, <2>4, <2>5 DEF Clash, IsDir
    <2>8. Applied(vol, q) \in Store!MakeDir(q.parent, q.name, q.id)
      BY <1>5, <2>2, <2>4, <2>6, <2>7, SameTerms DEF Store!MakeDir
    <2>9. Applied(vol, q) \in Store!Changes BY <2>2, <2>8, ChangesAre
    <2>10. Store!Ids(Applied(vol, q)) \subseteq Store!Ids(vol) \cup {q.id} BY <1>7, <2>6
    <2>q. QED BY <1>1, <1>9, <2>9, <2>10
  <1>10. CASE ~Adds(q)
    <2>1. /\ vol = Tree
          /\ Applied(vol, q) = {m \in Tree : ~Removes(q, m)}
          /\ \A m, n \in Tree : Removes(q, m) /\ Removes(q, n) => m = n
      BY <1>1, <1>10, AppliedIs
    <2>2. Store!Ids(Applied(vol, q)) \subseteq Store!Ids(vol) BY <1>7, <2>1
    <2>3. ~IsDir(q) BY <1>10 DEF Adds
    <2>4. CASE \E m \in vol : Removes(q, m)
      <3>1. PICK m \in vol : Removes(q, m) BY <2>4
      <3>2. Applied(vol, q) = vol \ {m} BY <2>1, <3>1
      <3>3. ~(IsDir(m) /\ \E x \in vol : x.parent = m.id)
        <4> SUFFICES ASSUME IsDir(m), NEW x \in vol, x.parent = m.id PROVE FALSE OBVIOUS
        <4>1. q.type = "DIR_REMOVE" /\ m.id = q.id BY <3>1 DEF Removes, IsRecord, IsDir
        <4>2. ~IsAdd(q) BY <1>10 DEF IsAdd, Adds
        <4>3. 1 \in 1 .. Len(todo)
          <5>1. todo \in Seq(Nodes) BY DEF IInv, TypeOK
          <5>q. QED BY <5>1
        <4>4. \E i \in 1 .. 1 - 1 : Removes(todo[i], x)
          BY <1>1, <1>3, <2>1, <4>1, <4>2, <4>3 DEF Sound, Removing
        <4>q. QED BY <4>4
      <3>4. Applied(vol, q) \in Store!Remove(m) BY <3>2, <3>3, SameTerms DEF Store!Remove
      <3>5. Applied(vol, q) \in Store!Changes BY <3>4, ChangesAre
      <3>q. QED BY <1>1, <2>2, <2>3, <3>5
    <2>5. CASE ~ \E m \in vol : Removes(q, m)
      <3>1. Applied(vol, q) = vol BY <2>1, <2>5
      <3>q. QED BY <1>1, <2>2, <2>3, <3>1
    <2>q. QED BY <2>4, <2>5
  <1>q. QED BY <1>8, <1>9, <1>10 DEF Adds

\* A call that takes something off the lists takes a record.
LEMMA CallRisk ==
  ASSUME IInv, TInv, pc = "idle", pc' = "gc", Next, ~(LiveNodes \subseteq LiveNodes')
  PROVE  \E m \in LiveNodes : IsRecord(m) /\ LiveNodes \ LiveNodes' = {m}
  <1>1. list' # list
    <2>1. ASSUME list' = list PROVE FALSE
      <3>1. LiveNodes' = LiveNodes BY <2>1 DEF LiveNodes, Live
      <3>q. QED BY <3>1
    <2>q. QED BY <2>1
  <1>2. PICK p \in Parents, n \in Names, v \in Values : Write(p, n, v)
    BY <1>1 DEF Next, Call, Work, Sync, DelRecord, Mkdir, DelDir, treeVars, CollectStart, NodeCopy, DataCopy,
           NodeCopied, CollectSync, CollectErase, EntryStart, SectionHeadWrite, NodeWrite, EntryDone
  <1>3. PICK e \in Records(p, n) : ListDel(e) BY <1>1, <1>2 DEF Write
  <1>4. e \in Live /\ IsRecord(e.node) BY DEF Records
  <1>5. Live' = Live \ {e} BY <1>3, <1>4, DelLists DEF TInv, IInv
  <1>6. LiveNodes' = LiveNodes \ {e.node} /\ e.node \in LiveNodes BY <1>4, <1>5, Without DEF TInv
  <1>q. QED BY <1>4, <1>6

\* Every step while power lasts is a step of the store, or none.
LEMMA PowerStore ==
  ASSUME RInv, RInv', Next, History
  PROVE  [Store!StoreNext]_<<vol, kept, risk, torn>>
  <1>0. /\ IInv /\ TInv /\ LInv /\ Shape /\ Meaning /\ LInv' /\ Meaning'
        /\ Recoverable /\ LiveIs /\ VolIs /\ KeptIs /\ OnlyRecords /\ EntryLast
    BY DEF RInv, Meaning
  <1>1. torn' = torn BY DEF History
  <1>2. CASE Entered
    <2>1. pc = "emit" /\ out = << >> /\ ~copying BY <1>2 DEF Entered
    <2>2. EntryDone
      <3>1. unread = 0 BY <1>0, <2>1 DEF LInv, Phases
      <3>q. QED BY <2>1, <3>1 DEF Next, Call, Work, Sync, Write, DelRecord, Mkdir, DelDir, CanCall, CollectStart, NodeCopy,
                 DataCopy, NodeCopied, CollectSync, CollectErase, EntryStart, SectionHeadWrite, NodeWrite
    <2>3. todo # << >> BY <2>1, <1>0 DEF RInv, IInv, CallShape
    <2>4. ~Begun /\ ~Flushed /\ pc # "idle" BY <2>1 DEF Begun, Flushed
    <2>5. kept' = kept /\ risk' = risk BY <2>4 DEF History
    <2>6. vol' = Applied(vol, todo[1]) BY <1>0, <2>2, EntryDoneMeaning
    <2>7. vol' \in kept BY <1>0, <2>5 DEF Meaning, KeptIs
    <2>8. vol' \in Store!Changes \/ vol' = vol BY <1>0, <2>3, <2>6, AppliedChanges
    <2>9. CASE vol' \in Store!Changes
      <3>1. Store!Commit BY <1>1, <2>5, <2>7, <2>9 DEF Store!Commit
      <3>q. QED BY <3>1 DEF Store!StoreNext
    <2>10. CASE vol' = vol BY <1>1, <2>5, <2>10
    <2>q. QED BY <2>8, <2>9, <2>10
  <1>3. CASE ~Entered /\ Begun
    <2>1. pc = "gc" /\ pc' = "emit" BY <1>3 DEF Begun
    <2>2. vol' = vol /\ kept' = kept \cup {Applied(vol, todo[1])} /\ risk' = risk
      BY <1>3, <2>1 DEF History, Flushed
    <2>3. todo # << >> BY <2>1, <1>0 DEF RInv, IInv, CallShape
    <2>4. PICK store : store = Applied(vol, todo[1]) OBVIOUS
    <2>5. /\ store \in Store!Changes \/ store = vol
          /\ IsDir(todo[1]) \/ Store!Ids(store) \subseteq Store!Ids(vol)
          /\ IsDir(todo[1]) => Store!Ids(store) \subseteq Store!Ids(vol) \cup {todo[1].id}
      BY <1>0, <2>3, <2>4, AppliedChanges
    <2>6. CASE store = vol
      <3>1. kept' = kept BY <1>0, <2>2, <2>4, <2>6 DEF KeptIs
      <3>q. QED BY <1>1, <2>2, <3>1
    <2>7. CASE store \in Store!Changes
      <3>1. \A old \in kept : (Store!Ids(store) \ Store!Ids(vol)) \cap Store!Ids(old) = {}
        <4>1. CASE ~IsDir(todo[1]) BY <2>5, <4>1
        <4>2. CASE IsDir(todo[1])
          <5>1. \A old \in kept : todo[1].id \notin Store!Ids(old)
            <6>1. \A old \in kept : \A m \in old : IsDir(m) => m.id # todo[1].id
              BY <1>0, <2>1, <4>2 DEF KeptIs
            <6>q. QED BY <6>1, SameTerms DEF Store!Ids
          <5>q. QED BY <2>5, <4>2, <5>1
        <4>q. QED BY <4>1, <4>2
      <3>2. Store!Prepare BY <1>1, <2>2, <2>4, <2>7, <3>1 DEF Store!Prepare
      <3>q. QED BY <3>2 DEF Store!StoreNext
    <2>q. QED BY <2>5, <2>6, <2>7
  <1>4. CASE ~Entered /\ ~Begun /\ Flushed
    <2>1. vol' = vol /\ kept' = {vol} BY <1>4 DEF History
    <2>2. risk' \in {risk, {}} BY <1>4 DEF History, Flushed
    <2>3. Store!Synced BY <1>1, <2>1, <2>2 DEF Store!Synced
    <2>q. QED BY <2>3 DEF Store!StoreNext
  <1>5. CASE ~Entered /\ ~Begun /\ ~Flushed
    <2>1. vol' = vol /\ kept' = kept BY <1>5, QuietHistory
    <2>2. CASE ~(pc = "idle" /\ pc' = "gc")
      <3>1. risk' = risk BY <1>5, <2>2, QuietHistory
      <3>q. QED BY <1>1, <2>1, <3>1
    <2>3. CASE pc = "idle" /\ pc' = "gc"
      <3>1. risk' = risk \cup {Key(m) : m \in LiveNodes \ LiveNodes'} BY <1>5, <2>3, QuietHistory
      <3>2. LiveNodes = vol BY <1>0, <2>3, IdleMeaning DEF RInv
      <3>3. CASE LiveNodes \subseteq LiveNodes'
        <4>1. risk' = risk BY <3>1, <3>3
        <4>q. QED BY <1>1, <2>1, <4>1
      <3>4. CASE ~(LiveNodes \subseteq LiveNodes')
        <4>1. PICK m \in LiveNodes : IsRecord(m) /\ LiveNodes \ LiveNodes' = {m} BY <1>0, <2>3, <3>4, CallRisk
        <4>2. risk' = risk \cup {Store!NodeKey(m)} /\ Store!IsRecord(m) BY <3>1, <4>1, SameTerms
        <4>3. m \in vol BY <3>2, <4>1
        <4>4. Store!StartReplace BY <1>1, <2>1, <4>2, <4>3 DEF Store!StartReplace
        <4>q. QED BY <4>4 DEF Store!StoreNext
      <3>q. QED BY <3>3, <3>4
    <2>q. QED BY <2>2, <2>3
  <1>q. QED BY <1>2, <1>3, <1>4, <1>5

=============================================================================
