---------------------------- MODULE TinyFs_proof ----------------------------
(***************************************************************************)
(* Proofs about TinyFs for every geometry, node format and set of names:    *)
(* that every variable keeps its type, and that the page cache and the tail *)
(* of the log never drift apart.  IInv is the inductive invariant; its      *)
(* parts beside the two results are PageAddress and CallShape.              *)
(***************************************************************************)
EXTENDS TinyFs, TLAPS, WellFoundedInduction, NaturalsInduction, SequenceTheorems, FiniteSetTheorems

\* Quotient and remainder by a variable divisor, as one fact.
LEMMA ModDef ==
  ASSUME NEW a \in Nat, NEW p \in Nat \ {0}
  PROVE  /\ a % p \in 0 .. p - 1
         /\ a \div p \in Nat
         /\ a = (a \div p) * p + (a % p)
  OBVIOUS

\* Multiples of p are at least p apart.
LEMMA Mult ==
  ASSUME NEW k \in Nat, NEW l \in Nat, NEW p \in Nat \ {0}, k < l
  PROVE  k * p + p <= l * p
  OBVIOUS

\* Quotient and remainder are unique: flash addresses are computed from them.
LEMMA ModUnique ==
  ASSUME NEW p \in Nat \ {0}, NEW k \in Nat, NEW r \in 0 .. p - 1
  PROVE  /\ (k * p + r) % p = r
         /\ (k * p + r) \div p = k
  <1> DEFINE a == k * p + r
             l == a \div p
             m == a % p
  <1>0. a \in Nat OBVIOUS
  <1>1. l \in Nat /\ m \in 0 .. p - 1 /\ a = l * p + m
    BY <1>0, ModDef
  <1> HIDE DEF l, m
  <1>2. ~(k < l)
    <2> SUFFICES ASSUME k < l PROVE FALSE OBVIOUS
    <2>1. k * p + p <= l * p BY <1>1, Mult
    <2>q. QED BY <1>1, <2>1
  <1>3. ~(l < k)
    <2> SUFFICES ASSUME l < k PROVE FALSE OBVIOUS
    <2>1. l * p + p <= k * p BY <1>1, Mult
    <2>q. QED BY <1>1, <2>1
  <1>4. l = k BY <1>1, <1>2, <1>3
  <1>5. m = r BY <1>1, <1>4
  <1>q. QED BY <1>4, <1>5 DEF l, m

\* Two instances of ring arithmetic that Z3 does not find by itself.
LEMMA Distribute ==
  ASSUME NEW a \in Nat, NEW b \in Nat, NEW c \in Nat
  PROVE  (a + b) * c = a * c + b * c
  OBVIOUS

\* The same, for a product of three.
LEMMA Associate ==
  ASSUME NEW a \in Nat, NEW b \in Nat, NEW c \in Nat
  PROVE  a * (b * c) = (a * b) * c
  OBVIOUS

\* Adding less than what is left of a page stays in it, adding exactly what is
\* left reaches the next one.
LEMMA PageStep ==
  ASSUME NEW p \in Nat \ {0}, NEW a \in Nat, NEW k \in Nat, (a % p) + k <= p
  PROVE  /\ (a % p) + k < p => (a + k) % p = (a % p) + k
         /\ (a % p) + k = p => (a + k) % p = 0
  <1> DEFINE q == a \div p
             r == a % p
  <1>1. q \in Nat /\ r \in 0 .. p - 1 /\ a = q * p + r BY ModDef
  <1> HIDE DEF q, r
  <1>2. ASSUME r + k < p PROVE (a + k) % p = r + k
    <2>1. a + k = q * p + (r + k) BY <1>1
    <2>2. r + k \in 0 .. p - 1 BY <1>1, <1>2
    <2>q. QED BY <1>1, <2>1, <2>2, ModUnique
  <1>3. ASSUME r + k = p PROVE (a + k) % p = 0
    <2>1. a + k = (q + 1) * p + 0 BY <1>1, <1>3
    <2>q. QED BY <1>1, <2>1, ModUnique
  <1>q. QED BY <1>2, <1>3 DEF r

\* What GeometryAssumption says of the constants, unfolded once.
LEMMA Geometry ==
  /\ PageSize \in Nat \ {0} /\ SectionSize \in Nat \ {0} /\ SectionNum \in Nat \ {0}
  /\ HeadLen \in Nat \ {0} /\ HeadLen < SectionSize /\ Payload \in Nat \ {0}
  /\ SectionSize % PageSize = 0
  <1>1. PICK q \in 1 .. SectionSize : SectionSize = q * PageSize BY GeometryAssumption
  <1>2. SectionSize = q * PageSize + 0 BY <1>1, GeometryAssumption
  <1>3. SectionSize % PageSize = 0 BY <1>2, ModUnique, GeometryAssumption
  <1>q. QED BY <1>3, GeometryAssumption DEF Payload

\* A section is a whole number of pages: the page an offset of a section lies in
\* is the page its address lies in.
LEMMA AddressMod ==
  ASSUME NEW s \in Sections, NEW o \in Nat
  PROVE  /\ FlashAddr(s, o) \in Nat
         /\ FlashAddr(s, o) % PageSize = o % PageSize
  <1>1. PICK q \in 1 .. SectionSize : SectionSize = q * PageSize BY GeometryAssumption
  <1> DEFINE n == o \div PageSize
             r == o % PageSize
  <1>2. n \in Nat /\ r \in 0 .. PageSize - 1 /\ o = n * PageSize + r
    BY ModDef, Geometry
  <1> HIDE DEF n, r
  <1>3. s \in Nat /\ q \in Nat BY Geometry DEF Sections
  <1>4. s * SectionSize + o = (s * q + n) * PageSize + r
    <2>1. s * (q * PageSize) = (s * q) * PageSize BY <1>3, Associate, Geometry
    <2>2. (s * q + n) * PageSize = (s * q) * PageSize + n * PageSize
      BY <1>2, <1>3, Distribute, Geometry
    <2>q. QED BY <1>1, <1>2, <2>1, <2>2, <1>3, Geometry
  <1>5. s * q + n \in Nat BY <1>2, <1>3
  <1>6. FlashAddr(s, o) = (s * q + n) * PageSize + r BY <1>4 DEF FlashAddr
  <1>7. FlashAddr(s, o) % PageSize = r BY <1>2, <1>5, <1>6, ModUnique, Geometry
  <1>8. FlashAddr(s, o) \in Nat BY <1>3, Geometry DEF FlashAddr
  <1>q. QED BY <1>7, <1>8 DEF r

\* GET_FLASH_ADDR of an offset in a section is inside the volume.
LEMMA AddressRange ==
  ASSUME NEW s \in Sections, NEW o \in 0 .. SectionSize
  PROVE  /\ FlashAddr(s, o) \in Nat
         /\ FlashAddr(s, o) <= SectionNum * SectionSize
  <1>1. s \in Nat /\ s < SectionNum BY Geometry DEF Sections
  <1>2. s * SectionSize + SectionSize <= SectionNum * SectionSize
    BY <1>1, Mult, Geometry
  <1>q. QED BY <1>1, <1>2, Geometry DEF FlashAddr

-----------------------------------------------------------------------------
\* The kinds of nodes, and node_metadata_length[].
LEMMA NodeKinds ==
  ASSUME NEW n \in Nodes
  PROVE  /\ IsRecord(n) => n \in RecordAdds
         /\ IsDir(n) => n \in DirAdds
         /\ MetaLen(n) \in 1 .. AddLen
  BY LengthAssumption DEF Nodes, RecordAdds, DirAdds, RecordRemoves, DirRemoves, IsRecord, IsDir, MetaLen

\* node_total_length: a record is longer than its metadata and fits in a section.
LEMMA NodeLengths ==
  ASSUME NEW n \in Nodes
  PROVE  /\ NodeLen(n) \in Nat \ {0}
         /\ IsRecord(n) => NodeLen(n) > AddLen /\ NodeLen(n) <= Payload
         /\ ~IsRecord(n) => NodeLen(n) <= AddLen
  <1>1. CASE IsRecord(n)
    <2>1. n.val \in Values BY <1>1, NodeKinds DEF RecordAdds
    <2>2. DataLen[n.val] \in Nat \ {0} /\ AddLen + DataLen[n.val] + CrcLen <= Payload
      BY <2>1, LengthAssumption DEF Payload
    <2>q. QED BY <1>1, <2>2, LengthAssumption DEF NodeLen
  <1>2. CASE ~IsRecord(n)
    BY <1>2, NodeKinds, LengthAssumption DEF NodeLen
  <1>q. QED BY <1>1, <1>2

\* The image of a node is as long as the node.
LEMMA ImageType ==
  ASSUME NEW n \in Nodes
  PROVE  Image(n) \in Seq(Cells) /\ Len(Image(n)) = NodeLen(n)
  <1>1. \A i \in 1 .. NodeLen(n) : <<n, i>> \in Cells BY NodeLengths DEF Cells
  <1>2. Image(n) = [i \in 1 .. NodeLen(n) |-> <<n, i>>] BY DEF Image
  <1>3. NodeLen(n) \in Nat BY NodeLengths
  <1>q. QED BY <1>1, <1>2, <1>3

\* The image of a section_head_t is as long as the header.
LEMMA HeadImageType ==
  ASSUME NEW h \in Heads
  PROVE  HeadImage(h) \in Seq(Cells) /\ Len(HeadImage(h)) = HeadLen
  <1>1. \A i \in 1 .. HeadLen : <<h, i>> \in Cells BY Geometry DEF Cells
  <1>2. HeadImage(h) = [i \in 1 .. HeadLen |-> <<h, i>>] BY DEF HeadImage
  <1>q. QED BY <1>1, <1>2, Geometry

\* The page cache starts at a page.
PageAddress == bufAddr % PageSize = 0

\* What the cache holds is less than a page.
LEMMA CacheLength ==
  ASSUME TypeOK, CacheAligned
  PROVE  Len(buf) \in 0 .. PageSize - 1
  <1>1. avail \in Nat /\ Len(buf) = avail % PageSize BY DEF TypeOK, CacheAligned
  <1>2. avail % PageSize \in 0 .. PageSize - 1 BY <1>1, ModDef, Geometry
  <1>q. QED BY <1>1, <1>2

\* Every read of the volume, through the cache or past it, returns cells.
LEMMA ReadWithCacheType ==
  ASSUME TypeOK, CacheAligned, PageAddress,
         NEW addr \in Nat, NEW len \in Nat, addr + len <= SectionNum * SectionSize
  PROVE  ReadWithCache(addr, len) \in Seq(Cells) /\ Len(ReadWithCache(addr, len)) = len
  <1> DEFINE last == addr + len
             cached == last > bufAddr /\ last <= bufAddr + Len(buf)
             nvm == IF ~cached THEN len
                    ELSE IF addr < bufAddr THEN len - (last % PageSize) ELSE 0
             src == IF addr < bufAddr THEN 0 ELSE addr % PageSize
             cell(i) == IF i <= nvm THEN flash[addr + i - 1] ELSE buf[src + i - nvm]
  <1>1. \A i \in 1 .. len : flash[addr + i - 1] \in Cells
    <2> TAKE i \in 1 .. len
    <2>1. addr + i - 1 \in Addresses BY Geometry DEF Addresses
    <2>q. QED BY <2>1 DEF TypeOK
  <1>2. ASSUME cached, NEW i \in 1 .. len, i > nvm
        PROVE  buf[src + i - nvm] \in Cells
    <2>1. bufAddr \in Nat /\ buf \in Seq(Cells) /\ Len(buf) \in 0 .. PageSize - 1
      BY CacheLength DEF TypeOK
    <2> DEFINE k == bufAddr \div PageSize
    <2>2. k \in Nat /\ bufAddr = k * PageSize
      <3>1. k \in Nat /\ bufAddr = k * PageSize + (bufAddr % PageSize)
        BY <2>1, ModDef, Geometry
      <3> HIDE DEF k
      <3>q. QED BY <2>1, <3>1, Geometry DEF PageAddress
    <2> HIDE DEF k
    <2>3. \A a \in Nat : bufAddr <= a /\ a <= bufAddr + Len(buf) => a % PageSize = a - bufAddr
      <3> SUFFICES ASSUME NEW a \in Nat, bufAddr <= a, a <= bufAddr + Len(buf)
                   PROVE  a % PageSize = a - bufAddr
        OBVIOUS
      <3>1. a - bufAddr \in 0 .. PageSize - 1 BY <2>1, Geometry
      <3>2. a = k * PageSize + (a - bufAddr) BY <2>1, <2>2, Geometry
      <3>3. (k * PageSize + (a - bufAddr)) % PageSize = a - bufAddr
        BY <2>2, <3>1, ModUnique, Geometry
      <3>q. QED BY <3>2, <3>3
    <2>4. CASE addr < bufAddr
      <3>1. last % PageSize = last - bufAddr BY <1>2, <2>1, <2>3
      <3>2. nvm = bufAddr - addr /\ src = 0 BY <1>2, <2>1, <2>4, <3>1
      <3>3. src + i - nvm \in 1 .. Len(buf) BY <1>2, <2>1, <2>4, <3>2
      <3>q. QED BY <2>1, <3>3
    <2>5. CASE ~(addr < bufAddr)
      <3>1. addr % PageSize = addr - bufAddr BY <1>2, <2>1, <2>3, <2>5
      <3>2. nvm = 0 /\ src = addr - bufAddr BY <1>2, <2>5, <3>1
      <3>3. src + i - nvm \in 1 .. Len(buf) BY <1>2, <2>1, <2>5, <3>2
      <3>q. QED BY <2>1, <3>3
    <2>q. QED BY <2>4, <2>5
  <1>3. \A i \in 1 .. len : cell(i) \in Cells
    <2> SUFFICES ASSUME NEW i \in 1 .. len PROVE cell(i) \in Cells OBVIOUS
    <2>1. CASE i <= nvm BY <1>1, <2>1
    <2>2. CASE ~(i <= nvm)
      <3>1. cached BY <2>2
      <3>2. nvm \in Int
        <4>1. last % PageSize \in Nat BY ModDef, Geometry
        <4>q. QED BY <4>1
      <3>3. i > nvm BY <2>2, <3>2
      <3>4. buf[src + i - nvm] \in Cells BY <1>2, <3>1, <3>3
      <3>q. QED BY <2>2, <3>4
    <2>q. QED BY <2>1, <2>2
  <1>4. ReadWithCache(addr, len) = [i \in 1 .. len |-> cell(i)] BY DEF ReadWithCache
  <1> HIDE DEF cell
  <1>q. QED BY <1>3, <1>4

\* nvm_read_node, over the end of a section or not, returns as many cells.
LEMMA ReadNodeType ==
  ASSUME TypeOK, CacheAligned, PageAddress,
         NEW s \in Sections, NEW o \in 0 .. SectionSize, NEW len \in Nat, len <= Payload
  PROVE  ReadNode(s, o, len) \in Seq(Cells) /\ Len(ReadNode(s, o, len)) = len
  <1> DEFINE t == NextSection(s)
             here == SectionSize - o
  <1>1. t \in Sections BY Geometry DEF NextSection, Sections
  <1>2. CASE o + len <= SectionSize
    <2>1. FlashAddr(s, o) \in Nat /\ FlashAddr(s, o) + len <= SectionNum * SectionSize
      <3>1. FlashAddr(s, o) + len = FlashAddr(s, o + len)
        BY Geometry DEF FlashAddr, Sections
      <3>q. QED BY <1>2, <3>1, AddressRange, Geometry
    <2>q. QED BY <1>2, <2>1, ReadWithCacheType DEF ReadNode
  <1>3. CASE ~(o + len <= SectionSize)
    <2>1. here \in Nat /\ len - here \in Nat /\ HeadLen + (len - here) \in 0 .. SectionSize
      BY <1>3, Geometry DEF Payload
    <2>2. FlashAddr(s, o) \in Nat /\ FlashAddr(s, o) + here <= SectionNum * SectionSize
      <3>1. FlashAddr(s, o) + here = FlashAddr(s, SectionSize)
        BY Geometry DEF FlashAddr, Sections
      <3>q. QED BY <3>1, AddressRange, Geometry
    <2>3. FlashAddr(t, HeadLen) \in Nat
          /\ FlashAddr(t, HeadLen) + (len - here) <= SectionNum * SectionSize
      <3>1. FlashAddr(t, HeadLen) + (len - here) = FlashAddr(t, HeadLen + (len - here))
        BY <1>1, Geometry DEF FlashAddr, Sections
      <3>q. QED BY <1>1, <2>1, <3>1, AddressRange, Geometry
    <2>4. /\ ReadWithCache(FlashAddr(s, o), here) \in Seq(Cells)
          /\ Len(ReadWithCache(FlashAddr(s, o), here)) = here
      BY <2>1, <2>2, ReadWithCacheType
    <2>5. /\ ReadWithCache(FlashAddr(t, HeadLen), len - here) \in Seq(Cells)
          /\ Len(ReadWithCache(FlashAddr(t, HeadLen), len - here)) = len - here
      BY <2>1, <2>3, ReadWithCacheType
    <2>6. ReadNode(s, o, len) = ReadWithCache(FlashAddr(s, o), here)
                                \o ReadWithCache(FlashAddr(t, HeadLen), len - here)
      BY <1>3 DEF ReadNode
    <2>q. QED BY <2>1, <2>4, <2>5, <2>6
  <1>q. QED BY <1>2, <1>3

-----------------------------------------------------------------------------
(* What the shared parts of the actions do to the types. *)

Located == [node : Nodes, section : Sections, offset : 0 .. SectionSize - 1]

\* The shape of a call under way: what it has still to append, and the entry
\* node_write is at.
CallShape ==
    /\ pc # "idle" => todo # << >>
    /\ copying => pc = "emit" /\ entry.node \in RecordAdds \cup DirAdds
    /\ pc = "emit" => entry \in Located /\ (~copying => entry.node = todo[1])
    /\ unread <= Payload

IInv == TypeOK /\ CacheAligned /\ PageAddress /\ CallShape

\* What the lists hold are entries.
LEMMA LiveType ==
  ASSUME TypeOK
  PROVE  \A e \in Live : e \in Entries /\ e \in Located /\ e.section \in Sections /\ e.node \in Nodes
  <1> SUFFICES ASSUME NEW s \in Sections, NEW i \in 1 .. Len(list[s])
               PROVE  list[s][i] \in Entries
    BY DEF Live, Entries, Located, Nodes
  <1>1. list[s] \in Seq(Entries) BY DEF TypeOK
  <1>q. QED BY <1>1

\* get_next_section returns a section.
LEMMA NextSectionType ==
  ASSUME NEW s \in Sections
  PROVE  NextSection(s) \in Sections
  BY Geometry DEF NextSection, Sections

\* section_offset_calc returns a place in the volume.
LEMMA SectionOffsetType ==
  ASSUME NEW s \in Sections, NEW o \in 0 .. SectionSize, NEW len \in Nat, len <= Payload
  PROVE  SectionOffset(s, o, len) \in [section : Sections, offset : 0 .. SectionSize]
  <1>1. CASE o + len >= SectionSize
    <2>1. o + len - SectionSize + HeadLen \in 0 .. SectionSize
      BY <1>1, Geometry DEF Payload
    <2>q. QED BY <1>1, <2>1, NextSectionType DEF SectionOffset
  <1>2. CASE ~(o + len >= SectionSize)
    BY <1>2, Geometry DEF SectionOffset
  <1>q. QED BY <1>1, <1>2

\* tinyfs_list_del keeps the type of the lists.
LEMMA ListDelType ==
  ASSUME TypeOK, NEW e \in Located, ListDel(e)
  PROVE  list' \in [Sections -> Seq(Entries)] /\ size' \in [Sections -> Int]
  <1> DEFINE s == e.section
             l == list[s]
  <1>1. s \in Sections /\ e.node \in Nodes BY DEF Located
  <1>2. l \in Seq(Entries) BY <1>1 DEF TypeOK
  <1>3. PICK i \in 1 .. Len(l) : list' = [list EXCEPT ![s] = RemoveAt(l, i)]
    BY DEF ListDel
  <1> HIDE DEF l
  <1>4. SubSeq(l, 1, i - 1) \in Seq(Entries) /\ SubSeq(l, i + 1, Len(l)) \in Seq(Entries)
    BY <1>2, <1>3
  <1>5. RemoveAt(l, i) \in Seq(Entries) BY <1>4 DEF RemoveAt
  <1>6. list' \in [Sections -> Seq(Entries)] BY <1>3, <1>5 DEF TypeOK
  <1>7. size' \in [Sections -> Int]
    <2>1. NodeLen(e.node) \in Nat BY <1>1, NodeLengths
    <2>2. size \in [Sections -> Int] BY DEF TypeOK
    <2>3. size' = [size EXCEPT ![s] = @ - NodeLen(e.node)] BY DEF ListDel
    <2>q. QED BY <1>1, <2>1, <2>2, <2>3
  <1>q. QED BY <1>6, <1>7

\* tinyfs_list_push keeps the type of the lists.
LEMMA ListPushType ==
  ASSUME TypeOK, NEW e \in Entries, ListPush(e)
  PROVE  list' \in [Sections -> Seq(Entries)] /\ size' \in [Sections -> Int]
  <1>1. e.section \in Sections /\ e.node \in Nodes BY DEF Entries, Nodes
  <1>2. Append(list[e.section], e) \in Seq(Entries) BY <1>1 DEF TypeOK
  <1>3. NodeLen(e.node) \in Nat BY <1>1, NodeLengths
  <1>4. list \in [Sections -> Seq(Entries)] /\ size \in [Sections -> Int] BY DEF TypeOK
  <1>5. /\ list' = [list EXCEPT ![e.section] = Append(list[e.section], e)]
        /\ size' = [size EXCEPT ![e.section] = @ + NodeLen(e.node)]
    BY DEF ListPush
  <1>q. QED BY <1>1, <1>2, <1>3, <1>4, <1>5

\* A set of numbers that is not empty has a least element.
LEMMA MinType ==
  ASSUME NEW S \in SUBSET Nat, S # {}
  PROVE  Min(S) \in S
  <1>1. \E x \in S : \A y \in S : ~(<<y, x>> \in OpToRel(<, Nat))
    BY NatLessThanWellFounded, WFMin
  <1>2. \E x \in S : \A y \in S : x <= y
    <2>1. PICK x \in S : \A y \in S : ~(<<y, x>> \in OpToRel(<, Nat)) BY <1>1
    <2>2. \A y \in S : ~(y < x) BY <2>1 DEF OpToRel
    <2>q. QED BY <2>2
  <1>q. QED BY <1>2 DEF Min

\* section_wipe_check answers with a number of sections, or one too many.
LEMMA WipeCountType ==
  ASSUME NEW sizes, NEW need
  PROVE  WipeCount(sizes, need) \in 0 .. SectionNum + 1
  <1> DEFINE sec(i) == (headSec + i - 1) % SectionNum
             dead[i \in 0 .. SectionNum] ==
               IF i = 0 THEN 0 ELSE dead[i - 1] + Payload - sizes[sec(i)]
             enough == {i \in 1 .. SectionNum : dead[i] > need}
  <1>1. WipeCount(sizes, need) = IF enough = {} THEN SectionNum + 1 ELSE Min(enough)
    BY DEF WipeCount
  <1>2. enough \in SUBSET (1 .. SectionNum) OBVIOUS
  <1> HIDE DEF enough
  <1>3. ASSUME enough # {} PROVE Min(enough) \in 1 .. SectionNum
    <2>1. enough \in SUBSET Nat BY <1>2, Geometry
    <2>2. Min(enough) \in enough BY <1>3, <2>1, MinType
    <2>q. QED BY <1>2, <2>2
  <1>q. QED BY <1>1, <1>3, Geometry

\* Entering garbage_collect_try for a sequence of entries.
LEMMA EnterType ==
  ASSUME NEW entries \in Seq(Nodes), entries # << >>, Enter(entries)
  PROVE  /\ todo' \in Seq(Nodes) /\ todo' # << >>
         /\ pc' = "gc" /\ rounds' = 0 /\ allowed' \in 0 .. SectionNum + 1
  BY WipeCountType DEF Enter

\* node_write starts an entry at a place inside a section.
LEMMA StartEntryType ==
  ASSUME TypeOK, CacheAligned, NEW node \in Nodes, NEW cells \in Seq(Cells),
         StartEntry(node, cells)
  PROVE  /\ entry' \in Located /\ entry'.node = node
         /\ out' \in Seq(Cells) /\ starting' = TRUE /\ free' \in Int /\ pc' = "emit"
  <1>1. NewAddress.section \in Sections /\ NewAddress.offset \in 0 .. SectionSize - 1
    <2>1. CASE avail = SectionSize
      BY <2>1, NextSectionType, Geometry DEF NewAddress, TypeOK
    <2>2. CASE avail # SectionSize
      BY <2>2, Geometry DEF NewAddress, TypeOK, CacheAligned
    <2>q. QED BY <2>1, <2>2
  <1>q. QED BY <1>1 DEF StartEntry, Located, TypeOK

\* nvm_program keeps the type of the volume.
LEMMA FlashWithType ==
  ASSUME TypeOK, NEW cells \in Seq(Cells), NEW addr \in Nat
  PROVE  FlashWith(cells, addr) \in [Addresses -> Cells]
  <1> SUFFICES ASSUME NEW a \in Addresses, a >= addr, a < addr + Len(cells)
               PROVE  Programmed(flash[a], cells[a - addr + 1]) \in Cells
    BY DEF FlashWith, TypeOK
  <1>1. a \in Nat BY Geometry DEF Addresses
  <1>2. cells[a - addr + 1] \in Cells BY <1>1
  <1>3. flash[a] \in Cells /\ Garbage \in Cells BY DEF TypeOK, Cells
  <1>q. QED BY <1>2, <1>3 DEF Programmed

\* data_write_through leaves an empty cache and a tail at the start of a page.
LEMMA WriteThroughType ==
  ASSUME TypeOK, CacheAligned, WriteThrough
  PROVE  /\ free' \in Int /\ flash' \in [Addresses -> Cells]
         /\ buf' = << >> /\ avail' \in 0 .. SectionSize /\ avail' % PageSize = 0
  <1> DEFINE r == avail % PageSize
             q == avail \div PageSize
  <1>1. avail \in Nat /\ avail <= SectionSize BY DEF TypeOK, CacheAligned
  <1>2. r \in 0 .. PageSize - 1 /\ q \in Nat /\ avail = q * PageSize + r
    BY <1>1, ModDef, Geometry
  <1>3. free' \in Int BY <1>2, Geometry DEF WriteThrough, PadLen, TypeOK
  <1>4. flash' \in [Addresses -> Cells] BY FlashWithType DEF WriteThrough, TypeOK
  <1>5. CASE r = 0 BY <1>1, <1>3, <1>4, <1>5 DEF WriteThrough
  <1>6. CASE r # 0
    <2> HIDE DEF r, q
    <2>1. PICK n \in 1 .. SectionSize : SectionSize = n * PageSize BY GeometryAssumption
    <2>2. q < n
      <3> SUFFICES ASSUME ~(q < n) PROVE FALSE OBVIOUS
      <3>1. CASE n = q BY <1>1, <1>2, <1>6, <2>1, <3>1, Geometry
      <3>2. CASE n < q
        <4>1. n * PageSize + PageSize <= q * PageSize BY <1>2, <3>2, Mult, Geometry
        <4>q. QED BY <1>1, <1>2, <2>1, <4>1, Geometry
      <3>q. QED BY <1>2, <2>1, <3>1, <3>2
    <2>3. q * PageSize + PageSize <= SectionSize BY <1>2, <2>1, <2>2, Mult, Geometry
    <2>4. avail' = q * PageSize + PageSize
      <3>1. avail' = avail - r + PageSize BY <1>6 DEF WriteThrough, r
      <3>q. QED BY <1>2, <3>1, Geometry
    <2>5. avail' = (q + 1) * PageSize + 0 BY <1>2, <2>4, Geometry
    <2>6. ((q + 1) * PageSize + 0) % PageSize = 0 BY <1>2, ModUnique, Geometry
    <2>7. q * PageSize \in Nat BY <1>2, Geometry
    <2>q. QED BY <1>3, <1>4, <2>3, <2>4, <2>5, <2>6, <2>7, Geometry DEF WriteThrough
  <1>q. QED BY <1>5, <1>6

-----------------------------------------------------------------------------
(* Every action preserves the invariant. *)

\* tinyfs_init on an erased volume establishes the invariant.
LEMMA InitInv == Init => IInv
  <1> SUFFICES ASSUME Init PROVE IInv OBVIOUS
  <1>1. TypeOK
    <2>1. flash \in [Addresses -> Cells] BY DEF Init, Cells
    <2>2. PrevSection(0) \in Sections /\ 0 \in Sections
      BY Geometry DEF PrevSection, Sections
    <2>3. free \in Int BY Geometry DEF Init
    <2>4. list \in [Sections -> Seq(Entries)] /\ size \in [Sections -> Int] BY DEF Init
    <2>5. tailCount \in 0 .. CountRange - 1 BY LengthAssumption DEF Init
    <2>6. allowed \in 0 .. SectionNum + 1 BY Geometry DEF Init
    <2>7. dirIdMax \in Parents BY DEF Init, Parents, RootId
    <2>8. buf \in Seq(Cells) /\ out \in Seq(Cells) /\ todo \in Seq(Nodes) BY DEF Init
    <2>9. /\ bufAddr \in Nat /\ avail \in Nat /\ rounds \in Nat
          /\ pc \in {"idle", "gc", "copy", "emit", "erase"}
          /\ starting \in BOOLEAN /\ copying \in BOOLEAN /\ entry = NoEntry
          /\ unread \in Nat
      BY Geometry DEF Init
    <2>10. headSec \in Sections /\ tailSec \in Sections BY <2>2 DEF Init
    <2>11. source \in [section : Sections, offset : 0 .. SectionSize]
      BY <2>2, Geometry DEF Init, NoSource
    <2>q. QED BY <2>11, <2>1, <2>3, <2>4, <2>5, <2>6, <2>7, <2>8, <2>9, <2>10 DEF TypeOK
  <1>2. CacheAligned BY Geometry DEF Init, CacheAligned
  <1>3. PageAddress
    <2>1. 0 = 0 * PageSize + 0 BY Geometry
    <2>2. (0 * PageSize + 0) % PageSize = 0 BY ModUnique, Geometry
    <2>q. QED BY <2>1, <2>2 DEF Init, PageAddress
  <1>4. CallShape BY Geometry DEF Init, CallShape
  <1>q. QED BY <1>1, <1>2, <1>3, <1>4 DEF IInv

\* A call enters the collector with what it has to append.
LEMMA CallInv ==
  ASSUME IInv,
         UNCHANGED <<logVars, headSec, free, out, starting, entry, copying, source, unread>>,
         dirIdMax' \in Parents, copying = FALSE,
         list' \in [Sections -> Seq(Entries)], size' \in [Sections -> Int],
         NEW entries \in Seq(Nodes), entries # << >>, Enter(entries)
  PROVE  IInv'
  <1>1. /\ todo' \in Seq(Nodes) /\ todo' # << >>
        /\ pc' = "gc" /\ rounds' = 0 /\ allowed' \in 0 .. SectionNum + 1
    BY EnterType
  <1>2. TypeOK' BY <1>1 DEF IInv, TypeOK, logVars
  <1>3. CacheAligned' /\ PageAddress'
    BY DEF IInv, CacheAligned, PageAddress, logVars
  <1>4. CallShape' BY <1>1 DEF IInv, CallShape
  <1>q. QED BY <1>2, <1>3, <1>4 DEF IInv

\* The collector copies only while something is emitted.
LEMMA IdleNotCopying ==
  ASSUME IInv, pc # "emit"
  PROVE  copying = FALSE
  BY DEF IInv, TypeOK, CallShape

\* tinyfs_write preserves the invariant.
LEMMA WriteInv ==
  ASSUME IInv, NEW p \in Parents, NEW n \in Names, NEW v \in Values, Write(p, n, v)
  PROVE  IInv'
  <1>1. copying = FALSE BY IdleNotCopying DEF Write, CanCall
  <1>2. list' \in [Sections -> Seq(Entries)] /\ size' \in [Sections -> Int]
    <2>1. ASSUME NEW e \in Records(p, n), ListDel(e)
          PROVE  list' \in [Sections -> Seq(Entries)] /\ size' \in [Sections -> Int]
      BY <2>1, LiveType, ListDelType DEF Records, IInv
    <2>2. CASE UNCHANGED <<list, size>> BY <2>2 DEF IInv, TypeOK
    <2>q. QED BY <2>1, <2>2 DEF Write
  <1>3. <<RecordAdd(p, n, v)>> \in Seq(Nodes) /\ <<RecordAdd(p, n, v)>> # << >>
    BY DEF Nodes, RecordAdds, RecordAdd
  <1>4. dirIdMax' \in Parents BY DEF Write, IInv, TypeOK
  <1>q. QED BY <1>1, <1>2, <1>3, <1>4, CallInv DEF Write

\* tinyfs_del_record preserves the invariant.
LEMMA DelRecordInv ==
  ASSUME IInv, NEW p \in Parents, NEW n \in Names, DelRecord(p, n)
  PROVE  IInv'
  <1>1. copying = FALSE BY IdleNotCopying DEF DelRecord, CanCall
  <1>2. <<RecordRemove(p, n)>> \in Seq(Nodes) /\ <<RecordRemove(p, n)>> # << >>
    BY DEF Nodes, RecordRemoves, RecordRemove
  <1>3. /\ list' \in [Sections -> Seq(Entries)] /\ size' \in [Sections -> Int]
        /\ dirIdMax' \in Parents
    BY DEF DelRecord, IInv, TypeOK
  <1>q. QED BY <1>1, <1>2, <1>3, CallInv DEF DelRecord

\* tinyfs_mkdir preserves the invariant.
LEMMA MkdirInv ==
  ASSUME IInv, NEW p \in Parents, NEW n \in Names, Mkdir(p, n)
  PROVE  IInv'
  <1>1. copying = FALSE BY IdleNotCopying DEF Mkdir, CanCall
  <1>2. dirIdMax + 1 \in DirIds
    BY LengthAssumption DEF Mkdir, IInv, TypeOK, Parents, RootId, DirIds
  <1>3. /\ <<DirAdd(p, n, dirIdMax + 1)>> \in Seq(Nodes)
        /\ <<DirAdd(p, n, dirIdMax + 1)>> # << >>
    BY <1>2 DEF Nodes, DirAdds, DirAdd
  <1>4. /\ list' \in [Sections -> Seq(Entries)] /\ size' \in [Sections -> Int]
        /\ dirIdMax' \in Parents
    BY <1>2 DEF Mkdir, IInv, TypeOK, Parents
  <1>q. QED BY <1>1, <1>3, <1>4, CallInv DEF Mkdir

\* tinyfs_del_dir preserves the invariant.
LEMMA DelDirInv ==
  ASSUME IInv, NEW d \in DirIds, NEW force \in BOOLEAN, DelDir(d, force)
  PROVE  IInv'
  <1> DEFINE nodes == IF force THEN Below(d) ELSE {}
  <1>1. copying = FALSE BY IdleNotCopying DEF DelDir, CanCall
  <1>2. nodes \subseteq RecordAdds \cup DirAdds
    <2>1. LiveNodes \subseteq RecordAdds \cup DirAdds
      BY LiveType DEF LiveNodes, Entries, IInv
    <2>q. QED BY <2>1 DEF Below
  <1>3. PICK order \in RemovalOrders(nodes) :
            Enter(Append([i \in DOMAIN order |-> RemovalOf(order[i])], DirRemove(d)))
    BY DEF DelDir
  <1> HIDE DEF nodes
  <1>4. PICK k \in Nat : order \in [1 .. k -> nodes] BY BoundAssumption DEF RemovalOrders
  <1>5. \A m \in RecordAdds \cup DirAdds : RemovalOf(m) \in Nodes
    BY DEF RemovalOf, RecordAdds, DirAdds, RecordRemoves, DirRemoves, RecordRemove, DirRemove,
           IsDir, Nodes
  <1>6. \A i \in 1 .. k : RemovalOf(order[i]) \in Nodes BY <1>2, <1>4, <1>5
  <1>7. [i \in DOMAIN order |-> RemovalOf(order[i])] \in Seq(Nodes)
    <2>1. DOMAIN order = 1 .. k BY <1>4
    <2>q. QED BY <1>6, <2>1
  <1>8. DirRemove(d) \in Nodes BY DEF Nodes, DirRemoves, DirRemove
  <1> DEFINE entries == Append([i \in DOMAIN order |-> RemovalOf(order[i])], DirRemove(d))
  <1>9. entries \in Seq(Nodes) /\ entries # << >> BY <1>7, <1>8
  <1>10. /\ list' \in [Sections -> Seq(Entries)] /\ size' \in [Sections -> Int]
         /\ dirIdMax' \in Parents
    BY DEF DelDir, IInv, TypeOK
  <1> HIDE DEF entries
  <1>11. Enter(entries) BY <1>3 DEF entries
  <1>q. QED BY <1>1, <1>9, <1>10, <1>11, CallInv DEF DelDir

\* tinyfs_write_through preserves the invariant.
LEMMA SyncInv ==
  ASSUME IInv, Sync
  PROVE  IInv'
  <1>1. /\ free' \in Int /\ flash' \in [Addresses -> Cells]
        /\ buf' = << >> /\ avail' \in 0 .. SectionSize /\ avail' % PageSize = 0
    BY WriteThroughType DEF IInv, Sync
  <1>2. TypeOK' BY <1>1, Geometry DEF IInv, TypeOK, Sync, treeVars, callVars
  <1>3. CacheAligned' /\ PageAddress'
    <2>1. Len(buf') = 0 /\ avail' <= SectionSize BY <1>1, Geometry
    <2>2. CacheAligned' BY <1>1, <2>1 DEF CacheAligned
    <2>3. bufAddr' = bufAddr BY DEF Sync
    <2>q. QED BY <2>2, <2>3 DEF IInv, PageAddress
  <1>4. CallShape' BY DEF IInv, CallShape, Sync, callVars
  <1>q. QED BY <1>2, <1>3, <1>4 DEF IInv

\* garbage_collect_try preserves the invariant when it starts a round.
LEMMA CollectStartInv ==
  ASSUME IInv, CollectStart
  PROVE  IInv'
  <1>1. copying = FALSE BY IdleNotCopying DEF CollectStart
  <1>2. TypeOK' BY DEF IInv, TypeOK, CollectStart, logVars, treeVars
  <1>3. CacheAligned' /\ PageAddress'
    BY DEF IInv, CacheAligned, PageAddress, CollectStart, logVars
  <1>4. CallShape' BY <1>1 DEF IInv, CallShape, CollectStart
  <1>q. QED BY <1>2, <1>3, <1>4 DEF IInv

\* The entry of node_write: the address it will return is that of its node.
LEMMA StartEntryInv ==
  ASSUME IInv, NEW node \in Nodes, NEW cells \in Seq(Cells), StartEntry(node, cells),
         UNCHANGED <<logVars, headSec, dirIdMax, todo, rounds, allowed>>,
         list' \in [Sections -> Seq(Entries)], size' \in [Sections -> Int],
         copying' \in BOOLEAN, todo # << >>,
         copying' => node \in RecordAdds \cup DirAdds,
         ~copying' => node = todo[1],
         source' \in [section : Sections, offset : 0 .. SectionSize],
         unread' \in Nat, unread' <= Payload
  PROVE  IInv'
  <1>1. /\ entry' \in Located /\ entry'.node = node
        /\ out' \in Seq(Cells) /\ starting' = TRUE /\ free' \in Int /\ pc' = "emit"
    BY StartEntryType DEF IInv
  <1>2. TypeOK' BY <1>1 DEF IInv, TypeOK, logVars, Located
  <1>3. CacheAligned' /\ PageAddress' BY DEF IInv, CacheAligned, PageAddress, logVars
  <1>4. CallShape' BY <1>1, Geometry DEF CallShape, Payload
  <1>q. QED BY <1>2, <1>3, <1>4 DEF IInv

\* node_copy preserves the invariant: the data to copy lie within one section of the metadata.
LEMMA NodeCopyInv ==
  ASSUME IInv, NodeCopy
  PROVE  IInv'
  <1> DEFINE e == list[headSec][1]
             cells == SubSeq(Image(e.node), 1, MetaLen(e.node))
  <1>1. e \in Entries
    <2>1. list[headSec] \in Seq(Entries) /\ list[headSec] # << >>
      BY DEF IInv, TypeOK, NodeCopy
    <2>q. QED BY <2>1
  <1>2. /\ ListDel(e) /\ StartEntry(e.node, cells)
        /\ unread' = NodeLen(e.node) - MetaLen(e.node)
        /\ source' = SectionOffset(e.section, e.offset, MetaLen(e.node))
    BY DEF NodeCopy
  <1> HIDE DEF e
  <1>3. /\ e.node \in RecordAdds \cup DirAdds /\ e.node \in Nodes /\ e \in Located
        /\ e.section \in Sections /\ e.offset \in 0 .. SectionSize - 1
    BY <1>1 DEF Entries, Nodes, Located
  <1>4. /\ NodeLen(e.node) \in Nat /\ MetaLen(e.node) \in Nat \ {0}
        /\ MetaLen(e.node) <= NodeLen(e.node) /\ NodeLen(e.node) <= Payload
    <2>1. NodeLen(e.node) \in Nat \ {0} BY <1>3, NodeLengths
    <2>2. MetaLen(e.node) \in 1 .. AddLen /\ AddLen \in Nat BY <1>3, NodeKinds, LengthAssumption
    <2>3. CASE IsRecord(e.node) BY <1>3, <2>1, <2>2, <2>3, NodeLengths
    <2>4. CASE ~IsRecord(e.node)
      <3>1. NodeLen(e.node) = MetaLen(e.node) BY <2>4 DEF NodeLen
      <3>2. AddLen <= Payload BY LengthAssumption DEF Payload
      <3>q. QED BY <2>1, <2>2, <3>1, <3>2, Geometry
    <2>q. QED BY <2>3, <2>4
  <1>5. cells \in Seq(Cells)
    <2>1. Image(e.node) \in Seq(Cells) /\ Len(Image(e.node)) = NodeLen(e.node)
      BY <1>3, ImageType
    <2>q. QED BY <1>4, <2>1
  <1>6. unread' \in Nat /\ unread' <= Payload BY <1>2, <1>4, Geometry
  <1>7. source' \in [section : Sections, offset : 0 .. SectionSize]
    <2>1. e.offset \in 0 .. SectionSize /\ MetaLen(e.node) <= Payload
      BY <1>3, <1>4, Geometry
    <2>q. QED BY <1>2, <1>3, <1>4, <2>1, SectionOffsetType
  <1> HIDE DEF cells
  <1>8. list' \in [Sections -> Seq(Entries)] /\ size' \in [Sections -> Int]
    BY <1>2, <1>3, ListDelType DEF IInv
  <1>9. todo # << >> BY DEF IInv, CallShape, NodeCopy
  <1>10. copying' = TRUE /\ UNCHANGED <<logVars, headSec, dirIdMax, todo, rounds, allowed>>
    BY DEF NodeCopy
  <1>q. QED BY <1>2, <1>3, <1>5, <1>6, <1>7, <1>8, <1>9, <1>10, StartEntryInv

\* What the copy loop reads lies in the volume: a node runs over the end of one
\* section at most.
LEMMA DataCopyInv ==
  ASSUME IInv, DataCopy
  PROVE  IInv'
  <1> DEFINE k == IF unread > CopyLen THEN CopyLen ELSE unread
  <1>1. /\ out' = ReadNode(source.section, source.offset, k)
        /\ source' = SectionOffset(source.section, source.offset, k)
        /\ unread' = unread - k /\ free' = free - k /\ pc = "emit"
        /\ UNCHANGED <<logVars, headSec, treeVars, pc, todo, starting, entry, copying,
                       rounds, allowed>>
    BY DEF DataCopy
  <1>2. k \in Nat /\ k <= unread /\ k <= Payload /\ unread \in Nat /\ unread <= Payload
    BY BoundAssumption, Geometry DEF IInv, TypeOK, CallShape
  <1> HIDE DEF k
  <1>3. source.section \in Sections /\ source.offset \in 0 .. SectionSize
    BY DEF IInv, TypeOK
  <1>4. out' \in Seq(Cells) BY <1>1, <1>2, <1>3, ReadNodeType DEF IInv
  <1>5. source' \in [section : Sections, offset : 0 .. SectionSize]
    BY <1>1, <1>2, <1>3, SectionOffsetType
  <1>6. unread' \in Nat /\ unread' <= Payload BY <1>1, <1>2, Geometry
  <1>7. free' \in Int BY <1>1, <1>2 DEF IInv, TypeOK
  <1>8. TypeOK' BY <1>1, <1>4, <1>5, <1>6, <1>7 DEF IInv, TypeOK, logVars, treeVars
  <1>9. CacheAligned' /\ PageAddress' BY <1>1 DEF IInv, CacheAligned, PageAddress, logVars
  <1>10. CallShape' BY <1>1, <1>6 DEF IInv, CallShape, Payload
  <1>q. QED BY <1>8, <1>9, <1>10 DEF IInv

\* Starting the entry of a call preserves the invariant.
LEMMA EntryStartInv ==
  ASSUME IInv, EntryStart
  PROVE  IInv'
  <1>1. todo # << >> /\ copying = FALSE
    BY IdleNotCopying DEF IInv, CallShape, EntryStart
  <1>2. todo[1] \in Nodes BY <1>1 DEF IInv, TypeOK
  <1>3. Image(todo[1]) \in Seq(Cells) BY <1>2, ImageType
  <1>4. /\ list' \in [Sections -> Seq(Entries)] /\ size' \in [Sections -> Int]
        /\ source' \in [section : Sections, offset : 0 .. SectionSize]
        /\ unread' \in Nat /\ unread' <= Payload /\ copying' = FALSE
    BY <1>1 DEF IInv, TypeOK, CallShape, EntryStart, treeVars
  <1>5. /\ StartEntry(todo[1], Image(todo[1]))
        /\ UNCHANGED <<logVars, headSec, dirIdMax, todo, rounds, allowed>>
    BY DEF EntryStart, treeVars
  <1>q. QED BY <1>1, <1>2, <1>3, <1>4, <1>5, StartEntryInv

\* The end of node_copy preserves the invariant.
LEMMA NodeCopiedInv ==
  ASSUME IInv, NodeCopied
  PROVE  IInv'
  <1>1. entry \in Entries
    BY DEF IInv, CallShape, NodeCopied, Located, Entries
  <1>2. list' \in [Sections -> Seq(Entries)] /\ size' \in [Sections -> Int]
    BY <1>1, ListPushType DEF IInv, NodeCopied
  <1>6. NoSource \in [section : Sections, offset : 0 .. SectionSize]
    BY Geometry DEF NoSource, Sections
  <1>3. TypeOK' BY <1>2, <1>6 DEF IInv, TypeOK, NodeCopied, logVars
  <1>4. CacheAligned' /\ PageAddress'
    BY DEF IInv, CacheAligned, PageAddress, NodeCopied, logVars
  <1>5. CallShape' BY DEF IInv, CallShape, NodeCopied
  <1>q. QED BY <1>3, <1>4, <1>5 DEF IInv

\* data_write_through before an erasure preserves the invariant.
LEMMA CollectSyncInv ==
  ASSUME IInv, CollectSync
  PROVE  IInv'
  <1>1. /\ free' \in Int /\ flash' \in [Addresses -> Cells]
        /\ buf' = << >> /\ avail' \in 0 .. SectionSize /\ avail' % PageSize = 0
    BY WriteThroughType DEF IInv, CollectSync
  <1>2. TypeOK' BY <1>1, Geometry DEF IInv, TypeOK, CollectSync, treeVars
  <1>3. CacheAligned' /\ PageAddress'
    <2>1. Len(buf') = 0 /\ avail' <= SectionSize BY <1>1, Geometry
    <2>2. CacheAligned' BY <1>1, <2>1 DEF CacheAligned
    <2>3. bufAddr' = bufAddr BY DEF CollectSync
    <2>q. QED BY <2>2, <2>3 DEF IInv, PageAddress
  <1>4. copying = FALSE BY IdleNotCopying DEF CollectSync
  <1>5. CallShape' BY <1>4 DEF IInv, CallShape, CollectSync
  <1>q. QED BY <1>2, <1>3, <1>5 DEF IInv

\* tinyfs_section_erase preserves the invariant.
LEMMA CollectEraseInv ==
  ASSUME IInv, CollectErase
  PROVE  IInv'
  <1>1. flash' \in [Addresses -> Cells]
    BY DEF IInv, TypeOK, CollectErase, SectionErase, Cells
  <1>2. headSec' \in Sections /\ free' \in Int /\ rounds' \in Nat
    BY NextSectionType, Geometry DEF IInv, TypeOK, CollectErase
  <1>3. TypeOK' BY <1>1, <1>2 DEF IInv, TypeOK, CollectErase, treeVars
  <1>4. CacheAligned' /\ PageAddress'
    BY DEF IInv, CacheAligned, PageAddress, CollectErase
  <1>5. copying = FALSE BY IdleNotCopying DEF CollectErase
  <1>6. CallShape' BY <1>5 DEF IInv, CallShape, CollectErase
  <1>q. QED BY <1>3, <1>4, <1>6 DEF IInv

\* section_head_write preserves the invariant: the tail moves from the end of a section to the start of the next.
LEMMA SectionHeadWriteInv ==
  ASSUME IInv, SectionHeadWrite
  PROVE  IInv'
  <1> DEFINE h == SectionHead(tailCount', HeadNodeOffset(starting, Len(out) + unread))
  <1>1. tailCount' \in 0 .. CountRange - 1
    <2>1. tailCount + 1 \in Nat BY LengthAssumption DEF IInv, TypeOK
    <2>2. (tailCount + 1) % CountRange \in 0 .. CountRange - 1
      BY <2>1, ModDef, LengthAssumption
    <2>q. QED BY <2>2 DEF SectionHeadWrite
  <1>2. HeadNodeOffset(starting, Len(out) + unread) \in 0 .. SectionSize - 1
    <2>1. Len(out) + unread \in Nat BY DEF IInv, TypeOK
    <2>q. QED BY <2>1, Geometry DEF HeadNodeOffset
  <1>3. h \in Heads BY <1>1, <1>2 DEF SectionHead, Heads
  <1>4. out' \in Seq(Cells)
    <2>1. HeadImage(h) \in Seq(Cells) BY <1>3, HeadImageType
    <2>2. out \in Seq(Cells) BY DEF IInv, TypeOK
    <2>3. out' = HeadImage(h) \o out BY DEF SectionHeadWrite
    <2> HIDE DEF h
    <2>q. QED BY <2>1, <2>2, <2>3
  <1>5. tailSec' \in Sections /\ avail' = 0
    BY NextSectionType DEF IInv, TypeOK, SectionHeadWrite
  <1>6. TypeOK'
    <2>1. UNCHANGED <<flash, buf, bufAddr, headSec, free, list, size, dirIdMax,
                      pc, todo, starting, entry, copying, source, unread, rounds, allowed>>
      BY DEF SectionHeadWrite, treeVars
    <2>2. avail' \in Nat BY <1>5
    <2>q. QED BY <1>1, <1>4, <1>5, <2>1, <2>2 DEF IInv, TypeOK
  <1>7. CacheAligned' /\ PageAddress'
    <2>1. Len(buf) = 0 BY Geometry DEF IInv, CacheAligned, SectionHeadWrite
    <2>2. buf = << >> BY <2>1 DEF IInv, TypeOK
    <2>3. 0 % PageSize = 0
      <3>1. 0 = 0 * PageSize + 0 BY Geometry
      <3>q. QED BY <3>1, ModUnique, Geometry
    <2>q. QED BY <1>5, <2>1, <2>2, <2>3, Geometry
              DEF IInv, CacheAligned, PageAddress, SectionHeadWrite
  <1>8. CallShape' BY DEF IInv, CallShape, SectionHeadWrite
  <1>q. QED BY <1>6, <1>7, <1>8 DEF IInv

\* One pass of tinyfs_nvm_program: the cache fills up to the end of the page at
\* most, and starts anew exactly when the tail reaches that end.
LEMMA NodeWriteInv ==
  ASSUME IInv, NodeWrite
  PROVE  IInv'
  <1> DEFINE room == PageSize - Len(buf)
             left == SectionSize - avail
             most == IF room < left THEN room ELSE left
             k == IF Len(out) < most THEN Len(out) ELSE most
             cells == SubSeq(out, 1, k)
             addr == FlashAddr(tailSec, avail)
             page == (addr \div PageSize) * PageSize
             filled == buf \o cells
  <1>1. /\ CacheProgram(cells, addr) /\ avail' = avail + k
        /\ out' = SubSeq(out, k + 1, Len(out)) /\ starting' = FALSE
        /\ UNCHANGED <<headSec, tailSec, tailCount, free, list, size, dirIdMax,
                       pc, todo, entry, copying, source, unread, rounds, allowed>>
    BY DEF NodeWrite, SpaceLeft, treeVars
  <1>2. /\ out \in Seq(Cells) /\ out # << >> /\ buf \in Seq(Cells) /\ tailSec \in Sections
        /\ avail \in Nat /\ avail < SectionSize
        /\ Len(buf) = avail % PageSize /\ Len(buf) \in 0 .. PageSize - 1
    BY CacheLength, Geometry DEF IInv, TypeOK, CacheAligned, NodeWrite
  <1>3. Len(out) \in Nat \ {0} BY <1>2
  <1>4. k \in 1 .. Len(out) /\ Len(buf) + k <= PageSize /\ avail + k <= SectionSize
    BY <1>2, <1>3, Geometry
  <1> HIDE DEF k
  <1>5. cells \in Seq(Cells) /\ Len(cells) = k BY <1>2, <1>3, <1>4
  <1>6. out' \in Seq(Cells) BY <1>1, <1>2, <1>3, <1>4
  <1>7. addr \in Nat /\ addr % PageSize = Len(buf) BY <1>2, AddressMod
  <1>8. page \in Nat /\ page = addr - Len(buf) /\ page % PageSize = 0
    <2> DEFINE q == addr \div PageSize
    <2>1. q \in Nat /\ addr = q * PageSize + (addr % PageSize) BY <1>7, ModDef, Geometry
    <2> HIDE DEF q
    <2>2. q * PageSize \in Nat /\ q * PageSize = addr - Len(buf)
      BY <1>2, <1>7, <2>1, Geometry
    <2>3. (q * PageSize + 0) % PageSize = 0 BY <2>1, ModUnique, Geometry
    <2>4. q * PageSize + 0 = q * PageSize BY <2>2
    <2>5. page = q * PageSize BY DEF q
    <2>q. QED BY <2>2, <2>3, <2>4, <2>5
  <1> HIDE DEF cells, addr, page
  <1>9. filled \in Seq(Cells) /\ Len(filled) = Len(buf) + k BY <1>2, <1>4, <1>5
  <1>10. bufAddr' = page BY <1>1 DEF CacheProgram, page
  <1>11. /\ Len(filled) = PageSize => flash' = FlashWith(filled, page) /\ buf' = << >>
         /\ Len(filled) # PageSize => flash' = flash /\ buf' = filled
    BY <1>1 DEF CacheProgram, page
  <1> HIDE DEF filled
  <1>12. flash' \in [Addresses -> Cells] /\ buf' \in Seq(Cells)
    <2>1. FlashWith(filled, page) \in [Addresses -> Cells]
      BY <1>8, <1>9, FlashWithType DEF IInv
    <2>2. flash \in [Addresses -> Cells] BY DEF IInv, TypeOK
    <2>3. << >> \in Seq(Cells) OBVIOUS
    <2>4. CASE Len(filled) = PageSize BY <1>11, <2>1, <2>3, <2>4
    <2>5. CASE Len(filled) # PageSize BY <1>9, <1>11, <2>2, <2>5
    <2>q. QED BY <2>4, <2>5
  <1>13. TypeOK'
    <2>1. avail' \in Nat /\ bufAddr' \in Nat BY <1>1, <1>2, <1>3, <1>4, <1>8, <1>10
    <2>q. QED BY <1>1, <1>6, <1>12, <2>1 DEF IInv, TypeOK
  <1>14. PageAddress' BY <1>8, <1>10 DEF PageAddress
  <1>15. CacheAligned'
    <2>0. k \in Nat /\ (avail % PageSize) + k <= PageSize BY <1>2, <1>3, <1>4
    <2>1. avail' <= SectionSize BY <1>1, <1>4
    <2>2. CASE Len(filled) = PageSize
      <3>0. (avail % PageSize) + k = PageSize BY <1>2, <1>9, <2>2
      <3>1. (avail + k) % PageSize = 0 BY <1>2, <2>0, <3>0, PageStep, Geometry
      <3>2. buf' = << >> BY <1>11, <2>2
      <3>q. QED BY <1>1, <2>1, <3>1, <3>2 DEF CacheAligned
    <2>3. CASE Len(filled) # PageSize
      <3>0. (avail % PageSize) + k < PageSize
        <4>1. avail % PageSize \in Nat BY <1>2, ModDef, Geometry
        <4>2. (avail % PageSize) + k # PageSize BY <1>2, <1>9, <2>3
        <4>q. QED BY <2>0, <4>1, <4>2, Geometry
      <3>1. (avail + k) % PageSize = Len(buf) + k
        <4>1. (avail + k) % PageSize = (avail % PageSize) + k
          <5>1. avail \in Nat /\ PageSize \in Nat \ {0} BY <1>2, Geometry
          <5>q. QED BY ONLY <2>0, <3>0, <5>1, PageStep
        <4>q. QED BY <1>2, <4>1
      <3>2. buf' = filled /\ Len(buf') = Len(buf) + k BY <1>9, <1>11, <2>3
      <3>3. FlashAddr(tailSec, avail + k) = addr + k
        BY <1>2, <1>4, Geometry DEF FlashAddr, addr, Sections
      <3>4. bufAddr' = FlashAddr(tailSec, avail + k) - Len(buf')
        BY <1>2, <1>4, <1>7, <1>8, <1>10, <3>2, <3>3
      <3>5. bufAddr' = FlashAddr(tailSec', avail') - Len(buf') BY <1>1, <3>4
      <3>6. avail' % PageSize = Len(buf') BY <1>1, <3>1, <3>2
      <3>q. QED BY <2>1, <3>5, <3>6 DEF CacheAligned, FlashAddr
    <2>q. QED BY <2>2, <2>3
  <1>16. CallShape' BY <1>1 DEF IInv, CallShape
  <1>q. QED BY <1>13, <1>14, <1>15, <1>16 DEF IInv

\* The end of an entry preserves the invariant.
LEMMA EntryDoneInv ==
  ASSUME IInv, EntryDone
  PROVE  IInv'
  <1>1. /\ todo # << >> /\ todo \in Seq(Nodes) /\ entry \in Located /\ entry.node = todo[1]
        /\ copying = FALSE
    BY DEF IInv, TypeOK, CallShape, EntryDone
  <1>2. list' \in [Sections -> Seq(Entries)] /\ size' \in [Sections -> Int]
    <2>1. CASE IsRecord(todo[1]) \/ IsDir(todo[1])
      <3>1. todo[1] \in Nodes BY <1>1
      <3>2. entry \in Entries BY <1>1, <2>1, <3>1, NodeKinds DEF Located, Entries
      <3>3. ListPush(entry) BY <2>1 DEF EntryDone
      <3>q. QED BY <3>2, <3>3, ListPushType DEF IInv
    <2>2. CASE ~(IsRecord(todo[1]) \/ IsDir(todo[1]))
      <3>1. PICK e \in Live : ListDel(e) BY <2>2 DEF EntryDone
      <3>2. e \in Located BY LiveType DEF IInv
      <3>q. QED BY <3>1, <3>2, ListDelType DEF IInv
    <2>q. QED BY <2>1, <2>2
  <1>3. /\ UNCHANGED <<logVars, headSec, free, dirIdMax, out, starting, copying, source, unread>>
        /\ entry' = NoEntry
    BY DEF EntryDone
  <1>4. /\ todo' \in Seq(Nodes) /\ pc' \in {"idle", "gc"} /\ (pc' # "idle" => todo' # << >>)
        /\ rounds' \in Nat /\ allowed' \in 0 .. SectionNum + 1
    <2>1. CASE Len(todo) > 1
      <3> DEFINE rest == SubSeq(todo, 2, Len(todo))
      <3>1. rest \in Seq(Nodes) /\ rest # << >>
        <4>1. Len(todo) \in Nat BY <1>1
        <4>2. rest \in Seq(Nodes) /\ Len(rest) = Len(todo) - 1 BY <1>1, <2>1, <4>1
        <4>q. QED BY <2>1, <4>1, <4>2
      <3> HIDE DEF rest
      <3>2. Enter(rest) BY <2>1 DEF EntryDone, rest
      <3>q. QED BY <3>1, <3>2, EnterType
    <2>2. CASE ~(Len(todo) > 1) BY <2>2, Geometry DEF EntryDone
    <2>q. QED BY <2>1, <2>2
  <1>5. TypeOK' BY <1>2, <1>3, <1>4 DEF IInv, TypeOK, logVars
  <1>6. CacheAligned' /\ PageAddress'
    BY <1>3 DEF IInv, CacheAligned, PageAddress, logVars
  <1>7. CallShape' BY <1>1, <1>3, <1>4 DEF IInv, CallShape
  <1>q. QED BY <1>5, <1>6, <1>7 DEF IInv

\* Every step preserves the invariant.
LEMMA NextInv == IInv /\ [Next]_vars => IInv'
  <1> SUFFICES ASSUME IInv, [Next]_vars PROVE IInv' OBVIOUS
  <1>1. CASE UNCHANGED vars
    <2>1. TypeOK' BY <1>1 DEF IInv, TypeOK, vars
    <2>2. CacheAligned' /\ PageAddress' BY <1>1 DEF IInv, CacheAligned, PageAddress, vars
    <2>3. CallShape' BY <1>1 DEF IInv, CallShape, vars
    <2>q. QED BY <2>1, <2>2, <2>3 DEF IInv
  <1>2. CASE Call
    BY <1>2, WriteInv, DelRecordInv, MkdirInv, DelDirInv, SyncInv DEF Call
  <1>3. CASE Work
    BY <1>3, CollectStartInv, NodeCopyInv, DataCopyInv, NodeCopiedInv, CollectSyncInv, CollectEraseInv,
       EntryStartInv, SectionHeadWriteInv, NodeWriteInv, EntryDoneInv DEF Work
  <1>q. QED BY <1>1, <1>2, <1>3 DEF Next

\* The invariant holds of every behaviour.
THEOREM Invariance == Spec => []IInv
  <1>q. QED BY InitInv, NextInv, PTL DEF Spec

\* Type correctness of TinyFs, for every geometry, node format and set of names.
THEOREM TypeCorrect == Spec => []TypeOK
  <1>1. IInv => TypeOK BY DEF IInv
  <1>q. QED BY <1>1, Invariance, PTL

\* The cache and the tail never drift apart: what tinyfs_nvm_program appends to
\* the cache is what belongs at tinyfs_env.tail_available_offset.
THEOREM CacheAlignment == Spec => []CacheAligned
  <1>1. IInv => CacheAligned BY DEF IInv
  <1>q. QED BY <1>1, Invariance, PTL

-----------------------------------------------------------------------------
\* A set of numbers that is not empty has a least element: induction over numbers.
LEMMA Least ==
  ASSUME NEW S \in SUBSET Nat, S # {}
  PROVE  \E x \in S : \A y \in S : x <= y
  <1>1. PICK x \in S : \A y \in S : ~(<<y, x>> \in OpToRel(<, Nat))
    BY NatLessThanWellFounded, WFMin
  <1>2. \A y \in S : ~(y < x) BY <1>1 DEF OpToRel
  <1>q. QED BY <1>2

-----------------------------------------------------------------------------
(* The total length of a list. *)

\* f adds up what a list holds.
AddsUp(f, l) ==
  /\ f \in [0 .. Len(l) -> Int] /\ f[0] = 0
  /\ \A i \in 1 .. Len(l) : f[i] = f[i - 1] + NodeLen(l[i].node)

\* What the elements of a list are.
LEMMA ElementType ==
  ASSUME NEW l \in Seq(Entries), NEW i \in 1 .. Len(l)
  PROVE  /\ l[i] \in Entries /\ l[i].node \in Nodes /\ l[i].node \in RecordAdds \cup DirAdds
         /\ NodeLen(l[i].node) \in Nat
  <1>1. l[i] \in Entries OBVIOUS
  <1>2. l[i].node \in RecordAdds \cup DirAdds BY <1>1 DEF Entries
  <1>3. l[i].node \in Nodes BY <1>2 DEF Nodes
  <1>q. QED BY <1>1, <1>2, <1>3, NodeLengths

\* There is one such function ...
LEMMA AddsExists ==
  ASSUME NEW l \in Seq(Entries)
  PROVE  \E f : AddsUp(f, l)
  <1> DEFINE P(n, f) == /\ f \in [0 .. n -> Int] /\ f[0] = 0
                        /\ \A i \in 1 .. n : f[i] = f[i - 1] + NodeLen(l[i].node)
             Bad == {n \in 0 .. Len(l) : ~ \E f : P(n, f)}
  <1>0. Len(l) \in Nat OBVIOUS
  <1>1. Bad = {}
    <2> SUFFICES ASSUME Bad # {} PROVE FALSE OBVIOUS
    <2>1. Bad \in SUBSET Nat BY <1>0
    <2>2. PICK n \in Bad : \A m \in Bad : n <= m
      <3> HIDE DEF Bad
      <3>q. QED BY <2>1, Least
    <2>3. P(0, [i \in 0 .. 0 |-> 0]) OBVIOUS
    <2>4. n # 0 BY <2>3
    <2>5. n \in 0 .. Len(l) /\ n - 1 \in 0 .. Len(l) BY <1>0, <2>2, <2>4
    <2>6. PICK f : P(n - 1, f)
      <3>1. n - 1 \notin Bad
        <4> HIDE DEF Bad
        <4>q. QED BY <1>0, <2>2, <2>5
      <3> HIDE DEF P
      <3>q. QED BY <2>5, <3>1
    <2> DEFINE g == [i \in 0 .. n |-> IF i < n THEN f[i] ELSE f[n - 1] + NodeLen(l[n].node)]
    <2>7. n \in 1 .. Len(l) BY <2>4
    <2>8. NodeLen(l[n].node) \in Nat BY <2>7, ElementType
    <2>9. P(n, g)
      <3>1. g \in [0 .. n -> Int] BY <2>6, <2>7, <2>8
      <3>2. g[0] = 0 BY <2>6, <2>7
      <3>3. ASSUME NEW i \in 1 .. n PROVE g[i] = g[i - 1] + NodeLen(l[i].node)
        <4>1. CASE i = n BY <2>7, <4>1
        <4>2. CASE i # n BY <2>6, <2>7, <4>2
        <4>q. QED BY <4>1, <4>2
      <3> HIDE DEF g
      <3>q. QED BY <3>1, <3>2, <3>3
    <2>q. QED BY <2>2, <2>9
  <1>2. \E f : P(Len(l), f) BY <1>0, <1>1
  <1>q. QED BY <1>2 DEF AddsUp

\* ... and Total is its last value.
LEMMA TotalIs ==
  ASSUME NEW l \in Seq(Entries), NEW f, AddsUp(f, l)
  PROVE  Total(l) = f[Len(l)] /\ Total(l) \in Int
  <1> DEFINE F(s) == [i \in 0 .. Len(l) |-> IF i = 0 THEN 0 ELSE s[i - 1] + NodeLen(l[i].node)]
             sum == CHOOSE s : s = F(s)
  <1>0. Len(l) \in Nat OBVIOUS
  <1>1. f = F(f)
    <2>1. \A i \in 0 .. Len(l) : f[i] = F(f)[i] BY <1>0 DEF AddsUp
    <2>q. QED BY <2>1 DEF AddsUp
  <1>2. sum = F(sum) BY <1>1
  <1>3. Total(l) = sum[Len(l)] BY DEF Total
  <1> HIDE DEF sum
  <1> DEFINE Bad == {i \in 0 .. Len(l) : sum[i] # f[i]}
  <1>4. Bad = {}
    <2> SUFFICES ASSUME Bad # {} PROVE FALSE OBVIOUS
    <2>1. Bad \in SUBSET Nat BY <1>0
    <2>2. PICK n \in Bad : \A m \in Bad : n <= m
      <3> HIDE DEF Bad
      <3>q. QED BY <2>1, Least
    <2>3. n # 0 BY <1>2, <1>0 DEF AddsUp
    <2>4. sum[n - 1] = f[n - 1] BY <1>0, <2>2, <2>3
    <2>5. sum[n] = sum[n - 1] + NodeLen(l[n].node) BY <1>0, <1>2, <2>3
    <2>6. f[n] = f[n - 1] + NodeLen(l[n].node) BY <1>0, <2>3 DEF AddsUp
    <2>q. QED BY <2>4, <2>5, <2>6
  <1>q. QED BY <1>0, <1>3, <1>4 DEF AddsUp

\* The total of a list with one more node at its end.
LEMMA TotalAppend ==
  ASSUME NEW l \in Seq(Entries), NEW e \in Entries
  PROVE  Total(Append(l, e)) = Total(l) + NodeLen(e.node)
  <1>1. PICK f : AddsUp(f, l) BY AddsExists
  <1> DEFINE n == Len(l)
             k == Append(l, e)
             g == [i \in 0 .. n + 1 |-> IF i <= n THEN f[i] ELSE f[n] + NodeLen(e.node)]
  <1>2. k \in Seq(Entries) /\ Len(k) = n + 1 /\ k[n + 1] = e /\ \A i \in 1 .. n : k[i] = l[i]
    OBVIOUS
  <1>3. n \in Nat /\ NodeLen(e.node) \in Nat
    <2>1. e.node \in Nodes BY DEF Entries, Nodes
    <2>q. QED BY <2>1, NodeLengths
  <1> HIDE DEF k
  <1>4. AddsUp(g, k)
    <2>1. g \in [0 .. Len(k) -> Int] /\ g[0] = 0 BY <1>1, <1>2, <1>3 DEF AddsUp
    <2>2. ASSUME NEW i \in 1 .. Len(k) PROVE g[i] = g[i - 1] + NodeLen(k[i].node)
      <3>1. CASE i = n + 1 BY <1>1, <1>2, <1>3, <3>1 DEF AddsUp
      <3>2. CASE i # n + 1
        <4>1. i \in 1 .. n BY <1>2, <1>3, <3>2
        <4>2. f[i] = f[i - 1] + NodeLen(l[i].node) BY <1>1, <4>1 DEF AddsUp
        <4>3. k[i] = l[i] BY <1>2, <4>1
        <4>4. g[i] = f[i] /\ g[i - 1] = f[i - 1] BY <1>3, <4>1
        <4>q. QED BY <4>2, <4>3, <4>4
      <3>q. QED BY <3>1, <3>2
    <2> HIDE DEF g
    <2>q. QED BY <2>1, <2>2 DEF AddsUp
  <1>5. g[n + 1] = f[n] + NodeLen(e.node) BY <1>3
  <1> HIDE DEF g
  <1>q. QED BY <1>1, <1>2, <1>4, <1>5, TotalIs DEF k

\* RemoveAt, element by element.
LEMMA RemoveAtIs ==
  ASSUME NEW S, NEW l \in Seq(S), NEW i \in 1 .. Len(l)
  PROVE  /\ RemoveAt(l, i) \in Seq(S) /\ Len(RemoveAt(l, i)) = Len(l) - 1
         /\ \A j \in 1 .. Len(l) - 1 : RemoveAt(l, i)[j] = IF j < i THEN l[j] ELSE l[j + 1]
  <1> DEFINE a == SubSeq(l, 1, i - 1)
             b == SubSeq(l, i + 1, Len(l))
  <1>1. a \in Seq(S) /\ Len(a) = i - 1 /\ \A j \in 1 .. i - 1 : a[j] = l[j] OBVIOUS
  <1>2. b \in Seq(S) /\ Len(b) = Len(l) - i /\ \A j \in 1 .. Len(l) - i : b[j] = l[i + j]
    OBVIOUS
  <1>3. RemoveAt(l, i) = a \o b BY DEF RemoveAt
  <1> HIDE DEF a, b
  <1>4. Len(l) \in Nat OBVIOUS
  <1>5. /\ a \o b \in Seq(S) /\ Len(a \o b) = Len(l) - 1
        /\ \A j \in 1 .. Len(l) - 1 : (a \o b)[j] = IF j <= Len(a) THEN a[j] ELSE b[j - Len(a)]
    <2>1. a \o b \in Seq(S) /\ Len(a \o b) = Len(a) + Len(b) BY <1>1, <1>2, ConcatProperties
    <2>2. \A j \in 1 .. Len(a) + Len(b) : (a \o b)[j] = IF j <= Len(a) THEN a[j] ELSE b[j - Len(a)]
      BY <1>1, <1>2, ConcatProperties
    <2>3. Len(a) + Len(b) = Len(l) - 1 BY <1>1, <1>2, <1>4
    <2>q. QED BY <2>1, <2>2, <2>3
  <1>6. ASSUME NEW j \in 1 .. Len(l) - 1 PROVE (a \o b)[j] = IF j < i THEN l[j] ELSE l[j + 1]
    <2>1. CASE j < i BY <1>1, <1>4, <1>5, <2>1
    <2>2. CASE ~(j < i)
      <3>1. j - Len(a) \in 1 .. Len(l) - i /\ i + (j - Len(a)) = j + 1 BY <1>1, <1>4, <2>2
      <3>2. b[j - Len(a)] = l[j + 1] BY <1>2, <3>1
      <3>q. QED BY <1>1, <1>5, <2>2, <3>2
    <2>q. QED BY <2>1, <2>2
  <1>q. QED BY <1>3, <1>5, <1>6

\* The total of a list without one of its nodes.
LEMMA TotalRemove ==
  ASSUME NEW l \in Seq(Entries), NEW i \in 1 .. Len(l)
  PROVE  Total(RemoveAt(l, i)) = Total(l) - NodeLen(l[i].node)
  <1>1. PICK f : AddsUp(f, l) BY AddsExists
  <1> DEFINE n == Len(l)
             k == RemoveAt(l, i)
             w == NodeLen(l[i].node)
             g == [j \in 0 .. n - 1 |-> IF j < i THEN f[j] ELSE f[j + 1] - w]
  <1>2. /\ k \in Seq(Entries) /\ Len(k) = n - 1
        /\ \A j \in 1 .. n - 1 : k[j] = IF j < i THEN l[j] ELSE l[j + 1]
    BY RemoveAtIs
  <1> HIDE DEF k
  <1>3. n \in Nat /\ w \in Nat /\ i \in 1 .. n BY ElementType
  <1>4. /\ f \in [0 .. n -> Int] /\ f[0] = 0
        /\ \A j \in 1 .. n : f[j] = f[j - 1] + NodeLen(l[j].node)
    BY <1>1 DEF AddsUp
  <1>5. f[i] = f[i - 1] + w BY <1>3, <1>4
  <1> HIDE DEF w, n
  <1>6. AddsUp(g, k)
    <2>1. g \in [0 .. Len(k) -> Int]
      <3>1. \A j \in 0 .. n - 1 : (IF j < i THEN f[j] ELSE f[j + 1] - w) \in Int BY <1>3, <1>4
      <3>q. QED BY <1>2, <3>1
    <2>2. g[0] = 0 BY <1>3, <1>4
    <2>3. ASSUME NEW j \in 1 .. Len(k) PROVE g[j] = g[j - 1] + NodeLen(k[j].node)
      <3>1. j \in 1 .. n - 1 BY <1>2
      <3>2. CASE j < i
        <4>1. g[j] = f[j] /\ g[j - 1] = f[j - 1] /\ k[j] = l[j] BY <1>2, <1>3, <3>1, <3>2
        <4>2. f[j] = f[j - 1] + NodeLen(l[j].node) BY <1>3, <1>4, <3>1
        <4>q. QED BY <4>1, <4>2
      <3>3. CASE ~(j < i)
        <4>1. g[j] = f[j + 1] - w /\ k[j] = l[j + 1] BY <1>2, <1>3, <3>1, <3>3
        <4>2. f[j + 1] = f[j] + NodeLen(l[j + 1].node) BY <1>3, <1>4, <3>1
        <4>3. g[j - 1] = f[j] - w
          <5>1. CASE j = i
            <6>1. g[j - 1] = f[i - 1] BY <1>3, <3>1, <5>1
            <6>2. f[i - 1] \in Int /\ f[i] = f[j] BY <1>3, <1>4, <5>1
            <6>q. QED BY <1>3, <1>5, <6>1, <6>2
          <5>2. CASE j # i BY <1>3, <3>1, <3>3, <5>2
          <5>q. QED BY <5>1, <5>2
        <4>4. f[j] \in Int BY <1>3, <1>4, <3>1
        <4>5. NodeLen(l[j + 1].node) \in Nat
          <5>1. j + 1 \in 1 .. Len(l) BY <1>3, <3>1 DEF n
          <5>q. QED BY <5>1, ElementType
        <4>q. QED BY <1>3, <4>1, <4>2, <4>3, <4>4, <4>5
      <3>q. QED BY <3>2, <3>3
    <2> HIDE DEF g
    <2>q. QED BY <2>1, <2>2, <2>3 DEF AddsUp
  <1>7. g[n - 1] = f[n] - w
    <2>1. CASE n - 1 < i
      <3>1. n = i /\ g[n - 1] = f[i - 1] BY <1>3, <2>1
      <3>2. f[i - 1] \in Int BY <1>3, <1>4
      <3>q. QED BY <1>3, <1>5, <3>1, <3>2
    <2>2. CASE ~(n - 1 < i) BY <1>3, <2>2
    <2>q. QED BY <2>1, <2>2
  <1> HIDE DEF g
  <1>8. Total(k) = g[n - 1] BY <1>2, <1>6, TotalIs
  <1>9. Total(l) = f[n] BY <1>1, TotalIs DEF n
  <1>q. QED BY <1>7, <1>8, <1>9 DEF k, w

-----------------------------------------------------------------------------
(* The tree, as a set of nodes, and what a call has still to do to it. *)

IsAdd(n) == IsRecord(n) \/ IsDir(n)

\* Two nodes the tree cannot hold both.
Clash(m, n) ==
  \/ m.type = n.type /\ m.parent = n.parent /\ m.name = n.name
  \/ IsDir(m) /\ IsDir(n) /\ m.id = n.id

Exists(T, p) == p = RootId \/ \E d \in T : IsDir(d) /\ d.id = p

Unique(T) == \A m, n \in T : Clash(m, n) => m = n
Rooted(T) == \A m \in T : Exists(T, m.parent)

\* A directory is younger than its parent: there is no cycle.
Younger(T, max) == \A m \in T : IsDir(m) => m.parent < m.id /\ m.id <= max

\* What is to be added is not there yet, but its parent is.
Adding(T, q, max) ==
  q # << >> /\ IsAdd(q[1]) =>
    /\ Len(q) = 1
    /\ \A m \in T : ~Clash(m, q[1])
    /\ Exists(T, q[1].parent)
    /\ IsDir(q[1]) => q[1].parent < q[1].id /\ q[1].id <= max

\* What is to be removed is there, and a directory goes after all it holds.
Removing(T, q) ==
  q # << >> /\ ~IsAdd(q[1]) =>
    /\ \A i \in 1 .. Len(q) : ~IsAdd(q[i])
    /\ \A i, j \in 1 .. Len(q) : \A m \in T : Removes(q[i], m) /\ Removes(q[j], m) => i = j
    /\ \A j \in 1 .. Len(q) : q[j].type = "DIR_REMOVE" =>
         \A m \in T : m.parent = q[j].id => \E i \in 1 .. j - 1 : Removes(q[i], m)

Sound(T, q, max) ==
  Unique(T) /\ Rooted(T) /\ Younger(T, max) /\ Adding(T, q, max) /\ Removing(T, q)

\* The nodes a tree may consist of.
TreeNodes == RecordAdds \cup DirAdds

\* What the nodes of a tree are made of.
LEMMA TreeNodeKinds ==
  ASSUME NEW m \in TreeNodes
  PROVE  /\ IsRecord(m) => m \in RecordAdds /\ ~IsDir(m)
         /\ ~IsRecord(m) => m \in DirAdds /\ IsDir(m)
         /\ IsAdd(m) /\ m.parent \in Parents
         /\ IsDir(m) => m.id \in DirIds
  BY DEF TreeNodes, RecordAdds, DirAdds, IsRecord, IsDir, IsAdd

\* Ids are numbers.
LEMMA IdsAreNumbers == Parents \subseteq Nat /\ DirIds \subseteq Parents /\ RootId \notin DirIds
  BY LengthAssumption DEF Parents, DirIds, RootId

\* tinyfs_write: what it writes over has gone from the tree first.
LEMMA SoundWrite ==
  ASSUME NEW T \in SUBSET TreeNodes, NEW q, NEW max, Sound(T, q, max),
         NEW p \in Parents, NEW n \in Names, NEW v \in Values, Exists(T, p),
         NEW U \in SUBSET T,
         \A m \in T : m \in U <=> ~(IsRecord(m) /\ m.parent = p /\ m.name = n)
  PROVE  Sound(U, <<RecordAdd(p, n, v)>>, max)
  <1> DEFINE r == RecordAdd(p, n, v)
  <1>1. r \in RecordAdds /\ IsRecord(r) /\ ~IsDir(r) /\ IsAdd(r)
        /\ r.parent = p /\ r.name = n /\ r.type = "RECORD_ADD"
    BY DEF RecordAdd, RecordAdds, IsRecord, IsDir, IsAdd
  <1> HIDE DEF r
  <1>2. \A d \in T : IsDir(d) => d \in U BY TreeNodeKinds
  <1>3. \A x : Exists(T, x) => Exists(U, x) BY <1>2 DEF Exists
  <1>4. Unique(U) /\ Rooted(U) /\ Younger(U, max)
    BY <1>3 DEF Sound, Unique, Rooted, Younger
  <1>5. \A m \in U : ~Clash(m, r) BY <1>1 DEF Clash, IsRecord
  <1>6. Adding(U, <<r>>, max) BY <1>1, <1>3, <1>5 DEF Adding
  <1>7. Removing(U, <<r>>) BY <1>1 DEF Removing
  <1>q. QED BY <1>4, <1>6, <1>7 DEF Sound, r

\* tinyfs_del_record.
LEMMA SoundDelRecord ==
  ASSUME NEW T \in SUBSET TreeNodes, NEW q, NEW max, Sound(T, q, max),
         NEW p \in Parents, NEW n \in Names
  PROVE  Sound(T, <<RecordRemove(p, n)>>, max)
  <1>1. ~IsAdd(RecordRemove(p, n)) /\ RecordRemove(p, n).type # "DIR_REMOVE"
    BY DEF IsAdd, IsRecord, IsDir, RecordRemove
  <1>2. Adding(T, <<RecordRemove(p, n)>>, max) BY <1>1 DEF Adding
  <1>3. Removing(T, <<RecordRemove(p, n)>>) BY <1>1 DEF Removing
  <1>q. QED BY <1>2, <1>3 DEF Sound

\* tinyfs_mkdir: the id is a new one.
LEMMA SoundMkdir ==
  ASSUME NEW T \in SUBSET TreeNodes, NEW q, NEW max \in Parents, Sound(T, q, max),
         NEW p \in Parents, NEW n \in Names, Exists(T, p), max + 1 \in DirIds,
         ~ \E m \in T : IsDir(m) /\ m.parent = p /\ m.name = n
  PROVE  Sound(T, <<DirAdd(p, n, max + 1)>>, max + 1)
  <1> DEFINE r == DirAdd(p, n, max + 1)
  <1>1. /\ r \in DirAdds /\ ~IsRecord(r) /\ IsDir(r) /\ IsAdd(r) /\ r.id = max + 1
        /\ r.parent = p /\ r.name = n /\ r.type = "DIR_ADD"
    BY DEF DirAdd, DirAdds, IsRecord, IsDir, IsAdd
  <1> HIDE DEF r
  <1>2. max \in Nat /\ p \in Nat BY IdsAreNumbers
  <1>3. \A m \in T : IsDir(m) => m.id \in Nat /\ m.id <= max /\ m.parent < m.id
    BY TreeNodeKinds, IdsAreNumbers DEF Sound, Younger
  <1>4. p <= max BY <1>2, <1>3, IdsAreNumbers DEF Exists, RootId
  <1>5. Younger(T, max + 1) BY <1>2, <1>3 DEF Younger
  <1>6. ASSUME NEW m \in T PROVE ~Clash(m, r)
    <2>1. IsDir(m) => m.id # r.id BY <1>1, <1>2, <1>3
    <2>q. QED BY <1>1, <2>1 DEF Clash, IsDir
  <1>7. Adding(T, <<r>>, max + 1) BY <1>1, <1>2, <1>4, <1>6 DEF Adding
  <1>8. Removing(T, <<r>>) BY <1>1 DEF Removing
  <1>q. QED BY <1>5, <1>7, <1>8 DEF Sound, r

\* In a tree, the removal of a node removes that node only.
LEMMA RemovalRemoves ==
  ASSUME NEW T \in SUBSET TreeNodes, Unique(T), NEW m \in T, NEW n \in T
  PROVE  Removes(RemovalOf(m), n) <=> m = n
  <1>1. CASE IsRecord(m)
    <2>1. ~IsDir(m) /\ m.type = "RECORD_ADD" BY <1>1, TreeNodeKinds DEF IsRecord
    <2>2. RemovalOf(m) = RecordRemove(m.parent, m.name) BY <2>1 DEF RemovalOf
    <2>3. Removes(RemovalOf(m), n) <=> IsRecord(n) /\ n.parent = m.parent /\ n.name = m.name
      BY <2>2 DEF Removes, RecordRemove
    <2>4. IsRecord(n) /\ n.parent = m.parent /\ n.name = m.name => Clash(m, n)
      BY <2>1 DEF Clash, IsRecord
    <2>q. QED BY <1>1, <2>3, <2>4 DEF Unique
  <1>2. CASE ~IsRecord(m)
    <2>1. IsDir(m) BY <1>2, TreeNodeKinds
    <2>2. RemovalOf(m) = DirRemove(m.id) BY <2>1 DEF RemovalOf
    <2>3. Removes(RemovalOf(m), n) <=> IsDir(n) /\ n.id = m.id
      BY <2>2 DEF Removes, DirRemove
    <2>q. QED BY <2>1, <2>3 DEF Unique, Clash
  <1>q. QED BY <1>1, <1>2

\* B holds all that is below D, which f goes through, a directory after what it holds.
Subtree(T, D, B) ==
  /\ D \in T /\ IsDir(D) /\ B \subseteq T /\ D \notin B
  /\ \A m \in T : m.parent = D.id \/ (\E x \in B : IsDir(x) /\ m.parent = x.id) => m \in B

InOrder(B, k, f) ==
  /\ f \in [1 .. k -> B]
  /\ \A m \in B : \E i \in 1 .. k : f[i] = m
  /\ \A i, j \in 1 .. k : f[i] = f[j] => i = j
  /\ \A i, j \in 1 .. k : IsDir(f[i]) /\ f[j].parent = f[i].id => j < i

\* tinyfs_del_dir: in whatever order node_del_recursively takes the nodes.
LEMMA SoundDelDir ==
  ASSUME NEW T \in SUBSET TreeNodes, NEW q, NEW max, Sound(T, q, max),
         NEW D, NEW B, Subtree(T, D, B),
         NEW k \in Nat, NEW f, InOrder(B, k, f)
  PROVE  Sound(T, Append([i \in 1 .. k |-> RemovalOf(f[i])], DirRemove(D.id)), max)
  <1> DEFINE r == Append([i \in 1 .. k |-> RemovalOf(f[i])], DirRemove(D.id))
             g == [i \in 1 .. k + 1 |-> IF i <= k THEN f[i] ELSE D]
  <1> USE DEF Subtree, InOrder
  <1>1. Len(r) = k + 1 /\ \A i \in 1 .. k + 1 : r[i] = RemovalOf(g[i])
    <2>1. [i \in 1 .. k |-> RemovalOf(f[i])] \in Seq({RemovalOf(f[i]) : i \in 1 .. k}) OBVIOUS
    <2>2. Len([i \in 1 .. k |-> RemovalOf(f[i])]) = k OBVIOUS
    <2>3. /\ Len(r) = k + 1 /\ r[k + 1] = DirRemove(D.id)
          /\ \A i \in 1 .. k : r[i] = RemovalOf(f[i])
      OBVIOUS
    <2>4. RemovalOf(D) = DirRemove(D.id) BY DEF RemovalOf
    <2>q. QED BY <2>3, <2>4
  <1>2. \A i \in 1 .. k + 1 : g[i] \in T OBVIOUS
  <1>3. \A i, j \in 1 .. k + 1 : g[i] = g[j] => i = j OBVIOUS
  <1>4. \A i \in 1 .. k : g[i] = f[i] /\ g[i] \in B OBVIOUS
  <1>5. g[k + 1] = D OBVIOUS
  <1> HIDE DEF r, g
  <1>6. \A i \in 1 .. k + 1 : \A m \in T : Removes(r[i], m) <=> m = g[i]
    BY <1>1, <1>2, RemovalRemoves DEF Sound
  <1>7. \A i \in 1 .. k + 1 : ~IsAdd(r[i])
    BY <1>1 DEF RemovalOf, IsAdd, IsRecord, IsDir, RecordRemove, DirRemove
  <1>8. ASSUME NEW j \in 1 .. k + 1, r[j].type = "DIR_REMOVE", NEW m \in T, m.parent = r[j].id
        PROVE  \E i \in 1 .. j - 1 : Removes(r[i], m)
    <2>1. IsDir(g[j]) /\ r[j].id = g[j].id
      BY <1>1, <1>8 DEF RemovalOf, RecordRemove, DirRemove
    <2>2. m \in B
      <3>1. CASE j = k + 1 BY <1>5, <1>8, <2>1, <3>1
      <3>2. CASE j # k + 1
        <4>1. g[j] \in B BY <1>4, <3>2
        <4>q. QED BY <1>8, <2>1, <4>1
      <3>q. QED BY <3>1, <3>2
    <2>3. PICK i \in 1 .. k : f[i] = m BY <2>2
    <2>4. i < j
      <3>1. CASE j = k + 1 BY <3>1
      <3>2. CASE j # k + 1
        <4>1. j \in 1 .. k BY <3>2
        <4>2. IsDir(f[j]) /\ f[i].parent = f[j].id BY <1>4, <1>8, <2>1, <2>3, <4>1
        <4>q. QED BY <4>1, <4>2
      <3>q. QED BY <3>1, <3>2
    <2>5. Removes(r[i], m) BY <1>4, <1>6, <2>3
    <2>q. QED BY <2>4, <2>5
  <1>9. Removing(T, r)
    <2>1. \A i, j \in 1 .. k + 1 : \A m \in T : Removes(r[i], m) /\ Removes(r[j], m) => i = j
      BY <1>3, <1>6
    <2>q. QED BY <1>1, <1>7, <1>8, <2>1 DEF Removing
  <1>10. Adding(T, r, max)
    <2>1. 1 \in 1 .. k + 1 OBVIOUS
    <2>q. QED BY <1>7, <2>1 DEF Adding
  <1>q. QED BY <1>9, <1>10 DEF Sound, r

\* The entry that is added is in the log.
LEMMA SoundAdded ==
  ASSUME NEW T \in SUBSET TreeNodes, NEW q \in Seq(Nodes), q # << >>, IsAdd(q[1]), NEW max, Sound(T, q, max)
  PROVE  Sound(T \cup {q[1]}, << >>, max)
  <1> DEFINE U == T \cup {q[1]}
  <1>1. \A m, n : Clash(m, n) => Clash(n, m) BY DEF Clash
  <1>2. Unique(U) BY <1>1 DEF Unique, Sound, Adding
  <1>3. \A p : Exists(T, p) => Exists(U, p) BY DEF Exists
  <1>4. Rooted(U)
    <2> HIDE DEF U
    <2>1. \A m \in U : m \in T \/ m = q[1] BY DEF U
    <2>q. QED BY <1>3, <2>1 DEF Rooted, Sound, Adding
  <1>5. Younger(U, max) BY DEF Younger, Sound, Adding
  <1>6. Adding(U, << >>, max) /\ Removing(U, << >>) BY DEF Adding, Removing
  <1>q. QED BY <1>2, <1>4, <1>5, <1>6 DEF Sound

\* The entry that removes a node is in the log.
LEMMA SoundRemoved ==
  ASSUME NEW T \in SUBSET TreeNodes, NEW q \in Seq(Nodes), q # << >>, ~IsAdd(q[1]), NEW max,
         Sound(T, q, max), NEW m \in T, Removes(q[1], m)
  PROVE  /\ Sound(T \ {m}, SubSeq(q, 2, Len(q)), max)
         /\ Sound(T \ {m}, << >>, max)
  <1> DEFINE U == T \ {m}
             r == SubSeq(q, 2, Len(q))
             l == Len(q)
  <1>0. l \in Nat /\ l # 0 OBVIOUS
  <1>1. l \in Nat \ {0} /\ Len(r) = l - 1 /\ \A i \in 1 .. l - 1 : r[i] = q[i + 1]
    <2>0. \A j \in 2 .. l : q[j] \in Nodes BY <1>0
    <2>1. Len(r) = l - 1
      <3>1. Len(r) = IF 2 <= l THEN l - 2 + 1 ELSE 0 BY <1>0, <2>0, SubSeqProperties
      <3> HIDE DEF r, l
      <3>q. QED BY <1>0, <3>1
    <2>2. ASSUME NEW i \in 1 .. l - 1 PROVE r[i] = q[2 + i - 1]
      <3>1. i \in 1 .. l - 2 + 1 BY <1>0
      <3>q. QED BY <1>0, <2>0, <3>1, SubSeqProperties
    <2>3. \A i \in 1 .. l - 1 : 2 + i - 1 = i + 1 BY <1>0
    <2>q. QED BY <1>0, <2>1, <2>2, <2>3
  <1> HIDE DEF r
  <1>2. /\ \A i \in 1 .. l : ~IsAdd(q[i])
        /\ \A i, j \in 1 .. l : \A n \in T : Removes(q[i], n) /\ Removes(q[j], n) => i = j
        /\ \A j \in 1 .. l : q[j].type = "DIR_REMOVE" =>
             \A n \in T : n.parent = q[j].id => \E i \in 1 .. j - 1 : Removes(q[i], n)
    BY DEF Sound, Removing
  <1>3. \A n \in T : Removes(q[1], n) => n = m
    BY DEF Removes, Sound, Unique, Clash, IsRecord
  <1>4. IsDir(m) => \A n \in T : n.parent # m.id
    <2> SUFFICES ASSUME IsDir(m), NEW n \in T, n.parent = m.id PROVE FALSE OBVIOUS
    <2>1. q[1].type = "DIR_REMOVE" /\ q[1].id = m.id BY DEF Removes, IsDir, IsRecord
    <2>2. \E i \in 1 .. 1 - 1 : Removes(q[i], n)
      <3>1. 1 \in 1 .. l BY <1>1
      <3>q. QED BY <1>2, <2>1, <3>1
    <2>q. QED BY <2>2
  <1>5. Rooted(U)
    <2> SUFFICES ASSUME NEW n \in U PROVE Exists(U, n.parent) BY DEF Rooted
    <2>1. Exists(T, n.parent) BY DEF Sound, Rooted
    <2>q. QED BY <1>4, <2>1 DEF Exists
  <1>6. Unique(U) /\ Younger(U, max) BY DEF Unique, Younger, Sound
  <1>7. \A i \in 1 .. l - 1 : ~IsAdd(r[i])
    <2>1. \A i \in 1 .. l - 1 : i + 1 \in 1 .. l BY <1>1
    <2>q. QED BY <1>1, <1>2, <2>1
  <1>8. Adding(U, r, max)
    <2>1. r # << >> => 1 \in 1 .. l - 1
      <3>1. CASE l = 1
        <4>1. r = << >> BY <1>1, <3>1 DEF r
        <4>q. QED BY <4>1
      <3>2. CASE l # 1 BY <1>1, <3>2
      <3>q. QED BY <3>1, <3>2
    <2>q. QED BY <1>7, <2>1 DEF Adding
  <1>9. Removing(U, r)
    <2>1. ASSUME NEW i \in 1 .. l - 1, NEW j \in 1 .. l - 1, NEW n \in U,
                 Removes(r[i], n), Removes(r[j], n)
          PROVE  i = j
      <3>1. i + 1 \in 1 .. l /\ j + 1 \in 1 .. l /\ r[i] = q[i + 1] /\ r[j] = q[j + 1] BY <1>1
      <3>2. i + 1 = j + 1 BY <1>2, <2>1, <3>1
      <3>q. QED BY <3>2
    <2>2. ASSUME NEW j \in 1 .. l - 1, r[j].type = "DIR_REMOVE", NEW n \in U, n.parent = r[j].id
          PROVE  \E i \in 1 .. j - 1 : Removes(r[i], n)
      <3>1. j + 1 \in 1 .. l /\ r[j] = q[j + 1] BY <1>1
      <3>2. PICK i \in 1 .. (j + 1) - 1 : Removes(q[i], n) BY <1>2, <2>2, <3>1
      <3>3. i # 1 BY <1>3, <3>2
      <3>4. i - 1 \in 1 .. j - 1 /\ r[i - 1] = q[i] BY <1>1, <3>2, <3>3
      <3>q. QED BY <3>2, <3>4
    <2>q. QED BY <1>1, <1>7, <2>1, <2>2 DEF Removing
  <1>10. Adding(U, << >>, max) /\ Removing(U, << >>) BY DEF Adding, Removing
  <1>q. QED BY <1>5, <1>6, <1>8, <1>9, <1>10 DEF Sound, r

-----------------------------------------------------------------------------
(* The invariant of the lists and the tree. *)

\* A copied node is on no list, and belongs to the tree.
Tree == LiveNodes \cup (IF copying THEN {entry.node} ELSE {})

Placed == \A s \in Sections : \A i \in 1 .. Len(list[s]) : list[s][i].section = s
NoRepeat == \A s \in Sections : \A i, j \in 1 .. Len(list[s]) : list[s][i] = list[s][j] => i = j
Summed == \A s \in Sections : size[s] = Total(list[s])
Lists == Placed /\ NoRepeat /\ Summed

Single ==
  /\ \A e, f \in Live : e.node = f.node => e = f
  /\ copying => entry.node \notin LiveNodes

TInv == Lists /\ Single /\ Sound(Tree, todo, dirIdMax)

\* A live entry has a place on the list of its section.
LEMMA LivePlace ==
  ASSUME Placed
  PROVE  \A e : e \in Live <=> e.section \in Sections /\ \E i \in 1 .. Len(list[e.section]) : list[e.section][i] = e
  BY DEF Live, Placed

\* tinyfs_list_del takes one node off its list.
LEMMA DelLists ==
  ASSUME TypeOK, Lists, NEW e \in Live, ListDel(e)
  PROVE  Lists' /\ Live' = Live \ {e}
  <1> DEFINE s == e.section
             l == list[s]
  <1>0. s \in Sections /\ e \in Entries /\ e.node \in Nodes BY LiveType
  <1>1. l \in Seq(Entries) /\ \A t \in Sections : list[t] \in Seq(Entries) /\ Len(list[t]) \in Nat
    BY <1>0 DEF TypeOK
  <1>2. PICK i \in 1 .. Len(l) : l[i] = e /\ list' = [list EXCEPT ![s] = RemoveAt(l, i)]
    BY DEF ListDel
  <1>3. size' = [size EXCEPT ![s] = @ - NodeLen(e.node)] BY DEF ListDel
  <1> DEFINE k == RemoveAt(l, i)
  <1>4. /\ k \in Seq(Entries) /\ Len(k) = Len(l) - 1
        /\ \A j \in 1 .. Len(l) - 1 : k[j] = IF j < i THEN l[j] ELSE l[j + 1]
    BY <1>1, <1>2, RemoveAtIs
  <1>5. list'[s] = k /\ \A t \in Sections \ {s} : list'[t] = list[t]
    BY <1>0, <1>2 DEF TypeOK
  <1>t. Total(k) = Total(l) - NodeLen(l[i].node) BY <1>1, <1>2, TotalRemove
  <1> HIDE DEF k
  <1>6. \A j \in 1 .. Len(k) : \E h \in 1 .. Len(l) : h # i /\ k[j] = l[h] /\ h = IF j < i THEN j ELSE j + 1
    BY <1>1, <1>2, <1>4
  <1>7. \A h \in 1 .. Len(l) : h # i => \E j \in 1 .. Len(k) : k[j] = l[h]
    <2> SUFFICES ASSUME NEW h \in 1 .. Len(l), h # i PROVE \E j \in 1 .. Len(k) : k[j] = l[h] OBVIOUS
    <2>1. CASE h < i
      <3>1. h \in 1 .. Len(k) /\ k[h] = l[h] BY <1>1, <1>2, <1>4, <2>1
      <3>q. QED BY <3>1
    <2>2. CASE ~(h < i)
      <3>1. h - 1 \in 1 .. Len(k) /\ ~(h - 1 < i) BY <1>1, <1>2, <1>4, <2>2
      <3>2. k[h - 1] = l[h] BY <1>1, <1>4, <3>1
      <3>q. QED BY <3>1, <3>2
    <2>q. QED BY <2>1, <2>2
  <1>8. Placed'
    <2> SUFFICES ASSUME NEW t \in Sections, NEW j \in 1 .. Len(list'[t])
                 PROVE  list'[t][j].section = t
      BY DEF Placed
    <2>1. CASE t = s
      <3>1. PICK h \in 1 .. Len(l) : k[j] = l[h] BY <1>5, <1>6, <2>1
      <3>q. QED BY <1>0, <1>5, <2>1, <3>1 DEF Lists, Placed
    <2>2. CASE t # s BY <1>5, <2>2 DEF Lists, Placed
    <2>q. QED BY <2>1, <2>2
  <1>9. NoRepeat'
    <2> SUFFICES ASSUME NEW t \in Sections, NEW g \in 1 .. Len(list'[t]), NEW h \in 1 .. Len(list'[t]),
                        list'[t][g] = list'[t][h]
                 PROVE  g = h
      BY DEF NoRepeat
    <2>1. CASE t = s
      <3>1. PICK a \in 1 .. Len(l) : k[g] = l[a] /\ a = IF g < i THEN g ELSE g + 1 BY <1>5, <1>6, <2>1
      <3>2. PICK b \in 1 .. Len(l) : k[h] = l[b] /\ b = IF h < i THEN h ELSE h + 1 BY <1>5, <1>6, <2>1
      <3>3. l[a] = l[b] BY <1>5, <2>1, <3>1, <3>2
      <3>4. a = b BY <1>0, <3>3 DEF Lists, NoRepeat
      <3>5. g \in Nat /\ h \in Nat /\ i \in Nat BY <1>1, <1>4, <1>5, <2>1
      <3>q. QED BY <3>1, <3>2, <3>4, <3>5
    <2>2. CASE t # s BY <1>5, <2>2 DEF Lists, NoRepeat
    <2>q. QED BY <2>1, <2>2
  <1>10. Summed'
    <2> SUFFICES ASSUME NEW t \in Sections PROVE size'[t] = Total(list'[t]) BY DEF Summed
    <2>1. CASE t = s BY <1>0, <1>2, <1>3, <1>5, <1>t, <2>1 DEF Lists, Summed, TypeOK
    <2>2. CASE t # s BY <1>0, <1>3, <1>5, <2>2 DEF Lists, Summed, TypeOK
    <2>q. QED BY <2>1, <2>2
  <1>11. Live' = Live \ {e}
    <2>1. ASSUME NEW f \in Live' PROVE f \in Live \ {e}
      <3>1. f.section \in Sections /\ \E j \in 1 .. Len(list'[f.section]) : list'[f.section][j] = f
        BY <1>8 DEF Live, Placed
      <3>2. CASE f.section = s
        <4>1. PICK j \in 1 .. Len(k) : k[j] = f BY <1>5, <3>1, <3>2
        <4>2. PICK h \in 1 .. Len(l) : h # i /\ f = l[h] BY <1>6, <4>1
        <4>3. f # e BY <1>0, <1>2, <4>2 DEF Lists, NoRepeat
        <4>q. QED BY <1>0, <4>2, <4>3 DEF Live
      <3>3. CASE f.section # s BY <1>5, <3>1, <3>3 DEF Live
      <3>q. QED BY <3>2, <3>3
    <2>2. ASSUME NEW f \in Live, f # e PROVE f \in Live'
      <3>1. f.section \in Sections /\ \E j \in 1 .. Len(list[f.section]) : list[f.section][j] = f
        BY LivePlace DEF Lists
      <3>2. CASE f.section = s
        <4>1. PICK h \in 1 .. Len(l) : l[h] = f BY <3>1, <3>2
        <4>2. \E j \in 1 .. Len(k) : k[j] = f BY <1>2, <1>7, <2>2, <4>1
        <4>q. QED BY <1>0, <1>5, <4>2 DEF Live
      <3>3. CASE f.section # s BY <1>5, <3>1, <3>3 DEF Live
      <3>q. QED BY <3>2, <3>3
    <2>q. QED BY <2>1, <2>2
  <1>q. QED BY <1>8, <1>9, <1>10, <1>11 DEF Lists

\* tinyfs_list_push puts one on.
LEMMA PushLists ==
  ASSUME TypeOK, Lists, NEW e \in Entries, e \notin Live, ListPush(e)
  PROVE  Lists' /\ Live' = Live \cup {e}
  <1> DEFINE s == e.section
             l == list[s]
             k == Append(l, e)
  <1>0. s \in Sections /\ e.node \in Nodes BY DEF Entries, Nodes
  <1>1. l \in Seq(Entries) /\ Len(l) \in Nat BY <1>0 DEF TypeOK
  <1>2. list'[s] = k /\ \A t \in Sections \ {s} : list'[t] = list[t]
    BY <1>0 DEF ListPush, TypeOK
  <1>3. size'[s] = size[s] + NodeLen(e.node) /\ \A t \in Sections \ {s} : size'[t] = size[t]
    BY <1>0 DEF ListPush, TypeOK
  <1>4. Len(k) = Len(l) + 1 /\ k[Len(l) + 1] = e /\ \A j \in 1 .. Len(l) : k[j] = l[j]
    BY <1>1
  <1>5. Total(k) = Total(l) + NodeLen(e.node) BY <1>1, TotalAppend
  <1> HIDE DEF k
  <1>6. \A j \in 1 .. Len(l) : l[j] # e BY <1>0 DEF Live
  <1>7. Placed'
    <2> SUFFICES ASSUME NEW t \in Sections, NEW j \in 1 .. Len(list'[t])
                 PROVE  list'[t][j].section = t
      BY DEF Placed
    <2>1. CASE t = s
      <3>1. j = Len(l) + 1 \/ j \in 1 .. Len(l) BY <1>1, <1>2, <1>4, <2>1
      <3>q. QED BY <1>0, <1>2, <1>4, <2>1, <3>1 DEF Lists, Placed
    <2>2. CASE t # s BY <1>2, <2>2 DEF Lists, Placed
    <2>q. QED BY <2>1, <2>2
  <1>8. NoRepeat'
    <2> SUFFICES ASSUME NEW t \in Sections, NEW g \in 1 .. Len(list'[t]), NEW h \in 1 .. Len(list'[t]),
                        list'[t][g] = list'[t][h]
                 PROVE  g = h
      BY DEF NoRepeat
    <2>1. CASE t = s
      <3>1. g \in 1 .. Len(l) \/ g = Len(l) + 1 BY <1>1, <1>2, <1>4, <2>1
      <3>2. h \in 1 .. Len(l) \/ h = Len(l) + 1 BY <1>1, <1>2, <1>4, <2>1
      <3>3. k[g] = k[h] BY <1>2, <2>1
      <3>4. CASE g \in 1 .. Len(l) /\ h \in 1 .. Len(l)
        <4>1. l[g] = l[h] BY <1>4, <3>3, <3>4
        <4>q. QED BY <1>0, <3>4, <4>1 DEF Lists, NoRepeat
      <3>5. CASE g \in 1 .. Len(l) /\ h = Len(l) + 1 BY <1>4, <1>6, <3>3, <3>5
      <3>6. CASE g = Len(l) + 1 /\ h \in 1 .. Len(l) BY <1>4, <1>6, <3>3, <3>6
      <3>q. QED BY <3>1, <3>2, <3>4, <3>5, <3>6
    <2>2. CASE t # s BY <1>2, <2>2 DEF Lists, NoRepeat
    <2>q. QED BY <2>1, <2>2
  <1>9. Summed'
    <2> SUFFICES ASSUME NEW t \in Sections PROVE size'[t] = Total(list'[t]) BY DEF Summed
    <2>1. CASE t = s BY <1>0, <1>2, <1>3, <1>5, <2>1 DEF Lists, Summed
    <2>2. CASE t # s BY <1>2, <1>3, <2>2 DEF Lists, Summed
    <2>q. QED BY <2>1, <2>2
  <1>10. Live' = Live \cup {e}
    <2>1. ASSUME NEW t \in Sections, NEW j \in 1 .. Len(list'[t])
          PROVE  list'[t][j] \in Live \cup {e}
      <3>1. CASE t = s
        <4>1. j = Len(l) + 1 \/ j \in 1 .. Len(l) BY <1>1, <1>2, <1>4, <3>1
        <4>q. QED BY <1>0, <1>2, <1>4, <3>1, <4>1 DEF Live
      <3>2. CASE t # s BY <1>2, <3>2 DEF Live
      <3>q. QED BY <3>1, <3>2
    <2>2. ASSUME NEW t \in Sections, NEW j \in 1 .. Len(list[t])
          PROVE  list[t][j] \in Live'
      <3>1. CASE t = s
        <4>1. j \in 1 .. Len(k) /\ k[j] = list[t][j] BY <1>1, <1>4, <3>1
        <4>q. QED BY <1>0, <1>2, <3>1, <4>1 DEF Live
      <3>2. CASE t # s BY <1>2, <3>2 DEF Live
      <3>q. QED BY <3>1, <3>2
    <2>3. e \in Live'
      <3>1. Len(l) + 1 \in 1 .. Len(k) BY <1>1, <1>4
      <3>q. QED BY <1>0, <1>2, <1>4, <3>1 DEF Live
    <2>4. ASSUME NEW f \in Live' PROVE f \in Live \cup {e}
      <3>1. PICK t \in Sections : f \in {list'[t][j] : j \in 1 .. Len(list'[t])} BY DEF Live
      <3>2. PICK j \in 1 .. Len(list'[t]) : f = list'[t][j] BY <3>1
      <3>q. QED BY <2>1, <3>2
    <2>5. ASSUME NEW f \in Live PROVE f \in Live'
      <3>1. PICK t \in Sections : f \in {list[t][j] : j \in 1 .. Len(list[t])} BY DEF Live
      <3>2. PICK j \in 1 .. Len(list[t]) : f = list[t][j] BY <3>1
      <3>q. QED BY <2>2, <3>2
    <2>q. QED BY <2>3, <2>4, <2>5
  <1>q. QED BY <1>7, <1>8, <1>9, <1>10 DEF Lists

-----------------------------------------------------------------------------
(* The steps. *)

\* The tree consists of nodes of trees.
LEMMA TreeType ==
  ASSUME IInv
  PROVE  LiveNodes \in SUBSET TreeNodes /\ Tree \in SUBSET TreeNodes
  <1>1. LiveNodes \subseteq TreeNodes BY LiveType DEF LiveNodes, Entries, TreeNodes, IInv
  <1>2. copying => entry.node \in TreeNodes BY DEF IInv, CallShape, TreeNodes
  <1>q. QED BY <1>1, <1>2 DEF Tree

\* While nothing is copied, the tree is what the lists say.
LEMMA IdleTree ==
  ASSUME ~copying
  PROVE  Tree = LiveNodes /\ \A x : DirExists(x) <=> Exists(Tree, x)
  <1>1. Tree = LiveNodes BY DEF Tree
  <1>q. QED BY <1>1 DEF DirExists, Exists, LiveDirs

\* A step that touches neither the lists nor what the call has still to do.
LEMMA QuietStep ==
  ASSUME TInv, UNCHANGED <<list, size, dirIdMax, todo, copying>>, copying => UNCHANGED entry
  PROVE  TInv'
  <1>1. Live' = Live BY DEF Live
  <1>2. LiveNodes' = LiveNodes BY <1>1 DEF LiveNodes
  <1>3. Tree' = Tree BY <1>2 DEF Tree
  <1>4. Lists' BY DEF TInv, Lists, Placed, NoRepeat, Summed
  <1>5. Single' BY <1>1, <1>2 DEF TInv, Single
  <1>6. Sound(Tree', todo', dirIdMax') BY <1>3 DEF TInv
  <1>q. QED BY <1>4, <1>5, <1>6 DEF TInv

\* A call that leaves the lists alone and has `entries' to append.
LEMMA EnterTree ==
  ASSUME TInv, ~copying, UNCHANGED <<list, size, copying>>,
         Sound(Tree, todo', dirIdMax')
  PROVE  TInv'
  <1>1. Live' = Live BY DEF Live
  <1>2. LiveNodes' = LiveNodes BY <1>1 DEF LiveNodes
  <1>3. Tree' = Tree BY <1>2 DEF Tree
  <1>4. Lists' BY DEF TInv, Lists, Placed, NoRepeat, Summed
  <1>5. Single' BY <1>1 DEF TInv, Single
  <1>6. Sound(Tree', todo', dirIdMax') BY <1>3
  <1>q. QED BY <1>4, <1>5, <1>6 DEF TInv

\* A node leaves the lists.
LEMMA Without ==
  ASSUME IInv, Single, NEW e \in Live, Live' = Live \ {e}
  PROVE  /\ LiveNodes' = LiveNodes \ {e.node}
         /\ e.node \in LiveNodes
         /\ \A f, g \in Live' : f.node = g.node => f = g
  BY DEF LiveNodes, Single

\* A node joins them.
LEMMA With ==
  ASSUME Single, NEW e, e.node \notin LiveNodes, Live' = Live \cup {e}
  PROVE  /\ LiveNodes' = LiveNodes \cup {e.node}
         /\ \A f, g \in Live' : f.node = g.node => f = g
  <1>1. LiveNodes' = LiveNodes \cup {e.node} BY DEF LiveNodes
  <1>2. \A f \in Live : f.node # e.node BY DEF LiveNodes
  <1>q. QED BY <1>1, <1>2 DEF Single

\* node_copy takes a node from the list of the head section ...
LEMMA NodeCopyTree ==
  ASSUME IInv, TInv, NodeCopy
  PROVE  TInv'
  <1> DEFINE e == list[headSec][1]
  <1>1. /\ copying = FALSE /\ copying' = TRUE /\ ListDel(e) /\ entry'.node = e.node
        /\ UNCHANGED <<dirIdMax, todo>>
    BY IdleNotCopying DEF NodeCopy, StartEntry
  <1>2. e \in Live
    <2>1. headSec \in Sections /\ list[headSec] \in Seq(Entries) /\ list[headSec] # << >>
      BY DEF IInv, TypeOK, NodeCopy
    <2>2. 1 \in 1 .. Len(list[headSec]) BY <2>1
    <2>q. QED BY <2>1, <2>2 DEF Live
  <1> HIDE DEF e
  <1>3. Lists' /\ Live' = Live \ {e} BY <1>1, <1>2, DelLists DEF IInv, TInv
  <1>4. /\ LiveNodes' = LiveNodes \ {e.node} /\ e.node \in LiveNodes
        /\ \A f, g \in Live' : f.node = g.node => f = g
    BY <1>2, <1>3, Without DEF TInv
  <1>5. Tree' = Tree BY <1>1, <1>4 DEF Tree
  <1>6. Single' BY <1>1, <1>4 DEF Single
  <1>7. Sound(Tree', todo', dirIdMax') BY <1>1, <1>5 DEF TInv
  <1>q. QED BY <1>3, <1>6, <1>7 DEF TInv

\* ... and puts it on the list of the section the copy starts in.
LEMMA NodeCopiedTree ==
  ASSUME IInv, TInv, NodeCopied
  PROVE  TInv'
  <1>1. /\ copying /\ copying' = FALSE /\ ListPush(entry) /\ UNCHANGED <<dirIdMax, todo>>
    BY DEF NodeCopied
  <1>2. entry \in Entries BY <1>1 DEF IInv, CallShape, Located, Entries
  <1>3. entry.node \notin LiveNodes /\ entry \notin Live
    BY <1>1 DEF TInv, Single, LiveNodes
  <1>4. Lists' /\ Live' = Live \cup {entry} BY <1>1, <1>2, <1>3, PushLists DEF IInv, TInv
  <1>5. /\ LiveNodes' = LiveNodes \cup {entry.node}
        /\ \A f, g \in Live' : f.node = g.node => f = g
    BY <1>3, <1>4, With DEF TInv
  <1>6. Tree' = Tree BY <1>1, <1>5 DEF Tree
  <1>7. Single' BY <1>1, <1>5 DEF Single
  <1>8. Sound(Tree', todo', dirIdMax') BY <1>1, <1>6 DEF TInv
  <1>q. QED BY <1>4, <1>7, <1>8 DEF TInv

\* tinyfs_write: the record it writes over, if there is one, leaves the lists.
LEMMA WriteTree ==
  ASSUME IInv, TInv, NEW p \in Parents, NEW n \in Names, NEW v \in Values, Write(p, n, v)
  PROVE  TInv'
  <1>1. /\ copying = FALSE /\ copying' = FALSE /\ UNCHANGED dirIdMax
        /\ todo' = <<RecordAdd(p, n, v)>> /\ DirExists(p)
    BY IdleNotCopying DEF Write, CanCall, Enter
  <1>2. Tree = LiveNodes /\ Exists(Tree, p) /\ Tree \in SUBSET TreeNodes
    BY <1>1, IdleTree, TreeType
  <1>3. CASE Records(p, n) # {}
    <2>1. PICK e \in Records(p, n) : ListDel(e) BY <1>3 DEF Write
    <2>2. e \in Live /\ IsRecord(e.node) /\ e.node.parent = p /\ e.node.name = n
      BY DEF Records
    <2>3. Lists' /\ Live' = Live \ {e} BY <2>1, <2>2, DelLists DEF IInv, TInv
    <2>4. /\ LiveNodes' = LiveNodes \ {e.node} /\ e.node \in LiveNodes
          /\ \A f, g \in Live' : f.node = g.node => f = g
      BY <2>2, <2>3, Without DEF TInv
    <2>5. Tree' = Tree \ {e.node} BY <1>1, <1>2, <2>4 DEF Tree
    <2>6. \A m \in Tree : m \in Tree' <=> ~(IsRecord(m) /\ m.parent = p /\ m.name = n)
      BY <1>2, <2>2, <2>4, <2>5 DEF TInv, Sound, Unique, Clash, IsRecord
    <2>7. Sound(Tree', <<RecordAdd(p, n, v)>>, dirIdMax)
      <3>1. Tree' \in SUBSET Tree BY <2>5
      <3>q. QED BY <1>2, <2>6, <3>1, SoundWrite DEF TInv
    <2>8. Single' BY <1>1, <2>4 DEF Single
    <2>q. QED BY <1>1, <2>3, <2>7, <2>8 DEF TInv
  <1>4. CASE Records(p, n) = {}
    <2>1. UNCHANGED <<list, size>> BY <1>4 DEF Write
    <2>2. \A m \in Tree : ~(IsRecord(m) /\ m.parent = p /\ m.name = n)
      BY <1>2, <1>4 DEF Records, LiveNodes
    <2>3. Sound(Tree, <<RecordAdd(p, n, v)>>, dirIdMax)
      BY <1>2, <2>2, SoundWrite DEF TInv
    <2>q. QED BY <1>1, <2>1, <2>3, EnterTree
  <1>q. QED BY <1>3, <1>4

\* tinyfs_del_record.
LEMMA DelRecordTree ==
  ASSUME IInv, TInv, NEW p \in Parents, NEW n \in Names, DelRecord(p, n)
  PROVE  TInv'
  <1>1. /\ copying = FALSE /\ UNCHANGED <<copying, dirIdMax, list, size>>
        /\ todo' = <<RecordRemove(p, n)>>
    BY IdleNotCopying DEF DelRecord, CanCall, Enter
  <1>2. Sound(Tree, <<RecordRemove(p, n)>>, dirIdMax) BY TreeType, SoundDelRecord DEF TInv
  <1>q. QED BY <1>1, <1>2, EnterTree

\* tinyfs_mkdir.
LEMMA MkdirTree ==
  ASSUME IInv, TInv, NEW p \in Parents, NEW n \in Names, Mkdir(p, n)
  PROVE  TInv'
  <1>1. /\ copying = FALSE /\ UNCHANGED <<copying, list, size>>
        /\ dirIdMax' = dirIdMax + 1 /\ todo' = <<DirAdd(p, n, dirIdMax + 1)>>
        /\ DirExists(p) /\ ~ \E m \in LiveNodes : IsDir(m) /\ m.parent = p /\ m.name = n
    BY IdleNotCopying DEF Mkdir, CanCall, Enter
  <1>2. Tree = LiveNodes /\ Exists(Tree, p) /\ Tree \in SUBSET TreeNodes
    BY <1>1, IdleTree, TreeType
  <1>3. dirIdMax \in Parents /\ dirIdMax + 1 \in DirIds
    BY LengthAssumption DEF Mkdir, IInv, TypeOK, Parents, RootId, DirIds
  <1>4. Sound(Tree, <<DirAdd(p, n, dirIdMax + 1)>>, dirIdMax + 1)
    BY <1>1, <1>2, <1>3, SoundMkdir DEF TInv
  <1>q. QED BY <1>1, <1>4, EnterTree

\* What is below a directory: all it holds, and not the directory itself.
LEMMA BelowIs ==
  ASSUME IInv, TInv, ~copying, NEW D \in LiveNodes, IsDir(D)
  PROVE  /\ Below(D.id) \subseteq LiveNodes /\ D \notin Below(D.id)
         /\ \A m \in LiveNodes : m.parent = D.id => m \in Below(D.id)
         /\ \A m \in LiveNodes : \A x \in Below(D.id) : IsDir(x) /\ m.parent = x.id => m \in Below(D.id)
  <1> DEFINE d == D.id
             closed == {ids \in SUBSET LiveDirs :
                          /\ d \in ids
                          /\ \A m \in LiveNodes : IsDir(m) /\ m.parent \in ids => m.id \in ids}
  <1>1. Below(d) = {m \in LiveNodes : \A ids \in closed : m.parent \in ids} BY DEF Below
  <1>2. \A ids \in closed : d \in ids OBVIOUS
  <1>3. \A ids \in closed : \A x \in LiveNodes : IsDir(x) /\ x.parent \in ids => x.id \in ids
    OBVIOUS
  <1>4. Tree = LiveNodes /\ LiveNodes \in SUBSET TreeNodes BY IdleTree, TreeType
  <1>5. \A m \in LiveNodes : IsDir(m) =>
          m.id \in LiveDirs /\ m.id \in Nat /\ m.parent \in Nat /\ m.parent < m.id
    BY <1>4, TreeNodeKinds, IdsAreNumbers DEF TInv, Sound, Younger, LiveDirs
  <1>6. {i \in LiveDirs : i >= d} \in closed
    <2> DEFINE ids == {i \in LiveDirs : i >= d}
    <2>1. d \in ids /\ d \in Nat BY <1>5
    <2>2. ASSUME NEW m \in LiveNodes, IsDir(m), m.parent \in ids PROVE m.id \in ids
      BY <1>5, <2>1, <2>2
    <2> HIDE DEF ids
    <2>3. ids \in SUBSET LiveDirs BY DEF ids
    <2>q. QED BY <2>1, <2>2, <2>3 DEF ids
  <1>7. D.parent \notin {i \in LiveDirs : i >= d} BY <1>5
  <1> HIDE DEF closed
  <1>8. D \notin Below(d) BY <1>1, <1>6, <1>7
  <1>q. QED BY <1>1, <1>2, <1>3, <1>8

\* tinyfs_del_dir.
LEMMA DelDirTree ==
  ASSUME IInv, TInv, NEW d \in DirIds, NEW force \in BOOLEAN, DelDir(d, force)
  PROVE  TInv'
  <1> DEFINE B == IF force THEN Below(d) ELSE {}
  <1>1. /\ copying = FALSE /\ UNCHANGED <<copying, dirIdMax, list, size>>
        /\ d \in LiveDirs /\ (~force => Children(d) = {})
    BY IdleNotCopying DEF DelDir, CanCall
  <1>2. Tree = LiveNodes /\ Tree \in SUBSET TreeNodes BY <1>1, IdleTree, TreeType
  <1>3. PICK D \in LiveNodes : IsDir(D) /\ D.id = d BY <1>1 DEF LiveDirs
  <1>4. PICK order \in RemovalOrders(B) :
          Enter(Append([i \in DOMAIN order |-> RemovalOf(order[i])], DirRemove(d)))
    BY DEF DelDir
  <1>5. /\ B \in SUBSET LiveNodes /\ D \notin B
        /\ \A m \in LiveNodes : m.parent = d \/ (\E x \in B : IsDir(x) /\ m.parent = x.id) => m \in B
    <2>1. CASE force BY <1>1, <1>3, <2>1, BelowIs
    <2>2. CASE ~force BY <1>1, <2>2 DEF Children
    <2>q. QED BY <2>1, <2>2
  <1> HIDE DEF B
  <1>6. PICK k \in Nat : order \in [1 .. k -> B] BY BoundAssumption DEF RemovalOrders
  <1>7. /\ \A m \in B : \E i \in 1 .. k : order[i] = m
        /\ \A i, j \in 1 .. k : order[i] = order[j] => i = j
        /\ \A i, j \in 1 .. k : IsDir(order[i]) /\ order[j].parent = order[i].id => j < i
    <2>1. DOMAIN order = 1 .. k BY <1>6
    <2>2. /\ Range(order) = B /\ IsInjective(order)
          /\ \A i, j \in DOMAIN order : IsDir(order[i]) /\ order[j].parent = order[i].id => j < i
      BY DEF RemovalOrders
    <2>q. QED BY <2>1, <2>2 DEF Range, IsInjective
  <1>8. Sound(Tree, Append([i \in 1 .. k |-> RemovalOf(order[i])], DirRemove(D.id)), dirIdMax)
    <2>1. Subtree(Tree, D, B) BY <1>2, <1>3, <1>5 DEF Subtree
    <2>2. InOrder(B, k, order) BY <1>6, <1>7 DEF InOrder
    <2>q. QED BY <1>2, <2>1, <2>2, SoundDelDir DEF TInv
  <1>9. todo' = Append([i \in 1 .. k |-> RemovalOf(order[i])], DirRemove(D.id))
    <2>1. DOMAIN order = 1 .. k BY <1>6
    <2>q. QED BY <1>3, <1>4, <2>1 DEF Enter
  <1>10. Sound(Tree, todo', dirIdMax') BY <1>1, <1>8, <1>9
  <1>q. QED BY <1>1, <1>10, EnterTree

\* The end of an entry: the lists follow the log.
LEMMA EntryDoneTree ==
  ASSUME IInv, TInv, EntryDone
  PROVE  TInv'
  <1>1. /\ copying = FALSE /\ copying' = FALSE /\ UNCHANGED dirIdMax
        /\ todo \in Seq(Nodes) /\ todo # << >> /\ entry \in Located /\ entry.node = todo[1]
    BY DEF EntryDone, IInv, TypeOK, CallShape
  <1>2. /\ Len(todo) > 1 => todo' = SubSeq(todo, 2, Len(todo))
        /\ ~(Len(todo) > 1) => todo' = << >>
    BY DEF EntryDone, Enter
  <1>3. Tree = LiveNodes /\ Tree \in SUBSET TreeNodes /\ todo[1] \in Nodes
    BY <1>1, IdleTree, TreeType
  <1>4. CASE IsAdd(todo[1])
    <2>1. ListPush(entry) BY <1>4 DEF EntryDone, IsAdd
    <2>2. entry \in Entries BY <1>1, <1>3, <1>4, NodeKinds DEF Located, Entries, IsAdd
    <2>3. Len(todo) = 1 /\ \A m \in Tree : ~Clash(m, todo[1])
      BY <1>1, <1>4 DEF TInv, Sound, Adding
    <2>4. entry.node \notin LiveNodes /\ entry \notin Live
      BY <1>1, <1>3, <2>3 DEF Clash, LiveNodes
    <2>5. Lists' /\ Live' = Live \cup {entry} BY <2>1, <2>2, <2>4, PushLists DEF IInv, TInv
    <2>6. /\ LiveNodes' = LiveNodes \cup {entry.node}
          /\ \A f, g \in Live' : f.node = g.node => f = g
      BY <2>4, <2>5, With DEF TInv
    <2>7. Tree' = Tree \cup {todo[1]} BY <1>1, <1>3, <2>6 DEF Tree
    <2>8. todo' = << >> BY <1>2, <2>3
    <2>9. Sound(Tree', todo', dirIdMax')
      BY <1>1, <1>3, <1>4, <2>7, <2>8, SoundAdded DEF TInv
    <2>10. Single' BY <1>1, <2>6 DEF Single
    <2>q. QED BY <2>5, <2>9, <2>10 DEF TInv
  <1>5. CASE ~IsAdd(todo[1])
    <2>1. PICK e \in Live : Removes(todo[1], e.node) /\ ListDel(e) BY <1>5 DEF EntryDone, IsAdd
    <2>2. Lists' /\ Live' = Live \ {e} BY <2>1, DelLists DEF IInv, TInv
    <2>3. /\ LiveNodes' = LiveNodes \ {e.node} /\ e.node \in LiveNodes
          /\ \A f, g \in Live' : f.node = g.node => f = g
      BY <2>2, Without DEF TInv
    <2>4. Tree' = Tree \ {e.node} BY <1>1, <1>3, <2>3 DEF Tree
    <2>5. /\ Sound(Tree \ {e.node}, SubSeq(todo, 2, Len(todo)), dirIdMax)
          /\ Sound(Tree \ {e.node}, << >>, dirIdMax)
      BY <1>1, <1>3, <1>5, <2>1, <2>3, SoundRemoved DEF TInv
    <2>6. Sound(Tree', todo', dirIdMax') BY <1>1, <1>2, <2>4, <2>5
    <2>7. Single' BY <1>1, <2>3 DEF Single
    <2>q. QED BY <2>2, <2>6, <2>7 DEF TInv
  <1>q. QED BY <1>4, <1>5

\* An erased volume: no lists, no tree.
LEMMA InitTree == Init => TInv
  <1> SUFFICES ASSUME Init PROVE TInv OBVIOUS
  <1>1. list = [s \in Sections |-> << >>] /\ size = [s \in Sections |-> 0] BY DEF Init
  <1>2. \A s \in Sections : list[s] = << >> /\ size[s] = 0 BY <1>1
  <1>3. Total(<< >>) = 0
    <2>1. << >> \in Seq(Entries) /\ Len(<< >>) = 0 OBVIOUS
    <2>2. AddsUp([i \in 0 .. 0 |-> 0], << >>) BY DEF AddsUp
    <2>q. QED BY <2>1, <2>2, TotalIs
  <1>4. Lists BY <1>2, <1>3 DEF Lists, Placed, NoRepeat, Summed
  <1>5. Live = {} BY <1>2 DEF Live
  <1>6. Tree = {} /\ ~copying /\ todo = << >> BY <1>5 DEF Tree, LiveNodes, Init
  <1>7. Single BY <1>5, <1>6 DEF Single
  <1>8. Sound({}, << >>, dirIdMax) BY DEF Sound, Unique, Rooted, Younger, Adding, Removing
  <1>q. QED BY <1>4, <1>6, <1>7, <1>8 DEF TInv

\* Every step preserves the invariant of lists and tree.
LEMMA NextTree == IInv /\ TInv /\ [Next]_vars => TInv'
  <1> SUFFICES ASSUME IInv, TInv, [Next]_vars PROVE TInv' OBVIOUS
  <1>1. CASE UNCHANGED vars BY <1>1, QuietStep DEF vars
  <1>2. CASE Call
    <2>1. CASE Sync BY <2>1, QuietStep DEF Sync, treeVars, callVars
    <2>q. QED BY <1>2, <2>1, WriteTree, DelRecordTree, MkdirTree, DelDirTree DEF Call
  <1>3. CASE Work
    <2>1. CASE CollectStart BY <2>1, QuietStep DEF CollectStart, treeVars
    <2>2. CASE DataCopy BY <2>2, QuietStep DEF DataCopy, treeVars
    <2>3. CASE CollectSync BY <2>3, QuietStep DEF CollectSync, treeVars
    <2>4. CASE CollectErase BY <2>4, QuietStep DEF CollectErase, treeVars
    <2>5. CASE EntryStart
      <3>1. ~copying BY <2>5, IdleNotCopying DEF EntryStart
      <3>q. QED BY <2>5, <3>1, QuietStep DEF EntryStart, treeVars
    <2>6. CASE SectionHeadWrite BY <2>6, QuietStep DEF SectionHeadWrite, treeVars
    <2>7. CASE NodeWrite BY <2>7, QuietStep DEF NodeWrite, treeVars
    <2>q. QED BY <1>3, <2>1, <2>2, <2>3, <2>4, <2>5, <2>6, <2>7,
                 NodeCopyTree, NodeCopiedTree, EntryDoneTree DEF Work
  <1>q. QED BY <1>1, <1>2, <1>3 DEF Next

-----------------------------------------------------------------------------
(* The results. *)

\* The invariant holds of every behaviour.
THEOREM TreeInvariance == Spec => [](IInv /\ TInv)
  <1>1. Init => IInv /\ TInv BY InitInv, InitTree
  <1>2. IInv /\ TInv /\ [Next]_vars => (IInv /\ TInv)' BY NextInv, NextTree
  <1>q. QED BY <1>1, <1>2, PTL DEF Spec

\* tinyfs_list[]: each live node is on one list, that of the section it starts
\* in, and size[] is the sum of what the list holds, however many records are
\* written over, removed or moved by the collector.
THEOREM ListsAreExact == Spec => []ListsExact
  <1>1. TInv => ListsExact
    BY DEF TInv, Lists, Placed, Summed, Single, ListsExact
  <1>q. QED BY <1>1, TreeInvariance, PTL

\* The directory tree: whatever is live has a live parent and a name of its own,
\* between any two entries of a recursive delete as well.
THEOREM TreeIsSound == Spec => []TreeSound
  <1>1. TInv => TreeSound
    <2> SUFFICES ASSUME TInv, ~copying
                 PROVE  /\ \A m \in LiveNodes : DirExists(m.parent)
                        /\ \A m, n \in LiveNodes :
                            m.type = n.type /\ m.parent = n.parent /\ m.name = n.name => m = n
      BY DEF TreeSound
    <2>1. Unique(Tree) /\ Rooted(Tree) BY DEF TInv, Sound
    <2>2. Tree = LiveNodes /\ \A x : DirExists(x) <=> Exists(Tree, x) BY IdleTree
    <2>q. QED BY <2>1, <2>2 DEF Unique, Rooted, Clash
  <1>q. QED BY <1>1, TreeInvariance, PTL

-----------------------------------------------------------------------------
(* The pool of nodes. *)

\* The nodes taken from the pool for entries that are not on a list yet.
Pending == (IF todo # << >> /\ IsAdd(todo[1]) THEN 1 ELSE 0) + (IF copying THEN 1 ELSE 0)

\* There are never more nodes than the pool holds.
Pool == IsFiniteSet(Live) /\ Cardinality(Live) + Pending <= NodeMax

\* No node is longer than M.
LongestIs(M) == M \in Nat /\ \A n \in Nodes : NodeLen(n) <= M

\* A list does not hold more than its length times the longest node.
LEMMA TotalBound ==
  ASSUME NEW M, LongestIs(M), NEW l \in Seq(Entries)
  PROVE  Total(l) \in Nat /\ Total(l) <= Len(l) * M
  <1>1. PICK f : AddsUp(f, l) BY AddsExists
  <1> DEFINE Bad == {i \in 0 .. Len(l) : ~(f[i] \in Nat /\ f[i] <= i * M)}
  <1>2. Len(l) \in Nat /\ M \in Nat BY DEF LongestIs
  <1>3. Bad = {}
    <2> SUFFICES ASSUME Bad # {} PROVE FALSE OBVIOUS
    <2>1. Bad \in SUBSET Nat BY <1>2
    <2>2. PICK n \in Bad : \A m \in Bad : n <= m
      <3> HIDE DEF Bad
      <3>q. QED BY <2>1, Least
    <2>3. n # 0
      <3>1. f[0] = 0 /\ 0 * M = 0 BY <1>1, <1>2 DEF AddsUp
      <3>q. QED BY <2>2, <3>1
    <2>4. n \in 1 .. Len(l) /\ n - 1 \in 0 .. Len(l) /\ n - 1 \notin Bad
      <3>1. n \in 0 .. Len(l) BY <2>2
      <3>2. n \in 1 .. Len(l) /\ n - 1 \in 0 .. Len(l) BY <1>2, <2>3, <3>1
      <3> HIDE DEF Bad
      <3>q. QED BY <2>1, <2>2, <3>2
    <2>5. f[n - 1] \in Nat /\ f[n - 1] <= (n - 1) * M BY <2>4
    <2>6. NodeLen(l[n].node) \in Nat /\ NodeLen(l[n].node) <= M
      BY <2>4, ElementType DEF LongestIs
    <2>7. f[n] = f[n - 1] + NodeLen(l[n].node) BY <1>1, <2>4 DEF AddsUp
    <2>8. n * M = (n - 1) * M + M /\ (n - 1) * M \in Nat /\ n * M \in Nat
      <3>1. n - 1 \in Nat /\ 1 \in Nat /\ n = (n - 1) + 1 BY <1>2, <2>4
      <3>2. ((n - 1) + 1) * M = (n - 1) * M + 1 * M BY <3>1, <1>2, Distribute
      <3>3. 1 * M = M BY <1>2
      <3>q. QED BY <3>1, <3>2, <3>3, <1>2
    <2>9. f[n] \in Nat /\ f[n] <= n * M BY <1>2, <2>5, <2>6, <2>7, <2>8
    <2>q. QED BY <2>2, <2>9
  <1>4. f[Len(l)] \in Nat /\ f[Len(l)] <= Len(l) * M BY <1>2, <1>3
  <1>q. QED BY <1>1, <1>4, TotalIs

\* A list without repetitions has as many elements as places.
LEMMA ElementCount ==
  ASSUME NEW l \in Seq(Entries), \A i, j \in 1 .. Len(l) : l[i] = l[j] => i = j
  PROVE  LET E == {l[i] : i \in 1 .. Len(l)}
         IN  IsFiniteSet(E) /\ Cardinality(E) = Len(l)
  <1> DEFINE E == {l[i] : i \in 1 .. Len(l)}
             f == [i \in 1 .. Len(l) |-> l[i]]
  <1>1. Len(l) \in Nat OBVIOUS
  <1>2. IsFiniteSet(1 .. Len(l)) /\ Cardinality(1 .. Len(l)) = Len(l)
    <2> DEFINE k == Len(l)
    <2>1. k \in Int /\ 1 \in Int BY <1>1
    <2>2. k \in Nat BY <1>1
    <2> HIDE DEF k
    <2>3. IsFiniteSet(1 .. k) /\ Cardinality(1 .. k) = IF 1 > k THEN 0 ELSE k - 1 + 1 BY <2>1, FS_Interval
    <2>4. (IF 1 > k THEN 0 ELSE k - 1 + 1) = k BY <2>2
    <2>q. QED BY <2>3, <2>4 DEF k
  <1>3. f \in Surjection(1 .. Len(l), E) BY DEF Surjection
  <1>4. f \in Injection(1 .. Len(l), E)
    <2>1. IsInjective(f) BY DEF IsInjective
    <2>2. f \in [1 .. Len(l) -> E] OBVIOUS
    <2>q. QED BY <2>1, <2>2 DEF Injection
  <1> HIDE DEF f, E
  <1>5. IsFiniteSet(E) /\ Cardinality(E) = Cardinality(1 .. Len(l)) BY <1>2, <1>3, <1>4, FS_Surjection
  <1>q. QED BY <1>2, <1>5 DEF E

\* More nodes of a length are longer.
LEMMA Scale ==
  ASSUME NEW a \in Nat, NEW b \in Nat, a <= b, NEW M \in Nat
  PROVE  a * M <= b * M /\ a * M \in Nat /\ b * M \in Nat
  <1>1. PICK d \in Nat : b = a + d
    <2>1. b - a \in Nat /\ b = a + (b - a) OBVIOUS
    <2>q. QED BY <2>1
  <1>2. b * M = a * M + d * M BY <1>1, Distribute
  <1>3. a * M \in Nat /\ d * M \in Nat OBVIOUS
  <1>q. QED BY <1>2, <1>3

\* What a section's list may add up to.
LEMMA SizeBound ==
  ASSUME TypeOK, Lists, IsFiniteSet(Live), NEW M, LongestIs(M), NEW s \in Sections
  PROVE  size[s] \in Nat /\ size[s] <= Cardinality(Live) * M
  <1> DEFINE l == list[s]
             E == {l[i] : i \in 1 .. Len(l)}
  <1>1. l \in Seq(Entries) /\ size[s] = Total(l) BY DEF TypeOK, Lists, Summed
  <1>2. IsFiniteSet(E) /\ Cardinality(E) = Len(l)
    <2>1. \A i, j \in 1 .. Len(l) : l[i] = l[j] => i = j BY DEF Lists, NoRepeat
    <2> HIDE DEF l
    <2>q. QED BY <1>1, <2>1, ElementCount
  <1>3. E \in SUBSET Live BY DEF Live
  <1> HIDE DEF l, E
  <1>4. Len(l) \in Nat /\ Len(l) <= Cardinality(Live) /\ Cardinality(Live) \in Nat
    BY <1>1, <1>2, <1>3, FS_Subset, FS_CardinalityType
  <1>5. Total(l) \in Nat /\ Total(l) <= Len(l) * M BY <1>1, TotalBound
  <1>6. M \in Nat BY DEF LongestIs
  <1>7. Len(l) * M <= Cardinality(Live) * M /\ Len(l) * M \in Nat /\ Cardinality(Live) * M \in Nat
    BY <1>4, <1>6, Scale
  <1>q. QED BY <1>1, <1>5, <1>7

\* A step that takes no node and gives none back.
LEMMA SamePool == ASSUME Pool, UNCHANGED <<list, todo, copying>> PROVE Pool'
  BY DEF Pool, Live, Pending

\* Every step takes its nodes from the pool.
LEMMA NextPool == IInv /\ TInv /\ Pool /\ [Next]_vars => Pool'
  <1> SUFFICES ASSUME IInv, TInv, Pool, [Next]_vars PROVE Pool' OBVIOUS
  <1>1. IsFiniteSet(Live) /\ Cardinality(Live) \in Nat /\ NodeMax \in Nat
        /\ Cardinality(Live) + Pending <= NodeMax /\ Pending \in {0, 1, 2}
    BY FS_CardinalityType, BoundAssumption DEF Pool, Pending
  <1>2. \A e \in Live : /\ IsFiniteSet(Live \ {e}) /\ Cardinality(Live \ {e}) = Cardinality(Live) - 1
    BY <1>1, FS_RemoveElement
  <1>3. \A e : /\ IsFiniteSet(Live \cup {e}) /\ Cardinality(Live \cup {e}) \in Nat
               /\ Cardinality(Live \cup {e}) <= Cardinality(Live) + 1
    <2> SUFFICES ASSUME NEW e PROVE /\ IsFiniteSet(Live \cup {e}) /\ Cardinality(Live \cup {e}) \in Nat
                                    /\ Cardinality(Live \cup {e}) <= Cardinality(Live) + 1
      OBVIOUS
    <2>1. /\ IsFiniteSet(Live \cup {e})
          /\ Cardinality(Live \cup {e}) = IF e \in Live THEN Cardinality(Live) ELSE Cardinality(Live) + 1
      BY <1>1, FS_AddElement
    <2>q. QED BY <1>1, <2>1
  <1>4. pc = "idle" => copying = FALSE BY IdleNotCopying
  <1>5. CASE UNCHANGED vars BY <1>5, SamePool DEF vars
  <1>6. ASSUME NEW p \in Parents, NEW n \in Names, NEW v \in Values, Write(p, n, v) PROVE Pool'
    <2>1. copying' = FALSE BY <1>4, <1>6 DEF Write, CanCall
    <2>2. Pending' <= 1 /\ Pending' \in Nat BY <2>1 DEF Pending
    <2>3. CASE Records(p, n) # {}
      <3>1. PICK e \in Records(p, n) : ListDel(e) BY <1>6, <2>3 DEF Write
      <3>2. e \in Live BY DEF Records
      <3>3. Live' = Live \ {e} BY <3>1, <3>2, DelLists DEF IInv, TInv
      <3>q. QED BY <1>1, <1>2, <2>2, <3>2, <3>3 DEF Pool
    <2>4. CASE Records(p, n) = {}
      <3>1. Live' = Live /\ Cardinality(Live) < NodeMax BY <1>6, <2>4 DEF Write, PoolFree, Live
      <3>q. QED BY <1>1, <2>2, <3>1 DEF Pool
    <2>q. QED BY <2>3, <2>4
  <1>7. ASSUME NEW p \in Parents, NEW n \in Names, Mkdir(p, n) PROVE Pool'
    <2>1. copying' = FALSE BY <1>4, <1>7 DEF Mkdir, CanCall
    <2>2. Pending' <= 1 /\ Pending' \in Nat BY <2>1 DEF Pending
    <2>3. Live' = Live /\ Cardinality(Live) < NodeMax BY <1>7 DEF Mkdir, PoolFree, Live
    <2>q. QED BY <1>1, <2>2, <2>3 DEF Pool
  <1>8. ASSUME NEW p \in Parents, NEW n \in Names, DelRecord(p, n) PROVE Pool'
    <2>1. copying' = FALSE /\ Live' = Live BY <1>4, <1>8 DEF DelRecord, CanCall, Live
    <2>2. todo' = <<RecordRemove(p, n)>> BY <1>8 DEF DelRecord, Enter
    <2>3. ~IsAdd(todo'[1]) BY <2>2 DEF IsAdd, IsRecord, IsDir, RecordRemove
    <2>4. Pending' = 0 BY <2>1, <2>3 DEF Pending
    <2>q. QED BY <1>1, <2>1, <2>4 DEF Pool
  <1>9. ASSUME NEW d \in DirIds, NEW force \in BOOLEAN, DelDir(d, force) PROVE Pool'
    <2>1. copying' = FALSE /\ Live' = Live BY <1>4, <1>9 DEF DelDir, CanCall, Live
    <2>2. PICK order \in RemovalOrders(IF force THEN Below(d) ELSE {}) :
            todo' = Append([i \in DOMAIN order |-> RemovalOf(order[i])], DirRemove(d))
      BY <1>9 DEF DelDir, Enter
    <2>3. PICK k \in Nat : DOMAIN order = 1 .. k BY BoundAssumption DEF RemovalOrders
    <2>4. ~IsAdd(todo'[1])
      <3> DEFINE q == [i \in 1 .. k |-> RemovalOf(order[i])]
      <3>1. \A i \in 1 .. k : ~IsAdd(q[i])
        BY DEF RemovalOf, IsAdd, IsRecord, IsDir, DirRemove, RecordRemove
      <3>2. ~IsAdd(DirRemove(d)) BY DEF IsAdd, IsRecord, IsDir, DirRemove
      <3>3. todo' = Append(q, DirRemove(d)) BY <2>2, <2>3
      <3>4. q \in Seq({q[i] : i \in 1 .. k}) /\ Len(q) = k
        <4>1. q \in [1 .. k -> {q[i] : i \in 1 .. k}] OBVIOUS
        <4>2. DOMAIN q = 1 .. k OBVIOUS
        <4> HIDE DEF q
        <4>q. QED BY <2>3, <4>1, <4>2
      <3> HIDE DEF q
      <3>5. todo'[1] = IF k = 0 THEN DirRemove(d) ELSE q[1] BY <2>3, <3>3, <3>4
      <3>q. QED BY <2>3, <3>1, <3>2, <3>5
    <2>5. Pending' = 0 BY <2>1, <2>4 DEF Pending
    <2>q. QED BY <1>1, <2>1, <2>5 DEF Pool
  <1>10. CASE Sync BY <1>10, SamePool DEF Sync, treeVars, callVars
  <1>11. CASE NodeCopy
    <2>1. ~copying /\ copying' /\ UNCHANGED todo BY <1>11, IdleNotCopying DEF NodeCopy
    <2>2. Pending' = Pending + 1 BY <2>1 DEF Pending
    <2> DEFINE e == list[headSec][1]
    <2>3. ListDel(e) BY <1>11 DEF NodeCopy
    <2>4. e \in Live
      <3>1. list[headSec] \in Seq(Entries) /\ headSec \in Sections /\ list[headSec] # << >>
        BY <1>11 DEF NodeCopy, IInv, TypeOK
      <3>2. 1 \in 1 .. Len(list[headSec]) BY <3>1
      <3>q. QED BY <3>1, <3>2 DEF Live
    <2> HIDE DEF e
    <2>5. Live' = Live \ {e} BY <2>3, <2>4, DelLists DEF IInv, TInv
    <2>q. QED BY <1>1, <1>2, <2>2, <2>4, <2>5 DEF Pool
  <1>12. CASE NodeCopied
    <2>1. copying /\ ~copying' /\ UNCHANGED todo /\ ListPush(entry) BY <1>12 DEF NodeCopied
    <2>2. Pending' = Pending - 1 /\ Pending >= 1 BY <1>1, <2>1 DEF Pending
    <2>3. entry \in Entries /\ entry \notin Live
      BY <2>1 DEF IInv, CallShape, Located, Entries, TInv, Single, LiveNodes
    <2>4. Live' = Live \cup {entry} BY <2>1, <2>3, PushLists DEF IInv, TInv
    <2>5. IsFiniteSet(Live') /\ Cardinality(Live') \in Nat /\ Cardinality(Live') <= Cardinality(Live) + 1
      BY <1>3, <2>4
    <2>6. Pending' \in {0, 1} BY <1>1, <2>2
    <2> HIDE DEF Pending
    <2>q. QED BY <1>1, <2>2, <2>5, <2>6 DEF Pool
  <1>13. CASE EntryDone
    <2>1. /\ copying = FALSE /\ copying' = FALSE
          /\ todo \in Seq(Nodes) /\ todo # << >> /\ entry \in Located /\ entry.node = todo[1]
      BY <1>13 DEF EntryDone, IInv, TypeOK, CallShape
    <2>2. Pending' <= 1 /\ Pending' \in Nat BY <2>1 DEF Pending
    <2>3. CASE IsAdd(todo[1])
      <3>1. ListPush(entry) BY <1>13, <2>3 DEF EntryDone, IsAdd
      <3>2. Tree = LiveNodes /\ todo[1] \in Nodes BY <2>1, IdleTree
      <3>3. entry \in Entries BY <2>1, <2>3, <3>2, NodeKinds DEF Located, Entries, IsAdd
      <3>4. Len(todo) = 1 /\ \A m \in Tree : ~Clash(m, todo[1])
        BY <2>1, <2>3 DEF TInv, Sound, Adding
      <3>5. entry \notin Live BY <2>1, <3>2, <3>4 DEF Clash, LiveNodes
      <3>6. Live' = Live \cup {entry} BY <3>1, <3>3, <3>5, PushLists DEF IInv, TInv
      <3>7. todo' = << >> BY <1>13, <3>4 DEF EntryDone
      <3>8. Pending' = 0 /\ Pending = 1 BY <2>1, <2>3, <3>7 DEF Pending
      <3>9. IsFiniteSet(Live') /\ Cardinality(Live') \in Nat /\ Cardinality(Live') <= Cardinality(Live) + 1
        BY <1>3, <3>6
      <3>q. QED BY <1>1, <3>8, <3>9 DEF Pool
    <2>4. CASE ~IsAdd(todo[1])
      <3>1. PICK e \in Live : ListDel(e) BY <1>13, <2>4 DEF EntryDone, IsAdd
      <3>2. Live' = Live \ {e} BY <3>1, DelLists DEF IInv, TInv
      <3>q. QED BY <1>1, <1>2, <2>2, <3>1, <3>2 DEF Pool
    <2>q. QED BY <2>3, <2>4
  <1>14. CASE CollectStart \/ DataCopy \/ CollectSync \/ CollectErase \/ EntryStart \/ SectionHeadWrite \/ NodeWrite
    <2>1. UNCHANGED <<list, todo>>
      BY <1>14 DEF CollectStart, DataCopy, CollectSync, CollectErase, EntryStart, SectionHeadWrite,
                   NodeWrite, treeVars
    <2>2. UNCHANGED copying
      BY <1>14 DEF CollectStart, DataCopy, CollectSync, CollectErase, EntryStart, SectionHeadWrite, NodeWrite
    <2>q. QED BY <2>1, <2>2, SamePool
  <1>q. QED BY <1>5, <1>6, <1>7, <1>8, <1>9, <1>10, <1>11, <1>12, <1>13, <1>14 DEF Next, Call, Work

\* An erased volume has taken none.
LEMMA InitPool == Init => Pool
  <1> SUFFICES ASSUME Init PROVE Pool OBVIOUS
  <1>1. Live = {}
    <2>1. \A s \in Sections : list[s] = << >> BY DEF Init
    <2>q. QED BY <2>1 DEF Live
  <1>2. Pending = 0 BY DEF Init, Pending
  <1>q. QED BY <1>1, <1>2, FS_EmptySet, BoundAssumption DEF Pool

-----------------------------------------------------------------------------
(* section_wipe_check finds enough. *)

\* f adds up the first n of v.
Sums(f, v, n) ==
  /\ f \in [0 .. n -> Int] /\ f[0] = 0
  /\ \A i \in 1 .. n : f[i] = f[i - 1] + v[i]

\* There is one such function.
LEMMA SumsExist ==
  ASSUME NEW n \in Nat, NEW v \in [1 .. n -> Int]
  PROVE  \E f : Sums(f, v, n)
  <1> DEFINE Bad == {k \in 0 .. n : ~ \E f : Sums(f, v, k)}
  <1>1. Bad = {}
    <2> SUFFICES ASSUME Bad # {} PROVE FALSE OBVIOUS
    <2>1. Bad \in SUBSET Nat OBVIOUS
    <2>2. PICK k \in Bad : \A m \in Bad : k <= m
      <3> HIDE DEF Bad
      <3>q. QED BY <2>1, Least
    <2>3. Sums([i \in 0 .. 0 |-> 0], v, 0) BY DEF Sums
    <2>4. k # 0 BY <2>2, <2>3
    <2>5. k \in 1 .. n /\ k - 1 \in 0 .. n BY <2>2, <2>4
    <2>6. PICK f : Sums(f, v, k - 1)
      <3>1. k - 1 \notin Bad
        <4> HIDE DEF Bad
        <4>q. QED BY <2>2, <2>5
      <3>q. QED BY <2>5, <3>1
    <2> DEFINE g == [i \in 0 .. k |-> IF i < k THEN f[i] ELSE f[k - 1] + v[k]]
    <2>7. Sums(g, v, k)
      <3>1. g \in [0 .. k -> Int] BY <2>5, <2>6 DEF Sums
      <3>2. g[0] = 0 BY <2>5, <2>6 DEF Sums
      <3>3. ASSUME NEW i \in 1 .. k PROVE g[i] = g[i - 1] + v[i]
        <4>1. CASE i = k BY <2>5, <4>1
        <4>2. CASE i # k BY <2>5, <2>6, <4>2 DEF Sums
        <4>q. QED BY <4>1, <4>2
      <3> HIDE DEF g
      <3>q. QED BY <3>1, <3>2, <3>3 DEF Sums
    <2>q. QED BY <2>2, <2>7
  <1>2. \A k \in 0 .. n : \E f : Sums(f, v, k) BY <1>1
  <1>3. n \in 0 .. n OBVIOUS
  <1>q. QED BY <1>2, <1>3

\* The i-th section from h on.
FromHead(h, i) == (h + i - 1) % SectionNum

\* From the head on, every section comes once.
LEMMA Round ==
  ASSUME NEW h \in Sections, NEW i \in 1 .. SectionNum
  PROVE  /\ FromHead(h, i) \in Sections
         /\ \A j \in 1 .. SectionNum : FromHead(h, i) = FromHead(h, j) => i = j
  <1>1. SectionNum \in Nat \ {0} /\ h \in 0 .. SectionNum - 1 BY Geometry DEF Sections
  <1>2. \A k \in 1 .. SectionNum :
          FromHead(h, k) = IF h + k - 1 < SectionNum THEN h + k - 1 ELSE h + k - 1 - SectionNum
    <2> SUFFICES ASSUME NEW k \in 1 .. SectionNum
                 PROVE  FromHead(h, k) = IF h + k - 1 < SectionNum THEN h + k - 1 ELSE h + k - 1 - SectionNum
      OBVIOUS
    <2>1. CASE h + k - 1 < SectionNum
      <3> DEFINE r == h + k - 1
      <3>1. r \in 0 .. SectionNum - 1 BY <1>1, <2>1
      <3>2. (0 * SectionNum + r) % SectionNum = r
        <4> HIDE DEF r
        <4>q. QED BY <1>1, <3>1, ModUnique
      <3>3. 0 * SectionNum + r = r BY <1>1, <3>1
      <3>q. QED BY <2>1, <3>2, <3>3 DEF FromHead
    <2>2. CASE ~(h + k - 1 < SectionNum)
      <3> DEFINE r == h + k - 1 - SectionNum
      <3>1. r \in 0 .. SectionNum - 1 BY <1>1, <2>2
      <3>2. (1 * SectionNum + r) % SectionNum = r
        <4> HIDE DEF r
        <4>q. QED BY <1>1, <3>1, ModUnique
      <3>3. 1 * SectionNum + r = h + k - 1 BY <1>1, <3>1
      <3>q. QED BY <2>2, <3>2, <3>3 DEF FromHead
    <2>q. QED BY <2>1, <2>2
  <1>q. QED BY <1>1, <1>2 DEF Sections

\* The recursion of section_wipe_check.
LEMMA DeadIs ==
  ASSUME headSec \in Sections, NEW sz \in [Sections -> Int],
         NEW f, Sums(f, [i \in 1 .. SectionNum |-> Payload - sz[FromHead(headSec, i)]], SectionNum)
  PROVE  LET dead[i \in 0 .. SectionNum] ==
               IF i = 0 THEN 0 ELSE dead[i - 1] + Payload - sz[FromHead(headSec, i)]
         IN  \A i \in 0 .. SectionNum : dead[i] = f[i]
  <1> DEFINE sec(i) == FromHead(headSec, i)
             F(s) == [i \in 0 .. SectionNum |-> IF i = 0 THEN 0 ELSE s[i - 1] + Payload - sz[sec(i)]]
             dead == CHOOSE s : s = F(s)
             Bad == {i \in 0 .. SectionNum : dead[i] # f[i]}
  <1>0. SectionNum \in Nat \ {0} /\ Payload \in Nat BY Geometry DEF Payload
  <1>1. \A i \in 1 .. SectionNum :
          /\ sz[sec(i)] \in Int /\ f[i - 1] \in Int
          /\ f[i] = f[i - 1] + Payload - sz[sec(i)]
    <2> SUFFICES ASSUME NEW i \in 1 .. SectionNum
                 PROVE  /\ sz[sec(i)] \in Int /\ f[i - 1] \in Int
                        /\ f[i] = f[i - 1] + Payload - sz[sec(i)]
      OBVIOUS
    <2>1. sec(i) \in Sections BY Round
    <2>2. f[i] = f[i - 1] + (Payload - sz[sec(i)]) BY DEF Sums
    <2>3. f[i - 1] \in Int BY <1>0 DEF Sums
    <2> HIDE DEF sec
    <2>q. QED BY <1>0, <2>1, <2>2, <2>3
  <1> HIDE DEF sec
  <1>2. f = F(f)
    <2>1. f \in [0 .. SectionNum -> Int] /\ f[0] = 0 BY DEF Sums
    <2>2. \A i \in 0 .. SectionNum : i = 0 \/ i \in 1 .. SectionNum BY <1>0
    <2>3. \A i \in 0 .. SectionNum : f[i] = F(f)[i] BY <1>1, <2>1, <2>2
    <2>q. QED BY <2>1, <2>3
  <1>3. dead = F(dead) BY <1>2
  <1>4. dead = CHOOSE s : s = F(s) OBVIOUS
  <1> HIDE DEF dead
  <1>5. Bad = {}
    <2> SUFFICES ASSUME Bad # {} PROVE FALSE OBVIOUS
    <2>1. Bad \in SUBSET Nat BY <1>0
    <2>2. PICK n \in Bad : \A m \in Bad : n <= m
      <3> HIDE DEF Bad
      <3>q. QED BY <2>1, Least
    <2>3. n # 0 BY <1>2, <1>3, <1>0
    <2>4. n \in 1 .. SectionNum /\ n - 1 \in 0 .. SectionNum BY <1>0, <2>2, <2>3
    <2>5. dead[n - 1] = f[n - 1]
      <3>1. n - 1 \notin Bad
        <4> HIDE DEF Bad
        <4>q. QED BY <2>1, <2>2, <2>4
      <3>q. QED BY <2>4, <3>1
    <2>6. dead[n] = dead[n - 1] + Payload - sz[sec(n)]
      <3>1. n \in 0 .. SectionNum BY <2>2
      <3>2. dead[n] = F(dead)[n] BY <1>3
      <3>3. F(dead)[n] = IF n = 0 THEN 0 ELSE dead[n - 1] + Payload - sz[sec(n)] BY <3>1
      <3> HIDE DEF F
      <3>q. QED BY <2>3, <3>2, <3>3
    <2>7. f[n] = f[n - 1] + Payload - sz[sec(n)] BY <1>1, <2>4
    <2>8. dead[n] = f[n] BY <2>5, <2>6, <2>7
    <2> HIDE DEF F
    <2>q. QED BY <2>2, <2>8
  <1>q. QED BY <1>5 DEF dead, sec

\* One section more.
LEMMA AddSection ==
  ASSUME NEW g \in Int, NEW h \in Int, NEW p \in Nat, NEW z \in Int,
         NEW a \in Nat, NEW b \in Nat, NEW x \in Nat,
         h = g + (p - z), g + a >= x, z <= b
  PROVE  h + (a + b) >= x + p
  OBVIOUS

\* However the lists lie, what is dead in the volume makes room for one more node.
LEMMA WipeEnough ==
  ASSUME headSec \in Sections, NEW L \in [Sections -> Seq(Entries)], NEW sz \in [Sections -> Int],
         \A s \in Sections : sz[s] = Total(L[s]),
         \A s \in Sections : \A i \in 1 .. Len(L[s]) : L[s][i].section = s,
         \A s \in Sections : \A i, j \in 1 .. Len(L[s]) : L[s][i] = L[s][j] => i = j,
         NEW U, IsFiniteSet(U), Cardinality(U) <= NodeMax,
         \A s \in Sections : \A i \in 1 .. Len(L[s]) : L[s][i] \in U,
         NEW M, LongestIs(M), NEW need \in Nat, need <= M,
         (NodeMax + 1) * M < SectionNum * Payload
  PROVE  WipeCount(sz, need) <= SectionNum
  <1> DEFINE N == SectionNum
             sec(i) == FromHead(headSec, i)
             E(s) == {L[s][i] : i \in 1 .. Len(L[s])}
             Upto(i) == UNION {E(sec(j)) : j \in 1 .. i}
             v == [i \in 1 .. SectionNum |-> Payload - sz[FromHead(headSec, i)]]
  <1>0. N \in Nat \ {0} /\ Payload \in Nat /\ M \in Nat /\ NodeMax \in Nat
    BY Geometry, BoundAssumption DEF Payload, LongestIs
  <1>1. \A i \in 1 .. N : sec(i) \in Sections /\ \A j \in 1 .. N : sec(i) = sec(j) => i = j
    BY Round
  <1>2. PICK f : Sums(f, v, SectionNum)
    <2>1. v \in [1 .. SectionNum -> Int]
      <3>1. \A i \in 1 .. SectionNum : Payload - sz[FromHead(headSec, i)] \in Int
        BY <1>0, <1>1
      <3>q. QED BY <3>1
    <2> HIDE DEF v
    <2>q. QED BY <1>0, <2>1, SumsExist
  <1>3. \A i \in 1 .. N : f[i] = f[i - 1] + (Payload - sz[sec(i)]) /\ f[i - 1] \in Int /\ f[i] \in Int
    BY <1>0, <1>2 DEF Sums
  <1>4. \A s \in Sections : /\ IsFiniteSet(E(s)) /\ Cardinality(E(s)) \in Nat
                            /\ sz[s] <= Cardinality(E(s)) * M
    <2> SUFFICES ASSUME NEW s \in Sections
                 PROVE  /\ IsFiniteSet(E(s)) /\ Cardinality(E(s)) \in Nat
                        /\ sz[s] <= Cardinality(E(s)) * M
      OBVIOUS
    <2> DEFINE l == L[s]
    <2>1. l \in Seq(Entries) /\ \A i, j \in 1 .. Len(l) : l[i] = l[j] => i = j OBVIOUS
    <2>2. sz[s] = Total(l) OBVIOUS
    <2>3. E(s) = {l[i] : i \in 1 .. Len(l)} OBVIOUS
    <2> HIDE DEF l
    <2>4. IsFiniteSet(E(s)) /\ Cardinality(E(s)) = Len(l) BY <2>1, <2>3, ElementCount
    <2>5. Total(l) <= Len(l) * M /\ Len(l) \in Nat BY <2>1, TotalBound
    <2>q. QED BY <2>2, <2>4, <2>5
  <1>5. \A s, t \in Sections : s # t => E(s) \cap E(t) = {} OBVIOUS
  <1>6. \A s \in Sections : E(s) \subseteq U OBVIOUS
  <1> HIDE DEF sec, E, v, N
  <1>7. Upto(0) = {} OBVIOUS
  <1>8. \A i \in 1 .. N : /\ Upto(i) = Upto(i - 1) \cup E(sec(i))
                          /\ Upto(i - 1) \cap E(sec(i)) = {}
    <2> SUFFICES ASSUME NEW i \in 1 .. N
                 PROVE  /\ Upto(i) = Upto(i - 1) \cup E(sec(i))
                        /\ Upto(i - 1) \cap E(sec(i)) = {}
      OBVIOUS
    <2>1. 1 .. i = (1 .. i - 1) \cup {i} BY <1>0
    <2>2. \A j \in 1 .. i - 1 : j \in 1 .. N /\ j # i BY <1>0
    <2>3. \A j \in 1 .. i - 1 : E(sec(j)) \cap E(sec(i)) = {} BY <1>1, <1>5, <2>2
    <2>q. QED BY <2>1, <2>3
  <1>9. Upto(N) \subseteq U BY <1>1, <1>6
  <1> HIDE DEF Upto
  <1> DEFINE Fine(i) == /\ IsFiniteSet(Upto(i)) /\ Cardinality(Upto(i)) \in Nat
                        /\ f[i] + Cardinality(Upto(i)) * M >= i * Payload
             Bad == {i \in 0 .. N : ~Fine(i)}
  <1>10. Bad = {}
    <2> SUFFICES ASSUME Bad # {} PROVE FALSE OBVIOUS
    <2>1. Bad \in SUBSET Nat BY <1>0
    <2>2. PICK n \in Bad : \A m \in Bad : n <= m
      <3> HIDE DEF Bad
      <3>q. QED BY <2>1, Least
    <2>3. Fine(0)
      <3>1. IsFiniteSet(Upto(0)) /\ Cardinality(Upto(0)) = 0 BY <1>7, FS_EmptySet
      <3>2. f[0] = 0 BY <1>2 DEF Sums
      <3>3. 0 * M = 0 /\ 0 * Payload = 0 BY <1>0
      <3>q. QED BY <3>1, <3>2, <3>3
    <2>4. n \in 1 .. N /\ n - 1 \in 0 .. N
      <3>1. n # 0 /\ n \in 0 .. N BY <2>2, <2>3
      <3>q. QED BY <1>0, <3>1
    <2>5. Fine(n - 1)
      <3>1. n - 1 \notin Bad
        <4> HIDE DEF Bad
        <4>q. QED BY <2>1, <2>2, <2>4
      <3> HIDE DEF Fine
      <3>q. QED BY <2>4, <3>1
    <2> DEFINE c == Cardinality(Upto(n - 1))
               d == Cardinality(E(sec(n)))
    <2>6. /\ IsFiniteSet(Upto(n)) /\ Cardinality(Upto(n)) = c + d
          /\ c \in Nat /\ d \in Nat
      <3>1. IsFiniteSet(Upto(n - 1)) /\ c \in Nat BY <2>5
      <3>2. IsFiniteSet(E(sec(n))) /\ d \in Nat BY <1>1, <1>4, <2>4
      <3>3. Cardinality(Upto(n - 1) \cap E(sec(n))) = 0 BY <1>8, <2>4, FS_EmptySet
      <3>4. Upto(n) = Upto(n - 1) \cup E(sec(n)) BY <1>8, <2>4
      <3>5. /\ IsFiniteSet(Upto(n - 1) \cup E(sec(n)))
            /\ Cardinality(Upto(n - 1) \cup E(sec(n)))
                 = Cardinality(Upto(n - 1)) + Cardinality(E(sec(n)))
                   - Cardinality(Upto(n - 1) \cap E(sec(n)))
        BY <3>1, <3>2, FS_Union
      <3> DEFINE u == Cardinality(Upto(n - 1) \cup E(sec(n)))
      <3>6. u = c + d - 0 BY <3>3, <3>5
      <3>7. c + d - 0 = c + d BY <3>1, <3>2
      <3>q. QED BY <3>1, <3>2, <3>4, <3>5, <3>6, <3>7
    <2>7. f[n - 1] + c * M >= (n - 1) * Payload BY <2>5
    <2>8. sz[sec(n)] <= d * M /\ sz[sec(n)] \in Int BY <1>1, <1>4, <2>4
    <2>9. (c + d) * M = c * M + d * M /\ c * M \in Nat /\ d * M \in Nat
      <3>1. c \in Nat /\ d \in Nat BY <2>6
      <3> HIDE DEF c, d
      <3>q. QED BY <1>0, <3>1, Distribute
    <2>10. n * Payload = (n - 1) * Payload + Payload /\ (n - 1) * Payload \in Nat
      <3>1. n - 1 \in Nat /\ 1 \in Nat /\ n = (n - 1) + 1 BY <1>0, <2>4
      <3>2. ((n - 1) + 1) * Payload = (n - 1) * Payload + 1 * Payload BY <1>0, <3>1, Distribute
      <3>3. 1 * Payload = Payload /\ (n - 1) * Payload \in Nat BY <1>0, <3>1
      <3>q. QED BY <3>1, <3>2, <3>3
    <2>11. f[n] = f[n - 1] + (Payload - sz[sec(n)]) /\ f[n - 1] \in Int BY <1>3, <2>4
    <2> HIDE DEF c, d
    <2>12. f[n] + (c + d) * M >= n * Payload
      <3> DEFINE g == f[n - 1]
                 h == f[n]
                 z == sz[sec(n)]
                 a == c * M
                 b == d * M
                 x == (n - 1) * Payload
      <3>0. /\ g \in Int /\ h \in Int /\ z \in Int /\ a \in Nat /\ b \in Nat /\ x \in Nat
            /\ h = g + (Payload - z) /\ g + a >= x /\ z <= b
        BY <1>3, <2>4, <2>7, <2>8, <2>9, <2>10
      <3>1. h + (a + b) >= x + Payload
        <4> HIDE DEF g, h, z, a, b, x
        <4>q. QED BY <1>0, <3>0, AddSection
      <3>q. QED BY <2>9, <2>10, <3>1
    <2> DEFINE w == Cardinality(Upto(n))
    <2>13. w = c + d /\ w \in Nat /\ IsFiniteSet(Upto(n)) BY <2>6
    <2>14. w * M = (c + d) * M BY <2>13
    <2>15. f[n] + w * M >= n * Payload BY <2>12, <2>14
    <2>16. Fine(n) BY <2>13, <2>15
    <2>q. QED BY <2>2, <2>16
  <1>11. Fine(N)
    <2>1. N \in 0 .. N BY <1>0
    <2> HIDE DEF Fine
    <2>q. QED BY <1>10, <2>1
  <1>12. f[N] > need
    <2> DEFINE c == Cardinality(Upto(N))
    <2>1. c \in Nat /\ c <= NodeMax
      <3>1. Cardinality(Upto(N)) <= Cardinality(U) /\ Cardinality(U) \in Nat BY <1>9, FS_Subset, FS_CardinalityType
      <3>q. QED BY <1>0, <1>11, <3>1
    <2>2. f[N] + c * M >= N * Payload /\ f[N] \in Int
      <3>1. N \in 1 .. N BY <1>0
      <3>q. QED BY <1>3, <1>11, <3>1
    <2> HIDE DEF c
    <2>3. c * M <= NodeMax * M /\ c * M \in Nat /\ NodeMax * M \in Nat BY <1>0, <2>1, Scale
    <2>4. (NodeMax + 1) * M = NodeMax * M + M
      <3>1. (NodeMax + 1) * M = NodeMax * M + 1 * M BY <1>0, Distribute
      <3>2. 1 * M = M BY <1>0
      <3>q. QED BY <3>1, <3>2
    <2>5. (NodeMax + 1) * M < N * Payload BY DEF N
    <2>6. N * Payload \in Nat BY <1>0
    <2>q. QED BY <1>0, <2>2, <2>3, <2>4, <2>5, <2>6
  <1> DEFINE dead[i \in 0 .. SectionNum] ==
               IF i = 0 THEN 0 ELSE dead[i - 1] + Payload - sz[sec(i)]
             enough == {i \in 1 .. SectionNum : dead[i] > need}
  <1>13. \A i \in 0 .. SectionNum : dead[i] = f[i] BY <1>2, DeadIs DEF sec, v
  <1>14. WipeCount(sz, need) = IF enough = {} THEN SectionNum + 1 ELSE Min(enough)
    BY DEF WipeCount, sec, FromHead
  <1> HIDE DEF dead
  <1>15. N \in enough
    <2>1. dead[N] = f[N] /\ N \in 1 .. SectionNum BY <1>0, <1>13 DEF N
    <2>q. QED BY <1>12, <2>1
  <1>16. enough \in SUBSET (1 .. SectionNum) OBVIOUS
  <1> HIDE DEF enough
  <1>17. enough \in SUBSET Nat BY <1>0, <1>16 DEF N
  <1>18. enough # {} BY <1>15
  <1>19. Min(enough) \in 1 .. SectionNum
    <2>1. Min(enough) \in enough BY <1>17, <1>18, MinType
    <2>q. QED BY <1>16, <2>1
  <1>20. WipeCount(sz, need) = Min(enough) BY <1>14, <1>18
  <1>q. QED BY <1>0, <1>19, <1>20 DEF N

\* The pool and one node more need less than the volume: M is the longest node.
PoolFits(M) == LongestIs(M) /\ (NodeMax + 1) * M < SectionNum * Payload

\* A call is only entered when wiping can make room for its entry.
Wipeable == pc # "idle" => allowed <= SectionNum

\* garbage_collect_try is entered.
LEMMA EnterWipeable ==
  ASSUME NEW M, PoolFits(M), IInv, IInv', TInv', Pool', NEW entries, Enter(entries)
  PROVE  Wipeable'
  <1>1. /\ headSec \in Sections /\ size' \in [Sections -> Int] /\ list' \in [Sections -> Seq(Entries)]
        /\ todo' = entries /\ todo' \in Seq(Nodes) /\ todo' # << >>
    BY DEF IInv, TypeOK, CallShape, Enter
  <1>2. /\ \A s \in Sections : size'[s] = Total(list'[s])
        /\ \A s \in Sections : \A i \in 1 .. Len(list'[s]) : list'[s][i].section = s
        /\ \A s \in Sections : \A i, j \in 1 .. Len(list'[s]) : list'[s][i] = list'[s][j] => i = j
    BY DEF TInv, Lists, Summed, Placed, NoRepeat
  <1>3. /\ IsFiniteSet(Live') /\ Cardinality(Live') <= NodeMax
        /\ \A s \in Sections : \A i \in 1 .. Len(list'[s]) : list'[s][i] \in Live'
    <2>1. \A s \in Sections : \A i \in 1 .. Len(list'[s]) : list'[s][i] \in Live' BY DEF Live
    <2>2. IsFiniteSet(Live') /\ Cardinality(Live') + Pending' <= NodeMax BY DEF Pool
    <2>3. Cardinality(Live') \in Nat /\ NodeMax \in Nat BY <2>2, FS_CardinalityType, BoundAssumption
    <2>4. Pending' \in {0, 1, 2} BY DEF Pending
    <2>q. QED BY <2>1, <2>2, <2>3, <2>4
  <1>4. NodeLen(entries[1]) \in Nat /\ NodeLen(entries[1]) <= M
    <2>1. entries[1] \in Nodes BY <1>1
    <2>q. QED BY <2>1, NodeLengths DEF PoolFits, LongestIs
  <1>5. allowed' = WipeCount(size', NodeLen(entries[1])) BY DEF Enter
  <1> DEFINE L == list'
             sz == size'
             U == Live'
             need == NodeLen(entries[1])
  <1>6. LongestIs(M) /\ (NodeMax + 1) * M < SectionNum * Payload BY DEF PoolFits
  <1>7. WipeCount(sz, need) <= SectionNum
    <2> HIDE DEF L, sz, U, need
    <2>1. /\ L \in [Sections -> Seq(Entries)] /\ sz \in [Sections -> Int]
          /\ \A s \in Sections : sz[s] = Total(L[s])
          /\ \A s \in Sections : \A i \in 1 .. Len(L[s]) : L[s][i].section = s
          /\ \A s \in Sections : \A i, j \in 1 .. Len(L[s]) : L[s][i] = L[s][j] => i = j
          /\ IsFiniteSet(U) /\ Cardinality(U) <= NodeMax
          /\ \A s \in Sections : \A i \in 1 .. Len(L[s]) : L[s][i] \in U
          /\ need \in Nat /\ need <= M
      BY <1>1, <1>2, <1>3, <1>4 DEF L, sz, U, need
    <2>q. QED BY <1>1, <1>6, <2>1, WipeEnough
  <1>q. QED BY <1>5, <1>7 DEF Wipeable

\* Every step keeps to it.
LEMMA NextWipeable ==
  ASSUME NEW M, PoolFits(M), IInv, IInv', TInv', Pool', Wipeable, [Next]_vars
  PROVE  Wipeable'
  <1>1. CASE UNCHANGED vars BY <1>1 DEF vars, Wipeable
  <1>2. CASE Call
    <2>1. CASE Sync BY <2>1 DEF Sync, callVars, Wipeable
    <2>2. CASE ~Sync
      <3>1. \E entries : Enter(entries) BY <1>2, <2>2 DEF Call, Write, DelRecord, Mkdir, DelDir
      <3>q. QED BY <3>1, EnterWipeable
    <2>q. QED BY <2>1, <2>2
  <1>3. CASE EntryDone
    <2>1. CASE Len(todo) > 1
      <3>1. \E entries : Enter(entries) BY <1>3, <2>1 DEF EntryDone
      <3>q. QED BY <3>1, EnterWipeable
    <2>2. CASE ~(Len(todo) > 1) BY <1>3, <2>2 DEF EntryDone, Wipeable
    <2>q. QED BY <2>1, <2>2
  <1>4. CASE Work /\ ~EntryDone
    <2>1. pc # "idle" /\ UNCHANGED allowed
      BY <1>4 DEF Work, CollectStart, NodeCopy, DataCopy, NodeCopied, CollectSync, CollectErase,
                  EntryStart, SectionHeadWrite, NodeWrite
    <2>q. QED BY <2>1 DEF Wipeable
  <1>q. QED BY <1>1, <1>2, <1>3, <1>4 DEF Next

\* TINYFS_ASSERT(wipe) of garbage_collect_try: when the pool of nodes, and one node
\* more, need less than the volume, section_wipe_check never finds that all that is
\* dead is too little for the entry of a call.
THEOREM WipeFindsRoom ==
  ASSUME NEW M, PoolFits(M)
  PROVE  Spec => []WipeAsserted
  <1>1. Init => IInv /\ TInv /\ Pool /\ Wipeable
    BY InitInv, InitTree, InitPool DEF Init, Wipeable
  <1>2. IInv /\ TInv /\ Pool /\ Wipeable /\ [Next]_vars => (IInv /\ TInv /\ Pool /\ Wipeable)'
    <2> SUFFICES ASSUME IInv, TInv, Pool, Wipeable, [Next]_vars
                 PROVE  IInv' /\ TInv' /\ Pool' /\ Wipeable'
      OBVIOUS
    <2>1. IInv' /\ TInv' /\ Pool' BY NextInv, NextTree, NextPool
    <2>q. QED BY <2>1, NextWipeable
  <1>3. Wipeable => WipeAsserted BY DEF Wipeable, WipeAsserted
  <1>q. QED BY <1>1, <1>2, <1>3, PTL DEF Spec
=============================================================================
