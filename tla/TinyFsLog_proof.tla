--------------------------- MODULE TinyFsLog_proof ---------------------------
(***************************************************************************)
(* The log of TinyFs: what free_bytes counts, that the log is written to    *)
(* erased flash only, and that every live node can be read back wherever    *)
(* the cache and the collector have put it; and that with ample sections    *)
(* the collector always has room.                                           *)
(***************************************************************************)
EXTENDS TinyFs_proof

-----------------------------------------------------------------------------
(* Addresses. *)

\* An offset of a section is an address of the volume, and of no other section.
LEMMA AddressOf ==
  ASSUME NEW s \in Sections, NEW o \in 0 .. SectionSize - 1
  PROVE  /\ FlashAddr(s, o) \in Addresses
         /\ FlashAddr(s, o) \div SectionSize = s
         /\ FlashAddr(s, o) % SectionSize = o
  <1>1. s \in Nat /\ s < SectionNum /\ o \in Nat BY Geometry DEF Sections
  <1>2. s * SectionSize + SectionSize <= SectionNum * SectionSize BY <1>1, Mult, Geometry
  <1>3. s * SectionSize \in Nat /\ SectionNum * SectionSize \in Nat BY <1>1, Geometry
  <1>4. FlashAddr(s, o) \in Addresses BY <1>1, <1>2, <1>3, Geometry DEF FlashAddr, Addresses
  <1>q. QED BY <1>1, <1>4, ModUnique, Geometry DEF FlashAddr

\* Every address is an offset of a section.
LEMMA AddressSplit ==
  ASSUME NEW a \in Addresses
  PROVE  /\ a \div SectionSize \in Sections /\ a % SectionSize \in 0 .. SectionSize - 1
         /\ a = FlashAddr(a \div SectionSize, a % SectionSize)
  <1> DEFINE s == a \div SectionSize
             o == a % SectionSize
  <1>1. a \in Nat /\ a < SectionNum * SectionSize BY Geometry DEF Addresses
  <1>2. s \in Nat /\ o \in 0 .. SectionSize - 1 /\ a = s * SectionSize + o
    BY <1>1, ModDef, Geometry
  <1> HIDE DEF s, o
  <1>3. s < SectionNum
    <2> SUFFICES ASSUME SectionNum <= s PROVE FALSE BY <1>2, Geometry
    <2>1. CASE SectionNum = s BY <1>1, <1>2, <2>1, Geometry
    <2>2. CASE SectionNum < s
      <3>1. SectionNum * SectionSize + SectionSize <= s * SectionSize BY <1>2, <2>2, Mult, Geometry
      <3>2. SectionNum * SectionSize \in Nat /\ s * SectionSize \in Nat BY <1>2, Geometry
      <3>q. QED BY <1>1, <1>2, <3>1, <3>2, Geometry
    <2>q. QED BY <1>2, <2>1, <2>2, Geometry
  <1>4. s \in Sections /\ a = FlashAddr(s, o) BY <1>2, <1>3, Geometry DEF Sections, FlashAddr
  <1>q. QED BY <1>2, <1>4 DEF s, o

\* Two places with one address are the same place.
LEMMA AddressUnique ==
  ASSUME NEW s \in Sections, NEW o \in 0 .. SectionSize - 1,
         NEW t \in Sections, NEW p \in 0 .. SectionSize - 1,
         FlashAddr(s, o) = FlashAddr(t, p)
  PROVE  s = t /\ o = p
  BY AddressOf

\* Addresses of a section are as far apart as their offsets.
LEMMA AddressStep ==
  ASSUME NEW s \in Sections, NEW o \in Int, NEW i \in Int
  PROVE  FlashAddr(s, o + i) = FlashAddr(s, o) + i /\ FlashAddr(s, o) \in Int
  <1>1. s * SectionSize \in Int BY Geometry DEF Sections
  <1>q. QED BY <1>1 DEF FlashAddr

-----------------------------------------------------------------------------
(* The sections of the log. *)

\* The sections that are not in the log: between the tail and the head.
Ahead ==
  {s \in Sections :
     \/ tailCount = 0
     \/ tailSec >= headSec /\ (s > tailSec \/ s < headSec)
     \/ tailSec < headSec /\ s > tailSec /\ s < headSec}

\* The log goes from the head to the tail without a gap.
LEMMA LogSections ==
  ASSUME TypeOK
  PROVE  /\ EmptySections \in Nat
         /\ tailCount # 0 => headSec \notin Ahead /\ tailSec \notin Ahead
         /\ \A s \in Sections \ Ahead : s # tailSec =>
              NextSection(s) \in Sections \ Ahead /\ NextSection(s) # headSec
         /\ tailCount # 0 /\ EmptySections # 0 =>
              NextSection(tailSec) \in Ahead /\ NextSection(tailSec) # headSec
         /\ \A s \in Sections : NextSection(s) # s
         /\ \A s, t \in Sections : NextSection(s) = NextSection(t) => s = t
  <1>1. /\ SectionNum \in Nat /\ SectionNum >= 3 /\ tailSec \in Nat /\ headSec \in Nat
        /\ tailSec < SectionNum /\ headSec < SectionNum
    BY GeometryAssumption DEF TypeOK, Sections
  <1>q. QED BY <1>1, GeometryAssumption DEF EmptySections, Ahead, NextSection, Sections

\* A section is opened.
LEMMA OpenSection ==
  ASSUME TypeOK, headSec' = headSec, tailSec' = NextSection(tailSec), tailCount' # 0,
         EmptySections # 0, tailCount = 0 => headSec = 0 /\ tailSec = PrevSection(0)
  PROVE  /\ EmptySections' = EmptySections - 1
         /\ Ahead' = Ahead \ {tailSec'} /\ tailSec' \in Ahead
  <1>1. /\ SectionNum \in Nat /\ SectionNum >= 3 /\ tailSec \in Nat /\ headSec \in Nat
        /\ tailSec < SectionNum /\ headSec < SectionNum
    BY GeometryAssumption DEF TypeOK, Sections
  <1>q. QED BY <1>1, GeometryAssumption DEF EmptySections, Ahead, NextSection, PrevSection, Sections

\* The head section leaves the log.
LEMMA LeaveSection ==
  ASSUME TypeOK, tailSec' = tailSec, tailCount' = tailCount, tailCount # 0,
         headSec' = NextSection(headSec), headSec # tailSec
  PROVE  /\ EmptySections' = EmptySections + 1
         /\ Ahead' = Ahead \cup {headSec}
  <1>1. /\ SectionNum \in Nat /\ SectionNum >= 3 /\ tailSec \in Nat /\ headSec \in Nat
        /\ tailSec < SectionNum /\ headSec < SectionNum
    BY GeometryAssumption DEF TypeOK, Sections
  <1>q. QED BY <1>1, GeometryAssumption DEF EmptySections, Ahead, NextSection, Sections
-----------------------------------------------------------------------------
(* What the log holds. *)

\* What a reader of the volume finds at an offset of a section: the cache's cell
\* where the cache has one, else the flash's.
At(s, o) ==
  IF s = tailSec /\ avail - Len(buf) <= o /\ o < avail
  THEN buf[o - (avail - Len(buf)) + 1] ELSE flash[FlashAddr(s, o)]

AtPlace(p) == At(p.section, p.offset)

\* The n units that start at an offset of a section lie in the log, behind its tail.
Laid(s, o, n) ==
  /\ s \in Sections \ Ahead /\ o \in 0 .. SectionSize - 1 /\ n \in 0 .. Payload
  /\ s = tailSec => o + n <= avail
  /\ o + n > SectionSize /\ NextSection(s) = tailSec => o + n - SectionSize + HeadLen <= avail

\* A place behind the tail.
Behind(p) ==
  /\ p.section \in Sections \ Ahead /\ p.offset \in 0 .. SectionSize - 1
  /\ p.section = tailSec => p.offset < avail

\* The first n units of a node are at an offset of a section.
Holds(s, o, node, n) ==
  \A i \in 0 .. n - 1 : AtPlace(SectionOffset(s, o, i)) = <<node, i + 1>>

\* A reader who goes on from where a reader has come to.
LEMMA GoOn ==
  ASSUME NEW s \in Sections, NEW o \in 0 .. SectionSize - 1, NEW a \in Nat, NEW b \in Nat, a + b <= Payload
  PROVE  /\ SectionOffset(s, o, a).section \in Sections
         /\ SectionOffset(s, o, a).offset \in 0 .. SectionSize - 1
         /\ SectionOffset(s, o, a + b)
              = SectionOffset(SectionOffset(s, o, a).section, SectionOffset(s, o, a).offset, b)
         /\ SectionOffset(s, o, 0) = [section |-> s, offset |-> o]
  <1>1. SectionSize \in Nat /\ HeadLen \in Nat \ {0} /\ HeadLen < SectionSize /\ Payload = SectionSize - HeadLen
    BY Geometry DEF Payload
  <1>2. NextSection(s) \in Sections BY NextSectionType
  <1>q. QED BY <1>1, <1>2 DEF SectionOffset

\* The units of what lies in the log are behind the tail, and in the head section
\* only if they start there.
LEMMA LaidBehind ==
  ASSUME TypeOK, tailCount # 0, avail <= SectionSize, NEW s, NEW o, NEW n, Laid(s, o, n), NEW i \in 0 .. n - 1
  PROVE  /\ Behind(SectionOffset(s, o, i))
         /\ SectionOffset(s, o, i).section = headSec => s = headSec
  <1>1. SectionSize \in Nat /\ HeadLen \in Nat \ {0} /\ HeadLen < SectionSize /\ Payload = SectionSize - HeadLen
    BY Geometry DEF Payload
  <1>2. /\ s \in Sections \ Ahead /\ o \in 0 .. SectionSize - 1 /\ n \in 0 .. Payload
        /\ s = tailSec => o + n <= avail
        /\ o + n > SectionSize /\ NextSection(s) = tailSec => o + n - SectionSize + HeadLen <= avail
    BY DEF Laid
  <1>3. avail \in Nat BY DEF TypeOK
  <1>4. CASE o + i < SectionSize
    BY <1>1, <1>2, <1>3, <1>4 DEF SectionOffset, Behind
  <1>5. CASE ~(o + i < SectionSize)
    <2>1. s # tailSec BY <1>1, <1>2, <1>3, <1>5
    <2>2. NextSection(s) \in Sections \ Ahead /\ NextSection(s) # headSec BY <1>2, <2>1, LogSections
    <2>3. SectionOffset(s, o, i) = [section |-> NextSection(s), offset |-> o + i - SectionSize + HeadLen]
      BY <1>1, <1>2, <1>5 DEF SectionOffset
    <2>q. QED BY <1>1, <1>2, <1>3, <1>5, <2>2, <2>3 DEF Behind
  <1>q. QED BY <1>4, <1>5

\* Where the cache begins.
LEMMA CacheStart ==
  ASSUME TypeOK, CacheAligned
  PROVE  /\ avail \in 0 .. SectionSize /\ Len(buf) \in 0 .. PageSize - 1 /\ avail - Len(buf) \in Nat
         /\ avail < SectionSize => avail - Len(buf) + PageSize <= SectionSize
         /\ avail = SectionSize => buf = << >>
         /\ buf # << >> => Len(buf) # 0 /\ bufAddr = FlashAddr(tailSec, avail - Len(buf))
  <1>1. avail \in 0 .. SectionSize /\ Len(buf) \in 0 .. PageSize - 1 /\ buf \in Seq(Cells)
    BY CacheLength, Geometry DEF TypeOK, CacheAligned
  <1> DEFINE q == avail \div PageSize
  <1>2. q \in Nat /\ avail = q * PageSize + Len(buf)
    <2>1. avail \in Nat /\ avail % PageSize = Len(buf) BY <1>1, Geometry DEF CacheAligned
    <2>2. q \in Nat /\ avail = q * PageSize + (avail % PageSize) BY <2>1, ModDef, Geometry
    <2> HIDE DEF q
    <2>q. QED BY <2>1, <2>2
  <1> HIDE DEF q
  <1>3. PICK Q \in 1 .. SectionSize : SectionSize = Q * PageSize BY GeometryAssumption
  <1>4. q * PageSize \in Nat /\ avail - Len(buf) = q * PageSize BY <1>1, <1>2, Geometry
  <1>5. avail < SectionSize => q * PageSize + PageSize <= SectionSize
    <2> SUFFICES ASSUME avail < SectionSize PROVE q * PageSize + PageSize <= SectionSize OBVIOUS
    <2>1. Q \in Nat /\ q * PageSize < Q * PageSize BY <1>1, <1>2, <1>3, <1>4, Geometry
    <2>2. ~(Q < q)
      <3>1. Q < q => Q * PageSize + PageSize <= q * PageSize BY <1>2, <2>1, Mult, Geometry
      <3>q. QED BY <1>3, <1>4, <2>1, <3>1, Geometry
    <2>3. Q # q BY <2>1, <1>4
    <2>4. q < Q BY <1>2, <2>1, <2>2, <2>3
    <2>q. QED BY <1>2, <1>3, <2>1, <2>4, Mult, Geometry
  <1>6. avail = SectionSize => buf = << >>
    <2>1. avail = SectionSize => Len(buf) = 0 BY Geometry DEF CacheAligned
    <2>q. QED BY <1>1, <2>1
  <1>7. buf # << >> => Len(buf) # 0 /\ bufAddr = FlashAddr(tailSec, avail - Len(buf))
    <2>1. buf # << >> => Len(buf) # 0 BY <1>1
    <2>2. tailSec \in Sections /\ avail \in Int /\ Len(buf) \in Int BY <1>1, Geometry DEF TypeOK
    <2>3. FlashAddr(tailSec, avail - Len(buf)) = FlashAddr(tailSec, avail) - Len(buf)
      <3>1. FlashAddr(tailSec, avail + (0 - Len(buf))) = FlashAddr(tailSec, avail) + (0 - Len(buf))
        BY <2>2, AddressStep
      <3>2. FlashAddr(tailSec, avail) \in Int BY <2>2, AddressStep
      <3>3. avail + (0 - Len(buf)) = avail - Len(buf) BY <2>2
      <3>q. QED BY <2>2, <3>1, <3>2, <3>3
    <2>q. QED BY <2>1, <2>3 DEF CacheAligned
  <1>q. QED BY <1>1, <1>4, <1>5, <1>6, <1>7

\* Within the page of the cache, the remainder is the distance from its start.
LEMMA CacheMod ==
  ASSUME TypeOK, CacheAligned, PageAddress,
         NEW a \in Nat, bufAddr <= a, a < bufAddr + PageSize
  PROVE  a % PageSize = a - bufAddr
  <1> DEFINE k == bufAddr \div PageSize
  <1>1. k \in Nat /\ bufAddr \in Nat /\ bufAddr = k * PageSize
    <2>1. bufAddr \in Nat BY DEF TypeOK
    <2>2. k \in Nat /\ bufAddr = k * PageSize + (bufAddr % PageSize) BY <2>1, ModDef, Geometry
    <2> HIDE DEF k
    <2>3. k * PageSize \in Nat BY <2>2, Geometry
    <2>q. QED BY <2>1, <2>2, <2>3 DEF PageAddress
  <1> HIDE DEF k
  <1>2. a - bufAddr \in 0 .. PageSize - 1 BY <1>1, Geometry
  <1>3. a = k * PageSize + (a - bufAddr) BY <1>1
  <1>4. (k * PageSize + (a - bufAddr)) % PageSize = a - bufAddr BY <1>1, <1>2, ModUnique, Geometry
  <1>q. QED BY <1>3, <1>4

\* nvm_read_with_cache, within a section and behind the tail, reads what is there.
LEMMA ReadWithCacheIs ==
  ASSUME TypeOK, CacheAligned, PageAddress, NEW s \in Sections, NEW o \in 0 .. SectionSize - 1,
         NEW len \in Nat \ {0}, o + len <= SectionSize, s = tailSec => o + len <= avail
  PROVE  ReadWithCache(FlashAddr(s, o), len) = [i \in 1 .. len |-> At(s, o + i - 1)]
  <1> DEFINE addr == FlashAddr(s, o)
             last == addr + len
             cached == last > bufAddr /\ last <= bufAddr + Len(buf)
             nvm == IF ~cached THEN len
                    ELSE IF addr < bufAddr THEN len - (last % PageSize) ELSE 0
             src == IF addr < bufAddr THEN 0 ELSE addr % PageSize
             cell(i) == IF i <= nvm THEN flash[addr + i - 1] ELSE buf[src + i - nvm]
             base == avail - Len(buf)
  <1>1. ReadWithCache(addr, len) = [i \in 1 .. len |-> cell(i)] BY DEF ReadWithCache
  <1>2. /\ avail \in 0 .. SectionSize /\ Len(buf) \in 0 .. PageSize - 1 /\ base \in Nat
        /\ buf # << >> => Len(buf) # 0 /\ bufAddr = FlashAddr(tailSec, base)
        /\ buf = << >> => Len(buf) = 0
    BY CacheStart
  <1>3. /\ SectionSize \in Nat /\ PageSize \in Nat \ {0} /\ tailSec \in Sections
        /\ bufAddr \in Nat /\ o \in Nat /\ len \in Nat
    BY Geometry DEF TypeOK
  <1>4. addr \in Nat /\ last \in Nat /\ \A i \in 1 .. len : FlashAddr(s, o + i - 1) = addr + i - 1
    <2>1. addr \in Nat BY AddressOf DEF Addresses
    <2>2. ASSUME NEW i \in 1 .. len PROVE FlashAddr(s, o + i - 1) = addr + i - 1
      <3>1. FlashAddr(s, o + (i - 1)) = FlashAddr(s, o) + (i - 1) BY <1>3, AddressStep
      <3>2. o + (i - 1) = o + i - 1 BY <1>3
      <3>q. QED BY <2>1, <3>1, <3>2
    <2>q. QED BY <1>3, <2>1, <2>2
  <1> HIDE DEF base
  <1>5. ASSUME s # tailSec \/ buf = << >>
        PROVE  /\ ~cached
               /\ \A i \in 1 .. len : At(s, o + i - 1) = flash[FlashAddr(s, o + i - 1)]
    <2>1. CASE buf = << >>
      <3>1. Len(buf) = 0 BY <1>2, <2>1
      <3>2. ~cached BY <1>3, <1>4, <3>1
      <3>3. \A i \in 1 .. len : ~(avail - Len(buf) <= o + i - 1 /\ o + i - 1 < avail) BY <1>2, <1>3, <3>1
      <3>q. QED BY <3>2, <3>3 DEF At
    <2>2. CASE s # tailSec /\ buf # << >>
      <3>1. s \in Nat /\ tailSec \in Nat BY <1>3, Geometry DEF Sections
      <3> DEFINE x == s * SectionSize
                 y == tailSec * SectionSize
      <3>2. x \in Nat /\ y \in Nat BY <1>3, <3>1
      <3>3. last = x + o + len /\ bufAddr = y + base BY <1>2, <2>2 DEF FlashAddr
      <3>4. base + Len(buf) <= SectionSize BY <1>2 DEF base
      <3>5. (s < tailSec => x + SectionSize <= y) /\ (tailSec < s => y + SectionSize <= x)
        BY <3>1, Mult, Geometry
      <3> HIDE DEF x, y, last
      <3>6. CASE s < tailSec BY <1>2, <1>3, <3>2, <3>3, <3>4, <3>5, <3>6 DEF At
      <3>7. CASE tailSec < s BY <1>2, <1>3, <3>2, <3>3, <3>4, <3>5, <3>7 DEF At
      <3>q. QED BY <2>2, <3>1, <3>6, <3>7
    <2>q. QED BY <1>5, <2>1, <2>2
  <1>6. ASSUME s = tailSec, buf # << >>, NEW i \in 1 .. len
        PROVE  cell(i) = At(s, o + i - 1)
    <2>1. addr = bufAddr - base + o /\ last = bufAddr - base + o + len
      <3>1. tailSec * SectionSize \in Int BY <1>3 DEF Sections
      <3>q. QED BY <1>2, <1>3, <1>6, <3>1 DEF FlashAddr
    <2>2. base = avail - Len(buf) BY DEF base
    <2> HIDE DEF addr, last, nvm, src, cached
    <2>r. base \in Nat /\ bufAddr \in Nat /\ o + len < base + PageSize /\ o < base + PageSize /\ PageSize \in Nat
      BY <1>2, <1>3, <1>6, <2>2
    <2>3. cached <=> o + len > base BY <1>2, <1>3, <1>6, <2>1, <2>2 DEF cached
    <2>4. At(s, o + i - 1) = IF base <= o + i - 1 THEN buf[o + i - base] ELSE flash[addr + i - 1]
      <3>1. o + i - 1 < avail BY <1>2, <1>3, <1>6
      <3>2. o + i - 1 - base + 1 = o + i - base BY <1>2, <1>3
      <3>q. QED BY <1>4, <1>6, <2>2, <3>1, <3>2 DEF At
    <2>5. CASE ~cached
      <3>1. cell(i) = flash[addr + i - 1] BY <2>5 DEF nvm
      <3>2. ~(base <= o + i - 1) BY <1>2, <1>3, <2>3, <2>5
      <3>q. QED BY <2>4, <3>1, <3>2
    <2>6. CASE cached /\ addr < bufAddr
      <3>0. last \in Nat /\ bufAddr <= last /\ last < bufAddr + PageSize
        BY <1>3, <1>4, <2>1, <2>r, <2>3, <2>6
      <3>1. last % PageSize = last - bufAddr BY <3>0, CacheMod
      <3>2. nvm = base - o /\ src = 0 BY <1>2, <1>3, <2>1, <2>6, <3>1 DEF nvm, src
      <3>3. src + i - nvm = o + i - base /\ (i <= nvm <=> ~(base <= o + i - 1))
        BY <1>2, <1>3, <3>2
      <3>q. QED BY <2>4, <3>3
    <2>7. CASE cached /\ ~(addr < bufAddr)
      <3>0. addr \in Nat /\ bufAddr <= addr /\ addr < bufAddr + PageSize
        BY <1>3, <1>4, <2>1, <2>r, <2>7
      <3>1. addr % PageSize = addr - bufAddr BY <3>0, CacheMod
      <3>2. nvm = 0 /\ src = o - base BY <1>2, <1>3, <1>4, <2>1, <2>7, <3>1 DEF nvm, src
      <3>3. src + i - nvm = o + i - base /\ ~(i <= nvm) /\ base <= o + i - 1
        BY <1>2, <1>3, <1>4, <2>1, <2>7, <3>2
      <3>q. QED BY <2>4, <3>3
    <2>q. QED BY <2>5, <2>6, <2>7
  <1>7. \A i \in 1 .. len : cell(i) = At(s, o + i - 1)
    <2> SUFFICES ASSUME NEW i \in 1 .. len PROVE cell(i) = At(s, o + i - 1) OBVIOUS
    <2>1. CASE s = tailSec /\ buf # << >> BY <1>6, <2>1
    <2>2. CASE ~(s = tailSec /\ buf # << >>)
      <3>1. ~cached /\ At(s, o + i - 1) = flash[FlashAddr(s, o + i - 1)] BY <1>5, <2>2
      <3>2. nvm = len BY <3>1
      <3>3. cell(i) = flash[addr + i - 1] BY <3>2, <1>3
      <3>q. QED BY <1>4, <3>1, <3>3
    <2>q. QED BY <2>1, <2>2
  <1> HIDE DEF cell, addr
  <1>8. ReadWithCache(addr, len) = [i \in 1 .. len |-> At(s, o + i - 1)] BY <1>1, <1>7
  <1>q. QED BY <1>8 DEF addr
\* A sequence is its beginning and its rest.
LEMMA Joined ==
  ASSUME NEW S, NEW b \in Nat, NEW h \in 0 .. b, NEW f \in [1 .. b -> S]
  PROVE  /\ [i \in 1 .. h |-> f[i]] \o [i \in 1 .. b - h |-> f[h + i]] = f
         /\ f \in Seq(S) /\ Len(f) = b
  <1> DEFINE x == [i \in 1 .. h |-> f[i]]
             y == [i \in 1 .. b - h |-> f[h + i]]
  <1>1. x \in Seq(S) /\ Len(x) = h /\ \A i \in 1 .. h : x[i] = f[i] OBVIOUS
  <1>2. y \in Seq(S) /\ Len(y) = b - h /\ \A i \in 1 .. b - h : y[i] = f[h + i] OBVIOUS
  <1>3. f \in Seq(S) /\ Len(f) = b OBVIOUS
  <1> HIDE DEF x, y
  <1>4. /\ x \o y \in Seq(S) /\ Len(x \o y) = b
        /\ \A i \in 1 .. b : (x \o y)[i] = IF i <= h THEN x[i] ELSE y[i - h]
    <2>1. /\ x \o y \in Seq(S) /\ Len(x \o y) = Len(x) + Len(y)
          /\ \A i \in 1 .. Len(x) + Len(y) : (x \o y)[i] = IF i <= Len(x) THEN x[i] ELSE y[i - Len(x)]
      BY <1>1, <1>2, ConcatProperties
    <2>2. Len(x) + Len(y) = b BY <1>1, <1>2
    <2>q. QED BY <1>1, <2>1, <2>2
  <1>5. \A i \in 1 .. b : (x \o y)[i] = f[i]
    <2> SUFFICES ASSUME NEW i \in 1 .. b PROVE (x \o y)[i] = f[i] OBVIOUS
    <2>1. CASE i <= h BY <1>1, <1>4, <2>1
    <2>2. CASE ~(i <= h)
      <3>1. i - h \in 1 .. b - h /\ h + (i - h) = i BY <2>2
      <3>2. y[i - h] = f[i] BY <1>2, <3>1
      <3>q. QED BY <1>4, <2>2, <3>2
    <2>q. QED BY <2>1, <2>2
  <1>6. x \o y = f BY <1>3, <1>4, <1>5, SeqEqual
  <1>q. QED BY <1>3, <1>6 DEF x, y

\* nvm_read_node, from wherever in the node on, over the end of a section or not.
LEMMA ReadNodeIs ==
  ASSUME TypeOK, CacheAligned, PageAddress, tailCount # 0, NEW s, NEW o, NEW n, Laid(s, o, n),
         NEW a \in Nat, NEW b \in Nat \ {0}, a + b <= n
  PROVE  ReadNode(SectionOffset(s, o, a).section, SectionOffset(s, o, a).offset, b)
           = [i \in 1 .. b |-> AtPlace(SectionOffset(s, o, a + i - 1))]
  <1> DEFINE p == SectionOffset(s, o, a).section
             q == SectionOffset(s, o, a).offset
             t == NextSection(p)
             here == SectionSize - q
             cell(i) == AtPlace(SectionOffset(s, o, a + i - 1))
  <1>1. /\ SectionSize \in Nat /\ HeadLen \in Nat \ {0} /\ HeadLen < SectionSize
        /\ Payload = SectionSize - HeadLen
    BY Geometry DEF Payload
  <1>2. /\ s \in Sections /\ o \in 0 .. SectionSize - 1 /\ n \in 0 .. Payload /\ s \notin Ahead
        /\ s = tailSec => o + n <= avail
        /\ o + n > SectionSize /\ NextSection(s) = tailSec => o + n - SectionSize + HeadLen <= avail
        /\ avail \in 0 .. SectionSize
    BY CacheStart DEF Laid
  <1>3. p \in Sections /\ q \in 0 .. SectionSize - 1 BY <1>1, <1>2, GoOn
  <1>4. ASSUME NEW i \in 1 .. b PROVE SectionOffset(s, o, a + i - 1) = SectionOffset(p, q, i - 1)
    <2>1. i - 1 \in Nat /\ a + (i - 1) <= Payload /\ a + (i - 1) = a + i - 1 BY <1>1, <1>2
    <2>q. QED BY <1>2, <2>1, GoOn
  <1>5. /\ o + a < SectionSize => p = s /\ q = o + a
        /\ ~(o + a < SectionSize) => p = NextSection(s) /\ q = o + a - SectionSize + HeadLen
    BY <1>1, <1>2 DEF SectionOffset
  <1>6. \A x \in Sections : NextSection(x) \in Sections /\ NextSection(x) # x BY NextSectionType, LogSections
  <1> HIDE DEF p, q
  <1>7. CASE q + b <= SectionSize
    <2>1. p = tailSec => q + b <= avail BY <1>1, <1>2, <1>5, <1>7
    <2>2. ReadNode(p, q, b) = ReadWithCache(FlashAddr(p, q), b) BY <1>7 DEF ReadNode
    <2>3. ReadNode(p, q, b) = [i \in 1 .. b |-> At(p, q + i - 1)]
      BY <1>3, <1>7, <2>1, <2>2, ReadWithCacheIs
    <2>4. \A i \in 1 .. b : cell(i) = At(p, q + i - 1)
      <3> SUFFICES ASSUME NEW i \in 1 .. b PROVE cell(i) = At(p, q + i - 1) OBVIOUS
      <3>1. SectionOffset(p, q, i - 1) = [section |-> p, offset |-> q + i - 1]
        BY <1>1, <1>3, <1>7 DEF SectionOffset
      <3>q. QED BY <1>4, <3>1 DEF AtPlace
    <2> HIDE DEF cell
    <2>5. ReadNode(p, q, b) = [i \in 1 .. b |-> cell(i)] BY <2>3, <2>4
    <2>q. QED BY <2>5 DEF cell, p, q
  <1>8. CASE ~(q + b <= SectionSize)
    <2>1. p = s /\ q = o + a BY <1>1, <1>2, <1>5, <1>8
    <2>2. here \in Nat \ {0} /\ b - here \in Nat \ {0} /\ HeadLen + (b - here) <= SectionSize
          /\ q + here = SectionSize
      BY <1>1, <1>2, <1>3, <1>8
    <2>3. p # tailSec BY <1>1, <1>2, <1>3, <1>8, <2>1
    <2>4. t = tailSec => HeadLen + (b - here) <= avail BY <1>1, <1>2, <1>3, <1>8, <2>1
    <2>5. t \in Sections /\ HeadLen \in 0 .. SectionSize - 1 BY <1>1, <1>3, <1>6
    <2>6. ReadWithCache(FlashAddr(p, q), here) = [i \in 1 .. here |-> At(p, q + i - 1)]
      <3> HIDE DEF here
      <3>q. QED BY <1>3, <2>2, <2>3, ReadWithCacheIs
    <2>7. ReadWithCache(FlashAddr(t, HeadLen), b - here) = [i \in 1 .. b - here |-> At(t, HeadLen + i - 1)]
      <3> DEFINE m == b - here
      <3>1. m \in Nat \ {0} /\ HeadLen + m <= SectionSize /\ (t = tailSec => HeadLen + m <= avail)
        BY <2>2, <2>4
      <3> HIDE DEF m, t
      <3>2. ReadWithCache(FlashAddr(t, HeadLen), m) = [i \in 1 .. m |-> At(t, HeadLen + i - 1)]
        BY <2>5, <3>1, ReadWithCacheIs
      <3>q. QED BY <3>2 DEF m
    <2>8. \A i \in 1 .. here : cell(i) = At(p, q + i - 1)
      <3> SUFFICES ASSUME NEW i \in 1 .. here PROVE cell(i) = At(p, q + i - 1) OBVIOUS
      <3>1. SectionOffset(p, q, i - 1) = [section |-> p, offset |-> q + i - 1]
        BY <1>1, <1>3, <2>2 DEF SectionOffset
      <3>2. i \in 1 .. b BY <2>2
      <3>q. QED BY <1>4, <3>1, <3>2 DEF AtPlace
    <2>8a. \A j \in 1 .. b : j > here => cell(j) = At(t, HeadLen + (j - here) - 1)
      <3> SUFFICES ASSUME NEW j \in 1 .. b, j > here PROVE cell(j) = At(t, HeadLen + (j - here) - 1) OBVIOUS
      <3>1. SectionOffset(p, q, j - 1) = [section |-> t, offset |-> HeadLen + (j - here) - 1]
        <4>1. j \in Int /\ q + (j - 1) >= SectionSize /\ q \in Int
              /\ q + (j - 1) - SectionSize + HeadLen = HeadLen + (j - here) - 1
          BY <1>1, <1>3, <2>2
        <4> HIDE DEF here
        <4>q. QED BY <4>1 DEF SectionOffset
      <3>q. QED BY <1>4, <3>1 DEF AtPlace
    <2>9. \A i \in 1 .. b - here : cell(here + i) = At(t, HeadLen + i - 1)
      <3> HIDE DEF cell, here, t
      <3> SUFFICES ASSUME NEW i \in 1 .. b - here PROVE cell(here + i) = At(t, HeadLen + i - 1) OBVIOUS
      <3>1. here + i \in 1 .. b /\ here + i > here /\ (here + i) - here = i BY <2>2
      <3>q. QED BY <2>8a, <3>1
    <2> DEFINE f == [i \in 1 .. b |-> cell(i)]
               S == {cell(i) : i \in 1 .. b}
    <2> HIDE DEF cell, here, t
    <2>10. f \in [1 .. b -> S] OBVIOUS
    <2>11. [i \in 1 .. here |-> f[i]] = [i \in 1 .. here |-> At(p, q + i - 1)] BY <2>2, <2>8
    <2>12. [i \in 1 .. b - here |-> f[here + i]] = [i \in 1 .. b - here |-> At(t, HeadLen + i - 1)]
      BY <2>2, <2>9
    <2>13. here \in 0 .. b BY <2>2
    <2> HIDE DEF f, S
    <2>14. ReadNode(p, q, b) = f
      <3>1. [i \in 1 .. here |-> f[i]] \o [i \in 1 .. b - here |-> f[here + i]] = f
        BY <2>10, <2>13, Joined
      <3>2. ReadNode(p, q, b) = ReadWithCache(FlashAddr(p, q), here)
                                \o ReadWithCache(FlashAddr(t, HeadLen), b - here)
        BY <1>8 DEF ReadNode, here, t
      <3>q. QED BY <2>6, <2>7, <2>11, <2>12, <3>1, <3>2
    <2>q. QED BY <2>14 DEF f, cell, p, q
  <1>q. QED BY <1>7, <1>8

\* Part of a node that is held in the log reads as that part of its image.
LEMMA ReadHeld ==
  ASSUME TypeOK, CacheAligned, PageAddress, tailCount # 0,
         NEW s, NEW o, NEW n, Laid(s, o, n), NEW node, Holds(s, o, node, n),
         NEW a \in Nat, NEW b \in Nat \ {0}, a + b <= n
  PROVE  ReadNode(SectionOffset(s, o, a).section, SectionOffset(s, o, a).offset, b)
           = [i \in 1 .. b |-> <<node, a + i>>]
  <1>1. ReadNode(SectionOffset(s, o, a).section, SectionOffset(s, o, a).offset, b)
           = [i \in 1 .. b |-> AtPlace(SectionOffset(s, o, a + i - 1))]
    BY ReadNodeIs
  <1>2. n \in Nat BY Geometry DEF Laid
  <1>3. \A i \in 1 .. b : AtPlace(SectionOffset(s, o, a + i - 1)) = <<node, a + i>>
    <2> SUFFICES ASSUME NEW i \in 1 .. b PROVE AtPlace(SectionOffset(s, o, a + i - 1)) = <<node, a + i>>
      OBVIOUS
    <2>1. a + i - 1 \in 0 .. n - 1 /\ (a + i - 1) + 1 = a + i BY <1>2
    <2>q. QED BY <2>1 DEF Holds
  <1>q. QED BY <1>1, <1>3
-----------------------------------------------------------------------------
(* What programming does to the log. *)

\* ErasedAhead, place by place.
ErasedPlaces ==
  /\ \A o \in avail - Len(buf) .. SectionSize - 1 : flash[FlashAddr(tailSec, o)] = Erased
  /\ \A s \in Ahead : \A o \in 0 .. SectionSize - 1 : flash[FlashAddr(s, o)] = Erased
  /\ \A s \in Sections : \A o \in 0 .. SectionSize - 1 : flash[FlashAddr(s, o)] # Garbage

\* Nothing in the cache is garbage.
Clean == \A j \in 1 .. Len(buf) : buf[j] # Garbage

\* It says the same.
LEMMA ErasedByPlace ==
  ASSUME TypeOK, CacheAligned, ErasedPlaces
  PROVE  ErasedAhead
  <1>1. avail \in 0 .. SectionSize /\ Len(buf) \in Nat /\ avail - Len(buf) \in Nat /\ SectionSize \in Nat
    BY CacheStart, Geometry
  <1>2. tailSec \in Sections /\ \A o \in Int : FlashAddr(tailSec, o) = tailSec * SectionSize + o
    BY DEF TypeOK, FlashAddr
  <1> DEFINE x == tailSec * SectionSize
  <1>3. x \in Int BY <1>1, <1>2, Geometry DEF Sections
  <1> HIDE DEF x
  <1>4. ASSUME NEW a \in FlashAddr(tailSec, avail - Len(buf)) .. FlashAddr(tailSec, SectionSize) - 1
        PROVE  flash[a] = Erased
    <2>1. FlashAddr(tailSec, avail - Len(buf)) = x + (avail - Len(buf))
          /\ FlashAddr(tailSec, SectionSize) = x + SectionSize
      BY <1>1, <1>2 DEF x
    <2>2. a - x \in avail - Len(buf) .. SectionSize - 1 /\ x + (a - x) = a BY <1>1, <1>3, <2>1
    <2>3. FlashAddr(tailSec, a - x) = x + (a - x) BY <1>2, <2>2 DEF x
    <2>4. flash[FlashAddr(tailSec, a - x)] = Erased BY <2>2 DEF ErasedPlaces
    <2>q. QED BY <2>2, <2>3, <2>4
  <1>5. \A a \in Addresses : flash[a] # Garbage BY AddressSplit DEF ErasedPlaces
  <1>6. \A s \in Ahead : \A o \in 0 .. SectionSize - 1 : flash[FlashAddr(s, o)] = Erased
    BY DEF ErasedPlaces
  <1>q. QED BY <1>4, <1>5, <1>6 DEF ErasedAhead, Ahead

\* nvm_program of part of a section, place by place.
LEMMA FlashWithAt ==
  ASSUME TypeOK, NEW cells \in Seq(Cells), NEW s \in Sections, NEW b \in Nat, b + Len(cells) <= SectionSize,
         NEW t \in Sections, NEW o \in 0 .. SectionSize - 1
  PROVE  FlashWith(cells, FlashAddr(s, b))[FlashAddr(t, o)]
           = IF t = s /\ b <= o /\ o < b + Len(cells)
             THEN Programmed(flash[FlashAddr(t, o)], cells[o - b + 1]) ELSE flash[FlashAddr(t, o)]
  <1> DEFINE a == FlashAddr(t, o)
             c == FlashAddr(s, b)
  <1>1. a \in Addresses BY AddressOf
  <1>2. FlashWith(cells, c)[a] = IF a >= c /\ a < c + Len(cells)
                                 THEN Programmed(flash[a], cells[a - c + 1]) ELSE flash[a]
    BY <1>1 DEF FlashWith
  <1>3. Len(cells) \in Nat /\ SectionSize \in Nat \ {0} BY Geometry
  <1>4. s \in Nat /\ t \in Nat BY Geometry DEF Sections
  <1> DEFINE x == s * SectionSize
             y == t * SectionSize
  <1>5. x \in Nat /\ y \in Nat /\ a = y + o /\ c = x + b BY <1>3, <1>4 DEF FlashAddr
  <1>6. (s < t => x + SectionSize <= y) /\ (t < s => y + SectionSize <= x) BY <1>3, <1>4, Mult
  <1>7. s = t => x = y OBVIOUS
  <1> HIDE DEF x, y, a, c
  <1>8. a >= c /\ a < c + Len(cells) <=> t = s /\ b <= o /\ o < b + Len(cells)
    <2>1. CASE s < t BY <1>3, <1>4, <1>5, <1>6, <2>1
    <2>2. CASE t < s BY <1>3, <1>4, <1>5, <1>6, <2>2
    <2>3. CASE s = t BY <1>3, <1>5, <1>7, <2>3
    <2>q. QED BY <1>4, <2>1, <2>2, <2>3
  <1>9. t = s => a - c + 1 = o - b + 1 BY <1>5, <1>7
  <1>q. QED BY <1>2, <1>8, <1>9 DEF a, c

\* data_write_through moves the cache's page into flash; a reader finds the same.
LEMMA WriteThroughLog ==
  ASSUME IInv, ErasedPlaces, Clean, tailCount = 0 => avail = SectionSize, WriteThrough,
         UNCHANGED <<tailSec, tailCount, headSec>>
  PROVE  /\ \A s \in Sections, o \in 0 .. SectionSize - 1 : At(s, o)' = At(s, o)
         /\ ErasedPlaces' /\ Clean'
         /\ avail <= avail' /\ avail' <= SectionSize /\ free' = free - (avail' - avail)
  <1> DEFINE base == avail - Len(buf)
  <1>1. /\ avail \in 0 .. SectionSize /\ Len(buf) \in 0 .. PageSize - 1 /\ base \in Nat
        /\ avail < SectionSize => base + PageSize <= SectionSize
        /\ avail = SectionSize => buf = << >>
        /\ buf # << >> => Len(buf) # 0 /\ bufAddr = FlashAddr(tailSec, base)
        /\ buf = << >> => Len(buf) = 0
    BY CacheStart DEF IInv
  <1>2. /\ SectionSize \in Nat /\ PageSize \in Nat \ {0} /\ tailSec \in Sections /\ buf \in Seq(Cells)
        /\ free \in Int /\ avail % PageSize = Len(buf)
    BY Geometry DEF IInv, TypeOK, CacheAligned
  <1>3. /\ buf' = << >> /\ Len(buf') = 0 /\ free' = free - PadLen
        /\ flash' = IF buf = << >> THEN flash ELSE FlashWith(buf, bufAddr)
        /\ avail' = IF avail % PageSize = 0 THEN avail ELSE avail - (avail % PageSize) + PageSize
    BY DEF WriteThrough
  <1>4. \A s \in Sections, o \in 0 .. SectionSize - 1 : At(s, o)' = flash'[FlashAddr(s, o)]
    <2> SUFFICES ASSUME NEW s \in Sections, NEW o \in 0 .. SectionSize - 1
                 PROVE  At(s, o)' = flash'[FlashAddr(s, o)]
      OBVIOUS
    <2>1. avail' \in Int BY <1>1, <1>2, <1>3
    <2>2. ~(avail' - Len(buf') <= o /\ o < avail') BY <1>2, <1>3, <2>1
    <2>q. QED BY <2>2 DEF At
  <1>5. Clean' BY <1>3 DEF Clean
  <1>6. Ahead' = Ahead BY DEF Ahead
  <1> HIDE DEF base
  <1>7. CASE buf = << >>
    <2>1. avail' = avail /\ flash' = flash /\ PadLen = 0 BY <1>1, <1>2, <1>3, <1>7 DEF PadLen
    <2>2. \A s \in Sections, o \in 0 .. SectionSize - 1 : At(s, o) = flash[FlashAddr(s, o)]
      BY <1>1, <1>2, <1>7 DEF At
    <2>3. ErasedPlaces' BY <1>1, <1>3, <1>6, <1>7, <2>1 DEF ErasedPlaces
    <2>q. QED BY <1>1, <1>2, <1>3, <1>4, <1>5, <2>1, <2>2, <2>3
  <1>8. CASE buf # << >>
    <2>1. /\ flash' = FlashWith(buf, FlashAddr(tailSec, base)) /\ avail' = base + PageSize
          /\ PadLen = avail' - avail /\ avail < SectionSize /\ base + Len(buf) = avail
      BY <1>1, <1>2, <1>3, <1>8 DEF PadLen, base
    <2>2. tailCount # 0 BY <2>1, <1>1
    <2>3. \A s \in Sections, o \in 0 .. SectionSize - 1 :
             flash'[FlashAddr(s, o)] = IF s = tailSec /\ base <= o /\ o < avail
                                       THEN Programmed(flash[FlashAddr(s, o)], buf[o - base + 1])
                                       ELSE flash[FlashAddr(s, o)]
      BY <1>1, <1>2, <2>1, FlashWithAt DEF IInv
    <2>4. \A o \in base .. SectionSize - 1 : flash[FlashAddr(tailSec, o)] = Erased
      BY DEF ErasedPlaces, base
    <2>5. \A s \in Sections, o \in 0 .. SectionSize - 1 :
             flash'[FlashAddr(s, o)] = IF s = tailSec /\ base <= o /\ o < avail
                                       THEN buf[o - base + 1] ELSE flash[FlashAddr(s, o)]
      <3> SUFFICES ASSUME NEW s \in Sections, NEW o \in 0 .. SectionSize - 1,
                          s = tailSec, base <= o, o < avail
                   PROVE  flash'[FlashAddr(s, o)] = buf[o - base + 1]
        BY <2>3
      <3>1. o \in base .. SectionSize - 1 BY <1>1, <1>2
      <3>2. flash[FlashAddr(s, o)] = Erased BY <2>4, <3>1
      <3>q. QED BY <2>3, <3>2 DEF Programmed
    <2>6. \A s \in Sections, o \in 0 .. SectionSize - 1 : At(s, o)' = At(s, o)
      BY <1>4, <2>5 DEF At, base
    <2>7. tailSec \notin Ahead BY <2>2, LogSections DEF IInv
    <2>8. \A o \in avail' .. SectionSize - 1 : flash'[FlashAddr(tailSec, o)] = Erased
      BY <1>1, <1>2, <2>1, <2>4, <2>5
    <2>9. \A s \in Ahead : \A o \in 0 .. SectionSize - 1 : flash'[FlashAddr(s, o)] = Erased
      BY <2>5, <2>7 DEF ErasedPlaces, Ahead
    <2>10. \A s \in Sections : \A o \in 0 .. SectionSize - 1 : flash'[FlashAddr(s, o)] # Garbage
      <3> SUFFICES ASSUME NEW s \in Sections, NEW o \in 0 .. SectionSize - 1
                   PROVE  flash'[FlashAddr(s, o)] # Garbage
        OBVIOUS
      <3>1. CASE s = tailSec /\ base <= o /\ o < avail
        <4>1. o - base + 1 \in 1 .. Len(buf) BY <1>1, <1>2, <2>1, <3>1
        <4>q. QED BY <2>5, <3>1, <4>1 DEF Clean
      <3>2. CASE ~(s = tailSec /\ base <= o /\ o < avail) BY <2>5, <3>2 DEF ErasedPlaces
      <3>q. QED BY <3>1, <3>2
    <2>11. ErasedPlaces'
      <3>1. avail' - Len(buf') = avail' BY <1>1, <1>2, <1>3, <2>1
      <3>q. QED BY <1>6, <2>8, <2>9, <2>10, <3>1 DEF ErasedPlaces
    <2>q. QED BY <1>1, <1>2, <1>3, <1>5, <2>1, <2>6, <2>11
  <1>q. QED BY <1>7, <1>8
\* tinyfs_nvm_program at the tail: the cells are behind what was there before.
LEMMA CacheProgramLog ==
  ASSUME IInv, ErasedPlaces, Clean, tailCount # 0, avail < SectionSize,
         NEW cells \in Seq(Cells), \A j \in 1 .. Len(cells) : cells[j] # Garbage,
         cells # << >>, Len(buf) + Len(cells) <= PageSize,
         CacheProgram(cells, FlashAddr(tailSec, avail)), avail' = avail + Len(cells),
         UNCHANGED <<tailSec, tailCount, headSec>>
  PROVE  /\ \A s \in Sections, o \in 0 .. SectionSize - 1 :
              At(s, o)' = IF s = tailSec /\ avail <= o /\ o < avail'
                          THEN cells[o - avail + 1] ELSE At(s, o)
         /\ ErasedPlaces' /\ Clean' /\ avail' <= SectionSize
  <1> DEFINE base == avail - Len(buf)
             k == Len(cells)
             filled == buf \o cells
             addr == FlashAddr(tailSec, avail)
             page == (addr \div PageSize) * PageSize
  <1>1. /\ avail \in 0 .. SectionSize /\ Len(buf) \in 0 .. PageSize - 1 /\ base \in Nat
        /\ base + PageSize <= SectionSize /\ base + Len(buf) = avail
    BY CacheStart DEF IInv
  <1>2. /\ SectionSize \in Nat /\ PageSize \in Nat \ {0} /\ tailSec \in Sections /\ buf \in Seq(Cells)
        /\ avail % PageSize = Len(buf) /\ k \in Nat \ {0}
    BY Geometry DEF IInv, TypeOK, CacheAligned
  <1>3. avail' = avail + k /\ avail' <= SectionSize /\ Len(buf) + k <= PageSize BY <1>1, <1>2
  <1>4. page = FlashAddr(tailSec, base)
    <2>0. avail \in Nat /\ Len(buf) \in Int /\ base \in Int BY <1>1, <1>2
    <2>1. addr \in Nat /\ addr % PageSize = Len(buf)
      <3>1. FlashAddr(tailSec, avail) \in Nat /\ FlashAddr(tailSec, avail) % PageSize = avail % PageSize
        BY <1>2, <2>0, AddressMod
      <3>q. QED BY <1>2, <3>1
    <2> HIDE DEF base
    <2>2. addr = page + (addr % PageSize) /\ addr \div PageSize \in Nat BY <2>1, ModDef, Geometry
    <2>3. page \in Int BY <1>2, <2>2
    <2>4. FlashAddr(tailSec, base + Len(buf)) = FlashAddr(tailSec, base) + Len(buf)
          /\ FlashAddr(tailSec, base) \in Int
      BY <1>2, <2>0, AddressStep
    <2> HIDE DEF page
    <2>5. FlashAddr(tailSec, avail) = FlashAddr(tailSec, base) + Len(buf) BY <1>1, <2>4
    <2>q. QED BY <2>0, <2>1, <2>2, <2>3, <2>4, <2>5
  <1>5. filled \in Seq(Cells) /\ Len(filled) = Len(buf) + k
        /\ \A j \in 1 .. Len(buf) + k : filled[j] = IF j <= Len(buf) THEN buf[j] ELSE cells[j - Len(buf)]
    BY <1>2, ConcatProperties
  <1>6. IF Len(filled) = PageSize
        THEN flash' = FlashWith(filled, page) /\ buf' = << >>
        ELSE flash' = flash /\ buf' = filled
    BY DEF CacheProgram
  <1> HIDE DEF filled, page, addr
  <1>7. \A j \in 1 .. Len(filled) : filled[j] # Garbage
    <2> SUFFICES ASSUME NEW j \in 1 .. Len(filled) PROVE filled[j] # Garbage OBVIOUS
    <2>1. CASE j <= Len(buf) BY <1>5, <2>1 DEF Clean
    <2>2. CASE ~(j <= Len(buf))
      <3>1. j - Len(buf) \in 1 .. k BY <1>1, <1>2, <1>5, <2>2
      <3>q. QED BY <1>5, <2>2, <3>1
    <2>q. QED BY <2>1, <2>2
  <1>8. \A o \in base .. SectionSize - 1 : flash[FlashAddr(tailSec, o)] = Erased
    BY DEF ErasedPlaces
  <1>9. Ahead' = Ahead /\ tailSec \notin Ahead
    BY LogSections DEF Ahead, IInv
  <1> DEFINE new(s, o) == IF s = tailSec /\ base <= o /\ o < avail' THEN filled[o - base + 1]
                          ELSE flash[FlashAddr(s, o)]
  <1>10. ASSUME NEW s \in Sections, NEW o \in 0 .. SectionSize - 1
         PROVE  new(s, o) = IF s = tailSec /\ avail <= o /\ o < avail'
                            THEN cells[o - avail + 1] ELSE At(s, o)
    <2>1. CASE s = tailSec /\ avail <= o /\ o < avail'
      <3>1. o - base + 1 \in 1 .. Len(buf) + k /\ ~(o - base + 1 <= Len(buf))
            /\ (o - base + 1) - Len(buf) = o - avail + 1 /\ base <= o
        BY <1>1, <1>2, <1>3, <2>1
      <3>2. filled[o - base + 1] = cells[o - avail + 1] BY <1>5, <3>1
      <3>q. QED BY <2>1, <3>1, <3>2
    <2>2. CASE s = tailSec /\ base <= o /\ o < avail
      <3>1. o - base + 1 \in 1 .. Len(buf) + k /\ o - base + 1 <= Len(buf) /\ o < avail' /\ ~(avail <= o)
        BY <1>1, <1>2, <1>3, <2>2
      <3>2. filled[o - base + 1] = buf[o - base + 1] BY <1>5, <3>1
      <3>q. QED BY <2>2, <3>1, <3>2 DEF At
    <2>3. CASE s # tailSec BY <2>3 DEF At
    <2>4. CASE s = tailSec /\ ~(base <= o /\ o < avail) /\ ~(avail <= o /\ o < avail')
      <3>1. ~(base <= o /\ o < avail') BY <1>1, <1>2, <1>3, <2>4
      <3>q. QED BY <2>4, <3>1 DEF At
    <2>q. QED BY <2>1, <2>2, <2>3, <2>4
  <1>11. CASE Len(filled) # PageSize
    <2>0. flash' = flash /\ buf' = filled BY <1>6, <1>11
    <2>1. flash' = flash /\ buf' = filled /\ avail' - Len(buf') = base
      <3>1. Len(buf') = Len(buf) + k BY <1>5, <2>0
      <3>2. avail' - (Len(buf) + k) = avail - Len(buf) BY <1>1, <1>2, <1>3
      <3>q. QED BY <2>0, <3>1, <3>2
    <2>2. \A s \in Sections, o \in 0 .. SectionSize - 1 : At(s, o)' = new(s, o) BY <2>1 DEF At
    <2>3. ErasedPlaces' BY <1>8, <1>9, <2>1 DEF ErasedPlaces
    <2>4. Clean' BY <1>7, <2>1 DEF Clean
    <2> HIDE DEF new
    <2>q. QED BY <1>3, <1>10, <2>2, <2>3, <2>4
  <1>12. CASE Len(filled) = PageSize
    <2>1. /\ flash' = FlashWith(filled, FlashAddr(tailSec, base)) /\ buf' = << >> /\ Len(buf') = 0
          /\ avail' = base + PageSize
      <3>1. flash' = FlashWith(filled, page) /\ buf' = << >> BY <1>6, <1>12
      <3>2. Len(buf') = 0 BY <3>1
      <3>3. Len(buf) + k = PageSize BY <1>5, <1>12
      <3>4. avail' = base + PageSize BY <1>1, <1>2, <1>3, <3>3
      <3>q. QED BY <1>4, <3>1, <3>2, <3>4
    <2>0. base \in Nat /\ filled \in Seq(Cells) /\ base + Len(filled) <= SectionSize /\ TypeOK
      BY <1>1, <1>5, <1>12 DEF IInv
    <2>2. ASSUME NEW s \in Sections, NEW o \in 0 .. SectionSize - 1
          PROVE  flash'[FlashAddr(s, o)] = new(s, o)
      <3>1. flash'[FlashAddr(s, o)] = IF s = tailSec /\ base <= o /\ o < base + Len(filled)
                                       THEN Programmed(flash[FlashAddr(s, o)], filled[o - base + 1])
                                       ELSE flash[FlashAddr(s, o)]
        <4> HIDE DEF base
        <4>1. FlashWith(filled, FlashAddr(tailSec, base))[FlashAddr(s, o)]
                = IF s = tailSec /\ base <= o /\ o < base + Len(filled)
                  THEN Programmed(flash[FlashAddr(s, o)], filled[o - base + 1]) ELSE flash[FlashAddr(s, o)]
          BY <1>2, <2>0, FlashWithAt
        <4>q. QED BY <2>1, <4>1
      <3>2. CASE s = tailSec /\ base <= o /\ o < avail'
        <4>1. o \in base .. SectionSize - 1 BY <1>1, <1>2, <3>2
        <4>2. flash[FlashAddr(s, o)] = Erased BY <1>8, <3>2, <4>1
        <4>q. QED BY <1>12, <2>1, <3>1, <3>2, <4>2 DEF Programmed
      <3>3. CASE ~(s = tailSec /\ base <= o /\ o < avail') BY <1>12, <2>1, <3>1, <3>3
      <3>q. QED BY <3>2, <3>3
    <2>3. \A s \in Sections, o \in 0 .. SectionSize - 1 : At(s, o)' = flash'[FlashAddr(s, o)]
      <3> SUFFICES ASSUME NEW s \in Sections, NEW o \in 0 .. SectionSize - 1
                   PROVE  At(s, o)' = flash'[FlashAddr(s, o)]
        OBVIOUS
      <3>1. ~(avail' - Len(buf') <= o /\ o < avail') BY <1>1, <1>2, <2>1
      <3>q. QED BY <3>1 DEF At
    <2>4. \A o \in avail' .. SectionSize - 1 : flash'[FlashAddr(tailSec, o)] = Erased
      <3> SUFFICES ASSUME NEW o \in avail' .. SectionSize - 1 PROVE flash'[FlashAddr(tailSec, o)] = Erased
        OBVIOUS
      <3>1. o \in 0 .. SectionSize - 1 /\ o \in base .. SectionSize - 1 /\ ~(o < avail')
        BY <1>1, <1>2, <2>1
      <3>q. QED BY <1>2, <1>8, <2>2, <3>1
    <2>5. \A s \in Ahead : \A o \in 0 .. SectionSize - 1 : flash'[FlashAddr(s, o)] = Erased
      BY <1>9, <2>2 DEF ErasedPlaces, Ahead
    <2>6. \A s \in Sections : \A o \in 0 .. SectionSize - 1 : flash'[FlashAddr(s, o)] # Garbage
      <3> SUFFICES ASSUME NEW s \in Sections, NEW o \in 0 .. SectionSize - 1
                   PROVE  new(s, o) # Garbage
        BY <2>2
      <3>1. CASE s = tailSec /\ base <= o /\ o < avail'
        <4>1. o - base + 1 \in 1 .. Len(filled) BY <1>1, <1>2, <1>12, <2>1, <3>1
        <4>q. QED BY <1>7, <3>1, <4>1
      <3>2. CASE ~(s = tailSec /\ base <= o /\ o < avail') BY <3>2 DEF ErasedPlaces
      <3>q. QED BY <3>1, <3>2
    <2>7. ErasedPlaces'
      <3>1. avail' - Len(buf') = avail' BY <1>1, <1>2, <2>1
      <3>q. QED BY <1>9, <2>4, <2>5, <2>6, <3>1 DEF ErasedPlaces
    <2>8. Clean' BY <2>1 DEF Clean
    <2> HIDE DEF new
    <2>q. QED BY <1>3, <1>10, <2>2, <2>3, <2>7, <2>8
  <1>q. QED BY <1>11, <1>12
-----------------------------------------------------------------------------
(* The invariant of the log. *)

\* An empty volume is never collected: what a collection keeps free beside the
\* buffering sections leaves room for any node.
Roomy == \A n \in Nodes : NodeLen(n) + BufferingNum * Payload < SectionNum * Payload

\* tail_count has not come to its end (the hazard at tinyfs.c:265).
NoWrap == tailCount < CountRange - 1

\* The first n units of a node are in the log, at a place of it.
Stored(p, node, n) == Laid(p.section, p.offset, n) /\ Holds(p.section, p.offset, node, n)

\* Before the first section is opened there is nothing.
Untouched ==
  tailCount = 0 =>
    /\ headSec = 0 /\ tailSec = PrevSection(0) /\ avail = SectionSize
    /\ Live = {} /\ pc \in {"idle", "gc", "emit"} /\ ~copying
    /\ pc = "emit" => out # << >>

\* What each phase of a call leaves behind.
Phases ==
  /\ HeadLen <= avail \/ (avail = 0 /\ pc = "emit" /\ tailCount # 0)
  /\ pc \in {"copy", "erase"} \/ copying => headSec # tailSec /\ tailCount # 0
  /\ pc = "erase" => list[headSec] = << >>
  /\ pc # "emit" => out = << >>
  /\ ~copying => unread = 0

\* The header of a section that has just been opened is in front of the entry.
Heading == IF avail = 0 THEN HeadLen ELSE 0

\* How much of the entry is in the log, and where it goes on.
Done == NodeLen(entry.node) - unread - (Len(out) - Heading)

NextPlace ==
  IF avail = SectionSize THEN [section |-> NextSection(tailSec), offset |-> HeadLen]
  ELSE [section |-> tailSec, offset |-> IF avail = 0 THEN HeadLen ELSE avail]

\* The entry under way: it starts where its entry says, the log ends in the middle
\* of it, and what is to follow is what follows.
Emitting ==
  pc = "emit" =>
    /\ Done \in Nat /\ Heading <= Len(out)
    /\ avail = 0 => Len(out) > HeadLen
    /\ \A j \in 1 .. Len(out) - Heading : out[Heading + j] = <<entry.node, Done + j>>
    /\ \A j \in 1 .. Len(out) : out[j] # Garbage
    /\ SectionOffset(entry.section, entry.offset, Done) = NextPlace
    /\ Done > 0 => Stored(entry, entry.node, Done)

\* What is copied is still in the head section: source goes on in it where the
\* copy goes on.
Original ==
  copying /\ unread > 0 =>
    \E o \in 0 .. SectionSize - 1 :
      /\ Stored([section |-> headSec, offset |-> o], entry.node, NodeLen(entry.node))
      /\ source = SectionOffset(headSec, o, NodeLen(entry.node) - unread)

\* Every live node is in the log.
Kept == \A e \in Live : Stored(e, e.node, NodeLen(e.node))

LInv ==
  /\ FreeExact /\ ErasedPlaces /\ Clean
  /\ Untouched /\ Phases /\ Kept /\ Emitting /\ Original

\* A node is not garbage.
LEMMA NotGarbage == \A n, i : i # 0 => <<n, i>> # Garbage
  BY DEF Garbage

\* Every node fits in a section.
LEMMA NodeFits ==
  ASSUME NEW node \in Nodes
  PROVE  NodeLen(node) \in Nat \ {0} /\ NodeLen(node) <= Payload
  <1>1. AddLen <= Payload /\ AddLen \in Nat BY LengthAssumption DEF Payload
  <1>q. QED BY <1>1, NodeLengths, Geometry

\* A step that leaves the log alone.
LEMMA SameLog ==
  ASSUME UNCHANGED <<logVars, headSec>>
  PROVE  /\ EmptySections' = EmptySections
         /\ ErasedPlaces => ErasedPlaces'
         /\ Clean => Clean'
         /\ \A p, node, n : Stored(p, node, n) => Stored(p, node, n)'
  <1>1. UNCHANGED <<flash, buf, avail, tailSec, tailCount, headSec>> BY DEF logVars
  <1>2. Ahead' = Ahead /\ EmptySections' = EmptySections BY <1>1 DEF Ahead, EmptySections
  <1>3. ErasedPlaces => ErasedPlaces' BY <1>1, <1>2 DEF ErasedPlaces
  <1>4. Clean => Clean' BY <1>1 DEF Clean
  <1>5. \A s, o : At(s, o)' = At(s, o) BY <1>1 DEF At
  <1>6. \A p : AtPlace(p)' = AtPlace(p) BY <1>5 DEF AtPlace
  <1>7. \A s, o, n : Laid(s, o, n) => Laid(s, o, n)' BY <1>1, <1>2 DEF Laid
  <1>8. \A s, o, node, n : Holds(s, o, node, n) => Holds(s, o, node, n)' BY <1>6 DEF Holds
  <1>q. QED BY <1>2, <1>3, <1>4, <1>7, <1>8 DEF Stored

\* A step that changes the log and keeps a node in it.
LEMMA StoredKept ==
  ASSUME TypeOK, tailCount # 0, avail <= SectionSize,
         NEW p, NEW node, NEW n, Stored(p, node, n), Laid(p.section, p.offset, n)',
         \A s \in Sections \ Ahead, o \in 0 .. SectionSize - 1 :
            (s = tailSec => o < avail) /\ (s = headSec => p.section = headSec) => At(s, o)' = At(s, o)
  PROVE  Stored(p, node, n)'
  <1>1. Laid(p.section, p.offset, n) /\ Holds(p.section, p.offset, node, n) BY DEF Stored
  <1>2. ASSUME NEW i \in 0 .. n - 1
        PROVE  AtPlace(SectionOffset(p.section, p.offset, i))' = <<node, i + 1>>
    <2> DEFINE q == SectionOffset(p.section, p.offset, i)
    <2>1. Behind(q) /\ (q.section = headSec => p.section = headSec) BY <1>1, LaidBehind
    <2>2. AtPlace(q) = <<node, i + 1>> BY <1>1 DEF Holds
    <2> HIDE DEF q
    <2>3. At(q.section, q.offset)' = At(q.section, q.offset) BY <2>1 DEF Behind
    <2>4. AtPlace(q)' = AtPlace(q) BY <2>3 DEF AtPlace
    <2>q. QED BY <2>2, <2>4 DEF q
  <1>3. Holds(p.section, p.offset, node, n)' BY <1>2 DEF Holds
  <1>q. QED BY <1>3 DEF Stored

\* What is in the log is behind its tail: it stays where it is when the tail moves on.
LEMMA LaidKept ==
  ASSUME TypeOK, avail \in Nat, avail' \in Nat, avail <= avail', UNCHANGED <<tailSec, tailCount, headSec>>,
         NEW s, NEW o, NEW n, Laid(s, o, n)
  PROVE  Laid(s, o, n)'
  <1>1. Ahead' = Ahead BY DEF Ahead
  <1>2. SectionSize \in Nat /\ Payload \in Nat /\ HeadLen \in Nat BY Geometry
  <1>q. QED BY <1>1, <1>2 DEF Laid

-----------------------------------------------------------------------------
(* The steps of a call that leave the log alone. *)

\* A step after which nothing is being written.
LEMMA RestLog ==
  ASSUME LInv, UNCHANGED <<logVars, headSec, free, out>>, out = << >>, ~copying', unread' = 0,
         pc' \in {"idle", "gc", "copy"}, pc' = "copy" => headSec # tailSec /\ tailCount # 0,
         HeadLen <= avail, tailCount = 0 => Live' = {},
         \A e \in Live' : Stored(e, e.node, NodeLen(e.node))
  PROVE  LInv'
  <1>1. UNCHANGED <<flash, buf, avail, tailSec, tailCount, headSec, free, out>> BY DEF logVars
  <1>2. FreeExact' BY <1>1, SameLog DEF LInv, FreeExact
  <1>3. ErasedPlaces' /\ Clean' BY SameLog DEF LInv
  <1>4. Untouched' BY <1>1 DEF LInv, Untouched
  <1>5. Phases' BY <1>1 DEF Phases
  <1>6. Kept' BY SameLog DEF Kept
  <1>7. Emitting' /\ Original' BY DEF Emitting, Original
  <1>q. QED BY <1>2, <1>3, <1>4, <1>5, <1>6, <1>7 DEF LInv

\* A step after which an entry is being written.
LEMMA EmitLog ==
  ASSUME TypeOK, LInv, UNCHANGED <<logVars, headSec>>, pc' = "emit", HeadLen <= avail,
         out = << >>, out' \in Seq(Cells), free' = free - Len(out'), out' # << >>,
         Live' \subseteq Live, ~copying' => unread' = 0,
         copying' => headSec # tailSec /\ tailCount # 0, Emitting', Original'
  PROVE  LInv'
  <1>1. UNCHANGED <<flash, buf, avail, tailSec, tailCount, headSec>> BY DEF logVars
  <1>2. FreeExact'
    <2>1. EmptySections' = EmptySections BY SameLog
    <2>t. Payload * EmptySections \in Int /\ SectionSize - avail \in Int
      <3>1. EmptySections \in Nat BY LogSections
      <3>q. QED BY <3>1, Geometry DEF TypeOK
    <2>2. free = SectionSize - avail + Payload * EmptySections - 0 BY DEF LInv, FreeExact
    <2>3. free' = SectionSize - avail + Payload * EmptySections - Len(out') BY <2>t, <2>2
    <2>q. QED BY <1>1, <2>1, <2>3 DEF FreeExact
  <1>3. ErasedPlaces' /\ Clean' BY SameLog DEF LInv
  <1>4. Untouched' BY <1>1 DEF LInv, Untouched
  <1>5. Phases' BY <1>1 DEF Phases
  <1>6. Kept' BY SameLog DEF LInv, Kept
  <1>q. QED BY <1>2, <1>3, <1>4, <1>5, <1>6 DEF LInv
\* Between calls, and where the collector is not writing, nothing waits to be written.
LEMMA RestFacts ==
  ASSUME IInv, LInv, pc # "emit"
  PROVE  /\ out = << >> /\ ~copying /\ unread = 0 /\ HeadLen <= avail
         /\ tailCount = 0 => Live = {}
         /\ \A e \in Live : Stored(e, e.node, NodeLen(e.node))
  BY DEF IInv, CallShape, LInv, Phases, Untouched, Kept

\* A call is entered.
LEMMA EnterLog ==
  ASSUME IInv, LInv, pc = "idle", pc' = "gc",
         UNCHANGED <<logVars, headSec, free, out, copying, unread>>, Live' \subseteq Live
  PROVE  LInv'
  <1>1. pc # "emit" BY SMT
  <1>2. /\ out = << >> /\ ~copying /\ unread = 0 /\ HeadLen <= avail
        /\ tailCount = 0 => Live = {}
        /\ \A e \in Live : Stored(e, e.node, NodeLen(e.node))
    BY <1>1, RestFacts
  <1>q. QED BY <1>2, RestLog

\* tinyfs_write, tinyfs_del_record, tinyfs_mkdir and tinyfs_del_dir.
LEMMA CallsLog ==
  ASSUME IInv, TInv, LInv, Call, ~Sync
  PROVE  LInv'
  <1>1. CASE UNCHANGED <<list, size>>
    <2>1. Live' = Live BY <1>1 DEF Live
    <2>2. /\ pc = "idle" /\ pc' = "gc" /\ UNCHANGED <<logVars, headSec, free, out, copying, unread>>
      BY DEF Call, Write, DelRecord, Mkdir, DelDir, CanCall, Enter
    <2>q. QED BY <2>1, <2>2, EnterLog
  <1>2. ASSUME NEW p \in Parents, NEW n \in Names, NEW v \in Values, Write(p, n, v),
               Records(p, n) # {}
        PROVE  LInv'
    <2>1. PICK e \in Records(p, n) : ListDel(e) BY <1>2 DEF Write
    <2>2. e \in Live BY DEF Records
    <2>3. Live' = Live \ {e} BY <2>1, <2>2, DelLists DEF IInv, TInv
    <2>4. pc = "idle" /\ pc' = "gc" /\ UNCHANGED <<logVars, headSec, free, out, copying, unread>>
      BY <1>2 DEF Write, CanCall, Enter
    <2>q. QED BY <2>3, <2>4, EnterLog
  <1>3. ASSUME NEW p \in Parents, NEW n \in Names, NEW v \in Values, Write(p, n, v),
               Records(p, n) = {}
        PROVE  UNCHANGED <<list, size>>
    BY <1>3 DEF Write
  <1>4. CASE \E p \in Parents, n \in Names, v \in Values : Write(p, n, v)
    BY <1>1, <1>2, <1>3, <1>4
  <1>5. CASE \E p \in Parents, n \in Names : DelRecord(p, n) BY <1>1, <1>5 DEF DelRecord
  <1>6. CASE \E p \in Parents, n \in Names : Mkdir(p, n) BY <1>1, <1>6 DEF Mkdir
  <1>7. CASE \E d \in DirIds, force \in BOOLEAN : DelDir(d, force) BY <1>1, <1>7 DEF DelDir
  <1>q. QED BY <1>4, <1>5, <1>6, <1>7 DEF Call

\* An empty list adds up to nothing.
LEMMA TotalEmpty == Total(<< >>) = 0
  <1>1. << >> \in Seq(Entries) /\ Len(<< >>) = 0 OBVIOUS
  <1>2. AddsUp([i \in 0 .. 0 |-> 0], << >>) BY DEF AddsUp
  <1>q. QED BY <1>1, <1>2, TotalIs

\* The collector starts only when there is something to collect.
LEMMA CollectStartLog ==
  ASSUME Roomy, IInv, TInv, LInv, CollectStart
  PROVE  LInv'
  <1>1. /\ pc = "gc" /\ pc' = "copy" /\ headSec # tailSec
        /\ free <= NodeLen(todo[1]) + size[headSec] + BufferingNum * Payload
        /\ UNCHANGED <<logVars, headSec, free, out, copying, unread, list>>
    BY DEF CollectStart, MustCollect, treeVars
  <1>2. Live' = Live BY <1>1 DEF Live
  <1>3. /\ out = << >> /\ ~copying /\ unread = 0 /\ HeadLen <= avail
        /\ tailCount = 0 => Live = {}
        /\ \A e \in Live : Stored(e, e.node, NodeLen(e.node))
    BY <1>1, RestFacts
  <1>4. tailCount # 0
    <2> SUFFICES ASSUME tailCount = 0 PROVE FALSE OBVIOUS
    <2>1. headSec \in Sections /\ list[headSec] \in Seq(Entries) BY DEF IInv, TypeOK
    <2>2. list[headSec] = << >>
      <3>1. \A i \in 1 .. Len(list[headSec]) : list[headSec][i] \in Live BY <2>1 DEF Live
      <3>2. Len(list[headSec]) = 0
        <4>1. Len(list[headSec]) \in Nat BY <2>1
        <4>q. QED BY <1>3, <3>1, <4>1
      <3>q. QED BY <2>1, <3>2
    <2>3. size[headSec] = 0 BY <2>1, <2>2, TotalEmpty DEF TInv, Lists, Summed
    <2>4. EmptySections = SectionNum /\ avail = SectionSize
      BY DEF EmptySections, LInv, Untouched
    <2>5. free = Payload * SectionNum
      <3>1. free = SectionSize - SectionSize + Payload * SectionNum - 0
        BY <1>3, <2>4 DEF LInv, FreeExact
      <3>2. Payload * SectionNum \in Nat /\ SectionSize \in Nat BY Geometry
      <3>q. QED BY <3>1, <3>2
    <2>6. todo[1] \in Nodes
      <3>1. todo \in Seq(Nodes) /\ todo # << >> BY <1>1 DEF IInv, TypeOK, CallShape
      <3>q. QED BY <3>1
    <2>7. NodeLen(todo[1]) \in Nat /\ BufferingNum * Payload \in Nat
          /\ NodeLen(todo[1]) + BufferingNum * Payload < SectionNum * Payload
      BY <2>6, NodeLengths, Geometry, BoundAssumption DEF Roomy
    <2>8. Payload * SectionNum = SectionNum * Payload BY Geometry
    <2>q. QED BY <1>1, <2>3, <2>5, <2>7, <2>8
  <1>q. QED BY <1>1, <1>2, <1>3, <1>4, RestLog
-----------------------------------------------------------------------------
(* The steps that start, copy and end an entry. *)

\* node_write is entered for a node of which the first c units are given.
LEMMA StartEmitting ==
  ASSUME IInv, LInv, pc # "emit", UNCHANGED <<logVars, headSec>>,
         NEW node \in Nodes, NEW c \in 1 .. NodeLen(node), NEW cells,
         cells = [i \in 1 .. c |-> <<node, i>>],
         StartEntry(node, cells), unread' = NodeLen(node) - c
  PROVE  /\ Emitting' /\ pc' = "emit" /\ HeadLen <= avail /\ out = << >>
         /\ out' \in Seq(Cells) /\ out' # << >> /\ free' = free - Len(out')
  <1>1. UNCHANGED <<flash, buf, avail, tailSec, tailCount, headSec>> BY DEF logVars
  <1>2. NodeLen(node) \in Nat /\ NodeLen(node) <= Payload /\ c \in Nat /\ c # 0
    BY NodeFits
  <1>3. HeadLen <= avail /\ HeadLen \in Nat \ {0} /\ avail \in Nat /\ out = << >>
    BY RestFacts, Geometry DEF IInv, TypeOK
  <1>4. cells \in Seq(Cells) /\ Len(cells) = c /\ \A j \in 1 .. c : cells[j] = <<node, j>>
    <2>1. \A i \in 1 .. c : <<node, i>> \in Cells BY DEF Cells
    <2>q. QED BY <1>2, <2>1
  <1>5. /\ entry' = [node |-> node, section |-> NewAddress.section, offset |-> NewAddress.offset]
        /\ out' = cells /\ free' = free - Len(cells) /\ pc' = "emit"
    BY DEF StartEntry
  <1>6. NewAddress = NextPlace /\ NextPlace' = NextPlace
    BY <1>1, <1>3 DEF NewAddress, NextPlace
  <1>7. NextPlace.section \in Sections /\ NextPlace.offset \in 0 .. SectionSize - 1
        /\ NextPlace = [section |-> NextPlace.section, offset |-> NextPlace.offset]
    <2>1. tailSec \in Sections /\ NextSection(tailSec) \in Sections /\ avail <= SectionSize
      BY NextSectionType DEF IInv, TypeOK, CacheAligned
    <2>2. CASE avail = SectionSize BY <2>1, <2>2, Geometry DEF NextPlace
    <2>3. CASE avail # SectionSize BY <1>3, <2>1, <2>3, Geometry DEF NextPlace
    <2>q. QED BY <2>2, <2>3
  <1>8. SectionOffset(NextPlace.section, NextPlace.offset, 0) = NextPlace
    <2> DEFINE s == NextPlace.section
               o == NextPlace.offset
    <2>1. s \in Sections /\ o \in 0 .. SectionSize - 1 /\ 0 \in Nat /\ 0 + 0 <= Payload
      BY <1>7, Geometry
    <2>2. SectionOffset(s, o, 0) = [section |-> s, offset |-> o]
      <3> HIDE DEF s, o
      <3>q. QED BY <2>1, GoOn
    <2>q. QED BY <1>7, <2>2
  <1>9. Heading' = 0 BY <1>1, <1>3 DEF Heading
  <1>10. Done' = 0 BY <1>2, <1>4, <1>5, <1>9 DEF Done
  <1>11. Emitting'
    <2>1. Done' \in Nat /\ Heading' <= Len(out') BY <1>2, <1>4, <1>5, <1>9, <1>10
    <2>2. avail' # 0 BY <1>1, <1>3
    <2>3. \A j \in 1 .. Len(out') - Heading' : out'[Heading' + j] = <<entry'.node, Done' + j>>
      BY <1>2, <1>4, <1>5, <1>9, <1>10
    <2>4. \A j \in 1 .. Len(out') : out'[j] # Garbage BY <1>2, <1>4, <1>5, NotGarbage
    <2>5. SectionOffset(entry'.section, entry'.offset, Done') = NextPlace'
      BY <1>5, <1>6, <1>8, <1>10
    <2>q. QED BY <1>10, <2>1, <2>2, <2>3, <2>4, <2>5 DEF Emitting
  <1>12. out' # << >> BY <1>2, <1>4, <1>5
  <1>q. QED BY <1>3, <1>4, <1>5, <1>11, <1>12

\* An entry of the call is started.
LEMMA EntryStartLog ==
  ASSUME IInv, LInv, EntryStart
  PROVE  LInv'
  <1>1. /\ pc = "gc" /\ StartEntry(todo[1], Image(todo[1]))
        /\ UNCHANGED <<logVars, headSec, list, copying, source, unread>>
    BY DEF EntryStart, treeVars
  <1>2. todo[1] \in Nodes
    <2>1. todo \in Seq(Nodes) /\ todo # << >> BY <1>1 DEF IInv, TypeOK, CallShape
    <2>q. QED BY <2>1
  <1>3. NodeLen(todo[1]) \in Nat \ {0} BY <1>2, NodeLengths
  <1>4. ~copying /\ unread = 0 BY <1>1, RestFacts
  <1> DEFINE node == todo[1]
  <1>5. Image(node) = [i \in 1 .. NodeLen(node) |-> <<node, i>>] BY DEF Image
  <1>6. unread' = NodeLen(node) - NodeLen(node) BY <1>1, <1>3, <1>4
  <1>7. NodeLen(node) \in 1 .. NodeLen(node) BY <1>3
  <1> HIDE DEF node
  <1>8. /\ Emitting' /\ pc' = "emit" /\ HeadLen <= avail /\ out = << >>
        /\ out' \in Seq(Cells) /\ out' # << >> /\ free' = free - Len(out')
    <2>1. node \in Nodes /\ StartEntry(node, Image(node)) BY <1>1, <1>2 DEF node
    <2>q. QED BY <1>1, <1>5, <1>6, <1>7, <2>1, StartEmitting
  <1>9. Live' = Live BY <1>1 DEF Live
  <1>10. Original' BY <1>1, <1>4 DEF Original
  <1>q. QED BY <1>1, <1>4, <1>8, <1>9, <1>10, EmitLog DEF IInv

\* The copy of a node of the head section is started.
LEMMA NodeCopyLog ==
  ASSUME IInv, TInv, LInv, NodeCopy
  PROVE  LInv'
  <1>0. PICK e : e = list[headSec][1] OBVIOUS
  <1> DEFINE m == MetaLen(e.node)
             cells == SubSeq(Image(e.node), 1, m)
  <1>1. /\ pc = "copy" /\ copying' = TRUE /\ ListDel(e) /\ StartEntry(e.node, cells)
        /\ unread' = NodeLen(e.node) - m /\ source' = SectionOffset(e.section, e.offset, m)
        /\ UNCHANGED <<logVars, headSec>>
    BY <1>0 DEF NodeCopy
  <1>2. e \in Live /\ e.section = headSec
    <2>1. headSec \in Sections /\ list[headSec] \in Seq(Entries) /\ list[headSec] # << >>
      BY DEF IInv, TypeOK, NodeCopy
    <2>2. 1 \in 1 .. Len(list[headSec]) BY <2>1
    <2>q. QED BY <1>0, <2>1, <2>2 DEF Live, TInv, Lists, Placed
  <1>3. /\ e.node \in Nodes /\ e.offset \in 0 .. SectionSize - 1 BY <1>2, LiveType DEF IInv, Located
  <1>4. m \in 1 .. NodeLen(e.node) /\ NodeLen(e.node) \in Nat
    <2>1. NodeLen(e.node) \in Nat /\ m \in 1 .. AddLen BY <1>3, NodeKinds, NodeLengths
    <2>2. IsRecord(e.node) => NodeLen(e.node) > AddLen BY <1>3, NodeLengths
    <2>3. ~IsRecord(e.node) => NodeLen(e.node) = m BY DEF NodeLen
    <2> HIDE DEF m
    <2>q. QED BY <2>1, <2>2, <2>3, LengthAssumption
  <1>5. cells = [i \in 1 .. m |-> <<e.node, i>>]
    <2> HIDE DEF m
    <2>1. Image(e.node) \in Seq(Cells) /\ Len(Image(e.node)) = NodeLen(e.node) BY <1>3, ImageType
    <2>2. \A i \in 1 .. NodeLen(e.node) : Image(e.node)[i] = <<e.node, i>> BY DEF Image
    <2>3. cells = [i \in 1 .. m |-> Image(e.node)[i]] BY <1>4, <2>1
    <2>q. QED BY <1>4, <2>2, <2>3
  <1> HIDE DEF cells, m
  <1>6. /\ Emitting' /\ pc' = "emit" /\ HeadLen <= avail /\ out = << >>
        /\ out' \in Seq(Cells) /\ out' # << >> /\ free' = free - Len(out')
    BY <1>1, <1>3, <1>4, <1>5, StartEmitting
  <1>7. Live' = Live \ {e} BY <1>1, <1>2, DelLists DEF IInv, TInv
  <1>8. Stored(e, e.node, NodeLen(e.node)) BY <1>2 DEF LInv, Kept
  <1>9. Original'
    <2>0. PICK p : p = [section |-> headSec, offset |-> e.offset] OBVIOUS
    <2>1. Stored(p, e.node, NodeLen(e.node)) BY <1>2, <1>8, <2>0 DEF Stored
    <2>2. Stored(p, e.node, NodeLen(e.node))' BY <1>1, <2>1, SameLog
    <2>3. entry'.node = e.node /\ headSec' = headSec BY <1>1 DEF StartEntry
    <2>4. NodeLen(e.node) - unread' = m BY <1>1, <1>4
    <2>5. source' = SectionOffset(headSec', e.offset, NodeLen(entry'.node) - unread')
      BY <1>1, <1>2, <2>3, <2>4
    <2>q. QED BY <1>3, <2>0, <2>2, <2>3, <2>5 DEF Original
  <1>10. headSec # tailSec /\ tailCount # 0 BY <1>1 DEF LInv, Phases
  <1>q. QED BY <1>1, <1>6, <1>7, <1>9, <1>10, EmitLog DEF IInv
\* A section is only just open while its header is still to be written.
LEMMA Opened ==
  ASSUME IInv, LInv, out = << >>
  PROVE  HeadLen <= avail /\ Heading = 0 /\ avail \in Nat /\ avail # 0
  <1>1. Len(out) = 0 /\ HeadLen \in Nat \ {0} /\ avail \in Nat BY Geometry DEF IInv, TypeOK
  <1>2. avail = 0 => ~(pc = "emit") BY <1>1 DEF LInv, Emitting
  <1>3. HeadLen <= avail BY <1>2 DEF LInv, Phases
  <1>q. QED BY <1>1, <1>3 DEF Heading

\* The next data of a copy are what is written of the original.
LEMMA DataCopyLog ==
  ASSUME IInv, LInv, DataCopy
  PROVE  LInv'
  <1>0. PICK node : node = entry.node OBVIOUS
  <1>1. PICK k : k = IF unread > CopyLen THEN CopyLen ELSE unread OBVIOUS
  <1> DEFINE n == NodeLen(node)
             a == n - unread
  <1>2. /\ pc = "emit" /\ out = << >> /\ unread > 0
        /\ out' = ReadNode(source.section, source.offset, k)
        /\ source' = SectionOffset(source.section, source.offset, k)
        /\ unread' = unread - k /\ free' = free - k
        /\ UNCHANGED <<logVars, headSec, list, pc, entry, copying>>
    BY <1>1 DEF DataCopy, treeVars
  <1>3. UNCHANGED <<flash, buf, avail, tailSec, tailCount, headSec>> BY <1>2 DEF logVars
  <1>4. unread \in Nat /\ Len(out) = 0 /\ CopyLen \in Nat \ {0}
    BY <1>2, BoundAssumption DEF IInv, TypeOK
  <1>5. k \in Nat \ {0} /\ k <= unread BY <1>1, <1>2, <1>4
  <1>6. copying = TRUE BY <1>2, <1>4 DEF IInv, TypeOK, LInv, Phases
  <1>7. headSec # tailSec /\ tailCount # 0 BY <1>6 DEF LInv, Phases
  <1>8. HeadLen <= avail /\ Heading = 0 /\ Heading' = 0 /\ avail' # 0
    BY <1>2, <1>3, Opened DEF Heading
  <1>9. node \in Nodes BY <1>0, <1>2 DEF IInv, CallShape, Located
  <1>10. n \in Nat \ {0} /\ n <= Payload BY <1>9, NodeFits
  <1>11. Done = a /\ a \in Nat
    <2>1. Done = n - unread - (0 - 0) BY <1>0, <1>4, <1>8 DEF Done
    <2>2. Done \in Nat BY <1>2 DEF LInv, Emitting
    <2>q. QED BY <1>4, <1>10, <2>1, <2>2
  <1>12. a + k <= n /\ n - unread' = a + k /\ n - unread' - (k - 0) = a
    BY <1>2, <1>4, <1>5, <1>10, <1>11
  <1>13. PICK o \in 0 .. SectionSize - 1 :
           /\ Stored([section |-> headSec, offset |-> o], node, n)
           /\ source = SectionOffset(headSec, o, a)
    BY <1>0, <1>2, <1>6 DEF LInv, Original
  <1>14. Laid(headSec, o, n) /\ Holds(headSec, o, node, n) /\ headSec \in Sections
    BY <1>13 DEF Stored, IInv, TypeOK
  <1> HIDE DEF n, a
  <1>15. out' = [i \in 1 .. k |-> <<node, a + i>>]
    <2>1. ReadNode(SectionOffset(headSec, o, a).section, SectionOffset(headSec, o, a).offset, k)
            = [i \in 1 .. k |-> <<node, a + i>>]
      <3>1. TypeOK /\ CacheAligned /\ PageAddress BY DEF IInv
      <3>2. a \in Nat /\ a + k <= n BY <1>11, <1>12
      <3>q. QED BY <1>5, <1>7, <1>14, <3>1, <3>2, ReadHeld
    <2>q. QED BY <1>2, <1>13, <2>1
  <1>16. out' \in Seq(Cells) /\ Len(out') = k /\ out' # << >>
         /\ \A j \in 1 .. k : out'[j] = <<node, a + j>>
    <2>1. \A i \in 1 .. k : <<node, a + i>> \in Cells BY <1>5, <1>9, <1>11 DEF Cells
    <2>2. out' \in Seq(Cells) /\ Len(out') = k /\ \A j \in 1 .. k : out'[j] = <<node, a + j>>
      BY <1>5, <1>15, <2>1
    <2>q. QED BY <1>5, <2>2
  <1>17. Done' = a
    <2>1. Done' = n - unread' - (Len(out') - 0) BY <1>0, <1>2, <1>8 DEF Done, n
    <2>2. Len(out') = k BY <1>16
    <2>3. Done' = n - unread' - (k - 0) BY <2>1, <2>2
    <2>q. QED BY <1>12, <2>3
  <1>18. Emitting'
    <2>1. \A j \in 1 .. Len(out') - Heading' : out'[Heading' + j] = <<entry'.node, Done' + j>>
      BY <1>0, <1>2, <1>5, <1>8, <1>16, <1>17
    <2>2. \A j \in 1 .. Len(out') : out'[j] # Garbage
      <3> SUFFICES ASSUME NEW j \in 1 .. Len(out') PROVE out'[j] # Garbage OBVIOUS
      <3>1. out'[j] = <<node, a + j>> /\ a + j # 0 BY <1>5, <1>11, <1>16
      <3>q. QED BY <3>1, NotGarbage
    <2>3. SectionOffset(entry.section, entry.offset, a) = NextPlace /\ (a > 0 => Stored(entry, node, a))
      BY <1>0, <1>2, <1>11 DEF LInv, Emitting
    <2>4. NextPlace' = NextPlace BY <1>3 DEF NextPlace
    <2>5. a > 0 => Stored(entry, entry.node, Done)'
      <3> SUFFICES ASSUME a > 0 PROVE Stored(entry, entry.node, Done)' OBVIOUS
      <3>1. PICK p, m : p = entry /\ m = a OBVIOUS
      <3>2. Stored(p, node, m) BY <2>3, <3>1
      <3>3. Stored(p, node, m)' BY <1>2, <3>2, SameLog
      <3>q. QED BY <1>0, <1>2, <1>17, <3>1, <3>3
    <2>6. Done' \in Nat /\ Heading' <= Len(out') BY <1>5, <1>8, <1>11, <1>16, <1>17
    <2>q. QED BY <1>2, <1>8, <1>17, <2>1, <2>2, <2>3, <2>4, <2>5, <2>6 DEF Emitting
  <1>19. Original'
    <2>0. PICK p, m : p = [section |-> headSec, offset |-> o] /\ m = n OBVIOUS
    <2>1. Stored(p, node, m) BY <1>13, <2>0
    <2>2. Stored(p, node, m)' BY <1>2, <2>1, SameLog
    <2>3. source' = SectionOffset(headSec, o, a + k)
      <3>1. SectionOffset(headSec, o, a + k)
              = SectionOffset(SectionOffset(headSec, o, a).section, SectionOffset(headSec, o, a).offset, k)
        BY <1>5, <1>10, <1>11, <1>12, <1>14, GoOn, Geometry
      <3>q. QED BY <1>2, <1>13, <3>1
    <2>4. entry'.node = node /\ headSec' = headSec /\ NodeLen(entry'.node) = n
      BY <1>0, <1>2 DEF n
    <2>q. QED BY <1>12, <2>0, <2>2, <2>3, <2>4 DEF Original
  <1>20. Live' = Live BY <1>2 DEF Live
  <1>21. free' = free - Len(out') BY <1>2, <1>16
  <1>q. QED BY <1>2, <1>6, <1>7, <1>8, <1>16, <1>18, <1>19, <1>20, <1>21, EmitLog DEF IInv

\* An entry of which nothing is left is in the log.
LEMMA Written ==
  ASSUME IInv, LInv, pc = "emit", out = << >>, unread = 0
  PROVE  /\ Stored(entry, entry.node, NodeLen(entry.node))
         /\ tailCount # 0 /\ HeadLen <= avail
  <1>1. entry.node \in Nodes BY DEF IInv, CallShape, Located
  <1>2. NodeLen(entry.node) \in Nat \ {0} BY <1>1, NodeFits
  <1>3. Heading = 0 /\ HeadLen <= avail BY Opened
  <1>4. Done = NodeLen(entry.node)
    <2>1. Len(out) = 0 OBVIOUS
    <2>2. Done = NodeLen(entry.node) - 0 - (0 - 0) BY <1>3, <2>1 DEF Done
    <2>q. QED BY <1>2, <2>2
  <1>5. Stored(entry, entry.node, Done) BY <1>2, <1>4 DEF LInv, Emitting
  <1>6. tailCount # 0 BY DEF LInv, Untouched
  <1>q. QED BY <1>3, <1>4, <1>5, <1>6

\* A copy is done.
LEMMA NodeCopiedLog ==
  ASSUME IInv, TInv, LInv, NodeCopied
  PROVE  LInv'
  <1>1. /\ pc = "emit" /\ out = << >> /\ copying /\ unread = 0 /\ ListPush(entry)
        /\ copying' = FALSE /\ pc' = "copy" /\ UNCHANGED <<logVars, headSec, free, out, unread>>
    BY DEF NodeCopied
  <1>2. entry \in Entries BY <1>1 DEF IInv, CallShape, Located, Entries
  <1>3. entry \notin Live BY <1>1 DEF TInv, Single, LiveNodes
  <1>4. Live' = Live \cup {entry} BY <1>1, <1>2, <1>3, PushLists DEF IInv, TInv
  <1>5. /\ Stored(entry, entry.node, NodeLen(entry.node)) /\ tailCount # 0 /\ HeadLen <= avail
    BY <1>1, Written
  <1>6. headSec # tailSec BY <1>1 DEF LInv, Phases
  <1>7. \A e \in Live' : Stored(e, e.node, NodeLen(e.node)) BY <1>4, <1>5 DEF LInv, Kept
  <1>q. QED BY <1>1, <1>5, <1>6, <1>7, RestLog

\* An entry of the call is done.
LEMMA EntryDoneLog ==
  ASSUME IInv, TInv, LInv, EntryDone
  PROVE  LInv'
  <1>1. /\ pc = "emit" /\ out = << >> /\ copying = FALSE /\ copying' = FALSE
        /\ pc' \in {"idle", "gc"} /\ UNCHANGED <<logVars, headSec, free, out, unread>>
    BY DEF EntryDone, Enter, IInv, TypeOK
  <1>2. unread = 0 BY <1>1 DEF LInv, Phases
  <1>3. /\ Stored(entry, entry.node, NodeLen(entry.node)) /\ tailCount # 0 /\ HeadLen <= avail
    BY <1>1, <1>2, Written
  <1>4. Live' \subseteq Live \cup {entry}
    <2>1. todo \in Seq(Nodes) /\ todo # << >> /\ entry \in Located /\ entry.node = todo[1]
      BY <1>1 DEF IInv, TypeOK, CallShape
    <2>2. CASE IsAdd(todo[1])
      <3>1. ListPush(entry) BY <2>2 DEF EntryDone, IsAdd
      <3>2. todo[1] \in Nodes BY <2>1
      <3>3. entry \in Entries BY <2>1, <2>2, <3>2, NodeKinds DEF Located, Entries, IsAdd
      <3>4. \A m \in Tree : ~Clash(m, todo[1]) BY <2>1, <2>2 DEF TInv, Sound, Adding
      <3>5. Tree = LiveNodes BY <1>1, IdleTree
      <3>6. entry \notin Live BY <2>1, <3>4, <3>5 DEF Clash, LiveNodes
      <3>q. QED BY <3>1, <3>3, <3>6, PushLists DEF IInv, TInv
    <2>3. CASE ~IsAdd(todo[1])
      <3>1. PICK e \in Live : ListDel(e) BY <2>3 DEF EntryDone, IsAdd
      <3>q. QED BY <3>1, DelLists DEF IInv, TInv
    <2>q. QED BY <2>2, <2>3
  <1>5. \A e \in Live' : Stored(e, e.node, NodeLen(e.node)) BY <1>3, <1>4 DEF LInv, Kept
  <1>q. QED BY <1>1, <1>2, <1>3, <1>5, RestLog
-----------------------------------------------------------------------------
(* The steps that change the log. *)

\* data_write_through.
LEMMA WriteThroughKeeps ==
  ASSUME IInv, LInv, pc # "emit", pc' # "emit", WriteThrough,
         UNCHANGED <<tailSec, tailCount, headSec, list, out, copying, unread>>,
         tailCount = 0 => pc' = pc,
         pc' \in {"copy", "erase"} => pc \in {"copy", "erase"},
         pc' = "erase" => list[headSec] = << >>,
         pc' \in {"idle", "gc", "copy", "erase"}
  PROVE  LInv'
  <1>1. /\ out = << >> /\ ~copying /\ unread = 0 /\ HeadLen <= avail
        /\ \A e \in Live : Stored(e, e.node, NodeLen(e.node))
    BY RestFacts
  <1>2. ErasedPlaces /\ Clean /\ FreeExact /\ (tailCount = 0 => avail = SectionSize)
    BY DEF LInv, Untouched
  <1>3. /\ \A s \in Sections, o \in 0 .. SectionSize - 1 : At(s, o)' = At(s, o)
        /\ ErasedPlaces' /\ Clean'
        /\ avail <= avail' /\ avail' <= SectionSize /\ free' = free - (avail' - avail)
    BY <1>2, WriteThroughLog
  <1>4. /\ avail \in Nat /\ avail <= SectionSize /\ avail' \in Nat /\ SectionSize \in Nat
        /\ HeadLen \in Nat /\ PageSize \in Nat \ {0} /\ avail % PageSize \in 0 .. PageSize - 1
    <2>1. avail \in Nat /\ PageSize \in Nat \ {0} BY Geometry DEF IInv, TypeOK
    <2>2. avail % PageSize \in 0 .. PageSize - 1 BY <2>1, ModDef
    <2>3. avail' \in Int BY <2>1, <2>2 DEF WriteThrough
    <2>q. QED BY <1>3, <2>1, <2>2, <2>3, Geometry DEF IInv, CacheAligned
  <1>5. FreeExact'
    <2>1. EmptySections' = EmptySections BY DEF EmptySections
    <2>2. free = SectionSize - avail + Payload * EmptySections - 0 BY <1>1, <1>2 DEF FreeExact
    <2>3. Payload * EmptySections \in Nat
      <3>1. EmptySections \in Nat BY LogSections DEF IInv
      <3>q. QED BY <3>1, Geometry
    <2>4. free' = SectionSize - avail' + Payload * EmptySections - 0 BY <1>3, <1>4, <2>2, <2>3
    <2>5. Len(out') = 0 BY <1>1
    <2>q. QED BY <2>1, <2>4, <2>5 DEF FreeExact
  <1>6. Live' = Live BY DEF Live
  <1>7. Untouched'
    <2>1. tailCount = 0 => avail' = SectionSize BY <1>2, <1>3, <1>4
    <2>q. QED BY <1>6, <2>1 DEF LInv, Untouched
  <1>8. Phases'
    <2>1. HeadLen <= avail' BY <1>1, <1>3, <1>4
    <2>q. QED BY <1>1, <2>1 DEF LInv, Phases
  <1>9. Kept'
    <2> SUFFICES ASSUME NEW e \in Live PROVE Stored(e, e.node, NodeLen(e.node))'
      BY <1>6 DEF Kept
    <2>1. Stored(e, e.node, NodeLen(e.node)) BY <1>1
    <2>2. tailCount # 0 BY DEF LInv, Untouched
    <2>3. TypeOK BY DEF IInv
    <2>4. Laid(e.section, e.offset, NodeLen(e.node))' BY <1>3, <1>4, <2>1, <2>3, LaidKept DEF Stored
    <2>q. QED BY <1>3, <1>4, <2>1, <2>2, <2>3, <2>4, StoredKept
  <1>10. Emitting' /\ Original' BY <1>1 DEF Emitting, Original
  <1>q. QED BY <1>3, <1>5, <1>7, <1>8, <1>9, <1>10 DEF LInv

\* tinyfs_write_through.
LEMMA SyncLog ==
  ASSUME IInv, LInv, Sync
  PROVE  LInv'
  <1>1. /\ pc = "idle" /\ WriteThrough
        /\ UNCHANGED <<tailSec, tailCount, headSec, list, out, copying, unread, pc>>
    BY DEF Sync, treeVars, callVars
  <1>q. QED BY <1>1, WriteThroughKeeps

\* The copies reach flash.
LEMMA CollectSyncLog ==
  ASSUME IInv, LInv, CollectSync
  PROVE  LInv'
  <1>1. /\ pc = "copy" /\ pc' = "erase" /\ WriteThrough /\ list[headSec] = << >>
        /\ UNCHANGED <<tailSec, tailCount, headSec, list, out, copying, unread>>
    BY DEF CollectSync, treeVars
  <1>2. tailCount # 0 BY <1>1 DEF LInv, Phases
  <1>q. QED BY <1>1, <1>2, WriteThroughKeeps

\* The head section is erased: nothing live starts in it any more.
LEMMA CollectEraseLog ==
  ASSUME IInv, TInv, LInv, CollectErase
  PROVE  LInv'
  <1>1. /\ pc = "erase" /\ pc' = "gc" /\ SectionErase(headSec) /\ free' = free + Payload
        /\ headSec' = NextSection(headSec)
        /\ UNCHANGED <<buf, bufAddr, avail, tailSec, tailCount, list, out, copying, unread>>
    BY DEF CollectErase, treeVars
  <1>2. /\ out = << >> /\ ~copying /\ unread = 0 /\ HeadLen <= avail
        /\ \A e \in Live : Stored(e, e.node, NodeLen(e.node))
    BY <1>1, RestFacts
  <1>3. headSec # tailSec /\ tailCount # 0 /\ list[headSec] = << >> BY <1>1 DEF LInv, Phases
  <1>4. TypeOK /\ headSec \in Sections /\ tailSec \in Sections /\ avail \in Nat /\ avail <= SectionSize
    BY DEF IInv, TypeOK, CacheAligned
  <1>5. EmptySections' = EmptySections + 1 /\ Ahead' = Ahead \cup {headSec}
    BY <1>1, <1>3, <1>4, LeaveSection
  <1>6. \A s \in Sections, o \in 0 .. SectionSize - 1 :
          flash'[FlashAddr(s, o)] = IF s = headSec THEN Erased ELSE flash[FlashAddr(s, o)]
    BY <1>1, AddressOf DEF SectionErase
  <1>7. ErasedPlaces' /\ Clean'
    <2>1. Clean' BY <1>1 DEF LInv, Clean
    <2>2. Erased # Garbage BY DEF Erased, Garbage
    <2>3. \A o \in avail - Len(buf) .. SectionSize - 1 : o \in 0 .. SectionSize - 1
      <3>1. avail - Len(buf) \in Nat /\ SectionSize \in Nat BY <1>4, CacheStart, Geometry DEF IInv
      <3>q. QED BY <3>1
    <2>4. ErasedPlaces BY DEF LInv
    <2>5. \A o \in avail - Len(buf) .. SectionSize - 1 : flash'[FlashAddr(tailSec, o)] = Erased
      BY <1>3, <1>4, <1>6, <2>3, <2>4 DEF ErasedPlaces
    <2>6. \A s \in Ahead' : \A o \in 0 .. SectionSize - 1 : flash'[FlashAddr(s, o)] = Erased
      BY <1>4, <1>5, <1>6, <2>4 DEF ErasedPlaces, Ahead
    <2>7. \A s \in Sections : \A o \in 0 .. SectionSize - 1 : flash'[FlashAddr(s, o)] # Garbage
      BY <1>6, <2>2, <2>4 DEF ErasedPlaces
    <2>q. QED BY <1>1, <2>1, <2>5, <2>6, <2>7 DEF ErasedPlaces
  <1>8. FreeExact'
    <2>1. free = SectionSize - avail + Payload * EmptySections - 0 BY <1>2 DEF LInv, FreeExact
    <2>2. EmptySections \in Nat BY <1>4, LogSections
    <2>3. Payload * (EmptySections + 1) = Payload * EmptySections + Payload /\ Payload * EmptySections \in Nat
      BY <2>2, Geometry
    <2>4. free' = SectionSize - avail + Payload * (EmptySections + 1) - 0
      BY <1>1, <1>4, <2>1, <2>3, Geometry
    <2>5. Len(out') = 0 BY <1>1, <1>2
    <2>q. QED BY <1>1, <1>5, <2>4, <2>5 DEF FreeExact
  <1>9. Live' = Live BY <1>1 DEF Live
  <1>10. Untouched' BY <1>1, <1>3 DEF Untouched
  <1>11. Phases' BY <1>1, <1>2 DEF Phases
  <1>12. Kept'
    <2> SUFFICES ASSUME NEW e \in Live PROVE Stored(e, e.node, NodeLen(e.node))'
      BY <1>9 DEF Kept
    <2>1. Stored(e, e.node, NodeLen(e.node)) BY <1>2
    <2>2. e.section # headSec
      <3>1. e.section \in Sections /\ \E i \in 1 .. Len(list[e.section]) : list[e.section][i] = e
        BY LivePlace DEF TInv, Lists
      <3>2. Len(list[headSec]) = 0 BY <1>3
      <3>q. QED BY <3>1, <3>2
    <2>3. Laid(e.section, e.offset, NodeLen(e.node))'
      BY <1>1, <1>5, <2>1, <2>2 DEF Stored, Laid
    <2>4. ASSUME NEW s \in Sections \ Ahead, NEW o \in 0 .. SectionSize - 1, s # headSec
          PROVE  At(s, o)' = At(s, o)
      BY <1>1, <1>6, <2>4 DEF At
    <2>q. QED BY <1>3, <1>4, <2>1, <2>2, <2>3, <2>4, StoredKept
  <1>13. Emitting' /\ Original' BY <1>1, <1>2 DEF Emitting, Original
  <1>q. QED BY <1>7, <1>8, <1>10, <1>11, <1>12, <1>13 DEF LInv
\* node_write puts the header of the new section in front of the entry.
LEMMA HeaderInFront ==
  ASSUME IInv, SectionHeadWrite
  PROVE  /\ Len(out') = HeadLen + Len(out)
         /\ \A j \in 1 .. Len(out) : out'[HeadLen + j] = out[j]
         /\ \A j \in 1 .. HeadLen : out'[j] # Garbage
  <1>0. PICK h : h = SectionHead(tailCount', HeadNodeOffset(starting, Len(out) + unread)) OBVIOUS
  <1>1. tailCount' \in 0 .. CountRange - 1
    <2>1. tailCount + 1 \in Nat BY LengthAssumption DEF IInv, TypeOK
    <2>2. (tailCount + 1) % CountRange \in 0 .. CountRange - 1 BY <2>1, ModDef, LengthAssumption
    <2>q. QED BY <2>2 DEF SectionHeadWrite
  <1>2. HeadNodeOffset(starting, Len(out) + unread) \in 0 .. SectionSize - 1
    <2>1. Len(out) + unread \in Nat BY DEF IInv, TypeOK
    <2>q. QED BY <2>1, Geometry DEF HeadNodeOffset
  <1>3. h \in Heads BY <1>0, <1>1, <1>2 DEF SectionHead, Heads
  <1> DEFINE head == HeadImage(h)
  <1>4. head \in Seq(Cells) /\ Len(head) = HeadLen BY <1>3, HeadImageType
  <1>5. HeadLen \in Nat /\ \A j \in 1 .. HeadLen : head[j] = <<h, j>> BY Geometry DEF HeadImage
  <1>6. out' = head \o out /\ out \in Seq(Cells) BY <1>0 DEF SectionHeadWrite, IInv, TypeOK
  <1> HIDE DEF head
  <1>7. /\ Len(out') = HeadLen + Len(out)
        /\ \A i \in 1 .. HeadLen + Len(out) : out'[i] = IF i <= HeadLen THEN head[i] ELSE out[i - HeadLen]
    BY <1>4, <1>6, ConcatProperties
  <1>8. Len(out) \in Nat BY <1>6
  <1>9. \A j \in 1 .. Len(out) : out'[HeadLen + j] = out[j]
    <2> SUFFICES ASSUME NEW j \in 1 .. Len(out) PROVE out'[HeadLen + j] = out[j] OBVIOUS
    <2>1. HeadLen + j \in 1 .. HeadLen + Len(out) /\ ~(HeadLen + j <= HeadLen) /\ (HeadLen + j) - HeadLen = j
      BY <1>5, <1>8
    <2>q. QED BY <1>7, <2>1
  <1>10. \A j \in 1 .. HeadLen : out'[j] # Garbage
    <2> SUFFICES ASSUME NEW j \in 1 .. HeadLen PROVE out'[j] # Garbage OBVIOUS
    <2>1. j \in 1 .. HeadLen + Len(out) /\ j <= HeadLen /\ j # 0 BY <1>5, <1>8
    <2>2. out'[j] = <<h, j>> BY <1>5, <1>7, <2>1
    <2>q. QED BY <2>1, <2>2, NotGarbage
  <1>q. QED BY <1>7, <1>9, <1>10

\* A section is opened: there is one left, and it is erased.
LEMMA SectionHeadWriteLog ==
  ASSUME IInv, LInv, RoomLeft, NoWrap, SectionHeadWrite
  PROVE  LInv'
  <1>1. /\ pc = "emit" /\ out # << >> /\ avail = SectionSize
        /\ tailSec' = NextSection(tailSec) /\ avail' = 0 /\ tailCount' = (tailCount + 1) % CountRange
        /\ UNCHANGED <<flash, buf, headSec, free, list, pc, entry, copying, source, unread>>
    BY DEF SectionHeadWrite, treeVars
  <1>2. TypeOK /\ tailSec \in Sections /\ out \in Seq(Cells) /\ Len(out) \in Nat \ {0} /\ unread \in Nat
        /\ free \in Int
    BY <1>1 DEF IInv, TypeOK
  <1>3. tailCount' = tailCount + 1 /\ tailCount' # 0
    <2>1. tailCount + 1 \in 0 .. CountRange - 1 /\ tailCount \in Nat /\ CountRange \in Nat \ {0}
      BY LengthAssumption DEF NoWrap, IInv, TypeOK
    <2>2. (0 * CountRange + (tailCount + 1)) % CountRange = tailCount + 1 BY <2>1, ModUnique
    <2>3. 0 * CountRange + (tailCount + 1) = tailCount + 1 BY <2>1
    <2>q. QED BY <1>1, <2>1, <2>2, <2>3
  <1>4. /\ Len(out') = HeadLen + Len(out)
        /\ \A j \in 1 .. Len(out) : out'[HeadLen + j] = out[j]
        /\ \A j \in 1 .. HeadLen : out'[j] # Garbage
    BY HeaderInFront
  <1>5. buf = << >> /\ Len(buf) = 0 /\ SectionSize \in Nat \ {0} /\ HeadLen \in Nat \ {0}
        /\ HeadLen < SectionSize /\ Payload \in Nat \ {0}
    BY <1>1, <1>2, CacheStart, Geometry DEF IInv
  <1>6. EmptySections \in Nat BY <1>2, LogSections
  <1>7. free = Payload * EmptySections - Len(out)
    <2>1. free = SectionSize - SectionSize + Payload * EmptySections - Len(out)
      BY <1>1 DEF LInv, FreeExact
    <2>2. Payload * EmptySections \in Nat BY <1>5, <1>6
    <2>q. QED BY <1>2, <1>5, <2>1, <2>2
  <1>8. EmptySections # 0
    <2>1. EmptySections = 0 => Payload * EmptySections = 0 BY <1>5
    <2>q. QED BY <1>2, <1>7, <2>1 DEF RoomLeft
  <1>9. /\ EmptySections' = EmptySections - 1
        /\ Ahead' = Ahead \ {tailSec'} /\ tailSec' \in Ahead
    BY <1>1, <1>2, <1>3, <1>8, OpenSection DEF LInv, Untouched
  <1>10. FreeExact'
    <2>1. Payload * EmptySections = Payload * (EmptySections - 1) + Payload
          /\ Payload * (EmptySections - 1) \in Int
      BY <1>5, <1>6
    <2>2. Payload = SectionSize - HeadLen BY DEF Payload
    <2>3. free = SectionSize - 0 + Payload * (EmptySections - 1) - (HeadLen + Len(out))
      BY <1>2, <1>5, <1>7, <2>1, <2>2
    <2>q. QED BY <1>1, <1>4, <1>9, <2>3 DEF FreeExact
  <1>11. \A s \in Sections, o \in 0 .. SectionSize - 1 : At(s, o)' = At(s, o)
    <2> SUFFICES ASSUME NEW s \in Sections, NEW o \in 0 .. SectionSize - 1 PROVE At(s, o)' = At(s, o)
      OBVIOUS
    <2>1. ~(avail - Len(buf) <= o /\ o < avail) BY <1>1, <1>5
    <2>2. ~(avail' - Len(buf') <= o /\ o < avail') BY <1>1, <1>5
    <2>3. At(s, o) = flash[FlashAddr(s, o)] BY <2>1 DEF At
    <2>4. At(s, o)' = flash'[FlashAddr(s, o)] BY <2>2 DEF At
    <2>q. QED BY <1>1, <2>3, <2>4
  <1>12. ErasedPlaces' /\ Clean'
    <2>1. Clean' BY <1>1 DEF LInv, Clean
    <2>2. ErasedPlaces BY DEF LInv
    <2>3. avail' - Len(buf') = 0
      <3>1. avail' = 0 /\ Len(buf') = 0 BY <1>1, <1>5
      <3>q. QED BY <3>1
    <2>4. \A s \in Ahead : \A o \in 0 .. SectionSize - 1 : flash'[FlashAddr(s, o)] = Erased
      BY <1>1, <2>2 DEF ErasedPlaces
    <2>5. \A s \in Sections : \A o \in 0 .. SectionSize - 1 : flash'[FlashAddr(s, o)] # Garbage
      BY <1>1, <2>2 DEF ErasedPlaces
    <2>q. QED BY <1>9, <2>1, <2>3, <2>4, <2>5 DEF ErasedPlaces
  <1>13. tailCount = 0 => Live = {} /\ ~copying BY DEF LInv, Untouched
  <1>14. ASSUME NEW p, NEW node, NEW n, Stored(p, node, n)
         PROVE  tailCount # 0 /\ Stored(p, node, n)'
    <2>1. Laid(p.section, p.offset, n) /\ n \in Nat BY <1>5, <1>14 DEF Stored, Laid
    <2>2. tailCount # 0 BY <2>1 DEF Laid, Ahead
    <2>3. p.section # tailSec' /\ p.section \notin Ahead' BY <1>9, <2>1 DEF Laid
    <2>4. ~(p.offset + n > SectionSize /\ NextSection(p.section) = tailSec')
      <3> SUFFICES ASSUME p.offset + n > SectionSize, NextSection(p.section) = tailSec' PROVE FALSE
        OBVIOUS
      <3>1. p.section = tailSec BY <1>1, <1>2, <2>1, LogSections DEF Laid
      <3>2. p.offset + n <= avail BY <2>1, <3>1 DEF Laid
      <3>q. QED BY <1>1, <1>5, <2>1, <3>2 DEF Laid
    <2>5. Laid(p.section, p.offset, n)' BY <2>1, <2>3, <2>4 DEF Laid
    <2>6. avail <= SectionSize BY <1>1, <1>5
    <2>q. QED BY <1>2, <1>11, <1>14, <2>2, <2>5, <2>6, StoredKept
  <1>15. Kept'
    <2>1. Live' = Live BY <1>1 DEF Live
    <2>q. QED BY <1>14, <2>1 DEF LInv, Kept
  <1>16. Untouched' BY <1>3 DEF Untouched
  <1>17. Phases'
    <2>1. copying => headSec # NextSection(tailSec)
      <3>1. copying => tailCount # 0 BY <1>13
      <3>q. QED BY <1>2, <1>8, <3>1, LogSections
    <2>q. QED BY <1>1, <1>3, <2>1 DEF LInv, Phases
  <1>18. Heading = 0 /\ Heading' = HeadLen BY <1>1, <1>5 DEF Heading
  <1>19. Done' = Done
    <2>1. Len(out') - HeadLen = Len(out) - 0 BY <1>2, <1>4, <1>5
    <2>q. QED BY <1>1, <1>18, <2>1 DEF Done
  <1>20. Emitting'
    <2>1. /\ Done \in Nat /\ Heading <= Len(out)
          /\ \A j \in 1 .. Len(out) - Heading : out[Heading + j] = <<entry.node, Done + j>>
          /\ \A j \in 1 .. Len(out) : out[j] # Garbage
          /\ SectionOffset(entry.section, entry.offset, Done) = NextPlace
          /\ Done > 0 => Stored(entry, entry.node, Done)
      BY <1>1 DEF LInv, Emitting
    <2>2. NextPlace' = NextPlace BY <1>1, <1>5 DEF NextPlace
    <2>3. Done > 0 => Stored(entry, entry.node, Done)'
      <3> SUFFICES ASSUME Done > 0 PROVE Stored(entry, entry.node, Done)' OBVIOUS
      <3>1. PICK p, node, n : p = entry /\ node = entry.node /\ n = Done OBVIOUS
      <3>2. Stored(p, node, n)' BY <1>14, <2>1, <3>1
      <3>q. QED BY <1>1, <1>19, <3>1, <3>2
    <2>4. \A j \in 1 .. Len(out') : out'[j] # Garbage
      <3> SUFFICES ASSUME NEW j \in 1 .. Len(out') PROVE out'[j] # Garbage OBVIOUS
      <3>1. CASE j <= HeadLen BY <1>4, <1>5, <3>1
      <3>2. CASE ~(j <= HeadLen)
        <4>1. j - HeadLen \in 1 .. Len(out) /\ HeadLen + (j - HeadLen) = j BY <1>2, <1>4, <1>5, <3>2
        <4>2. out'[j] = out[j - HeadLen] BY <1>4, <4>1
        <4>q. QED BY <2>1, <4>1, <4>2
      <3>q. QED BY <3>1, <3>2
    <2>5. \A j \in 1 .. Len(out') - Heading' : out'[Heading' + j] = <<entry'.node, Done' + j>>
      <3> SUFFICES ASSUME NEW j \in 1 .. Len(out)
                   PROVE  out'[HeadLen + j] = <<entry.node, Done + j>>
        BY <1>1, <1>2, <1>4, <1>5, <1>18, <1>19
      <3>1. j \in 1 .. Len(out) - 0 /\ 0 + j = j BY <1>2
      <3>2. out[j] = <<entry.node, Done + j>> BY <1>18, <2>1, <3>1
      <3>q. QED BY <1>4, <3>2
    <2>6. Heading' <= Len(out') /\ Len(out') > HeadLen BY <1>2, <1>4, <1>5, <1>18
    <2>q. QED BY <1>1, <1>19, <2>1, <2>2, <2>3, <2>4, <2>5, <2>6 DEF Emitting
  <1>21. Original'
    <2> SUFFICES ASSUME copying, unread > 0
                 PROVE  \E o \in 0 .. SectionSize - 1 :
                          /\ Stored([section |-> headSec, offset |-> o], entry.node, NodeLen(entry.node))'
                          /\ source = SectionOffset(headSec, o, NodeLen(entry.node) - unread)
      BY <1>1 DEF Original
    <2>1. PICK o \in 0 .. SectionSize - 1 :
            /\ Stored([section |-> headSec, offset |-> o], entry.node, NodeLen(entry.node))
            /\ source = SectionOffset(headSec, o, NodeLen(entry.node) - unread)
      BY DEF LInv, Original
    <2>2. PICK p, node : p = [section |-> headSec, offset |-> o] /\ node = entry.node OBVIOUS
    <2>3. Stored(p, node, NodeLen(node))' BY <1>14, <2>1, <2>2
    <2>q. QED BY <1>1, <2>1, <2>2, <2>3
  <1>q. QED BY <1>10, <1>12, <1>15, <1>16, <1>17, <1>20, <1>21 DEF LInv
\* One pass of node_write's loop: as much as the cache takes goes behind the tail.
LEMMA NodeWriteFacts ==
  ASSUME IInv, NodeWrite
  PROVE  \E k \in 1 .. Len(out) : \E cells \in Seq(Cells) :
           /\ cells = SubSeq(out, 1, k) /\ Len(cells) = k
           /\ \A j \in 1 .. k : cells[j] = out[j]
           /\ Len(buf) + k <= PageSize /\ avail + k <= SectionSize
           /\ k = Len(out) \/ k = PageSize - Len(buf) \/ k = SectionSize - avail
           /\ CacheProgram(cells, FlashAddr(tailSec, avail))
           /\ avail' = avail + k
           /\ Len(out') = Len(out) - k /\ out' \in Seq(Cells)
           /\ \A j \in 1 .. Len(out) - k : out'[j] = out[k + j]
  <1> DEFINE room == PageSize - Len(buf)
             left == SectionSize - avail
             most == IF room < left THEN room ELSE left
             k == IF Len(out) < most THEN Len(out) ELSE most
             cells == SubSeq(out, 1, k)
  <1>1. /\ CacheProgram(cells, FlashAddr(tailSec, avail)) /\ avail' = avail + k
        /\ out' = SubSeq(out, k + 1, Len(out))
    BY DEF NodeWrite, SpaceLeft
  <1>2. /\ out \in Seq(Cells) /\ out # << >> /\ avail \in Nat /\ avail < SectionSize
        /\ Len(buf) \in 0 .. PageSize - 1
    BY CacheLength, Geometry DEF IInv, TypeOK, CacheAligned, NodeWrite
  <1>3. Len(out) \in Nat \ {0} BY <1>2
  <1>4. k \in 1 .. Len(out) /\ Len(buf) + k <= PageSize /\ avail + k <= SectionSize
        /\ (k = Len(out) \/ k = PageSize - Len(buf) \/ k = SectionSize - avail)
    BY <1>2, <1>3, Geometry
  <1> HIDE DEF k
  <1>5. cells \in Seq(Cells) /\ Len(cells) = k /\ \A j \in 1 .. k : cells[j] = out[j]
    BY <1>2, <1>3, <1>4
  <1>6. /\ out' \in Seq(Cells) /\ Len(out') = Len(out) - k
        /\ \A j \in 1 .. Len(out) - k : out'[j] = out[k + j]
    BY <1>1, <1>2, <1>3, <1>4
  <1> HIDE DEF cells
  <1>q. QED BY <1>1, <1>4, <1>5, <1>6 DEF cells

\* The place after what is in the log moves on with the tail.
LEMMA NextPlaceMoves ==
  ASSUME IInv, avail < SectionSize, UNCHANGED tailSec,
         NEW k \in Nat \ {0}, avail' = avail + k, avail + k <= SectionSize, k >= Heading
  PROVE  LET v == IF avail = 0 THEN HeadLen ELSE avail
         IN  /\ NextPlace = [section |-> tailSec, offset |-> v]
             /\ v \in 0 .. SectionSize - 1 /\ v = avail + Heading /\ v + (k - Heading) = avail'
             /\ SectionOffset(tailSec, v, k - Heading) = NextPlace'
  <1> DEFINE v == IF avail = 0 THEN HeadLen ELSE avail
  <1>1. avail \in Nat /\ SectionSize \in Nat /\ HeadLen \in Nat /\ HeadLen < SectionSize
    BY Geometry DEF IInv, TypeOK
  <1>2. NextPlace = [section |-> tailSec, offset |-> v] BY <1>1 DEF NextPlace
  <1>3. v \in 0 .. SectionSize - 1 /\ v = avail + Heading /\ v + (k - Heading) = avail'
    BY <1>1 DEF Heading
  <1>4. SectionOffset(tailSec, v, k - Heading) = NextPlace'
    <2> HIDE DEF v
    <2>1. avail' # 0 /\ avail' <= SectionSize /\ avail' \in Nat BY <1>1
    <2>2. CASE avail' = SectionSize
      <3> DEFINE d == k - Heading
      <3>1. v + d = SectionSize /\ v \in Int /\ d \in Int BY <1>1, <1>3, <2>2 DEF Heading
      <3> HIDE DEF d
      <3>2. v + d >= SectionSize /\ v + d - SectionSize + HeadLen = HeadLen BY <1>1, <3>1
      <3>3. SectionOffset(tailSec, v, d) = [section |-> NextSection(tailSec), offset |-> HeadLen]
        BY <3>2 DEF SectionOffset
      <3>q. QED BY <2>2, <3>3 DEF NextPlace, d
    <2>3. CASE avail' # SectionSize
      <3>1. ~(avail' >= SectionSize) BY <1>1, <2>1, <2>3
      <3>q. QED BY <1>3, <2>1, <2>3, <3>1 DEF SectionOffset, NextPlace
    <2>q. QED BY <2>2, <2>3
  <1>q. QED BY <1>2, <1>3, <1>4
\* The tail of the log is what was written last of the entry under way.
LEMMA NodeWriteLog ==
  ASSUME IInv, LInv, NodeWrite
  PROVE  LInv'
  <1>1. /\ pc = "emit" /\ out # << >> /\ avail < SectionSize
        /\ UNCHANGED <<headSec, tailSec, tailCount, free, list, pc, entry, copying, source, unread>>
    BY DEF NodeWrite, treeVars
  <1>2. PICK k \in 1 .. Len(out), cells \in Seq(Cells) :
           /\ Len(cells) = k /\ \A j \in 1 .. k : cells[j] = out[j]
           /\ Len(buf) + k <= PageSize /\ avail + k <= SectionSize
           /\ k = Len(out) \/ k = PageSize - Len(buf) \/ k = SectionSize - avail
           /\ CacheProgram(cells, FlashAddr(tailSec, avail))
           /\ avail' = avail + k
           /\ Len(out') = Len(out) - k /\ out' \in Seq(Cells)
           /\ \A j \in 1 .. Len(out) - k : out'[j] = out[k + j]
    BY NodeWriteFacts
  <1>3. /\ TypeOK /\ tailSec \in Sections /\ Len(out) \in Nat \ {0} /\ unread \in Nat /\ free \in Int
        /\ avail \in Nat /\ SectionSize \in Nat /\ HeadLen \in Nat \ {0} /\ HeadLen < SectionSize
        /\ HeadLen <= PageSize /\ k \in Nat \ {0} /\ k <= Len(out) /\ Payload = SectionSize - HeadLen
        /\ PageSize \in Nat
    BY <1>1, <1>2, GeometryAssumption DEF IInv, TypeOK, Payload
  <1>4. /\ Done \in Nat /\ Heading <= Len(out) /\ (avail = 0 => Len(out) > HeadLen)
        /\ \A j \in 1 .. Len(out) - Heading : out[Heading + j] = <<entry.node, Done + j>>
        /\ \A j \in 1 .. Len(out) : out[j] # Garbage
        /\ SectionOffset(entry.section, entry.offset, Done) = NextPlace
        /\ Done > 0 => Stored(entry, entry.node, Done)
    BY <1>1 DEF LInv, Emitting
  <1>5. tailCount # 0 BY <1>1, <1>3 DEF LInv, Untouched
  <1>6. Heading \in Nat /\ Heading <= k /\ Heading' = 0 /\ avail' # 0 /\ HeadLen <= avail'
    <2>1. CASE avail = 0
      <3>1. Len(buf) = 0
        <4>1. Len(buf) \in Nat /\ avail - Len(buf) \in Nat BY CacheStart DEF IInv
        <4>q. QED BY <2>1, <4>1
      <3>2. Heading = HeadLen BY <2>1 DEF Heading
      <3>3. HeadLen <= k BY <1>2, <1>3, <1>4, <2>1, <3>1
      <3>q. QED BY <1>2, <1>3, <2>1, <3>2, <3>3 DEF Heading
    <2>2. CASE avail # 0
      <3>1. HeadLen <= avail BY <2>2 DEF LInv, Phases
      <3>q. QED BY <1>2, <1>3, <2>2, <3>1 DEF Heading
    <2>q. QED BY <2>1, <2>2
  <1>7. /\ \A s \in Sections, o \in 0 .. SectionSize - 1 :
              At(s, o)' = IF s = tailSec /\ avail <= o /\ o < avail'
                          THEN cells[o - avail + 1] ELSE At(s, o)
        /\ ErasedPlaces' /\ Clean' /\ avail' <= SectionSize
    <2>1. cells # << >> /\ \A j \in 1 .. Len(cells) : cells[j] # Garbage
      BY <1>2, <1>3, <1>4
    <2>2. ErasedPlaces /\ Clean BY DEF LInv
    <2>q. QED BY <1>1, <1>2, <1>5, <2>1, <2>2, CacheProgramLog
  <1>8. ASSUME NEW p, NEW node, NEW n, Stored(p, node, n)
        PROVE  Stored(p, node, n)'
    <2>1. Laid(p.section, p.offset, n)'
      <3>1. Laid(p.section, p.offset, n) /\ avail' \in Nat /\ avail <= avail' BY <1>2, <1>3, <1>8 DEF Stored
      <3>q. QED BY <1>1, <1>3, <3>1, LaidKept
    <2>2. \A s \in Sections, o \in 0 .. SectionSize - 1 : (s = tailSec => o < avail) => At(s, o)' = At(s, o)
      BY <1>3, <1>7
    <2>q. QED BY <1>1, <1>3, <1>5, <1>8, <2>1, <2>2, StoredKept
  <1>9. FreeExact'
    <2>1. EmptySections' = EmptySections BY <1>1 DEF EmptySections
    <2>2. EmptySections \in Nat BY <1>3, LogSections
    <2>3. Payload * EmptySections \in Nat BY <2>2, Geometry
    <2>4. free = SectionSize - avail + Payload * EmptySections - Len(out) BY DEF LInv, FreeExact
    <2>5. free = SectionSize - avail' + Payload * EmptySections - Len(out')
      BY <1>2, <1>3, <2>3, <2>4
    <2>q. QED BY <1>1, <2>1, <2>5 DEF FreeExact
  <1>10. Kept'
    <2>1. Live' = Live BY <1>1 DEF Live
    <2>q. QED BY <1>8, <2>1 DEF LInv, Kept
  <1>11. Untouched' BY <1>1, <1>5 DEF Untouched
  <1>12. Phases' BY <1>1, <1>6 DEF LInv, Phases
  <1>13. Original'
    <2> SUFFICES ASSUME copying, unread > 0
                 PROVE  \E o \in 0 .. SectionSize - 1 :
                          /\ Stored([section |-> headSec, offset |-> o], entry.node, NodeLen(entry.node))'
                          /\ source = SectionOffset(headSec, o, NodeLen(entry.node) - unread)
      BY <1>1 DEF Original
    <2>1. PICK o \in 0 .. SectionSize - 1 :
            /\ Stored([section |-> headSec, offset |-> o], entry.node, NodeLen(entry.node))
            /\ source = SectionOffset(headSec, o, NodeLen(entry.node) - unread)
      BY DEF LInv, Original
    <2>2. PICK p, node : p = [section |-> headSec, offset |-> o] /\ node = entry.node OBVIOUS
    <2>3. Stored(p, node, NodeLen(node))' BY <1>8, <2>1, <2>2
    <2>q. QED BY <1>1, <2>1, <2>2, <2>3
  <1>14. PICK p, node, n : p = entry /\ node = entry.node /\ n = Done OBVIOUS
  <1>15. PICK v, d, h : h = Heading /\ d = k - Heading /\ v = IF avail = 0 THEN HeadLen ELSE avail OBVIOUS
  <1>16. /\ NextPlace = [section |-> tailSec, offset |-> v]
         /\ v \in 0 .. SectionSize - 1 /\ v = avail + h /\ v + d = avail'
         /\ SectionOffset(tailSec, v, d) = NextPlace' /\ d \in Nat /\ h \in Nat /\ k = d + h
    <2>1. k >= Heading BY <1>3, <1>6
    <2>2. k - Heading \in Nat /\ k = (k - Heading) + Heading BY <1>3, <1>6
    <2>q. QED BY <1>1, <1>2, <1>3, <1>6, <1>15, <2>1, <2>2, NextPlaceMoves
  <1>17. NodeLen(node) \in Nat /\ NodeLen(node) <= Payload /\ p \in Located
    BY <1>1, <1>14, NodeFits DEF IInv, CallShape, Located
  <1>18. Done' = n + d /\ n \in Nat /\ n + d <= NodeLen(node)
    <2>1. Done' = NodeLen(node) - unread - (Len(out) - k - 0) BY <1>1, <1>2, <1>6, <1>14 DEF Done
    <2>2. n = NodeLen(node) - unread - (Len(out) - h) BY <1>14, <1>15 DEF Done
    <2>3. n \in Nat BY <1>4, <1>14
    <2>q. QED BY <1>3, <1>16, <1>17, <2>1, <2>2, <2>3
  <1>19. p.section \in Sections /\ p.offset \in 0 .. SectionSize - 1 BY <1>17 DEF Located
  <1>20. SectionOffset(p.section, p.offset, n) = [section |-> tailSec, offset |-> v]
    BY <1>4, <1>14, <1>16
  <1>21. \A i \in 0 .. d : SectionOffset(p.section, p.offset, n + i) = SectionOffset(tailSec, v, i)
    <2> SUFFICES ASSUME NEW i \in 0 .. d
                 PROVE  SectionOffset(p.section, p.offset, n + i) = SectionOffset(tailSec, v, i)
      OBVIOUS
    <2>1. i \in Nat /\ n + i <= Payload BY <1>3, <1>16, <1>17, <1>18
    <2>q. QED BY <1>18, <1>19, <1>20, <2>1, GoOn
  <1>22. Laid(p.section, p.offset, n + d)'
    <2> DEFINE s == p.section
               o == p.offset
    <2>1. Ahead' = Ahead /\ tailSec \notin Ahead BY <1>1, <1>3, <1>5, LogSections DEF Ahead
    <2>2. NextSection(s) # s BY <1>3, <1>19, LogSections
    <2>3. n + d \in 0 .. Payload BY <1>3, <1>16, <1>17, <1>18
    <2> HIDE DEF s, o
    <2>4. s \in Sections /\ o \in 0 .. SectionSize - 1 /\ SectionOffset(s, o, n) = [section |-> tailSec, offset |-> v]
      BY <1>19, <1>20 DEF s, o
    <2>5. n > 0 => s \notin Ahead BY <1>4, <1>14 DEF Stored, Laid, s
    <2>6. CASE o + n < SectionSize
      <3>1. s = tailSec /\ o + n = v BY <1>3, <1>18, <2>4, <2>6 DEF SectionOffset
      <3>2. o + (n + d) = avail' BY <1>3, <1>16, <1>18, <2>4, <3>1
      <3>3. avail' \in Nat BY <1>2, <1>3
      <3>4. Laid(s, o, n + d)' BY <1>1, <2>1, <2>2, <2>3, <2>4, <3>1, <3>2, <3>3 DEF Laid
      <3>q. QED BY <3>4 DEF s, o
    <2>7. CASE ~(o + n < SectionSize)
      <3>1. NextSection(s) = tailSec /\ o + n - SectionSize + HeadLen = v
        BY <1>3, <1>18, <2>4, <2>7 DEF SectionOffset
      <3>2. o + (n + d) - SectionSize + HeadLen = avail' BY <1>3, <1>16, <1>18, <2>4, <3>1
      <3>3. avail' \in Nat /\ s # tailSec BY <1>2, <1>3, <2>2, <3>1
      <3>4. s \notin Ahead BY <1>18, <2>4, <2>5, <2>7, <1>3
      <3>5. Laid(s, o, n + d)' BY <1>1, <2>1, <2>3, <2>4, <3>2, <3>3, <3>4 DEF Laid
      <3>q. QED BY <3>5 DEF s, o
    <2>q. QED BY <2>6, <2>7
  <1>23. Holds(p.section, p.offset, node, n + d)'
    <2> SUFFICES ASSUME NEW i \in 0 .. (n + d) - 1
                 PROVE  AtPlace(SectionOffset(p.section, p.offset, i))' = <<node, i + 1>>
      BY DEF Holds
    <2>1. CASE i < n
      <3>1. Stored(p, node, n) BY <1>4, <1>14, <1>18, <2>1
      <3>2. Holds(p.section, p.offset, node, n)' BY <1>8, <3>1 DEF Stored
      <3>3. i \in 0 .. n - 1 BY <1>18, <2>1
      <3>q. QED BY <3>2, <3>3 DEF Holds
    <2>2. CASE ~(i < n)
      <3>1. PICK j : j = i - n OBVIOUS
      <3>2. j \in Nat /\ j < d /\ i = n + j /\ j \in 0 .. d BY <1>16, <1>18, <2>2, <3>1
      <3>3. v + j < SectionSize /\ v + j \in 0 .. SectionSize - 1 /\ avail <= v + j /\ v + j < avail'
        <4>1. /\ avail \in Nat /\ avail' \in Nat /\ SectionSize \in Nat /\ avail' <= SectionSize
              /\ v \in Nat /\ h \in Nat /\ d \in Nat /\ v = avail + h /\ v + d = avail'
          BY <1>2, <1>3, <1>16
        <4>q. QED BY <3>2, <4>1
      <3>4. SectionOffset(p.section, p.offset, i) = [section |-> tailSec, offset |-> v + j]
        <4>1. SectionOffset(tailSec, v, j) = [section |-> tailSec, offset |-> v + j]
          BY <1>3, <1>16, <3>2, <3>3 DEF SectionOffset
        <4>q. QED BY <1>21, <3>2, <4>1
      <3>5. PICK t, u, w : t = tailSec /\ u = v + j /\ w = [section |-> t, offset |-> u] OBVIOUS
      <3>6. t \in Sections /\ u \in 0 .. SectionSize - 1 /\ t = tailSec /\ avail <= u /\ u < avail'
        BY <1>3, <3>3, <3>5
      <3>7. At(t, u)' = cells[u - avail + 1] BY <1>7, <3>6
      <3>8. u - avail + 1 = h + (j + 1) /\ h + (j + 1) \in 1 .. k /\ j + 1 \in 1 .. Len(out) - h
            /\ n + (j + 1) = i + 1
        BY <1>3, <1>16, <1>18, <3>2, <3>5
      <3>9. cells[h + (j + 1)] = out[h + (j + 1)] BY <1>2, <3>8
      <3>10. out[h + (j + 1)] = <<node, n + (j + 1)>> BY <1>4, <1>14, <1>15, <3>8
      <3>11. At(t, u)' = <<node, i + 1>> BY <3>7, <3>8, <3>9, <3>10
      <3>12. AtPlace(w)' = <<node, i + 1>> BY <3>5, <3>11 DEF AtPlace
      <3>q. QED BY <3>4, <3>5, <3>12
    <2>q. QED BY <2>1, <2>2
  <1>24. Emitting'
    <2>1. Done' \in Nat /\ Heading' <= Len(out') BY <1>2, <1>3, <1>6, <1>16, <1>18
    <2>2. ASSUME NEW j \in 1 .. Len(out) - k
          PROVE  out'[j] = <<node, n + d + j>> /\ out'[j] # Garbage
      <3>1. d + j \in 1 .. Len(out) - h /\ h + (d + j) = k + j /\ n + (d + j) = n + d + j
            /\ k + j \in 1 .. Len(out)
        BY <1>3, <1>16, <1>18
      <3>2. out[h + (d + j)] = <<node, n + (d + j)>> BY <1>4, <1>14, <1>15, <3>1
      <3>3. out'[j] = out[k + j] BY <1>2
      <3>q. QED BY <1>4, <3>1, <3>2, <3>3
    <2>3. \A j \in 1 .. Len(out') - Heading' : out'[Heading' + j] = <<entry'.node, Done' + j>>
      <3> SUFFICES ASSUME NEW j \in 1 .. Len(out) - k
                   PROVE  out'[j] = <<node, n + d + j>>
        BY <1>1, <1>2, <1>3, <1>6, <1>14, <1>18
      <3>q. QED BY <2>2
    <2>4. \A j \in 1 .. Len(out') : out'[j] # Garbage BY <1>2, <2>2
    <2>5. SectionOffset(entry'.section, entry'.offset, Done') = NextPlace'
      BY <1>1, <1>14, <1>16, <1>18, <1>21
    <2>6. Stored(entry, entry.node, Done)'
      <3>1. PICK m : m = n + d OBVIOUS
      <3>2. Stored(p, node, m)' BY <1>22, <1>23, <3>1 DEF Stored
      <3>q. QED BY <1>1, <1>14, <1>18, <3>1, <3>2
    <2>q. QED BY <1>6, <2>1, <2>3, <2>4, <2>5, <2>6 DEF Emitting
  <1>q. QED BY <1>7, <1>9, <1>10, <1>11, <1>12, <1>13, <1>24 DEF LInv
-----------------------------------------------------------------------------
(* The results. *)

\* An erased volume.
LEMMA InitLog == Init => LInv
  <1> SUFFICES ASSUME Init PROVE LInv OBVIOUS
  <1>1. /\ flash = [a \in Addresses |-> Erased] /\ buf = << >> /\ headSec = 0 /\ tailSec = PrevSection(0)
        /\ avail = SectionSize /\ tailCount = 0 /\ free = SectionNum * Payload
        /\ list = [s \in Sections |-> << >>] /\ pc = "idle" /\ out = << >>
        /\ copying = FALSE /\ unread = 0
    BY DEF Init
  <1>2. SectionSize \in Nat \ {0} /\ HeadLen \in Nat /\ HeadLen < SectionSize /\ Payload \in Nat /\ SectionNum \in Nat
    BY Geometry
  <1>3. Live = {} BY <1>1 DEF Live
  <1>4. FreeExact
    <2>1. EmptySections = SectionNum /\ Len(out) = 0 BY <1>1 DEF EmptySections
    <2>2. SectionNum * Payload = SectionSize - SectionSize + Payload * SectionNum - 0 BY <1>2
    <2>q. QED BY <1>1, <2>1, <2>2 DEF FreeExact
  <1>5. ErasedPlaces
    <2>1. \A s \in Sections, o \in 0 .. SectionSize - 1 : flash[FlashAddr(s, o)] = Erased
      BY <1>1, AddressOf
    <2>2. \A o \in avail - Len(buf) .. SectionSize - 1 : FALSE
      <3>1. Len(buf) = 0 BY <1>1
      <3>q. QED BY <1>1, <1>2, <3>1
    <2>3. Erased # Garbage BY DEF Erased, Garbage
    <2>q. QED BY <2>1, <2>2, <2>3 DEF ErasedPlaces, Ahead
  <1>6. Clean
    <2>1. Len(buf) = 0 BY <1>1
    <2>q. QED BY <2>1 DEF Clean
  <1>7. Untouched BY <1>1, <1>3 DEF Untouched
  <1>8. Phases BY <1>1, <1>2 DEF Phases
  <1>9. Kept /\ Emitting /\ Original BY <1>1, <1>3 DEF Kept, Emitting, Original
  <1>q. QED BY <1>4, <1>5, <1>6, <1>7, <1>8, <1>9 DEF LInv

\* A step that changes nothing.
LEMMA StutterLog ==
  ASSUME LInv, UNCHANGED vars
  PROVE  LInv'
  <1>1. /\ UNCHANGED <<logVars, headSec>>
        /\ UNCHANGED <<avail, tailSec, tailCount, headSec, free, list, pc, out, entry, copying, source, unread>>
    BY DEF vars, logVars
  <1>2. Live' = Live BY <1>1 DEF Live
  <1>3. FreeExact' BY <1>1, SameLog DEF LInv, FreeExact
  <1>4. ErasedPlaces' /\ Clean' BY <1>1, SameLog DEF LInv
  <1>5. Untouched' /\ Phases' BY <1>1, <1>2 DEF LInv, Untouched, Phases
  <1>6. Kept' BY <1>1, <1>2, SameLog DEF LInv, Kept
  <1>7. Emitting'
    <2>1. Heading' = Heading /\ NextPlace' = NextPlace BY <1>1 DEF Heading, NextPlace
    <2>2. Done' = Done BY <1>1, <2>1 DEF Done
    <2>3. Stored(entry, entry.node, Done) => Stored(entry, entry.node, Done)'
      <3>1. PICK p, node, n : p = entry /\ node = entry.node /\ n = Done OBVIOUS
      <3>2. Stored(p, node, n) => Stored(p, node, n)' BY <1>1, SameLog
      <3>q. QED BY <1>1, <2>2, <3>1, <3>2
    <2>q. QED BY <1>1, <2>1, <2>2, <2>3 DEF LInv, Emitting
  <1>8. Original'
    <2> SUFFICES ASSUME copying, unread > 0
                 PROVE  \E o \in 0 .. SectionSize - 1 :
                          /\ Stored([section |-> headSec, offset |-> o], entry.node, NodeLen(entry.node))'
                          /\ source = SectionOffset(headSec, o, NodeLen(entry.node) - unread)
      BY <1>1 DEF Original
    <2>1. PICK o \in 0 .. SectionSize - 1 :
            /\ Stored([section |-> headSec, offset |-> o], entry.node, NodeLen(entry.node))
            /\ source = SectionOffset(headSec, o, NodeLen(entry.node) - unread)
      BY DEF LInv, Original
    <2>2. PICK p, node : p = [section |-> headSec, offset |-> o] /\ node = entry.node OBVIOUS
    <2>3. Stored(p, node, NodeLen(node))' BY <1>1, <2>1, <2>2, SameLog
    <2>q. QED BY <1>1, <2>1, <2>2, <2>3
  <1>q. QED BY <1>3, <1>4, <1>5, <1>6, <1>7, <1>8 DEF LInv

\* Every step preserves the invariant of the log, as long as the collector has kept
\* room and the sections can be counted.
LEMMA NextLog == Roomy /\ RoomLeft /\ NoWrap /\ IInv /\ TInv /\ LInv /\ [Next]_vars => LInv'
  <1> SUFFICES ASSUME Roomy, RoomLeft, NoWrap, IInv, TInv, LInv, [Next]_vars PROVE LInv' OBVIOUS
  <1>1. CASE UNCHANGED vars BY <1>1, StutterLog
  <1>2. CASE Call
    <2>1. CASE Sync BY <2>1, SyncLog
    <2>2. CASE ~Sync BY <1>2, <2>2, CallsLog
    <2>q. QED BY <2>1, <2>2
  <1>3. CASE Work
    BY <1>3, CollectStartLog, NodeCopyLog, DataCopyLog, NodeCopiedLog, CollectSyncLog, CollectEraseLog,
       EntryStartLog, SectionHeadWriteLog, NodeWriteLog, EntryDoneLog DEF Work
  <1>q. QED BY <1>1, <1>2, <1>3 DEF Next

\* The invariant holds of every behaviour in which the collector keeps room.
THEOREM LogInvariance ==
  ASSUME Roomy
  PROVE  Spec /\ []RoomLeft /\ []NoWrap => [](IInv /\ TInv /\ LInv)
  <1>1. Init => IInv /\ TInv /\ LInv BY InitInv, InitTree, InitLog
  <1>2. IInv /\ TInv /\ LInv /\ RoomLeft /\ NoWrap /\ [Next]_vars => (IInv /\ TInv /\ LInv)'
    BY NextInv, NextTree, NextLog
  <1>q. QED BY <1>1, <1>2, PTL DEF Spec

\* free_bytes, kept by hand in node_write, data_write_through and
\* section_garbage_collection, is at every step what a count of the volume gives.
THEOREM FreeIsExact ==
  ASSUME Roomy
  PROVE  Spec /\ []RoomLeft /\ []NoWrap => []FreeExact
  <1>1. LInv => FreeExact BY DEF LInv
  <1>q. QED BY <1>1, LogInvariance, PTL

\* nvm_program meets erased flash only: whatever the log is going to be written to
\* is erased, and no unit of the volume is programmed twice.
THEOREM LogMeetsErased ==
  ASSUME Roomy
  PROVE  Spec /\ []RoomLeft /\ []NoWrap => []ErasedAhead
  <1>1. IInv /\ LInv => ErasedAhead BY ErasedByPlace DEF IInv, LInv
  <1>q. QED BY <1>1, LogInvariance, PTL

\* What a reader finds, a piece of a node and the next piece, put together.
LEMMA Pieces ==
  ASSUME NEW node, NEW a \in Nat, NEW b \in Nat, NEW c \in Nat
  PROVE  [i \in 1 .. b |-> <<node, a + i>>] \o [i \in 1 .. c |-> <<node, a + b + i>>]
           = [i \in 1 .. b + c |-> <<node, a + i>>]
  <1> DEFINE S == {node} \X Int
             f == [i \in 1 .. b + c |-> <<node, a + i>>]
  <1>1. f \in [1 .. b + c -> S] OBVIOUS
  <1>2. [i \in 1 .. b |-> f[i]] = [i \in 1 .. b |-> <<node, a + i>>] OBVIOUS
  <1>3. [i \in 1 .. b + c - b |-> f[b + i]] = [i \in 1 .. c |-> <<node, a + b + i>>]
    <2>1. b + c - b = c OBVIOUS
    <2>2. \A i \in 1 .. c : f[b + i] = <<node, a + b + i>>
      <3> SUFFICES ASSUME NEW i \in 1 .. c PROVE f[b + i] = <<node, a + b + i>> OBVIOUS
      <3>1. b + i \in 1 .. b + c /\ a + (b + i) = a + b + i OBVIOUS
      <3>q. QED BY <3>1
    <2> HIDE DEF f
    <2>q. QED BY <2>1, <2>2
  <1>4. b \in 0 .. b + c /\ b + c \in Nat OBVIOUS
  <1> HIDE DEF f, S
  <1>5. [i \in 1 .. b |-> f[i]] \o [i \in 1 .. b + c - b |-> f[b + i]] = f BY <1>1, <1>4, Joined
  <1>q. QED BY <1>2, <1>3, <1>5 DEF f

\* Part of the image of a node.
LEMMA ImagePart ==
  ASSUME NEW node \in Nodes, NEW a \in Nat, NEW b \in Nat \ {0}, a + b <= NodeLen(node)
  PROVE  SubSeq(Image(node), a + 1, a + b) = [i \in 1 .. b |-> <<node, a + i>>]
  <1> DEFINE n == NodeLen(node)
             S == {node} \X Int
             f == Image(node)
             g == [i \in 1 .. b |-> <<node, a + i>>]
  <1>1. n \in Nat BY NodeFits
  <1> HIDE DEF n
  <1>2. f = [i \in 1 .. n |-> <<node, i>>] BY DEF Image, n
  <1>3. f \in Seq(S) /\ Len(f) = n /\ \A i \in 1 .. n : f[i] = <<node, i>> BY <1>1, <1>2
  <1>4. g \in Seq(S) /\ Len(g) = b /\ \A i \in 1 .. b : g[i] = <<node, a + i>> OBVIOUS
  <1> HIDE DEF f, g, S
  <1>5. SubSeq(f, a + 1, a + b) = g
    <2> DEFINE h == SubSeq(f, a + 1, a + b)
    <2>1. a + 1 \in 1 .. n + 1 /\ a + b \in a .. n /\ a + b - (a + 1) + 1 = b BY <1>1 DEF n
    <2>2. h \in Seq(S) /\ Len(h) = b /\ \A i \in 1 .. b : h[i] = f[a + i]
      <3>1. h = [i \in 1 .. b |-> f[a + i]]
        <4>1. h = [i \in 1 .. a + b - (a + 1) + 1 |-> f[i + (a + 1) - 1]] BY <1>3, <2>1
        <4>2. \A i \in 1 .. b : i + (a + 1) - 1 = a + i OBVIOUS
        <4>q. QED BY <2>1, <4>1, <4>2
      <3>2. \A i \in 1 .. b : a + i \in 1 .. n BY <1>1, <2>1
      <3>3. \A i \in 1 .. b : f[a + i] \in S BY <1>3, <3>2
      <3> HIDE DEF h
      <3>q. QED BY <3>1, <3>3
    <2>3. \A i \in 1 .. b : a + i \in 1 .. n BY <1>1, <2>1
    <2>4. \A i \in 1 .. b : h[i] = g[i] BY <1>3, <1>4, <2>2, <2>3
    <2> HIDE DEF h
    <2>5. h = g BY <1>4, <2>2, <2>4, SeqEqual
    <2>q. QED BY <2>5 DEF h
  <1>q. QED BY <1>5 DEF f, g

\* What is in the log can be read: nvm_read_node finds the metadata of a node, and
\* do_tinyfs_read, which goes on behind it, the data and their CRC.
LEMMA StoredReadable ==
  ASSUME TypeOK, CacheAligned, PageAddress, tailCount # 0, NEW e \in Located, Stored(e, e.node, NodeLen(e.node))
  PROVE  Readable(e)
  <1> DEFINE s == e.section
             o == e.offset
             node == e.node
             n == NodeLen(node)
             m == MetaLen(node)
  <1>1. s \in Sections /\ o \in 0 .. SectionSize - 1 /\ node \in Nodes BY DEF Located
  <1>2. Laid(s, o, n) /\ Holds(s, o, node, n) BY DEF Stored
  <1>3. n \in Nat \ {0} /\ n <= Payload /\ Payload \in Nat BY <1>1, NodeFits, Geometry
  <1>4. m \in Nat \ {0} /\ m <= n
    <2>1. CASE IsRecord(node)
      BY <1>1, <1>3, <2>1, NodeLengths, LengthAssumption DEF MetaLen, IsRecord
    <2>2. CASE ~IsRecord(node)
      <3>1. n = m BY <2>2 DEF NodeLen
      <3>q. QED BY <1>3, <3>1
    <2>q. QED BY <2>1, <2>2
  <1>5. SectionOffset(s, o, 0) = [section |-> s, offset |-> o]
    <2>1. 0 + 0 <= Payload BY <1>3
    <2>q. QED BY <1>1, <2>1, GoOn
  <1> HIDE DEF s, o, node, n, m
  <1>6. \A a \in Nat, b \in Nat \ {0} : a + b <= n =>
          ReadNode(SectionOffset(s, o, a).section, SectionOffset(s, o, a).offset, b)
            = [i \in 1 .. b |-> <<node, a + i>>]
    <2> SUFFICES ASSUME NEW a \in Nat, NEW b \in Nat \ {0}, a + b <= n
                 PROVE  ReadNode(SectionOffset(s, o, a).section, SectionOffset(s, o, a).offset, b)
                          = [i \in 1 .. b |-> <<node, a + i>>]
      OBVIOUS
    <2>q. QED BY <1>2, ReadHeld
  <1>7. ReadNode(s, o, m) = SubSeq(Image(node), 1, m)
    <2>1. 0 \in Nat /\ 0 + m <= n /\ 0 + 1 = 1 /\ 0 + m = m BY <1>3, <1>4
    <2>2. ReadNode(SectionOffset(s, o, 0).section, SectionOffset(s, o, 0).offset, m)
            = [i \in 1 .. m |-> <<node, 0 + i>>]
      BY <1>4, <1>6, <2>1
    <2>3. SubSeq(Image(node), 0 + 1, 0 + m) = [i \in 1 .. m |-> <<node, 0 + i>>]
      BY <1>1, <1>4, <2>1, ImagePart DEF n
    <2>4. SectionOffset(s, o, 0).section = s /\ SectionOffset(s, o, 0).offset = o BY <1>5
    <2>5. SubSeq(Image(node), 0 + 1, 0 + m) = SubSeq(Image(node), 1, m) BY <2>1
    <2>q. QED BY <2>2, <2>3, <2>4, <2>5
  <1>8. ASSUME IsRecord(node)
        PROVE  LET data == SectionOffset(s, o, AddLen)
                   crc == SectionOffset(data.section, data.offset, DataLen[node.val])
               IN  ReadNode(data.section, data.offset, DataLen[node.val])
                   \o ReadNode(crc.section, crc.offset, CrcLen) = SubSeq(Image(node), AddLen + 1, n)
    <2> DEFINE d == DataLen[node.val]
               data == SectionOffset(s, o, AddLen)
               crc == SectionOffset(data.section, data.offset, d)
    <2>1. AddLen \in Nat \ {0} /\ CrcLen \in Nat \ {0} /\ d \in Nat \ {0} /\ n = AddLen + d + CrcLen
      <3>1. node \in RecordAdds
        BY <1>1, <1>8 DEF Nodes, RecordAdds, DirAdds, RecordRemoves, DirRemoves, IsRecord
      <3>2. node.val \in Values BY <3>1 DEF RecordAdds
      <3>q. QED BY <1>8, <3>2, LengthAssumption DEF n, NodeLen
    <2>2. crc = SectionOffset(s, o, AddLen + d)
      <3>1. AddLen + d <= Payload BY <1>3, <2>1
      <3> HIDE DEF d
      <3>q. QED BY <1>1, <2>1, <3>1, GoOn
    <2> HIDE DEF d, crc
    <2>3. ReadNode(data.section, data.offset, d) = [i \in 1 .. d |-> <<node, AddLen + i>>]
      <3>1. AddLen \in Nat /\ AddLen + d <= n BY <2>1
      <3>q. QED BY <1>6, <2>1, <3>1
    <2>4. ReadNode(crc.section, crc.offset, CrcLen) = [i \in 1 .. CrcLen |-> <<node, AddLen + d + i>>]
      <3> DEFINE a == AddLen + d
      <3>1. a \in Nat /\ a + CrcLen <= n /\ crc = SectionOffset(s, o, a) BY <2>1, <2>2
      <3> HIDE DEF a
      <3>2. ReadNode(crc.section, crc.offset, CrcLen) = [i \in 1 .. CrcLen |-> <<node, a + i>>]
        BY <1>6, <2>1, <3>1
      <3>q. QED BY <3>2 DEF a
    <2>5. SubSeq(Image(node), AddLen + 1, n) = [i \in 1 .. d + CrcLen |-> <<node, AddLen + i>>]
      <3>1. AddLen \in Nat /\ d + CrcLen \in Nat \ {0} /\ AddLen + (d + CrcLen) = n BY <2>1
      <3>2. AddLen + (d + CrcLen) <= NodeLen(node) BY <1>3, <3>1 DEF n
      <3>3. SubSeq(Image(node), AddLen + 1, AddLen + (d + CrcLen))
              = [i \in 1 .. d + CrcLen |-> <<node, AddLen + i>>]
        BY <1>1, <3>1, <3>2, ImagePart
      <3>q. QED BY <3>1, <3>3
    <2>6. [i \in 1 .. d |-> <<node, AddLen + i>>] \o [i \in 1 .. CrcLen |-> <<node, AddLen + d + i>>]
            = [i \in 1 .. d + CrcLen |-> <<node, AddLen + i>>]
      BY <2>1, Pieces
    <2>q. QED BY <2>3, <2>4, <2>5, <2>6 DEF d, crc
  <1>q. QED BY <1>7, <1>8 DEF Readable, s, o, node, n, m

\* Every live node can be read back as it was written, wherever the collector has
\* moved it, in flash or in the cache, at every step of every call.
THEOREM LiveIsReadable ==
  ASSUME Roomy
  PROVE  Spec /\ []RoomLeft /\ []NoWrap => []LiveReadable
  <1>1. IInv /\ LInv => LiveReadable
    <2> SUFFICES ASSUME IInv, LInv, NEW e \in Live PROVE Readable(e) BY DEF LiveReadable
    <2>1. tailCount # 0 BY DEF LInv, Untouched
    <2>2. Stored(e, e.node, NodeLen(e.node)) BY DEF LInv, Kept
    <2>3. e \in Located BY LiveType DEF IInv
    <2>q. QED BY <2>1, <2>2, <2>3, StoredReadable DEF IInv
  <1>q. QED BY <1>1, LogInvariance, PTL

-----------------------------------------------------------------------------
(* Room for a collection. *)

\* What a section must have room for beside two pages: all the nodes there are and
\* one more, none longer than M.  The buffering sections leave two others.
Ample(M) ==
  /\ LongestIs(M) /\ (NodeMax + 1) * M + 2 * PageSize <= Payload
  /\ BufferingNum \in 1 .. SectionNum - 2

\* What garbage_collect_try keeps free beside the entry.
Buffering == BufferingNum * Payload
Reserve == size[headSec] + Buffering

\* What the next tinyfs_write_through may still cost is counted for already.
Lost == IF PadLen = 0 THEN PageSize ELSE 0

\* How much is free in each phase of a call.  A collection costs what the head section
\* holds and at most two pages, and is done once for an entry.
Room ==
  /\ pc \in {"idle", "gc"} => free + Lost > Reserve
  /\ pc = "gc" /\ rounds > 0 => free > NodeLen(todo[1]) + Reserve
  /\ pc = "copy" => free + PageSize > Reserve
  /\ pc = "erase" => free + 2 * PageSize > Buffering /\ PadLen = 0
  /\ pc = "emit" /\ copying => free + PageSize > Reserve + unread /\ entry.section # headSec
  /\ pc = "emit" /\ ~copying =>
       free > Reserve + (IF IsAdd(entry.node) /\ entry.section = headSec THEN NodeLen(entry.node) ELSE 0)
  /\ pc \in {"copy", "erase"} \/ copying => rounds = 0

\* The constants in one place.
LEMMA Capacity ==
  ASSUME NEW M, Ample(M)
  PROVE  /\ M \in Nat /\ PageSize \in Nat \ {0} /\ Payload \in Nat \ {0}
         /\ NodeMax * M \in Nat /\ NodeMax * M + M + 2 * PageSize <= Payload
         /\ Buffering \in Nat /\ Payload <= Buffering
         /\ Payload * SectionNum \in Nat /\ Payload * (SectionNum - 1) \in Nat
         /\ Buffering + Payload <= Payload * (SectionNum - 1)
         /\ Payload * SectionNum = Payload * (SectionNum - 1) + Payload
         /\ \A n \in Nodes : NodeLen(n) \in Nat \ {0} /\ NodeLen(n) <= M
  <1>1. M \in Nat /\ \A n \in Nodes : NodeLen(n) <= M BY DEF Ample, LongestIs
  <1>2. PageSize \in Nat \ {0} /\ Payload \in Nat \ {0} /\ SectionNum \in Nat /\ SectionNum >= 3
        /\ NodeMax \in Nat /\ BufferingNum \in Nat /\ 1 \in Nat
        /\ 1 <= BufferingNum /\ BufferingNum + 1 <= SectionNum - 1 /\ SectionNum - 1 \in Nat
        /\ BufferingNum + 1 \in Nat
    BY Geometry, GeometryAssumption, BoundAssumption DEF Ample
  <1>3. (NodeMax + 1) * M = NodeMax * M + M /\ NodeMax * M \in Nat
    <2>1. (NodeMax + 1) * M = NodeMax * M + 1 * M BY <1>1, <1>2, Distribute
    <2>2. 1 * M = M BY <1>1
    <2>q. QED BY <1>1, <1>2, <2>1, <2>2
  <1>4. (NodeMax + 1) * M + 2 * PageSize <= Payload BY DEF Ample
  <1>5. NodeMax * M + M + 2 * PageSize <= Payload BY <1>3, <1>4
  <1>6. 1 * Payload <= BufferingNum * Payload /\ BufferingNum * Payload \in Nat /\ 1 * Payload = Payload
    <2>1. 1 * Payload <= BufferingNum * Payload /\ BufferingNum * Payload \in Nat BY <1>2, Scale
    <2>q. QED BY <1>2, <2>1
  <1>7. (BufferingNum + 1) * Payload <= (SectionNum - 1) * Payload /\ (SectionNum - 1) * Payload \in Nat
    BY <1>2, Scale
  <1>8. (BufferingNum + 1) * Payload = BufferingNum * Payload + 1 * Payload BY <1>2, Distribute
  <1>9. ((SectionNum - 1) + 1) * Payload = (SectionNum - 1) * Payload + 1 * Payload
    BY <1>2, Distribute
  <1>10. Payload * (SectionNum - 1) = (SectionNum - 1) * Payload BY <1>2
  <1>11. Payload * SectionNum = ((SectionNum - 1) + 1) * Payload BY <1>2
  <1>12. \A n \in Nodes : NodeLen(n) \in Nat \ {0} /\ NodeLen(n) <= M BY <1>1, NodeLengths
  <1>13. Payload <= Buffering /\ Buffering \in Nat BY <1>6 DEF Buffering
  <1>14. Buffering + Payload <= Payload * (SectionNum - 1) BY <1>6, <1>7, <1>8, <1>10 DEF Buffering
  <1>15. Payload * SectionNum = Payload * (SectionNum - 1) + Payload BY <1>6, <1>9, <1>10, <1>11
  <1>16. Payload * (SectionNum - 1) \in Nat BY <1>7, <1>10
  <1>17. Payload * SectionNum \in Nat BY <1>2, <1>15, <1>16
  <1>q. QED BY <1>1, <1>2, <1>3, <1>5, <1>12, <1>13, <1>14, <1>15, <1>16, <1>17

\* No node is too long for the log to be able to hold it.
LEMMA AmpleRoomy == ASSUME NEW M, Ample(M) PROVE Roomy
  <1>1. /\ M \in Nat /\ PageSize \in Nat \ {0} /\ Payload \in Nat \ {0}
        /\ NodeMax * M \in Nat /\ NodeMax * M + M + 2 * PageSize <= Payload
        /\ Buffering \in Nat /\ Buffering + Payload <= Payload * (SectionNum - 1)
        /\ Payload * (SectionNum - 1) \in Nat
        /\ Payload * SectionNum = Payload * (SectionNum - 1) + Payload
        /\ \A n \in Nodes : NodeLen(n) \in Nat \ {0} /\ NodeLen(n) <= M
    BY Capacity
  <1>2. \A n \in Nodes : NodeLen(n) + Buffering < Payload * SectionNum BY <1>1
  <1>3. Payload * SectionNum = SectionNum * Payload BY Geometry
  <1>q. QED BY <1>2, <1>3 DEF Roomy, Buffering

\* What any section's list adds up to leaves room in a section for one node more, for
\* two when one of the nodes of the pool is the entry's.
LEMMA Sizes ==
  ASSUME NEW M, Ample(M), IInv, TInv, Pool, NEW s \in Sections
  PROVE  /\ size[s] \in Nat /\ size[s] + M + 2 * PageSize <= Payload
         /\ todo # << >> /\ IsAdd(todo[1]) => size[s] + M + M + 2 * PageSize <= Payload
  <1>1. M \in Nat /\ PageSize \in Nat /\ Payload \in Nat /\ NodeMax * M \in Nat
        /\ NodeMax * M + M + 2 * PageSize <= Payload
    BY Capacity
  <1> DEFINE c == Cardinality(Live)
  <1>2. IsFiniteSet(Live) /\ c \in Nat /\ NodeMax \in Nat /\ c + Pending <= NodeMax
    BY FS_CardinalityType, BoundAssumption DEF Pool
  <1>3. size[s] \in Nat /\ size[s] <= c * M
    BY <1>2, SizeBound DEF IInv, TInv, Ample
  <1>4. Pending \in Nat /\ (todo # << >> /\ IsAdd(todo[1]) => Pending >= 1) BY DEF Pending
  <1> HIDE DEF c
  <1>5. c <= NodeMax /\ (todo # << >> /\ IsAdd(todo[1]) => c + 1 <= NodeMax) BY <1>2, <1>4
  <1>6. c * M <= NodeMax * M /\ c * M \in Nat BY <1>1, <1>2, <1>5, Scale
  <1>7. size[s] + M + 2 * PageSize <= Payload BY <1>1, <1>3, <1>6
  <1>8. ASSUME todo # << >>, IsAdd(todo[1])
        PROVE  size[s] + M + M + 2 * PageSize <= Payload
    <2>1. c + 1 <= NodeMax /\ c + 1 \in Nat /\ 1 \in Nat BY <1>2, <1>5, <1>8
    <2>2. (c + 1) * M <= NodeMax * M BY <1>1, <1>2, <2>1, Scale
    <2>3. (c + 1) * M = c * M + 1 * M BY <1>1, <1>2, <2>1, Distribute
    <2>4. 1 * M = M BY <1>1
    <2>5. c * M + M <= NodeMax * M BY <2>2, <2>3, <2>4
    <2>q. QED BY <1>1, <1>3, <1>6, <2>5
  <1>q. QED BY <1>3, <1>7, <1>8

\* What a page costs to close.
LEMMA PadIs ==
  ASSUME TypeOK
  PROVE  PadLen \in Nat /\ PadLen < PageSize /\ Lost \in {0, PageSize}
         /\ (PadLen = 0 <=> avail % PageSize = 0)
  <1>1. avail \in Nat /\ PageSize \in Nat \ {0} BY Geometry DEF TypeOK
  <1>2. avail % PageSize \in 0 .. PageSize - 1 BY <1>1, ModDef
  <1> DEFINE m == avail % PageSize
  <1>3. PadLen = (IF m = 0 THEN 0 ELSE PageSize - m) BY DEF PadLen
  <1>4. m \in 0 .. PageSize - 1 BY <1>2
  <1> HIDE DEF m
  <1>5. PadLen \in Nat /\ PadLen < PageSize /\ (PadLen = 0 <=> m = 0) BY <1>1, <1>3, <1>4
  <1>6. Lost \in {0, PageSize} BY DEF Lost
  <1>q. QED BY <1>5, <1>6 DEF m

\* The numbers of a state, and those of the constants that the steps need.
LEMMA Amounts ==
  ASSUME NEW M, Ample(M), IInv, TInv, Pool
  PROVE  /\ free \in Int /\ unread \in Nat /\ rounds \in Nat /\ size[headSec] \in Nat
         /\ headSec \in Sections /\ Buffering \in Nat /\ Payload \in Nat /\ PageSize \in Nat \ {0}
         /\ 2 * PageSize <= Payload /\ Payload <= Buffering
         /\ Reserve = size[headSec] + Buffering
         /\ pc # "idle" => todo[1] \in Nodes /\ NodeLen(todo[1]) \in Nat \ {0} /\ NodeLen(todo[1]) <= M
  <1>1. free \in Int /\ unread \in Nat /\ rounds \in Nat /\ headSec \in Sections BY DEF IInv, TypeOK
  <1>2. /\ M \in Nat /\ PageSize \in Nat \ {0} /\ Payload \in Nat \ {0}
        /\ NodeMax * M \in Nat /\ NodeMax * M + M + 2 * PageSize <= Payload
        /\ Buffering \in Nat /\ Payload <= Buffering
        /\ \A n \in Nodes : NodeLen(n) \in Nat \ {0} /\ NodeLen(n) <= M
    BY Capacity
  <1>3. size[headSec] \in Nat BY <1>1, Sizes
  <1>4. pc # "idle" => todo[1] \in Nodes
    <2> SUFFICES ASSUME pc # "idle" PROVE todo[1] \in Nodes OBVIOUS
    <2>1. todo \in Seq(Nodes) /\ todo # << >> BY DEF IInv, TypeOK, CallShape
    <2>q. QED BY <2>1
  <1>q. QED BY <1>1, <1>2, <1>3, <1>4 DEF Reserve

\* Wherever a call is, a collection finds room.
LEMMA RoomEnough == ASSUME NEW M, Ample(M), IInv, TInv, Pool, Room PROVE RoomLeft /\ RoundsAsserted
  <1>1. /\ free \in Int /\ unread \in Nat /\ rounds \in Nat /\ size[headSec] \in Nat
        /\ Buffering \in Nat /\ Payload \in Nat /\ PageSize \in Nat \ {0}
        /\ 2 * PageSize <= Payload /\ Payload <= Buffering
        /\ Reserve = size[headSec] + Buffering
    BY Amounts
  <1>2. Lost \in {0, PageSize} BY PadIs DEF IInv
  <1>3. free >= 0
    <2>1. CASE pc \in {"idle", "gc"} BY <1>1, <1>2, <2>1 DEF Room
    <2>2. CASE pc = "copy" BY <1>1, <2>2 DEF Room
    <2>3. CASE pc = "erase" BY <1>1, <2>3 DEF Room
    <2>4. CASE pc = "emit" /\ copying BY <1>1, <2>4 DEF Room
    <2>5. CASE pc = "emit" /\ ~copying
      <3>1. entry.node \in Nodes BY <2>5 DEF IInv, CallShape, Located
      <3>2. NodeLen(entry.node) \in Nat BY <3>1, NodeLengths
      <3>q. QED BY <1>1, <2>5, <3>2 DEF Room
    <2>q. QED BY <2>1, <2>2, <2>3, <2>4, <2>5 DEF IInv, TypeOK
  <1>4. pc = "copy" => rounds <= allowed
    <2>1. allowed \in Nat BY Geometry DEF IInv, TypeOK
    <2>q. QED BY <2>1 DEF Room
  <1>q. QED BY <1>3, <1>4 DEF RoomLeft, RoundsAsserted

\* Before the first section is opened nothing is in the way.
LEMMA NothingYet ==
  ASSUME IInv, TInv, LInv, tailCount = 0
  PROVE  avail = SectionSize /\ size[headSec] = 0 /\ EmptySections = SectionNum
  <1>1. avail = SectionSize /\ Live = {} BY DEF LInv, Untouched
  <1>2. headSec \in Sections /\ list[headSec] \in Seq(Entries) BY DEF IInv, TypeOK
  <1>3. list[headSec] = << >>
    <2>1. \A i \in 1 .. Len(list[headSec]) : list[headSec][i] \in Live BY <1>2 DEF Live
    <2>2. Len(list[headSec]) = 0
      <3>1. Len(list[headSec]) \in Nat BY <1>2
      <3>q. QED BY <1>1, <2>1, <3>1
    <2>q. QED BY <1>2, <2>2
  <1>4. size[headSec] = 0 BY <1>2, <1>3, TotalEmpty DEF TInv, Lists, Summed
  <1>q. QED BY <1>1, <1>4 DEF EmptySections

\* garbage_collect_try finds that the head section has to be collected.
LEMMA CollectStartRoom ==
  ASSUME NEW M, Ample(M), IInv, TInv, LInv, Pool, Room, CollectStart
  PROVE  Room'
  <1>1. /\ pc = "gc" /\ pc' = "copy" /\ UNCHANGED <<headSec, free, size, copying, rounds>>
        /\ free <= NodeLen(todo[1]) + Reserve
    <2>1. free <= NodeLen(todo[1]) + size[headSec] + BufferingNum * Payload
      BY DEF CollectStart, MustCollect
    <2>2. /\ free \in Int /\ size[headSec] \in Nat /\ Buffering \in Nat
          /\ Reserve = size[headSec] + Buffering
      BY Amounts
    <2>3. NodeLen(todo[1]) \in Nat BY Amounts DEF CollectStart
    <2>4. free <= NodeLen(todo[1]) + size[headSec] + Buffering BY <2>1 DEF Buffering
    <2>q. QED BY <2>2, <2>3, <2>4 DEF CollectStart, treeVars
  <1>2. /\ free \in Int /\ rounds \in Nat /\ size[headSec] \in Nat /\ Buffering \in Nat
        /\ PageSize \in Nat \ {0} /\ Reserve = size[headSec] + Buffering
        /\ NodeLen(todo[1]) \in Nat
    BY <1>1, Amounts
  <1>3. Lost \in {0, PageSize} BY PadIs DEF IInv
  <1>4. free + Lost > Reserve /\ (rounds > 0 => free > NodeLen(todo[1]) + Reserve) BY <1>1 DEF Room
  <1>5. rounds = 0 BY <1>1, <1>2, <1>4
  <1>6. free + PageSize > Reserve BY <1>2, <1>3, <1>4
  <1>7. Reserve' = Reserve BY <1>1 DEF Reserve
  <1>q. QED BY <1>1, <1>5, <1>6, <1>7 DEF Room

\* Where an entry that is started goes: into the head section only if that is the
\* tail section, or if the volume is empty.
LEMMA StartSection ==
  ASSUME IInv, LInv, pc # "emit", headSec # tailSec, tailCount # 0, free > 0
  PROVE  NewAddress.section # headSec
  <1>1. CASE avail = SectionSize
    <2>1. out = << >> BY RestFacts
    <2>2. EmptySections # 0
      <3> SUFFICES ASSUME EmptySections = 0 PROVE FALSE OBVIOUS
      <3>1. free = SectionSize - SectionSize + Payload * 0 - 0 BY <1>1, <2>1 DEF LInv, FreeExact
      <3>2. SectionSize \in Nat /\ Payload \in Nat BY Geometry
      <3>3. free = 0 BY <3>1, <3>2
      <3>q. QED BY <3>3
    <2>3. NextSection(tailSec) # headSec BY <2>2, LogSections DEF IInv
    <2>q. QED BY <1>1, <2>3 DEF NewAddress
  <1>2. CASE avail # SectionSize BY <1>2 DEF NewAddress
  <1>q. QED BY <1>1, <1>2

\* The copy of a node costs no more than the node gives back with its section.
LEMMA NodeCopyRoom ==
  ASSUME NEW M, Ample(M), IInv, TInv, LInv, Pool, Room, NodeCopy
  PROVE  Room'
  <1>0. PICK e : e = list[headSec][1] OBVIOUS
  <1> DEFINE m == MetaLen(e.node)
             l == NodeLen(e.node)
  <1>1. /\ pc = "copy" /\ copying' = TRUE /\ ListDel(e)
        /\ StartEntry(e.node, SubSeq(Image(e.node), 1, m))
        /\ unread' = l - m /\ UNCHANGED <<headSec, rounds, logVars>>
    BY <1>0 DEF NodeCopy
  <1>2. e \in Live /\ e.section = headSec
    <2>1. headSec \in Sections /\ list[headSec] \in Seq(Entries) /\ list[headSec] # << >>
      BY DEF IInv, TypeOK, NodeCopy
    <2>2. 1 \in 1 .. Len(list[headSec]) BY <2>1
    <2>q. QED BY <1>0, <2>1, <2>2 DEF Live, TInv, Lists, Placed
  <1>3. e.node \in Nodes BY <1>2, LiveType DEF IInv
  <1>4. m \in Nat /\ l \in Nat /\ m <= l
    <2>1. l \in Nat /\ m \in 1 .. AddLen BY <1>3, NodeKinds, NodeLengths
    <2>2. IsRecord(e.node) => l > AddLen BY <1>3, NodeLengths
    <2>3. ~IsRecord(e.node) => l = m BY DEF NodeLen
    <2> HIDE DEF m, l
    <2>q. QED BY <2>1, <2>2, <2>3, LengthAssumption
  <1>5. Len(SubSeq(Image(e.node), 1, m)) = m
    <2>1. Image(e.node) \in Seq(Cells) /\ Len(Image(e.node)) = l BY <1>3, ImageType
    <2> HIDE DEF m, l
    <2>q. QED BY <1>4, <2>1
  <1>6. free' = free - m /\ pc' = "emit" /\ entry'.section = NewAddress.section
    BY <1>1, <1>5 DEF StartEntry
  <1>7. size'[headSec] = size[headSec] - l
    <2>1. headSec \in Sections /\ size \in [Sections -> Int] BY DEF IInv, TypeOK
    <2>q. QED BY <1>1, <1>2, <2>1 DEF ListDel
  <1> HIDE DEF m, l
  <1>8. /\ free \in Int /\ size[headSec] \in Nat /\ Buffering \in Nat /\ Payload \in Nat
        /\ PageSize \in Nat \ {0} /\ 2 * PageSize <= Payload /\ Payload <= Buffering
        /\ Reserve = size[headSec] + Buffering
    BY Amounts
  <1>9. free + PageSize > Reserve /\ rounds = 0 BY <1>1 DEF Room
  <1>10. Reserve' = size[headSec] - l + Buffering BY <1>1, <1>7 DEF Reserve
  <1>11. free' + PageSize > Reserve' + unread' BY <1>1, <1>4, <1>6, <1>8, <1>9, <1>10
  <1>12. free > 0 BY <1>8, <1>9
  <1>13. headSec # tailSec /\ tailCount # 0 BY <1>1 DEF LInv, Phases
  <1>14. entry'.section # headSec
    <2>1. pc # "emit" BY <1>1
    <2>q. QED BY <1>6, <1>12, <1>13, <2>1, StartSection
  <1>q. QED BY <1>1, <1>6, <1>9, <1>11, <1>14 DEF Room

\* Data copied are counted off both.
LEMMA DataCopyRoom ==
  ASSUME NEW M, Ample(M), IInv, TInv, LInv, Pool, Room, DataCopy
  PROVE  Room'
  <1>1. /\ pc = "emit" /\ unread > 0 /\ UNCHANGED <<headSec, size, pc, entry, copying, rounds>>
        /\ \E k \in Nat : k <= unread /\ free' = free - k /\ unread' = unread - k
    <2> DEFINE k == IF unread > CopyLen THEN CopyLen ELSE unread
    <2>1. k \in Nat /\ k <= unread BY BoundAssumption DEF IInv, TypeOK
    <2>2. free' = free - k /\ unread' = unread - k BY DEF DataCopy
    <2> HIDE DEF k
    <2>q. QED BY <2>1, <2>2 DEF DataCopy, treeVars
  <1>2. copying /\ unread \in Nat
    <2>1. ~copying => unread = 0 BY DEF LInv, Phases
    <2>q. QED BY <1>1, <2>1, Amounts
  <1>3. /\ free \in Int /\ size[headSec] \in Nat /\ Buffering \in Nat
        /\ PageSize \in Nat \ {0} /\ Reserve = size[headSec] + Buffering
    BY Amounts
  <1>4. free + PageSize > Reserve + unread /\ entry.section # headSec /\ rounds = 0
    BY <1>1, <1>2 DEF Room
  <1>5. Reserve' = Reserve BY <1>1 DEF Reserve
  <1>6. free' + PageSize > Reserve' + unread' BY <1>1, <1>2, <1>3, <1>4, <1>5
  <1>q. QED BY <1>1, <1>2, <1>4, <1>6 DEF Room

\* The copy is on another section's list.
LEMMA NodeCopiedRoom ==
  ASSUME NEW M, Ample(M), IInv, TInv, LInv, Pool, Room, NodeCopied
  PROVE  Room'
  <1>1. /\ pc = "emit" /\ copying /\ copying' = FALSE /\ pc' = "copy" /\ unread = 0
        /\ ListPush(entry) /\ UNCHANGED <<headSec, free, rounds>>
    BY DEF NodeCopied
  <1>2. free + PageSize > Reserve + unread /\ entry.section # headSec /\ rounds = 0
    BY <1>1 DEF Room
  <1>3. size'[headSec] = size[headSec]
    <2>1. headSec \in Sections /\ size \in [Sections -> Int] BY DEF IInv, TypeOK
    <2>q. QED BY <1>1, <1>2, <2>1 DEF ListPush
  <1>4. Reserve' = Reserve BY <1>1, <1>3 DEF Reserve
  <1>5. Reserve \in Int
    <2>1. size[headSec] \in Nat /\ Buffering \in Nat /\ Reserve = size[headSec] + Buffering BY Amounts
    <2>q. QED BY <2>1
  <1>6. free + PageSize > Reserve BY <1>1, <1>2, <1>5
  <1>q. QED BY <1>1, <1>2, <1>4, <1>6 DEF Room

\* Nothing is left on the head section's list: all of what it costs to collect it has
\* been written.
LEMMA CollectSyncRoom ==
  ASSUME NEW M, Ample(M), IInv, IInv', TInv, LInv, Pool, Room, CollectSync
  PROVE  Room'
  <1>1. /\ pc = "copy" /\ pc' = "erase" /\ list[headSec] = << >>
        /\ free' = free - PadLen /\ buf' = << >> /\ UNCHANGED <<copying, rounds>>
    BY DEF CollectSync, WriteThrough
  <1>2. size[headSec] = 0
    <2>1. headSec \in Sections BY DEF IInv, TypeOK
    <2>q. QED BY <1>1, <2>1, TotalEmpty DEF TInv, Lists, Summed
  <1>3. /\ free \in Int /\ Buffering \in Nat /\ PageSize \in Nat \ {0}
        /\ Reserve = size[headSec] + Buffering
    BY Amounts
  <1>4. PadLen \in Nat /\ PadLen < PageSize BY PadIs DEF IInv
  <1>5. free + PageSize > Reserve /\ rounds = 0 BY <1>1 DEF Room
  <1>6. free' + 2 * PageSize > Buffering BY <1>1, <1>2, <1>3, <1>4, <1>5
  <1>7. PadLen' = 0
    <2>1. avail' % PageSize = Len(buf') BY DEF IInv, CacheAligned
    <2>q. QED BY <1>1, <2>1 DEF PadLen
  <1>q. QED BY <1>1, <1>5, <1>6, <1>7 DEF Room

\* The section is given back: there is room for the entry and the next collection.
LEMMA CollectEraseRoom ==
  ASSUME NEW M, Ample(M), IInv, IInv', TInv, LInv, Pool, Room, CollectErase
  PROVE  Room'
  <1>1. /\ pc = "erase" /\ pc' = "gc" /\ free' = free + Payload /\ headSec' \in Sections
        /\ UNCHANGED <<size, todo, copying>>
    BY NextSectionType DEF CollectErase, treeVars, IInv, TypeOK
  <1>2. /\ free \in Int /\ Buffering \in Nat /\ Payload \in Nat /\ PageSize \in Nat \ {0}
        /\ NodeLen(todo[1]) \in Nat /\ NodeLen(todo[1]) <= M
    BY <1>1, Amounts
  <1>3. size[headSec'] \in Nat /\ size[headSec'] + M + 2 * PageSize <= Payload /\ M \in Nat
    BY <1>1, Sizes, Capacity
  <1>4. free + 2 * PageSize > Buffering BY <1>1 DEF Room
  <1>5. free' > NodeLen(todo[1]) + (size[headSec'] + Buffering) BY <1>1, <1>2, <1>3, <1>4
  <1>6. Reserve' = size[headSec'] + Buffering BY <1>1 DEF Reserve
  <1>7. free' > NodeLen(todo'[1]) + Reserve' BY <1>1, <1>5, <1>6
  <1>8. Lost' \in {0, PageSize} BY DEF Lost
  <1>9. free' + Lost' > Reserve' BY <1>1, <1>2, <1>3, <1>5, <1>6, <1>8
  <1>10. ~copying BY <1>1 DEF IInv, CallShape
  <1>q. QED BY <1>1, <1>7, <1>9, <1>10 DEF Room

\* The entry is started when beside it there is room for one more collection.
LEMMA EntryStartRoom ==
  ASSUME NEW M, Ample(M), IInv, TInv, LInv, Pool, Room, EntryStart
  PROVE  Room'
  <1> DEFINE node == todo[1]
             need == NodeLen(node)
  <1>1. /\ pc = "gc" /\ pc' = "emit" /\ StartEntry(node, Image(node))
        /\ UNCHANGED <<headSec, size, copying>>
        /\ headSec = tailSec \/ ~(free <= need + size[headSec] + BufferingNum * Payload)
    BY DEF EntryStart, MustCollect, StartEntry, treeVars
  <1>2. /\ free \in Int /\ size[headSec] \in Nat /\ headSec \in Sections /\ Buffering \in Nat
        /\ Reserve = size[headSec] + Buffering
        /\ node \in Nodes /\ need \in Nat \ {0} /\ need <= M
    BY <1>1, Amounts
  <1>3. /\ free' = free - need /\ entry'.node = node /\ entry'.section = NewAddress.section
    BY <1>1, <1>2, ImageType DEF StartEntry
  <1>4. /\ M \in Nat /\ PageSize \in Nat \ {0} /\ Payload \in Nat \ {0}
        /\ Payload * SectionNum \in Nat /\ Payload * (SectionNum - 1) \in Nat
        /\ Buffering + Payload <= Payload * (SectionNum - 1)
        /\ Payload * SectionNum = Payload * (SectionNum - 1) + Payload
    BY Capacity
  <1>5. /\ size[headSec] + M + 2 * PageSize <= Payload
        /\ IsAdd(node) => size[headSec] + M + M + 2 * PageSize <= Payload
    <2>1. todo # << >> BY <1>1 DEF IInv, CallShape
    <2>q. QED BY <1>2, <2>1, Sizes
  <1>6. out = << >> /\ ~copying /\ pc # "emit" BY <1>1, RestFacts
  <1>7. free = SectionSize - avail + Payload * EmptySections - 0 BY <1>6 DEF LInv, FreeExact
  <1>8. avail \in Nat /\ avail <= SectionSize /\ SectionSize \in Nat
    BY Geometry DEF IInv, TypeOK, CacheAligned
  <1> HIDE DEF node, need
  <1>9. CASE tailCount = 0
    <2>1. avail = SectionSize /\ size[headSec] = 0 /\ EmptySections = SectionNum
      BY <1>9, NothingYet
    <2>2. free = Payload * SectionNum
      <3>1. free = SectionSize - SectionSize + Payload * SectionNum - 0 BY <1>7, <2>1
      <3>q. QED BY <1>4, <1>8, <3>1
    <2>3. free - need > Reserve + need BY <1>2, <1>4, <1>5, <2>1, <2>2
    <2>q. QED BY <1>1, <1>2, <1>3, <1>6, <2>3 DEF Room, Reserve, node, need
  <1>10. CASE tailCount # 0 /\ headSec # tailSec
    <2>1. ~(free <= need + size[headSec] + Buffering) BY <1>1, <1>10 DEF Buffering
    <2>2. free - need > Reserve /\ free > 0 BY <1>2, <2>1
    <2>3. NewAddress.section # headSec BY <1>6, <1>10, <2>2, StartSection
    <2>4. Reserve' = Reserve /\ Reserve \in Int BY <1>1, <1>2 DEF Reserve
    <2>q. QED BY <1>1, <1>3, <1>6, <2>2, <2>3, <2>4 DEF Room
  <1>11. CASE tailCount # 0 /\ headSec = tailSec
    <2>1. EmptySections = SectionNum - 1
      <3>1. EmptySections = SectionNum - 1 - headSec + headSec
        BY <1>2, <1>11, Geometry DEF EmptySections, Sections
      <3>q. QED BY <1>2, <3>1, Geometry DEF Sections
    <2>2. free = SectionSize - avail + Payload * (SectionNum - 1) - 0 BY <1>7, <2>1
    <2>3. free >= Payload * (SectionNum - 1) BY <1>4, <1>8, <2>2
    <2>4. free - need > Reserve BY <1>2, <1>4, <1>5, <2>3
    <2>5. IsAdd(node) => free - need > Reserve + need BY <1>2, <1>4, <1>5, <2>3
    <2>6. Reserve' = Reserve /\ Reserve \in Int BY <1>1, <1>2 DEF Reserve
    <2>7. entry'.node = node /\ NodeLen(entry'.node) = need BY <1>3 DEF need
    <2>8. free' > Reserve' + (IF IsAdd(entry'.node) /\ entry'.section = headSec' THEN NodeLen(entry'.node) ELSE 0)
      BY <1>3, <2>4, <2>5, <2>6, <2>7
    <2>q. QED BY <1>1, <1>6, <2>8 DEF Room
  <1>q. QED BY <1>9, <1>10, <1>11

\* Writing on changes nothing of it.
LEMMA WriteOnRoom ==
  ASSUME Room, SectionHeadWrite \/ NodeWrite
  PROVE  Room'
  <1>1. /\ pc = "emit" /\ UNCHANGED <<headSec, size, free, pc, entry, copying, unread, rounds>>
    BY DEF SectionHeadWrite, NodeWrite, treeVars
  <1>2. Reserve' = Reserve BY <1>1 DEF Reserve
  <1>q. QED BY <1>1, <1>2 DEF Room

\* What a node that leaves a list gives back, the collector need not keep free.
LEMMA DelReserve ==
  ASSUME IInv, NEW e \in Live, ListDel(e), headSec' = headSec, size[headSec] \in Int
  PROVE  Reserve' <= Reserve /\ Reserve \in Int /\ Reserve' \in Int
  <1>1. e.section \in Sections /\ e.node \in Nodes BY LiveType DEF IInv
  <1>2. NodeLen(e.node) \in Nat BY <1>1, NodeLengths
  <1>3. headSec \in Sections /\ size \in [Sections -> Int] BY DEF IInv, TypeOK
  <1>4. size' = [size EXCEPT ![e.section] = @ - NodeLen(e.node)] BY DEF ListDel
  <1>5. size'[headSec] \in Int /\ size'[headSec] <= size[headSec] BY <1>1, <1>2, <1>3, <1>4
  <1>6. Buffering \in Nat BY Geometry, BoundAssumption DEF Buffering
  <1>q. QED BY <1>3, <1>5, <1>6 DEF Reserve

\* The end of an entry: what was kept free is kept for the next one.
LEMMA EntryDoneRoom ==
  ASSUME NEW M, Ample(M), IInv, IInv', TInv, LInv, Pool, Room, EntryDone
  PROVE  Room'
  <1>1. /\ pc = "emit" /\ ~copying /\ copying' = copying /\ pc' \in {"idle", "gc"} /\ rounds' = 0
        /\ UNCHANGED <<headSec, free>> /\ entry \in Located /\ entry.node = todo[1]
    BY DEF EntryDone, Enter, IInv, CallShape
  <1>2. /\ free \in Int /\ size[headSec] \in Nat /\ headSec \in Sections /\ Buffering \in Nat
        /\ PageSize \in Nat /\ Reserve = size[headSec] + Buffering
        /\ NodeLen(entry.node) \in Nat
    BY <1>1, Amounts
  <1>3. free > Reserve + (IF IsAdd(entry.node) /\ entry.section = headSec THEN NodeLen(entry.node) ELSE 0)
    BY <1>1 DEF Room
  <1>4. free > Reserve'
    <2>1. CASE IsAdd(entry.node)
      <3>1. ListPush(entry) BY <1>1, <2>1 DEF EntryDone, IsAdd
      <3>2. size'[headSec] = IF entry.section = headSec THEN size[headSec] + NodeLen(entry.node)
                             ELSE size[headSec]
        <4>1. size \in [Sections -> Int] BY DEF IInv, TypeOK
        <4>q. QED BY <1>2, <3>1, <4>1 DEF ListPush
      <3>3. Reserve' = size'[headSec] + Buffering BY <1>1 DEF Reserve
      <3>q. QED BY <1>2, <1>3, <2>1, <3>2, <3>3
    <2>2. CASE ~IsAdd(entry.node)
      <3>1. PICK e \in Live : ListDel(e) BY <1>1, <2>2 DEF EntryDone, IsAdd
      <3>2. Reserve' <= Reserve /\ Reserve \in Int /\ Reserve' \in Int
        BY <1>1, <1>2, <3>1, DelReserve
      <3>q. QED BY <1>2, <1>3, <2>2, <3>2
    <2>q. QED BY <2>1, <2>2
  <1>5. Reserve' \in Int
    <2>1. size'[headSec'] \in Int BY DEF IInv, TypeOK
    <2>q. QED BY <1>2, <2>1 DEF Reserve
  <1>6. Lost' \in {0, PageSize} BY DEF Lost
  <1>7. free' + Lost' > Reserve' BY <1>1, <1>2, <1>4, <1>5, <1>6
  <1>q. QED BY <1>1, <1>7 DEF Room

\* A call is entered.
LEMMA EnterRoom ==
  ASSUME Room, pc = "idle", pc' = "gc", rounds' = 0, ~copying',
         UNCHANGED <<free, avail, headSec>>,
         free \in Int, Lost \in Int, Reserve \in Int, Reserve' \in Int, Reserve' <= Reserve
  PROVE  Room'
  <1>1. free + Lost > Reserve BY DEF Room
  <1>2. Lost' = Lost BY DEF Lost, PadLen
  <1>3. free' + Lost' > Reserve' BY <1>1, <1>2
  <1>4. pc' # "copy" /\ pc' # "erase" /\ pc' # "emit" /\ ~(rounds' > 0) OBVIOUS
  <1>q. QED BY <1>3, <1>4 DEF Room

\* tinyfs_write, tinyfs_del_record, tinyfs_mkdir and tinyfs_del_dir.
LEMMA CallRoom ==
  ASSUME NEW M, Ample(M), IInv, TInv, LInv, Pool, Room, Call, ~Sync
  PROVE  Room'
  <1>1. /\ pc = "idle" /\ pc' = "gc" /\ rounds' = 0
        /\ UNCHANGED <<free, avail, headSec, copying>>
    BY DEF Call, Write, DelRecord, Mkdir, DelDir, CanCall, Enter, logVars
  <1>2. ~copying' BY <1>1 DEF IInv, CallShape
  <1>3. /\ free \in Int /\ size[headSec] \in Nat /\ Buffering \in Nat /\ PageSize \in Nat
        /\ Reserve = size[headSec] + Buffering
    BY Amounts
  <1>4. Lost \in Int BY <1>3 DEF Lost
  <1>5. Reserve \in Int /\ Reserve' \in Int /\ Reserve' <= Reserve
    <2>1. CASE UNCHANGED size BY <1>1, <1>3, <2>1 DEF Reserve
    <2>2. CASE \E e \in Live : ListDel(e) BY <1>1, <1>3, <2>2, DelReserve
    <2>3. UNCHANGED size \/ \E e \in Live : ListDel(e)
      BY DEF Call, Write, DelRecord, Mkdir, DelDir, Records
    <2>q. QED BY <2>1, <2>2, <2>3
  <1>q. QED BY <1>1, <1>2, <1>3, <1>4, <1>5, EnterRoom

\* tinyfs_write_through costs what has been counted for.
LEMMA SyncRoom ==
  ASSUME NEW M, Ample(M), IInv, IInv', TInv, LInv, Pool, Room, Sync
  PROVE  Room'
  <1>1. /\ pc = "idle" /\ pc' = "idle" /\ free' = free - PadLen /\ buf' = << >>
        /\ UNCHANGED <<headSec, size, copying, rounds>>
    BY DEF Sync, WriteThrough, callVars, treeVars
  <1>2. /\ free \in Int /\ size[headSec] \in Nat /\ Buffering \in Nat /\ PageSize \in Nat \ {0}
        /\ Reserve = size[headSec] + Buffering
    BY Amounts
  <1>3. PadLen \in Nat /\ PadLen < PageSize BY PadIs DEF IInv
  <1>4. avail' % PageSize = Len(buf') BY DEF IInv, CacheAligned
  <1>5. PadLen' = 0 BY <1>1, <1>4 DEF PadLen
  <1>6. Lost' = PageSize /\ Lost = IF PadLen = 0 THEN PageSize ELSE 0 BY <1>5 DEF Lost
  <1>7. free + Lost > Reserve BY <1>1 DEF Room
  <1>8. Reserve' = Reserve BY <1>1 DEF Reserve
  <1>9. free' + Lost' > Reserve' BY <1>1, <1>2, <1>3, <1>6, <1>7, <1>8
  <1>10. ~copying BY <1>1 DEF IInv, CallShape
  <1>q. QED BY <1>1, <1>9, <1>10 DEF Room

\* Every step keeps the room a collection needs.
LEMMA NextRoom ==
  ASSUME NEW M, Ample(M), IInv, TInv, LInv, Pool, Room, [Next]_vars
  PROVE  Room'
  <1>0. IInv' BY NextInv
  <1>1. CASE UNCHANGED vars
    <2>1. UNCHANGED <<pc, free, avail, headSec, size, todo, entry, copying, unread, rounds>>
      BY <1>1 DEF vars
    <2>2. Reserve' = Reserve /\ Lost' = Lost /\ PadLen' = PadLen
      BY <2>1 DEF Reserve, Lost, PadLen
    <2>q. QED BY <2>1, <2>2 DEF Room
  <1>2. CASE Call BY <1>0, <1>2, CallRoom, SyncRoom
  <1>3. CASE Work
    BY <1>0, <1>3, CollectStartRoom, NodeCopyRoom, DataCopyRoom, NodeCopiedRoom, CollectSyncRoom,
       CollectEraseRoom, EntryStartRoom, WriteOnRoom, EntryDoneRoom DEF Work
  <1>q. QED BY <1>1, <1>2, <1>3 DEF Next

\* An empty volume has room.
LEMMA InitRoom == ASSUME NEW M, Ample(M), Init PROVE Room
  <1>1. /\ pc = "idle" /\ ~copying /\ headSec = 0 /\ size[0] = 0 /\ free = SectionNum * Payload
    <2>1. 0 \in Sections BY Geometry DEF Sections
    <2>q. QED BY <2>1 DEF Init
  <1>2. /\ PageSize \in Nat /\ Payload \in Nat \ {0} /\ Buffering \in Nat
        /\ Payload * (SectionNum - 1) \in Nat
        /\ Buffering + Payload <= Payload * (SectionNum - 1)
        /\ Payload * SectionNum = Payload * (SectionNum - 1) + Payload
    BY Capacity
  <1>3. free = Payload * SectionNum BY <1>1, Geometry
  <1>4. Reserve = 0 + Buffering BY <1>1 DEF Reserve
  <1>5. Lost \in Nat BY <1>2 DEF Lost
  <1>6. free + Lost > Reserve BY <1>2, <1>3, <1>4, <1>5
  <1>q. QED BY <1>1, <1>6 DEF Room

\* With ample sections the invariant of the log holds of every behaviour in which the
\* sections can be counted.
THEOREM AmpleInvariance ==
  ASSUME NEW M, Ample(M)
  PROVE  Spec /\ []NoWrap => [](IInv /\ TInv /\ LInv /\ Pool /\ Room)
  <1>1. Init => IInv /\ TInv /\ LInv /\ Pool /\ Room
    BY InitInv, InitTree, InitLog, InitPool, InitRoom
  <1>2. IInv /\ TInv /\ LInv /\ Pool /\ Room /\ NoWrap /\ [Next]_vars
          => (IInv /\ TInv /\ LInv /\ Pool /\ Room)'
    <2> SUFFICES ASSUME IInv, TInv, LInv, Pool, Room, NoWrap, [Next]_vars
                 PROVE  IInv' /\ TInv' /\ LInv' /\ Pool' /\ Room'
      OBVIOUS
    <2>1. Roomy /\ RoomLeft BY AmpleRoomy, RoomEnough
    <2>q. QED BY <2>1, NextInv, NextTree, NextLog, NextPool, NextRoom
  <1>q. QED BY <1>1, <1>2, PTL DEF Spec

\* garbage_collect_try keeps room: free_bytes never runs below zero, and the log never
\* reaches its own head.
THEOREM RoomIsKept ==
  ASSUME NEW M, Ample(M)
  PROVE  Spec /\ []NoWrap => []RoomLeft
  <1>1. IInv /\ TInv /\ Pool /\ Room => RoomLeft BY RoomEnough
  <1>q. QED BY <1>1, AmpleInvariance, PTL

\* TINYFS_ASSERT(i<=num) of garbage_collect_try: no more sections are collected than
\* section_wipe_check found necessary.
THEOREM RoundsAreEnough ==
  ASSUME NEW M, Ample(M)
  PROVE  Spec /\ []NoWrap => []RoundsAsserted
  <1>1. IInv /\ TInv /\ Pool /\ Room => RoundsAsserted BY RoomEnough
  <1>q. QED BY <1>1, AmpleInvariance, PTL

\* The free count, the erased flash ahead of the log and the readability of every live
\* record, without assuming anything of the collector.
THEOREM AmpleLog ==
  ASSUME NEW M, Ample(M)
  PROVE  Spec /\ []NoWrap => [](FreeExact /\ ErasedAhead /\ LiveReadable)
  <1>1. Roomy BY AmpleRoomy
  <1>q. QED BY <1>1, RoomIsKept, FreeIsExact, LogMeetsErased, LiveIsReadable, PTL
=============================================================================
