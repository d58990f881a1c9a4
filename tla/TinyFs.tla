------------------------------- MODULE TinyFs -------------------------------
(***************************************************************************)
(* TinyFs while power lasts (dev/module/tinyfs/tinyfs.c and                 *)
(* tinyfs_write_cache.c): the log, its page cache, the list of live nodes   *)
(* of each section and the garbage collector.                               *)
(*                                                                         *)
(* One API call is a chain of steps, so that a module extending this one    *)
(* can cut the power between any two programmings or erasures of flash:     *)
(*                                                                         *)
(*   idle -> gc -> (copy -> emit)* -> erase -> gc ... -> emit              *)
(*        -> idle, or back to gc for the next entry of a recursive delete.  *)
(*                                                                         *)
(* The directory tree is held as the set of live nodes: the sibling order   *)
(* of the child lists shows only in the order of a forced delete, which is  *)
(* left open here.                                                          *)
(***************************************************************************)
EXTENDS TinyFsLayout, FiniteSets, SequencesExt

CONSTANTS
    CopyLen,      \* RECORD_DATA_COPY_BUF_SIZE
    NodeMax,      \* TINYFS_NODE_MAX: nodes in the pool beside the root
    BufferingNum, \* BUFFERING_SECTION_NUM
    CountMax      \* bound: no call starts once tail_count has reached it

ASSUME BoundAssumption ==
    /\ CopyLen \in Nat \ {0}
    /\ NodeMax \in Nat /\ BufferingNum \in Nat
    /\ CountMax \in Nat

VARIABLES
    flash,      \* the volume, cell by cell
    buf,        \* the write cache: buf[0 .. idx-1]
    bufAddr,    \* current_buf_offset
    avail,      \* tail_available_offset
    headSec,    \* head_section
    tailSec,    \* tail_section
    tailCount,  \* tail_count
    free,       \* free_bytes
    dirIdMax,   \* dir_id_max
    list,       \* tinyfs_list[s].list: live nodes with their address, oldest first
    size,       \* tinyfs_list[s].size
    pc,         \* where the current call is
    todo,       \* entries the current call still has to append
    out,        \* cells of the entry being written, not yet in the cache
    starting,   \* PROGRAM_START: nothing of the entry has been written yet
    entry,      \* the entry being written, [node, section, offset]
    copying,    \* the entry is a copy made by the garbage collector
    source,     \* src of record_data_copy: where the next data to copy is
    unread,     \* length of record_data_copy: how much of the data is left to copy
    rounds,     \* i of garbage_collect_try
    allowed     \* num of garbage_collect_try, SectionNum + 1 if wipe failed

logVars == <<flash, buf, bufAddr, avail, tailSec, tailCount>>
treeVars == <<list, size, dirIdMax>>
callVars == <<pc, todo, out, starting, entry, copying, source, unread, rounds, allowed>>
vars == <<flash, buf, bufAddr, avail, headSec, tailSec, tailCount, free, dirIdMax,
          list, size, pc, todo, out, starting, entry, copying, source, unread, rounds, allowed>>

NoEntry == [node |-> DirRemove(0), section |-> 0, offset |-> 0]
NoSource == [section |-> 0, offset |-> 0]

-----------------------------------------------------------------------------
(* The live nodes. *)
Live == UNION {{list[s][i] : i \in 1 .. Len(list[s])} : s \in Sections}
LiveNodes == {e.node : e \in Live}

\* The record of a directory with this name, the directory with this id.
Records(p, n) == {e \in Live : IsRecord(e.node) /\ e.node.parent = p /\ e.node.name = n}
Children(p) == {m \in LiveNodes : m.parent = p}
LiveDirs == {m.id : m \in {x \in LiveNodes : IsDir(x)}}
DirExists(p) == p = RootId \/ p \in LiveDirs

\* tinyfs_list_del and tinyfs_list_push.
ListDel_SizeKept(e) ==
    /\ \E i \in 1 .. Len(list[e.section]) :
        list[e.section][i] = e /\ list' = [list EXCEPT ![e.section] = RemoveAt(@, i)]
    /\ size' = size

ListDel(e) ==
    /\ \E i \in 1 .. Len(list[e.section]) :
        list[e.section][i] = e /\ list' = [list EXCEPT ![e.section] = RemoveAt(@, i)]
    /\ size' = [size EXCEPT ![e.section] = @ - NodeLen(e.node)]

ListPush(e) ==
    /\ list' = [list EXCEPT ![e.section] = Append(@, e)]
    /\ size' = [size EXCEPT ![e.section] = @ + NodeLen(e.node)]

-----------------------------------------------------------------------------
(* The page cache. *)

\* nvm_program of one page whose first units are `cells', the rest padding.
FlashWith(cells, addr) ==
    [a \in Addresses |->
        IF a >= addr /\ a < addr + Len(cells)
        THEN Programmed(flash[a], cells[a - addr + 1]) ELSE flash[a]]

\* One pass of tinyfs_nvm_program's loop: as much of `cells' as the page has
\* room for.  A full page is programmed and the cache is empty again.
CacheProgram(cells, addr) ==
    LET page == (addr \div PageSize) * PageSize
        filled == buf \o cells
    IN  /\ bufAddr' = page
        /\ IF Len(filled) = PageSize
           THEN flash' = FlashWith(filled, page) /\ buf' = << >>
           ELSE flash' = flash /\ buf' = filled

\* tinyfs_nvm_read_with_cache: the end of the range comes from the cache when
\* the range ends in what the cache holds.
ReadWithCache(addr, len) ==
    LET last == addr + len
        cached == last > bufAddr /\ last <= bufAddr + Len(buf)
        nvm == IF ~cached THEN len
               ELSE IF addr < bufAddr THEN len - (last % PageSize) ELSE 0
        src == IF addr < bufAddr THEN 0 ELSE addr % PageSize
    IN  [i \in 1 .. len |-> IF i <= nvm THEN flash[addr + i - 1] ELSE buf[src + i - nvm]]

\* nvm_read_node: a node may run over the end of its section and goes on
\* behind the head of the next one.
ReadNode(s, o, len) ==
    LET here == SectionSize - o
    IN  IF o + len <= SectionSize THEN ReadWithCache(FlashAddr(s, o), len)
        ELSE ReadWithCache(FlashAddr(s, o), here)
             \o ReadWithCache(FlashAddr(NextSection(s), HeadLen), len - here)

\* data_write_through: close the page.
PadLen_NotCounted == 0
PadLen == IF avail % PageSize = 0 THEN 0 ELSE PageSize - (avail % PageSize)

WriteThrough_TailKept ==
    /\ free' = free - PadLen
    /\ avail' = avail
    /\ flash' = IF buf = << >> THEN flash ELSE FlashWith(buf, bufAddr)
    /\ buf' = << >>

WriteThrough ==
    /\ free' = free - PadLen
    /\ avail' = IF avail % PageSize = 0 THEN avail ELSE avail - (avail % PageSize) + PageSize
    /\ flash' = IF buf = << >> THEN flash ELSE FlashWith(buf, bufAddr)
    /\ buf' = << >>

-----------------------------------------------------------------------------
(* Writing an entry: node_write. *)

SectionOffset_OverHead(s, o, len) ==
    IF o + len >= SectionSize
    THEN [section |-> NextSection(s), offset |-> o + len - SectionSize]
    ELSE [section |-> s, offset |-> o + len]

\* section_offset_calc: where a reader looks for what follows `len' units.
SectionOffset(s, o, len) ==
    IF o + len >= SectionSize
    THEN [section |-> NextSection(s), offset |-> o + len - SectionSize + HeadLen]
    ELSE [section |-> s, offset |-> o + len]

NewAddress ==
    IF avail = SectionSize
    THEN [section |-> NextSection(tailSec), offset |-> HeadLen]
    ELSE [section |-> tailSec, offset |-> avail]

\* record_add_write and the like with the data that follows them.
StartEntry(node, cells) ==
    /\ entry' = [node |-> node, section |-> NewAddress.section, offset |-> NewAddress.offset]
    /\ out' = cells
    /\ starting' = TRUE
    /\ free' = free - Len(cells)
    /\ pc' = "emit"

\* The tail section is full: open the next one.
SectionHeadWrite ==
    /\ pc = "emit" /\ out # << >> /\ avail = SectionSize
    /\ tailSec' = NextSection(tailSec)
    /\ tailCount' = (tailCount + 1) % CountRange
    /\ avail' = 0
    /\ out' = HeadImage(SectionHead(tailCount', HeadNodeOffset(starting, Len(out) + unread))) \o out
    /\ UNCHANGED <<flash, buf, bufAddr, headSec, free, treeVars,
                   pc, todo, starting, entry, copying, source, unread, rounds, allowed>>

\* What is left of the tail section.
SpaceLeft_OffByOne == SectionSize - avail - 1
SpaceLeft == SectionSize - avail

\* Into the cache goes what the section, the page and the entry allow.
NodeWrite ==
    LET room == PageSize - Len(buf)
        left == SpaceLeft
        most == IF room < left THEN room ELSE left
        k == IF Len(out) < most THEN Len(out) ELSE most
    IN  /\ pc = "emit" /\ out # << >> /\ avail < SectionSize
        /\ CacheProgram(SubSeq(out, 1, k), FlashAddr(tailSec, avail))
        /\ avail' = avail + k
        /\ out' = SubSeq(out, k + 1, Len(out))
        /\ starting' = FALSE
        /\ UNCHANGED <<headSec, tailSec, tailCount, free, treeVars,
                       pc, todo, entry, copying, source, unread, rounds, allowed>>

-----------------------------------------------------------------------------
(* The garbage collector: garbage_collect_try. *)

MustCollect_NoBuffering(need) == free <= need /\ headSec # tailSec

\* The head section must be collected before `need' units are written: beside
\* them there must be room for one more collection and for the buffering
\* sections.
MustCollect(need) ==
    /\ free <= need + size[headSec] + BufferingNum * Payload
    /\ headSec # tailSec

CollectStart ==
    /\ pc = "gc" /\ MustCollect(NodeLen(todo[1]))
    /\ pc' = "copy"
    /\ UNCHANGED <<logVars, headSec, free, treeVars,
                   todo, out, starting, entry, copying, source, unread, rounds, allowed>>

\* node_copy of the first node of the head section's list: its metadata is
\* written anew, and a record's data and their CRC are still to be copied.
NodeCopy ==
    /\ pc = "copy" /\ list[headSec] # << >>
    /\ LET e == list[headSec][1]
       IN  /\ ListDel(e)
           /\ StartEntry(e.node, SubSeq(Image(e.node), 1, MetaLen(e.node)))
           /\ unread' = NodeLen(e.node) - MetaLen(e.node)
           /\ source' = SectionOffset(e.section, e.offset, MetaLen(e.node))
    /\ copying' = TRUE
    /\ UNCHANGED <<logVars, headSec, dirIdMax, todo, rounds, allowed>>

\* One turn of record_data_copy's loop: the next data are read from wherever
\* they are by now, flash or cache.
DataCopy ==
    /\ pc = "emit" /\ out = << >> /\ unread > 0
    /\ LET k == IF unread > CopyLen THEN CopyLen ELSE unread
       IN  /\ out' = ReadNode(source.section, source.offset, k)
           /\ source' = SectionOffset(source.section, source.offset, k)
           /\ unread' = unread - k
           /\ free' = free - k
    /\ UNCHANGED <<logVars, headSec, treeVars,
                   pc, todo, starting, entry, copying, rounds, allowed>>

NodeCopied ==
    /\ pc = "emit" /\ out = << >> /\ copying /\ unread = 0
    /\ ListPush(entry)
    /\ copying' = FALSE
    /\ entry' = NoEntry /\ source' = NoSource
    /\ pc' = "copy"
    /\ UNCHANGED <<logVars, headSec, free, dirIdMax, todo, out, starting,
                   unread, rounds, allowed>>

CollectSync_NotWritten ==
    /\ pc = "copy" /\ list[headSec] = << >>
    /\ pc' = "erase"
    /\ UNCHANGED <<logVars, headSec, free, treeVars,
                   todo, out, starting, entry, copying, source, unread, rounds, allowed>>

\* The copies reach flash before their originals are erased.
CollectSync ==
    /\ pc = "copy" /\ list[headSec] = << >>
    /\ WriteThrough
    /\ pc' = "erase"
    /\ UNCHANGED <<bufAddr, headSec, tailSec, tailCount, treeVars,
                   todo, out, starting, entry, copying, source, unread, rounds, allowed>>

\* tinyfs_section_erase.
SectionErase_LastPageKept(s) ==
    flash' = [a \in Addresses |->
                IF a \div SectionSize = s /\ a % SectionSize < SectionSize - PageSize
                THEN Erased ELSE flash[a]]

SectionErase(s) ==
    flash' = [a \in Addresses |-> IF a \div SectionSize = s THEN Erased ELSE flash[a]]

CollectErase ==
    /\ pc = "erase"
    /\ SectionErase(headSec)
    /\ free' = free + Payload
    /\ headSec' = NextSection(headSec)
    /\ rounds' = rounds + 1
    /\ pc' = "gc"
    /\ UNCHANGED <<buf, bufAddr, avail, tailSec, tailCount, treeVars,
                   todo, out, starting, entry, copying, source, unread, allowed>>

-----------------------------------------------------------------------------
(* The calls.  A call that returns an error changes nothing. *)

WipeCount_TailExcluded(sizes, need) ==
    LET sec(i) == (headSec + i - 1) % SectionNum
        dead[i \in 0 .. SectionNum] ==
            IF i = 0 THEN 0 ELSE dead[i - 1] + Payload - sizes[sec(i)]
        enough == {i \in 1 .. SectionNum :
                     dead[i] > need /\ \A j \in 1 .. i : sec(j) # tailSec}
    IN  IF enough = {} THEN SectionNum + 1 ELSE Min(enough)

\* section_wipe_check: how many sections, from the head on, must be wiped for
\* more than `need' units; one too many when all of them are not enough.
WipeCount(sizes, need) ==
    LET sec(i) == (headSec + i - 1) % SectionNum
        dead[i \in 0 .. SectionNum] ==
            IF i = 0 THEN 0 ELSE dead[i - 1] + Payload - sizes[sec(i)]
        enough == {i \in 1 .. SectionNum : dead[i] > need}
    IN  IF enough = {} THEN SectionNum + 1 ELSE Min(enough)

\* garbage_collect_try is entered for the first of `entries'.
Enter(entries) ==
    /\ todo' = entries
    /\ pc' = "gc"
    /\ rounds' = 0
    /\ allowed' = WipeCount(size', NodeLen(entries[1]))

EntryStart ==
    /\ pc = "gc" /\ ~MustCollect(NodeLen(todo[1]))
    /\ StartEntry(todo[1], Image(todo[1]))
    /\ UNCHANGED <<logVars, headSec, treeVars, todo, copying, source, unread, rounds, allowed>>

\* What a removal entry removes.
Removes(r, node) ==
    \/ r.type = "RECORD_REMOVE" /\ IsRecord(node) /\ node.parent = r.parent /\ node.name = r.name
    \/ r.type = "DIR_REMOVE" /\ IsDir(node) /\ node.id = r.id

\* The entry is in the log: record_write, tinyfs_mkdir and node_del bring the
\* lists up to date and the call returns or goes on to its next entry.
EntryDone ==
    LET node == todo[1]
    IN  /\ pc = "emit" /\ out = << >> /\ ~copying
        /\ IF IsRecord(node) \/ IsDir(node) THEN ListPush(entry)
           ELSE \E e \in Live : Removes(node, e.node) /\ ListDel(e)
        /\ entry' = NoEntry
        /\ IF Len(todo) > 1 THEN Enter(SubSeq(todo, 2, Len(todo)))
           ELSE /\ todo' = << >> /\ pc' = "idle"
                /\ rounds' = 0 /\ allowed' = 0
        /\ UNCHANGED <<logVars, headSec, free, dirIdMax, out, starting, copying, source, unread>>

CanCall == pc = "idle" /\ tailCount < CountMax
PoolFree == Cardinality(Live) < NodeMax

\* tinyfs_write: the old copy of an overwritten record leaves its list first.
Write(p, n, v) ==
    /\ CanCall /\ DirExists(p)
    /\ IF Records(p, n) # {}
       THEN \E e \in Records(p, n) : ListDel(e)
       ELSE PoolFree /\ UNCHANGED <<list, size>>
    /\ Enter(<<RecordAdd(p, n, v)>>)
    /\ UNCHANGED <<logVars, headSec, free, dirIdMax, out, starting, entry, copying, source, unread>>

\* tinyfs_del_record.
DelRecord(p, n) ==
    /\ CanCall /\ DirExists(p) /\ Records(p, n) # {}
    /\ UNCHANGED <<list, size>>
    /\ Enter(<<RecordRemove(p, n)>>)
    /\ UNCHANGED <<logVars, headSec, free, dirIdMax, out, starting, entry, copying, source, unread>>

\* tinyfs_mkdir.
Mkdir(p, n) ==
    /\ CanCall /\ DirExists(p) /\ PoolFree
    /\ ~ \E m \in LiveNodes : IsDir(m) /\ m.parent = p /\ m.name = n
    /\ dirIdMax < DirIdMax
    /\ dirIdMax' = dirIdMax + 1
    /\ UNCHANGED <<list, size>>
    /\ Enter(<<DirAdd(p, n, dirIdMax + 1)>>)
    /\ UNCHANGED <<logVars, headSec, free, out, starting, entry, copying, source, unread>>

\* Everything in and below a directory, and the orders in which
\* node_del_recursively may delete it: a directory after what it holds.
Below(d) ==
    LET closed == {ids \in SUBSET LiveDirs :
                     /\ d \in ids
                     /\ \A m \in LiveNodes : IsDir(m) /\ m.parent \in ids => m.id \in ids}
    IN  {m \in LiveNodes : \A ids \in closed : m.parent \in ids}

RemovalOf(node) ==
    IF IsDir(node) THEN DirRemove(node.id) ELSE RecordRemove(node.parent, node.name)

RemovalOrders_AnyOrder(nodes) ==
    {f \in UNION {[1 .. k -> nodes] : k \in 0 .. NodeMax} :
        Range(f) = nodes /\ IsInjective(f)}

RemovalOrders(nodes) ==
    {f \in UNION {[1 .. k -> nodes] : k \in 0 .. NodeMax} :
        /\ Range(f) = nodes /\ IsInjective(f)
        /\ \A i, j \in DOMAIN f : IsDir(f[i]) /\ f[j].parent = f[i].id => j < i}

\* tinyfs_del_dir of a directory other than the root.
DelDir(d, force) ==
    /\ CanCall /\ d \in LiveDirs
    /\ ~force => Children(d) = {}
    /\ UNCHANGED <<list, size>>
    /\ \E order \in RemovalOrders(IF force THEN Below(d) ELSE {}) :
        Enter(Append([i \in DOMAIN order |-> RemovalOf(order[i])], DirRemove(d)))
    /\ UNCHANGED <<logVars, headSec, free, dirIdMax, out, starting, entry, copying, source, unread>>

\* tinyfs_write_through.
Sync ==
    /\ pc = "idle" /\ (buf # << >> \/ PadLen # 0)
    /\ WriteThrough
    /\ UNCHANGED <<bufAddr, headSec, tailSec, tailCount, treeVars, callVars>>

-----------------------------------------------------------------------------
\* tinyfs_init on an erased volume.
Init ==
    /\ flash = [a \in Addresses |-> Erased]
    /\ buf = << >> /\ bufAddr = 0
    /\ headSec = 0 /\ tailSec = PrevSection(0)
    /\ avail = SectionSize
    /\ tailCount = 0
    /\ dirIdMax = 0
    /\ free = SectionNum * Payload
    /\ list = [s \in Sections |-> << >>]
    /\ size = [s \in Sections |-> 0]
    /\ pc = "idle" /\ todo = << >> /\ out = << >> /\ starting = FALSE
    /\ entry = NoEntry /\ copying = FALSE
    /\ source = NoSource /\ unread = 0
    /\ rounds = 0 /\ allowed = 0

Call ==
    \/ \E p \in Parents, n \in Names, v \in Values : Write(p, n, v)
    \/ \E p \in Parents, n \in Names : DelRecord(p, n)
    \/ \E p \in Parents, n \in Names : Mkdir(p, n)
    \/ \E d \in DirIds, force \in BOOLEAN : DelDir(d, force)
    \/ Sync

Work ==
    \/ CollectStart \/ NodeCopy \/ DataCopy \/ NodeCopied \/ CollectSync \/ CollectErase
    \/ EntryStart \/ SectionHeadWrite \/ NodeWrite \/ EntryDone

Next == Call \/ Work

\* A call runs to its end: nothing else runs meanwhile.
Spec == Init /\ [][Next]_vars /\ WF_vars(Work)

-----------------------------------------------------------------------------
(* Properties. *)

\* The type of every variable (the lists, the environment and the cache of
\* tinyfs.c and tinyfs_write_cache.c).
Entries == [node : RecordAdds \cup DirAdds, section : Sections, offset : 0 .. SectionSize - 1]

TypeOK ==
    /\ flash \in [Addresses -> Cells]
    /\ buf \in Seq(Cells) /\ out \in Seq(Cells)
    /\ bufAddr \in Nat
    /\ avail \in Nat
    /\ headSec \in Sections /\ tailSec \in Sections
    /\ tailCount \in 0 .. CountRange - 1
    /\ free \in Int
    /\ dirIdMax \in Parents
    /\ list \in [Sections -> Seq(Entries)]
    /\ size \in [Sections -> Int]
    /\ pc \in {"idle", "gc", "copy", "emit", "erase"}
    /\ todo \in Seq(Nodes)
    /\ starting \in BOOLEAN /\ copying \in BOOLEAN
    /\ entry = NoEntry \/ entry \in [node : Nodes, section : Sections, offset : 0 .. SectionSize - 1]
    /\ source \in [section : Sections, offset : 0 .. SectionSize] /\ unread \in Nat
    /\ rounds \in Nat /\ allowed \in 0 .. SectionNum + 1

\* The cache holds exactly what lies between the start of the tail's page and
\* the tail: tinyfs_nvm_program, which appends to the cache wherever it is told
\* to program, and tinyfs_env.tail_available_offset never drift apart.
CacheAligned ==
    /\ avail <= SectionSize
    /\ avail % PageSize = Len(buf)
    /\ buf # << >> => bufAddr = FlashAddr(tailSec, avail) - Len(buf)

\* The sections between the tail and the head, and the head's own distance:
\* all of them before the first section is opened.
EmptySections ==
    IF tailCount = 0 THEN SectionNum
    ELSE IF tailSec >= headSec THEN SectionNum - 1 - tailSec + headSec
    ELSE headSec - tailSec - 1

\* free_bytes, kept by hand in node_write, data_write_through and
\* section_garbage_collection, is what a count of the volume gives.
FreeExact ==
    free = SectionSize - avail + Payload * EmptySections - Len(out)

\* A collection never runs out of room: the log does not reach its own head.
RoomLeft == free >= 0

\* What the log is going to be written to is erased: everything from the tail
\* page to the end of its section, and every section between tail and head.
ErasedAhead ==
    LET next == FlashAddr(tailSec, avail - Len(buf))
        ends == FlashAddr(tailSec, SectionSize)
        ahead == {s \in Sections :
                    \/ tailCount = 0
                    \/ tailSec >= headSec /\ (s > tailSec \/ s < headSec)
                    \/ tailSec < headSec /\ s > tailSec /\ s < headSec}
    IN  /\ \A a \in next .. ends - 1 : flash[a] = Erased
        /\ \A s \in ahead : \A o \in 0 .. SectionSize - 1 : flash[FlashAddr(s, o)] = Erased
        /\ \A a \in Addresses : flash[a] # Garbage

\* do_tinyfs_read of any live record, and the metadata of any live node, find
\* what was written, wherever the collector has moved it and whether it is in
\* flash or still in the cache.
Readable(e) ==
    LET data == SectionOffset(e.section, e.offset, AddLen)
        crc == SectionOffset(data.section, data.offset, DataLen[e.node.val])
    IN  /\ ReadNode(e.section, e.offset, MetaLen(e.node))
            = SubSeq(Image(e.node), 1, MetaLen(e.node))
        /\ IsRecord(e.node) =>
            ReadNode(data.section, data.offset, DataLen[e.node.val])
            \o ReadNode(crc.section, crc.offset, CrcLen)
                = SubSeq(Image(e.node), AddLen + 1, NodeLen(e.node))

LiveReadable == \A e \in Live : Readable(e)

\* The length of what a list holds.
Total(l) ==
    LET sum[i \in 0 .. Len(l)] == IF i = 0 THEN 0 ELSE sum[i - 1] + NodeLen(l[i].node)
    IN  sum[Len(l)]

\* The lists name each record and each directory once, under the section it
\* starts in, and size[] adds up what each list holds.
ListsExact ==
    /\ \A s \in Sections : \A i \in 1 .. Len(list[s]) : list[s][i].section = s
    /\ \A e, f \in Live : e # f => e.node # f.node
    /\ \A s \in Sections : size[s] = Total(list[s])

\* The tree that mkdir, write and the deletes keep: whatever is live has a live
\* parent and a name of its own among the records, or directories, of that
\* parent.  A forced delete goes through states in which part of the directory is
\* gone; in none of them is a node left that no path leads to.
TreeSound ==
    ~copying =>
        /\ \A m \in LiveNodes : DirExists(m.parent)
        /\ \A m, n \in LiveNodes :
            m.type = n.type /\ m.parent = n.parent /\ m.name = n.name => m = n

\* TINYFS_ASSERT(wipe) of garbage_collect_try: when a call is entered, wiping all
\* that is dead would make room for its entry.
WipeAsserted == pc = "gc" => allowed <= SectionNum

\* TINYFS_ASSERT(i<=num) of garbage_collect_try: no more sections are collected
\* than section_wipe_check found necessary.
RoundsAsserted == pc = "copy" => rounds <= allowed

\* Every call returns: the collector's loop ends.
CallsReturn == pc # "idle" ~> pc = "idle"
=============================================================================
