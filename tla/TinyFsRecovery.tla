--------------------------- MODULE TinyFsRecovery ---------------------------
(***************************************************************************)
(* TinyFs under power loss: at any point between two programmings or        *)
(* erasures the RAM is lost, and tinyfs_init rebuilds it from what the      *)
(* flash holds.                                                            *)
(*                                                                         *)
(* `vol', `kept' and `risk' are history variables that no action reads:     *)
(* what the application has been told is stored, the states of the store a  *)
(* reset may still bring back, and the records whose replacement is under   *)
(* way.  `torn' says that a reset has cut a record in two.                   *)
(***************************************************************************)
EXTENDS TinyFs, FiniteSetsExt

VARIABLES vol, kept, risk, torn

historyVars == <<vol, kept, risk, torn>>
recoveryVars == <<vars, historyVars>>

\* The elements of a sequence that are in a set, in their order.
Among(seq, set) ==
    LET chosen[i \in 0 .. Len(seq)] ==
            IF i = 0 THEN << >>
            ELSE IF seq[i] \in set THEN Append(chosen[i - 1], seq[i]) ELSE chosen[i - 1]
    IN  chosen[Len(seq)]

-----------------------------------------------------------------------------
(* Reading a volume with an empty cache. *)

FlashUnits(s, o, len) ==
    [i \in 1 .. len |->
        IF o + i - 1 < SectionSize THEN flash[FlashAddr(s, o + i - 1)]
        ELSE flash[FlashAddr(NextSection(s), HeadLen + o + i - 1 - SectionSize)]]

\* section_head_read and section_head_read_all.
ValidSections == {s \in Sections : flash[FlashAddr(s, 0)][1].type = "HEAD"}
HeadOf(s) == flash[FlashAddr(s, 0)][1]

NodeAt(s, o) == flash[FlashAddr(s, o)][1]

\* node_metadata_read: the units at <<s, o>> are the metadata of a node.
MetadataAt(s, o) ==
    LET n == NodeAt(s, o)
    IN  /\ n.type \in {"RECORD_ADD", "DIR_ADD", "RECORD_REMOVE", "DIR_REMOVE"}
        /\ FlashUnits(s, o, MetaLen(n)) = SubSeq(Image(n), 1, MetaLen(n))

PageEmpty(s, o) == \A i \in 0 .. PageSize - 1 : flash[FlashAddr(s, o + i)] = Erased

\* get_next_valid_section.
NextValid(valid, s) ==
    LET next(d) == (s + d) % SectionNum
    IN  next(CHOOSE d \in 1 .. SectionNum :
                next(d) \in valid /\ \A k \in 1 .. d - 1 : next(k) \notin valid)

\* The value of an int16_t; CountRange stands for 2^16.
Signed(x) == ((x + CountRange \div 2) % CountRange) - CountRange \div 2

FindHeadTail_LowestFirst(valid, count) ==
    [head |-> CHOOSE s \in valid : \A t \in valid : s <= t,
     tail |-> CHOOSE s \in valid : \A t \in valid : s >= t]

\* find_head_tail_section: follow the counts upwards from the first valid
\* section; where they stop is one end of the log, the next section the other.
FindHeadTail(valid, count) ==
    LET first == CHOOSE s \in valid : \A t \in valid : s <= t
        pair[i \in 0 .. SectionNum] ==
            IF i = 0 THEN [prev |-> first, curr |-> NextValid(valid, first)]
            ELSE LET p == pair[i - 1]
                 IN  IF count[p.prev] + 1 = count[p.curr]
                     THEN [prev |-> p.curr, curr |-> NextValid(valid, p.curr)]
                     ELSE p
        ends == pair[SectionNum]
    IN  IF Signed(count[ends.prev] - count[ends.curr]) > 0
        THEN [head |-> ends.curr, tail |-> ends.prev]
        ELSE [head |-> ends.prev, tail |-> ends.curr]

\* nodes_info_load's walk over one section: the nodes it meets and the offset
\* at which it stops.  Where no metadata is, the walk goes on with the next
\* page, and an empty page ends it.
Walk(s, start) ==
    LET walk[o \in 0 .. 3 * SectionSize] ==
            IF o < HeadLen \/ o >= SectionSize THEN [nodes |-> << >>, end |-> o]
            ELSE IF MetadataAt(s, o)
            THEN LET n == NodeAt(s, o)
                     rest == walk[o + NodeLen(n)]
                 IN  [rest EXCEPT !.nodes = <<[node |-> n, section |-> s, offset |-> o]>> \o @]
            ELSE IF o % PageSize = 0 /\ PageEmpty(s, o) THEN [nodes |-> << >>, end |-> o]
            ELSE walk[(o \div PageSize) * PageSize + PageSize]
    IN  walk[start]

-----------------------------------------------------------------------------
(* node_metadata_parse[]: an entry takes the place of the earlier one with *)
(* its key, a removal entry takes it away.                                *)

SameKey(m, n) ==
    \/ IsRecord(m) /\ IsRecord(n) /\ m.parent = n.parent /\ m.name = n.name
    \/ IsDir(m) /\ IsDir(n) /\ m.id = n.id

Adds(n) == IsRecord(n) \/ IsDir(n)

Overrides_RemovalsIgnored(later, earlier) == SameKey(later, earlier)

Overrides(later, earlier) == SameKey(later, earlier) \/ Removes(later, earlier)

\* What is left of a log, section by section, oldest first.
Survivors(log) ==
    LET left == {log[i] : i \in {k \in 1 .. Len(log) :
                    /\ Adds(log[k].node)
                    /\ \A j \in k + 1 .. Len(log) : ~Overrides(log[j].node, log[k].node)}}
    IN  [s \in Sections |-> Among(log, {e \in left : e.section = s})]

LoadOrder_ByNumber(valid, tail) ==
    Among([i \in 1 .. SectionNum |-> i - 1], valid)

\* The valid sections from behind the tail round to the tail.
LoadOrder(valid, tail) ==
    Among([i \in 1 .. SectionNum |-> (tail + i) % SectionNum], valid)

Gap_TailCounted(head, tail) ==
    IF tail >= head THEN SectionNum - tail + head ELSE head - tail - 1

Gap_TailTwice(head, tail) ==
    IF tail >= head THEN SectionNum - 2 - tail + head ELSE head - tail - 2

\* nodes_info_load's free_bytes: what is left of the tail section and the
\* sections between the tail and the head.
Gap(head, tail) == IF tail >= head THEN SectionNum - 1 - tail + head ELSE head - tail - 1

Load ==
    LET valid == ValidSections
        ends == FindHeadTail(valid, [s \in valid |-> HeadOf(s).count])
        order == LoadOrder(valid, ends.tail)
        walk(s) == Walk(s, HeadOf(s).offset)
        log == FlattenSeq([i \in DOMAIN order |-> walk(order[i]).nodes])
    IN  /\ list' = Survivors(log)
        /\ size' = [s \in Sections |-> Total(list'[s])]
        /\ dirIdMax' = Max({0} \cup {e.node.id : e \in {x \in ToSet(log) : IsDir(x.node)}})
        /\ headSec' = ends.head /\ tailSec' = ends.tail
        /\ tailCount' = HeadOf(ends.tail).count
        /\ avail' = walk(ends.tail).end
        /\ free' = SectionSize - avail' + Payload * Gap(ends.head, ends.tail)

Fresh ==
    /\ list' = [s \in Sections |-> << >>] /\ size' = [s \in Sections |-> 0]
    /\ dirIdMax' = 0
    /\ headSec' = 0 /\ tailSec' = PrevSection(0)
    /\ tailCount' = 0
    /\ avail' = SectionSize
    /\ free' = SectionNum * Payload

-----------------------------------------------------------------------------
(* The history variables. *)

Key(m) == IF IsRecord(m) THEN <<"record", m.parent, m.name>> ELSE <<"dir", m.id>>

\* A node is intact when flash holds all of it.
IntactIn(e) == FlashUnits(e.section, e.offset, NodeLen(e.node)) = Image(e.node)

\* The store once an entry has been added to it.
Applied(store, n) ==
    IF Adds(n) THEN {m \in store : ~SameKey(m, n)} \cup {n}
    ELSE {m \in store : ~Removes(n, m)}

\* The entry of the call is on its way to flash from here on ...
Begun == pc = "gc" /\ pc' = "emit"
\* ... and has become part of the store here: its call may return.
Entered == pc = "emit" /\ out = << >> /\ ~copying
\* Nothing is left in the cache: the end of tinyfs_write_through, called by the
\* application or by the garbage collector.
Flushed == buf' = << >> /\ <<pc, pc'>> \in {<<"idle", "idle">>, <<"copy", "erase">>}

History ==
    /\ vol' = IF Entered THEN LiveNodes' ELSE vol
    /\ kept' = IF Begun THEN kept \cup {Applied(vol, todo[1])}
               ELSE IF Flushed THEN {vol} ELSE kept
    /\ risk' = IF pc = "idle" /\ pc' = "gc"
               THEN risk \cup {Key(m) : m \in LiveNodes \ LiveNodes'}
               ELSE IF Flushed /\ pc = "idle" THEN {} ELSE risk
    /\ torn' = torn

Reset ==
    /\ IF ValidSections = {} THEN Fresh ELSE Load
    /\ flash' = flash /\ buf' = << >> /\ bufAddr' = 0
    /\ pc' = "idle" /\ todo' = << >> /\ out' = << >> /\ starting' = FALSE
    /\ entry' = NoEntry /\ copying' = FALSE
    /\ source' = NoSource /\ unread' = 0
    /\ rounds' = 0 /\ allowed' = 0
    /\ torn' = (torn \/ \E e \in Live' : ~IntactIn(e))
    /\ vol' = LiveNodes' /\ kept' = {vol'} /\ risk' = {}

RInit == Init /\ vol = {} /\ kept = {{}} /\ risk = {} /\ torn = FALSE

RNext == (Next /\ History) \/ Reset

RSpec == RInit /\ [][RNext]_recoveryVars

-----------------------------------------------------------------------------
(* Properties. *)

\* The store as TinyStore describes it.
Store == INSTANCE TinyStore
StoreSpec == Store!StoreSpec

\* Unless a reset has cut a record in two, everything that holds while power
\* lasts holds after tinyfs_init as well: in particular the tail it recovers
\* is the start of a page, as its empty cache needs.
Recovered ==
    torn \/ (CacheAligned /\ FreeExact /\ RoomLeft /\ ErasedAhead /\ LiveReadable /\ ListsExact)

\* The collector has room for what it still has to copy of the section it has
\* read (the reserve garbage_collect_try keeps), however many collections a
\* power loss has cut short before.
CopyFits == ~torn => free >= unread

\* Only a reset that finds the last record half in the cache tears it: after
\* tinyfs_write_through, between calls, no reset does, and the volume comes
\* back as it was, to the byte.
SyncedResetExact ==
    [][Reset /\ ~torn /\ pc = "idle" /\ buf = << >> =>
        /\ ~torn'
        /\ Live' = Live /\ size' = size
        /\ (tailCount > 0 => <<headSec', tailSec', tailCount', avail', free'>>
                               = <<headSec, tailSec, tailCount, avail, free>>)]_recoveryVars
=============================================================================
