---------------------------- MODULE TinyFsLayout ----------------------------
(***************************************************************************)
(* What a TinyFs volume looks like in flash (dev/module/tinyfs): SectionNum *)
(* sections of SectionSize units, each a whole number of pages of PageSize  *)
(* units, the page being the unit of programming.  A unit stands for a few  *)
(* bytes; a cell is what one unit of flash holds.                           *)
(*                                                                         *)
(* A node is a log entry.  Its image is a sequence of cells <<node, i>>:    *)
(* a reader that finds the cells <<n,1>>, ..., <<n,k>> in a row has read k  *)
(* units whose CRC matches; anything else is a CRC error.                   *)
(***************************************************************************)
EXTENDS Integers, Sequences

CONSTANTS
    SectionNum,      \* TINYFS_SECTION_NUM
    SectionSize,     \* TINYFS_SECTION_SIZE
    PageSize,        \* TINYFS_WRITE_CACHE_SIZE
    HeadLen,         \* sizeof(section_head_t)
    AddLen,          \* sizeof(record_add_t), also NODE_METADATA_LENGTH_MAX
    DirLen,          \* sizeof(dir_add_t)
    RecordRemoveLen, \* sizeof(record_remove_t)
    DirRemoveLen,    \* sizeof(dir_remove_t)
    CrcLen,          \* TINYFS_CRC_LENGTH
    Names,           \* record and directory names
    Values,          \* record contents
    DataLen,         \* the length of each value, a function on Values
    DirIdMax,        \* 0xffff: the last directory id
    CountRange       \* 2^16: loop_count is a uint16_t

ASSUME GeometryAssumption ==
    /\ SectionNum \in Nat /\ SectionNum >= 3
    /\ PageSize \in Nat \ {0}
    /\ SectionSize \in Nat
    /\ \E q \in 1 .. SectionSize : SectionSize = q * PageSize
    /\ HeadLen \in 1..PageSize /\ HeadLen < SectionSize

\* nvm_read_node follows a node over the end of one section only, and no call
\* checks its length: that a node fits in a section is left to the caller.
ASSUME LengthAssumption ==
    /\ AddLen \in Nat \ {0} /\ AddLen <= SectionSize - HeadLen
    /\ DirLen \in 1..AddLen
    /\ RecordRemoveLen \in 1..AddLen
    /\ DirRemoveLen \in 1..AddLen
    /\ CrcLen \in Nat \ {0}
    /\ DataLen \in [Values -> Nat \ {0}]
    /\ \A v \in Values : AddLen + DataLen[v] + CrcLen <= SectionSize - HeadLen
    /\ DirIdMax \in Nat
    /\ CountRange \in Nat \ {0}

-----------------------------------------------------------------------------
Sections == 0 .. SectionNum - 1
Addresses == 0 .. SectionNum * SectionSize - 1
RootId == 0
DirIds == 1 .. DirIdMax
Parents == {RootId} \cup DirIds

\* The space a section has for nodes.
Payload == SectionSize - HeadLen

NextSection_NoWrap(s) == s + 1
NextSection(s) == IF s + 1 = SectionNum THEN 0 ELSE s + 1
PrevSection(s) == IF s = 0 THEN SectionNum - 1 ELSE s - 1

\* GET_FLASH_ADDR, relative to the volume's base.
FlashAddr(s, o) == s * SectionSize + o

-----------------------------------------------------------------------------
RecordAdds == [type : {"RECORD_ADD"}, parent : Parents, name : Names, val : Values]
DirAdds == [type : {"DIR_ADD"}, parent : Parents, name : Names, id : DirIds]
RecordRemoves == [type : {"RECORD_REMOVE"}, parent : Parents, name : Names]
DirRemoves == [type : {"DIR_REMOVE"}, id : DirIds]
Nodes == RecordAdds \cup DirAdds \cup RecordRemoves \cup DirRemoves

RecordAdd(p, n, v) == [type |-> "RECORD_ADD", parent |-> p, name |-> n, val |-> v]
DirAdd(p, n, id) == [type |-> "DIR_ADD", parent |-> p, name |-> n, id |-> id]
RecordRemove(p, n) == [type |-> "RECORD_REMOVE", parent |-> p, name |-> n]
DirRemove(id) == [type |-> "DIR_REMOVE", id |-> id]

IsRecord(n) == n.type = "RECORD_ADD"
IsDir(n) == n.type = "DIR_ADD"

\* node_metadata_length[]: what nodes_info_load reads and checks the CRC of.
MetaLen(n) ==
    CASE n.type = "RECORD_ADD" -> AddLen
      [] n.type = "DIR_ADD" -> DirLen
      [] n.type = "RECORD_REMOVE" -> RecordRemoveLen
      [] n.type = "DIR_REMOVE" -> DirRemoveLen

\* The length of the whole node: a record's data and its CRC follow the
\* metadata.  node_total_length() is this for the two kinds it is called on.
NodeLen(n) == IF IsRecord(n) THEN AddLen + DataLen[n.val] + CrcLen ELSE MetaLen(n)

-----------------------------------------------------------------------------
SectionHead(count, offset) == [type |-> "HEAD", count |-> count, offset |-> offset]
Heads == [type : {"HEAD"}, count : 0 .. CountRange - 1, offset : 0 .. SectionSize - 1]

\* An erased unit reads 0xff; a unit programmed twice reads garbage.
Erased == <<[type |-> "ERASED"], 0>>
Garbage == <<[type |-> "GARBAGE"], 0>>
Cells == {Erased, Garbage} \cup ((Nodes \cup Heads) \X Nat)

Image(n) == [i \in 1 .. NodeLen(n) |-> <<n, i>>]
HeadImage(h) == [i \in 1 .. HeadLen |-> <<h, i>>]

\* nvm_program only clears bits: a programmed unit keeps its value when the
\* page buffer holds padding there, and is ruined by anything else.
Programmed(old, new) ==
    IF old = Erased THEN new
    ELSE IF new = Erased \/ new = old THEN old
    ELSE Garbage

\* node_write's section_head_t.node_offset: where the first node that starts
\* in the new section is, 0 (INVALID_NODE_OFFSET) when none does.
HeadNodeOffset(starting, remaining) ==
    IF starting THEN HeadLen
    ELSE IF remaining + HeadLen >= SectionSize THEN 0
    ELSE remaining + HeadLen
=============================================================================
