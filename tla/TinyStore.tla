------------------------------ MODULE TinyStore ------------------------------
(***************************************************************************)
(* What TinyFs promises, flash and garbage collection left out: a store of  *)
(* records and directories that changes one node at a time.  A reset brings *)
(* back a state the store has been in since it was last synced, except that *)
(* a record whose replacement was under way, or not yet synced, may be      *)
(* missing.  Nothing is promised any more once a reset has cut a record in  *)
(* two (`torn').                                                           *)
(***************************************************************************)
EXTENDS TinyFsLayout

VARIABLES
    vol,    \* the nodes of the store, as the application sees it
    kept,   \* the states a reset may bring back
    risk,   \* keys of records a reset may lose
    torn    \* a reset has cut a record in two

storeVars == <<vol, kept, risk, torn>>

Ids(store) == {m.id : m \in {x \in store : IsDir(x)}}
HasDir(p) == p = RootId \/ p \in Ids(vol)
NodeKey(m) == IF IsRecord(m) THEN <<"record", m.parent, m.name>> ELSE <<"dir", m.id>>

(* What one call, or one node of a forced delete, makes of the store. *)

Put(p, n, v) ==
    IF HasDir(p)
    THEN {{m \in vol : NodeKey(m) # <<"record", p, n>>} \cup {RecordAdd(p, n, v)}} ELSE {}

MakeDir(p, n, id) ==
    IF HasDir(p) /\ \A m \in vol : ~(IsDir(m) /\ m.parent = p /\ m.name = n)
    THEN {vol \cup {DirAdd(p, n, id)}} ELSE {}

\* A directory goes after everything in it.
Remove(m) == IF IsDir(m) /\ \E x \in vol : x.parent = m.id THEN {} ELSE {vol \ {m}}

Changes ==
    (UNION {Put(p, n, v) : p \in Parents, n \in Names, v \in Values})
    \cup (UNION {MakeDir(p, n, id) : p \in Parents, n \in Names, id \in DirIds})
    \cup (UNION {Remove(m) : m \in vol})

-----------------------------------------------------------------------------
StoreInit == vol = {} /\ kept = {{}} /\ risk = {} /\ torn = FALSE

\* The old copy of a record about to be replaced may be given up early.
StartReplace ==
    /\ \E m \in vol : IsRecord(m) /\ risk' = risk \cup {NodeKey(m)}
    /\ UNCHANGED <<vol, kept, torn>>

\* A change may reach flash before its call returns.  The id of a directory
\* being made belongs to no directory a reset may bring back.
Prepare ==
    \E store \in Changes :
        /\ \A old \in kept : (Ids(store) \ Ids(vol)) \cap Ids(old) = {}
        /\ kept' = kept \cup {store}
        /\ UNCHANGED <<vol, risk, torn>>

Commit ==
    /\ vol' \in Changes \cap kept
    /\ UNCHANGED <<kept, risk, torn>>

Synced ==
    /\ kept' = {vol}
    /\ risk' \in {risk, {}}
    /\ UNCHANGED <<vol, torn>>

ResetClean ==
    /\ \E store \in kept, lost \in SUBSET risk :
        vol' = {m \in store : NodeKey(m) \notin lost}
    /\ kept' = {vol'} /\ risk' = {} /\ torn' = torn

ResetTorn == torn' = TRUE

StoreNext == StartReplace \/ Prepare \/ Commit \/ Synced \/ ResetClean \/ ResetTorn

StoreSpec == StoreInit /\ [][StoreNext]_storeVars
=============================================================================
