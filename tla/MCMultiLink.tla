---------------------------- MODULE MCMultiLink ----------------------------
(***************************************************************************)
(* A small instance of the multi-link bridge for TLC: a frame for a link    *)
(* that may be up, and one too long, with a sync byte in the payload.       *)
(***************************************************************************)
EXTENDS MultiLink

MCSlots == [r \in Roles |-> IF r = "slave" THEN 2 ELSE 1]

Frame(l, payload) == <<Sync, Len(payload), l>> \o payload

MCFrames == {Frame(0, <<9, 9>>), Frame(0, <<9, Sync, 9>>)}

Budget(f, w, c) == [frames |-> f, writes |-> w, conns |-> c]

\* The one way much and the other little, and both ways at once.
MCBudgets == {Budget(2, 0, 1), Budget(0, 1, 2), Budget(0, 2, 1), Budget(1, 1, 1)}
=============================================================================
