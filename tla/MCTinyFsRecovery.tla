-------------------------- MODULE MCTinyFsRecovery --------------------------
(***************************************************************************)
(* Small volumes under power loss for TLC.                                 *)
(***************************************************************************)
EXTENDS TinyFsRecovery

CONSTANTS v1, v2, n1, n2

MCDataLen == v1 :> 1
MCDataLenTwo == (v1 :> 1) @@ (v2 :> 1)

\* Names are only compared with each other, and so are values of one length.
NameSymmetry == Permutations({n1, n2})
ValueSymmetry == Permutations({v1, v2})

NotTorn == ~torn
=============================================================================
