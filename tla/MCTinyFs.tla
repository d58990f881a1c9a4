------------------------------ MODULE MCTinyFs ------------------------------
(***************************************************************************)
(* Small volumes for TLC while power lasts: values of one and two units, so *)
(* that entries end at every offset of a page and of a section.             *)
(***************************************************************************)
EXTENDS TinyFs, TLC

CONSTANTS v1, v2

MCDataLenOne == v1 :> 1
MCDataLen == (v1 :> 1) @@ (v2 :> 2)
=============================================================================
