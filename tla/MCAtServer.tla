----------------------------- MODULE MCAtServer -----------------------------
(***************************************************************************)
(* Small instances of the AT command bridge for TLC.                        *)
(***************************************************************************)
EXTENDS AtServer

MCSlots == [r \in Roles |-> 2]

Typed(c) == << <<"AT+">>, c, <<"end">> >>
X == << <<"x">> >>
Plus == << <<"+">> >>

MCLinesShort == {X, Typed(<<"+++">>)}

\* Data below and above the level at which they are sent at once, the escape, both ways into
\* the transparent mode, and a one-slot transmission.
MCLines == {X, X \o X \o X \o X \o X, Plus \o Plus \o Plus,
            Typed(<<"+++">>), Typed(<<"AUTO", TRUE>>), Typed(<<"SEND", 0, 2>>)}
=============================================================================
