------------------------------- MODULE MCVram -------------------------------
(* Small instances of VramAdmission for TLC.                               *)
EXTENDS VramAdmission

\* No two models fit together.
Sizes == [m \in Models |-> 2]

\* Every size known and no cloud; a size unknown, with the cloud.
Known == [connus |-> Models, secours |-> {"raison"}, cloud |-> FALSE]
Partly == [connus |-> {"code"}, secours |-> {}, cloud |-> TRUE]
Both == {Known, Partly}

\* Nothing escapes the promises but the readings of the card.
OnlyReadings == {[Known EXCEPT !.secours = {}]}
=============================================================================
