-------------------------------- MODULE MCUI --------------------------------
(* The shell with a few of its icons on two pages. *)
EXTENDS JuliusUI

PageDef == [a \in Names |-> IF a \in {"Notes", "Files"} THEN 0 ELSE 1]
SearchesDef == {<<>>, <<"Drop", "Notes", Command>>}
=============================================================================
