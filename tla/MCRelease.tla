------------------------------ MODULE MCRelease ------------------------------
(* A small instance of Release for TLC: two lines of one book and one of     *)
(* another; of three texts one is short, and closer to text1 than to text2.  *)
EXTENDS Release
CONSTANTS short1, text1, text2
MCLines == {<<1, 1>>, <<1, 2>>, <<2, 1>>}
MCCosine ==
    [k \in {short1} |-> [n \in {short1, text1, text2} |-> IF n = text1 THEN 2 ELSE 1]]
=============================================================================
