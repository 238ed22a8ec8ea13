------------------------------ MODULE MCSpecDecode ------------------------------
(***************************************************************************)
(* Instances of SpecDecode.  The answers alternate irregularly, so drafts  *)
(* that are right, wrong from the start and wrong in the middle all exist. *)
(***************************************************************************)
EXTENDS SpecDecode

Last(c, i) == IF Len(c) < i THEN 0 ELSE c[Len(c) - i + 1]
MCAnswer(c) == (Last(c, 1) + Last(c, 3) + (Len(c) \div 2)) % 2

MCPrompts == { <<1, 0, 1, 1>> }
MCShortPrompts == { <<1, 0>> }
================================================================================
