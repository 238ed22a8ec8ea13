----------------------------- MODULE GreedyDecode -----------------------------
(***************************************************************************)
(* What a generation promises, with --spec on or off (the contract at the  *)
(* head of src/tools/decode_main.cpp): NGen tokens, each of them the       *)
(* model's answer to the prompt and the tokens before it.  With an         *)
(* approximate mode switched on only the shape of the output is promised.  *)
(***************************************************************************)
EXTENDS Naturals, Sequences

CONSTANTS Tokens, NGen, Answer(_)

VARIABLES
  prompt,
  exact,   \* no approximate mode is on
  out      \* tokens generated so far

greedyVars == <<prompt, exact, out>>

GreedyInit == out = <<>>

Generate ==
  /\ Len(out) < NGen
  /\ \E t \in Tokens :
       /\ exact => t = Answer(prompt \o out)
       /\ out' = Append(out, t)
  /\ UNCHANGED <<prompt, exact>>

(* --bench repeats the generation.                                         *)
Repeat ==
  /\ Len(out) = NGen
  /\ out' = <<>>
  /\ UNCHANGED <<prompt, exact>>

GreedyNext == Generate \/ Repeat

GreedySpec == GreedyInit /\ [][GreedyNext]_greedyVars
================================================================================
