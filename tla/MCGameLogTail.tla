---------------------------- MODULE MCGameLogTail ----------------------------
(* GameLogTail for TLC, with one burst rule of at least two lines "a".     *)
EXTENDS GameLogTail

MCRules == << [id |-> "burst", anchor |-> "a", member |-> "a", min |-> 2, gap |-> 0] >>
=============================================================================
