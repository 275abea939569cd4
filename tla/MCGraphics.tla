----------------------------- MODULE MCGraphics -----------------------------
(***************************************************************************)
(* Graphics with two windows, one texture, frames of two strokes and two   *)
(* events waiting.  A script that draws runs without a user; one that      *)
(* waits for its window to be closed clears it at most, beside any user.   *)
(***************************************************************************)
EXTENDS Graphics

Proper == {<<>>, <<"string">> \o Numbers(3), Numbers(7), <<"string">>, <<"table", "number", "number">>, Numbers(1)}
Improper == {Numbers(4), <<"number", "number", "string", "number">>, <<"number", "string", "number", "number">>,
             <<"table", "string", "number">>}
AnyKinds == Proper \cup Improper

VARIABLE script   \* what it is for

MCVars == <<vars, script>>
MCInit == Init /\ script \in {"draws", "waits"}

MCNext ==
  /\ Next /\ UNCHANGED script
  /\ IF script = "draws" THEN events' = <<>> /\ held' = {}
     ELSE args' \in {<<>>, <<"string">> \o Numbers(3), Numbers(1)} /\ Len(drawn') <= 1

MCSpec == MCInit /\ [][MCNext]_MCVars /\ WF_vars(update(<<>>)) /\ WF_vars(gfx_should_close(<<>>))
=============================================================================
