---------------------------- MODULE MCKnowledge ----------------------------
(* Model values, traces and goals for Knowledge. *)
EXTENDS Knowledge

CONSTANTS main, a, b, c, goal

MCBlocks == {a, b, c}

\* An entry and a step; a step that shares a block with it; a loop; all blocks.
MCTraces == {<<<<main>>, <<a, b>>>>, <<<<a, c>>, <<main>>>>, <<<<b, a>>, <<a, b>>>>,
             <<<<a, b>>, <<c, c>>>>}

MCGoals == [x \in MCBlocks |-> IF x = a THEN {} ELSE {goal}]

\* Of the scores drawn for want of models one is not zero.
MCMockedScores == {[x \in MCBlocks |-> IF x = b THEN {goal} ELSE {}]}
=============================================================================
