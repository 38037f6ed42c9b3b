------------------------------ MODULE MCPipeline ------------------------------
(* Two stages and three batches: two requests that must all succeed, one that  *)
(* must, and one that may fail.                                                *)
EXTENDS Pipeline

MCBatches ==
  << [stage |-> 1, jobs |-> {1, 2}, strict |-> TRUE],
     [stage |-> 2, jobs |-> {3}, strict |-> TRUE],
     [stage |-> 2, jobs |-> {4}, strict |-> FALSE] >>
=============================================================================
