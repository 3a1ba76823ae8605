------------------------------ MODULE MCRouteTrace -----------------------------
(* Instance of RouteTrace: three experts of different sizes.                   *)
EXTENDS RouteTrace

\* A prompt in two steps, a caller that tries again, a model of one layer, a deeper one.
Task(layers, prompt, tokens, direct) ==
  [layers |-> layers, prompt |-> prompt, tokens |-> tokens, direct |-> direct]
MCTasks ==
  {Task(2, 3, 0, FALSE), Task(2, 1, 1, TRUE), Task(2, 1, 2, FALSE), Task(1, 3, 1, TRUE),
   Task(3, 1, 0, FALSE)}

MCBytes == [e \in Experts |-> e + 1]
================================================================================
