-------------------------- MODULE BoundedPipelineMC --------------------------
(* Budgeted channels of one batch and of two, a counted channel of two for *)
(* which nothing is charged, one of one, and a budgeted rendezvous; with   *)
(* inputs of as many batches as fill the channel, one in each hand, one    *)
(* more and a rest.                                                        *)
EXTENDS BoundedPipeline

MCConfigs ==
    {[budgeted |-> TRUE, capacity |-> 1, limit |-> 3, batchSize |-> 2, maxRows |-> 5],
     [budgeted |-> FALSE, capacity |-> 2, limit |-> 1, batchSize |-> 2, maxRows |-> 9],
     [budgeted |-> TRUE, capacity |-> 2, limit |-> 5, batchSize |-> 1, maxRows |-> 5],
     [budgeted |-> FALSE, capacity |-> 1, limit |-> 1, batchSize |-> 3, maxRows |-> 10],
     [budgeted |-> TRUE, capacity |-> 0, limit |-> 3, batchSize |-> 1, maxRows |-> 3]}
=============================================================================
