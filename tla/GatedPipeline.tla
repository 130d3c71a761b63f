---------------------------- MODULE GatedPipeline ----------------------------
(***************************************************************************)
(* A contract pipeline from its declaration to its report: the build       *)
(* compares the last output's declaration with the sink's contract         *)
(* (ContractPolicy), and a pipeline that compiles maps its declarations    *)
(* and runs (ContractPipeline).                                            *)
(*                                                                         *)
(* ContractPipeline has one declaration for the last output and the sink,  *)
(* and no validation at the sink. Here they are the two ends of the        *)
(* comparison, so that what ContractPipeline takes for granted is checked. *)
(* A connection under another policy is compared and not run.  What a run  *)
(* asks of a validator, whether a batch fits a declaration, BatchValidation*)
(* answers for every batch, where the declaration is one of Arrivals.      *)
(***************************************************************************)
EXTENDS ContractPipeline, ContractPolicy, BatchValidation

CONSTANTS
    Run,      \* bound: the declarations whose pipeline is run
    Arrivals  \* bound: the declarations whose batches are validated

\* A map is two levels of fields: itself and its entries.
ASSUME LevelsAssumption == 2 * Nesting <= Levels

\* Whether the last output's declaration can be mapped is the gate's to say.
GatedInit ==
    /\ Declare /\ Init /\ NoArrival
    /\ producer \in Run \/ (0..(N - 1) \subseteq mappable /\ table = <<>>)
    /\ (N \in mappable) <=> Prepared(producer)

\* SchemaConforms::CHECK, before there is a program to run.
Compile == Check /\ UNCHANGED <<vars, batchVars>>

Compiled == gate # "declared" /\ gate # "refused" /\ policy = "ExactOrdered"

\* The stages before the last output, the last output, and the sink.
PrepareEarlier ==
    Compiled /\ step < N /\ Prepare /\ UNCHANGED <<gateVars, batchVars>>
PrepareLast == step = N /\ Prepare /\ MapSource /\ UNCHANGED batchVars
PrepareSink == step = Sink /\ Prepare /\ MapSink /\ UNCHANGED batchVars

RunStep ==
    /\ gate = "ready" /\ producer \in Run
    /\ \/ Open \/ Finish \/ Receive \/ CallTransform
       \/ RegisterBatch \/ RunQuery \/ CheckCounts \/ CallSink \/ Count
    /\ UNCHANGED <<gateVars, batchVars>>

(* A batch that claims to be of the last output's declaration reaches the  *)
(* validator prepared for it.                                              *)
DeclaredFields == schemas[1]

Validated ==
    /\ gate = "ready" /\ phase = "built" /\ producer \in Arrivals /\ arrived = Nothing
    /\ Arrive(DeclaredFields)
    /\ UNCHANGED <<vars, gateVars>>

GatedNext ==
    Compile \/ PrepareEarlier \/ PrepareLast \/ PrepareSink \/ RunStep \/ Validated

GatedSpec == GatedInit /\ [][GatedNext]_<<vars, gateVars, batchVars>>

(* A batch passes exactly when it has the declared schema and everything a *)
(* reader can reach through live parents and collection windows is there;  *)
(* a refusal names one of the places that are not (ReadsWhatIsVisible).    *)
ValidatorReadsWhatIsVisible ==
    arrived # Nothing => ReadsWhatIsVisible(DeclaredFields)
=============================================================================
