----------------------------- MODULE MCEvaluation -----------------------------
(* Operators, Matching, Natives, Scanner and Traces share no state: part says which of them
   runs. *)
EXTENDS Operators, Matching, Natives, Scanner, Traces

VARIABLE part
evaluationVars == <<part, operatorVars, matchingVars, nativesVars, scannerVars, tracesVars>>

EvaluationInit ==
  /\ part \in {"operators", "matching", "natives", "scanner", "traces"}
  /\ OperatorsInit /\ MatchingInit /\ NativesInit /\ ScannerInit /\ TracesInit

EvaluationNext ==
  \/ part = "operators" /\ OperatorsNext
     /\ UNCHANGED <<part, matchingVars, nativesVars, scannerVars, tracesVars>>
  \/ part = "matching" /\ MatchingNext
     /\ UNCHANGED <<part, operatorVars, nativesVars, scannerVars, tracesVars>>
  \/ part = "natives" /\ NativesNext
     /\ UNCHANGED <<part, operatorVars, matchingVars, scannerVars, tracesVars>>
  \/ part = "scanner" /\ ScannerNext
     /\ UNCHANGED <<part, operatorVars, matchingVars, nativesVars, tracesVars>>
  \/ part = "traces" /\ TracesNext
     /\ UNCHANGED <<part, operatorVars, matchingVars, nativesVars, scannerVars>>

EvaluationSpec == EvaluationInit /\ [][EvaluationNext]_evaluationVars

\* The variables of the five parts keep their types.
EvaluationTypeOK ==
  OperatorsTypeOK /\ MatchingTypeOK /\ NativesTypeOK /\ ScannerTypeOK /\ TracesTypeOK
=============================================================================
