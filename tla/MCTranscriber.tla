--------------------------- MODULE MCTranscriber ---------------------------
(* Transcriber.tla on a few recordings and threads, with named budgets of   *)
(* faults.                                                                  *)
EXTENDS Transcriber, TLC

CONSTANTS a, b, c, w1, w2

NoFaults == [k \in FaultKinds |-> 0]
Faults(S) == [k \in FaultKinds |-> IF k \in S THEN 1 ELSE 0]
EveryFault == Faults(FaultKinds)
ExitsAndRemovals == Faults({"api", "removal"})
Exits == Faults({"api"})
Removals == Faults({"removal"})

MainAndWorkers == Workers \cup {Main}

SymmetricWorkers == Permutations(Workers)
=============================================================================
