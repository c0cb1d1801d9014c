--------------------------- MODULE MCAcmFeedback ---------------------------
(***************************************************************************)
(* Codewords of two units, of which one or both hold information; calls    *)
(* that find up to three; four kinds of estimator, every second            *)
(* measurement published.                                                  *)
(***************************************************************************)
EXTENDS AcmFeedback

MCEstimators == {[impl |-> "py", type |-> "hybrid", pilots |-> TRUE],
                 [impl |-> "py", type |-> "blind_m2m4", pilots |-> FALSE],
                 [impl |-> "cpp", type |-> "hybrid", pilots |-> TRUE],
                 [impl |-> "cpp", type |-> "blind_m2m4", pilots |-> TRUE]}

MCKbch == [mc \in Modcods |-> mc]

=============================================================================
