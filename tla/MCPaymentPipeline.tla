-------------------------- MODULE MCPaymentPipeline --------------------------
(* Model-checking instances of PaymentPipeline. *)
EXTENDS PaymentPipeline, TLC

Symmetry == Permutations(Txns) \cup Permutations(Requests) \cup Permutations(Workers)
=============================================================================
