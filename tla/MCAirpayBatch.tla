---------------------------- MODULE MCAirpayBatch ----------------------------
(* AirpayBatch for TLC: an order of two vouchers through two renewals, one *)
(* of three through one; handlers are interchangeable.                     *)
EXTENDS AirpayBatchProperties, TLC

MCRenewable == [q \in Quantities |-> IF q = 2 THEN {1, 2} ELSE {1}]

Symmetry == Permutations(Handlers)
=============================================================================
