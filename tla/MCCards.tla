------------------------------- MODULE MCCards -------------------------------
(***************************************************************************)
(* Instances of Cards for TLC: those of Delivery, with a reader.           *)
(***************************************************************************)
EXTENDS MCDelivery, Cards

CONSTANT c1

=============================================================================
