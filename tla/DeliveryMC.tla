----------------------------- MODULE DeliveryMC -----------------------------
(***************************************************************************)
(* Values for the constants of Delivery: every commit brings a migration.  *)
(***************************************************************************)
EXTENDS Delivery

MCNeeds == [c \in Shas |-> c]
=============================================================================
