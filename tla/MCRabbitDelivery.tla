--------------------------- MODULE MCRabbitDelivery ---------------------------
(***************************************************************************)
(* Model-checking instances of RabbitDelivery.  No symmetry: the runs check *)
(* liveness, and copies are named by NextFree.                              *)
(***************************************************************************)
EXTENDS RabbitDelivery
===============================================================================
