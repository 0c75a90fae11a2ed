--------------------- MODULE MCScaleSetDeliveryController ---------------------
(***************************************************************************)
(* Two jobs and six messages: an offer, its assignment and its             *)
(* cancellation for each.                                                  *)
(***************************************************************************)
EXTENDS ScaleSetDeliveryController

MCJobOf(id) == id
=============================================================================
