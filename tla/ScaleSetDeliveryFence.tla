------------------------ MODULE ScaleSetDeliveryFence ------------------------
(***************************************************************************)
(* What the private store promises its callers: one catalog and at most    *)
(* one delivery fence that change together, atomically and durably.  A     *)
(* delivery is reconciled into the catalog and fenced in one step, the     *)
(* fence advances alone, and settling it removes it with the catalog it    *)
(* leaves behind.  While it stands nothing else changes the catalog.  What *)
(* each operation makes of a document or a catalog is a parameter, given   *)
(* by ScaleSetDeliveryRecoveryState.                                       *)
(*                                                                         *)
(* PairedPublication shows that the renames, directory syncs and recovery  *)
(* of the store implement this, and ScaleSetDeliveryController that the    *)
(* controller uses nothing else.                                           *)
(***************************************************************************)
CONSTANTS
  None,
  empty,                       \* the catalog a store is created with
  Deliveries,                  \* the messages the service may hand out
  ObservationTimes,            \* when a message may be observed
  ReconciledFences(_, _, _),   \* the fences a delivery puts up over a catalog
  Advances(_),                 \* the documents that may replace one
  ResolvedFences(_, _, _),     \* the documents a resolving message makes of one
  SettledCatalogs(_, _),       \* the catalogs a document settles to
  OrdinarySuccessors(_)        \* what a transaction of the coordinator makes of a catalog

VARIABLES
  catalog,  \* the published attempt catalog
  fence     \* None or the recovery document of the unsettled delivery

vars == <<catalog, fence>>

Init == catalog = empty /\ fence = None

-----------------------------------------------------------------------------
Reconcile ==
  /\ fence = None
  /\ \E delivery \in Deliveries, t \in ObservationTimes :
       fence' \in ReconciledFences(delivery, catalog, t)
  /\ catalog' = fence'.catalog

Advance ==
  /\ fence # None
  /\ fence' \in Advances(fence)
  /\ UNCHANGED catalog

Resolve ==
  /\ fence # None
  /\ \E delivery \in Deliveries : fence' \in ResolvedFences(fence, delivery, catalog)
  /\ catalog' = fence'.catalog

Settle ==
  /\ fence # None
  /\ catalog' \in SettledCatalogs(fence, catalog)
  /\ fence' = None

Ordinary ==
  /\ fence = None
  /\ catalog' \in OrdinarySuccessors(catalog)
  /\ UNCHANGED fence

Next == Reconcile \/ Advance \/ Resolve \/ Settle \/ Ordinary

Spec == Init /\ [][Next]_vars

=============================================================================
