-------------------- MODULE ScaleSetDeliveryRecoveryState --------------------
(***************************************************************************)
(* The recovery document of one reconciled delivery, the fence that stands *)
(* between the catalog and the service until the delivery is settled.  As  *)
(* in the modules below it, an operator returns the set of documents the   *)
(* method may hand back, {} for Err and {r} for an idempotent replay.      *)
(*                                                                         *)
(* A delivery is a message id and its events in order.  The document binds *)
(* catalogs by revision and digest; here it holds the catalog itself, which*)
(* is what an equal digest means.  The prior catalog a prepared settlement *)
(* carries is the bound one by validation, and is not held twice.          *)
(***************************************************************************)
EXTENDS ScaleSetDeliveryConsumer

DeliveryMessages == [message_id : Nat, events : Seq(DeliveryEvents)]

available_request_ids(delivery) ==
  {delivery.events[i].id : i \in {k \in DOMAIN delivery.events :
                                    delivery.events[k].kind = "Available"}}

EventRequests(delivery) == {delivery.events[i].id : i \in DOMAIN delivery.events}

\* Every event of a message in order; one that is refused refuses them all.
reconcile_scale_set_delivery(delivery, c, observed_at) ==
  FoldLeft(LAMBDA catalogs, event : UNION {reconcile_event(event, d, observed_at) :
                                             d \in catalogs},
           {c}, delivery.events)

\* One event of a later message read as evidence that an acquisition whose
\* answer was lost took effect: its request must still be untouched.
ResolvingEvent(event, ambiguous, c) ==
  UNION {IF event.kind = "Assigned" THEN {c}
         ELSE IF IsRunnerlessCancellation(event) THEN retire_unprovisioned_cancellation(c, a)
         ELSE {} :
           a \in {b \in find_active(c, event.id) :
                    event.id \in ambiguous /\ b.phase = "Reserved"}}

\* The catalogs a resolving message leaves; it acquires every request it names.
reconcile_scale_set_acquisition_resolution(ambiguous, delivery, c) ==
  IF ambiguous = {} \/ delivery.events = <<>> THEN {}
  ELSE FoldLeft(LAMBDA catalogs, event : UNION {ResolvingEvent(event, ambiguous, d) :
                                                  d \in catalogs},
                {c}, delivery.events)

-----------------------------------------------------------------------------
(***************************************************************************)
(* Phases and documents.                                                   *)
(***************************************************************************)
Reconciled == [name |-> "Reconciled"]
AcknowledgementStarted == [name |-> "AcknowledgementStarted"]
Acknowledged(acquired) == [name |-> "Acknowledged", acquired |-> acquired]
AcquisitionRecoveryObserved(acquired) ==
  [name |-> "AcquisitionRecoveryObserved", acquired |-> acquired]
Lifecycle(name, resolution) == [name |-> name, resolution |-> resolution]
SettlementPrepared(proof, acquired, target) ==
  [name |-> "SettlementPrepared", proof |-> proof, acquired |-> acquired, target |-> target]

LifecyclePhases ==
  {"LifecycleReconciled", "LifecycleAcknowledgementStarted", "LifecycleAcknowledged"}

Resolutions ==
  [base_revision : Nat, delivery : DeliveryMessages, acquired : SUBSET AttemptIds,
   prior_catalog : CatalogDocuments]

SettlementProofs ==
  [kind : {"Acknowledged", "AcquisitionRecovery"}]
  \cup [kind : {"LifecycleEvidence"}, resolution : Resolutions]

RecoveryPhases ==
  {Reconciled, AcknowledgementStarted}
  \cup [name : {"Acknowledged", "AcquisitionRecoveryObserved"}, acquired : SUBSET AttemptIds]
  \cup [name : LifecyclePhases, resolution : Resolutions]
  \cup [name : {"SettlementPrepared"}, proof : SettlementProofs, acquired : SUBSET AttemptIds,
        target : CatalogDocuments]

RecoveryDocuments ==
  [revision : Nat, prior_catalog : CatalogDocuments, catalog : CatalogDocuments,
   delivery : DeliveryMessages, phase : RecoveryPhases]

matches_prior_catalog(r, c) == r.prior_catalog = c
matches_catalog(r, c) == r.catalog = c
matches_settlement_catalog(r, c) ==
  r.phase.name = "SettlementPrepared" /\ r.phase.target = c

\* lifecycle_resolution().is_some()
HasResolution(r) == r.phase.name \in LifecyclePhases

\* A document binds its catalog and an earlier one, or the same one.
BindsForward(prior, c) ==
  prior.revision <= c.revision /\ (prior.revision = c.revision => prior = c)

\* ScaleSetLifecycleResolution::validate, for a document `steps' past its base.
ValidResolution(r, resolution, steps) ==
  /\ resolution.base_revision = 3 /\ r.revision = 3 + steps
  /\ resolution.delivery.message_id > r.delivery.message_id
  /\ BindsForward(r.prior_catalog, resolution.prior_catalog)
  /\ resolution.acquired # {}
  /\ resolution.acquired = EventRequests(resolution.delivery)
  /\ r.catalog \in reconcile_scale_set_acquisition_resolution(
                     available_request_ids(r.delivery), resolution.delivery,
                     resolution.prior_catalog)

\* The resolution a document rests on and how many documents ago it was made.
ResolutionSteps(phase) ==
  CASE phase.name = "LifecycleReconciled" -> {<<phase.resolution, 1>>}
    [] phase.name = "LifecycleAcknowledgementStarted" -> {<<phase.resolution, 2>>}
    [] phase.name = "LifecycleAcknowledged" -> {<<phase.resolution, 3>>}
    [] phase.name = "SettlementPrepared" ->
         {<<proof.resolution, 4>> : proof \in {p \in {phase.proof} : p.kind = "LifecycleEvidence"}}
    [] OTHER -> {}

validate_recovery(r) ==
  LET phase == r.phase
      acquired_is_offered == phase.acquired \subseteq available_request_ids(r.delivery)
  IN
  /\ BindsForward(r.prior_catalog, r.catalog)
  /\ \A s \in ResolutionSteps(phase) : ValidResolution(r, s[1], s[2])
  /\ CASE phase.name = "Reconciled" -> r.revision = 1
       [] phase.name = "AcknowledgementStarted" -> r.revision = 2
       [] phase.name = "Acknowledged" -> r.revision = 3 /\ acquired_is_offered
       [] phase.name = "AcquisitionRecoveryObserved" ->
            /\ r.revision >= 3 /\ (phase.acquired # {} \/ r.revision = 3)
            /\ acquired_is_offered
       [] phase.name = "SettlementPrepared" ->
            /\ acquired_is_offered
            /\ CASE phase.proof.kind = "Acknowledged" -> r.revision = 4
                 [] phase.proof.kind = "AcquisitionRecovery" ->
                      r.revision >= 4 /\ phase.acquired # {}
                 [] phase.proof.kind = "LifecycleEvidence" ->
                      phase.acquired = phase.proof.resolution.acquired
            /\ BindsForward(r.catalog, phase.target)
       [] OTHER -> TRUE

ValidDocuments(documents) == {r \in documents : validate_recovery(r)}

\* RecoveryState::successor and successor_with_catalog
Successor(r, phase, c) ==
  ValidDocuments({[r EXCEPT !.revision = @ + 1, !.catalog = c, !.phase = phase]})

-----------------------------------------------------------------------------
(***************************************************************************)
(* The operations.                                                         *)
(***************************************************************************)
recovery_reconciled(delivery, prior, c) ==
  ValidDocuments({[revision |-> 1, prior_catalog |-> prior, catalog |-> c,
                   delivery |-> delivery, phase |-> Reconciled]})

begin_ack(r) ==
  CASE r.phase = Reconciled -> Successor(r, AcknowledgementStarted, r.catalog)
    [] r.phase = AcknowledgementStarted -> {r}
    [] OTHER -> {}

record_ack_response(r, acquired) ==
  IF ~ acquired \subseteq available_request_ids(r.delivery) THEN {}
  ELSE CASE r.phase = AcknowledgementStarted -> Successor(r, Acknowledged(acquired), r.catalog)
         [] r.phase = Acknowledged(acquired) -> {r}
         [] OTHER -> {}

\* A replayed acquisition adds to what was observed and never concludes from
\* an empty answer.
record_recovery_acquire(r, acquired) ==
  LET observed == IF r.phase.name = "AcquisitionRecoveryObserved" THEN r.phase.acquired ELSE {}
      phase == AcquisitionRecoveryObserved(observed \cup acquired)
  IN
  IF \/ r.phase.name \notin {"AcknowledgementStarted", "AcquisitionRecoveryObserved"}
     \/ ~ acquired \subseteq available_request_ids(r.delivery)
  THEN {}
  ELSE IF r.phase = phase THEN {r} ELSE Successor(r, phase, r.catalog)

\* A later message without offers, all of whose requests were ambiguous.
prepare_lifecycle_resolution(r, delivery, acquired, prior, target) ==
  IF /\ r.phase = AcquisitionRecoveryObserved({})
     /\ matches_catalog(r, prior)
     /\ delivery.message_id > r.delivery.message_id
     /\ available_request_ids(delivery) = {}
     /\ acquired # {} /\ acquired \subseteq available_request_ids(r.delivery)
     /\ acquired \subseteq EventRequests(delivery)
  THEN Successor(r, Lifecycle("LifecycleReconciled",
                              [base_revision |-> r.revision, delivery |-> delivery,
                               acquired |-> acquired, prior_catalog |-> prior]), target)
  ELSE {}

begin_lifecycle_ack(r) ==
  CASE r.phase.name = "LifecycleReconciled" ->
         Successor(r, Lifecycle("LifecycleAcknowledgementStarted", r.phase.resolution), r.catalog)
    [] r.phase.name = "LifecycleAcknowledgementStarted" -> {r}
    [] OTHER -> {}

record_lifecycle_ack(r) ==
  CASE r.phase.name = "LifecycleAcknowledgementStarted" ->
         Successor(r, Lifecycle("LifecycleAcknowledged", r.phase.resolution), r.catalog)
    [] r.phase.name = "LifecycleAcknowledged" -> {r}
    [] OTHER -> {}

is_lifecycle_resolution_of(r, predecessor) ==
  /\ HasResolution(r)
  /\ r.phase.resolution.base_revision = predecessor.revision
  /\ matches_catalog(predecessor, r.phase.resolution.prior_catalog)
  /\ r.prior_catalog = predecessor.prior_catalog
  /\ r.delivery = predecessor.delivery

\* What a conclusive document says was acquired: a set of at most one set.
SettlementEvidence(r) ==
  CASE r.phase.name = "Acknowledged" ->
         {[proof |-> [kind |-> "Acknowledged"], acquired |-> r.phase.acquired]}
    [] r.phase.name = "AcquisitionRecoveryObserved" /\ r.phase.acquired # {} ->
         {[proof |-> [kind |-> "AcquisitionRecovery"], acquired |-> r.phase.acquired]}
    [] r.phase.name = "LifecycleAcknowledged" ->
         {[proof |-> [kind |-> "LifecycleEvidence", resolution |-> r.phase.resolution],
           acquired |-> r.phase.resolution.acquired]}
    [] OTHER -> {}

\* prepare_settlement and prepare_settlement_binding
prepare_settlement(r, c, target) ==
  UNION {Successor(r, SettlementPrepared(e.proof, e.acquired, target), r.catalog) :
           e \in {e \in SettlementEvidence(r) : matches_catalog(r, c)}}

\* The catalog that remains once a conclusive delivery is settled.
SettledCatalogs(r, c) ==
  LET evidence == IF r.phase.name = "SettlementPrepared" THEN {r.phase} ELSE SettlementEvidence(r)
  IN UNION {FoldLeft(LAMBDA catalogs, event :
                       UNION {settle_scale_set_delivery_catalog(event, event.id \in e.acquired, d) :
                                d \in catalogs},
                     {c}, r.delivery.events) :
              e \in {e \in evidence : matches_catalog(r, c)}}

\* What one publication may replace a document by.
exact_recovery_successor(r, next) ==
  /\ next.revision = r.revision + 1
  /\ next.catalog.revision = r.catalog.revision
  /\ next.delivery = r.delivery
  /\ next \in
       CASE next.phase.name = "AcknowledgementStarted" -> begin_ack(r)
         [] next.phase.name = "Acknowledged" -> record_ack_response(r, next.phase.acquired)
         [] next.phase.name = "AcquisitionRecoveryObserved" ->
              record_recovery_acquire(r, next.phase.acquired)
         [] next.phase.name = "LifecycleAcknowledgementStarted" -> begin_lifecycle_ack(r)
         [] next.phase.name = "LifecycleAcknowledged" -> record_lifecycle_ack(r)
         [] next.phase.name = "SettlementPrepared" ->
              prepare_settlement(r, next.catalog, next.phase.target)
         [] OTHER -> {}

-----------------------------------------------------------------------------
(***************************************************************************)
(* What the store's transactions may publish.                              *)
(***************************************************************************)
\* The fence a delivery puts up; it carries the catalog published with it.
ReconciledFences(delivery, c, observed_at) ==
  UNION {recovery_reconciled(delivery, c, d) :
           d \in reconcile_scale_set_delivery(delivery, c, observed_at)}

ResolvedFences(r, delivery, c) ==
  UNION {prepare_lifecycle_resolution(r, delivery, EventRequests(delivery), c, d) :
           d \in reconcile_scale_set_acquisition_resolution(
                   available_request_ids(r.delivery), delivery, c)}

\* The documents one publication may replace the fence by, settlement apart.
Advances(r) ==
  LET answers == SUBSET available_request_ids(r.delivery) IN
  begin_ack(r) \cup begin_lifecycle_ack(r) \cup record_lifecycle_ack(r)
    \cup UNION {record_ack_response(r, acquired) \cup record_recovery_acquire(r, acquired) :
                  acquired \in answers}

\* What the coordinator's own transactions make of the catalog.
OrdinaryActions ==
  {[name |-> n] : n \in {"AuthorizeClone", "RecordCloneStarted", "BeginUnprovisionedRelease",
                         "CompleteUnprovisioned", "BeginRegistration",
                         "RecordJitGenerationStarted", "RecordRunnerStartStarted",
                         "BeginCleanup"}}
    \cup {[name |-> "AdvanceCleanup", phase |-> p] : p \in Cleanup \cup {"Complete"}}

OrdinarySuccessors(c) ==
  LET BoundVm(a) == UNION {catalog_bind_vm_identity_after_clone(c, a.id, a.revision, v) :
                             v \in VmIdentities}
      Registered(a) == UNION {replace_attempt(c, a.id, a.revision,
                                              [name |-> "RecordRegistration",
                                               runner |-> [name |-> a.id, id |-> i]]) :
                                i \in RunnerIds}
      Advanced(a) == UNION {replace_attempt(c, a.id, a.revision, action) :
                              action \in OrdinaryActions}
  IN (UNION {retire_complete(c, a.id, a.revision) \cup BoundVm(a) \cup Registered(a)
              \cup Advanced(a) : a \in Range(c.active)}) \ {c}

=============================================================================
