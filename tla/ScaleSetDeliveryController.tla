---------------------- MODULE ScaleSetDeliveryController ----------------------
(***************************************************************************)
(* One delivery across its external acknowledgement: the controller, the   *)
(* bridge process it talks through and the service behind it.              *)
(*                                                                         *)
(* The catalog and the fence are durable and change as the store promises  *)
(* (ScaleSetDeliveryFence).  Everything else the controller knows is `pc'  *)
(* and `answer', and the bridge holds its `session'; a crash, an error and *)
(* a poisoned bridge all lose both, and the supervisor connects afresh.  A *)
(* request that was sent may still reach the service later, or never.      *)
(*                                                                         *)
(* A message is named by its place among all messages the service has      *)
(* sent.  The coordinator's own catalog transitions are in the module      *)
(* DisposableWorkerCoordinator; here only deliveries change the catalog.   *)
(***************************************************************************)
EXTENDS ScaleSetDeliveryRecoveryState

CONSTANTS
  ObservationTimes, \* what the clock may show when a message is observed
  MaxMessages,      \* bound on the messages the service sends
  MaxFaults         \* bound on lost sessions

ASSUME ControllerAssumption == MaxMessages \in Nat /\ MaxFaults \in Nat

\* The deadline of an observed request is a time a document can carry.
ASSUME ObservationAssumption == \A t \in ObservationTimes : attempt_not_after(t) \in Times

VARIABLES
  catalog,    \* the published attempt catalog
  fence,      \* None or the recovery document of the unsettled delivery
  session,    \* None or the bridge's state
  pc,         \* where the controller stands in the delivery
  answer,     \* requests the last acquisition handed over
  messages,   \* the events of every message the service has sent
  undeleted,  \* the messages it still holds
  job,        \* the service's view of each request
  advertised, \* the capacity of the last poll, if nothing answered it yet
  late,       \* requests of lost sessions still under way
  faults      \* sessions lost so far

durable == <<catalog, fence>>
controller == <<session, pc, answer>>
service == <<messages, undeleted, job, advertised>>
vars == <<durable, controller, service, late, faults>>

-----------------------------------------------------------------------------
(***************************************************************************)
(* The bridge and the service's queue.                                     *)
(***************************************************************************)
FreshSession == [lastAckedID |-> 0, cursorSet |-> FALSE, pending |-> None]

Message(i) == [message_id |-> i, events |-> messages[i]]

\* What a poll answers with: nothing, a message, or an error.
Nothing == [kind |-> "idle"]
Refused == [kind |-> "error"]
Got(m) == [kind |-> "message", message |-> m]

\* The oldest message past the cursor, if it offers no more than was advertised.
poll(cursor, capacity) ==
  LET held == {i \in undeleted : i > cursor} IN
  IF held = {} THEN Nothing
  ELSE LET m == Message(CHOOSE i \in held : \A j \in held : i <= j) IN
       IF Cardinality(available_request_ids(m)) > capacity THEN Refused ELSE Got(m)

\* A session may be resumed once, before its first poll.
MayResume == ~session.cursorSet /\ session.pending = None /\ session.lastAckedID = 0

\* AcquireJobs: the service hands over what nobody has taken.
Handed(ids) == {id \in ids : job[id] = "offered"}
AcquireJobs(ids) == job' = [id \in AttemptIds |-> IF id \in Handed(ids) THEN "acquired" ELSE job[id]]

-----------------------------------------------------------------------------
(***************************************************************************)
(* How a step of the controller leaves its bridge.                         *)
(***************************************************************************)
\* poison, an error answer, and RecoveryRequired: the supervisor drops the session.
Drop == session' = None /\ pc' = "tick" /\ answer' = {}

\* The session now holds message m, which must be acknowledged before the next poll.
Hold(m, cursor, next) ==
  /\ session' = [lastAckedID |-> cursor, cursorSet |-> TRUE, pending |-> m]
  /\ pc' = next /\ UNCHANGED answer

Continue(next) == pc' = next /\ UNCHANGED <<session, answer>>

\* A tick with a live session whose fence is in one of these phases.
Ticking(phases) ==
  /\ pc = "tick" /\ session # None
  /\ IF fence = None THEN "none" \in phases ELSE fence.phase.name \in phases

\* Between two steps of one delivery, with its document in hand.
At(places) == pc \in places /\ fence # None

Unoffered(m) == available_request_ids(m) = {}
Original == fence.delivery.message_id

Connect ==
  /\ pc = "tick" /\ session = None
  /\ session' = FreshSession
  /\ UNCHANGED <<durable, pc, answer, service, late, faults>>

-----------------------------------------------------------------------------
(***************************************************************************)
(* A new message: consume_with_bridge_capacity_inner.                      *)
(***************************************************************************)
\* advertised_capacity: one while the catalog is empty and storage admits it.
AdvertisedCapacities == IF catalog.active = <<>> THEN {0, 1} ELSE {0}

ConsumeIdle ==
  /\ Ticking({"none"})
  /\ \E capacity \in AdvertisedCapacities :
       /\ poll(session.lastAckedID, capacity) = Nothing
       /\ advertised' = capacity
  /\ session' = [session EXCEPT !.cursorSet = TRUE]
  /\ UNCHANGED <<durable, pc, answer, messages, undeleted, job, late, faults>>

\* Mutant: the fence goes up before the catalog that belongs to it.
ConsumeFenceFirst ==
  /\ Ticking({"none"})
  /\ \E capacity \in AdvertisedCapacities, t \in ObservationTimes :
       LET polled == poll(session.lastAckedID, capacity) IN
       /\ polled.kind = "message"
       /\ \E r \in ReconciledFences(polled.message, catalog, t) :
            fence' = [r EXCEPT !.catalog = catalog]
       /\ Hold(polled.message, session.lastAckedID, "reconciled")
  /\ advertised' = 0
  /\ UNCHANGED <<catalog, messages, undeleted, job, late, faults>>

\* reconcile_and_ack_delivery_inner, up to the published fence.
ConsumeMessage ==
  /\ Ticking({"none"})
  /\ \E capacity \in AdvertisedCapacities, t \in ObservationTimes :
       LET polled == poll(session.lastAckedID, capacity) IN
       /\ polled.kind = "message"
       /\ fence' \in ReconciledFences(polled.message, catalog, t)
       /\ catalog' = fence'.catalog
       /\ Hold(polled.message, session.lastAckedID, "reconciled")
  /\ advertised' = 0
  /\ UNCHANGED <<messages, undeleted, job, late, faults>>

\* The bridge or the consumer refuses the message; nothing is published.
ConsumeRefused ==
  /\ Ticking({"none"})
  /\ \E capacity \in AdvertisedCapacities, t \in ObservationTimes :
       LET polled == poll(session.lastAckedID, capacity) IN
       /\ \/ polled = Refused
          \/ polled.kind = "message" /\ ReconciledFences(polled.message, catalog, t) = {}
  /\ Drop /\ advertised' = 0
  /\ UNCHANGED <<durable, messages, undeleted, job, late, faults>>

\* A restart before acknowledgement began: the exact message must come again.
ResumeReconciled ==
  /\ Ticking({"Reconciled"})
  /\ LET capacity == IF Unoffered(fence.delivery) THEN 0 ELSE 1
         polled == poll(session.lastAckedID, capacity)
     IN
     /\ IF polled = Got(fence.delivery) THEN Hold(fence.delivery, session.lastAckedID, "reconciled")
        ELSE Drop
     /\ advertised' = IF polled = Nothing THEN capacity ELSE 0
  /\ UNCHANGED <<durable, messages, undeleted, job, late, faults>>

-----------------------------------------------------------------------------
(***************************************************************************)
(* Acknowledgement: acknowledge_delivery and acknowledge_lifecycle.        *)
(***************************************************************************)
\* The Started checkpoint, durable before the bridge is called.
BeginAck ==
  /\ At({"reconciled", "lifecycle"})
  /\ fence' \in IF HasResolution(fence) THEN begin_lifecycle_ack(fence) ELSE begin_ack(fence)
  /\ Continue("ack")
  /\ UNCHANGED <<catalog, service, late, faults>>

AckTarget == IF HasResolution(fence) THEN fence.phase.resolution.delivery ELSE fence.delivery

\* The bridge's ack deletes the message it holds, then acquires what it offered.
DeleteMessage ==
  /\ pc = "ack" /\ session.pending = AckTarget
  /\ undeleted' = undeleted \ {AckTarget.message_id}
  /\ IF Unoffered(AckTarget)
     THEN /\ pc' = "answered"
          /\ session' = [session EXCEPT !.lastAckedID = AckTarget.message_id, !.pending = None]
     ELSE pc' = "acquire" /\ UNCHANGED session
  /\ UNCHANGED <<durable, answer, messages, job, advertised, late, faults>>

AckAcquire ==
  /\ pc = "acquire"
  /\ answer' = Handed(available_request_ids(AckTarget))
  /\ AcquireJobs(available_request_ids(AckTarget))
  /\ session' = [session EXCEPT !.lastAckedID = AckTarget.message_id, !.pending = None]
  /\ pc' = "answered"
  /\ UNCHANGED <<durable, messages, undeleted, advertised, late, faults>>

RecordAck ==
  /\ At({"answered"})
  /\ fence' \in IF HasResolution(fence) THEN record_lifecycle_ack(fence)
                ELSE record_ack_response(fence, answer)
  /\ pc' = "settle" /\ answer' = {}
  /\ UNCHANGED <<catalog, session, service, late, faults>>

\* Mutant: the fence comes down without the catalog it settles to.
SettleFenceOnly ==
  /\ pc = "settle" \/ Ticking({"Acknowledged", "AcquisitionRecoveryObserved",
                               "LifecycleAcknowledged"})
  /\ SettledCatalogs(fence, catalog) # {}
  /\ fence' = None
  /\ Continue("tick")
  /\ UNCHANGED <<catalog, service, late, faults>>

\* settle_delivery, also on restart from a conclusive phase.
Settle ==
  /\ At({"settle"}) \/ Ticking({"Acknowledged", "AcquisitionRecoveryObserved",
                               "LifecycleAcknowledged"})
  /\ catalog' \in SettledCatalogs(fence, catalog)
  /\ fence' = None
  /\ Continue("tick")
  /\ UNCHANGED <<service, late, faults>>

-----------------------------------------------------------------------------
(***************************************************************************)
(* Recovery after an acknowledgement whose outcome is not known.           *)
(***************************************************************************)
\* recover_acquisition: never the acknowledgement, only the acquisition.
ReplayAcquisition ==
  /\ Ticking({"AcknowledgementStarted"}) /\ ~Unoffered(fence.delivery)
  /\ session.pending = None
  /\ answer' = Handed(available_request_ids(fence.delivery))
  /\ AcquireJobs(available_request_ids(fence.delivery))
  /\ pc' = "recovered"
  /\ UNCHANGED <<durable, session, messages, undeleted, advertised, late, faults>>

\* Mutant: nothing handed over is taken to mean that nothing was.
RecordEmptyReplay ==
  /\ pc = "recovered"
  /\ fence' \in record_ack_response(fence, answer)
  /\ pc' = "settle" /\ answer' = {}
  /\ UNCHANGED <<catalog, session, service, late, faults>>

RecordReplay ==
  /\ At({"recovered"})
  /\ fence' \in record_recovery_acquire(fence, answer)
  /\ pc' = (IF fence'.phase.acquired = {} THEN "observe" ELSE "settle") /\ answer' = {}
  /\ UNCHANGED <<catalog, session, service, late, faults>>

\* observe_lifecycle_resolution: past the original message, with no capacity.
Observing ==
  \/ At({"observe"})
  \/ Ticking({"AcquisitionRecoveryObserved"}) /\ fence.phase.acquired = {}

ObserveResolution ==
  /\ Observing /\ MayResume
  /\ LET polled == poll(Original, 0) IN
     /\ polled.kind = "message"
     /\ fence' \in ResolvedFences(fence, polled.message, catalog)
     /\ catalog' = fence'.catalog
     /\ Hold(polled.message, Original, "lifecycle")
  /\ advertised' = 0
  /\ UNCHANGED <<messages, undeleted, job, late, faults>>

\* Mutant: the resumed session is used again although nothing was observed.
ObserveNothingAndKeep ==
  /\ Observing /\ MayResume
  /\ LET polled == poll(Original, 0) IN
     polled.kind = "message" => ResolvedFences(fence, polled.message, catalog) = {}
  /\ session' = [session EXCEPT !.lastAckedID = Original, !.cursorSet = TRUE]
  /\ pc' = "tick" /\ advertised' = 0
  /\ UNCHANGED <<durable, answer, messages, undeleted, job, late, faults>>

ObserveNothing ==
  /\ Observing /\ MayResume
  /\ LET polled == poll(Original, 0) IN
     polled.kind = "message" => ResolvedFences(fence, polled.message, catalog) = {}
  /\ Drop /\ advertised' = 0
  /\ UNCHANGED <<durable, messages, undeleted, job, late, faults>>

\* A message past `acknowledged' that offers nothing, or none, shows it deleted.
ShowsAbsence(polled, acknowledged) ==
  \/ polled = Nothing
  \/ /\ polled.kind = "message" /\ polled.message.message_id > acknowledged.message_id
     /\ Unoffered(polled.message)

\* Mutant: only an exact redelivery concludes a lost acknowledgement.
RecoverAckRedelivered ==
  /\ Ticking({"AcknowledgementStarted"}) /\ Unoffered(fence.delivery)
  /\ IF poll(session.lastAckedID, 0) = Got(fence.delivery)
     THEN Hold(fence.delivery, session.lastAckedID, "ack") /\ UNCHANGED fence
     ELSE Drop /\ UNCHANGED fence
  /\ advertised' = 0
  /\ UNCHANGED <<catalog, messages, undeleted, job, late, faults>>

\* recover_acknowledgement_without_acquisition
RecoverAck ==
  /\ Ticking({"AcknowledgementStarted"}) /\ Unoffered(fence.delivery)
  /\ LET polled == poll(session.lastAckedID, 0) IN
     CASE polled = Got(fence.delivery) ->
            Hold(fence.delivery, session.lastAckedID, "ack") /\ UNCHANGED fence
       [] polled # Got(fence.delivery) /\ ShowsAbsence(polled, fence.delivery) ->
            /\ fence' \in record_ack_response(fence, {})
            /\ session' = None /\ pc' = "settle" /\ UNCHANGED answer
       [] OTHER -> Drop /\ UNCHANGED fence
  /\ advertised' = 0
  /\ UNCHANGED <<catalog, messages, undeleted, job, late, faults>>

\* Mutant: a started lifecycle acknowledgement is taken to have taken effect.
RecoverLifecycleAckBlindly ==
  /\ Ticking({"LifecycleReconciled", "LifecycleAcknowledgementStarted"}) /\ MayResume
  /\ IF fence.phase.name = "LifecycleAcknowledgementStarted"
     THEN fence' \in record_lifecycle_ack(fence) /\ session' = None /\ pc' = "settle" /\ UNCHANGED answer
     ELSE Drop /\ UNCHANGED fence
  /\ advertised' = 0
  /\ UNCHANGED <<catalog, messages, undeleted, job, late, faults>>

\* recover_lifecycle_ack: the same for the message that resolved the fence.
RecoverLifecycleAck ==
  /\ Ticking({"LifecycleReconciled", "LifecycleAcknowledgementStarted"}) /\ MayResume
  /\ LET polled == poll(Original, 0)
         started == fence.phase.name = "LifecycleAcknowledgementStarted"
     IN
     CASE polled = Got(AckTarget) -> Hold(AckTarget, Original, "lifecycle") /\ UNCHANGED fence
       [] polled # Got(AckTarget) /\ started /\ ShowsAbsence(polled, AckTarget) ->
            /\ fence' \in record_lifecycle_ack(fence)
            /\ session' = None /\ pc' = "settle" /\ UNCHANGED answer
       [] OTHER -> Drop /\ UNCHANGED fence
  /\ advertised' = 0
  /\ UNCHANGED <<catalog, messages, undeleted, job, late, faults>>

-----------------------------------------------------------------------------
(***************************************************************************)
(* Faults: a crash, a lost answer or a failed call, and what was sent.     *)
(***************************************************************************)
UnderWay ==
  CASE pc = "ack" -> {[op |-> "delete", message_id |-> AckTarget.message_id]}
    [] \/ pc = "acquire"
       \/ Ticking({"AcknowledgementStarted"}) /\ ~Unoffered(fence.delivery) ->
         {[op |-> "acquire", ids |-> available_request_ids(fence.delivery)]}
    [] OTHER -> {}

LoseSession ==
  /\ faults < MaxFaults /\ (session # None \/ pc # "tick")
  /\ Drop
  /\ late' \in {late, late \cup UnderWay}
  /\ faults' = faults + 1
  /\ UNCHANGED <<durable, service>>

LateDelete ==
  \E r \in late :
    /\ r.op = "delete"
    /\ undeleted' = undeleted \ {r.message_id} /\ late' = late \ {r}
    /\ UNCHANGED <<durable, controller, messages, job, advertised, faults>>

LateAcquire ==
  \E r \in late :
    /\ r.op = "acquire"
    /\ AcquireJobs(r.ids) /\ late' = late \ {r}
    /\ UNCHANGED <<durable, controller, messages, undeleted, advertised, faults>>

-----------------------------------------------------------------------------
(***************************************************************************)
(* The service: it answers the capacity of a poll with one offered or      *)
(* assigned job while none is outstanding, confirms what was acquired, and *)
(* cancels.                                                                *)
(***************************************************************************)
Send(event) ==
  /\ messages' = Append(messages, <<event>>)
  /\ undeleted' = undeleted \cup {Len(messages) + 1}

\* Within the bound there is room for the whole life of a job: three messages.
RoomForJob == Len(messages) + 3 <= MaxMessages
Outstanding == \E id \in AttemptIds : job[id] \in {"offered", "acquired", "assigned"}

Offer(id) ==
  /\ job[id] = "new" /\ advertised = 1 /\ ~Outstanding /\ RoomForJob
  /\ Send(Available(id)) /\ job' = [job EXCEPT ![id] = "offered"]
  /\ advertised' = 0
  /\ UNCHANGED <<durable, controller, late, faults>>

AssignUnoffered(id) ==
  /\ job[id] = "new" /\ advertised = 1 /\ ~Outstanding /\ RoomForJob
  /\ Send(Assigned(id)) /\ job' = [job EXCEPT ![id] = "assigned"]
  /\ advertised' = 0
  /\ UNCHANGED <<durable, controller, late, faults>>

AssignAcquired(id) ==
  /\ job[id] = "acquired"
  /\ Send(Assigned(id)) /\ job' = [job EXCEPT ![id] = "assigned"]
  /\ UNCHANGED <<durable, controller, advertised, late, faults>>

Cancel(id) ==
  /\ job[id] \in {"acquired", "assigned"}
  /\ Send(Completed(id, None, Canceled)) /\ job' = [job EXCEPT ![id] = "canceled"]
  /\ UNCHANGED <<durable, controller, advertised, late, faults>>

\* An offered job is taken by another runner, or withdrawn.
Withdraw(id) ==
  /\ job[id] = "offered" /\ job' = [job EXCEPT ![id] = "gone"]
  /\ UNCHANGED <<durable, controller, messages, undeleted, advertised, late, faults>>

-----------------------------------------------------------------------------
Init ==
  /\ catalog = empty /\ fence = None
  /\ session = None /\ pc = "tick" /\ answer = {}
  /\ messages = <<>> /\ undeleted = {} /\ advertised = 0
  /\ job = [id \in AttemptIds |-> "new"]
  /\ late = {} /\ faults = 0

ControllerStep ==
  \/ Connect \/ ConsumeIdle \/ ConsumeMessage \/ ConsumeRefused \/ ResumeReconciled
  \/ BeginAck \/ DeleteMessage \/ AckAcquire \/ RecordAck \/ Settle
  \/ ReplayAcquisition \/ RecordReplay \/ ObserveResolution \/ ObserveNothing
  \/ RecoverAck \/ RecoverLifecycleAck

Next ==
  \/ ControllerStep
  \/ LoseSession \/ LateDelete \/ LateAcquire
  \/ \E id \in AttemptIds : Offer(id) \/ AssignUnoffered(id) \/ AssignAcquired(id)
                             \/ Cancel(id) \/ Withdraw(id)

Spec == Init /\ [][Next]_vars

\* The supervisor reconnects and ticks for ever, and the service confirms
\* what it handed over.
FairSpec ==
  /\ Spec
  /\ WF_vars(ControllerStep)
  /\ \A id \in AttemptIds : WF_vars(AssignAcquired(id))

-----------------------------------------------------------------------------
(***************************************************************************)
(* Properties.                                                             *)
(***************************************************************************)
Known(id) == find_active(catalog, id) \cup find_tombstone(catalog, id) # {}

\* A job the service handed to this host keeps its reservation until a message
\* about it says otherwise, however often answers were lost, delayed or replayed.
AcquiredIsReserved ==
  \A id \in AttemptIds :
    job[id] \in {"acquired", "assigned"} =>
      \/ find_active(catalog, id) # {}
      \/ \E i \in undeleted : id \in EventRequests(Message(i))

\* No message leaves the queue before what it says is in the durable catalog:
\* its request is known, and a canceled one no longer holds the host.
DeletedIsReconciled ==
  \A i \in DOMAIN messages \ undeleted :
    \A k \in DOMAIN messages[i] :
      LET event == messages[i][k] IN
      /\ Known(event.id)
      /\ event.kind = "Completed" => find_active(catalog, event.id) = {}

\* Every call finds the bridge in a state that accepts it: a recovery starts
\* from a session that holds no message and was never polled, and what is
\* acknowledged is what the session holds.
BridgeAcceptsEveryCall ==
  /\ pc = "tick" /\ fence # None /\ session # None => session = FreshSession
  /\ pc = "tick" /\ session # None => session.pending = None
  /\ pc = "observe" => MayResume
  /\ pc \in {"ack", "acquire"} => session.pending = AckTarget

\* The messages a step settles.
Settling == {fence.delivery} \cup (IF HasResolution(fence) THEN {AckTarget} ELSE {})

\* A message that offers nothing is settled only once the service has deleted
\* it, so that it cannot come back for a finished delivery.
LifecycleSettlesDeleted ==
  [][fence # None /\ fence' = None =>
       \A m \in Settling : Unoffered(m) => m.message_id \notin undeleted]_vars

\* All the controller does to the durable state is what the store promises.
Store == INSTANCE ScaleSetDeliveryFence WITH
  Deliveries <- {[message_id |-> i, events |-> <<e>>] :
                   i \in 1..MaxMessages,
                   e \in UNION {{Available(id), Assigned(id), Completed(id, None, Canceled)} :
                                  id \in AttemptIds}}
ImplementsFence == Store!Spec

\* After a replayed acquisition a delivery settles although the service may still
\* hold its offer.  Such an offer can stand in the way of a recovery that polls
\* from the start of the queue,
BehindOffer ==
  /\ fence # None
  /\ \/ fence.phase.name = "Reconciled"
     \/ fence.phase.name = "AcknowledgementStarted" /\ Unoffered(fence.delivery)
  /\ \E i \in undeleted : i < Original /\ ~Unoffered(Message(i))

\* or come again when the evidence about it, or it itself, is about to go.
OfferedAgain ==
  /\ fence # None
  /\ \E id \in available_request_ids(fence.delivery) :
       find_active(fence.prior_catalog, id) \cup find_tombstone(fence.prior_catalog, id) # {}
  /\ \/ fence.phase.name = "Reconciled" /\ Original \notin undeleted
     \/ /\ fence.phase.name = "AcquisitionRecoveryObserved"
        /\ \A i \in undeleted : i > Original =>
             EventRequests(Message(i)) \cap available_request_ids(fence.delivery) = {}

\* A fence comes down, unless the service gave its jobs to someone else or an
\* offer that a settled delivery left in the queue stops it for good.
FenceSettles ==
  fence # None ~> \/ fence = None
                  \/ \E id \in available_request_ids(fence.delivery) : job[id] = "gone"
                  \/ []BehindOffer
                  \/ []OfferedAgain

=============================================================================
