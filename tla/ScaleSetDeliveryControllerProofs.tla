------------------- MODULE ScaleSetDeliveryControllerProofs -------------------
(***************************************************************************)
(* The controller's protocol, for any jobs, any number of messages and any *)
(* number of lost sessions: the bridge is always called in a state that    *)
(* accepts the call, a message without offers is settled only once it was  *)
(* deleted, and the durable state changes only as the store promises.      *)
(* A job that was handed over stays reserved, and a message that left the  *)
(* queue is in the catalog.                                                *)
(***************************************************************************)
EXTENDS ScaleSetDeliveryController, DisposableAttemptLemmas

-----------------------------------------------------------------------------
(***************************************************************************)
(* Polling.                                                                *)
(***************************************************************************)
\* A poll answers with nothing, with an error, or with the oldest message past
\* the cursor.
LEMMA PollAnswers ==
  ASSUME undeleted \subseteq Nat, NEW cursor, NEW capacity
  PROVE  \/ /\ poll(cursor, capacity) = Nothing
            /\ \A i \in undeleted : ~ (i > cursor)
         \/ poll(cursor, capacity) = Refused
         \/ \E i \in undeleted :
              /\ i > cursor /\ poll(cursor, capacity) = Got(Message(i))
              /\ \A j \in undeleted : j > cursor => i <= j
<1> DEFINE held == {i \in undeleted : i > cursor}
           least == CHOOSE i \in held : \A j \in held : i <= j
<1>1. CASE held = {}
  BY <1>1 DEF poll
<1>2. CASE held # {}
  <2>1. least \in held /\ \A j \in held : least <= j
    BY <1>2, LeastMember
  <2>2. poll(cursor, capacity) \in {Refused, Got(Message(least))}
    BY <1>2 DEF poll
  <2> HIDE DEF least
  <2> QED BY <2>1, <2>2
<1> QED BY <1>1, <1>2

-----------------------------------------------------------------------------
(***************************************************************************)
(* The inductive invariant.                                                *)
(***************************************************************************)
Events == UNION {{Available(id), Assigned(id), Completed(id, None, Canceled)} :
                   id \in AttemptIds}

\* The messages sent, within their bound.
Queued ==
  /\ messages \in Seq({<<e>> : e \in Events}) /\ Len(messages) <= MaxMessages
  /\ undeleted \subseteq 1..Len(messages)

\* One job at a time is with the service, and its messages still fit.
Roomy ==
  /\ job \in [AttemptIds -> {"new", "offered", "acquired", "assigned", "canceled", "gone"}]
  /\ \A i, j \in AttemptIds :
       job[i] \in {"offered", "acquired", "assigned"} /\
       job[j] \in {"offered", "acquired", "assigned"} => i = j
  /\ \A i \in AttemptIds :
       /\ job[i] \in {"offered", "acquired"} => Len(messages) + 2 <= MaxMessages
       /\ job[i] = "assigned" => Len(messages) + 1 <= MaxMessages

\* A recovery document in one of the phases the controller publishes.
IsPhase(p) ==
  \/ p = Reconciled
  \/ p = AcknowledgementStarted
  \/ p.name = "Acknowledged" /\ p = Acknowledged(p.acquired)
  \/ p.name = "AcquisitionRecoveryObserved" /\ p = AcquisitionRecoveryObserved(p.acquired)
  \/ p.name \in LifecyclePhases /\ p = Lifecycle(p.name, p.resolution)

IsDocument(r) ==
  /\ r = [revision |-> r.revision, prior_catalog |-> r.prior_catalog, catalog |-> r.catalog,
          delivery |-> r.delivery, phase |-> r.phase]
  /\ IsPhase(r.phase)

\* Which of the first n messages a document is about, and which of them its
\* phase says are no longer held, when those of u are.
Fenced(r, n, u) ==
  /\ IsDocument(r)
  /\ r.delivery.message_id \in 1..n
  /\ r.phase.name \in LifecyclePhases \cup {"AcquisitionRecoveryObserved"} =>
       ~ Unoffered(r.delivery)
  /\ r.phase.name \in LifecyclePhases =>
       /\ r.phase.resolution.delivery.message_id \in 1..n
       /\ r.phase.resolution.delivery.message_id > r.delivery.message_id
  /\ r.phase.name = "Acknowledged" /\ Unoffered(r.delivery) =>
       r.delivery.message_id \notin u
  /\ r.phase.name = "LifecycleAcknowledged" =>
       r.phase.resolution.delivery.message_id \notin u

\* AckTarget of a document.
TargetOf(r) == IF HasResolution(r) THEN r.phase.resolution.delivery ELSE r.delivery

IsSession(s) ==
  /\ s = [lastAckedID |-> s.lastAckedID, cursorSet |-> s.cursorSet, pending |-> s.pending]
  /\ s.lastAckedID \in Nat

Asking == {"AcknowledgementStarted", "LifecycleAcknowledgementStarted"}
Conclusive == {"Acknowledged", "AcquisitionRecoveryObserved", "LifecycleAcknowledged"}

\* Between two ticks no message is pending, and a recovery finds a new session.
StandsIdle(r, s, n, u) ==
  /\ r # None => Fenced(r, n, u) /\ s \in {None, FreshSession}
  /\ s # None => IsSession(s) /\ s.pending = None

\* Inside a delivery: what each place says of the document and the session.
StandsInside(p, r, s, n, u) ==
  /\ p \in {"reconciled", "lifecycle", "ack", "acquire", "answered", "settle", "recovered",
            "observe"}
  /\ Fenced(r, n, u)
  /\ p \in {"reconciled", "lifecycle", "ack", "acquire"} =>
       IsSession(s) /\ s.pending = TargetOf(r)
  /\ p = "reconciled" => r.phase = Reconciled
  /\ p = "lifecycle" => r.phase.name \in {"LifecycleReconciled", "LifecycleAcknowledgementStarted"}
  /\ p \in {"ack", "acquire", "answered"} => r.phase.name \in Asking
  /\ p = "acquire" => ~ Unoffered(TargetOf(r))
  /\ p \in {"acquire", "answered"} => TargetOf(r).message_id \notin u
  /\ p = "answered" => IsSession(s) /\ s.pending = None
  /\ p = "settle" => /\ r.phase.name \in Conclusive
                     /\ s # None => IsSession(s) /\ s.pending = None
  /\ p = "recovered" => /\ r.phase = AcknowledgementStarted /\ ~ Unoffered(r.delivery)
                        /\ s = FreshSession
  /\ p = "observe" => r.phase = AcquisitionRecoveryObserved({}) /\ s = FreshSession

Stands(p, r, s, n, u) ==
  \/ p = "tick" /\ StandsIdle(r, s, n, u)
  \/ p # "tick" /\ StandsInside(p, r, s, n, u)

Standing == Stands(pc, fence, session, Len(messages), undeleted)

IInv == Queued /\ Roomy /\ Standing

-----------------------------------------------------------------------------
(***************************************************************************)
(* What the operations on documents return.                                *)
(***************************************************************************)
\* The document of a reconciled delivery.
LEMMA ReconciledShape ==
  ASSUME NEW m, NEW c, NEW t, NEW r \in ReconciledFences(m, c, t)
  PROVE  IsDocument(r) /\ r.delivery = m /\ r.phase = Reconciled
<1>1. PICK d : r = [revision |-> 1, prior_catalog |-> c, catalog |-> d,
                    delivery |-> m, phase |-> Reconciled]
  BY DEF ReconciledFences, recovery_reconciled, ValidDocuments
<1> QED BY <1>1 DEF IsDocument, IsPhase

\* A successor is about the same delivery.
LEMMA SuccessorShape ==
  ASSUME NEW r, IsDocument(r), NEW p, IsPhase(p), NEW c, NEW s \in Successor(r, p, c)
  PROVE  IsDocument(s) /\ s.delivery = r.delivery /\ s.phase = p
<1>1. s = [r EXCEPT !.revision = @ + 1, !.catalog = c, !.phase = p]
  BY DEF Successor, ValidDocuments
<1>2. s = [revision |-> r.revision + 1, prior_catalog |-> r.prior_catalog, catalog |-> c,
           delivery |-> r.delivery, phase |-> p]
  BY <1>1 DEF IsDocument
<1> QED BY <1>2 DEF IsDocument

\* The Started checkpoint of either acknowledgement keeps what is acknowledged.
LEMMA BeginShape ==
  ASSUME NEW r, IsDocument(r),
         NEW s \in IF HasResolution(r) THEN begin_lifecycle_ack(r) ELSE begin_ack(r)
  PROVE  /\ IsDocument(s) /\ s.delivery = r.delivery /\ s.phase.name \in Asking
         /\ HasResolution(s) <=> HasResolution(r)
         /\ HasResolution(r) => s.phase.resolution = r.phase.resolution
<1>1. CASE HasResolution(r)
  <2> DEFINE p == Lifecycle("LifecycleAcknowledgementStarted", r.phase.resolution)
  <2>1. IsPhase(p) /\ p.name = "LifecycleAcknowledgementStarted"
        /\ p.resolution = r.phase.resolution
    BY DEF IsPhase, Lifecycle, LifecyclePhases
  <2>2. CASE s \in Successor(r, p, r.catalog)
    <3>1. IsDocument(s) /\ s.delivery = r.delivery /\ s.phase = p
      BY <2>1, <2>2, SuccessorShape
    <3> QED BY <1>1, <2>1, <3>1 DEF HasResolution, LifecyclePhases, Asking
  <2>3. CASE s = r /\ r.phase.name = "LifecycleAcknowledgementStarted"
    BY <1>1, <2>3 DEF Asking
  <2> QED BY <1>1, <2>2, <2>3 DEF begin_lifecycle_ack
<1>2. CASE ~ HasResolution(r)
  <2>1. IsPhase(AcknowledgementStarted) /\ AcknowledgementStarted.name = "AcknowledgementStarted"
    BY DEF IsPhase, AcknowledgementStarted
  <2>2. CASE s \in Successor(r, AcknowledgementStarted, r.catalog)
    <3>1. IsDocument(s) /\ s.delivery = r.delivery /\ s.phase = AcknowledgementStarted
      BY <2>1, <2>2, SuccessorShape
    <3> QED BY <1>2, <2>1, <3>1 DEF HasResolution, LifecyclePhases, Asking
  <2>3. CASE s = r /\ r.phase = AcknowledgementStarted
    BY <1>2, <2>1, <2>3 DEF Asking
  <2> QED BY <1>2, <2>2, <2>3 DEF begin_ack
<1> QED BY <1>1, <1>2

\* The answer of an acknowledgement makes the document conclusive.
LEMMA AckShape ==
  ASSUME NEW r, IsDocument(r), r.phase.name = "AcknowledgementStarted", NEW acquired,
         NEW s \in record_ack_response(r, acquired)
  PROVE  /\ IsDocument(s) /\ s.delivery = r.delivery
         /\ s.phase.name = "Acknowledged" /\ s.phase.acquired = acquired
<1> DEFINE p == Acknowledged(acquired)
<1>1. IsPhase(p) /\ p.name = "Acknowledged" /\ p.acquired = acquired
  BY DEF IsPhase, Acknowledged
<1>2. r.phase # p
  BY <1>1
<1>3. s \in Successor(r, p, r.catalog)
  BY <1>2 DEF record_ack_response
<1>4. IsDocument(s) /\ s.delivery = r.delivery /\ s.phase = p
  BY <1>1, <1>3, SuccessorShape
<1> QED BY <1>1, <1>4

LEMMA LifecycleAckShape ==
  ASSUME NEW r, IsDocument(r), r.phase.name = "LifecycleAcknowledgementStarted",
         NEW s \in record_lifecycle_ack(r)
  PROVE  /\ IsDocument(s) /\ s.delivery = r.delivery
         /\ s.phase.name = "LifecycleAcknowledged"
         /\ s.phase.resolution = r.phase.resolution
<1> DEFINE p == Lifecycle("LifecycleAcknowledged", r.phase.resolution)
<1>1. IsPhase(p) /\ p.name = "LifecycleAcknowledged" /\ p.resolution = r.phase.resolution
  BY DEF IsPhase, Lifecycle, LifecyclePhases
<1>3. s \in Successor(r, p, r.catalog)
  BY DEF record_lifecycle_ack
<1>4. IsDocument(s) /\ s.delivery = r.delivery /\ s.phase = p
  BY <1>1, <1>3, SuccessorShape
<1> QED BY <1>1, <1>4

LEMMA ReplayShape ==
  ASSUME NEW r, IsDocument(r), r.phase = AcknowledgementStarted, NEW acquired,
         NEW s \in record_recovery_acquire(r, acquired)
  PROVE  /\ IsDocument(s) /\ s.delivery = r.delivery
         /\ s.phase = AcquisitionRecoveryObserved(s.phase.acquired)
         /\ s.phase.acquired \subseteq available_request_ids(r.delivery)
<1> DEFINE p == AcquisitionRecoveryObserved(acquired)
<1>1. IsPhase(p) /\ p.name = "AcquisitionRecoveryObserved" /\ p.acquired = acquired
  BY DEF IsPhase, AcquisitionRecoveryObserved
<1>2. r.phase.name = "AcknowledgementStarted" /\ r.phase # p
  BY <1>1 DEF AcknowledgementStarted
<1>3. s \in Successor(r, p, r.catalog) /\ acquired \subseteq available_request_ids(r.delivery)
  BY <1>2 DEF record_recovery_acquire
<1>4. IsDocument(s) /\ s.delivery = r.delivery /\ s.phase = p
  BY <1>1, <1>3, SuccessorShape
<1> QED BY <1>1, <1>3, <1>4

\* A resolution is a later message than the one it resolves.
LEMMA ResolvedShape ==
  ASSUME NEW r, IsDocument(r), NEW m, NEW c, NEW s \in ResolvedFences(r, m, c)
  PROVE  /\ IsDocument(s) /\ s.delivery = r.delivery
         /\ s.phase.name = "LifecycleReconciled" /\ s.phase.resolution.delivery = m
         /\ m.message_id > r.delivery.message_id
         /\ r.phase = AcquisitionRecoveryObserved({})
<1>1. PICK d : s \in prepare_lifecycle_resolution(r, m, EventRequests(m), c, d)
  BY DEF ResolvedFences
<1> DEFINE resolution == [base_revision |-> r.revision, delivery |-> m,
                          acquired |-> EventRequests(m), prior_catalog |-> c]
           p == Lifecycle("LifecycleReconciled", resolution)
<1>2. /\ s \in Successor(r, p, d)
      /\ r.phase = AcquisitionRecoveryObserved({}) /\ m.message_id > r.delivery.message_id
  BY <1>1 DEF prepare_lifecycle_resolution
<1>3. IsPhase(p) /\ p.name = "LifecycleReconciled" /\ p.resolution.delivery = m
  BY DEF IsPhase, Lifecycle, LifecyclePhases
<1>4. IsDocument(s) /\ s.delivery = r.delivery /\ s.phase = p
  BY <1>2, <1>3, SuccessorShape
<1> QED BY <1>2, <1>3, <1>4

-----------------------------------------------------------------------------
(***************************************************************************)
(* Steps keep the invariant.                                               *)
(***************************************************************************)
\* The message a document waits for is one of those sent.
LEMMA TargetIsSent ==
  ASSUME NEW r, NEW n, NEW u, Fenced(r, n, u)
  PROVE  TargetOf(r).message_id \in 1..n
BY DEF Fenced, TargetOf, HasResolution

\* Nothing is said of messages that are not sent yet, and deletions only help.
LEMMA FencedFrame ==
  ASSUME NEW r, NEW n \in Nat, NEW u, Fenced(r, n, u),
         NEW k \in Nat, k >= n, NEW v, v \cap (1..n) \subseteq u
  PROVE  Fenced(r, k, v)
<1>1. \A i \in 1..n : i \in 1..k /\ (i \notin u => i \notin v)
  OBVIOUS
<1>2. /\ IsDocument(r)
      /\ r.delivery.message_id \in 1..n
      /\ r.phase.name \in LifecyclePhases => r.phase.resolution.delivery.message_id \in 1..n
      /\ "LifecycleAcknowledged" \in LifecyclePhases
  BY DEF Fenced, LifecyclePhases
<1> QED BY <1>1, <1>2 DEF Fenced

LEMMA StandsFrame ==
  ASSUME NEW p, NEW r, NEW s, NEW n \in Nat, NEW u, Stands(p, r, s, n, u),
         NEW k \in Nat, k >= n, NEW v, v \cap (1..n) \subseteq u
  PROVE  Stands(p, r, s, k, v)
<1>1. CASE p = "tick"
  BY <1>1, FencedFrame DEF Stands, StandsIdle
<1>2. CASE p # "tick"
  <2>1. StandsInside(p, r, s, n, u)
    BY <1>2 DEF Stands
  <2>2. Fenced(r, n, u) /\ Fenced(r, k, v)
    BY <2>1, FencedFrame DEF StandsInside
  <2>3. TargetOf(r).message_id \notin u => TargetOf(r).message_id \notin v
    BY <2>2, TargetIsSent
  <2>4. StandsInside(p, r, s, k, v)
    BY <2>1, <2>2, <2>3 DEF StandsInside
  <2> QED BY <1>2, <2>4 DEF Stands
<1> QED BY <1>1, <1>2

\* The supervisor drops the session and keeps the document.
LEMMA DropStands ==
  ASSUME IInv, Drop, UNCHANGED <<fence, messages, undeleted>>
  PROVE  Standing'
<1>1. fence # None => Fenced(fence, Len(messages), undeleted)
  BY DEF IInv, Standing, Stands, StandsIdle, StandsInside
<1> QED BY <1>1 DEF Drop, Standing, Stands, StandsIdle

\* What a tick finds.
LEMMA TickFinds ==
  ASSUME IInv, NEW phases, Ticking(phases)
  PROVE  /\ IsSession(session) /\ session.pending = None
         /\ fence # None => /\ Fenced(fence, Len(messages), undeleted)
                            /\ session = FreshSession /\ fence.phase.name \in phases
         /\ fence = None => "none" \in phases
BY DEF IInv, Standing, Stands, StandsIdle, Ticking

\* The polled message is one of those sent.
LEMMA PolledIsSent ==
  ASSUME Queued, NEW cursor, NEW capacity, NEW m, poll(cursor, capacity) = Got(m)
  PROVE  /\ m.message_id \in undeleted /\ m.message_id \in 1..Len(messages)
         /\ m.message_id > cursor
         /\ m.events = messages[m.message_id]
         /\ \A j \in undeleted : j > cursor => m.message_id <= j
<1>1. undeleted \subseteq Nat
  BY DEF Queued
<1>2. Got(m) # Nothing /\ Got(m) # Refused
  BY DEF Got, Nothing, Refused
<1>3. PICK i \in undeleted : /\ i > cursor /\ Got(m) = Got(Message(i))
                             /\ \A j \in undeleted : j > cursor => i <= j
  BY <1>1, <1>2, PollAnswers
<1>4. m = Message(i)
  BY <1>3 DEF Got
<1> QED BY <1>3, <1>4 DEF Message, Queued

\* A poll with a message is a message.
LEMMA PolledKind ==
  ASSUME Queued, NEW cursor, NEW capacity, poll(cursor, capacity).kind = "message"
  PROVE  poll(cursor, capacity) = Got(poll(cursor, capacity).message)
<1>1. undeleted \subseteq Nat
  BY DEF Queued
<1> QED BY <1>1, PollAnswers DEF Got, Nothing, Refused

\* An answer that shows a message to be gone.
LEMMA AbsenceIsDeletion ==
  ASSUME Queued, NEW cursor, NEW m, m.message_id > cursor,
         ShowsAbsence(poll(cursor, 0), m)
  PROVE  m.message_id \notin undeleted
<1>1. undeleted \subseteq Nat
  BY DEF Queued
<1> SUFFICES ASSUME m.message_id \in undeleted PROVE FALSE
  OBVIOUS
<1>2. CASE poll(cursor, 0) = Nothing
  <2>1. \A i : Got(i) # Nothing /\ Refused # Nothing
    BY DEF Got, Nothing, Refused
  <2>2. \A i \in undeleted : ~ (i > cursor)
    BY <1>1, <1>2, <2>1, PollAnswers
  <2> QED BY <2>2
<1>3. CASE poll(cursor, 0) # Nothing
  <2> DEFINE seen == poll(cursor, 0).message
  <2>1. poll(cursor, 0).kind = "message" /\ seen.message_id > m.message_id
    BY <1>3 DEF ShowsAbsence
  <2>2. poll(cursor, 0) = Got(seen)
    BY <2>1, PolledKind
  <2> HIDE DEF seen
  <2>3. seen.message_id \in undeleted /\ seen.message_id <= m.message_id
    BY <2>2, PolledIsSent
  <2>4. seen.message_id \in Nat /\ m.message_id \in Nat
    BY <1>1, <2>3
  <2>5. \A i, j \in Nat : ~ (i > j /\ i <= j)
    OBVIOUS
  <2> QED BY <2>1, <2>3, <2>4, <2>5
<1> QED BY <1>2, <1>3

\* Connecting, and the poll of a controller without a fence.
LEMMA ConnectStands == ASSUME IInv, Connect PROVE Standing'
<1>1. IsSession(FreshSession) /\ FreshSession.pending = None
  BY DEF IsSession, FreshSession
<1>2. fence # None => Fenced(fence, Len(messages), undeleted)
  BY DEF IInv, Standing, Stands, StandsIdle, Connect
<1> QED BY <1>1, <1>2 DEF Connect, Standing, Stands, StandsIdle, durable, service

LEMMA IdleStands == ASSUME IInv, ConsumeIdle PROVE Standing'
<1>1. pc = "tick" /\ Ticking({"none"})
  BY DEF ConsumeIdle, Ticking
<1>2. /\ IsSession(session) /\ session.pending = None
      /\ fence # None => fence.phase.name \in {"none"} /\ Fenced(fence, Len(messages), undeleted)
  BY <1>1, TickFinds
<1>3. ASSUME fence # None PROVE FALSE
  BY <1>2, <1>3 DEF Fenced, IsDocument, IsPhase, Reconciled, AcknowledgementStarted, LifecyclePhases
<1>4. session' = [lastAckedID |-> session.lastAckedID, cursorSet |-> TRUE, pending |-> None]
  BY <1>2 DEF ConsumeIdle, IsSession
<1>5. IsSession(session') /\ session'.pending = None
  BY <1>2, <1>4 DEF IsSession
<1> QED BY <1>1, <1>3, <1>5 DEF ConsumeIdle, Standing, Stands, StandsIdle, durable

\* A tick without a fence.
LEMMA NoFence == ASSUME IInv, Ticking({"none"}) PROVE fence = None
<1>1. fence # None => fence.phase.name \in {"none"} /\ Fenced(fence, Len(messages), undeleted)
  BY TickFinds
<1> QED BY <1>1 DEF Fenced, IsDocument, IsPhase, Reconciled, AcknowledgementStarted, LifecyclePhases

\* The session holds what it must acknowledge.
LEMMA HeldStands ==
  ASSUME NEW m, NEW cursor \in Nat, NEW next, Hold(m, cursor, next)
  PROVE  IsSession(session') /\ session'.pending = m /\ pc' = next
BY DEF Hold, IsSession

LEMMA MessageStands == ASSUME IInv, ConsumeMessage PROVE Standing'
<1>1. Ticking({"none"})
  BY DEF ConsumeMessage
<1>2. PICK capacity \in AdvertisedCapacities, t \in ObservationTimes :
        LET polled == poll(session.lastAckedID, capacity) IN
        /\ polled.kind = "message"
        /\ fence' \in ReconciledFences(polled.message, catalog, t)
        /\ Hold(polled.message, session.lastAckedID, "reconciled")
  BY DEF ConsumeMessage
<1> DEFINE m == poll(session.lastAckedID, capacity).message
<1>3. session.lastAckedID \in Nat
  BY <1>1, TickFinds DEF IsSession
<1>4. poll(session.lastAckedID, capacity) = Got(m)
  BY <1>2, PolledKind DEF IInv
<1>5. fence' \in ReconciledFences(m, catalog, t) /\ Hold(m, session.lastAckedID, "reconciled")
  BY <1>2
<1> HIDE DEF m
<1>6. m.message_id \in 1..Len(messages)
  BY <1>4, PolledIsSent DEF IInv
<1>7. IsDocument(fence') /\ fence'.delivery = m /\ fence'.phase = Reconciled
  BY <1>5, ReconciledShape
<1>8. fence'.phase.name = "Reconciled"
  BY <1>7 DEF Reconciled
<1>9. Fenced(fence', Len(messages), undeleted) /\ TargetOf(fence') = m
  BY <1>6, <1>7, <1>8 DEF Fenced, TargetOf, HasResolution, LifecyclePhases
<1>10. IsSession(session') /\ session'.pending = m /\ pc' = "reconciled"
  BY <1>3, <1>5, HeldStands
<1>11. UNCHANGED <<messages, undeleted>>
  BY DEF ConsumeMessage
<1> QED BY <1>7, <1>9, <1>10, <1>11 DEF Standing, Stands, StandsInside

LEMMA ResumeStands == ASSUME IInv, ResumeReconciled PROVE Standing'
<1>1. UNCHANGED <<fence, messages, undeleted>>
  BY DEF ResumeReconciled, durable
<1>2. CASE Drop
  BY <1>1, <1>2, DropStands
<1>3. CASE Hold(fence.delivery, session.lastAckedID, "reconciled")
  <2>1. /\ IsSession(session) /\ Fenced(fence, Len(messages), undeleted)
        /\ fence.phase.name = "Reconciled"
    BY TickFinds DEF ResumeReconciled
  <2>2. fence.phase = Reconciled /\ TargetOf(fence) = fence.delivery
    BY <2>1 DEF Fenced, IsDocument, IsPhase, Reconciled, AcknowledgementStarted, LifecyclePhases,
                TargetOf, HasResolution
  <2>3. IsSession(session') /\ session'.pending = fence.delivery /\ pc' = "reconciled"
    BY <1>3, <2>1, HeldStands DEF IsSession
  <2> QED BY <1>1, <2>1, <2>2, <2>3 DEF Standing, Stands, StandsInside
<1> QED BY <1>2, <1>3 DEF ResumeReconciled

LEMMA BeginStands == ASSUME IInv, BeginAck PROVE Standing'
<1>1. /\ pc \in {"reconciled", "lifecycle"} /\ StandsInside(pc, fence, session, Len(messages), undeleted)
  BY DEF BeginAck, At, IInv, Standing, Stands
<1>2. /\ pc' = "ack" /\ UNCHANGED <<session, messages, undeleted>>
      /\ fence' \in IF HasResolution(fence) THEN begin_lifecycle_ack(fence) ELSE begin_ack(fence)
  BY DEF BeginAck, Continue, service
<1>3. Fenced(fence, Len(messages), undeleted) /\ IsDocument(fence)
      /\ IsSession(session) /\ session.pending = TargetOf(fence)
  BY <1>1 DEF StandsInside, Fenced
<1>4. /\ IsDocument(fence') /\ fence'.delivery = fence.delivery /\ fence'.phase.name \in Asking
      /\ HasResolution(fence') <=> HasResolution(fence)
      /\ HasResolution(fence) => fence'.phase.resolution = fence.phase.resolution
  BY <1>2, <1>3, BeginShape
<1>5. TargetOf(fence') = TargetOf(fence)
  BY <1>4 DEF TargetOf
<1>6. Fenced(fence', Len(messages), undeleted)
  BY <1>3, <1>4 DEF Fenced, HasResolution, Asking, LifecyclePhases
<1> QED BY <1>2, <1>3, <1>4, <1>5, <1>6 DEF Standing, Stands, StandsInside

\* A session whose message was acknowledged holds none.
LEMMA ReleasedSession ==
  ASSUME NEW s, IsSession(s), NEW i, i \in Nat,
         NEW t, t = [s EXCEPT !.lastAckedID = i, !.pending = None]
  PROVE  IsSession(t) /\ t.pending = None
<1>1. t = [lastAckedID |-> i, cursorSet |-> s.cursorSet, pending |-> None]
  BY DEF IsSession
<1> QED BY <1>1 DEF IsSession

LEMMA DeleteStands == ASSUME IInv, DeleteMessage PROVE Standing'
<1> DEFINE n == Len(messages)
<1>1. n \in Nat
  BY DEF IInv, Queued
<1>2. StandsInside("ack", fence, session, n, undeleted) /\ AckTarget = TargetOf(fence)
  BY DEF DeleteMessage, IInv, Standing, Stands, AckTarget, TargetOf
<1>3. UNCHANGED <<fence, messages>> /\ undeleted' = undeleted \ {TargetOf(fence).message_id}
  BY <1>2 DEF DeleteMessage, durable
<1>4. Fenced(fence, n, undeleted') /\ TargetOf(fence).message_id \in Nat
  BY <1>1, <1>2, <1>3, FencedFrame, TargetIsSent DEF StandsInside
<1>5. fence.phase.name \in Asking /\ IsSession(session) /\ session.pending = TargetOf(fence)
  BY <1>2 DEF StandsInside
<1>6. CASE Unoffered(TargetOf(fence))
  <2>1. /\ pc' = "answered"
        /\ session' = [session EXCEPT !.lastAckedID = TargetOf(fence).message_id, !.pending = None]
    BY <1>2, <1>6 DEF DeleteMessage
  <2>2. IsSession(session') /\ session'.pending = None
    BY <1>4, <1>5, <2>1, ReleasedSession
  <2> QED BY <1>3, <1>4, <1>5, <2>1, <2>2 DEF Standing, Stands, StandsInside
<1>7. CASE ~ Unoffered(TargetOf(fence))
  <2>1. pc' = "acquire" /\ session' = session
    BY <1>2, <1>7 DEF DeleteMessage
  <2> QED BY <1>3, <1>4, <1>5, <1>7, <2>1 DEF Standing, Stands, StandsInside
<1> QED BY <1>6, <1>7

LEMMA AcquireStands == ASSUME IInv, AckAcquire PROVE Standing'
<1> DEFINE n == Len(messages)
<1>1. StandsInside("acquire", fence, session, n, undeleted) /\ AckTarget = TargetOf(fence)
  BY DEF AckAcquire, IInv, Standing, Stands, AckTarget, TargetOf
<1>2. /\ UNCHANGED <<fence, messages, undeleted>> /\ pc' = "answered"
      /\ session' = [session EXCEPT !.lastAckedID = TargetOf(fence).message_id, !.pending = None]
  BY <1>1 DEF AckAcquire, durable
<1>3. /\ Fenced(fence, n, undeleted) /\ fence.phase.name \in Asking /\ IsSession(session)
      /\ TargetOf(fence).message_id \notin undeleted
  BY <1>1 DEF StandsInside
<1>4. TargetOf(fence).message_id \in Nat
  BY <1>3, TargetIsSent
<1>5. IsSession(session') /\ session'.pending = None
  BY <1>2, <1>3, <1>4, ReleasedSession
<1> QED BY <1>2, <1>3, <1>5 DEF Standing, Stands, StandsInside

\* A document that becomes conclusive once its message is gone.
LEMMA AcknowledgedIsFenced ==
  ASSUME NEW r, NEW n, NEW u, Fenced(r, n, u), NEW acquired,
         r.phase.name = "AcknowledgementStarted",
         Unoffered(r.delivery) => r.delivery.message_id \notin u,
         NEW s \in record_ack_response(r, acquired)
  PROVE  Fenced(s, n, u) /\ s.phase.name = "Acknowledged"
<1>1. IsDocument(s) /\ s.delivery = r.delivery /\ s.phase.name = "Acknowledged"
  BY AckShape DEF Fenced
<1> QED BY <1>1 DEF Fenced, LifecyclePhases

LEMMA ResolvedIsFenced ==
  ASSUME NEW r, NEW n, NEW u, Fenced(r, n, u),
         r.phase.name = "LifecycleAcknowledgementStarted",
         r.phase.resolution.delivery.message_id \notin u,
         NEW s \in record_lifecycle_ack(r)
  PROVE  Fenced(s, n, u) /\ s.phase.name = "LifecycleAcknowledged"
<1>1. /\ IsDocument(s) /\ s.delivery = r.delivery /\ s.phase.name = "LifecycleAcknowledged"
      /\ s.phase.resolution = r.phase.resolution
  BY LifecycleAckShape DEF Fenced
<1> QED BY <1>1 DEF Fenced, LifecyclePhases

LEMMA RecordStands == ASSUME IInv, RecordAck PROVE Standing'
<1> DEFINE n == Len(messages)
<1>1. StandsInside("answered", fence, session, n, undeleted)
  BY DEF RecordAck, At, IInv, Standing, Stands
<1>2. /\ Fenced(fence, n, undeleted) /\ fence.phase.name \in Asking
      /\ IsSession(session) /\ session.pending = None
      /\ TargetOf(fence).message_id \notin undeleted
  BY <1>1 DEF StandsInside
<1>3. pc' = "settle" /\ UNCHANGED <<session, messages, undeleted>>
  BY DEF RecordAck, service
<1>4. Fenced(fence', n, undeleted) /\ fence'.phase.name \in Conclusive
  <2>1. CASE HasResolution(fence)
    <3>1. /\ fence.phase.name = "LifecycleAcknowledgementStarted"
          /\ fence.phase.resolution.delivery.message_id \notin undeleted
          /\ fence' \in record_lifecycle_ack(fence)
      BY <1>2, <2>1 DEF RecordAck, HasResolution, LifecyclePhases, Asking, TargetOf
    <3> QED BY <1>2, <3>1, ResolvedIsFenced DEF Conclusive
  <2>2. CASE ~ HasResolution(fence)
    <3>1. /\ fence.phase.name = "AcknowledgementStarted"
          /\ fence.delivery.message_id \notin undeleted
          /\ fence' \in record_ack_response(fence, answer)
      BY <1>2, <2>2 DEF RecordAck, HasResolution, LifecyclePhases, Asking, TargetOf
    <3> QED BY <1>2, <3>1, AcknowledgedIsFenced DEF Conclusive
  <2> QED BY <2>1, <2>2
<1> QED BY <1>2, <1>3, <1>4 DEF Standing, Stands, StandsInside

LEMMA SettleStands == ASSUME IInv, Settle PROVE Standing'
<1>1. pc' = "tick" /\ fence' = None /\ UNCHANGED <<session, messages, undeleted>>
  BY DEF Settle, Continue, service
<1>2. session # None => IsSession(session) /\ session.pending = None
  <2>1. CASE At({"settle"})
    BY <2>1 DEF At, IInv, Standing, Stands, StandsInside
  <2>2. CASE ~ At({"settle"})
    BY <2>2, TickFinds DEF Settle
  <2> QED BY <2>1, <2>2
<1> QED BY <1>1, <1>2 DEF Standing, Stands, StandsIdle

\* The replayed acquisition, and what its answer makes of the document.
LEMMA ReplayStands == ASSUME IInv, ReplayAcquisition PROVE Standing'
<1>1. /\ Fenced(fence, Len(messages), undeleted) /\ session = FreshSession
      /\ fence.phase.name = "AcknowledgementStarted" /\ ~ Unoffered(fence.delivery)
  BY TickFinds DEF ReplayAcquisition
<1>2. fence.phase = AcknowledgementStarted
  BY <1>1 DEF Fenced, IsDocument, IsPhase, Reconciled, LifecyclePhases
<1>3. pc' = "recovered" /\ UNCHANGED <<fence, session, messages, undeleted>>
  BY DEF ReplayAcquisition, durable
<1> QED BY <1>1, <1>2, <1>3 DEF Standing, Stands, StandsInside

LEMMA RecordReplayStands == ASSUME IInv, RecordReplay PROVE Standing'
<1> DEFINE n == Len(messages)
<1>1. StandsInside("recovered", fence, session, n, undeleted)
  BY DEF RecordReplay, At, IInv, Standing, Stands
<1>2. /\ Fenced(fence, n, undeleted) /\ fence.phase = AcknowledgementStarted
      /\ session = FreshSession /\ ~ Unoffered(fence.delivery)
  BY <1>1 DEF StandsInside
<1>3. /\ fence' \in record_recovery_acquire(fence, answer)
      /\ pc' = (IF fence'.phase.acquired = {} THEN "observe" ELSE "settle")
      /\ UNCHANGED <<session, messages, undeleted>>
  BY DEF RecordReplay, service
<1>4. /\ IsDocument(fence') /\ fence'.delivery = fence.delivery
      /\ fence'.phase = AcquisitionRecoveryObserved(fence'.phase.acquired)
  BY <1>2, <1>3, ReplayShape DEF Fenced
<1>5. fence'.phase.name = "AcquisitionRecoveryObserved"
  BY <1>4 DEF AcquisitionRecoveryObserved
<1>6. Fenced(fence', n, undeleted)
  BY <1>2, <1>4, <1>5 DEF Fenced, LifecyclePhases
<1>7. IsSession(session) /\ session.pending = None
  BY <1>2 DEF IsSession, FreshSession
<1>8. CASE fence'.phase.acquired = {}
  BY <1>2, <1>3, <1>4, <1>6, <1>8 DEF Standing, Stands, StandsInside
<1>9. CASE fence'.phase.acquired # {}
  BY <1>3, <1>5, <1>6, <1>7, <1>9 DEF Standing, Stands, StandsInside, Conclusive
<1> QED BY <1>8, <1>9

\* What an observation starts from.
LEMMA ObservingFinds ==
  ASSUME IInv, Observing
  PROVE  Fenced(fence, Len(messages), undeleted) /\ fence # None
<1>1. CASE At({"observe"})
  BY <1>1 DEF At, IInv, Standing, Stands, StandsInside
<1>2. CASE ~ At({"observe"})
  <2>1. Ticking({"AcquisitionRecoveryObserved"})
    BY <1>2 DEF Observing
  <2> QED BY <2>1, TickFinds
<1> QED BY <1>1, <1>2

LEMMA ResolutionStands == ASSUME IInv, ObserveResolution PROVE Standing'
<1> DEFINE n == Len(messages)
           m == poll(Original, 0).message
<1>1. Fenced(fence, n, undeleted) /\ IsDocument(fence) /\ Original \in Nat
  BY ObservingFinds DEF ObserveResolution, Fenced, Original
<1>2. /\ poll(Original, 0).kind = "message"
      /\ fence' \in ResolvedFences(fence, m, catalog) /\ Hold(m, Original, "lifecycle")
      /\ UNCHANGED <<messages, undeleted>>
  BY DEF ObserveResolution
<1>3. poll(Original, 0) = Got(m)
  BY <1>2, PolledKind DEF IInv
<1> HIDE DEF m
<1>4. m.message_id \in 1..n
  BY <1>3, PolledIsSent DEF IInv
<1>5. /\ IsDocument(fence') /\ fence'.delivery = fence.delivery
      /\ fence'.phase.name = "LifecycleReconciled" /\ fence'.phase.resolution.delivery = m
      /\ m.message_id > fence.delivery.message_id
      /\ fence.phase = AcquisitionRecoveryObserved({})
  BY <1>1, <1>2, ResolvedShape
<1>6. fence.phase.name = "AcquisitionRecoveryObserved"
  BY <1>5 DEF AcquisitionRecoveryObserved
<1>7. Fenced(fence', n, undeleted)
  BY <1>1, <1>4, <1>5, <1>6 DEF Fenced, LifecyclePhases
<1>8. TargetOf(fence') = m
  BY <1>5 DEF TargetOf, HasResolution, LifecyclePhases
<1>9. IsSession(session') /\ session'.pending = m /\ pc' = "lifecycle"
  BY <1>1, <1>2, HeldStands
<1> QED BY <1>2, <1>5, <1>7, <1>8, <1>9 DEF Standing, Stands, StandsInside

\* The two recoveries of an acknowledgement whose answer was lost.
LEMMA RecoverAckStands == ASSUME IInv, RecoverAck PROVE Standing'
<1> DEFINE n == Len(messages)
           polled == poll(session.lastAckedID, 0)
<1>1. /\ Fenced(fence, n, undeleted) /\ session = FreshSession /\ IsSession(session)
      /\ fence.phase.name = "AcknowledgementStarted"
  BY TickFinds DEF RecoverAck
<1>2. session.lastAckedID = 0 /\ TargetOf(fence) = fence.delivery
  BY <1>1 DEF FreshSession, TargetOf, HasResolution, LifecyclePhases
<1>3. UNCHANGED <<messages, undeleted>>
  BY DEF RecoverAck
<1>4. CASE polled = Got(fence.delivery)
  <2>1. Hold(fence.delivery, session.lastAckedID, "ack") /\ UNCHANGED fence
    BY <1>4 DEF RecoverAck
  <2>2. IsSession(session') /\ session'.pending = fence.delivery /\ pc' = "ack"
    BY <1>2, <2>1, HeldStands
  <2> QED BY <1>1, <1>2, <1>3, <2>1, <2>2 DEF Standing, Stands, StandsInside, Asking
<1>5. CASE polled # Got(fence.delivery) /\ ShowsAbsence(polled, fence.delivery)
  <2>1. fence' \in record_ack_response(fence, {}) /\ session' = None /\ pc' = "settle"
    BY <1>5 DEF RecoverAck
  <2>2. fence.delivery.message_id > session.lastAckedID
    BY <1>1, <1>2 DEF Fenced
  <2>3. fence.delivery.message_id \notin undeleted
    BY <1>5, <2>2, AbsenceIsDeletion DEF IInv
  <2>4. Fenced(fence', n, undeleted) /\ fence'.phase.name = "Acknowledged"
    BY <1>1, <2>1, <2>3, AcknowledgedIsFenced
  <2> QED BY <1>3, <2>1, <2>4 DEF Standing, Stands, StandsInside, Conclusive
<1>6. CASE ~ (polled = Got(fence.delivery)) /\ ~ ShowsAbsence(polled, fence.delivery)
  <2>1. Drop /\ UNCHANGED fence
    BY <1>6 DEF RecoverAck
  <2> QED BY <1>3, <2>1, DropStands
<1> QED BY <1>4, <1>5, <1>6

LEMMA RecoverLifecycleStands == ASSUME IInv, RecoverLifecycleAck PROVE Standing'
<1> DEFINE n == Len(messages)
           polled == poll(Original, 0)
<1>1. /\ Fenced(fence, n, undeleted)
      /\ fence.phase.name \in {"LifecycleReconciled", "LifecycleAcknowledgementStarted"}
  BY TickFinds DEF RecoverLifecycleAck
<1>2. /\ Original \in Nat /\ AckTarget = TargetOf(fence)
      /\ TargetOf(fence) = fence.phase.resolution.delivery
      /\ TargetOf(fence).message_id > Original
  BY <1>1 DEF Fenced, Original, AckTarget, TargetOf, HasResolution, LifecyclePhases
<1>3. UNCHANGED <<messages, undeleted>>
  BY DEF RecoverLifecycleAck
<1>4. CASE polled = Got(AckTarget)
  <2>1. Hold(AckTarget, Original, "lifecycle") /\ UNCHANGED fence
    BY <1>4 DEF RecoverLifecycleAck
  <2>2. IsSession(session') /\ session'.pending = AckTarget /\ pc' = "lifecycle"
    BY <1>2, <2>1, HeldStands
  <2> QED BY <1>1, <1>2, <1>3, <2>1, <2>2 DEF Standing, Stands, StandsInside
<1>5. CASE /\ polled # Got(AckTarget) /\ ShowsAbsence(polled, AckTarget)
           /\ fence.phase.name = "LifecycleAcknowledgementStarted"
  <2>1. fence' \in record_lifecycle_ack(fence) /\ session' = None /\ pc' = "settle"
    BY <1>5 DEF RecoverLifecycleAck
  <2>2. TargetOf(fence).message_id \notin undeleted
    BY <1>2, <1>5, AbsenceIsDeletion DEF IInv
  <2>3. Fenced(fence', n, undeleted) /\ fence'.phase.name = "LifecycleAcknowledged"
    BY <1>1, <1>2, <1>5, <2>1, <2>2, ResolvedIsFenced
  <2> QED BY <1>3, <2>1, <2>3 DEF Standing, Stands, StandsInside, Conclusive
<1>6. CASE /\ polled # Got(AckTarget)
           /\ ~ (fence.phase.name = "LifecycleAcknowledgementStarted"
                 /\ ShowsAbsence(polled, AckTarget))
  <2>1. Drop /\ UNCHANGED fence
    BY <1>6 DEF RecoverLifecycleAck
  <2> QED BY <1>3, <2>1, DropStands
<1> QED BY <1>4, <1>5, <1>6

\* A refused or inconclusive poll, and a lost session.
LEMMA DroppedStands ==
  ASSUME IInv, ConsumeRefused \/ ObserveNothing \/ LoseSession
  PROVE  Standing'
<1>1. Drop /\ UNCHANGED <<fence, messages, undeleted>>
  BY DEF ConsumeRefused, ObserveNothing, LoseSession, durable, service
<1> QED BY <1>1, DropStands

\* Requests of lost sessions that reach the service after all.
LEMMA LateStands ==
  ASSUME IInv, LateDelete \/ LateAcquire
  PROVE  Standing'
<1>1. UNCHANGED <<pc, fence, session, messages>> /\ undeleted' \subseteq undeleted
  BY DEF LateDelete, LateAcquire, durable, controller
<1>2. Len(messages) \in Nat /\ undeleted' \cap (1..Len(messages)) \subseteq undeleted
  BY <1>1 DEF IInv, Queued
<1>3. Stands(pc, fence, session, Len(messages), undeleted')
  BY <1>2, StandsFrame DEF IInv, Standing
<1> QED BY <1>1, <1>3 DEF Standing

\* What the service sends is queued behind everything else.
LEMMA SendQueues ==
  ASSUME IInv, NEW event \in Events, Send(event), Len(messages) + 1 <= MaxMessages,
         UNCHANGED <<pc, fence, session>>
  PROVE  Queued' /\ Standing' /\ Len(messages') = Len(messages) + 1
<1>1. /\ messages \in Seq({<<e>> : e \in Events}) /\ undeleted \subseteq 1..Len(messages)
      /\ Len(messages) \in Nat
  BY DEF IInv, Queued
<1>2. messages' = Append(messages, <<event>>) /\ undeleted' = undeleted \cup {Len(messages) + 1}
  BY DEF Send
<1>3. messages' \in Seq({<<e>> : e \in Events}) /\ Len(messages') = Len(messages) + 1
  BY <1>1, <1>2
<1>4. undeleted' \subseteq 1..Len(messages') /\ undeleted' \cap (1..Len(messages)) \subseteq undeleted
  <2> DEFINE n == Len(messages)
  <2>1. n \in Nat /\ undeleted \subseteq 1..n /\ undeleted' = undeleted \cup {n + 1}
        /\ Len(messages') = n + 1
    BY <1>1, <1>2, <1>3
  <2> HIDE DEF n
  <2>2. undeleted' \subseteq 1..(n + 1) /\ undeleted' \cap (1..n) \subseteq undeleted
    BY <2>1
  <2> QED BY <2>1, <2>2 DEF n
<1>5. Stands(pc, fence, session, Len(messages'), undeleted')
  BY <1>1, <1>3, <1>4, StandsFrame DEF IInv, Standing
<1> QED BY <1>3, <1>4, <1>5 DEF Queued, Standing

\* An acquisition turns offered jobs into acquired ones.
LEMMA AcquireKeepsRoom ==
  ASSUME Roomy, NEW ids, AcquireJobs(ids), UNCHANGED messages
  PROVE  Roomy'
<1>1. job' = [id \in AttemptIds |-> IF id \in ids /\ job[id] = "offered" THEN "acquired" ELSE job[id]]
  BY DEF AcquireJobs, Handed
<1> QED BY <1>1 DEF Roomy

\* A job that was with the service goes on within its room, or ends.
LEMMA JobKeepsRoom ==
  ASSUME Roomy, Len(messages) \in Nat, NEW id \in AttemptIds,
         NEW next \in {"assigned", "canceled", "gone"}, job' = [job EXCEPT ![id] = next],
         job[id] \in {"offered", "acquired", "assigned"},
         Len(messages') \in Nat, Len(messages') <= Len(messages) + 1,
         next = "assigned" => Len(messages') + 1 <= MaxMessages
  PROVE  Roomy'
<1>1. \A i \in AttemptIds : i # id => job'[i] \notin {"offered", "acquired", "assigned"}
  BY DEF Roomy
<1>2. job'[id] = next
  BY DEF Roomy
<1>3. job' \in [AttemptIds -> {"new", "offered", "acquired", "assigned", "canceled", "gone"}]
  BY DEF Roomy
<1> QED BY <1>1, <1>2, <1>3 DEF Roomy

\* A new job is the only one, and its whole life fits.
LEMMA NewJobKeepsRoom ==
  ASSUME Roomy, ~ Outstanding, RoomForJob, Len(messages) \in Nat, NEW id \in AttemptIds,
         NEW next \in {"offered", "assigned"}, job' = [job EXCEPT ![id] = next],
         Len(messages') = Len(messages) + 1
  PROVE  Roomy'
<1>1. \A i \in AttemptIds : i # id => job'[i] \notin {"offered", "acquired", "assigned"}
  BY DEF Roomy, Outstanding
<1>2. job'[id] = next
  BY DEF Roomy
<1>3. job' \in [AttemptIds -> {"new", "offered", "acquired", "assigned", "canceled", "gone"}]
  BY DEF Roomy
<1>4. Len(messages') + 2 <= MaxMessages
  BY ControllerAssumption DEF RoomForJob
<1> QED BY <1>1, <1>2, <1>3, <1>4, ControllerAssumption DEF Roomy

\* The service's steps.
LEMMA ServiceKeepsInv ==
  ASSUME IInv, NEW id \in AttemptIds,
         \/ Offer(id) \/ AssignUnoffered(id) \/ AssignAcquired(id) \/ Cancel(id) \/ Withdraw(id)
  PROVE  IInv'
<1>1. /\ Roomy /\ Len(messages) \in Nat /\ UNCHANGED <<pc, fence, session>>
      /\ MaxMessages \in Nat
  BY ControllerAssumption DEF IInv, Queued, Offer, AssignUnoffered, AssignAcquired, Cancel, Withdraw,
     durable, controller
<1>2. \A e \in {Available(id), Assigned(id), Completed(id, None, Canceled)} : e \in Events
  BY DEF Events
<1>3. CASE Offer(id)
  <2>1. Send(Available(id)) /\ Len(messages) + 1 <= MaxMessages
    BY <1>1, <1>3 DEF Offer, RoomForJob
  <2>2. Queued' /\ Standing' /\ Len(messages') = Len(messages) + 1
    BY <1>1, <1>2, <2>1, SendQueues
  <2>3. Roomy'
    BY <1>1, <1>3, <2>2, NewJobKeepsRoom DEF Offer
  <2> QED BY <2>2, <2>3 DEF IInv
<1>4. CASE AssignUnoffered(id)
  <2>1. Send(Assigned(id)) /\ Len(messages) + 1 <= MaxMessages
    BY <1>1, <1>4 DEF AssignUnoffered, RoomForJob
  <2>2. Queued' /\ Standing' /\ Len(messages') = Len(messages) + 1
    BY <1>1, <1>2, <2>1, SendQueues
  <2>3. Roomy'
    BY <1>1, <1>4, <2>2, NewJobKeepsRoom DEF AssignUnoffered
  <2> QED BY <2>2, <2>3 DEF IInv
<1>5. CASE AssignAcquired(id)
  <2>1. Send(Assigned(id)) /\ Len(messages) + 2 <= MaxMessages
    BY <1>1, <1>5 DEF AssignAcquired, Roomy
  <2>2. Len(messages) + 1 <= MaxMessages
    BY <1>1, <2>1
  <2>3. Queued' /\ Standing' /\ Len(messages') = Len(messages) + 1
    BY <1>1, <1>2, <2>1, <2>2, SendQueues
  <2>4. /\ Len(messages') \in Nat /\ Len(messages') <= Len(messages) + 1
        /\ Len(messages') + 1 <= MaxMessages
    BY <1>1, <2>1, <2>3
  <2>5. job' = [job EXCEPT ![id] = "assigned"] /\ job[id] \in {"offered", "acquired", "assigned"}
    BY <1>5 DEF AssignAcquired
  <2>6. Roomy'
    BY <1>1, <2>4, <2>5, JobKeepsRoom
  <2> QED BY <2>3, <2>6 DEF IInv
<1>6. CASE Cancel(id)
  <2>1. Send(Completed(id, None, Canceled)) /\ Len(messages) + 1 <= MaxMessages
    BY <1>1, <1>6 DEF Cancel, Roomy
  <2>2. Queued' /\ Standing' /\ Len(messages') = Len(messages) + 1
    BY <1>1, <1>2, <2>1, SendQueues
  <2>3. Len(messages') \in Nat /\ Len(messages') <= Len(messages) + 1
    BY <1>1, <2>2
  <2>4. job' = [job EXCEPT ![id] = "canceled"] /\ job[id] \in {"offered", "acquired", "assigned"}
    BY <1>6 DEF Cancel
  <2>5. Roomy'
    BY <1>1, <2>3, <2>4, JobKeepsRoom
  <2> QED BY <2>2, <2>5 DEF IInv
<1>7. CASE Withdraw(id)
  <2>1. /\ job[id] = "offered" /\ job' = [job EXCEPT ![id] = "gone"]
        /\ UNCHANGED <<messages, undeleted>>
    BY <1>7 DEF Withdraw
  <2>2. Len(messages') \in Nat /\ Len(messages') <= Len(messages) + 1
    BY <1>1, <2>1
  <2>3. Roomy'
    BY <1>1, <2>1, <2>2, JobKeepsRoom
  <2> QED BY <1>1, <2>1, <2>3 DEF IInv, Queued, Standing
<1> QED BY <1>3, <1>4, <1>5, <1>6, <1>7

\* Neither the controller nor a lost session adds to the queue.
LEMMA OthersKeepQueue ==
  ASSUME IInv, ControllerStep \/ LoseSession \/ LateDelete \/ LateAcquire
  PROVE  Queued' /\ Roomy'
<1>1. messages' = messages /\ undeleted' \subseteq undeleted
      /\ (job' = job \/ \E ids : AcquireJobs(ids))
  BY DEF ControllerStep, Connect, ConsumeIdle, ConsumeMessage, ConsumeRefused, ResumeReconciled,
     BeginAck, DeleteMessage, AckAcquire, RecordAck, Settle, ReplayAcquisition, RecordReplay,
     ObserveResolution, ObserveNothing, RecoverAck, RecoverLifecycleAck, LoseSession, LateDelete,
     LateAcquire, service
<1>2. Queued'
  BY <1>1 DEF IInv, Queued
<1>3. Roomy'
  BY <1>1, AcquireKeepsRoom DEF IInv, Roomy
<1> QED BY <1>2, <1>3

\* The invariant holds at first and after every step.
LEMMA InitInv == Init => IInv
<1> SUFFICES ASSUME Init PROVE IInv
  OBVIOUS
<1>1. Queued
  BY ControllerAssumption DEF Init, Queued
<1>2. Roomy
  BY DEF Init, Roomy
<1>3. Standing
  BY DEF Init, Standing, Stands, StandsIdle
<1> QED BY <1>1, <1>2, <1>3 DEF IInv

LEMMA NextInv == IInv /\ [Next]_vars => IInv'
<1> SUFFICES ASSUME IInv, [Next]_vars PROVE IInv'
  OBVIOUS
<1>1. CASE ControllerStep \/ LoseSession \/ LateDelete \/ LateAcquire
  <2>1. Standing'
    BY <1>1, ConnectStands, IdleStands, MessageStands, DroppedStands, ResumeStands, BeginStands,
       DeleteStands, AcquireStands, RecordStands, SettleStands, ReplayStands, RecordReplayStands,
       ResolutionStands, RecoverAckStands, RecoverLifecycleStands, LateStands
    DEF ControllerStep
  <2> QED BY <1>1, <2>1, OthersKeepQueue DEF IInv
<1>2. CASE \E id \in AttemptIds : Offer(id) \/ AssignUnoffered(id) \/ AssignAcquired(id)
                                   \/ Cancel(id) \/ Withdraw(id)
  BY <1>2, ServiceKeepsInv
<1>3. CASE UNCHANGED vars
  BY <1>3 DEF vars, durable, controller, service, IInv, Queued, Roomy, Standing
<1> QED BY <1>1, <1>2, <1>3 DEF Next

\* In every behaviour the queue is bounded, one job at a time is outstanding,
\* and document, session and place of the controller fit together.
THEOREM ControllerInvariant == Spec => []IInv
BY InitInv, NextInv, PTL DEF Spec

\* No step of the controller finds the bridge unable to take its call: a
\* recovery starts from a session nothing was asked of, and what is being
\* acknowledged is what the session holds, however many sessions were lost.
THEOREM BridgeAlwaysAccepts == Spec => []BridgeAcceptsEveryCall
<1>1. IInv => BridgeAcceptsEveryCall
  <2> SUFFICES ASSUME IInv PROVE BridgeAcceptsEveryCall
    OBVIOUS
  <2>1. AckTarget = TargetOf(fence)
    BY DEF AckTarget, TargetOf
  <2>2. CASE pc = "tick"
    BY <2>2 DEF IInv, Standing, Stands, StandsIdle, BridgeAcceptsEveryCall
  <2>3. CASE pc # "tick"
    <3>1. StandsInside(pc, fence, session, Len(messages), undeleted)
      BY <2>3 DEF IInv, Standing, Stands
    <3>2. pc = "observe" => MayResume
      BY <3>1 DEF StandsInside, MayResume, FreshSession
    <3>3. pc \in {"ack", "acquire"} => session.pending = AckTarget
      BY <2>1, <3>1 DEF StandsInside
    <3> QED BY <2>3, <3>2, <3>3 DEF BridgeAcceptsEveryCall
  <2> QED BY <2>2, <2>3
<1> QED BY <1>1, ControllerInvariant, PTL

-----------------------------------------------------------------------------
(***************************************************************************)
(* Settling.                                                               *)
(***************************************************************************)
\* Option::None is not a document.
NoneIsNoDocument == \A r : IsDocument(r) => r # None

\* Only Settle takes the fence down.
LEMMA OnlySettleUnfences ==
  ASSUME NoneIsNoDocument, IInv, [Next]_vars, IInv', fence # None, fence' = None
  PROVE  Settle
<1>1. pc' = "tick"
  <2> SUFFICES ASSUME pc' # "tick" PROVE FALSE
    OBVIOUS
  <2>1. IsDocument(fence')
    BY DEF IInv, Standing, Stands, StandsInside, Fenced
  <2> QED BY <2>1 DEF NoneIsNoDocument
<1> SUFFICES ASSUME fence' # fence PROVE Settle
  OBVIOUS
<1>2. ~ ((\E id \in AttemptIds : Offer(id) \/ AssignUnoffered(id) \/ AssignAcquired(id)
                                  \/ Cancel(id) \/ Withdraw(id))
         \/ LoseSession \/ LateDelete \/ LateAcquire \/ UNCHANGED vars)
  BY DEF Offer, AssignUnoffered, AssignAcquired, Cancel, Withdraw, LoseSession, LateDelete,
     LateAcquire, vars, durable
<1>3. ~ (Connect \/ ConsumeIdle \/ ConsumeRefused \/ ResumeReconciled \/ DeleteMessage \/ AckAcquire
         \/ ReplayAcquisition \/ ObserveNothing)
  BY DEF Connect, ConsumeIdle, ConsumeRefused, ResumeReconciled, DeleteMessage, AckAcquire,
     ReplayAcquisition, ObserveNothing, durable
<1>4. ~ (ConsumeMessage \/ BeginAck \/ RecordAck \/ RecordReplay \/ ObserveResolution)
  BY <1>1 DEF ConsumeMessage, BeginAck, RecordAck, RecordReplay, ObserveResolution, Hold, Continue
<1>5. ~ (RecoverAck \/ RecoverLifecycleAck)
  BY <1>1 DEF RecoverAck, RecoverLifecycleAck, Hold, Drop
<1> QED BY <1>2, <1>3, <1>4, <1>5 DEF Next, ControllerStep

\* What Settle settles without offers is no longer with the service.
LEMMA SettlingIsDeleted ==
  ASSUME IInv, Settle, fence # None, NEW m \in Settling, Unoffered(m)
  PROVE  m.message_id \notin undeleted
<1>1. Fenced(fence, Len(messages), undeleted) /\ fence.phase.name \in Conclusive
  <2>1. CASE At({"settle"})
    BY <2>1 DEF At, IInv, Standing, Stands, StandsInside
  <2>2. CASE ~ At({"settle"})
    BY <2>2, TickFinds DEF Settle, Conclusive
  <2> QED BY <2>1, <2>2
<1>2. CASE m = fence.delivery
  BY <1>1, <1>2 DEF Fenced, Conclusive, LifecyclePhases
<1>3. CASE m # fence.delivery
  <2>1. HasResolution(fence) /\ m = fence.phase.resolution.delivery
    BY <1>3 DEF Settling, AckTarget
  <2> QED BY <1>1, <2>1 DEF Fenced, Conclusive, HasResolution, LifecyclePhases
<1> QED BY <1>2, <1>3

\* A delivery or a resolution that offers nothing is settled only once the
\* service has deleted its message, whatever answers were lost on the way.
THEOREM LifecycleSettledIsDeleted ==
  ASSUME NoneIsNoDocument
  PROVE  Spec => LifecycleSettlesDeleted
<1>1. IInv /\ IInv' /\ [Next]_vars =>
        [fence # None /\ fence' = None =>
           \A m \in Settling : Unoffered(m) => m.message_id \notin undeleted]_vars
  BY OnlySettleUnfences, SettlingIsDeleted
<1> QED BY <1>1, ControllerInvariant, PTL DEF Spec, LifecycleSettlesDeleted

-----------------------------------------------------------------------------
(***************************************************************************)
(* The controller uses the store only as the store promises.               *)
(***************************************************************************)
\* What is polled is one of the deliveries the store is promised for.
LEMMA PolledIsDelivery ==
  ASSUME IInv, NEW cursor, NEW capacity, poll(cursor, capacity).kind = "message"
  PROVE  poll(cursor, capacity).message \in
           {[message_id |-> i, events |-> <<e>>] : i \in 1..MaxMessages, e \in Events}
<1>1. /\ undeleted \subseteq Nat /\ undeleted \subseteq 1..Len(messages)
      /\ Len(messages) <= MaxMessages /\ MaxMessages \in Nat
      /\ messages \in Seq({<<e>> : e \in Events})
  BY ControllerAssumption DEF IInv, Queued
<1>2. PICK i \in undeleted : poll(cursor, capacity) = Got(Message(i))
  BY <1>1, PollAnswers DEF Nothing, Refused
<1>3. i \in 1..Len(messages) /\ i \in 1..MaxMessages
  BY <1>1
<1>4. PICK e \in Events : messages[i] = <<e>>
  BY <1>1, <1>3
<1>5. poll(cursor, capacity).message = [message_id |-> i, events |-> <<e>>]
  BY <1>2, <1>4 DEF Got, Message
<1> QED BY <1>3, <1>5

\* Answers of the service are answers the document may record.
LEMMA AnswersAdvance ==
  ASSUME NEW r, NEW acquired,
         NEW s \in record_ack_response(r, acquired) \cup record_recovery_acquire(r, acquired)
  PROVE  s \in Advances(r)
<1>1. acquired \in SUBSET available_request_ids(r.delivery)
  BY DEF record_ack_response, record_recovery_acquire
<1> QED BY <1>1 DEF Advances

\* Every step of the controller's is one of the store's or leaves it alone.
THEOREM ControllerImplementsFence == Spec => ImplementsFence
<1>1. Init => Store!Init
  BY DEF Init, Store!Init
<1>2. IInv /\ [Next]_vars => [Store!Next]_(Store!vars)
  <2> SUFFICES ASSUME IInv, Next, ~ UNCHANGED <<catalog, fence>>
               PROVE  Store!Next
    BY DEF vars, durable, Store!vars
  <2>1. CASE ConsumeMessage
    <3>1. fence = None
      BY <2>1, NoFence DEF ConsumeMessage
    <3>2. PICK capacity \in AdvertisedCapacities, t \in ObservationTimes :
            LET polled == poll(session.lastAckedID, capacity) IN
            /\ polled.kind = "message"
            /\ fence' \in ReconciledFences(polled.message, catalog, t)
            /\ catalog' = fence'.catalog
      BY <2>1 DEF ConsumeMessage
    <3>3. Store!Reconcile
      BY <3>1, <3>2, PolledIsDelivery DEF Store!Reconcile, Events
    <3> QED BY <3>3 DEF Store!Next
  <2>2. CASE BeginAck \/ RecordAck \/ RecordReplay
    <3>1. fence # None /\ UNCHANGED catalog
      BY <2>2 DEF BeginAck, RecordAck, RecordReplay, At
    <3>2. fence' \in Advances(fence)
      <4>1. CASE BeginAck
        BY <4>1 DEF BeginAck, Advances
      <4>2. CASE RecordAck
        BY <4>2, AnswersAdvance DEF RecordAck, Advances
      <4>3. CASE RecordReplay
        BY <4>3, AnswersAdvance DEF RecordReplay
      <4> QED BY <2>2, <4>1, <4>2, <4>3
    <3> QED BY <3>1, <3>2 DEF Store!Next, Store!Advance
  <2>3. CASE RecoverAck
    <3>1. UNCHANGED catalog /\ fence' \in record_ack_response(fence, {})
      BY <2>3 DEF RecoverAck
    <3>2. fence # None
      BY <2>3 DEF RecoverAck, Ticking
    <3> QED BY <3>1, <3>2, AnswersAdvance DEF Store!Next, Store!Advance
  <2>4. CASE RecoverLifecycleAck
    <3>1. UNCHANGED catalog /\ fence' \in record_lifecycle_ack(fence)
      BY <2>4 DEF RecoverLifecycleAck
    <3>2. fence # None
      BY <2>4 DEF RecoverLifecycleAck, Ticking
    <3> QED BY <3>1, <3>2 DEF Store!Next, Store!Advance, Advances
  <2>5. CASE ObserveResolution
    <3>1. fence # None
      BY <2>5, ObservingFinds DEF ObserveResolution
    <3>2. /\ poll(Original, 0).kind = "message" /\ catalog' = fence'.catalog
          /\ fence' \in ResolvedFences(fence, poll(Original, 0).message, catalog)
      BY <2>5 DEF ObserveResolution
    <3> QED BY <3>1, <3>2, PolledIsDelivery DEF Store!Next, Store!Resolve, Events
  <2>6. CASE Settle
    <3>1. fence # None
      BY <2>6 DEF Settle, At, Ticking
    <3> QED BY <2>6, <3>1 DEF Settle, Store!Next, Store!Settle
  <2>7. ~ (Connect \/ ConsumeIdle \/ ConsumeRefused \/ ResumeReconciled \/ DeleteMessage
           \/ AckAcquire \/ ReplayAcquisition \/ ObserveNothing \/ LoseSession
           \/ LateDelete \/ LateAcquire)
    BY DEF Connect, ConsumeIdle, ConsumeRefused, ResumeReconciled, DeleteMessage, AckAcquire,
       ReplayAcquisition, ObserveNothing, LoseSession, LateDelete, LateAcquire, durable
  <2>8. ~ (\E id \in AttemptIds : Offer(id) \/ AssignUnoffered(id) \/ AssignAcquired(id)
                                   \/ Cancel(id) \/ Withdraw(id))
    BY DEF Offer, AssignUnoffered, AssignAcquired, Cancel, Withdraw, durable
  <2> QED BY <2>1, <2>2, <2>3, <2>4, <2>5, <2>6, <2>7, <2>8 DEF Next, ControllerStep
<1> QED BY <1>1, <1>2, ControllerInvariant, PTL DEF Spec, ImplementsFence, Store!Spec

-----------------------------------------------------------------------------
(***************************************************************************)
(* What deliveries leave in the catalog.  A message has one event, so each *)
(* fold over a message is one step.                                        *)
(***************************************************************************)

LEMMA OneIndex ==
  /\ Max({1}) = 1 /\ {1} \ {Max({1})} = {}
  /\ \A s \in SUBSET {1} : s # {} => Max(s) = 1 /\ s \ {Max(s)} = {}
<1>1. 1 \in {1} /\ \A y \in {1} : 1 >= y
  OBVIOUS
<1>2. Max({1}) \in {1}
  BY <1>1, Zenon DEF Max
<1>3. \A s \in SUBSET {1} : s # {} => s = {1}
  OBVIOUS
<1> QED BY <1>2, <1>3

\* The events of a new message.
LEMMA ReconcileOne ==
  ASSUME NEW m, NEW e, m.events = <<e>>, NEW c, NEW t
  PROVE  reconcile_scale_set_delivery(m, c, t) = reconcile_event(e, c, t)
<1> DEFINE op(catalogs, event) == UNION {reconcile_event(event, d, t) : d \in catalogs}
           body(f) == [s \in SUBSET (DOMAIN m.events) |->
                         IF s = {} THEN {c} ELSE op(f[s \ {Max(s)}], m.events[Max(s)])]
           P(f) == f = body(f)
           one == [s \in SUBSET {1} |-> IF s = {} THEN {c} ELSE op({c}, e)]
           iter == CHOOSE f : P(f)
<1>1. DOMAIN m.events = {1} /\ m.events[1] = e
  OBVIOUS
<1>2. P(one)
  <2>1. one[{}] = {c}
    OBVIOUS
  <2>2. \A s \in SUBSET {1} : s # {} => s \ {Max(s)} = {} /\ m.events[Max(s)] = e
    BY <1>1, OneIndex
  <2>3. body(one) = [s \in SUBSET {1} |->
                       IF s = {} THEN {c} ELSE op(one[s \ {Max(s)}], m.events[Max(s)])]
    BY <1>1
  <2> HIDE DEF op, body
  <2>4. \A s \in SUBSET {1} : s # {} => op(one[s \ {Max(s)}], m.events[Max(s)]) = op({c}, e)
    BY <2>1, <2>2
  <2> QED BY <2>3, <2>4
<1>3. P(CHOOSE f : P(f))
  BY <1>2, Zenon
<1>4. iter = body(iter)
  BY <1>3
<1>5. iter[{1}] = op({c}, e)
  <2> HIDE DEF iter, op
  <2>1. iter[{}] = {c} /\ iter[{1}] = op(iter[{1} \ {Max({1})}], m.events[Max({1})])
    BY <1>1, <1>4
  <2>2. {1} \ {Max({1})} = {} /\ Max({1}) = 1
    BY OneIndex
  <2> QED BY <1>1, <2>1, <2>2
<1>6. iter[DOMAIN m.events] = reconcile_event(e, c, t)
  <2> HIDE DEF iter
  <2> QED BY <1>1, <1>5
<1> QED
  BY <1>6, Zenon DEF reconcile_scale_set_delivery, FoldLeft, MapThenFoldSet

\* The events of a resolving one.
LEMMA ResolveOne ==
  ASSUME NEW m, NEW e, m.events = <<e>>, NEW c, NEW ambiguous
  PROVE  reconcile_scale_set_acquisition_resolution(ambiguous, m, c) \subseteq
           ResolvingEvent(e, ambiguous, c)
<1> DEFINE op(catalogs, event) == UNION {ResolvingEvent(event, ambiguous, d) : d \in catalogs}
           body(f) == [s \in SUBSET (DOMAIN m.events) |->
                         IF s = {} THEN {c} ELSE op(f[s \ {Max(s)}], m.events[Max(s)])]
           P(f) == f = body(f)
           one == [s \in SUBSET {1} |-> IF s = {} THEN {c} ELSE op({c}, e)]
           iter == CHOOSE f : P(f)
<1>1. DOMAIN m.events = {1} /\ m.events[1] = e
  OBVIOUS
<1>2. P(one)
  <2>1. one[{}] = {c}
    OBVIOUS
  <2>2. \A s \in SUBSET {1} : s # {} => s \ {Max(s)} = {} /\ m.events[Max(s)] = e
    BY <1>1, OneIndex
  <2>3. body(one) = [s \in SUBSET {1} |->
                       IF s = {} THEN {c} ELSE op(one[s \ {Max(s)}], m.events[Max(s)])]
    BY <1>1
  <2> HIDE DEF op, body
  <2>4. \A s \in SUBSET {1} : s # {} => op(one[s \ {Max(s)}], m.events[Max(s)]) = op({c}, e)
    BY <2>1, <2>2
  <2> QED BY <2>3, <2>4
<1>3. P(CHOOSE f : P(f))
  BY <1>2, Zenon
<1>4. iter = body(iter)
  BY <1>3
<1>5. iter[{1}] = op({c}, e)
  <2> HIDE DEF iter, op
  <2>1. iter[{}] = {c} /\ iter[{1}] = op(iter[{1} \ {Max({1})}], m.events[Max({1})])
    BY <1>1, <1>4
  <2>2. {1} \ {Max({1})} = {} /\ Max({1}) = 1
    BY OneIndex
  <2> QED BY <1>1, <2>1, <2>2
<1>6. iter[DOMAIN m.events] = ResolvingEvent(e, ambiguous, c)
  <2> HIDE DEF iter
  <2> QED BY <1>1, <1>5
<1>7. CASE ambiguous = {} \/ m.events = << >>
  <2>1. reconcile_scale_set_acquisition_resolution(ambiguous, m, c) = {}
    BY <1>7, Zenon DEF reconcile_scale_set_acquisition_resolution
  <2> QED BY <2>1
<1>8. CASE ~ (ambiguous = {} \/ m.events = << >>)
  <2>1. reconcile_scale_set_acquisition_resolution(ambiguous, m, c) = iter[DOMAIN m.events]
    BY <1>8, Zenon DEF reconcile_scale_set_acquisition_resolution, FoldLeft, MapThenFoldSet
  <2> HIDE DEF iter
  <2> QED BY <1>6, <2>1
<1> QED BY <1>7, <1>8

\* The events of a settled one.
LEMMA SettleOne ==
  ASSUME NEW m, NEW e, m.events = <<e>>, NEW c, NEW v
  PROVE  FoldLeft(LAMBDA catalogs, event :
                    UNION {settle_scale_set_delivery_catalog(event, event.id \in v.acquired, d) :
                             d \in catalogs},
                  {c}, m.events)
           = settle_scale_set_delivery_catalog(e, e.id \in v.acquired, c)
<1> DEFINE op(catalogs, event) == UNION {settle_scale_set_delivery_catalog(event, event.id \in v.acquired, d) :
                                              d \in catalogs}
           body(f) == [s \in SUBSET (DOMAIN m.events) |->
                         IF s = {} THEN {c} ELSE op(f[s \ {Max(s)}], m.events[Max(s)])]
           P(f) == f = body(f)
           one == [s \in SUBSET {1} |-> IF s = {} THEN {c} ELSE op({c}, e)]
           iter == CHOOSE f : P(f)
<1>1. DOMAIN m.events = {1} /\ m.events[1] = e
  OBVIOUS
<1>2. P(one)
  <2>1. one[{}] = {c}
    OBVIOUS
  <2>2. \A s \in SUBSET {1} : s # {} => s \ {Max(s)} = {} /\ m.events[Max(s)] = e
    BY <1>1, OneIndex
  <2>3. body(one) = [s \in SUBSET {1} |->
                       IF s = {} THEN {c} ELSE op(one[s \ {Max(s)}], m.events[Max(s)])]
    BY <1>1
  <2> HIDE DEF op, body
  <2>4. \A s \in SUBSET {1} : s # {} => op(one[s \ {Max(s)}], m.events[Max(s)]) = op({c}, e)
    BY <2>1, <2>2
  <2> QED BY <2>3, <2>4
<1>3. P(CHOOSE f : P(f))
  BY <1>2, Zenon
<1>4. iter = body(iter)
  BY <1>3
<1>5. iter[{1}] = op({c}, e)
  <2> HIDE DEF iter, op
  <2>1. iter[{}] = {c} /\ iter[{1}] = op(iter[{1} \ {Max({1})}], m.events[Max({1})])
    BY <1>1, <1>4
  <2>2. {1} \ {Max({1})} = {} /\ Max({1}) = 1
    BY OneIndex
  <2> QED BY <1>1, <2>1, <2>2
<1>6. iter[DOMAIN m.events] = settle_scale_set_delivery_catalog(e, e.id \in v.acquired, c)
  <2> HIDE DEF iter
  <2> QED BY <1>1, <1>5
<1> QED
  BY <1>6, Zenon DEF FoldLeft, MapThenFoldSet

\* What a conclusive document settles to.
LEMMA SettledIsOne ==
  ASSUME NEW r, NEW e, r.delivery.events = <<e>>, r.phase.name # "SettlementPrepared",
         NEW c, NEW d \in SettledCatalogs(r, c)
  PROVE  \E v \in SettlementEvidence(r) :
           d \in settle_scale_set_delivery_catalog(e, e.id \in v.acquired, c)
<1>1. PICK v \in SettlementEvidence(r) :
        d \in FoldLeft(LAMBDA catalogs, event :
                         UNION {settle_scale_set_delivery_catalog(event, event.id \in v.acquired, k) :
                                  k \in catalogs},
                       {c}, r.delivery.events)
  BY Zenon DEF SettledCatalogs
<1>2. FoldLeft(LAMBDA catalogs, event :
                 UNION {settle_scale_set_delivery_catalog(event, event.id \in v.acquired, k) :
                          k \in catalogs},
               {c}, r.delivery.events)
      = settle_scale_set_delivery_catalog(e, e.id \in v.acquired, c)
  BY SettleOne, Zenon
<1>3. d \in settle_scale_set_delivery_catalog(e, e.id \in v.acquired, c)
  BY <1>1, <1>2, Zenon
<1> QED BY <1>3

-----------------------------------------------------------------------------
(***************************************************************************)
(* One event and the catalog.  Nothing but deliveries touches the catalog  *)
(* here, so all that is active is an untouched reservation.                *)
(***************************************************************************)
Plain(c) == Sound(c) /\ \A a \in Live(c) : a.phase = "Reserved" /\ a.github_job_id = None

\* The identity is active, or known at all.
Kept(c, id) == \E a \in Live(c) : a.id = id
Recalled(c, id) == \E a \in Live(c) \cup Past(c) : a.id = id

\* No identity but id changes, and none that is known starts again.
Local(c, d, id) ==
  /\ Plain(d)
  /\ \A i : i # id => (Kept(d, i) <=> Kept(c, i))
  /\ Kept(d, id) => Kept(c, id) \/ ~ Recalled(c, id)
  /\ HistorySuffices => \A i : Recalled(c, i) => Recalled(d, i)

\* An untouched reservation goes to history.
Removes(c, d, id) ==
  /\ Local(c, d, id) /\ Kept(c, id) /\ ~ Kept(d, id)
  /\ \A k \in Past(d) : k \in Past(c) \/ k.id = id
  /\ HistorySuffices => Recalled(d, id)

\* A new identity is reserved.
Adds(c, d, id) ==
  Local(c, d, id) /\ ~ Recalled(c, id) /\ Kept(d, id) /\ Past(d) = Past(c)

\* The two ways to say it agree.
LEMMA FoundIsKept ==
  /\ \A c, id : find_active(c, id) = {a \in Live(c) : a.id = id}
  /\ \A c, id : find_tombstone(c, id) = {a \in Past(c) : a.id = id}
  /\ \A c, id : find_active(c, id) # {} <=> Kept(c, id)
  /\ \A c, id : find_active(c, id) \cup find_tombstone(c, id) # {} <=> Recalled(c, id)
BY DEF find_active, find_tombstone, Live, Past, Kept, Recalled

\* Nothing happens.
LEMMA StutterIsLocal == ASSUME NEW c, Plain(c), NEW id PROVE Local(c, c, id)
BY DEF Local

\* The three steps that release a reservation.
LEMMA ReleaseRemoves ==
  ASSUME NEW c, Plain(c), NEW a \in Live(c), NEW d \in retire_unprovisioned_cancellation(c, a)
  PROVE  Removes(c, d, a.id)
<1> DEFINE begin == [name |-> "BeginUnprovisionedRelease"]
           end == [name |-> "CompleteUnprovisioned"]
<1>0. begin \in Actions /\ end \in Actions /\ Sound(c)
  BY DEF Actions, Plain
<1>1. PICK releasing \in replace_attempt(c, a.id, a.revision, begin) :
        d \in UNION {UNION {retire_complete(complete, a.id, done.revision) :
                              done \in find_active(complete, a.id)} :
                       complete \in UNION {replace_attempt(releasing, a.id, b.revision, end) :
                                             b \in find_active(releasing, a.id)}}
  BY DEF retire_unprovisioned_cancellation
<1>2. PICK b \in find_active(releasing, a.id) :
        \E complete \in replace_attempt(releasing, a.id, b.revision, end) :
          d \in UNION {retire_complete(complete, a.id, done.revision) :
                         done \in find_active(complete, a.id)}
  BY <1>1
<1>3. PICK complete \in replace_attempt(releasing, a.id, b.revision, end) :
        d \in UNION {retire_complete(complete, a.id, done.revision) :
                       done \in find_active(complete, a.id)}
  BY <1>2
<1>4. PICK done \in find_active(complete, a.id) : d \in retire_complete(complete, a.id, done.revision)
  BY <1>3
<1>5. PICK a1 \in Live(c) : \E r : a1.id = a.id /\ Step(a1, r) /\ Swap(releasing, c, a1, r)
  BY <1>0, <1>1, TransitionSwaps
<1>6. PICK r : a1.id = a.id /\ Step(a1, r) /\ Swap(releasing, c, a1, r)
  BY <1>5
<1>7. a1 = a /\ Sound(releasing) /\ r \in Live(releasing)
  BY <1>0, <1>6, IdentityIsUnique DEF Swap
<1>8. PICK r1 \in Live(releasing) :
        \E k : r1.id = a.id /\ Step(r1, k) /\ Swap(complete, releasing, r1, k)
  BY <1>0, <1>3, <1>7, TransitionSwaps
<1>9. PICK k : r1.id = a.id /\ Step(r1, k) /\ Swap(complete, releasing, r1, k)
  BY <1>8
<1>10. r.id = a.id /\ k.id = r1.id
  BY <1>6, <1>7, <1>9 DEF Step, Keeps
<1>11. r1 = r /\ Sound(complete) /\ k \in Live(complete)
  BY <1>7, <1>9, <1>10, IdentityIsUnique DEF Swap
<1>12. PICK k1 \in Live(complete) :
         /\ k1.id = a.id /\ Sound(d) /\ Live(d) = Live(complete) \ {k1}
         /\ Past(d) \subseteq Past(complete) \cup {k1}
         /\ Len(complete.tombstones) < MaxTombstones => Past(d) = Past(complete) \cup {k1}
  BY <1>4, <1>11, RetirementMoves
<1>13. k1 = k
  BY <1>9, <1>10, <1>11, <1>12, IdentityIsUnique
<1>14. Live(d) = Live(c) \ {a} /\ Past(complete) = Past(c)
  <2>1. Live(d) = ((((Live(c) \ {a}) \cup {r}) \ {r}) \cup {k}) \ {k} /\ Past(complete) = Past(c)
    BY <1>6, <1>7, <1>9, <1>11, <1>12, <1>13 DEF Swap
  <2>2. \A l \in Live(c) \ {a} : l # r /\ l # k
    BY <1>0, <1>9, <1>10, IdentityIsUnique
  <2> QED BY <2>1, <2>2
<1>15. HistorySuffices => Past(d) = Past(c) \cup {k}
  BY <1>11, <1>12, <1>13, <1>14, RoomForHistory
<1>16. k.id = a.id /\ \A l \in Live(d) : l \in Live(c) /\ l.id # a.id
  BY <1>0, <1>9, <1>10, <1>14, IdentityIsUnique
<1>17. Plain(d)
  BY <1>12, <1>16 DEF Plain
<1>18. \A i : i # a.id => (Kept(d, i) <=> Kept(c, i))
  BY <1>14 DEF Kept
<1>19. Kept(c, a.id) /\ ~ Kept(d, a.id)
  BY <1>16 DEF Kept
<1>20. HistorySuffices => Recalled(d, a.id) /\ \A i : Recalled(c, i) => Recalled(d, i)
  BY <1>14, <1>15, <1>16 DEF Recalled
<1>21. \A l \in Past(d) : l \in Past(c) \/ l.id = a.id
  BY <1>12, <1>14
<1> QED BY <1>17, <1>18, <1>19, <1>20, <1>21 DEF Removes, Local

\* A reservation.
LEMMA ReserveAdds ==
  ASSUME NEW c, Plain(c), NEW id \in AttemptIds, NEW t \in Times, ~ Kept(c, id),
         NEW d \in reserve(c, reserved(id, t))
  PROVE  Adds(c, d, id)
<1> DEFINE b == reserved(id, t)
<1>1. find_active(c, id) = {} /\ Sound(c)
  BY FoundIsKept DEF Plain
<1>2. /\ Sound(d) /\ find_tombstone(c, id) = {}
      /\ Live(d) = Live(c) \cup {b} /\ Past(d) = Past(c)
  BY <1>1, ReservationAdds
<1>3. b.id = id /\ b.phase = "Reserved" /\ b.github_job_id = None
  BY DEF reserved
<1> HIDE DEF b
<1>4. ~ Recalled(c, id)
  BY <1>1, <1>2, FoundIsKept
<1>5. Plain(d)
  BY <1>2, <1>3 DEF Plain
<1>6. Kept(d, id) /\ \A i : i # id => (Kept(d, i) <=> Kept(c, i))
  BY <1>2, <1>3 DEF Kept
<1>7. \A i : Recalled(c, i) => Recalled(d, i)
  BY <1>2 DEF Recalled
<1> QED BY <1>2, <1>4, <1>5, <1>6, <1>7 DEF Adds, Local

\* What the catalog says of an event it took.
Holds(c, e) == Recalled(c, e.id) /\ (e.kind = "Completed" => ~ Kept(c, e.id))

\* An event of the service, and what it names.
LEMMA EventShape ==
  ASSUME NEW e \in Events
  PROVE  /\ e.id \in AttemptIds /\ e.kind \in {"Available", "Assigned", "Completed"}
         /\ e.kind = "Available" => e = Available(e.id)
         /\ e.kind = "Completed" => e = Completed(e.id, None, Canceled) /\ IsRunnerlessCancellation(e)
BY DEF Events, Available, Assigned, Completed, IsRunnerlessCancellation

LEMMA RequestsOfOne ==
  ASSUME NEW m, NEW e \in Events, m.events = <<e>>
  PROVE  /\ EventRequests(m) = {e.id}
         /\ available_request_ids(m) = IF e.kind = "Available" THEN {e.id} ELSE {}
         /\ Unoffered(m) <=> e.kind # "Available"
<1>1. DOMAIN m.events = {1} /\ m.events[1] = e
  OBVIOUS
<1>2. EventRequests(m) = {e.id}
  BY <1>1 DEF EventRequests
<1>3. available_request_ids(m) = IF e.kind = "Available" THEN {e.id} ELSE {}
  BY <1>1 DEF available_request_ids
<1> QED BY <1>2, <1>3 DEF Unoffered

\* A new message: its request is reserved, released or already known.
LEMMA EventEnters ==
  ASSUME NEW c, Plain(c), NEW e \in Events, NEW t \in ObservationTimes,
         NEW d \in reconcile_event(e, c, t)
  PROVE  \/ d = c /\ Holds(c, e)
         \/ e.kind # "Completed" /\ Adds(c, d, e.id)
         \/ e.kind = "Completed" /\ Removes(c, d, e.id)
<1>1. /\ e.id \in AttemptIds /\ attempt_not_after(t) \in Times
      /\ e.kind \in {"Available", "Assigned", "Completed"}
      /\ e.kind = "Completed" => IsRunnerlessCancellation(e)
  BY EventShape, ObservationAssumption
<1>2. /\ find_active(c, e.id) = {a \in Live(c) : a.id = e.id}
      /\ find_active(c, e.id) # {} <=> Kept(c, e.id)
      /\ find_active(c, e.id) \cup find_tombstone(c, e.id) # {} <=> Recalled(c, e.id)
  BY FoundIsKept
<1>3. CASE e.kind # "Completed"
  <2>1. d \in ReconcileRequest(e, c, t)
    BY <1>1, <1>3 DEF reconcile_event
  <2>2. CASE find_active(c, e.id) # {}
    <3>1. \A a \in find_active(c, e.id) : a.phase = "Reserved" /\ a.github_job_id = None
      BY <1>2 DEF Plain
    <3>2. d = c
      BY <2>1, <2>2, <3>1 DEF ReconcileRequest
    <3> QED BY <1>2, <1>3, <2>2, <3>2 DEF Holds
  <2>3. CASE find_active(c, e.id) = {} /\ find_tombstone(c, e.id) # {}
    <3>1. d = c
      BY <2>1, <2>3 DEF ReconcileRequest
    <3> QED BY <1>2, <1>3, <2>3, <3>1 DEF Holds
  <2>4. CASE find_active(c, e.id) = {} /\ find_tombstone(c, e.id) = {}
    <3>1. d \in reserve(c, reserved(e.id, attempt_not_after(t)))
      BY <2>1, <2>4 DEF ReconcileRequest
    <3>2. Adds(c, d, e.id)
      BY <1>1, <1>2, <2>4, <3>1, ReserveAdds
    <3> QED BY <1>3, <3>2
  <2> QED BY <2>2, <2>3, <2>4
<1>4. CASE e.kind = "Completed"
  <2>1. d \in ReconcileEvidence(e, c)
    BY <1>4 DEF reconcile_event
  <2>2. CASE find_active(c, e.id) # {}
    <3>1. PICK a \in find_active(c, e.id) :
            d \in IF is_unbound_runnerless_cancellation(e, a) THEN CancelUnbound(c, a)
                  ELSE replace_attempt(c, a.id, a.revision, event_action(e))
      BY <2>1, <2>2 DEF ReconcileEvidence
    <3>2. a \in Live(c) /\ a.id = e.id /\ a.phase = "Reserved" /\ a.github_job_id = None
      BY <1>2 DEF Plain
    <3>3. d \in CancelUnbound(c, a)
      BY <1>1, <1>4, <3>1, <3>2 DEF is_unbound_runnerless_cancellation
    <3>4. d \in retire_unprovisioned_cancellation(c, a)
      BY <3>2, <3>3 DEF CancelUnbound
    <3> QED BY <1>4, <3>2, <3>4, ReleaseRemoves
  <2>3. CASE find_active(c, e.id) = {}
    <3>1. d = c /\ find_tombstone(c, e.id) # {}
      BY <2>1, <2>3 DEF ReconcileEvidence
    <3> QED BY <1>2, <2>3, <3>1 DEF Holds
  <2> QED BY <2>2, <2>3
<1> QED BY <1>3, <1>4

\* A resolving message: its request is still reserved, or is released.
LEMMA EventResolves ==
  ASSUME NEW c, Plain(c), NEW e \in Events, NEW ambiguous, NEW d \in ResolvingEvent(e, ambiguous, c)
  PROVE  \/ d = c /\ Holds(c, e) /\ Kept(c, e.id)
         \/ e.kind = "Completed" /\ Removes(c, d, e.id)
<1>1. PICK a \in find_active(c, e.id) :
        d \in IF e.kind = "Assigned" THEN {c}
              ELSE IF IsRunnerlessCancellation(e) THEN retire_unprovisioned_cancellation(c, a)
              ELSE {}
  BY DEF ResolvingEvent
<1>2. a \in Live(c) /\ a.id = e.id
  BY FoundIsKept
<1>3. CASE e.kind = "Assigned"
  BY <1>1, <1>2, <1>3 DEF Holds, Kept, Recalled
<1>4. CASE e.kind # "Assigned"
  <2>1. d \in retire_unprovisioned_cancellation(c, a) /\ e.kind = "Completed"
    BY <1>1, <1>4 DEF IsRunnerlessCancellation
  <2> QED BY <1>2, <2>1, ReleaseRemoves
<1> QED BY <1>3, <1>4

\* A settled one: an offer that was not acquired is released.
LEMMA EventSettles ==
  ASSUME NEW c, Plain(c), NEW e \in Events, NEW acquired,
         NEW d \in settle_scale_set_delivery_catalog(e, e.id \in acquired, c)
  PROVE  \/ d = c
         \/ e.kind = "Available" /\ e.id \notin acquired /\ Removes(c, d, e.id)
<1> SUFFICES ASSUME d # c PROVE e.kind = "Available" /\ e.id \notin acquired /\ Removes(c, d, e.id)
  OBVIOUS
<1>1. PICK a \in find_active(c, e.id) :
        /\ e.kind = "Available" /\ e.id \notin acquired
        /\ d \in IF a.phase = "Reserved" THEN retire_unprovisioned_cancellation(c, a)
                 ELSE {k \in {c} : a.github_job_id # None \/ a.phase = "Complete"}
  BY DEF settle_scale_set_delivery_catalog
<1>2. a \in Live(c) /\ a.id = e.id /\ a.phase = "Reserved"
  BY FoundIsKept DEF Plain
<1> QED BY <1>1, <1>2, ReleaseRemoves

-----------------------------------------------------------------------------
(***************************************************************************)
(* The ledger: what messages, documents and requests under way say of the  *)
(* catalog and of the service's jobs.                                      *)
(***************************************************************************)
\* The service is done with the job.
Over(id) == job[id] \in {"canceled", "gone"}

\* History holds only jobs that are over.
Shelved == \A a \in Past(catalog) : a.id \in AttemptIds /\ Over(a.id)

\* What was sent, and what that says of the job.
Sent ==
  /\ \A i \in DOMAIN messages :
       /\ job[messages[i][1].id] # "new"
       /\ messages[i][1].kind = "Completed" => job[messages[i][1].id] = "canceled"
  /\ \A id \in AttemptIds : job[id] # "new" => \E i \in DOMAIN messages : messages[i][1].id = id

\* The catalog took the event, and keeps its job unless that is over.
EnteredIn(c, jobs, e) ==
  /\ Kept(c, e.id) \/ jobs[e.id] \in {"canceled", "gone"}
  /\ HistorySuffices => Holds(c, e)

Entered(e) == EnteredIn(catalog, job, e)

\* A message the service sent.
Cited(m) == m.message_id \in DOMAIN messages /\ m.events = messages[m.message_id]

\* The messages a document is about.
Concerns(r) == {r.delivery, TargetOf(r)}

\* Nothing is deleted, or about to be, that the catalog did not take.
Entries ==
  /\ \A i \in DOMAIN messages \ undeleted : Entered(messages[i][1])
  /\ \A r \in late : r.op = "delete" =>
       r.message_id \in DOMAIN messages /\ Entered(messages[r.message_id][1])
  /\ fence # None => \A m \in Concerns(fence) : Cited(m) /\ Entered(m.events[1])

\* A document claims only what its message offered.
Claims(r) ==
  /\ r.phase.name = "AcquisitionRecoveryObserved" =>
       r.phase.acquired \subseteq available_request_ids(r.delivery)
  /\ HasResolution(r) =>
       /\ Unoffered(r.phase.resolution.delivery) /\ r.phase.resolution.acquired # {}
       /\ r.phase.resolution.acquired \subseteq available_request_ids(r.delivery)

\* What was handed over after an offer is kept.
Handing(id) ==
  \/ job[id] = "acquired"
  \/ job[id] = "assigned" /\ \E i \in DOMAIN messages : messages[i][1] = Available(id)
  => Kept(catalog, id)

\* Until it is acknowledged for the first time an offer is not handed over, so
\* an empty answer then means that the job went to somebody else.
Deciding(id) ==
  fence # None /\ fence.delivery.events[1] = Available(id) =>
    /\ \/ fence.phase = Reconciled
       \/ fence.phase = AcknowledgementStarted /\ pc \in {"ack", "acquire"}
       => job[id] \notin {"acquired", "assigned"}
    /\ fence.phase = AcknowledgementStarted /\ pc = "answered" => id \in answer \/ Over(id)
    /\ fence.phase.name = "Acknowledged" => id \in fence.phase.acquired \/ Over(id)

\* A delayed acquisition finds its job offered only under the document it
\* was sent from.
Lagging(id) ==
  \A r \in late : r.op = "acquire" /\ id \in r.ids =>
    /\ job[id] # "new"
    /\ job[id] = "offered" =>
         /\ fence # None /\ pc = "tick" /\ fence.phase = AcknowledgementStarted
         /\ fence.delivery.events[1] = Available(id)

Ledger ==
  /\ Plain(catalog) /\ Shelved /\ Sent /\ Entries
  /\ fence # None => Claims(fence)
  /\ \A id \in AttemptIds : Handing(id) /\ Deciding(id) /\ Lagging(id)

\* Jobs that are over stay so, jobs that are not stay kept, and what the
\* catalog knows does not start again.
Careful ==
  /\ \A id \in AttemptIds : Over(id) => Over(id)'
  /\ \A id \in AttemptIds : Kept(catalog, id) => Kept(catalog', id) \/ Over(id)'
  /\ HistorySuffices =>
       \A id : /\ Recalled(catalog, id) => Recalled(catalog', id)
               /\ Kept(catalog', id) => Kept(catalog, id) \/ ~ Recalled(catalog, id)

LEMMA EnteredStays ==
  ASSUME Careful, NEW e, e.id \in AttemptIds, Entered(e)
  PROVE  EnteredIn(catalog', job', e)
<1>1. Kept(catalog', e.id) \/ job'[e.id] \in {"canceled", "gone"}
  BY DEF Careful, Entered, EnteredIn, Over
<1>2. HistorySuffices => Holds(catalog', e)
  BY DEF Careful, Entered, EnteredIn, Holds
<1> QED BY <1>1, <1>2 DEF EnteredIn

\* A change of the catalog that reserves a new identity or lets go of one whose
\* job is over.
LEMMA ChangeIsCareful ==
  ASSUME Plain(catalog), Shelved, UNCHANGED job, NEW id \in AttemptIds,
         \/ catalog' = catalog
         \/ Adds(catalog, catalog', id)
         \/ Removes(catalog, catalog', id) /\ Over(id)
  PROVE  Careful /\ Plain(catalog') /\ Shelved'
<1>1. \A i : Over(i) <=> Over(i)'
  BY DEF Over
<1>2. CASE catalog' = catalog
  BY <1>1, <1>2 DEF Careful, Shelved, Kept, Recalled
<1>3. CASE Adds(catalog, catalog', id)
  BY <1>1, <1>3 DEF Adds, Local, Careful, Shelved
<1>4. CASE Removes(catalog, catalog', id) /\ Over(id)
  <2>1. /\ Plain(catalog') /\ \A i : i # id => (Kept(catalog', i) <=> Kept(catalog, i))
        /\ HistorySuffices => \A i : Recalled(catalog, i) => Recalled(catalog', i)
        /\ ~ Kept(catalog', id)
        /\ \A k \in Past(catalog') : k \in Past(catalog) \/ k.id = id
    BY <1>4 DEF Removes, Local
  <2>2. Careful
    BY <1>1, <1>4, <2>1 DEF Careful
  <2>3. Shelved'
    BY <1>1, <1>4, <2>1 DEF Shelved
  <2> QED BY <2>1, <2>2, <2>3
<1> QED BY <1>2, <1>3, <1>4

\* Every message has one event.
LEMMA SentIsOne ==
  ASSUME Queued, NEW i \in DOMAIN messages
  PROVE  /\ messages[i][1] \in Events /\ messages[i] = <<messages[i][1]>>
         /\ i \in 1 .. Len(messages)
<1>1. messages \in Seq({<<e>> : e \in Events}) /\ DOMAIN messages = 1 .. Len(messages)
  BY DEF Queued
<1>2. messages[i] \in {<<e>> : e \in Events}
  BY <1>1
<1> QED BY <1>1, <1>2

\* What is polled was sent.
LEMMA PolledIsCited ==
  ASSUME Queued, NEW cursor, NEW capacity, NEW m, poll(cursor, capacity) = Got(m)
  PROVE  Cited(m)
<1>1. m.message_id \in 1 .. Len(messages) /\ m.events = messages[m.message_id]
  BY PolledIsSent
<1>2. DOMAIN messages = 1 .. Len(messages)
  BY DEF Queued
<1> QED BY <1>1, <1>2 DEF Cited

\* A poll that answers with an offer advertised capacity for it.
LEMMA PolledHasRoom ==
  ASSUME Queued, NEW cursor, NEW capacity, NEW m, poll(cursor, capacity) = Got(m)
  PROVE  ~ (Cardinality(available_request_ids(m)) > capacity)
<1> DEFINE held == {i \in undeleted : i > cursor}
           first == Message(CHOOSE i \in held : \A j \in held : i <= j)
<1>1. Got(m) # Nothing /\ Got(m) # Refused
  BY DEF Got, Nothing, Refused
<1>2. poll(cursor, capacity) \in {Nothing, Refused, Got(first)}
      /\ (poll(cursor, capacity) = Got(first) =>
            (Cardinality(available_request_ids(first)) > capacity => Got(first) = Refused))
  BY DEF poll, Got, Nothing
<1> HIDE DEF first
<1>3. m = first
  BY <1>1, <1>2 DEF Got
<1> QED BY <1>1, <1>2, <1>3

\* A new message and its document.
LEMMA MessageEnters ==
  ASSUME IInv, Plain(catalog), ConsumeMessage
  PROVE  /\ fence = None /\ pc' = "reconciled"
         /\ Cited(fence'.delivery) /\ IsDocument(fence') /\ fence'.phase = Reconciled
         /\ \E e \in Events :
              /\ fence'.delivery.events = <<e>>
              /\ \/ catalog' = catalog /\ Holds(catalog, e)
                 \/ e.kind # "Completed" /\ Adds(catalog, catalog', e.id)
                 \/ e.kind = "Completed" /\ Removes(catalog, catalog', e.id)
              /\ e.kind = "Available" => Live(catalog) = {}
<1>1. Ticking({"none"}) /\ Queued
  BY DEF ConsumeMessage, IInv
<1>2. PICK capacity \in AdvertisedCapacities, t \in ObservationTimes :
        LET polled == poll(session.lastAckedID, capacity) IN
        /\ polled.kind = "message"
        /\ fence' \in ReconciledFences(polled.message, catalog, t)
        /\ catalog' = fence'.catalog
        /\ Hold(polled.message, session.lastAckedID, "reconciled")
  BY DEF ConsumeMessage
<1> DEFINE m == poll(session.lastAckedID, capacity).message
<1>3. poll(session.lastAckedID, capacity) = Got(m)
  BY <1>1, <1>2, PolledKind
<1>4. fence' \in ReconciledFences(m, catalog, t) /\ catalog' = fence'.catalog /\ pc' = "reconciled"
  BY <1>2 DEF Hold
<1> HIDE DEF m
<1>5. Cited(m)
  BY <1>1, <1>3, PolledIsCited
<1>6. PICK e \in Events : m.events = <<e>>
  BY <1>1, <1>5, SentIsOne DEF Cited
<1>7. IsDocument(fence') /\ fence'.delivery = m /\ fence'.phase = Reconciled
  BY <1>4, ReconciledShape
<1>8. catalog' \in reconcile_event(e, catalog, t)
  <2>1. PICK d \in reconcile_scale_set_delivery(m, catalog, t) :
          fence' \in recovery_reconciled(m, catalog, d)
    BY <1>4 DEF ReconciledFences
  <2>2. fence'.catalog = d
    BY <2>1 DEF recovery_reconciled, ValidDocuments
  <2>3. reconcile_scale_set_delivery(m, catalog, t) = reconcile_event(e, catalog, t)
    BY <1>6, ReconcileOne
  <2> QED BY <1>4, <2>1, <2>2, <2>3
<1>9. \/ catalog' = catalog /\ Holds(catalog, e)
      \/ e.kind # "Completed" /\ Adds(catalog, catalog', e.id)
      \/ e.kind = "Completed" /\ Removes(catalog, catalog', e.id)
  BY <1>8, EventEnters
<1>10. ASSUME e.kind = "Available" PROVE Live(catalog) = {}
  <2>1. available_request_ids(m) = {e.id}
    BY <1>6, <1>10, RequestsOfOne
  <2>2. ~ (1 > capacity)
    <3>1. Cardinality({e.id}) = 1
      BY FS_Singleton
    <3>2. ~ (Cardinality(available_request_ids(m)) > capacity)
      BY <1>1, <1>3, PolledHasRoom
    <3> QED BY <2>1, <3>1, <3>2
  <2>3. capacity # 0
    BY <2>2
  <2>4. catalog.active = << >>
    BY <2>3 DEF AdvertisedCapacities
  <2> QED BY <2>4 DEF Live, Range
<1> QED BY <1>1, <1>4, <1>5, <1>6, <1>7, <1>9, <1>10, NoFence

\* A resolving message and its document.
LEMMA ResolutionEnters ==
  ASSUME IInv, Plain(catalog), fence # None => \A m \in Concerns(fence) : Cited(m),
         ObserveResolution
  PROVE  /\ fence # None /\ pc' = "lifecycle" /\ fence.phase.name = "AcquisitionRecoveryObserved"
         /\ fence'.delivery = fence.delivery /\ fence'.phase.name = "LifecycleReconciled"
         /\ Concerns(fence') = {fence.delivery, TargetOf(fence')}
         /\ Cited(TargetOf(fence')) /\ IsDocument(fence') /\ Claims(fence')
         /\ \E e \in Events :
              /\ TargetOf(fence').events = <<e>>
              /\ \/ catalog' = catalog /\ Holds(catalog, e) /\ Kept(catalog, e.id)
                 \/ e.kind = "Completed" /\ Removes(catalog, catalog', e.id)
<1> DEFINE m == poll(Original, 0).message
<1>1. Fenced(fence, Len(messages), undeleted) /\ IsDocument(fence) /\ fence # None /\ Queued
  BY ObservingFinds DEF ObserveResolution, Fenced, IInv
<1>2. /\ poll(Original, 0).kind = "message"
      /\ fence' \in ResolvedFences(fence, m, catalog) /\ catalog' = fence'.catalog
      /\ pc' = "lifecycle"
  BY DEF ObserveResolution, Hold
<1>3. poll(Original, 0) = Got(m)
  BY <1>1, <1>2, PolledKind
<1> HIDE DEF m
<1>4. Cited(m)
  BY <1>1, <1>3, PolledIsCited
<1>5. PICK e \in Events : m.events = <<e>>
  BY <1>1, <1>4, SentIsOne DEF Cited
<1>6. /\ IsDocument(fence') /\ fence'.delivery = fence.delivery
      /\ fence'.phase.name = "LifecycleReconciled" /\ fence'.phase.resolution.delivery = m
      /\ fence.phase = AcquisitionRecoveryObserved({})
  BY <1>1, <1>2, ResolvedShape
<1>7. TargetOf(fence') = m /\ HasResolution(fence')
  BY <1>6 DEF TargetOf, HasResolution, LifecyclePhases
<1>8. PICK d \in reconcile_scale_set_acquisition_resolution(
                   available_request_ids(fence.delivery), m, catalog) :
        fence' \in prepare_lifecycle_resolution(fence, m, EventRequests(m), catalog, d)
  BY <1>2 DEF ResolvedFences
<1> DEFINE resolution == [base_revision |-> fence.revision, delivery |-> m,
                          acquired |-> EventRequests(m), prior_catalog |-> catalog]
<1>9. /\ fence' \in Successor(fence, Lifecycle("LifecycleReconciled", resolution), d)
      /\ available_request_ids(m) = {} /\ EventRequests(m) # {}
      /\ EventRequests(m) \subseteq available_request_ids(fence.delivery)
  BY <1>8 DEF prepare_lifecycle_resolution
<1>10. /\ fence'.catalog = d /\ fence'.phase = Lifecycle("LifecycleReconciled", resolution)
  BY <1>1, <1>9 DEF Successor, ValidDocuments, IsDocument
<1>11. fence'.phase.resolution.acquired = EventRequests(m)
  BY <1>10 DEF Lifecycle
<1>12. Claims(fence')
  BY <1>6, <1>9, <1>11 DEF Claims, Unoffered
<1>13. catalog' \in ResolvingEvent(e, available_request_ids(fence.delivery), catalog)
  BY <1>2, <1>5, <1>8, <1>10, ResolveOne
<1>14. \/ catalog' = catalog /\ Holds(catalog, e) /\ Kept(catalog, e.id)
       \/ e.kind = "Completed" /\ Removes(catalog, catalog', e.id)
  BY <1>13, EventResolves
<1>15. fence.phase.name = "AcquisitionRecoveryObserved"
  BY <1>6 DEF AcquisitionRecoveryObserved
<1> QED BY <1>1, <1>2, <1>4, <1>5, <1>6, <1>7, <1>12, <1>14, <1>15 DEF Concerns

\* A settlement releases only a job that is over.
LEMMA SettleSpends ==
  ASSUME IInv, Ledger, Settle
  PROVE  \/ catalog' = catalog
         \/ \E id \in AttemptIds : Removes(catalog, catalog', id) /\ Over(id)
<1>1. Fenced(fence, Len(messages), undeleted) /\ fence.phase.name \in Conclusive /\ fence # None
  <2>1. CASE At({"settle"})
    BY <2>1 DEF At, IInv, Standing, Stands, StandsInside
  <2>2. CASE ~ At({"settle"})
    BY <2>2, TickFinds DEF Settle, Conclusive, Ticking
  <2> QED BY <2>1, <2>2
<1>2. Cited(fence.delivery) /\ Plain(catalog) /\ Claims(fence)
  BY <1>1 DEF Ledger, Entries, Concerns
<1>3. PICK e \in Events : fence.delivery.events = <<e>>
  BY <1>2, SentIsOne DEF Cited, IInv
<1>4. fence.phase.name # "SettlementPrepared" /\ catalog' \in SettledCatalogs(fence, catalog)
  BY <1>1 DEF Conclusive, Settle
<1>5. PICK v \in SettlementEvidence(fence) :
        catalog' \in settle_scale_set_delivery_catalog(e, e.id \in v.acquired, catalog)
  BY <1>3, <1>4, SettledIsOne
<1>6. \/ catalog' = catalog
      \/ e.kind = "Available" /\ e.id \notin v.acquired /\ Removes(catalog, catalog', e.id)
  BY <1>2, <1>5, EventSettles
<1> SUFFICES ASSUME e.kind = "Available", e.id \notin v.acquired, Removes(catalog, catalog', e.id)
             PROVE  Over(e.id)
  BY <1>6, EventShape
<1>7. /\ e.id \in AttemptIds /\ available_request_ids(fence.delivery) = {e.id}
      /\ fence.delivery.events[1] = Available(e.id)
  BY <1>3, EventShape, RequestsOfOne
<1>8. CASE fence.phase.name = "Acknowledged"
  <2>1. v.acquired = fence.phase.acquired
    BY <1>5, <1>8 DEF SettlementEvidence
  <2> QED BY <1>1, <1>7, <1>8, <2>1 DEF Ledger, Deciding
<1>9. CASE fence.phase.name = "AcquisitionRecoveryObserved"
  <2>1. v.acquired = fence.phase.acquired /\ v.acquired # {}
    BY <1>5, <1>9 DEF SettlementEvidence
  <2> QED BY <1>2, <1>7, <1>9, <2>1 DEF Claims
<1>10. CASE fence.phase.name = "LifecycleAcknowledged"
  <2>1. v.acquired = fence.phase.resolution.acquired
    BY <1>5, <1>10 DEF SettlementEvidence
  <2> QED BY <1>2, <1>7, <1>10, <2>1 DEF Claims, HasResolution, LifecyclePhases
<1> QED BY <1>1, <1>8, <1>9, <1>10 DEF Conclusive

-----------------------------------------------------------------------------
(***************************************************************************)
(* Steps keep the ledger.                                                  *)
(***************************************************************************)
\* The life of a job at the service.
JobMoves ==
  \A id \in AttemptIds :
    \/ job'[id] = job[id]
    \/ job[id] = "new" /\ job'[id] \in {"offered", "assigned"}
    \/ job[id] = "offered" /\ job'[id] \in {"acquired", "gone"}
    \/ job[id] = "acquired" /\ job'[id] \in {"assigned", "canceled"}
    \/ job[id] = "assigned" /\ job'[id] = "canceled"

LEMMA AcquiresMove ==
  ASSUME Roomy, NEW ids, AcquireJobs(ids)
  PROVE  /\ JobMoves
         /\ \A id \in AttemptIds :
              job'[id] = IF id \in ids /\ job[id] = "offered" THEN "acquired" ELSE job[id]
<1>1. \A id \in AttemptIds :
        job'[id] = IF id \in ids /\ job[id] = "offered" THEN "acquired" ELSE job[id]
  BY DEF AcquireJobs, Handed
<1> QED BY <1>1 DEF JobMoves

LEMMA ServiceMoves ==
  ASSUME Roomy, NEW id \in AttemptIds,
         \/ Offer(id) \/ AssignUnoffered(id) \/ AssignAcquired(id) \/ Cancel(id) \/ Withdraw(id)
  PROVE  JobMoves
<1>1. \E next : job' = [job EXCEPT ![id] = next] /\
        \/ job[id] = "new" /\ next \in {"offered", "assigned"}
        \/ job[id] = "offered" /\ next = "gone"
        \/ job[id] = "acquired" /\ next \in {"assigned", "canceled"}
        \/ job[id] = "assigned" /\ next = "canceled"
  BY DEF Offer, AssignUnoffered, AssignAcquired, Cancel, Withdraw
<1> QED BY <1>1 DEF Roomy, JobMoves

\* A step that leaves the catalog alone.
LEMMA JobsAreCareful ==
  ASSUME Plain(catalog), Shelved, JobMoves, UNCHANGED catalog
  PROVE  Careful /\ Plain(catalog') /\ Shelved'
<1>1. \A id \in AttemptIds : Over(id) => Over(id)'
  BY DEF JobMoves, Over
<1> QED BY <1>1 DEF Careful, Shelved

\* The entries after a step.
LEMMA EntriesStay ==
  ASSUME IInv, Entries, Careful,
         \A i \in DOMAIN messages : i \in DOMAIN messages' /\ messages'[i] = messages[i],
         \A i \in DOMAIN messages' \ undeleted' :
           i \in DOMAIN messages /\ (i \in undeleted => Entered(messages[i][1])),
         \A r \in late' : r.op = "delete" =>
           r \in late \/ (r.message_id \in DOMAIN messages /\ Entered(messages[r.message_id][1])),
         fence' # None => \A m \in Concerns(fence') :
           Cited(m) /\ (Entered(m.events[1]) \/ EnteredIn(catalog', job', m.events[1]))
  PROVE  Entries'
<1>1. \A i \in DOMAIN messages : messages[i][1].id \in AttemptIds
  BY SentIsOne, EventShape DEF IInv
<1>2. \A i \in DOMAIN messages : Entered(messages[i][1]) => EnteredIn(catalog', job', messages'[i][1])
  BY <1>1, EnteredStays
<1>3. \A i \in DOMAIN messages' \ undeleted' : EnteredIn(catalog', job', messages'[i][1])
  BY <1>2 DEF Entries
<1>4. \A r \in late' : r.op = "delete" =>
        r.message_id \in DOMAIN messages' /\ EnteredIn(catalog', job', messages'[r.message_id][1])
  BY <1>2 DEF Entries
<1>5. ASSUME fence' # None, NEW m \in Concerns(fence')
      PROVE  /\ m.message_id \in DOMAIN messages' /\ m.events = messages'[m.message_id]
             /\ EnteredIn(catalog', job', m.events[1])
  <2>1. Cited(m) /\ (Entered(m.events[1]) \/ EnteredIn(catalog', job', m.events[1]))
    BY <1>5
  <2>2. m.message_id \in DOMAIN messages' /\ m.events = messages'[m.message_id]
    BY <2>1 DEF Cited
  <2>3. m.events[1].id \in AttemptIds
    BY <1>1, <2>1 DEF Cited
  <2> QED BY <2>1, <2>2, <2>3, EnteredStays
<1> QED BY <1>3, <1>4, <1>5 DEF Entries, Entered, Cited

\* What a document without events on offer has to decide: nothing.
LEMMA OffersOne ==
  ASSUME IInv, NEW m, Cited(m), NEW id, m.events[1] = Available(id)
  PROVE  ~ Unoffered(m) /\ available_request_ids(m) = {id} /\ id \in AttemptIds
<1>1. m.events[1] \in Events /\ m.events = <<m.events[1]>>
  BY SentIsOne DEF IInv, Cited
<1>2. m.events[1].kind = "Available" /\ m.events[1].id = id
  BY DEF Available
<1> QED BY <1>1, <1>2, RequestsOfOne, EventShape

LEMMA OfferedOne ==
  ASSUME IInv, NEW m, Cited(m), NEW id \in available_request_ids(m)
  PROVE  m.events[1] = Available(id) /\ id \in AttemptIds
<1>1. m.events[1] \in Events /\ m.events = <<m.events[1]>>
  BY SentIsOne DEF IInv, Cited
<1>2. m.events[1].kind = "Available" /\ m.events[1].id = id
  BY <1>1, RequestsOfOne
<1> QED BY <1>1, <1>2, EventShape

\* A step that moves only the controller, the bridge, and requests under way.
LEMMA RestKeeps ==
  ASSUME IInv, Ledger, UNCHANGED <<catalog, fence, messages, undeleted, job>>,
         fence # None /\ fence.phase = AcknowledgementStarted /\ ~ Unoffered(fence.delivery) =>
           pc' = "tick" \/ UNCHANGED <<pc, answer>>,
         \A r \in late' : r \in late \/
           /\ r.op = "delete" =>
                r.message_id \in DOMAIN messages /\ Entered(messages[r.message_id][1])
           /\ r.op = "acquire" =>
                /\ pc' = "tick" /\ fence # None /\ fence.phase = AcknowledgementStarted
                /\ \A id \in r.ids : job[id] # "new" /\ fence.delivery.events[1] = Available(id)
  PROVE  Ledger'
<1>1. JobMoves
  BY DEF JobMoves
<1>2. Careful /\ Plain(catalog') /\ Shelved'
  BY <1>1, JobsAreCareful DEF Ledger
<1>3. Sent'
  BY DEF Ledger, Sent
<1>4. Entries'
  <2>1. Entries /\ \A m \in Concerns(fence) : fence # None => Cited(m) /\ Entered(m.events[1])
    BY DEF Ledger, Entries
  <2> QED BY <1>2, <2>1, EntriesStay
<1>5. fence' # None => Claims(fence')
  BY DEF Ledger
<1>6. ASSUME NEW id \in AttemptIds PROVE (Handing(id) /\ Deciding(id) /\ Lagging(id))'
  <2>1. Handing(id) /\ Deciding(id) /\ Lagging(id)
    BY DEF Ledger
  <2>2. Handing(id)'
    BY <2>1 DEF Handing
  <2>3. fence # None /\ fence.delivery.events[1] = Available(id) => ~ Unoffered(fence.delivery)
    BY OffersOne DEF Ledger, Entries, Concerns
  <2>4. Deciding(id)'
    BY <2>1, <2>3 DEF Deciding, Over
  <2>5. Lagging(id)'
    <3> SUFFICES ASSUME NEW r \in late', r.op = "acquire", id \in r.ids
                 PROVE  /\ job[id] # "new"
                        /\ job[id] = "offered" =>
                             /\ fence # None /\ pc' = "tick" /\ fence.phase = AcknowledgementStarted
                             /\ fence.delivery.events[1] = Available(id)
      BY DEF Lagging
    <3>1. CASE r \in late
      BY <2>1, <2>3, <3>1 DEF Lagging
    <3>2. CASE r \notin late
      BY <3>2
    <3> QED BY <3>1, <3>2
  <2> QED BY <2>2, <2>4, <2>5
<1> QED BY <1>2, <1>3, <1>4, <1>5, <1>6 DEF Ledger

LEMMA ConnectKeeps == ASSUME IInv, Ledger, Connect \/ ConsumeIdle PROVE Ledger'
<1>1. /\ UNCHANGED <<catalog, fence, messages, undeleted, job>> /\ late' = late
      /\ UNCHANGED <<pc, answer>>
  BY DEF Connect, ConsumeIdle, durable, service
<1> QED BY <1>1, RestKeeps

\* The phase a tick starts from.
LEMMA TickPhase ==
  ASSUME IInv, NEW phases, Ticking(phases), fence # None, fence.phase = AcknowledgementStarted
  PROVE  "AcknowledgementStarted" \in phases
BY DEF Ticking, AcknowledgementStarted

LEMMA ResumeKeeps == ASSUME IInv, Ledger, ResumeReconciled PROVE Ledger'
<1>1. /\ UNCHANGED <<catalog, fence, messages, undeleted, job>> /\ late' = late
      /\ Ticking({"Reconciled"})
  BY DEF ResumeReconciled, durable
<1>2. ~ (fence # None /\ fence.phase = AcknowledgementStarted)
  BY <1>1, TickPhase
<1> QED BY <1>1, <1>2, RestKeeps

LEMMA RefusedKeeps == ASSUME IInv, Ledger, ConsumeRefused \/ ObserveNothing PROVE Ledger'
<1>1. /\ UNCHANGED <<catalog, fence, messages, undeleted, job>> /\ late' = late /\ pc' = "tick"
  BY DEF ConsumeRefused, ObserveNothing, Drop, durable
<1> QED BY <1>1, RestKeeps

\* The job of a message is known to the service.
LEMMA CitedIsNotNew ==
  ASSUME Ledger, NEW m, Cited(m), NEW id, m.events[1] = Available(id)
  PROVE  job[id] # "new"
<1>1. messages[m.message_id][1] = Available(id) /\ m.message_id \in DOMAIN messages
  BY DEF Cited
<1>2. messages[m.message_id][1].id = id
  BY <1>1 DEF Available
<1> QED BY <1>1, <1>2 DEF Ledger, Sent

LEMMA LoseKeeps == ASSUME NoneIsNoDocument, IInv, Ledger, LoseSession PROVE Ledger'
<1>1. /\ UNCHANGED <<catalog, fence, messages, undeleted, job>> /\ pc' = "tick"
      /\ \A r \in late' : r \in late \/ r \in UnderWay
  BY DEF LoseSession, Drop, durable, service
<1>2. pc # "tick" => Fenced(fence, Len(messages), undeleted) /\ fence # None
  BY DEF IInv, Standing, Stands, StandsInside, Fenced, NoneIsNoDocument
<1>3. fence # None => \A m \in Concerns(fence) : Cited(m) /\ Entered(m.events[1])
  BY DEF Ledger, Entries
<1>4. ASSUME NEW r \in UnderWay
      PROVE  /\ r.op = "delete" =>
                  r.message_id \in DOMAIN messages /\ Entered(messages[r.message_id][1])
             /\ r.op = "acquire" =>
                  /\ fence # None /\ fence.phase = AcknowledgementStarted
                  /\ \A id \in r.ids : job[id] # "new" /\ fence.delivery.events[1] = Available(id)
  <2>1. CASE pc = "ack"
    <3>1. r = [op |-> "delete", message_id |-> AckTarget.message_id]
      BY <1>4, <2>1 DEF UnderWay, Ticking
    <3>2. AckTarget \in Concerns(fence) /\ fence # None
      BY <1>2, <2>1 DEF Concerns, AckTarget, TargetOf
    <3>3. Cited(AckTarget) /\ Entered(AckTarget.events[1])
      BY <1>3, <3>2
    <3> QED BY <3>1, <3>3 DEF Cited
  <2>2. CASE pc # "ack"
    <3>1. /\ pc = "acquire" \/ Ticking({"AcknowledgementStarted"})
          /\ r = [op |-> "acquire", ids |-> available_request_ids(fence.delivery)]
      BY <1>4, <2>2 DEF UnderWay
    <3>2. fence # None /\ fence.phase = AcknowledgementStarted
      <4>1. CASE pc = "acquire"
        <5>1. /\ StandsInside("acquire", fence, session, Len(messages), undeleted)
          BY <4>1 DEF IInv, Standing, Stands
        <5>2. fence.phase.name \in Asking /\ ~ Unoffered(TargetOf(fence)) /\ IsDocument(fence)
          BY <5>1 DEF StandsInside, Fenced
        <5>3. Claims(fence) /\ fence # None
          BY <1>2, <4>1 DEF Ledger
        <5>4. ~ HasResolution(fence)
          BY <5>2, <5>3 DEF Claims, TargetOf
        <5> QED BY <5>2, <5>3, <5>4 DEF HasResolution, Asking, LifecyclePhases, IsDocument,
                IsPhase, Reconciled
      <4>2. CASE Ticking({"AcknowledgementStarted"})
        <5>1. fence # None
          BY <4>2 DEF Ticking
        <5>2. IsDocument(fence) /\ fence.phase.name = "AcknowledgementStarted"
          BY <4>2, <5>1, TickFinds DEF Fenced
        <5> QED BY <5>1, <5>2 DEF IsDocument, IsPhase, Reconciled, LifecyclePhases
      <4> QED BY <3>1, <4>1, <4>2
    <3>3. Cited(fence.delivery)
      BY <1>3, <3>2 DEF Concerns
    <3>4. \A id \in available_request_ids(fence.delivery) : fence.delivery.events[1] = Available(id)
      BY <3>3, OfferedOne
    <3>5. \A id \in available_request_ids(fence.delivery) : job[id] # "new"
      BY <3>3, <3>4, CitedIsNotNew
    <3> QED BY <3>1, <3>2, <3>4, <3>5
  <2> QED BY <2>1, <2>2
<1> QED BY <1>1, <1>4, RestKeeps

\* Deletions, by the bridge or late.
LEMMA DeletesKeep ==
  ASSUME IInv, Ledger, UNCHANGED <<catalog, fence, messages, job>>, late' \subseteq late,
         NEW i, i \in DOMAIN messages => Entered(messages[i][1]), undeleted' = undeleted \ {i}
  PROVE  /\ Plain(catalog') /\ Shelved' /\ Sent' /\ Entries' /\ (fence' # None => Claims(fence'))
         /\ \A id \in AttemptIds : Handing(id)'
<1>1. JobMoves
  BY DEF JobMoves
<1>2. Careful /\ Plain(catalog') /\ Shelved'
  BY <1>1, JobsAreCareful DEF Ledger
<1>3. Sent' /\ (fence' # None => Claims(fence')) /\ \A id \in AttemptIds : Handing(id)'
  BY DEF Ledger, Sent, Handing
<1>4. Entries'
  <2>1. Entries /\ \A m \in Concerns(fence) : fence # None => Cited(m) /\ Entered(m.events[1])
    BY DEF Ledger, Entries
  <2>2. \A k \in DOMAIN messages' \ undeleted' :
          k \in DOMAIN messages /\ (k \in undeleted => Entered(messages[k][1]))
    OBVIOUS
  <2> QED BY <1>2, <2>1, <2>2, EntriesStay
<1> QED BY <1>2, <1>3, <1>4

LEMMA DeleteKeeps == ASSUME NoneIsNoDocument, IInv, Ledger, DeleteMessage PROVE Ledger'
<1>1. /\ UNCHANGED <<catalog, fence, messages, job, late, answer>> /\ pc = "ack"
      /\ undeleted' = undeleted \ {AckTarget.message_id}
      /\ pc' = IF Unoffered(AckTarget) THEN "answered" ELSE "acquire"
  BY DEF DeleteMessage, durable
<1>2. Fenced(fence, Len(messages), undeleted) /\ fence # None
  BY <1>1 DEF IInv, Standing, Stands, StandsInside, Fenced, NoneIsNoDocument
<1>3. /\ Cited(AckTarget) /\ Entered(AckTarget.events[1]) /\ Cited(fence.delivery)
  BY <1>2 DEF Ledger, Entries, Concerns, AckTarget, TargetOf
<1>4. Entered(messages[AckTarget.message_id][1])
  BY <1>3 DEF Cited
<1>5. /\ Plain(catalog') /\ Shelved' /\ Sent' /\ Entries' /\ (fence' # None => Claims(fence'))
      /\ \A id \in AttemptIds : Handing(id)'
  BY <1>1, <1>4, DeletesKeep
<1>6. ASSUME NEW id \in AttemptIds PROVE (Deciding(id) /\ Lagging(id))'
  <2>1. Deciding(id) /\ Lagging(id)
    BY DEF Ledger
  <2>2. /\ fence.delivery.events[1] = Available(id) /\ fence.phase = AcknowledgementStarted =>
             pc' = "acquire"
    <3> SUFFICES ASSUME fence.delivery.events[1] = Available(id), fence.phase = AcknowledgementStarted
                 PROVE  ~ Unoffered(AckTarget)
      BY <1>1
    <3>1. AckTarget = fence.delivery
      BY DEF AckTarget, HasResolution, LifecyclePhases, AcknowledgementStarted
    <3> QED BY <1>3, <3>1, OffersOne
  <2>3. Deciding(id)'
    BY <1>1, <2>1, <2>2 DEF Deciding, Over
  <2>4. Lagging(id)'
    BY <1>1, <2>1 DEF Lagging
  <2> QED BY <2>3, <2>4
<1> QED BY <1>5, <1>6 DEF Ledger

LEMMA LateDeleteKeeps == ASSUME IInv, Ledger, LateDelete PROVE Ledger'
<1>1. PICK r \in late : /\ r.op = "delete"
                        /\ undeleted' = undeleted \ {r.message_id} /\ late' = late \ {r}
                        /\ UNCHANGED <<durable, controller, messages, job, advertised, faults>>
  BY DEF LateDelete
<1>2. UNCHANGED <<catalog, fence, messages, job, pc, answer>> /\ late' \subseteq late
  BY <1>1 DEF durable, controller
<1>3. Entered(messages[r.message_id][1])
  BY <1>1 DEF Ledger, Entries
<1>4. /\ Plain(catalog') /\ Shelved' /\ Sent' /\ Entries' /\ (fence' # None => Claims(fence'))
      /\ \A id \in AttemptIds : Handing(id)'
  BY <1>1, <1>2, <1>3, DeletesKeep
<1>5. \A id \in AttemptIds : (Deciding(id) /\ Lagging(id))'
  BY <1>2 DEF Ledger, Deciding, Lagging, Over
<1> QED BY <1>4, <1>5 DEF Ledger

\* Acquisitions, by the bridge or late: what is handed over is under a fence
\* that keeps it.
LEMMA AcquiresKeep ==
  ASSUME IInv, Ledger, NEW ids, AcquireJobs(ids),
         UNCHANGED <<catalog, fence, messages, undeleted>>, late' \subseteq late,
         \A id \in AttemptIds : id \in ids /\ job[id] = "offered" =>
           fence # None /\ fence.delivery.events[1] = Available(id)
  PROVE  /\ Plain(catalog') /\ Shelved' /\ Sent' /\ Entries' /\ (fence' # None => Claims(fence'))
         /\ \A id \in AttemptIds :
              /\ Handing(id)' /\ (Over(id) => Over(id)')
              /\ job'[id] = IF id \in ids /\ job[id] = "offered" THEN "acquired" ELSE job[id]
<1>0. Roomy /\ Queued
  BY DEF IInv
<1>1. /\ JobMoves
      /\ \A id \in AttemptIds :
           job'[id] = IF id \in ids /\ job[id] = "offered" THEN "acquired" ELSE job[id]
  BY <1>0, AcquiresMove
<1>2. Careful /\ Plain(catalog') /\ Shelved'
  BY <1>1, JobsAreCareful DEF Ledger
<1>3. Entries'
  <2>1. Entries /\ \A m \in Concerns(fence) : fence # None => Cited(m) /\ Entered(m.events[1])
    BY DEF Ledger, Entries
  <2> QED BY <1>2, <2>1, EntriesStay
<1>4. Sent'
  <2>1. \A i \in DOMAIN messages : messages[i][1].id \in AttemptIds
    BY <1>0, SentIsOne, EventShape
  <2>2. \A id \in AttemptIds :
          (job'[id] = "new" <=> job[id] = "new") /\ (job[id] = "canceled" => job'[id] = "canceled")
    BY <1>1
  <2> QED BY <2>1, <2>2 DEF Ledger, Sent
<1>5. ASSUME NEW id \in AttemptIds PROVE Handing(id)'
  <2>1. Handing(id) /\ (job'[id] = IF id \in ids /\ job[id] = "offered" THEN "acquired" ELSE job[id])
    BY <1>1 DEF Ledger
  <2>2. CASE id \in ids /\ job[id] = "offered"
    <3>1. fence # None /\ fence.delivery.events[1] = Available(id)
      BY <2>2
    <3>2. Entered(Available(id)) /\ Available(id).id = id
      BY <3>1 DEF Ledger, Entries, Concerns, Available
    <3>3. Kept(catalog, id)
      BY <2>2, <3>2 DEF Entered, EnteredIn
    <3> QED BY <3>3 DEF Handing
  <2>3. CASE ~ (id \in ids /\ job[id] = "offered")
    BY <2>1, <2>3 DEF Handing
  <2> QED BY <2>2, <2>3
<1>6. (fence' # None => Claims(fence')) /\ \A id \in AttemptIds : Over(id) => Over(id)'
  BY <1>2 DEF Ledger, Careful
<1> QED BY <1>1, <1>2, <1>3, <1>4, <1>5, <1>6

LEMMA AckAcquireKeeps == ASSUME NoneIsNoDocument, IInv, Ledger, AckAcquire PROVE Ledger'
<1>1. /\ UNCHANGED <<catalog, fence, messages, undeleted, late>> /\ pc = "acquire" /\ pc' = "answered"
      /\ answer' = Handed(available_request_ids(AckTarget))
      /\ AcquireJobs(available_request_ids(AckTarget))
  BY DEF AckAcquire, durable
<1>2. /\ Fenced(fence, Len(messages), undeleted) /\ fence # None /\ IsDocument(fence)
      /\ fence.phase.name \in Asking /\ ~ Unoffered(TargetOf(fence))
  BY <1>1 DEF IInv, Standing, Stands, StandsInside, Fenced, NoneIsNoDocument
<1>3. AckTarget = fence.delivery /\ fence.phase = AcknowledgementStarted
  <2>1. Claims(fence)
    BY <1>2 DEF Ledger
  <2>2. ~ HasResolution(fence)
    BY <1>2, <2>1 DEF Claims, TargetOf
  <2> QED BY <1>2, <2>2 DEF AckTarget, HasResolution, Asking, LifecyclePhases, IsDocument,
          IsPhase, Reconciled
<1>4. Cited(fence.delivery)
  BY <1>2 DEF Ledger, Entries, Concerns
<1> DEFINE ids == available_request_ids(fence.delivery)
<1>5. \A id \in ids : fence.delivery.events[1] = Available(id)
  BY <1>4, OfferedOne
<1>6. /\ Plain(catalog') /\ Shelved' /\ Sent' /\ Entries' /\ (fence' # None => Claims(fence'))
      /\ \A id \in AttemptIds :
           /\ Handing(id)' /\ (Over(id) => Over(id)')
           /\ job'[id] = IF id \in ids /\ job[id] = "offered" THEN "acquired" ELSE job[id]
  BY <1>1, <1>2, <1>3, <1>5, AcquiresKeep
<1>7. ASSUME NEW id \in AttemptIds PROVE (Deciding(id) /\ Lagging(id))'
  <2>1. Deciding(id) /\ Lagging(id)
    BY DEF Ledger
  <2>2. Lagging(id)'
    BY <1>1, <1>6, <2>1 DEF Lagging
  <2>3. ASSUME fence.delivery.events[1] = Available(id) PROVE id \in answer' \/ Over(id)'
    <3>1. job[id] \notin {"acquired", "assigned", "new"} /\ id \in ids
      BY <1>1, <1>2, <1>3, <1>4, <2>1, <2>3, CitedIsNotNew, OffersOne DEF Deciding
    <3>2. job[id] \in {"offered", "canceled", "gone"}
      BY <3>1 DEF IInv, Roomy
    <3> QED BY <1>1, <1>3, <1>6, <3>1, <3>2 DEF Handed, Over
  <2>4. fence.phase # Reconciled /\ fence.phase.name # "Acknowledged"
    BY <1>3 DEF AcknowledgementStarted, Reconciled
  <2>5. Deciding(id)'
    BY <1>1, <2>3, <2>4 DEF Deciding
  <2> QED BY <2>2, <2>5
<1> QED BY <1>6, <1>7 DEF Ledger

LEMMA ReplayKeeps == ASSUME IInv, Ledger, ReplayAcquisition PROVE Ledger'
<1> DEFINE ids == available_request_ids(fence.delivery)
<1>1. /\ UNCHANGED <<catalog, fence, messages, undeleted, late>> /\ pc = "tick" /\ pc' = "recovered"
      /\ AcquireJobs(ids) /\ Ticking({"AcknowledgementStarted"})
  BY DEF ReplayAcquisition, durable, Ticking
<1>2. fence # None
  BY <1>1 DEF Ticking
<1>3. IsDocument(fence) /\ fence.phase.name = "AcknowledgementStarted"
  BY <1>1, <1>2, TickFinds DEF Fenced
<1>4. Cited(fence.delivery)
  BY <1>2 DEF Ledger, Entries, Concerns
<1>5. \A id \in ids : fence.delivery.events[1] = Available(id)
  BY <1>4, OfferedOne
<1>6. /\ Plain(catalog') /\ Shelved' /\ Sent' /\ Entries' /\ (fence' # None => Claims(fence'))
      /\ \A id \in AttemptIds :
           /\ Handing(id)' /\ (Over(id) => Over(id)')
           /\ job'[id] = IF id \in ids /\ job[id] = "offered" THEN "acquired" ELSE job[id]
  BY <1>1, <1>2, <1>5, AcquiresKeep
<1>7. ASSUME NEW id \in AttemptIds PROVE (Deciding(id) /\ Lagging(id))'
  <2>1. Lagging(id)
    BY DEF Ledger
  <2>2. fence.delivery.events[1] = Available(id) => id \in ids
    BY <1>4, OffersOne
  <2>3. Lagging(id)'
    BY <1>1, <1>6, <2>1, <2>2 DEF Lagging
  <2>4. fence.phase # Reconciled /\ fence.phase.name # "Acknowledged"
    BY <1>3 DEF Reconciled
  <2>5. Deciding(id)'
    BY <1>1, <2>4 DEF Deciding
  <2> QED BY <2>3, <2>5
<1> QED BY <1>6, <1>7 DEF Ledger

LEMMA LateAcquireKeeps == ASSUME IInv, Ledger, LateAcquire PROVE Ledger'
<1>1. PICK r \in late : /\ r.op = "acquire" /\ AcquireJobs(r.ids) /\ late' = late \ {r}
                        /\ UNCHANGED <<durable, controller, messages, undeleted, advertised, faults>>
  BY DEF LateAcquire
<1>2. UNCHANGED <<catalog, fence, messages, undeleted, pc, answer>> /\ late' \subseteq late
  BY <1>1 DEF durable, controller
<1>3. \A id \in AttemptIds : id \in r.ids /\ job[id] = "offered" =>
        /\ fence # None /\ pc = "tick" /\ fence.phase = AcknowledgementStarted
        /\ fence.delivery.events[1] = Available(id)
  BY <1>1 DEF Ledger, Lagging
<1>4. /\ Plain(catalog') /\ Shelved' /\ Sent' /\ Entries' /\ (fence' # None => Claims(fence'))
      /\ \A id \in AttemptIds :
           /\ Handing(id)' /\ (Over(id) => Over(id)')
           /\ job'[id] = IF id \in r.ids /\ job[id] = "offered" THEN "acquired" ELSE job[id]
  BY <1>1, <1>2, <1>3, AcquiresKeep
<1>5. ASSUME NEW id \in AttemptIds PROVE (Deciding(id) /\ Lagging(id))'
  <2>1. Deciding(id) /\ Lagging(id)
    BY DEF Ledger
  <2>2. Lagging(id)'
    BY <1>2, <1>4, <2>1 DEF Lagging
  <2>3. CASE id \in r.ids /\ job[id] = "offered"
    <3>1. /\ pc = "tick" /\ fence.phase = AcknowledgementStarted
      BY <1>3, <2>3
    <3>2. fence.phase # Reconciled /\ fence.phase.name # "Acknowledged"
      BY <3>1 DEF AcknowledgementStarted, Reconciled
    <3>3. Deciding(id)'
      BY <1>2, <3>1, <3>2 DEF Deciding
    <3> QED BY <2>2, <3>3
  <2>4. CASE ~ (id \in r.ids /\ job[id] = "offered")
    <3>1. job'[id] = job[id]
      BY <1>4, <2>4
    <3>2. Deciding(id)'
      BY <1>2, <2>1, <3>1 DEF Deciding, Over
    <3> QED BY <2>2, <3>2
  <2> QED BY <2>3, <2>4
<1> QED BY <1>4, <1>5 DEF Ledger

\* A step from one document of a delivery to the next.
LEMMA AdvanceKeeps ==
  ASSUME IInv, Ledger, UNCHANGED <<catalog, messages, undeleted, job, late>>, fence # None,
         Concerns(fence') = Concerns(fence), Claims(fence'),
         ~ (pc = "tick" /\ fence.phase = AcknowledgementStarted /\ ~ Unoffered(fence.delivery)),
         \A id \in AttemptIds : Deciding(id)'
  PROVE  Ledger'
<1>1. JobMoves
  BY DEF JobMoves
<1>2. Careful /\ Plain(catalog') /\ Shelved'
  BY <1>1, JobsAreCareful DEF Ledger
<1>3. Sent' /\ \A id \in AttemptIds : Handing(id)'
  BY DEF Ledger, Sent, Handing
<1>4. Entries'
  <2>1. Entries /\ \A m \in Concerns(fence') : Cited(m) /\ Entered(m.events[1])
    BY DEF Ledger, Entries
  <2> QED BY <1>2, <2>1, EntriesStay
<1>5. ASSUME NEW id \in AttemptIds PROVE Lagging(id)'
  <2>1. Lagging(id)
    BY DEF Ledger
  <2>2. fence.delivery.events[1] = Available(id) => ~ Unoffered(fence.delivery)
    BY OffersOne DEF Ledger, Entries, Concerns
  <2>3. \A r \in late : r.op = "acquire" /\ id \in r.ids => job[id] \notin {"new", "offered"}
    BY <2>1, <2>2 DEF Lagging
  <2> QED BY <2>3 DEF Lagging
<1> QED BY <1>2, <1>3, <1>4, <1>5 DEF Ledger

\* A resolved document has nothing left to decide.
LEMMA ResolvedDecides ==
  ASSUME NEW r, HasResolution(r)
  PROVE  r.phase # Reconciled /\ r.phase # AcknowledgementStarted /\ r.phase.name # "Acknowledged"
BY DEF HasResolution, LifecyclePhases, Reconciled, AcknowledgementStarted

LEMMA BeginAckKeeps == ASSUME IInv, Ledger, BeginAck PROVE Ledger'
<1>1. /\ UNCHANGED <<catalog, messages, undeleted, job, late>> /\ pc' = "ack" /\ fence # None
      /\ pc \in {"reconciled", "lifecycle"}
      /\ fence' \in IF HasResolution(fence) THEN begin_lifecycle_ack(fence) ELSE begin_ack(fence)
  BY DEF BeginAck, Continue, service, At
<1>2. StandsInside(pc, fence, session, Len(messages), undeleted) /\ Claims(fence)
  BY <1>1 DEF IInv, Standing, Stands, Ledger
<1>3. IsDocument(fence)
  BY <1>2 DEF StandsInside, Fenced
<1>4. /\ fence'.delivery = fence.delivery /\ fence'.phase.name \in Asking
      /\ HasResolution(fence') <=> HasResolution(fence)
      /\ HasResolution(fence) => fence'.phase.resolution = fence.phase.resolution
  BY <1>1, <1>3, BeginShape
<1>5. Concerns(fence') = Concerns(fence) /\ Claims(fence')
  BY <1>2, <1>4 DEF Concerns, TargetOf, Claims, Asking
<1>6. ASSUME NEW id \in AttemptIds PROVE Deciding(id)'
  <2>1. CASE HasResolution(fence)
    BY <1>4, <2>1, ResolvedDecides DEF Deciding
  <2>2. CASE ~ HasResolution(fence)
    <3>1. fence.phase = Reconciled
      BY <1>1, <1>2, <2>2 DEF StandsInside, HasResolution, LifecyclePhases
    <3>2. fence'.phase.name # "Acknowledged" /\ fence'.phase # Reconciled
      BY <1>4 DEF Asking, Reconciled
    <3>3. fence.delivery.events[1] = Available(id) => job[id] \notin {"acquired", "assigned"}
      BY <1>1, <3>1 DEF Ledger, Deciding
    <3> QED BY <1>1, <1>4, <3>2, <3>3 DEF Deciding
  <2> QED BY <2>1, <2>2
<1> QED BY <1>1, <1>5, <1>6, AdvanceKeeps

\* The answer of an acknowledgement.
LEMMA AnswerKeeps ==
  ASSUME NEW r, IsDocument(r), r.phase.name = "AcknowledgementStarted", NEW acquired,
         NEW s \in record_ack_response(r, acquired)
  PROVE  /\ Concerns(s) = Concerns(r) /\ s.delivery = r.delivery /\ Claims(s)
         /\ s.phase.name = "Acknowledged" /\ s.phase.acquired = acquired
<1>1. s.delivery = r.delivery /\ s.phase.name = "Acknowledged" /\ s.phase.acquired = acquired
  BY AckShape
<1>2. ~ HasResolution(r) /\ ~ HasResolution(s)
  BY <1>1 DEF HasResolution, LifecyclePhases
<1> QED BY <1>1, <1>2 DEF Concerns, TargetOf, Claims

LEMMA ResolvedKeeps ==
  ASSUME NEW r, IsDocument(r), r.phase.name = "LifecycleAcknowledgementStarted", Claims(r),
         NEW s \in record_lifecycle_ack(r)
  PROVE  Concerns(s) = Concerns(r) /\ Claims(s) /\ HasResolution(s)
<1>1. /\ s.delivery = r.delivery /\ s.phase.name = "LifecycleAcknowledged"
      /\ s.phase.resolution = r.phase.resolution
  BY LifecycleAckShape
<1>2. HasResolution(r) /\ HasResolution(s)
  BY <1>1 DEF HasResolution, LifecyclePhases
<1> QED BY <1>1, <1>2 DEF Concerns, TargetOf, Claims

LEMMA RecordAckKeeps == ASSUME IInv, Ledger, RecordAck PROVE Ledger'
<1>1. /\ UNCHANGED <<catalog, messages, undeleted, job, late>> /\ fence # None /\ pc = "answered"
      /\ fence' \in IF HasResolution(fence) THEN record_lifecycle_ack(fence)
                    ELSE record_ack_response(fence, answer)
  BY DEF RecordAck, service, At
<1>2. /\ IsDocument(fence) /\ fence.phase.name \in Asking /\ Claims(fence)
  BY <1>1 DEF IInv, Standing, Stands, StandsInside, Fenced, Ledger
<1>3. CASE HasResolution(fence)
  <2>1. fence.phase.name = "LifecycleAcknowledgementStarted"
    BY <1>2, <1>3 DEF HasResolution, LifecyclePhases, Asking
  <2>2. Concerns(fence') = Concerns(fence) /\ Claims(fence') /\ HasResolution(fence')
    BY <1>1, <1>2, <1>3, <2>1, ResolvedKeeps
  <2>3. \A id \in AttemptIds : Deciding(id)'
    BY <2>2, ResolvedDecides DEF Deciding
  <2> QED BY <1>1, <2>2, <2>3, AdvanceKeeps
<1>4. CASE ~ HasResolution(fence)
  <2>1. fence.phase.name = "AcknowledgementStarted" /\ fence.phase = AcknowledgementStarted
    BY <1>2, <1>4 DEF HasResolution, LifecyclePhases, Asking, IsDocument, IsPhase, Reconciled
  <2>2. /\ Concerns(fence') = Concerns(fence) /\ fence'.delivery = fence.delivery /\ Claims(fence')
        /\ fence'.phase.name = "Acknowledged" /\ fence'.phase.acquired = answer
    BY <1>1, <1>2, <1>4, <2>1, AnswerKeeps
  <2>3. fence'.phase # Reconciled /\ fence'.phase # AcknowledgementStarted
    BY <2>2 DEF Reconciled, AcknowledgementStarted
  <2>4. ASSUME NEW id \in AttemptIds PROVE Deciding(id)'
    <3>1. fence.delivery.events[1] = Available(id) => id \in answer \/ Over(id)
      BY <1>1, <2>1 DEF Ledger, Deciding
    <3> QED BY <1>1, <2>2, <2>3, <3>1 DEF Deciding, Over
  <2> QED BY <1>1, <2>2, <2>4, AdvanceKeeps
<1> QED BY <1>3, <1>4

LEMMA RecordReplayKeeps == ASSUME IInv, Ledger, RecordReplay PROVE Ledger'
<1>1. /\ UNCHANGED <<catalog, messages, undeleted, job, late>> /\ fence # None /\ pc = "recovered"
      /\ fence' \in record_recovery_acquire(fence, answer)
  BY DEF RecordReplay, service, At
<1>2. IsDocument(fence) /\ fence.phase = AcknowledgementStarted
  BY <1>1 DEF IInv, Standing, Stands, StandsInside, Fenced
<1>3. /\ fence'.delivery = fence.delivery
      /\ fence'.phase = AcquisitionRecoveryObserved(fence'.phase.acquired)
      /\ fence'.phase.acquired \subseteq available_request_ids(fence.delivery)
  BY <1>1, <1>2, ReplayShape
<1>4. fence.phase.name = "AcknowledgementStarted" /\ fence'.phase.name = "AcquisitionRecoveryObserved"
  BY <1>2, <1>3 DEF AcknowledgementStarted, AcquisitionRecoveryObserved
<1>5. ~ HasResolution(fence) /\ ~ HasResolution(fence')
  BY <1>4 DEF HasResolution, LifecyclePhases
<1>6. Concerns(fence') = Concerns(fence) /\ Claims(fence')
  BY <1>3, <1>5 DEF Concerns, TargetOf, Claims
<1>7. fence'.phase # Reconciled /\ fence'.phase # AcknowledgementStarted
  BY <1>4 DEF Reconciled, AcknowledgementStarted
<1>8. \A id \in AttemptIds : Deciding(id)'
  BY <1>4, <1>7 DEF Deciding
<1> QED BY <1>1, <1>6, <1>8, AdvanceKeeps

LEMMA RecoverAckKeeps == ASSUME IInv, Ledger, RecoverAck PROVE Ledger'
<1>1. /\ UNCHANGED <<catalog, messages, undeleted, job, late>> /\ Unoffered(fence.delivery)
      /\ Ticking({"AcknowledgementStarted"})
      /\ UNCHANGED fence \/ fence' \in record_ack_response(fence, {})
  BY DEF RecoverAck
<1>2. fence # None
  BY <1>1 DEF Ticking
<1>3. IsDocument(fence) /\ fence.phase.name = "AcknowledgementStarted" /\ Cited(fence.delivery)
  BY <1>1, <1>2, TickFinds DEF Fenced, Ledger, Entries, Concerns
<1>4. CASE UNCHANGED fence
  BY <1>1, <1>4, RestKeeps
<1>5. CASE fence' \in record_ack_response(fence, {})
  <2>1. Concerns(fence') = Concerns(fence) /\ fence'.delivery = fence.delivery /\ Claims(fence')
    BY <1>3, <1>5, AnswerKeeps
  <2>2. \A id \in AttemptIds : fence.delivery.events[1] # Available(id)
    BY <1>1, <1>3, OffersOne
  <2>3. \A id \in AttemptIds : Deciding(id)'
    BY <2>1, <2>2 DEF Deciding
  <2> QED BY <1>1, <1>2, <2>1, <2>3, AdvanceKeeps
<1> QED BY <1>1, <1>4, <1>5

LEMMA RecoverLifecycleKeeps == ASSUME IInv, Ledger, RecoverLifecycleAck PROVE Ledger'
<1>1. /\ UNCHANGED <<catalog, messages, undeleted, job, late>>
      /\ Ticking({"LifecycleReconciled", "LifecycleAcknowledgementStarted"})
      /\ \/ UNCHANGED fence
         \/ /\ fence.phase.name = "LifecycleAcknowledgementStarted"
            /\ fence' \in record_lifecycle_ack(fence)
  BY DEF RecoverLifecycleAck
<1>2. fence # None
  BY <1>1 DEF Ticking
<1>3. /\ IsDocument(fence) /\ Claims(fence) /\ fence.phase # AcknowledgementStarted
  BY <1>1, <1>2, TickFinds, TickPhase DEF Fenced, Ledger
<1>4. CASE UNCHANGED fence
  BY <1>1, <1>3, <1>4, RestKeeps
<1>5. CASE /\ fence.phase.name = "LifecycleAcknowledgementStarted"
           /\ fence' \in record_lifecycle_ack(fence)
  <2>1. Concerns(fence') = Concerns(fence) /\ Claims(fence') /\ HasResolution(fence')
    BY <1>3, <1>5, ResolvedKeeps
  <2>2. \A id \in AttemptIds : Deciding(id)'
    BY <2>1, ResolvedDecides DEF Deciding
  <2> QED BY <1>1, <1>2, <1>3, <2>1, <2>2, AdvanceKeeps
<1> QED BY <1>1, <1>4, <1>5

\* A step of the catalog with its document.
LEMMA CatalogKeeps ==
  ASSUME IInv, Ledger, UNCHANGED <<messages, undeleted, job, late>>,
         Careful, Plain(catalog'), Shelved',
         fence' # None =>
           /\ Claims(fence')
           /\ \A m \in Concerns(fence') :
                Cited(m) /\ (Entered(m.events[1]) \/ EnteredIn(catalog', job', m.events[1])),
         ~ (fence # None /\ pc = "tick" /\ fence.phase = AcknowledgementStarted),
         \A id \in AttemptIds : Deciding(id)'
  PROVE  Ledger'
<1>1. Sent' /\ Entries /\ \A id \in AttemptIds : Handing(id) /\ Lagging(id)
  BY DEF Ledger, Sent
<1>2. Entries'
  BY <1>1, EntriesStay
<1>3. ASSUME NEW id \in AttemptIds PROVE Handing(id)' /\ Lagging(id)'
  <2>1. job[id] \in {"acquired", "assigned"} /\ Kept(catalog, id) => Kept(catalog', id)
    BY DEF Careful, Over
  <2>2. Handing(id)'
    BY <1>1, <2>1 DEF Handing
  <2>3. Lagging(id)'
    BY <1>1 DEF Lagging
  <2> QED BY <2>2, <2>3
<1> QED BY <1>1, <1>2, <1>3 DEF Ledger

LEMMA ConsumeMessageKeeps == ASSUME IInv, Ledger, ConsumeMessage PROVE Ledger'
<1>1. UNCHANGED <<messages, undeleted, job, late>> /\ Plain(catalog) /\ Shelved /\ Sent
  BY DEF ConsumeMessage, Ledger
<1>2. /\ fence = None /\ Cited(fence'.delivery) /\ fence'.phase = Reconciled
      /\ \E e \in Events :
           /\ fence'.delivery.events = <<e>>
           /\ \/ catalog' = catalog /\ Holds(catalog, e)
              \/ e.kind # "Completed" /\ Adds(catalog, catalog', e.id)
              \/ e.kind = "Completed" /\ Removes(catalog, catalog', e.id)
           /\ e.kind = "Available" => Live(catalog) = {}
  BY <1>1, MessageEnters
<1>3. PICK e \in Events :
           /\ fence'.delivery.events = <<e>>
           /\ \/ catalog' = catalog /\ Holds(catalog, e)
              \/ e.kind # "Completed" /\ Adds(catalog, catalog', e.id)
              \/ e.kind = "Completed" /\ Removes(catalog, catalog', e.id)
           /\ e.kind = "Available" => Live(catalog) = {}
  BY <1>2
<1> DEFINE i == fence'.delivery.message_id
<1>4. i \in DOMAIN messages /\ messages[i][1] = e /\ fence'.delivery.events[1] = e
  BY <1>2, <1>3 DEF Cited
<1>5. e.id \in AttemptIds /\ (e.kind = "Completed" => Over(e.id))
  BY <1>1, <1>4, EventShape DEF Sent, Over
<1>6. Careful /\ Plain(catalog') /\ Shelved'
  BY <1>1, <1>3, <1>5, ChangeIsCareful
<1>7. EnteredIn(catalog', job', e)
  <2>1. CASE catalog' = catalog /\ Holds(catalog, e)
    <3>1. Kept(catalog, e.id) \/ Over(e.id)
      BY <1>1, <2>1 DEF Holds, Recalled, Kept, Shelved
    <3> QED BY <1>1, <2>1, <3>1 DEF EnteredIn, Over
  <2>2. CASE e.kind # "Completed" /\ Adds(catalog, catalog', e.id)
    BY <2>2 DEF EnteredIn, Adds, Holds, Recalled, Kept
  <2>3. CASE e.kind = "Completed" /\ Removes(catalog, catalog', e.id)
    BY <1>1, <1>5, <2>3 DEF EnteredIn, Removes, Holds, Over
  <2> QED BY <1>3, <2>1, <2>2, <2>3
<1>8. ~ HasResolution(fence') /\ fence'.phase.name = "Reconciled" /\ fence'.phase # AcknowledgementStarted
  BY <1>2 DEF HasResolution, LifecyclePhases, Reconciled, AcknowledgementStarted
<1>9. Concerns(fence') = {fence'.delivery} /\ Claims(fence')
  BY <1>8 DEF Concerns, TargetOf, Claims
<1>10. ASSUME NEW id \in AttemptIds PROVE Deciding(id)'
  <2>1. ASSUME e = Available(id) PROVE job[id] \notin {"acquired", "assigned"}
    <3>1. e.kind = "Available"
      BY <2>1 DEF Available
    <3>2. ~ Kept(catalog, id)
      BY <1>3, <3>1 DEF Kept
    <3> QED BY <1>4, <2>1, <3>2 DEF Ledger, Handing
  <2> QED BY <1>1, <1>4, <1>8, <2>1 DEF Deciding
<1> QED BY <1>1, <1>2, <1>4, <1>6, <1>7, <1>9, <1>10, CatalogKeeps

LEMMA ObserveResolutionKeeps == ASSUME IInv, Ledger, ObserveResolution PROVE Ledger'
<1>1. UNCHANGED <<messages, undeleted, job, late>> /\ Plain(catalog) /\ Shelved /\ Sent
  BY DEF ObserveResolution, Ledger
<1>2. fence # None => \A m \in Concerns(fence) : Cited(m) /\ Entered(m.events[1])
  BY DEF Ledger, Entries
<1>3. /\ fence # None /\ fence.phase.name = "AcquisitionRecoveryObserved"
      /\ fence'.phase.name = "LifecycleReconciled"
      /\ Concerns(fence') = {fence.delivery, TargetOf(fence')}
      /\ Cited(TargetOf(fence')) /\ Claims(fence')
      /\ \E e \in Events :
           /\ TargetOf(fence').events = <<e>>
           /\ \/ catalog' = catalog /\ Holds(catalog, e) /\ Kept(catalog, e.id)
              \/ e.kind = "Completed" /\ Removes(catalog, catalog', e.id)
  BY <1>1, <1>2, ResolutionEnters
<1>4. PICK e \in Events :
           /\ TargetOf(fence').events = <<e>>
           /\ \/ catalog' = catalog /\ Holds(catalog, e) /\ Kept(catalog, e.id)
              \/ e.kind = "Completed" /\ Removes(catalog, catalog', e.id)
  BY <1>3
<1> DEFINE i == TargetOf(fence').message_id
<1>5. i \in DOMAIN messages /\ messages[i][1] = e /\ TargetOf(fence').events[1] = e
  BY <1>3, <1>4 DEF Cited
<1>6. e.id \in AttemptIds /\ (e.kind = "Completed" => Over(e.id))
  BY <1>1, <1>5, EventShape DEF Sent, Over
<1>7. Careful /\ Plain(catalog') /\ Shelved'
  BY <1>1, <1>4, <1>6, ChangeIsCareful
<1>8. EnteredIn(catalog', job', e)
  BY <1>1, <1>4, <1>6 DEF EnteredIn, Removes, Holds, Over
<1>9. \A id \in AttemptIds : Deciding(id)'
  <2>1. HasResolution(fence')
    BY <1>3 DEF HasResolution, LifecyclePhases
  <2> QED BY <2>1, ResolvedDecides DEF Deciding
<1>10. fence.delivery \in Concerns(fence)
  BY DEF Concerns
<1>11. \A m \in Concerns(fence') :
         Cited(m) /\ (Entered(m.events[1]) \/ EnteredIn(catalog', job', m.events[1]))
  BY <1>2, <1>3, <1>5, <1>8, <1>10
<1>12. fence.phase # AcknowledgementStarted
  BY <1>3 DEF AcknowledgementStarted
<1> QED BY <1>1, <1>3, <1>7, <1>9, <1>11, <1>12, CatalogKeeps

LEMMA SettleKeeps == ASSUME IInv, Ledger, Settle PROVE Ledger'
<1>1. UNCHANGED <<messages, undeleted, job, late>> /\ Plain(catalog) /\ Shelved /\ fence' = None
  BY DEF Settle, Ledger, service
<1>2. \/ catalog' = catalog
      \/ \E id \in AttemptIds : Removes(catalog, catalog', id) /\ Over(id)
  BY SettleSpends
<1>3. Careful /\ Plain(catalog') /\ Shelved'
  <2>1. CASE \E id \in AttemptIds : Removes(catalog, catalog', id) /\ Over(id)
    BY <1>1, <2>1, ChangeIsCareful
  <2>2. CASE catalog' = catalog
    <3>1. JobMoves
      BY <1>1 DEF JobMoves
    <3> QED BY <1>1, <2>2, <3>1, JobsAreCareful
  <2> QED BY <1>2, <2>1, <2>2
<1>4. ~ (fence # None /\ pc = "tick" /\ fence.phase = AcknowledgementStarted)
  BY DEF Settle, At, Ticking, AcknowledgementStarted
<1>5. \A id \in AttemptIds : Deciding(id)'
  BY <1>1 DEF Deciding
<1> QED BY <1>1, <1>3, <1>4, <1>5, CatalogKeeps

\* What a step of the service adds to its queue.
LEMMA ServiceSends ==
  ASSUME Queued, Roomy, NEW id \in AttemptIds,
         \/ Offer(id) \/ AssignUnoffered(id) \/ AssignAcquired(id) \/ Cancel(id) \/ Withdraw(id)
  PROVE  /\ \A i \in DOMAIN messages :
              i \in DOMAIN messages' /\ messages'[i] = messages[i] /\ (i \in undeleted => i \in undeleted')
         /\ \A i \in DOMAIN messages' : i \in DOMAIN messages \/
              /\ i \in undeleted' /\ messages'[i][1].id = id
              /\ messages'[i][1].kind = "Completed" => job'[id] = "canceled"
              /\ messages'[i][1].kind = "Available" => job'[id] = "offered"
         /\ job[id] = "new" => \E i \in DOMAIN messages' : messages'[i][1].id = id
<1>1. CASE Withdraw(id)
  BY <1>1 DEF Withdraw
<1>2. CASE ~ Withdraw(id)
  <2>1. \E e : /\ Send(e) /\ e.id = id
               /\ e.kind = "Completed" => job'[id] = "canceled"
               /\ e.kind = "Available" => job'[id] = "offered"
    <3>1. /\ Available(id).id = id /\ Available(id).kind = "Available"
          /\ Assigned(id).id = id /\ Assigned(id).kind = "Assigned"
          /\ Completed(id, None, Canceled).id = id
          /\ Completed(id, None, Canceled).kind = "Completed"
      BY DEF Available, Assigned, Completed
    <3>2. CASE Offer(id)
      <4>1. Send(Available(id)) /\ job'[id] = "offered"
        BY <3>2 DEF Offer, Roomy
      <4> QED BY <3>1, <4>1
    <3>3. CASE AssignUnoffered(id) \/ AssignAcquired(id)
      <4>1. Send(Assigned(id))
        BY <3>3 DEF AssignUnoffered, AssignAcquired
      <4> QED BY <3>1, <4>1
    <3>4. CASE Cancel(id)
      <4>1. Send(Completed(id, None, Canceled)) /\ job'[id] = "canceled"
        BY <3>4 DEF Cancel, Roomy
      <4> QED BY <3>1, <4>1
    <3> QED BY <1>2, <3>2, <3>3, <3>4
  <2>2. PICK e : /\ Send(e) /\ e.id = id
                 /\ e.kind = "Completed" => job'[id] = "canceled"
                 /\ e.kind = "Available" => job'[id] = "offered"
    BY <2>1
  <2> DEFINE n == Len(messages)
  <2>3. /\ n \in Nat /\ DOMAIN messages = 1 .. n /\ DOMAIN messages' = 1 .. (n + 1)
        /\ \A i \in 1 .. n : messages'[i] = messages[i]
        /\ messages'[n + 1] = <<e>> /\ undeleted' = undeleted \cup {n + 1}
    BY <2>2 DEF Send, Queued
  <2> HIDE DEF n
  <2>4. messages'[n + 1][1] = e /\ n + 1 \in DOMAIN messages'
        /\ \A i \in DOMAIN messages' : i \in DOMAIN messages \/ i = n + 1
    BY <2>3
  <2> QED BY <2>2, <2>3, <2>4
<1> QED BY <1>1, <1>2

LEMMA ServiceKeepsLedger ==
  ASSUME IInv, Ledger, NEW id \in AttemptIds,
         \/ Offer(id) \/ AssignUnoffered(id) \/ AssignAcquired(id) \/ Cancel(id) \/ Withdraw(id)
  PROVE  Ledger'
<1>0. Queued /\ Roomy /\ Entries /\ Sent /\ (fence # None => Claims(fence))
  BY DEF IInv, Ledger
<1>1. UNCHANGED <<catalog, fence, pc, answer, late>>
  BY DEF Offer, AssignUnoffered, AssignAcquired, Cancel, Withdraw, durable, controller
<1>2. /\ \A j \in AttemptIds : j # id => job'[j] = job[j]
      /\ \/ job[id] = "new" /\ job'[id] \in {"offered", "assigned"}
         \/ job[id] = "offered" /\ job'[id] = "gone"
         \/ job[id] = "acquired" /\ job'[id] \in {"assigned", "canceled"}
         \/ job[id] = "assigned" /\ job'[id] = "canceled"
  BY <1>0 DEF Offer, AssignUnoffered, AssignAcquired, Cancel, Withdraw, Roomy
<1>3. JobMoves
  BY <1>0, ServiceMoves
<1>4. Careful /\ Plain(catalog') /\ Shelved'
  BY <1>1, <1>3, JobsAreCareful DEF Ledger
<1>5. /\ \A i \in DOMAIN messages :
           i \in DOMAIN messages' /\ messages'[i] = messages[i] /\ (i \in undeleted => i \in undeleted')
      /\ \A i \in DOMAIN messages' : i \in DOMAIN messages \/
           /\ i \in undeleted' /\ messages'[i][1].id = id
           /\ messages'[i][1].kind = "Completed" => job'[id] = "canceled"
           /\ messages'[i][1].kind = "Available" => job'[id] = "offered"
      /\ job[id] = "new" => \E i \in DOMAIN messages' : messages'[i][1].id = id
  BY <1>0, ServiceSends
<1>6. Sent'
  <2>1. \A i \in DOMAIN messages : messages[i][1].id \in AttemptIds
    BY <1>0, SentIsOne, EventShape
  <2>2. \A j \in AttemptIds :
          (job[j] # "new" => job'[j] # "new") /\ (job[j] = "canceled" => job'[j] = "canceled")
    BY <1>2
  <2>3. \A i \in DOMAIN messages' :
          /\ job'[messages'[i][1].id] # "new"
          /\ messages'[i][1].kind = "Completed" => job'[messages'[i][1].id] = "canceled"
    BY <1>0, <1>2, <1>5, <2>1, <2>2 DEF Sent
  <2>4. \A j \in AttemptIds : job'[j] # "new" => \E i \in DOMAIN messages' : messages'[i][1].id = j
    BY <1>0, <1>2, <1>5 DEF Sent
  <2> QED BY <2>3, <2>4 DEF Sent
<1>7. Entries'
  <2>1. fence' # None => \A m \in Concerns(fence') : Cited(m) /\ Entered(m.events[1])
    BY <1>0, <1>1 DEF Entries
  <2>2. \A i \in DOMAIN messages' \ undeleted' :
          i \in DOMAIN messages /\ (i \in undeleted => Entered(messages[i][1]))
    BY <1>5
  <2> QED BY <1>0, <1>1, <1>4, <1>5, <2>1, <2>2, EntriesStay
<1>8. ASSUME NEW j \in AttemptIds PROVE (Handing(j) /\ Deciding(j) /\ Lagging(j))'
  <2>1. Handing(j) /\ Deciding(j) /\ Lagging(j)
    BY DEF Ledger
  <2>2. Handing(j)'
    <3> SUFFICES ASSUME \/ job'[j] = "acquired"
                        \/ job'[j] = "assigned" /\ \E i \in DOMAIN messages' : messages'[i][1] = Available(j)
                 PROVE  Kept(catalog, j)
      BY <1>1 DEF Handing
    <3>1. Available(j).id = j /\ Available(j).kind = "Available"
      BY DEF Available
    <3>2. CASE job'[j] = "acquired"
      BY <1>2, <2>1, <3>2 DEF Handing
    <3>3. CASE job'[j] = "assigned"
      <4>1. PICK i \in DOMAIN messages' : messages'[i][1] = Available(j)
        BY <3>3
      <4>2. i \in DOMAIN messages /\ messages[i][1] = Available(j)
        BY <1>5, <3>1, <3>3, <4>1
      <4>3. job[j] # "new"
        BY <1>0, <3>1, <4>2 DEF Sent
      <4>4. job[j] \in {"acquired", "assigned"}
        BY <1>2, <3>3, <4>3
      <4> QED BY <2>1, <4>2, <4>4 DEF Handing
    <3> QED BY <3>2, <3>3
  <2>3. fence # None /\ fence.delivery.events[1] = Available(j) => job[j] # "new"
    BY CitedIsNotNew DEF Ledger, Entries, Concerns
  <2>4. Over(j) => job'[j] \in {"canceled", "gone"}
    BY <1>2 DEF Over
  <2>5. job[j] \notin {"acquired", "assigned", "new"} => job'[j] \notin {"acquired", "assigned"}
    BY <1>2
  <2>6. Deciding(j)'
    BY <1>1, <2>1, <2>3, <2>4, <2>5 DEF Deciding, Over
  <2>7. job[j] # "new" => job'[j] # "new" /\ (job'[j] = "offered" => job[j] = "offered")
    BY <1>2
  <2>8. Lagging(j)'
    BY <1>1, <2>1, <2>7 DEF Lagging
  <2> QED BY <2>2, <2>6, <2>8
<1> QED BY <1>0, <1>1, <1>4, <1>6, <1>7, <1>8 DEF Ledger

-----------------------------------------------------------------------------
(***************************************************************************)
(* The ledger is an invariant, and what follows from it.                   *)
(***************************************************************************)
LEMMA InitLedger == Init => Ledger
<1> SUFFICES ASSUME Init PROVE Ledger
  OBVIOUS
<1>1. /\ catalog = empty /\ fence = None /\ messages = <<>> /\ late = {}
      /\ \A id \in AttemptIds : job[id] = "new"
  BY DEF Init
<1>2. DOMAIN messages = {}
  BY <1>1
<1>3. Live(catalog) = {} /\ Past(catalog) = {}
  BY <1>1 DEF Live, Past, empty, Range
<1>4. Plain(catalog)
  BY <1>1, <1>3, EmptyIsCatalog DEF Plain, Sound
<1> QED BY <1>1, <1>2, <1>3, <1>4 DEF Ledger, Shelved, Sent, Entries, Handing, Deciding, Lagging

LEMMA NextLedger ==
  ASSUME NoneIsNoDocument, IInv, Ledger, [Next]_vars
  PROVE  Ledger'
<1>1. CASE ControllerStep
  BY <1>1, ConnectKeeps, ConsumeMessageKeeps, RefusedKeeps, ResumeKeeps, BeginAckKeeps, DeleteKeeps,
     AckAcquireKeeps, RecordAckKeeps, SettleKeeps, ReplayKeeps, RecordReplayKeeps,
     ObserveResolutionKeeps, RecoverAckKeeps, RecoverLifecycleKeeps DEF ControllerStep
<1>2. CASE LoseSession \/ LateDelete \/ LateAcquire
  BY <1>2, LoseKeeps, LateDeleteKeeps, LateAcquireKeeps
<1>3. CASE \E id \in AttemptIds : Offer(id) \/ AssignUnoffered(id) \/ AssignAcquired(id)
                                  \/ Cancel(id) \/ Withdraw(id)
  BY <1>3, ServiceKeepsLedger
<1>4. CASE UNCHANGED vars
  <2>1. UNCHANGED <<catalog, fence, messages, undeleted, job>> /\ UNCHANGED <<pc, answer>> /\ late' = late
    BY <1>4 DEF vars, durable, controller, service
  <2> QED BY <2>1, RestKeeps
<1> QED BY <1>1, <1>2, <1>3, <1>4 DEF Next

\* The ledger holds in every state: messages, documents and requests still under
\* way say of the catalog and of the service's jobs what the controller's
\* reconciliation, acknowledgement and recovery code relies on.
THEOREM LedgerInvariant == ASSUME NoneIsNoDocument PROVE Spec => [](IInv /\ Ledger)
<1>1. Init => IInv /\ Ledger
  BY InitInv, InitLedger
<1>2. (IInv /\ Ledger) /\ [Next]_vars => (IInv /\ Ledger)'
  BY NextInv, NextLedger
<1> QED BY <1>1, <1>2, PTL DEF Spec

\* A job handed to this host keeps its reservation until a message about it says
\* otherwise, however often the answers of the bridge were lost, delayed or
\* replayed, and whatever the history has forgotten.
THEOREM AcquiredStaysReserved ==
  ASSUME NoneIsNoDocument PROVE Spec => []AcquiredIsReserved
<1>1. IInv /\ Ledger => AcquiredIsReserved
  <2> SUFFICES ASSUME IInv, Ledger, NEW id \in AttemptIds, job[id] \in {"acquired", "assigned"}
               PROVE  \/ find_active(catalog, id) # {}
                      \/ \E i \in undeleted : id \in EventRequests(Message(i))
    BY DEF AcquiredIsReserved
  <2>1. PICK i \in DOMAIN messages : messages[i][1].id = id
    BY DEF Ledger, Sent
  <2>2. CASE i \in undeleted
    <3>1. messages[i][1] \in Events /\ Message(i).events = <<messages[i][1]>>
      BY SentIsOne DEF IInv, Message
    <3>2. EventRequests(Message(i)) = {id}
      BY <2>1, <3>1, RequestsOfOne
    <3> QED BY <2>2, <3>2
  <2>3. CASE i \notin undeleted
    <3>1. Entered(messages[i][1])
      BY <2>3 DEF Ledger, Entries
    <3>2. Kept(catalog, id)
      BY <2>1, <3>1 DEF Entered, EnteredIn
    <3> QED BY <3>2, FoundIsKept
  <2> QED BY <2>2, <2>3
<1> QED BY <1>1, LedgerInvariant, PTL

\* No message leaves the service's queue before what it says is in the durable
\* catalog: a deletion, its own or one that was delayed, follows the reconciled
\* document, and nothing a later delivery does takes the request out again.
THEOREM DeletedStaysReconciled ==
  ASSUME NoneIsNoDocument, HistorySuffices PROVE Spec => []DeletedIsReconciled
<1>1. IInv /\ Ledger => DeletedIsReconciled
  <2> SUFFICES ASSUME IInv, Ledger, NEW i \in DOMAIN messages \ undeleted, NEW k \in DOMAIN messages[i]
               PROVE  /\ Known(messages[i][k].id)
                      /\ messages[i][k].kind = "Completed" =>
                           find_active(catalog, messages[i][k].id) = {}
    BY DEF DeletedIsReconciled
  <2> DEFINE e == messages[i][1]
  <2>1. messages[i] = <<e>>
    BY SentIsOne DEF IInv
  <2>2. k = 1
    BY <2>1
  <2>3. Holds(catalog, e)
    BY DEF Ledger, Entries, Entered, EnteredIn
  <2> HIDE DEF e
  <2>4. Known(e.id) /\ (e.kind = "Completed" => find_active(catalog, e.id) = {})
    BY <2>3, FoundIsKept DEF Holds, Known
  <2> QED BY <2>2, <2>4 DEF e
<1> QED BY <1>1, LedgerInvariant, PTL
=============================================================================
