------------------ MODULE DisposableWorkerCoordinatorProofs ------------------
(***************************************************************************)
(* What the coordinator promises for every number of jobs, every set of    *)
(* identities and every deadline: each irreversible command is issued at   *)
(* most once for an attempt, every worker has an owner, and what was       *)
(* acknowledged is recorded, through every crash, lost answer and          *)
(* redelivery.                                                             *)
(***************************************************************************)
EXTENDS DisposableWorkerCoordinator, DisposableAttemptLemmas

(***************************************************************************)
(* The inductive invariant.                                                *)
(***************************************************************************)
Events ==
  [kind : {"Available", "Assigned"}, id : AttemptIds]
  \cup [kind : {"Started"}, id : AttemptIds, runner : RunnerReferences]
  \cup [kind : {"Completed"}, id : AttemptIds, runner : RunnerReferences \cup {None},
        result : Results]

Fences == [event : Events, acknowledged : BOOLEAN, acquired : BOOLEAN]

Jobs ==
  [state : {"queued", "offered", "gone", "acquired", "assigned", "started", "completed"},
   runner : Option(RunnerIds), result : Option(Results)]

\* The catalog is valid and every variable has its type.
Typed ==
  /\ Sound(catalog)
  /\ delivery \in Fences \cup {None}
  /\ now \in Nat
  /\ mailbox \in Seq(Events)
  /\ job \in [AttemptIds -> Jobs]
  /\ runner \in [AttemptIds -> Option(RunnerIds)]
  /\ vm \in [AttemptIds -> Option(VmIdentities)]
  /\ cloning \subseteq AttemptIds /\ guest \subseteq AttemptIds
  /\ effects \in [AttemptIds -> [clones : Nat, jits : Nat, starts : Nat]]

\* The strengthening behind WorkersAreOwned: a running clone belongs to an
\* attempt whose disk is not yet identified.
Ownership ==
  \A id \in AttemptIds :
    /\ id \in cloning => \E a \in Live(catalog) : a.id = id /\ UnboundClone(a)
    /\ vm[id] # None => \E a \in Live(catalog) : a.id = id /\ Held(a)
    /\ runner[id] # None =>
         \E a \in Live(catalog) : a.id = id /\ Held(a) /\ a.jit_generation_started
    /\ id \in guest =>
         /\ vm[id] # None
         /\ \E a \in Live(catalog) : a.id = id /\ Held(a) /\ a.runner_start_started

\* What the controller may rely on between a checkpoint and its command.
Position ==
  /\ pc # "idle" => delivery = None
  /\ pc = "clone" =>
       \A a \in Live(catalog) : UnboundClone(a) /\ effects[a.id].clones = 0
  /\ pc = "jit" =>
       \A a \in Live(catalog) : a.jit_generation_started /\ effects[a.id].jits = 0
  /\ pc = "jitted" => \A a \in Live(catalog) : runner[a.id] # None
  /\ pc \in {"jit", "jitted", "registered", "start"} =>
       \A a \in Live(catalog) : effects[a.id].starts = 0
  /\ pc = "start" => \A a \in Live(catalog) : a.runner_start_started

\* A command is issued only after its checkpoint, and a runner only serves a
\* job once it was started.
Counted ==
  /\ AtMostOnceEffects
  /\ \A a \in Live(catalog) :
       /\ a.phase \in PreClone => effects[a.id].clones = 0
       /\ ~a.jit_generation_started => effects[a.id].jits = 0
       /\ ~a.runner_start_started => effects[a.id].starts = 0
  /\ \A id \in AttemptIds :
       id \in guest \/ job[id].state = "started" => effects[id].starts # 0

Untouched(id) == effects[id] = [clones |-> 0, jits |-> 0, starts |-> 0]

\* An identity that may yet be reserved has no effects: either history
\* remembers every attempt, or every job is assigned once.
Fresh ==
  /\ HistorySuffices =>
       \A id \in AttemptIds :
         Untouched(id) \/ \E a \in Live(catalog) \cup Past(catalog) : a.id = id
  /\ Offers = {} =>
       /\ \A id \in AttemptIds : job[id].state \notin {"offered", "acquired"}
       /\ \A i \in DOMAIN mailbox : mailbox[i].kind = "Assigned" => i = 1
       /\ delivery # None /\ delivery.acknowledged =>
            \A i \in DOMAIN mailbox : mailbox[i].kind # "Assigned"
       /\ \A id \in AttemptIds :
            \/ job[id].state = "queued"
            \/ delivery = None /\ mailbox # << >> /\ Head(mailbox) = Assigned(id)
            => Untouched(id) /\ \A a \in Live(catalog) : a.id # id

\* What an undelivered message says of its job.
Truthful(i) ==
  LET e == mailbox[i]  j == job[e.id] IN
  /\ j.state # "queued"
  /\ e.kind = "Available" => i = 1 /\ j.state = "offered"
  /\ e.kind = "Started" =>
       /\ j.state \in {"started", "completed"} /\ j.runner # None
       /\ e.runner = [name |-> e.id, id |-> j.runner]
  /\ e.kind = "Completed" =>
       /\ j.state = "completed" /\ e.result = j.result
       /\ e.runner = IF j.runner = None THEN None ELSE [name |-> e.id, id |-> j.runner]

Mail ==
  /\ delivery # None /\ ~delivery.acknowledged =>
       mailbox # << >> /\ delivery.event = Head(mailbox)
  /\ \A i \in DOMAIN mailbox : Truthful(i)
  /\ \A id \in AttemptIds :
       /\ job[id].state = "started" => job[id].runner # None
       /\ job[id].state = "completed" => job[id].result # None

\* The strengthening behind RunningJobIsSpared: a started runner is on its way
\* out only when its job ended or its deadline passed.
Spared ==
  \A a \in Live(catalog) :
    Ending(a) /\ job[a.id].state # "completed" => Expired(a)

\* An attempt that a cancellation needs not touch any more.
Out(a) ==
  a.phase \in Cleanup \cup {"UnprovisionedReleasing", "Complete"} \/ UnboundClone(a)

\* The catalog holds what the event said.
Holds(c, e) ==
  \E a \in Live(c) \cup Past(c) :
    /\ a.id = e.id
    /\ e.kind = "Started" => a.github_job_id = JobOf(e.id) /\ a.runner_id = e.runner.id
    /\ e.kind = "Completed" => a.result = e.result \/ (e.runner = None /\ Out(a))

\* The strengthening behind AcknowledgedIsDurable.
Durable ==
  HistorySuffices =>
    /\ delivery # None => Holds(catalog, delivery.event)
    /\ AcknowledgedIsDurable
    /\ pc \in {"clone", "cloning"} =>
         \A a \in Live(catalog) : job[a.id].state = "completed" =>
           \E i \in DOMAIN mailbox : mailbox[i].kind = "Completed" /\ mailbox[i].id = a.id

-----------------------------------------------------------------------------
(***************************************************************************)
(* What the steps do to the catalog.                                       *)
(***************************************************************************)
Known(c) == Live(c) \cup Past(c)

\* Every active document comes from one of the same attempt, or is the
\* reservation of an identity nobody knew; nothing is forgotten while history
\* has room.
Follows(c, d) ==
  /\ Sound(d)
  /\ \A b \in Live(d) :
       \/ \E a \in Live(c) : Step(a, b)
       \/ /\ \E id \in AttemptIds, t \in Times : b = reserved(id, t)
          /\ \A a \in Known(c) : a.id # b.id
  /\ HistorySuffices => \A a \in Known(c) : \E b \in Known(d) : Keeps(a, b)

\* Every active document comes from one of the same attempt.
Continues(c, d) == \A b \in Live(d) : \E a \in Live(c) : Step(a, b)

\* No cancellation is taken back.
Settled(c, d) ==
  HistorySuffices =>
    \A a \in Known(c) : \E b \in Known(d) : Keeps(a, b) /\ (Out(a) => Out(b))

\* No owner lets go of what it may own.
StaysHeld(c, d) ==
  \A a \in Live(c) : Held(a) =>
    \E b \in Live(d) : Keeps(a, b) /\ Held(b) /\ (UnboundClone(a) => UnboundClone(b))

\* No started runner begins to end.
StaysServing(c, d) ==
  \A b \in Live(d) : Ending(b) => \E a \in Live(c) : Keeps(a, b) /\ Ending(a)

\* A step of the catalog that binds no VM, completes no cleanup and ends no
\* started runner.
Quiet(c, d) == Follows(c, d) /\ Settled(c, d) /\ StaysHeld(c, d) /\ StaysServing(c, d)

\* Keeping evidence is a preorder.
LEMMA KeepsChains ==
  /\ \A a : Keeps(a, a)
  /\ \A a, b, c : Keeps(a, b) /\ Keeps(b, c) => Keeps(a, c)
BY DEF Keeps

\* Doing nothing is quiet.
LEMMA StutterIsQuiet ==
  ASSUME NEW c, Sound(c)
  PROVE  Quiet(c, c) /\ Continues(c, c)
<1>1. Live(c) \subseteq ValidAttempts
  BY DocumentsAreValid DEF Sound
<1>2. \A a \in Live(c) : Step(a, a)
  BY <1>1, StutterIsStep
<1> QED
  BY <1>2, KeepsChains DEF Quiet, Follows, Settled, StaysHeld, StaysServing, Continues

\* Where a document that an action leaves behind can be on its way out.
LEMMA OutStays ==
  ASSUME NEW a \in ValidAttempts, NEW b, Step(a, b), Out(a),
         UnboundClone(a) => UnboundClone(b),
         a.phase = "UnprovisionedReleasing" => b.phase \in {"UnprovisionedReleasing", "Complete"}
  PROVE  Out(b)
BY DEF Out, Step, Moves, UnboundClone, CleanupMoves, PreClone, Owned, Cleanup

\* A swap follows, by what it does to the one document.
LEMMA SwapFollows ==
  ASSUME NEW c, Sound(c), NEW a \in Live(c), NEW b, Step(a, b), NEW d, Swap(d, c, a, b)
  PROVE  /\ Follows(c, d) /\ Continues(c, d)
         /\ (Out(a) => Out(b)) => Settled(c, d)
         /\ (Held(a) => Held(b) /\ (UnboundClone(a) => UnboundClone(b))) => StaysHeld(c, d)
         /\ (Ending(b) => Ending(a)) => StaysServing(c, d)
<1>1. Live(c) \subseteq ValidAttempts
  BY DocumentsAreValid DEF Sound
<1>2. \A k \in Live(c) : Step(k, k) /\ Keeps(k, k)
  BY <1>1, StutterIsStep, KeepsChains
<1>3. /\ Sound(d) /\ Live(d) = (Live(c) \ {a}) \cup {b} /\ Past(d) = Past(c)
  BY DEF Swap
<1>4. Keeps(a, b)
  BY DEF Step
<1>5. \A k \in Past(c) : Keeps(k, k) /\ k \in Past(d)
  BY <1>3, KeepsChains
<1>6. Follows(c, d) /\ Continues(c, d)
  <2>1. \A k \in Live(d) : \E l \in Live(c) : Step(l, k)
    BY <1>2, <1>3
  <2>2. \A k \in Known(c) : \E l \in Known(d) : Keeps(k, l)
    BY <1>2, <1>3, <1>4, <1>5 DEF Known
  <2> QED BY <1>3, <2>1, <2>2 DEF Follows, Continues
<1>7. ASSUME Out(a) => Out(b) PROVE Settled(c, d)
  BY <1>2, <1>3, <1>4, <1>5, <1>7 DEF Settled, Known
<1>8. ASSUME Held(a) => Held(b) /\ (UnboundClone(a) => UnboundClone(b)) PROVE StaysHeld(c, d)
  BY <1>2, <1>3, <1>4, <1>8 DEF StaysHeld
<1>9. ASSUME Ending(b) => Ending(a) PROVE StaysServing(c, d)
  BY <1>2, <1>3, <1>4, <1>9 DEF StaysServing
<1> QED
  BY <1>6, <1>7, <1>8, <1>9

\* Taking a document that owns nothing to history is quiet.
LEMMA RemovalIsQuiet ==
  ASSUME NEW c, Sound(c), NEW a \in Live(c), ~Held(a), NEW k, Keeps(a, k),
         k.phase = "Complete", NEW d, Sound(d), Live(d) = Live(c) \ {a},
         HistorySuffices => Past(d) = Past(c) \cup {k}
  PROVE  Quiet(c, d) /\ Continues(c, d)
<1>1. Live(c) \subseteq ValidAttempts
  BY DocumentsAreValid DEF Sound
<1>2. \A l \in Live(c) : Step(l, l) /\ Keeps(l, l)
  BY <1>1, StutterIsStep, KeepsChains
<1>3. Out(k)
  BY DEF Out
<1>4. HistorySuffices => \A l \in Known(c) : \E m \in Known(d) : Keeps(l, m) /\ (Out(l) => Out(m))
  BY <1>2, <1>3, KeepsChains DEF Known
<1>5. Follows(c, d) /\ Settled(c, d) /\ Continues(c, d)
  BY <1>2, <1>4 DEF Follows, Settled, Continues
<1>6. StaysHeld(c, d)
  BY <1>2 DEF StaysHeld
<1>7. StaysServing(c, d)
  BY <1>2 DEF StaysServing
<1> QED
  BY <1>5, <1>6, <1>7 DEF Quiet

\* A reservation is quiet.
LEMMA ReservationIsQuiet ==
  ASSUME NEW c, Sound(c), NEW id \in AttemptIds, NEW t \in Times,
         find_active(c, id) = {}, NEW d \in reserve(c, reserved(id, t))
  PROVE  /\ Quiet(c, d) /\ reserved(id, t) \in Live(d)
         /\ \A b \in Live(d) : b.id = id \/ \E a \in Live(c) : Step(a, b)
<1> DEFINE b == reserved(id, t)
<1>1. /\ Sound(d) /\ find_tombstone(c, id) = {}
      /\ Live(d) = Live(c) \cup {b} /\ Past(d) = Past(c)
  BY ReservationAdds
<1>2. b.id = id /\ ~Ending(b) /\ \A a \in Known(c) : a.id # id
  BY <1>1 DEF reserved, Ending, Known, find_active, find_tombstone, Live, Past
<1>b. \E i \in AttemptIds, s \in Times : b = reserved(i, s)
  OBVIOUS
<1>3. Live(c) \subseteq ValidAttempts
  BY DocumentsAreValid DEF Sound
<1>4. \A l \in Live(c) : Step(l, l) /\ Keeps(l, l)
  BY <1>3, StutterIsStep, KeepsChains
<1>5. \A l \in Past(c) : Keeps(l, l)
  BY KeepsChains
<1> HIDE DEF b
<1>6. Follows(c, d)
  <2>1. \A l \in Live(d) : l \in Live(c) \/ l = b
    BY <1>1
  <2>2. \A l \in Live(d) :
          \/ \E a \in Live(c) : Step(a, l)
          \/ (\E i \in AttemptIds, s \in Times : l = reserved(i, s)) /\ \A a \in Known(c) : a.id # l.id
    BY <1>2, <1>b, <1>4, <2>1
  <2>3. \A a \in Known(c) : \E l \in Known(d) : Keeps(a, l)
    BY <1>1, <1>4, <1>5 DEF Known
  <2> QED BY <1>1, <2>2, <2>3 DEF Follows
<1>7. /\ Settled(c, d)
      /\ \A l \in Live(d) : l.id = id \/ \E a \in Live(c) : Step(a, l)
  BY <1>1, <1>2, <1>4, <1>5 DEF Settled, Known
<1>8. StaysHeld(c, d) /\ StaysServing(c, d)
  BY <1>1, <1>2, <1>4 DEF StaysHeld, StaysServing
<1> QED
  BY <1>1, <1>6, <1>7, <1>8 DEF Quiet, b

\* What an action addressed to one attempt does.
LEMMA TransitionFollows ==
  ASSUME NEW c, Sound(c), NEW id, NEW expected, NEW action \in Actions,
         NEW d \in replace_attempt(c, id, expected, action)
  PROVE  \E a \in Live(c) : \E b \in apply_action(a, action) :
           /\ a.id = id /\ a.revision = expected /\ Step(a, b) /\ Swap(d, c, a, b)
           /\ b.vm_identity = a.vm_identity /\ (Ending(b) => a.runner_start_started)
           /\ Follows(c, d) /\ Continues(c, d) /\ Settled(c, d)
           /\ action.name # "AdvanceCleanup" => StaysHeld(c, d)
           /\ action.name \notin {"BeginCleanup", "RecordTerminal"} => StaysServing(c, d)
<1>0. PICK a \in Live(c) : \E b \in apply_action(a, action) :
        /\ a.id = id /\ a.revision = expected
        /\ Step(a, b) /\ b.vm_identity = a.vm_identity
        /\ Swap(d, c, a, b)
  BY TransitionSwaps
<1>1. PICK b \in apply_action(a, action) :
        /\ a.id = id /\ a.revision = expected
        /\ Step(a, b) /\ b.vm_identity = a.vm_identity
        /\ Swap(d, c, a, b)
  BY <1>0
<1>2. a \in ValidAttempts
  BY DocumentsAreValid DEF Sound
<1>3. UnboundClone(a) => UnboundClone(b)
  BY <1>1, <1>2, UnboundStays
<1>4. /\ Held(a) /\ action.name # "AdvanceCleanup" => Held(b)
      /\ a.phase = "UnprovisionedReleasing" =>
           b.phase \in {"UnprovisionedReleasing", "Complete"}
  BY <1>1, <1>2, ReleaseStays
<1>5. Out(a) => Out(b)
  BY <1>1, <1>2, <1>3, <1>4, OutStays
<1>6. /\ Ending(b) => a.runner_start_started
      /\ Ending(b) /\ action.name \notin {"BeginCleanup", "RecordTerminal"} => Ending(a)
  BY <1>1, <1>2, EndingBegins
<1>7. /\ Follows(c, d) /\ Continues(c, d)
      /\ (Out(a) => Out(b)) => Settled(c, d)
      /\ (Held(a) => Held(b) /\ (UnboundClone(a) => UnboundClone(b))) => StaysHeld(c, d)
      /\ (Ending(b) => Ending(a)) => StaysServing(c, d)
  BY <1>1, SwapFollows
<1> QED
  BY <1>1, <1>3, <1>4, <1>5, <1>6, <1>7

\* An action that begins no end is quiet.
LEMMA TransitionIsQuiet ==
  ASSUME NEW c, Sound(c), NEW id, NEW expected, NEW action \in Actions,
         action.name \notin {"BeginCleanup", "RecordTerminal", "AdvanceCleanup"},
         NEW d \in replace_attempt(c, id, expected, action)
  PROVE  Quiet(c, d) /\ Continues(c, d)
BY TransitionFollows DEF Quiet

\* Retiring a complete attempt is quiet.
LEMMA RetirementIsQuiet ==
  ASSUME NEW c, Sound(c), NEW id, NEW expected, NEW d \in retire_complete(c, id, expected)
  PROVE  Quiet(c, d) /\ Continues(c, d)
<1>1. PICK a \in Live(c) :
        /\ a.phase = "Complete" /\ Sound(d) /\ Live(d) = Live(c) \ {a}
        /\ Len(c.tombstones) < MaxTombstones => Past(d) = Past(c) \cup {a}
  BY RetirementMoves
<1>2. ~Held(a) /\ Keeps(a, a)
  BY <1>1, KeepsChains DEF Held, Owned, Cleanup
<1>3. HistorySuffices => Past(d) = Past(c) \cup {a}
  BY <1>1, RoomForHistory
<1> QED
  BY <1>1, <1>2, <1>3, RemovalIsQuiet

\* The three steps that release an untouched reservation.
LEMMA ReleaseIsQuiet ==
  ASSUME NEW c, Sound(c), NEW a \in Live(c), NEW d \in retire_unprovisioned_cancellation(c, a)
  PROVE  /\ Quiet(c, d) /\ Continues(c, d)
         /\ HistorySuffices => \E k \in Past(d) : k.id = a.id /\ k.phase = "Complete"
<1> DEFINE begin == [name |-> "BeginUnprovisionedRelease"]
           end == [name |-> "CompleteUnprovisioned"]
<1>0. begin \in Actions /\ end \in Actions
  BY DEF Actions
<1>1. PICK releasing \in replace_attempt(c, a.id, a.revision, begin) :
        d \in UNION {UNION {retire_complete(complete, a.id, done.revision) :
                              done \in find_active(complete, a.id)} :
                       complete \in UNION {replace_attempt(releasing, a.id, b.revision, end) :
                                             b \in find_active(releasing, a.id)}}
  BY DEF retire_unprovisioned_cancellation
<1>c. PICK b \in find_active(releasing, a.id) :
        \E complete \in replace_attempt(releasing, a.id, b.revision, end) :
          d \in UNION {retire_complete(complete, a.id, done.revision) :
                         done \in find_active(complete, a.id)}
  BY <1>1
<1>2. PICK complete \in replace_attempt(releasing, a.id, b.revision, end) :
        d \in UNION {retire_complete(complete, a.id, done.revision) :
                       done \in find_active(complete, a.id)}
  BY <1>c
<1>3. PICK done \in find_active(complete, a.id) : d \in retire_complete(complete, a.id, done.revision)
  BY <1>2
<1>a. PICK a1 \in Live(c) : \E r \in apply_action(a1, begin) :
        a1.id = a.id /\ Step(a1, r) /\ Swap(releasing, c, a1, r)
  BY <1>0, <1>1, TransitionSwaps
<1>4. PICK r \in apply_action(a1, begin) :
        a1.id = a.id /\ Step(a1, r) /\ Swap(releasing, c, a1, r)
  BY <1>a
<1>5. a1 = a /\ Sound(releasing) /\ r \in Live(releasing)
  BY <1>4, IdentityIsUnique DEF Swap
<1>b. PICK r1 \in Live(releasing) : \E k \in apply_action(r1, end) :
        r1.id = a.id /\ Step(r1, k) /\ Swap(complete, releasing, r1, k)
  BY <1>0, <1>2, <1>5, TransitionSwaps
<1>6. PICK k \in apply_action(r1, end) :
        r1.id = a.id /\ Step(r1, k) /\ Swap(complete, releasing, r1, k)
  BY <1>b
<1>7. r.id = a.id /\ k.id = r1.id
  BY <1>4, <1>5, <1>6 DEF Step, Keeps
<1>8. r1 = r /\ Sound(complete) /\ k \in Live(complete)
  BY <1>5, <1>6, <1>7, IdentityIsUnique DEF Swap
<1>9. PICK k1 \in Live(complete) :
        /\ k1.id = a.id /\ k1.phase = "Complete" /\ Sound(d) /\ Live(d) = Live(complete) \ {k1}
        /\ Len(complete.tombstones) < MaxTombstones => Past(d) = Past(complete) \cup {k1}
  BY <1>3, <1>8, RetirementMoves
<1>10. k1 = k
  BY <1>6, <1>7, <1>8, <1>9, IdentityIsUnique
<1>11. ~Held(a)
  <2>1. a.phase \in {"Reserved", "CloneAuthorized"}
    BY <1>4, <1>5 DEF apply_action, begin_unprovisioned_release
  <2> QED BY <2>1 DEF Held, Owned, Cleanup
<1>12. Keeps(a, k)
  BY <1>4, <1>5, <1>6, <1>8, KeepsChains DEF Step
<1>13. Live(d) = Live(c) \ {a}
  <2>1. Live(d) = ((((Live(c) \ {a}) \cup {r}) \ {r}) \cup {k}) \ {k}
    BY <1>4, <1>5, <1>6, <1>8, <1>9, <1>10 DEF Swap
  <2>2. \A l \in Live(c) \ {a} : l # r /\ l # k
    BY <1>6, <1>7, IdentityIsUnique
  <2> QED BY <2>1, <2>2
<1>14. HistorySuffices => Past(d) = Past(c) \cup {k}
  <2>1. Past(complete) = Past(c)
    BY <1>4, <1>6 DEF Swap
  <2> QED BY <1>8, <1>9, <1>10, <2>1, RoomForHistory
<1>15. Quiet(c, d) /\ Continues(c, d)
  BY <1>9, <1>10, <1>11, <1>12, <1>13, <1>14, RemovalIsQuiet
<1> QED
  BY <1>6, <1>7, <1>9, <1>10, <1>14, <1>15

\* An accepted start names its runner and job in the catalog, an accepted
\* completion its result.
LEMMA EvidenceIsRecorded ==
  ASSUME NEW a \in ValidAttempts, NEW j \in JobIds
  PROVE  /\ \A r \in RunnerReferences : \A b \in record_running(a, r, j) :
              b.runner_id = r.id /\ b.github_job_id = j
         /\ \A r \in RunnerReferences \cup {None}, x \in Results :
              \A b \in record_terminal(a, r, j, x) : b.result = x
<1>1. ASSUME NEW r \in RunnerReferences, NEW b \in record_running(a, r, j)
      PROVE  b.runner_id = r.id /\ b.github_job_id = j
  <2>1. CASE b = a
    <3>1. \/ a.runner_id = r.id /\ a.github_job_id = j
          \/ b \in advance_with(a, "Running", r.id, j, None)
          \/ b \in advance_with(a, a.phase, r.id, j, None)
      BY DEF record_running
    <3>2. /\ r.id \in Option(RunnerIds) /\ j \in Option(JobIds) /\ "Running" \in Phases
      BY DEF RunnerReferences, Option, Phases, Owned
    <3> QED BY <2>1, <3>1, <3>2, EvidenceTypes, AdvanceWith
  <2>2. CASE b # a
    <3>1. /\ r = [name |-> b.id, id |-> b.runner_id] /\ b.github_job_id = j
      BY <2>2, RunningIsNamed
    <3> QED BY <3>1
  <2> QED BY <2>1, <2>2
<1>2. ASSUME NEW r \in RunnerReferences \cup {None}, NEW x \in Results,
             NEW b \in record_terminal(a, r, j, x)
      PROVE  b.result = x
  <2>1. CASE b = a
    <3>1. CASE a.result # None
      BY <2>1, <3>1 DEF record_terminal
    <3>2. CASE a.result = None
      <4> DEFINE observed == IF r = None THEN None ELSE r.id
                 bound == IF a.runner_id # None THEN a.runner_id ELSE observed
                 phase == IF a.phase \in Cleanup \cup {"Complete"} THEN a.phase ELSE "Terminal"
      <4>1. b \in advance_with(a, phase, bound, j, x)
        BY <3>2 DEF record_terminal
      <4>2. /\ bound \in Option(RunnerIds) /\ j \in Option(JobIds) /\ x \in Option(Results)
            /\ phase \in Phases
        BY EvidenceTypes DEF RunnerReferences, Option, Phases, Owned
      <4> QED BY <4>1, <4>2, EvidenceTypes, AdvanceWith
    <3> QED BY <3>1, <3>2
  <2>2. CASE b # a
    BY <2>2, TerminalIsNamed
  <2> QED BY <2>1, <2>2
<1> QED
  BY <1>1, <1>2

\* What an event does to the catalog before its message is acknowledged.
Takes(e, c, d) ==
  /\ Follows(c, d) /\ Settled(c, d) /\ StaysHeld(c, d)
  /\ \A b \in Live(d) :
       \/ e.kind \in {"Available", "Assigned"} /\ b.id = e.id
       \/ \E a \in Live(c) : Step(a, b)
  /\ \A b \in Live(d) : Ending(b) =>
       \/ e.kind = "Completed" /\ b.id = e.id
       \/ \E a \in Live(c) : Keeps(a, b) /\ Ending(a)
  /\ HistorySuffices => Holds(d, e)

\* A quiet step takes an event if the catalog then holds it.
LEMMA QuietTakes ==
  ASSUME NEW e, NEW c, NEW d, Quiet(c, d), HistorySuffices => Holds(d, e),
         \/ Continues(c, d)
         \/ /\ e.kind \in {"Available", "Assigned"}
            /\ \A b \in Live(d) : b.id = e.id \/ \E a \in Live(c) : Step(a, b)
  PROVE  Takes(e, c, d)
<1>1. \A b \in Live(d) :
        \/ e.kind \in {"Available", "Assigned"} /\ b.id = e.id
        \/ \E a \in Live(c) : Step(a, b)
  BY DEF Continues
<1>2. \A b \in Live(d) : Ending(b) => \E a \in Live(c) : Keeps(a, b) /\ Ending(a)
  BY DEF Quiet, StaysServing
<1> QED BY <1>1, <1>2 DEF Takes, Quiet

\* A request is reserved, recorded or known.
LEMMA RequestTakes ==
  ASSUME NEW c, Sound(c), NEW e \in Events, e.kind \in {"Available", "Assigned"},
         NEW t, attempt_not_after(t) \in Times, NEW d \in ReconcileRequest(e, c, t)
  PROVE  Takes(e, c, d)
<1> DEFINE active == find_active(c, e.id)
           retired == find_tombstone(c, e.id)
           until == attempt_not_after(t)
<1>0. e.id \in AttemptIds
  BY DEF Events
<1>h. ASSUME NEW x, NEW a \in Known(x), a.id = e.id PROVE Holds(x, e)
  BY <1>h DEF Holds, Known
<1>1. ASSUME d = c, NEW a \in Known(c), a.id = e.id PROVE Takes(e, c, d)
  BY <1>1, <1>h, StutterIsQuiet, QuietTakes
<1>2. CASE active # {}
  <2>1. PICK a \in active :
          \/ d = c
          \/ e.kind = "Assigned" /\ d \in replace_attempt(c, a.id, a.revision, event_action(e))
    BY <1>2 DEF ReconcileRequest
  <2>2. a \in Live(c) /\ a.id = e.id
    BY DEF find_active, Live
  <2>3. CASE d = c
    BY <1>1, <2>2, <2>3 DEF Known
  <2>4. CASE /\ e.kind = "Assigned"
             /\ d \in replace_attempt(c, a.id, a.revision, event_action(e))
    <3>1. /\ event_action(e) = [name |-> "RecordAssigned", job |-> JobOf(e.id)]
          /\ event_action(e) \in Actions
      BY <1>0, <2>4, JobAssumption DEF event_action, Actions
    <3>2. Quiet(c, d) /\ Continues(c, d)
      BY <2>4, <3>1, TransitionIsQuiet
    <3>3. PICK k \in Live(c) : \E b \in apply_action(k, event_action(e)) :
            k.id = a.id /\ Step(k, b) /\ Swap(d, c, k, b)
      BY <2>4, <3>1, TransitionSwaps
    <3>4. \E b \in Known(d) : b.id = e.id
      BY <2>2, <3>3 DEF Step, Keeps, Swap, Known
    <3> QED BY <1>h, <3>2, <3>4, QuietTakes
  <2> QED BY <2>1, <2>3, <2>4
<1>3. CASE active = {} /\ retired # {}
  <2>1. d = c
    BY <1>3 DEF ReconcileRequest
  <2>2. PICK a \in retired : TRUE
    BY <1>3
  <2>3. a \in Known(c) /\ a.id = e.id
    BY DEF find_tombstone, Known, Past
  <2> QED BY <1>1, <2>1, <2>3
<1>4. CASE active = {} /\ retired = {}
  <2>1. d \in reserve(c, reserved(e.id, until))
    BY <1>4 DEF ReconcileRequest
  <2>2. /\ Quiet(c, d) /\ reserved(e.id, until) \in Live(d)
        /\ \A b \in Live(d) : b.id = e.id \/ \E a \in Live(c) : Step(a, b)
    BY <1>0, <1>4, <2>1, ReservationIsQuiet
  <2>3. reserved(e.id, until).id = e.id /\ reserved(e.id, until) \in Known(d)
    BY <2>2 DEF reserved, Known
  <2> QED BY <1>h, <2>2, <2>3, QuietTakes
<1> QED
  BY <1>2, <1>3, <1>4

\* A cancellation nobody's runner took.
LEMMA CancellationTakes ==
  ASSUME NEW c, Sound(c), NEW e \in Events, NEW a \in Live(c), a.id = e.id,
         is_unbound_runnerless_cancellation(e, a), NEW d \in CancelUnbound(c, a)
  PROVE  Takes(e, c, d)
<1>0. e.kind = "Completed" /\ e.runner = None
  BY DEF is_unbound_runnerless_cancellation, IsRunnerlessCancellation
<1>h. ASSUME NEW x, NEW b \in Known(x), b.id = e.id, Out(b) PROVE Holds(x, e)
  BY <1>0, <1>h DEF Holds, Known
<1>1. CASE d \in retire_unprovisioned_cancellation(c, a)
  <2>1. /\ Quiet(c, d) /\ Continues(c, d)
        /\ HistorySuffices => \E k \in Past(d) : k.id = a.id /\ k.phase = "Complete"
    BY <1>1, ReleaseIsQuiet
  <2>2. HistorySuffices => Holds(d, e)
    BY <1>h, <2>1 DEF Out, Known
  <2> QED BY <2>1, <2>2, QuietTakes
<1>2. CASE d = c /\ Out(a)
  BY <1>h, <1>2, StutterIsQuiet, QuietTakes DEF Known
<1>3. CASE /\ a.phase \in {"CloneStarted", "Registering", "Waiting"}
           /\ d \in replace_attempt(c, a.id, a.revision, [name |-> "BeginCleanup"])
  <2> DEFINE action == [name |-> "BeginCleanup"]
  <2>1. action \in Actions /\ action.name = "BeginCleanup"
    BY DEF Actions
  <2>2. PICK k \in Live(c) : \E b \in apply_action(k, action) :
          /\ k.id = a.id /\ Step(k, b) /\ Swap(d, c, k, b)
          /\ Follows(c, d) /\ Continues(c, d) /\ Settled(c, d) /\ StaysHeld(c, d)
    BY <1>3, <2>1, TransitionFollows
  <2>3. k = a
    BY <2>2, IdentityIsUnique
  <2>4. PICK b \in apply_action(a, action) :
          /\ Step(a, b) /\ Swap(d, c, a, b)
          /\ Follows(c, d) /\ Continues(c, d) /\ Settled(c, d) /\ StaysHeld(c, d)
    BY <2>2, <2>3
  <2>5. b.id = e.id /\ b \in Known(d)
    BY <2>4 DEF Step, Keeps, Swap, Known
  <2>6. Out(b)
    <3>1. b \in MoveTo(a, "Destroying") /\ a \in ValidAttempts /\ "Destroying" \in Phases
      BY <1>3, <2>4, DocumentsAreValid
         DEF apply_action, begin_cleanup, Owned, PreClone, Sound, Phases, Cleanup
    <3>2. b.phase = "Destroying"
      BY <3>1, EvidenceTypes, AdvanceWith DEF MoveTo
    <3> QED BY <3>2 DEF Out, Cleanup
  <2>7. \A l \in Live(d) : Ending(l) =>
          \/ e.kind = "Completed" /\ l.id = e.id
          \/ \E m \in Live(c) : Keeps(m, l) /\ Ending(m)
    BY <1>0, <2>4, <2>5, KeepsChains DEF Swap
  <2> QED BY <1>h, <2>4, <2>5, <2>6, <2>7 DEF Takes, Continues
<1> QED
  BY <1>1, <1>2, <1>3 DEF CancelUnbound, Out, UnboundClone

\* Evidence of a start or an end is recorded, released or known.
LEMMA EvidenceTakes ==
  ASSUME NEW c, Sound(c), NEW e \in Events, e.kind \in {"Started", "Completed"},
         NEW d \in ReconcileEvidence(e, c)
  PROVE  Takes(e, c, d)
<1> DEFINE active == find_active(c, e.id)
           retired == find_tombstone(c, e.id)
<1>0. /\ e.id \in AttemptIds /\ JobOf(e.id) \in JobIds
      /\ e.kind = "Started" => e.runner \in RunnerReferences
      /\ e.kind = "Completed" => e.runner \in RunnerReferences \cup {None} /\ e.result \in Results
  BY JobAssumption DEF Events
<1>1. CASE active # {}
  <2>1. PICK a \in active :
          d \in IF is_unbound_runnerless_cancellation(e, a) THEN CancelUnbound(c, a)
                ELSE replace_attempt(c, a.id, a.revision, event_action(e))
    BY <1>1 DEF ReconcileEvidence
  <2>2. a \in Live(c) /\ a.id = e.id /\ a \in ValidAttempts
    BY DocumentsAreValid DEF find_active, Live, Sound
  <2>3. CASE is_unbound_runnerless_cancellation(e, a)
    BY <2>1, <2>2, <2>3, CancellationTakes
  <2>4. CASE ~ is_unbound_runnerless_cancellation(e, a)
    <3> DEFINE action == event_action(e)
    <3>1. /\ action \in Actions /\ action.name # "AdvanceCleanup"
          /\ e.kind = "Started" =>
               action = [name |-> "RecordRunning", runner |-> e.runner, job |-> JobOf(e.id)]
          /\ e.kind = "Completed" =>
               action = [name |-> "RecordTerminal", runner |-> e.runner, job |-> JobOf(e.id),
                         result |-> e.result]
      BY <1>0 DEF event_action, Actions
    <3> HIDE DEF action
    <3>2. PICK k \in Live(c) : \E b \in apply_action(k, action) :
            /\ k.id = a.id /\ Step(k, b) /\ Swap(d, c, k, b)
            /\ Follows(c, d) /\ Continues(c, d) /\ Settled(c, d) /\ StaysHeld(c, d)
            /\ action.name \notin {"BeginCleanup", "RecordTerminal"} => StaysServing(c, d)
      BY <2>1, <2>4, <3>1, TransitionFollows DEF action
    <3>3. k = a
      BY <2>2, <3>2, IdentityIsUnique
    <3>4. PICK b \in apply_action(a, action) :
            /\ Step(a, b) /\ Swap(d, c, a, b)
            /\ Follows(c, d) /\ Continues(c, d) /\ Settled(c, d) /\ StaysHeld(c, d)
            /\ action.name \notin {"BeginCleanup", "RecordTerminal"} => StaysServing(c, d)
      BY <3>2, <3>3
    <3>5. b.id = e.id /\ b \in Live(d)
      BY <2>2, <3>4 DEF Step, Keeps, Swap
    <3>6. Holds(d, e)
      <4>1. CASE e.kind = "Started"
        <5>1. b \in record_running(a, e.runner, JobOf(e.id))
          BY <3>1, <3>4, <4>1 DEF apply_action
        <5> QED BY <1>0, <2>2, <3>5, <4>1, <5>1, EvidenceIsRecorded DEF Holds
      <4>2. CASE e.kind = "Completed"
        <5>1. b \in record_terminal(a, e.runner, JobOf(e.id), e.result)
          BY <3>1, <3>4, <4>2 DEF apply_action
        <5> QED BY <1>0, <2>2, <3>5, <4>2, <5>1, EvidenceIsRecorded DEF Holds
      <4> QED BY <4>1, <4>2
    <3>7. \A l \in Live(d) : Ending(l) =>
            \/ e.kind = "Completed" /\ l.id = e.id
            \/ \E m \in Live(c) : Keeps(m, l) /\ Ending(m)
      <4>1. CASE e.kind = "Started"
        BY <3>1, <3>4, <4>1 DEF StaysServing
      <4>2. CASE e.kind = "Completed"
        BY <3>4, <3>5, <4>2, KeepsChains DEF Swap
      <4> QED BY <4>1, <4>2
    <3> QED BY <3>4, <3>6, <3>7 DEF Takes, Continues
  <2> QED BY <2>3, <2>4
<1>2. CASE active = {}
  <2>1. d = c /\ retired # {} /\ \A a \in retired : validate_tombstone_event(a, e)
    BY <1>2 DEF ReconcileEvidence
  <2>2. PICK a \in retired : validate_tombstone_event(a, e)
    BY <2>1
  <2>3. a \in Past(c) /\ a.id = e.id
    BY DEF find_tombstone, Past
  <2>4. /\ e.kind = "Started" => a.github_job_id = JobOf(e.id) /\ a.runner_id = e.runner.id
        /\ e.kind = "Completed" => a.result = e.result \/ (e.runner = None /\ Out(a))
    BY <2>2 DEF validate_tombstone_event, IsRunnerlessCancellation, Out
  <2>5. Holds(c, e)
    BY <2>3, <2>4 DEF Holds
  <2> QED BY <2>1, <2>5, StutterIsQuiet, QuietTakes
<1> QED
  BY <1>1, <1>2

\* Every event.
LEMMA ReconcileTakes ==
  ASSUME NEW c, Sound(c), NEW e \in Events, NEW t, attempt_not_after(t) \in Times,
         NEW d \in reconcile_event(e, c, t)
  PROVE  Takes(e, c, d)
<1>1. e.kind \in {"Available", "Assigned", "Started", "Completed"}
  BY DEF Events
<1> QED
  BY <1>1, RequestTakes, EvidenceTakes DEF reconcile_event

\* The settlement of a delivery is quiet.
LEMMA SettlementIsQuiet ==
  ASSUME NEW c, Sound(c), NEW e, NEW acquired,
         NEW d \in settle_scale_set_delivery_catalog(e, acquired, c)
  PROVE  Quiet(c, d) /\ Continues(c, d)
<1>1. d = c \/ \E a \in find_active(c, e.id) : d \in retire_unprovisioned_cancellation(c, a)
  BY DEF settle_scale_set_delivery_catalog
<1>2. find_active(c, e.id) \subseteq Live(c)
  BY DEF find_active, Live
<1> QED
  BY <1>1, <1>2, StutterIsQuiet, ReleaseIsQuiet

-----------------------------------------------------------------------------
(***************************************************************************)
(* The parts of the invariant under a step that only publishes.            *)
(***************************************************************************)
IInv ==
  Typed /\ Ownership /\ Position /\ Counted /\ Fresh /\ Mail /\ Spared /\ Durable

\* A deadline the consumer computes is a time a document can carry.
DeadlinesAreTimes == \A t \in Nat : attempt_not_after(t) \in Times

\* No fence is mistaken for its absence.
FenceIsSome == None \notin Fences

\* A job is offered again only to a host whose history remembers it.
OffersAreRemembered == Offers # {} => HistorySuffices

\* No message of that kind about that attempt is pending.
Taken(box, kind, id) == ~ \E i \in DOMAIN box : box[i].kind = kind /\ box[i].id = id

\* AcknowledgedIsDurable for one attempt.
Recorded(c, box, j, id) ==
  /\ \/ j.state \in {"acquired", "gone"}
     \/ j.state = "assigned" /\ Taken(box, "Assigned", id)
     => \E a \in Known(c) : a.id = id
  /\ j.state \in {"started", "completed"} /\ j.runner # None /\ Taken(box, "Started", id) =>
       \E a \in Known(c) : a.id = id /\ a.github_job_id = JobOf(id) /\ a.runner_id = j.runner
  /\ j.state = "completed" /\ Taken(box, "Completed", id) =>
       \E a \in Known(c) : a.id = id /\ (a.result = j.result \/ (j.runner = None /\ Out(a)))

\* The two ways to say it agree, before and after a step.
LEMMA DurableIsRecorded ==
  /\ AcknowledgedIsDurable <=> \A id \in AttemptIds : Recorded(catalog, mailbox, job[id], id)
  /\ AcknowledgedIsDurable' <=>
       \A id \in AttemptIds : Recorded(catalog', mailbox', job'[id], id)
<1>1. \A c, id : find_active(c, id) \cup find_tombstone(c, id) = {a \in Known(c) : a.id = id}
  BY DEF find_active, find_tombstone, Known, Live, Past
<1>2. \A box, kind, id :
        (~ \E e \in Range(box) : e.kind = kind /\ e.id = id) <=> Taken(box, kind, id)
  BY DEF Taken, Range
<1>3. AcknowledgedIsDurable <=> \A id \in AttemptIds : Recorded(catalog, mailbox, job[id], id)
  BY <1>1, <1>2 DEF AcknowledgedIsDurable, Recorded, Out, UnboundClone
<1>4. AcknowledgedIsDurable' <=>
        \A id \in AttemptIds : Recorded(catalog', mailbox', job'[id], id)
  BY <1>1, <1>2 DEF AcknowledgedIsDurable, Recorded, Out, UnboundClone
<1> QED BY <1>3, <1>4

\* What is recorded stays so while evidence is kept and no cancellation that
\* was taken is taken back.
LEMMA RecordStays ==
  ASSUME NEW c, NEW d, NEW box, NEW id \in AttemptIds, NEW j, Recorded(c, box, j, id),
         j.state = "completed" => j.result # None,
         \A a \in Known(c) : \E b \in Known(d) :
           /\ Keeps(a, b)
           /\ Out(a) /\ j.state = "completed" /\ Taken(box, "Completed", id) /\ a.id = id => Out(b)
  PROVE  Recorded(d, box, j, id)
<1>0. JobOf(id) # None
  BY JobAssumption, NoneAssumption
<1>1. ASSUME NEW a \in Known(c), a.id = id PROVE \E b \in Known(d) : b.id = id
  BY <1>1 DEF Keeps
<1>2. ASSUME NEW a \in Known(c), a.id = id, a.github_job_id = JobOf(id), a.runner_id = j.runner,
             j.runner # None
      PROVE  \E b \in Known(d) : b.id = id /\ b.github_job_id = JobOf(id) /\ b.runner_id = j.runner
  BY <1>0, <1>2 DEF Keeps
<1>3. ASSUME NEW a \in Known(c), a.id = id, j.state = "completed", Taken(box, "Completed", id),
             a.result = j.result \/ (j.runner = None /\ Out(a))
      PROVE  \E b \in Known(d) : b.id = id /\ (b.result = j.result \/ (j.runner = None /\ Out(b)))
  BY <1>3 DEF Keeps
<1> QED
  BY <1>1, <1>2, <1>3 DEF Recorded

\* The only active attempt of a tick that may dispatch.
LEMMA Driven ==
  ASSUME Typed, NEW at, NEW phases, Driving(at, phases)
  PROVE  /\ pc = at /\ delivery = None /\ attempt.phase \in phases
         /\ Live(catalog) = {attempt} /\ attempt \in ValidAttempts
         /\ attempt.id \in AttemptIds /\ attempt \in Attempts
<1>1. catalog \in Catalogs
  BY DEF Typed, Sound
<1>2. catalog.active \in Seq(ValidAttempts) /\ Len(catalog.active) = 1
  BY <1>1 DEF Catalogs, Driving
<1>3. attempt = catalog.active[1]
  BY <1>2 DEF attempt
<1>4. Live(catalog) = {catalog.active[i] : i \in 1 .. 1}
  BY <1>1, <1>2, DocumentsAreValid
<1>5. attempt \in ValidAttempts
  BY <1>1, <1>3, <1>4, DocumentsAreValid
<1>6. attempt \in Attempts
  BY <1>5 DEF ValidAttempts
<1> QED
  BY <1>3, <1>4, <1>5, <1>6 DEF Driving, Attempts

\* Every owner lives on, as long as something it owns is there.
OwnersRemain ==
  \A a \in Live(catalog) : Held(a) =>
    \E b \in Live(catalog') :
      /\ Keeps(a, b)
      /\ vm[a.id] # None \/ runner[a.id] # None => Held(b)
      /\ a.id \in cloning /\ UnboundClone(a) => UnboundClone(b)

\* A cancellation that was taken is not taken back.
CancellationsRemain ==
  HistorySuffices =>
    \A a \in Known(catalog) : \E b \in Known(catalog') :
      /\ Keeps(a, b)
      /\ Out(a) /\ job[a.id].state = "completed" /\ Taken(mailbox, "Completed", a.id) => Out(b)

\* A step that publishes a catalog and touches nothing outside.
Publishes ==
  /\ UNCHANGED <<now, service, host, effects>>
  /\ Follows(catalog, catalog') /\ OwnersRemain /\ CancellationsRemain /\ Spared'

\* A quiet step publishes.
LEMMA QuietPublishes ==
  ASSUME Typed, Spared, UNCHANGED <<now, service, host, effects>>, Quiet(catalog, catalog')
  PROVE  Publishes
<1>1. OwnersRemain
  BY DEF OwnersRemain, Quiet, StaysHeld
<1>2. CancellationsRemain
  BY DEF CancellationsRemain, Quiet, Settled
<1>3. Spared'
  BY DEF Spared, Quiet, StaysServing, Keeps, Expired, service
<1> QED
  BY <1>1, <1>2, <1>3 DEF Publishes, Quiet

\* What publishing preserves whatever it publishes.
LEMMA PublicationKeeps ==
  ASSUME IInv, Publishes, delivery' \in Fences \cup {None}
  PROVE  /\ Typed' /\ Ownership' /\ Spared'
         /\ HistorySuffices => AcknowledgedIsDurable'
         /\ HistorySuffices =>
              \A id \in AttemptIds :
                Untouched(id)' \/ \E a \in Live(catalog') \cup Past(catalog') : a.id = id
         /\ \A i \in DOMAIN mailbox' : Truthful(i)'
         /\ \A id \in AttemptIds :
              /\ job'[id].state = "started" => job'[id].runner # None
              /\ job'[id].state = "completed" => job'[id].result # None
<1>0. /\ now' = now /\ mailbox' = mailbox /\ job' = job /\ runner' = runner
      /\ vm' = vm /\ cloning' = cloning /\ guest' = guest /\ effects' = effects
  BY DEF Publishes, service, host
<1>1. Typed'
  BY <1>0 DEF Typed, IInv, Publishes, Follows
<1>2. Ownership'
  <2> SUFFICES ASSUME NEW id \in AttemptIds
               PROVE  /\ id \in cloning => \E a \in Live(catalog') : a.id = id /\ UnboundClone(a)
                      /\ vm[id] # None => \E a \in Live(catalog') : a.id = id /\ Held(a)
                      /\ runner[id] # None =>
                           \E a \in Live(catalog') : a.id = id /\ Held(a) /\ a.jit_generation_started
                      /\ id \in guest =>
                           /\ vm[id] # None
                           /\ \E a \in Live(catalog') :
                                a.id = id /\ Held(a) /\ a.runner_start_started
    BY <1>0 DEF Ownership
  <2>1. \A a : UnboundClone(a) => Held(a)
    BY DEF UnboundClone, Held, Owned
  <2>2. OwnersRemain
    BY DEF Publishes
  <2>3. id \in cloning => \E a \in Live(catalog') : a.id = id /\ UnboundClone(a)
    BY <2>1, <2>2 DEF IInv, Ownership, OwnersRemain, Keeps
  <2>4. vm[id] # None => \E a \in Live(catalog') : a.id = id /\ Held(a)
    BY <2>2 DEF IInv, Ownership, OwnersRemain, Keeps
  <2>5. runner[id] # None =>
          \E a \in Live(catalog') : a.id = id /\ Held(a) /\ a.jit_generation_started
    BY <2>2 DEF IInv, Ownership, OwnersRemain, Keeps
  <2>6. id \in guest =>
          /\ vm[id] # None
          /\ \E a \in Live(catalog') : a.id = id /\ Held(a) /\ a.runner_start_started
    BY <2>2 DEF IInv, Ownership, OwnersRemain, Keeps
  <2> QED BY <2>3, <2>4, <2>5, <2>6
<1>3. ASSUME HistorySuffices PROVE AcknowledgedIsDurable'
  <2> SUFFICES ASSUME NEW id \in AttemptIds
               PROVE  Recorded(catalog', mailbox, job[id], id)
    BY <1>0, DurableIsRecorded
  <2>1. Recorded(catalog, mailbox, job[id], id)
    BY <1>3, DurableIsRecorded DEF IInv, Durable
  <2>2. job[id].state = "completed" => job[id].result # None
    BY DEF IInv, Mail
  <2>3. \A a \in Known(catalog) : \E b \in Known(catalog') :
          /\ Keeps(a, b)
          /\ Out(a) /\ job[id].state = "completed" /\ Taken(mailbox, "Completed", id) /\ a.id = id
             => Out(b)
    BY <1>3 DEF Publishes, CancellationsRemain
  <2> QED BY <2>1, <2>2, <2>3, RecordStays
<1>4. ASSUME HistorySuffices, NEW id \in AttemptIds
      PROVE  Untouched(id)' \/ \E a \in Live(catalog') \cup Past(catalog') : a.id = id
  <2>1. Untouched(id) \/ \E a \in Known(catalog) : a.id = id
    BY <1>4 DEF IInv, Fresh, Known
  <2>2. \A a \in Known(catalog) : \E b \in Known(catalog') : Keeps(a, b)
    BY <1>4 DEF Publishes, Follows
  <2> QED BY <1>0, <2>1, <2>2 DEF Keeps, Known, Untouched
<1>5. \A i \in DOMAIN mailbox' : Truthful(i)'
  BY <1>0 DEF IInv, Mail, Truthful
<1>6. \A id \in AttemptIds :
        /\ job'[id].state = "started" => job'[id].runner # None
        /\ job'[id].state = "completed" => job'[id].result # None
  BY <1>0 DEF IInv, Mail
<1> QED
  BY <1>1, <1>2, <1>3, <1>4, <1>5, <1>6 DEF Publishes

\* The counts stay behind their checkpoints unless a touched identity is
\* reserved.
LEMMA PublicationCounts ==
  ASSUME IInv, Publishes,
         \A b \in Live(catalog') : (\E a \in Live(catalog) : Step(a, b)) \/ Untouched(b.id)
  PROVE  Counted'
<1>0. job' = job /\ guest' = guest /\ effects' = effects
  BY DEF Publishes, service, host
<1>1. AtMostOnceEffects'
  BY <1>0 DEF IInv, Counted, AtMostOnceEffects
<1>2. ASSUME NEW b \in Live(catalog')
      PROVE  /\ b.phase \in PreClone => effects[b.id].clones = 0
             /\ ~b.jit_generation_started => effects[b.id].jits = 0
             /\ ~b.runner_start_started => effects[b.id].starts = 0
  <2>1. CASE Untouched(b.id)
    BY <2>1 DEF Untouched
  <2>2. ASSUME NEW a \in Live(catalog), Step(a, b)
        PROVE  /\ b.phase \in PreClone => effects[b.id].clones = 0
               /\ ~b.jit_generation_started => effects[b.id].jits = 0
               /\ ~b.runner_start_started => effects[b.id].starts = 0
    <3>1. /\ b.id = a.id /\ (b.phase \in PreClone => a.phase \in PreClone)
          /\ a.jit_generation_started => b.jit_generation_started
          /\ a.runner_start_started => b.runner_start_started
      BY <2>2 DEF Step, Keeps, Moves, CleanupMoves, PreClone, Owned
    <3> QED BY <3>1 DEF IInv, Counted
  <2> QED BY <2>1, <2>2
<1>3. \A id \in AttemptIds :
        id \in guest \/ job[id].state = "started" => effects[id].starts # 0
  BY DEF IInv, Counted
<1> QED
  BY <1>0, <1>1, <1>2, <1>3 DEF Counted

\* An operation's publication, its position apart.
LEMMA OperationKeeps ==
  ASSUME IInv, Publishes, Continues(catalog, catalog'), delivery = None, delivery' = None,
         Position',
         HistorySuffices /\ pc' \in {"clone", "cloning"} =>
           \A a \in Live(catalog') : job[a.id].state # "completed"
  PROVE  IInv'
<1>0. mailbox' = mailbox /\ job' = job /\ effects' = effects
  BY DEF Publishes, service
<1>1. /\ Typed' /\ Ownership' /\ Spared'
      /\ HistorySuffices => AcknowledgedIsDurable'
      /\ HistorySuffices =>
           \A id \in AttemptIds :
             Untouched(id)' \/ \E a \in Live(catalog') \cup Past(catalog') : a.id = id
      /\ \A i \in DOMAIN mailbox' : Truthful(i)'
      /\ \A id \in AttemptIds :
           /\ job'[id].state = "started" => job'[id].runner # None
           /\ job'[id].state = "completed" => job'[id].result # None
  BY PublicationKeeps
<1>2. Counted'
  BY PublicationCounts DEF Continues
<1>3. Fresh'
  <2>1. \A b \in Live(catalog') : \E a \in Live(catalog) : a.id = b.id
    BY DEF Continues, Step, Keeps
  <2>2. \A id \in AttemptIds : Untouched(id)' <=> Untouched(id)
    BY <1>0 DEF Untouched
  <2>3. (HistorySuffices =>
           \A id \in AttemptIds :
             Untouched(id) \/ \E a \in Live(catalog) \cup Past(catalog) : a.id = id)'
    BY <1>1
  <2>4. ASSUME Offers = {}
        PROVE  (/\ \A id \in AttemptIds : job[id].state \notin {"offered", "acquired"}
                /\ \A i \in DOMAIN mailbox : mailbox[i].kind = "Assigned" => i = 1
                /\ delivery # None /\ delivery.acknowledged =>
                     \A i \in DOMAIN mailbox : mailbox[i].kind # "Assigned"
                /\ \A id \in AttemptIds :
                     \/ job[id].state = "queued"
                     \/ delivery = None /\ mailbox # << >> /\ Head(mailbox) = Assigned(id)
                     => Untouched(id) /\ \A a \in Live(catalog) : a.id # id)'
    BY <1>0, <2>1, <2>2, <2>4 DEF IInv, Fresh
  <2> QED BY <2>3, <2>4 DEF Fresh
<1>4. Mail'
  BY <1>1 DEF Mail
<1>5. Durable'
  BY <1>0, <1>1 DEF Durable
<1> QED
  BY <1>1, <1>2, <1>3, <1>4, <1>5 DEF IInv

-----------------------------------------------------------------------------
(***************************************************************************)
(* The operations that publish.                                            *)
(***************************************************************************)
\* A controller that returns relies on nothing.
LEMMA IdlePosition ==
  ASSUME pc' = "idle"
  PROVE  Position' /\ pc' \notin {"clone", "cloning"}
BY DEF Position

\* A quiet publication, after which the controller returns.
LEMMA QuietOperation ==
  ASSUME IInv, delivery = None, UNCHANGED <<delivery, now, service, host, effects>>,
         Quiet(catalog, catalog'), Continues(catalog, catalog'), pc' = "idle"
  PROVE  IInv'
<1>1. Publishes
  BY QuietPublishes DEF IInv
<1>2. Position' /\ pc' \notin {"clone", "cloning"}
  BY IdlePosition
<1> QED
  BY <1>1, <1>2, OperationKeeps

\* The same for an action on the attempt that is driven.
LEMMA QuietTransition ==
  ASSUME Typed, NEW action \in Actions, Transition(action),
         action.name \notin {"BeginCleanup", "RecordTerminal", "AdvanceCleanup"}
  PROVE  Quiet(catalog, catalog') /\ Continues(catalog, catalog')
BY TransitionIsQuiet DEF Typed, Transition

\* The beginning of a cleanup, of an attempt that may end.
LEMMA CleanupBegins ==
  ASSUME IInv, Live(catalog) = {attempt}, Transition([name |-> "BeginCleanup"]),
         attempt.runner_start_started => Expired(attempt) \/ Ending(attempt),
         delivery = None, UNCHANGED <<delivery, now, service, host, effects>>, pc' = "idle"
  PROVE  IInv'
<1> DEFINE action == [name |-> "BeginCleanup"]
<1>1. action \in Actions /\ action.name = "BeginCleanup" /\ Sound(catalog)
  BY DEF Actions, IInv, Typed
<1>2. PICK a \in Live(catalog) : \E b \in apply_action(a, action) :
        /\ Step(a, b) /\ Swap(catalog', catalog, a, b)
        /\ Ending(b) => a.runner_start_started
        /\ Follows(catalog, catalog') /\ Continues(catalog, catalog')
        /\ Settled(catalog, catalog')
        /\ StaysHeld(catalog, catalog')
  BY <1>1, TransitionFollows DEF Transition
<1>3. PICK b \in apply_action(a, action) :
        /\ Step(a, b) /\ Swap(catalog', catalog, a, b)
        /\ Ending(b) => a.runner_start_started
  BY <1>2
<1>4. a = attempt /\ Live(catalog') = {b} /\ Keeps(a, b)
  BY <1>3 DEF Swap, Step
<1>5. Spared'
  <2>1. Ending(b) => Expired(attempt) \/ Ending(attempt)
    BY <1>3, <1>4
  <2>2. Ending(attempt) /\ job[attempt.id].state # "completed" => Expired(attempt)
    BY DEF IInv, Spared
  <2>3. b.id = attempt.id /\ b.not_after = attempt.not_after
    BY <1>4 DEF Keeps
  <2>4. now' = now /\ job' = job
    BY DEF service
  <2>5. Ending(b) /\ job[b.id].state # "completed" => now > b.not_after
    BY <2>1, <2>2, <2>3 DEF Expired
  <2> QED BY <1>4, <2>4, <2>5 DEF Spared, Expired
<1>6. OwnersRemain /\ CancellationsRemain
  BY <1>2 DEF OwnersRemain, CancellationsRemain, Settled, StaysHeld
<1>7. Publishes
  BY <1>2, <1>5, <1>6 DEF Publishes
<1>8. Position' /\ pc' \notin {"clone", "cloning"}
  BY IdlePosition
<1> QED
  BY <1>2, <1>7, <1>8, OperationKeeps

\* What an action leaves of the attempt that is driven.
LEMMA DrivenTransition ==
  ASSUME Typed, Live(catalog) = {attempt}, NEW action \in Actions, Transition(action)
  PROVE  \E b \in apply_action(attempt, action) :
           /\ Live(catalog') = {b} /\ Step(attempt, b) /\ b.vm_identity = attempt.vm_identity
<1>1. Sound(catalog)
  BY DEF Typed
<1>2. PICK a \in Live(catalog) : \E b \in apply_action(a, action) :
        Step(a, b) /\ b.vm_identity = a.vm_identity /\ Swap(catalog', catalog, a, b)
  BY <1>1, TransitionSwaps DEF Transition
<1>3. a = attempt
  BY <1>2
<1>4. PICK b \in apply_action(a, action) :
        Step(a, b) /\ b.vm_identity = a.vm_identity /\ Swap(catalog', catalog, a, b)
  BY <1>2
<1>5. Live(catalog') = {b}
  BY <1>3, <1>4 DEF Swap
<1> QED
  BY <1>3, <1>4, <1>5

\* What a checkpoint records.
LEMMA CheckpointsRecord ==
  ASSUME NEW a \in ValidAttempts
  PROVE  /\ \A b \in apply_action(a, [name |-> "RecordCloneStarted"]) :
              /\ a.phase = "CloneAuthorized" /\ b.phase = "CloneStarted" /\ b.vm_identity = None
         /\ \A b \in apply_action(a, [name |-> "RecordJitGenerationStarted"]) :
              b.jit_generation_started
         /\ \A b \in apply_action(a, [name |-> "RecordRunnerStartStarted"]) :
              b.runner_start_started
<1>0. a \in Attempts
  BY EvidenceTypes
<1>1. ASSUME NEW b \in apply_action(a, [name |-> "RecordCloneStarted"])
      PROVE  a.phase = "CloneAuthorized" /\ b.phase = "CloneStarted" /\ b.vm_identity = None
  <2>1. a.phase = "CloneAuthorized" /\ b \in MoveTo(a, "CloneStarted")
    BY <1>1 DEF apply_action, record_clone_started, advance_phase
  <2>2. "CloneStarted" \in Phases
    BY DEF Phases, Owned
  <2>3. b.phase = "CloneStarted" /\ b.vm_identity = a.vm_identity
    BY <2>1, <2>2, EvidenceTypes, AdvanceWith DEF MoveTo
  <2>4. a.vm_identity = None
    BY <2>1 DEF ValidAttempts, validate, PhaseShape, NoEvidence
  <2> QED BY <2>1, <2>3, <2>4
<1>2. ASSUME NEW b \in apply_action(a, [name |-> "RecordJitGenerationStarted"])
      PROVE  b.jit_generation_started
  <2>1. b \in record_jit_generation_started(a)
    BY <1>2 DEF apply_action
  <2> QED BY <1>0, <2>1 DEF record_jit_generation_started, Published, Attempts
<1>3. ASSUME NEW b \in apply_action(a, [name |-> "RecordRunnerStartStarted"])
      PROVE  b.runner_start_started
  <2>1. b \in record_runner_start_started(a)
    BY <1>3 DEF apply_action
  <2> QED BY <1>0, <2>1 DEF record_runner_start_started, Published, Attempts
<1> QED
  BY <1>1, <1>2, <1>3

\* The operations on a reservation.
LEMMA ReservationOperations ==
  ASSUME IInv, AuthorizeClone \/ ExpireBeforeClone \/ CompleteUnprovisioned
  PROVE  IInv'
<1>1. PICK action \in {[name |-> "BeginUnprovisionedRelease"], [name |-> "AuthorizeClone"],
                       [name |-> "CompleteUnprovisioned"]} : Transition(action)
  BY DEF AuthorizeClone, ExpireBeforeClone, CompleteUnprovisioned
<1>2. /\ action \in Actions
      /\ action.name \notin {"BeginCleanup", "RecordTerminal", "AdvanceCleanup"}
  BY DEF Actions
<1>3. /\ delivery = None /\ pc' = "idle"
      /\ UNCHANGED <<delivery, now, service, host, effects>>
  BY DEF AuthorizeClone, ExpireBeforeClone, CompleteUnprovisioned, Driving
<1>4. Quiet(catalog, catalog') /\ Continues(catalog, catalog')
  BY <1>1, <1>2, QuietTransition DEF IInv
<1> QED
  BY <1>3, <1>4, QuietOperation

LEMMA RetireCompleteKeeps ==
  ASSUME IInv, RetireComplete
  PROVE  IInv'
<1>1. Sound(catalog) /\ catalog' \in retire_complete(catalog, attempt.id, attempt.revision)
  BY DEF IInv, Typed, RetireComplete
<1>2. Quiet(catalog, catalog') /\ Continues(catalog, catalog')
  BY <1>1, RetirementIsQuiet
<1>3. /\ delivery = None /\ pc' = "idle"
      /\ UNCHANGED <<delivery, now, service, host, effects>>
  BY DEF RetireComplete, Driving
<1> QED
  BY <1>2, <1>3, QuietOperation

\* The clone's checkpoint: no message about the attempt is pending, so its job
\* has not ended.
LEMMA CheckpointCloneKeeps ==
  ASSUME IInv, CheckpointClone
  PROVE  IInv'
<1> DEFINE action == [name |-> "RecordCloneStarted"]
<1>0. /\ pc' = "clone" /\ mailbox = << >>
      /\ UNCHANGED <<delivery, now, service, host, effects>>
      /\ Driving("idle", {"CloneAuthorized"}) /\ Transition(action) /\ Typed
  BY DEF CheckpointClone, checkpoint_clone_started, Transition, IInv
<1>1. /\ delivery = None /\ attempt.phase = "CloneAuthorized"
      /\ Live(catalog) = {attempt} /\ attempt \in ValidAttempts /\ attempt.id \in AttemptIds
  BY <1>0, Driven
<1>2. action \in Actions /\ action.name \notin {"BeginCleanup", "RecordTerminal", "AdvanceCleanup"}
  BY DEF Actions
<1>3. Quiet(catalog, catalog') /\ Continues(catalog, catalog')
  BY <1>0, <1>2, QuietTransition
<1>4. Publishes
  BY <1>0, <1>3, QuietPublishes DEF IInv
<1>5. PICK b \in apply_action(attempt, action) :
        Live(catalog') = {b} /\ Step(attempt, b)
  BY <1>0, <1>1, <1>2, DrivenTransition
<1>6. UnboundClone(b) /\ b.id = attempt.id
  BY <1>1, <1>5, CheckpointsRecord DEF UnboundClone, Step, Keeps
<1>7. effects[attempt.id].clones = 0
  BY <1>1 DEF IInv, Counted, PreClone
<1>8. Position'
  BY <1>0, <1>1, <1>5, <1>6, <1>7 DEF Position
<1>9. HistorySuffices => job[attempt.id].state # "completed"
  <2> SUFFICES ASSUME HistorySuffices, job[attempt.id].state = "completed" PROVE FALSE
    OBVIOUS
  <2>1. Recorded(catalog, mailbox, job[attempt.id], attempt.id)
    BY <1>1, DurableIsRecorded DEF IInv, Durable
  <2>2. Taken(mailbox, "Completed", attempt.id)
    BY <1>0 DEF Taken
  <2>3. PICK k \in Known(catalog) : k.id = attempt.id /\ (k.result = job[attempt.id].result \/ Out(k))
    BY <2>1, <2>2 DEF Recorded
  <2>4. k = attempt
    BY <1>0, <1>1, <2>3, IdentityIsUnique DEF Known, Typed
  <2>5. attempt.result = None /\ ~Out(attempt)
    BY <1>1 DEF ValidAttempts, validate, PhaseShape, NoEvidence, Out, UnboundClone, Cleanup
  <2>6. job[attempt.id].result # None
    BY <1>1 DEF IInv, Mail
  <2> QED BY <2>3, <2>4, <2>5, <2>6
<1> QED
  BY <1>0, <1>1, <1>3, <1>4, <1>5, <1>6, <1>8, <1>9, OperationKeeps

\* The checkpoints of the runner transaction.
LEMMA CheckpointJitKeeps ==
  ASSUME IInv, CheckpointJit
  PROVE  IInv'
<1> DEFINE action == [name |-> "RecordJitGenerationStarted"]
<1>0. /\ pc' = "jit" /\ UNCHANGED <<delivery, now, service, host, effects>>
      /\ Driving("dispatch", {"Registering", "Assigned"}) /\ Transition(action) /\ Typed
      /\ ~attempt.jit_generation_started /\ ~attempt.runner_start_started
  BY DEF CheckpointJit, RunRunner, IInv
<1>1. /\ delivery = None /\ Live(catalog) = {attempt} /\ attempt \in ValidAttempts
  BY <1>0, Driven
<1>2. action \in Actions /\ action.name \notin {"BeginCleanup", "RecordTerminal", "AdvanceCleanup"}
  BY DEF Actions
<1>3. Quiet(catalog, catalog') /\ Continues(catalog, catalog')
  BY <1>0, <1>2, QuietTransition
<1>4. Publishes
  BY <1>0, <1>3, QuietPublishes DEF IInv
<1>5. PICK b \in apply_action(attempt, action) : Live(catalog') = {b} /\ Step(attempt, b)
  BY <1>0, <1>1, <1>2, DrivenTransition
<1>6. b.jit_generation_started /\ b.id = attempt.id
  BY <1>1, <1>5, CheckpointsRecord DEF Step, Keeps
<1>7. effects[attempt.id].jits = 0 /\ effects[attempt.id].starts = 0
  BY <1>0, <1>1 DEF IInv, Counted
<1>8. Position'
  BY <1>0, <1>1, <1>5, <1>6, <1>7 DEF Position
<1> QED
  BY <1>0, <1>1, <1>3, <1>4, <1>8, OperationKeeps

LEMMA CheckpointStartKeeps ==
  ASSUME IInv, CheckpointStart
  PROVE  IInv'
<1> DEFINE action == [name |-> "RecordRunnerStartStarted"]
<1>0. /\ pc' = "start" /\ UNCHANGED <<delivery, now, service, host, effects>>
      /\ Driving("registered", {"Registering", "Assigned"}) /\ Transition(action) /\ Typed
  BY DEF CheckpointStart, IInv
<1>1. /\ pc = "registered" /\ delivery = None
      /\ Live(catalog) = {attempt} /\ attempt \in ValidAttempts
  BY <1>0, Driven
<1>2. action \in Actions /\ action.name \notin {"BeginCleanup", "RecordTerminal", "AdvanceCleanup"}
  BY DEF Actions
<1>3. Quiet(catalog, catalog') /\ Continues(catalog, catalog')
  BY <1>0, <1>2, QuietTransition
<1>4. Publishes
  BY <1>0, <1>3, QuietPublishes DEF IInv
<1>5. PICK b \in apply_action(attempt, action) : Live(catalog') = {b} /\ Step(attempt, b)
  BY <1>0, <1>1, <1>2, DrivenTransition
<1>6. b.runner_start_started /\ b.id = attempt.id
  BY <1>1, <1>5, CheckpointsRecord DEF Step, Keeps
<1>7. effects[attempt.id].starts = 0
  BY <1>1 DEF IInv, Position
<1>8. Position'
  BY <1>0, <1>1, <1>5, <1>6, <1>7 DEF Position
<1> QED
  BY <1>0, <1>1, <1>3, <1>4, <1>8, OperationKeeps

\* The registration that is recorded exists.
LEMMA RegistrationKeeps ==
  ASSUME IInv, RecordRegistration \/ RecoverRegistration
  PROVE  IInv'
<1> DEFINE observed == ObservedRunner(attempt.id).runner
           action == [name |-> "RecordRegistration", runner |-> observed]
<1>0. /\ UNCHANGED <<delivery, now, service, host, effects>> /\ Transition(action) /\ Typed
      /\ \/ Driving("jitted", {"Registering", "Assigned"}) /\ pc' = "registered"
         \/ /\ Driving("dispatch", {"Registering", "Assigned"}) /\ pc' = "idle"
            /\ runner[attempt.id] # None
  BY DEF RecordRegistration, RecoverRegistration, RunRunner, IInv
<1>1. /\ delivery = None /\ Live(catalog) = {attempt} /\ attempt.id \in AttemptIds
      /\ (pc = "jitted" /\ pc' = "registered") \/ pc' = "idle"
      /\ runner[attempt.id] # None
  BY <1>0, Driven DEF IInv, Position
<1>2. action \in Actions /\ action.name \notin {"BeginCleanup", "RecordTerminal", "AdvanceCleanup"}
  <2>1. runner[attempt.id] \in RunnerIds
    BY <1>0, <1>1 DEF Typed, Option
  <2>2. observed = [name |-> attempt.id, id |-> runner[attempt.id]]
    BY <1>1 DEF ObservedRunner
  <2> QED BY <1>1, <2>1, <2>2 DEF Actions, RunnerReferences
<1> HIDE DEF action
<1>3. Quiet(catalog, catalog') /\ Continues(catalog, catalog')
  BY <1>0, <1>2, QuietTransition
<1>4. Publishes
  BY <1>0, <1>3, QuietPublishes DEF IInv
<1>5. PICK b \in apply_action(attempt, action) : Live(catalog') = {b} /\ Step(attempt, b)
  BY <1>0, <1>1, <1>2, DrivenTransition
<1>6. b.id = attempt.id
  BY <1>5 DEF Step, Keeps
<1>7. pc = "jitted" => effects[attempt.id].starts = 0
  BY <1>1 DEF IInv, Position
<1>8. Position'
  BY <1>0, <1>1, <1>5, <1>6, <1>7 DEF Position
<1> QED
  BY <1>0, <1>1, <1>3, <1>4, <1>8, OperationKeeps

\* The deadline, the end of a job and a lost secret.
LEMMA CleanupOperations ==
  ASSUME IInv, DeadlineCleanup \/ BeginCleanup
  PROVE  IInv'
<1>0. /\ UNCHANGED <<delivery, now, service, host, effects>> /\ pc' = "idle"
      /\ Transition([name |-> "BeginCleanup"]) /\ Typed
      /\ \E phases : Driving("dispatch", phases)
  BY DEF DeadlineCleanup, BeginCleanup, IInv
<1>1. delivery = None /\ Live(catalog) = {attempt}
  BY <1>0, Driven
<1>2. attempt.runner_start_started => Expired(attempt) \/ Ending(attempt)
  BY DEF DeadlineCleanup, BeginCleanup, Driving, Ending
<1> QED
  BY <1>0, <1>1, <1>2, CleanupBegins

\* What is planned for a bound clone that nothing was done with.
LEMMA ClonePlan ==
  ASSUME NEW observed \in {"Unknown", "Ready"}, NEW identity,
         attempt.phase = "CloneStarted", attempt.vm_identity # None,
         NEW act \in Plan(observed, identity, UnknownRunner), act.name = "Persist"
  PROVE  act.transition \in {[name |-> "BeginCleanup"], [name |-> "BeginRegistration"]}
<1> DEFINE in == [now |-> now, attempt |-> attempt, vm |-> observed, vm_identity |-> identity,
                  runner |-> UnknownRunner, job_event |-> None, capacity_reserved |-> TRUE,
                  cancellation_requested |-> FALSE]
<1>1. act \in reconcile_attempt(in)
  BY DEF Plan
<1>2. /\ in.attempt = attempt /\ in.vm = observed /\ in.job_event = None
      /\ in.capacity_reserved /\ in.runner.kind = "Unknown"
  BY DEF UnknownRunner
<1> HIDE DEF in
<1>3. act \in PlanPhase(attempt, in)
  BY <1>1, <1>2 DEF reconcile_attempt
<1>4. act \in Observe("Vm") \cup Act("DiscardIncompleteVm")
              \cup PersistPhase("BeginCleanup") \cup PersistPhase("BeginRegistration")
  BY <1>2, <1>3 DEF PlanPhase, PlanCloneStarted, Cleanup
<1> QED
  BY <1>4 DEF PersistPhase, persist, Observe, Act

LEMMA CheckpointRegistrationKeeps ==
  ASSUME IInv, CheckpointRegistration
  PROVE  IInv'
<1>0. /\ UNCHANGED <<delivery, now, service, host, effects>> /\ pc' = "idle" /\ Typed
      /\ Driving("idle", {"CloneStarted"})
  BY DEF CheckpointRegistration, Driving, IInv
<1>1. /\ delivery = None /\ Live(catalog) = {attempt} /\ attempt.phase = "CloneStarted"
      /\ attempt \in ValidAttempts
  BY <1>0, Driven
<1>2. PICK action \in {[name |-> "BeginCleanup"], [name |-> "BeginRegistration"]} :
        Transition(action)
  BY <1>1, ClonePlan DEF CheckpointRegistration
<1>3. CASE action = [name |-> "BeginCleanup"]
  <2>1. ~attempt.runner_start_started
    BY <1>1, CloneStartedShape
  <2> QED BY <1>0, <1>1, <1>2, <1>3, <2>1, CleanupBegins
<1>4. CASE action = [name |-> "BeginRegistration"]
  <2>1. /\ action \in Actions
        /\ action.name \notin {"BeginCleanup", "RecordTerminal", "AdvanceCleanup"}
    BY <1>4 DEF Actions
  <2>2. Quiet(catalog, catalog') /\ Continues(catalog, catalog')
    BY <1>0, <1>2, <2>1, QuietTransition
  <2> QED BY <1>0, <1>1, <2>2, QuietOperation
<1> QED
  BY <1>3, <1>4

\* Binding the disk: the command has returned, and a cancellation that arrived
\* meanwhile is still in the queue.
LEMMA BindVmIdentityKeeps ==
  ASSUME IInv, BindVmIdentity
  PROVE  IInv'
<1>0. /\ UNCHANGED <<delivery, now, service, host, effects>> /\ pc' = "idle" /\ Typed
      /\ Driving("cloning", {"CloneStarted"}) /\ Sound(catalog)
      /\ attempt.id \notin cloning /\ vm[attempt.id] # None
      /\ catalog' \in catalog_bind_vm_identity_after_clone(catalog, attempt.id, attempt.revision,
                                                           vm[attempt.id])
  BY DEF BindVmIdentity, IInv, Typed
<1>1. /\ pc = "cloning" /\ delivery = None /\ Live(catalog) = {attempt}
      /\ attempt.phase = "CloneStarted" /\ attempt \in ValidAttempts /\ attempt.id \in AttemptIds
  BY <1>0, Driven
<1>2. vm[attempt.id] \in VmIdentities
  BY <1>0, <1>1 DEF Typed, Option
<1>3. PICK old \in Live(catalog) : \E b \in bind_vm_identity_after_clone(old, vm[attempt.id]) :
        Step(old, b) /\ Swap(catalog', catalog, old, b)
  BY <1>0, <1>2, BindingSwaps
<1>4. PICK b \in bind_vm_identity_after_clone(attempt, vm[attempt.id]) :
        Step(attempt, b) /\ Swap(catalog', catalog, attempt, b)
  BY <1>1, <1>3
<1>5. /\ Live(catalog') = {b} /\ Past(catalog') = Past(catalog) /\ Keeps(attempt, b)
      /\ Follows(catalog, catalog') /\ Continues(catalog, catalog')
  BY <1>0, <1>1, <1>4, SwapFollows DEF Swap, Step
<1>6. b.phase = "CloneStarted"
  BY <1>1, <1>4, EvidenceTypes DEF bind_vm_identity_after_clone, Published, Attempts
<1>7. Held(b) /\ ~Ending(b)
  BY <1>6 DEF Held, Owned, Ending, Cleanup
<1>8. OwnersRemain
  BY <1>0, <1>1, <1>5, <1>7 DEF OwnersRemain
<1>9. CancellationsRemain
  <2> SUFFICES ASSUME HistorySuffices, NEW a \in Known(catalog)
               PROVE  \E k \in Known(catalog') :
                        /\ Keeps(a, k)
                        /\ /\ Out(a) /\ job[a.id].state = "completed"
                           /\ Taken(mailbox, "Completed", a.id)
                           => Out(k)
    BY DEF CancellationsRemain
  <2>1. CASE a \in Past(catalog)
    BY <1>5, <2>1, KeepsChains DEF Known
  <2>2. CASE a = attempt
    <3>1. job[a.id].state = "completed" => ~Taken(mailbox, "Completed", a.id)
      BY <1>1, <2>2 DEF IInv, Durable, Taken
    <3> QED BY <1>5, <2>2, <3>1 DEF Known
  <2> QED BY <1>1, <2>1, <2>2 DEF Known
<1>10. Spared'
  BY <1>5, <1>7 DEF Spared
<1>11. Publishes
  BY <1>0, <1>5, <1>8, <1>9, <1>10 DEF Publishes
<1>12. Position' /\ pc' \notin {"clone", "cloning"}
  BY <1>0, IdlePosition
<1> QED
  BY <1>0, <1>1, <1>5, <1>11, <1>12, OperationKeeps

\* What cleanup does to the catalog once the VM is gone: it advances, adopts
\* the registration, or completes because there is none.
LEMMA CleanupPlans ==
  ASSUME attempt.phase \in Cleanup, NEW act \in CleanupPlan
  PROVE  /\ act.name = "Persist" =>
              \/ /\ attempt.phase \in {"Destroying", "Deregistering"}
                 /\ act.transition \in
                      [name : {"AdvanceCleanup"}, phase : {"Deregistering", "Releasing"}]
              \/ /\ runner[attempt.id] # None
                 /\ act.transition = [name |-> "RecordRegistration",
                                      runner |-> [name |-> attempt.id, id |-> runner[attempt.id]]]
         /\ act.name = "ReleaseCapacity" => runner[attempt.id] = None
<1> DEFINE seen == IF attempt.phase = "Destroying" THEN UnknownRunner
                                                   ELSE ObservedRunner(attempt.id)
           in == [now |-> now, attempt |-> attempt, vm |-> "Absent", vm_identity |-> None,
                  runner |-> seen, job_event |-> None, capacity_reserved |-> TRUE,
                  cancellation_requested |-> FALSE]
<1>1. act \in reconcile_attempt(in)
  BY DEF CleanupPlan, Plan
<1>2. /\ in.attempt = attempt /\ in.vm = "Absent" /\ in.job_event = None
      /\ in.capacity_reserved = TRUE /\ in.runner = seen
  OBVIOUS
<1>3. /\ seen.kind \in {"Unknown", "Absent", "RegistrationOnly"}
      /\ seen.kind = "Unknown" => attempt.phase = "Destroying"
      /\ seen.kind = "Absent" => runner[attempt.id] = None
      /\ seen.kind = "RegistrationOnly" =>
           runner[attempt.id] # None /\ seen.runner = [name |-> attempt.id, id |-> runner[attempt.id]]
  BY DEF UnknownRunner, ObservedRunner
<1> HIDE DEF in, seen
<1>4. act \in PlanPhase(attempt, in)
  BY <1>1, <1>2, <1>3 DEF reconcile_attempt, Blocked, Cleanup
<1>5. act \in PlanCleanup(attempt, "Absent", seen, TRUE)
  BY <1>2, <1>4 DEF PlanPhase, Cleanup
<1> QED
  BY <1>3, <1>5 DEF PlanCleanup, persist, Observe, Act, DeleteRunner, Blocked, PersistValid, Cleanup

\* An attempt completes only when its VM and its registration are gone.
LEMMA CleanupAdvances ==
  ASSUME IInv, NEW action \in Actions, action.name = "AdvanceCleanup", Transition(action),
         Driving("dispatch", Cleanup), vm[attempt.id] = None,
         runner[attempt.id] # None => attempt.phase # "Releasing",
         UNCHANGED <<delivery, now, service, host, effects>>, pc' = "idle"
  PROVE  IInv'
<1>0. Typed /\ Sound(catalog)
  BY DEF IInv, Typed
<1>1. /\ delivery = None /\ Live(catalog) = {attempt} /\ attempt.phase \in Cleanup
      /\ attempt \in ValidAttempts
  BY <1>0, Driven
<1>2. PICK a \in Live(catalog) : \E b \in apply_action(a, action) :
        /\ Step(a, b) /\ Swap(catalog', catalog, a, b)
        /\ Follows(catalog, catalog') /\ Continues(catalog, catalog')
        /\ Settled(catalog, catalog')
        /\ StaysServing(catalog, catalog')
  BY <1>0, TransitionFollows DEF Transition
<1>3. PICK b \in apply_action(attempt, action) :
        Step(attempt, b) /\ Swap(catalog', catalog, attempt, b)
  BY <1>1, <1>2
<1>4. Live(catalog') = {b} /\ Keeps(attempt, b)
  BY <1>1, <1>3 DEF Swap, Step
<1>5. OwnersRemain
  <2>1. ~UnboundClone(attempt)
    BY <1>1 DEF UnboundClone, Cleanup
  <2>2. runner[attempt.id] # None /\ Held(attempt) => Held(b)
    BY <1>1, <1>3, HeldStays
  <2> QED BY <1>1, <1>4, <2>1, <2>2 DEF OwnersRemain
<1>6. CancellationsRemain
  BY <1>2 DEF CancellationsRemain, Settled
<1>7. Spared'
  BY <1>2 DEF IInv, Spared, StaysServing, Keeps, Expired, service
<1>8. Publishes
  BY <1>2, <1>5, <1>6, <1>7 DEF Publishes
<1>9. Position' /\ pc' \notin {"clone", "cloning"}
  BY IdlePosition
<1> QED
  BY <1>1, <1>2, <1>8, <1>9, OperationKeeps

LEMMA AdvanceCleanupKeeps ==
  ASSUME IInv, AdvanceCleanup
  PROVE  IInv'
<1>0. /\ UNCHANGED <<delivery, now, service, host, effects>> /\ pc' = "idle" /\ Typed
      /\ Driving("dispatch", Cleanup) /\ vm[attempt.id] = None
  BY DEF AdvanceCleanup, IInv
<1>1. /\ delivery = None /\ attempt.phase \in Cleanup /\ attempt.id \in AttemptIds
  BY <1>0, Driven
<1>2. PICK act \in CleanupPlan :
        \/ act.name = "Persist" /\ Transition(act.transition)
        \/ /\ act.name = "ReleaseCapacity"
           /\ Transition([name |-> "AdvanceCleanup", phase |-> "Complete"])
  BY DEF AdvanceCleanup
<1>3. CASE act.name = "ReleaseCapacity" /\ Transition([name |-> "AdvanceCleanup", phase |-> "Complete"])
  <2> DEFINE action == [name |-> "AdvanceCleanup", phase |-> "Complete"]
  <2>1. action \in Actions /\ action.name = "AdvanceCleanup"
    BY DEF Actions
  <2>2. runner[attempt.id] = None
    BY <1>1, <1>3, CleanupPlans
  <2> QED BY <1>0, <1>3, <2>1, <2>2, CleanupAdvances
<1>4. CASE act.name = "Persist" /\ Transition(act.transition)
  <2> DEFINE action == act.transition
  <2>1. CASE /\ attempt.phase \in {"Destroying", "Deregistering"}
             /\ action \in [name : {"AdvanceCleanup"}, phase : {"Deregistering", "Releasing"}]
    <3>1. action \in Actions /\ action.name = "AdvanceCleanup" /\ attempt.phase # "Releasing"
      BY <2>1 DEF Actions, Cleanup
    <3> QED BY <1>0, <1>4, <3>1, CleanupAdvances
  <2>2. CASE /\ runner[attempt.id] # None
             /\ action = [name |-> "RecordRegistration",
                          runner |-> [name |-> attempt.id, id |-> runner[attempt.id]]]
    <3>1. runner[attempt.id] \in RunnerIds
      BY <1>0, <1>1, <2>2 DEF Typed, Option
    <3>2. /\ action \in Actions
          /\ action.name \notin {"BeginCleanup", "RecordTerminal", "AdvanceCleanup"}
      BY <1>1, <2>2, <3>1 DEF Actions, RunnerReferences
    <3>3. Quiet(catalog, catalog') /\ Continues(catalog, catalog')
      BY <1>0, <1>4, <3>2, QuietTransition
    <3> QED BY <1>0, <1>1, <3>3, QuietOperation
  <2> QED BY <1>1, <1>4, <2>1, <2>2, CleanupPlans
<1> QED
  BY <1>2, <1>3, <1>4

-----------------------------------------------------------------------------
(***************************************************************************)
(* Deliveries.                                                             *)
(***************************************************************************)
\* The head of the queue tells the truth.
LEMMA HeadIsEvent ==
  ASSUME Typed, Mail, mailbox # << >>
  PROVE  /\ Head(mailbox) \in Events /\ Head(mailbox) = mailbox[1] /\ 1 \in DOMAIN mailbox
         /\ Truthful(1) /\ Head(mailbox).id \in AttemptIds
<1>1. mailbox \in Seq(Events)
  BY DEF Typed
<1>2. Head(mailbox) \in Events /\ Head(mailbox) = mailbox[1] /\ 1 \in DOMAIN mailbox
  BY <1>1
<1> QED
  BY <1>2 DEF Mail, Events

LEMMA ReconcileKeeps ==
  ASSUME IInv, DeadlinesAreTimes, FenceIsSome, OffersAreRemembered, Reconcile
  PROVE  IInv'
<1> DEFINE e == Head(mailbox)
<1>0. /\ pc = "idle" /\ pc' = "idle" /\ delivery = None /\ mailbox # << >>
      /\ catalog' \in reconcile_event(e, catalog, now)
      /\ delivery' = [event |-> e, acknowledged |-> FALSE, acquired |-> FALSE]
      /\ UNCHANGED <<now, service, host, effects>>
  BY DEF Reconcile
<1>1. /\ e \in Events /\ e = mailbox[1] /\ 1 \in DOMAIN mailbox /\ Truthful(1)
      /\ e.id \in AttemptIds /\ Sound(catalog) /\ now \in Nat
  BY <1>0, HeadIsEvent DEF IInv, Typed
<1>f. mailbox' = mailbox /\ job' = job /\ effects' = effects /\ now' = now
  BY <1>0 DEF service
<1> HIDE DEF e
<1>2. Takes(e, catalog, catalog')
  BY <1>0, <1>1, ReconcileTakes DEF DeadlinesAreTimes
<1>3. delivery' \in Fences /\ delivery' # None
  <2>1. delivery' \in Fences
    BY <1>0, <1>1 DEF Fences
  <2> QED BY <2>1 DEF FenceIsSome
<1>4. Spared'
  <2> SUFFICES ASSUME NEW b \in Live(catalog'), Ending(b), job[b.id].state # "completed"
               PROVE  now > b.not_after
    BY <1>f DEF Spared, Expired
  <2>1. e.kind = "Completed" => job[e.id].state = "completed"
    BY <1>1 DEF Truthful
  <2>2. PICK a \in Live(catalog) : Keeps(a, b) /\ Ending(a)
    BY <1>2, <2>1 DEF Takes
  <2> QED BY <2>2 DEF IInv, Spared, Keeps, Expired
<1>5. OwnersRemain /\ CancellationsRemain /\ Follows(catalog, catalog')
  BY <1>2 DEF OwnersRemain, CancellationsRemain, Settled, StaysHeld, Takes
<1>6. Publishes
  BY <1>0, <1>4, <1>5 DEF Publishes
<1>7. /\ Typed' /\ Ownership' /\ Spared'
      /\ HistorySuffices => AcknowledgedIsDurable'
      /\ HistorySuffices =>
           \A id \in AttemptIds :
             Untouched(id)' \/ \E a \in Live(catalog') \cup Past(catalog') : a.id = id
      /\ \A i \in DOMAIN mailbox' : Truthful(i)'
      /\ \A id \in AttemptIds :
           /\ job'[id].state = "started" => job'[id].runner # None
           /\ job'[id].state = "completed" => job'[id].result # None
  BY <1>3, <1>6, PublicationKeeps
<1>8. Offers = {} => e.kind # "Available"
  BY <1>1 DEF Truthful, IInv, Fresh
<1>9. Counted'
  <2> SUFFICES ASSUME NEW b \in Live(catalog'), ~ \E a \in Live(catalog) : Step(a, b)
               PROVE  Untouched(b.id)
    BY <1>6, PublicationCounts
  <2>1. e.kind \in {"Available", "Assigned"} /\ b.id = e.id
    BY <1>2 DEF Takes
  <2>2. \A a \in Known(catalog) : a.id # b.id
    BY <1>5 DEF Follows
  <2>3. CASE HistorySuffices
    BY <1>1, <2>1, <2>2, <2>3 DEF IInv, Fresh, Known
  <2>4. CASE Offers = {}
    <3>1. e = Assigned(b.id)
      BY <1>1, <1>8, <2>1, <2>4 DEF Events, Assigned
    <3> QED BY <1>0, <1>1, <2>1, <2>4, <3>1 DEF IInv, Fresh, e
  <2> QED BY <2>3, <2>4 DEF OffersAreRemembered
<1>10. Fresh'
  <2>1. \A id \in AttemptIds : Untouched(id)' <=> Untouched(id)
    BY <1>f DEF Untouched
  <2>2. ASSUME Offers = {}
        PROVE  (/\ \A id \in AttemptIds : job[id].state \notin {"offered", "acquired"}
                /\ \A i \in DOMAIN mailbox : mailbox[i].kind = "Assigned" => i = 1
                /\ delivery # None /\ delivery.acknowledged =>
                     \A i \in DOMAIN mailbox : mailbox[i].kind # "Assigned"
                /\ \A id \in AttemptIds :
                     \/ job[id].state = "queued"
                     \/ delivery = None /\ mailbox # << >> /\ Head(mailbox) = Assigned(id)
                     => Untouched(id) /\ \A a \in Live(catalog) : a.id # id)'
    <3>1. ASSUME NEW id \in AttemptIds, job[id].state = "queued", NEW b \in Live(catalog'), b.id = id
          PROVE  FALSE
      <4>1. e.id # id
        BY <1>1, <3>1 DEF Truthful
      <4>2. \E a \in Live(catalog) : a.id = id
        BY <1>2, <3>1, <4>1 DEF Takes, Step, Keeps
      <4> QED BY <2>2, <3>1, <4>2 DEF IInv, Fresh
    <3>2. \A id \in AttemptIds : job[id].state = "queued" => Untouched(id)
      BY <2>2 DEF IInv, Fresh
    <3>3. ~delivery'.acknowledged
      BY <1>0
    <3> QED BY <1>f, <1>3, <2>1, <2>2, <3>1, <3>2, <3>3 DEF IInv, Fresh
  <2> QED BY <1>7, <2>2 DEF Fresh
<1>11. Mail'
  <2>1. ~delivery'.acknowledged /\ delivery'.event = e
    BY <1>0
  <2> QED BY <1>0, <1>f, <1>7, <2>1 DEF Mail, e
<1>12. Durable'
  <2>1. HistorySuffices => Holds(catalog', delivery'.event)
    BY <1>0, <1>2 DEF Takes
  <2> QED BY <1>0, <1>7, <2>1 DEF Durable
<1>13. Position'
  BY <1>0, IdlePosition
<1> QED
  BY <1>7, <1>9, <1>10, <1>11, <1>12, <1>13 DEF IInv

LEMMA SettleKeeps ==
  ASSUME IInv, Settle
  PROVE  IInv'
<1>0. /\ pc = "idle" /\ pc' = "idle" /\ delivery # None /\ delivery.acknowledged
      /\ catalog' \in settle_scale_set_delivery_catalog(delivery.event, delivery.acquired, catalog)
      /\ delivery' = None /\ UNCHANGED <<now, service, host, effects>> /\ Sound(catalog)
  BY DEF Settle, IInv, Typed
<1>f. mailbox' = mailbox /\ job' = job /\ effects' = effects
  BY <1>0 DEF service
<1>1. Quiet(catalog, catalog') /\ Continues(catalog, catalog')
  BY <1>0, SettlementIsQuiet
<1>2. Publishes
  BY <1>0, <1>1, QuietPublishes DEF IInv
<1>3. /\ Typed' /\ Ownership' /\ Spared'
      /\ HistorySuffices => AcknowledgedIsDurable'
      /\ HistorySuffices =>
           \A id \in AttemptIds :
             Untouched(id)' \/ \E a \in Live(catalog') \cup Past(catalog') : a.id = id
      /\ \A i \in DOMAIN mailbox' : Truthful(i)'
      /\ \A id \in AttemptIds :
           /\ job'[id].state = "started" => job'[id].runner # None
           /\ job'[id].state = "completed" => job'[id].result # None
  BY <1>0, <1>2, PublicationKeeps
<1>4. Counted'
  BY <1>1, <1>2, PublicationCounts DEF Continues
<1>5. Fresh'
  <2>1. \A id \in AttemptIds : Untouched(id)' <=> Untouched(id)
    BY <1>f DEF Untouched
  <2>2. \A b \in Live(catalog') : \E a \in Live(catalog) : a.id = b.id
    BY <1>1 DEF Continues, Step, Keeps
  <2>3. ASSUME Offers = {}
        PROVE  (/\ \A id \in AttemptIds : job[id].state \notin {"offered", "acquired"}
                /\ \A i \in DOMAIN mailbox : mailbox[i].kind = "Assigned" => i = 1
                /\ delivery # None /\ delivery.acknowledged =>
                     \A i \in DOMAIN mailbox : mailbox[i].kind # "Assigned"
                /\ \A id \in AttemptIds :
                     \/ job[id].state = "queued"
                     \/ delivery = None /\ mailbox # << >> /\ Head(mailbox) = Assigned(id)
                     => Untouched(id) /\ \A a \in Live(catalog) : a.id # id)'
    <3>1. \A i \in DOMAIN mailbox : mailbox[i].kind # "Assigned"
      BY <1>0, <2>3 DEF IInv, Fresh
    <3>2. \A id \in AttemptIds : ~(mailbox # << >> /\ Head(mailbox) = Assigned(id))
      BY <3>1, HeadIsEvent DEF Assigned, IInv
    <3> QED BY <1>0, <1>f, <2>1, <2>2, <2>3, <3>1, <3>2 DEF IInv, Fresh
  <2> QED BY <1>3, <2>3 DEF Fresh
<1>6. Mail'
  BY <1>0, <1>3 DEF Mail
<1>7. Durable'
  BY <1>0, <1>3 DEF Durable
<1>8. Position'
  BY <1>0, IdlePosition
<1> QED
  BY <1>3, <1>4, <1>5, <1>6, <1>7, <1>8 DEF IInv

\* Dropping the head of a queue.
LEMMA TailShifts ==
  ASSUME NEW S, NEW s \in Seq(S), s # << >>
  PROVE  /\ Tail(s) \in Seq(S)
         /\ \A i \in DOMAIN Tail(s) : i + 1 \in DOMAIN s /\ i + 1 # 1 /\ Tail(s)[i] = s[i + 1]
         /\ \A i \in DOMAIN s : i # 1 => \E k \in DOMAIN Tail(s) : Tail(s)[k] = s[i]
<1>1. /\ Tail(s) \in Seq(S) /\ Len(s) \in Nat /\ Len(s) >= 1 /\ Len(Tail(s)) = Len(s) - 1
      /\ DOMAIN s = 1 .. Len(s) /\ DOMAIN Tail(s) = 1 .. Len(Tail(s))
      /\ \A i \in 1 .. Len(s) - 1 : Tail(s)[i] = s[i + 1]
  OBVIOUS
<1>2. ASSUME NEW i \in DOMAIN s, i # 1 PROVE \E k \in DOMAIN Tail(s) : Tail(s)[k] = s[i]
  <2>1. i - 1 \in DOMAIN Tail(s) /\ i - 1 + 1 = i
    BY <1>1, <1>2
  <2> QED BY <1>1, <2>1
<1>3. ASSUME NEW i \in DOMAIN Tail(s)
      PROVE  i + 1 \in DOMAIN s /\ i + 1 # 1 /\ Tail(s)[i] = s[i + 1]
  BY <1>1
<1> QED
  BY <1>1, <1>2, <1>3

\* Sending one message.
LEMMA AppendExtends ==
  ASSUME NEW S, NEW s \in Seq(S), NEW e \in S
  PROVE  /\ Append(s, e) \in Seq(S) /\ Append(s, e) # << >>
         /\ \A i \in DOMAIN s : i \in DOMAIN Append(s, e) /\ Append(s, e)[i] = s[i]
         /\ \A i \in DOMAIN Append(s, e) : i \in DOMAIN s \/ Append(s, e)[i] = e
         /\ \E i \in DOMAIN Append(s, e) : Append(s, e)[i] = e
         /\ s # << >> => Head(Append(s, e)) = Head(s)
         /\ s = << >> => Head(Append(s, e)) = e /\ DOMAIN Append(s, e) = {1}
                         /\ Append(s, e)[1] = e
<1>1. /\ Append(s, e) \in Seq(S) /\ Len(s) \in Nat /\ Len(Append(s, e)) = Len(s) + 1
      /\ DOMAIN s = 1 .. Len(s) /\ DOMAIN Append(s, e) = 1 .. Len(s) + 1
      /\ \A i \in 1 .. Len(s) : Append(s, e)[i] = s[i]
      /\ Append(s, e)[Len(s) + 1] = e
  OBVIOUS
<1>2. Head(Append(s, e)) = Append(s, e)[1] /\ (s # << >> => Head(s) = s[1] /\ Len(s) >= 1)
  BY <1>1
<1>3. s = << >> => Len(s) = 0
  OBVIOUS
<1> QED
  BY <1>1, <1>2, <1>3

\* What acknowledging does: the head goes, and an offer is decided.
LEMMA AcknowledgeActs ==
  ASSUME IInv, FenceIsSome, Acknowledge
  PROVE  LET e == delivery.event IN
         /\ pc' = "idle" /\ delivery # None /\ e = Head(mailbox) /\ e = mailbox[1]
         /\ 1 \in DOMAIN mailbox /\ e \in Events /\ e.id \in AttemptIds /\ Truthful(1)
         /\ delivery' \in Fences /\ delivery' # None
         /\ delivery'.event = e /\ delivery'.acknowledged = TRUE
         /\ mailbox # << >> /\ mailbox' = Tail(mailbox) /\ job' \in [AttemptIds -> Jobs]
         /\ UNCHANGED <<catalog, now, runner, vm, cloning, guest, effects>>
         /\ \A id \in AttemptIds :
              \/ job'[id] = job[id] /\ (e.kind = "Available" => id # e.id)
              \/ /\ e.kind = "Available" /\ id = e.id /\ job[id].state = "offered"
                 /\ job'[id].state \in {"acquired", "gone"}
<1> DEFINE e == delivery.event
<1>0. /\ pc' = "idle" /\ delivery # None /\ ~delivery.acknowledged
      /\ mailbox' = Tail(mailbox)
      /\ UNCHANGED <<catalog, now, runner, vm, cloning, guest, effects>>
  BY DEF Acknowledge, host
<1>1. mailbox # << >> /\ e = Head(mailbox) /\ delivery \in Fences
  BY <1>0 DEF IInv, Mail, Typed
<1>2. /\ e \in Events /\ e = mailbox[1] /\ 1 \in DOMAIN mailbox /\ Truthful(1)
      /\ e.id \in AttemptIds
  BY <1>1, HeadIsEvent DEF IInv
<1>3. PICK acquired \in BOOLEAN :
        /\ delivery' = [delivery EXCEPT !.acknowledged = TRUE, !.acquired = acquired]
        /\ job' = IF e.kind = "Available"
                  THEN [job EXCEPT ![e.id].state = IF acquired THEN "acquired" ELSE "gone"]
                  ELSE job
  BY DEF Acknowledge
<1>4. delivery' \in Fences /\ delivery'.event = e /\ delivery'.acknowledged = TRUE
  BY <1>1, <1>3 DEF Fences
<1>5. delivery' # None
  BY <1>4 DEF FenceIsSome
<1>6. job \in [AttemptIds -> Jobs]
  BY DEF IInv, Typed
<1>7. e.kind = "Available" => job[e.id].state = "offered"
  BY <1>2 DEF Truthful
<1> HIDE DEF e
<1>8. CASE e.kind = "Available"
  <2> DEFINE next == IF acquired THEN "acquired" ELSE "gone"
  <2>1. next \in {"acquired", "gone"} /\ job' = [job EXCEPT ![e.id].state = next]
    BY <1>3, <1>8
  <2> HIDE DEF next
  <2>2. job' = [job EXCEPT ![e.id] = [job[e.id] EXCEPT !.state = next]]
    BY <2>1
  <2>3. job[e.id] \in Jobs
    BY <1>2, <1>6 DEF e
  <2>4. [job[e.id] EXCEPT !.state = next] \in Jobs /\ [job[e.id] EXCEPT !.state = next].state = next
    BY <2>1, <2>3 DEF Jobs
  <2>5. job' \in [AttemptIds -> Jobs]
    BY <1>6, <2>2, <2>4
  <2>6. \A id \in AttemptIds : id # e.id => job'[id] = job[id]
    BY <1>6, <2>2
  <2>7. job'[e.id].state \in {"acquired", "gone"}
    BY <1>2, <1>6, <2>1, <2>2, <2>4 DEF e
  <2> QED BY <1>0, <1>1, <1>2, <1>4, <1>5, <1>7, <1>8, <2>5, <2>6, <2>7 DEF e
<1>9. CASE e.kind # "Available"
  BY <1>0, <1>1, <1>2, <1>3, <1>4, <1>5, <1>6, <1>9 DEF e
<1> QED
  BY <1>8, <1>9

LEMMA AcknowledgeKeeps ==
  ASSUME IInv, FenceIsSome, Acknowledge
  PROVE  IInv'
<1> DEFINE e == delivery.event
<1>0. /\ pc' = "idle" /\ delivery # None /\ e = Head(mailbox) /\ e = mailbox[1]
      /\ 1 \in DOMAIN mailbox /\ e \in Events /\ e.id \in AttemptIds /\ Truthful(1)
      /\ delivery' \in Fences /\ delivery' # None
      /\ delivery'.event = e /\ delivery'.acknowledged = TRUE
      /\ mailbox # << >> /\ mailbox' = Tail(mailbox) /\ job' \in [AttemptIds -> Jobs]
      /\ UNCHANGED <<catalog, now, runner, vm, cloning, guest, effects>>
  BY AcknowledgeActs
<1>1. \A id \in AttemptIds :
        \/ job'[id] = job[id] /\ (e.kind = "Available" => id # e.id)
        \/ /\ e.kind = "Available" /\ id = e.id /\ job[id].state = "offered"
           /\ job'[id].state \in {"acquired", "gone"}
  BY AcknowledgeActs
<1> HIDE DEF e
<1>2. mailbox \in Seq(Events)
  BY DEF IInv, Typed
<1>3. /\ mailbox' \in Seq(Events)
      /\ \A i \in DOMAIN mailbox' :
           i + 1 \in DOMAIN mailbox /\ i + 1 # 1 /\ mailbox'[i] = mailbox[i + 1]
      /\ \A i \in DOMAIN mailbox : i # 1 => \E k \in DOMAIN mailbox' : mailbox'[k] = mailbox[i]
  BY <1>0, <1>2, TailShifts
<1>4. Typed'
  BY <1>0, <1>3 DEF IInv, Typed
<1>5. Ownership'
  BY <1>0 DEF IInv, Ownership
<1>6. Position'
  BY <1>0, IdlePosition
<1>7. Counted'
  <2>1. \A id \in AttemptIds : job'[id].state = "started" => job[id].state = "started"
    BY <1>1
  <2> QED BY <1>0, <2>1 DEF IInv, Counted, AtMostOnceEffects
<1>8. Fresh'
  <2>1. \A id : Untouched(id)' <=> Untouched(id)
    BY <1>0 DEF Untouched
  <2>2. ASSUME Offers = {}
        PROVE  (/\ \A id \in AttemptIds : job[id].state \notin {"offered", "acquired"}
                /\ \A i \in DOMAIN mailbox : mailbox[i].kind = "Assigned" => i = 1
                /\ delivery # None /\ delivery.acknowledged =>
                     \A i \in DOMAIN mailbox : mailbox[i].kind # "Assigned"
                /\ \A id \in AttemptIds :
                     \/ job[id].state = "queued"
                     \/ delivery = None /\ mailbox # << >> /\ Head(mailbox) = Assigned(id)
                     => Untouched(id) /\ \A a \in Live(catalog) : a.id # id)'
    <3>1. \A id \in AttemptIds : job'[id] = job[id]
      BY <1>1, <2>2 DEF IInv, Fresh
    <3>2. \A i \in DOMAIN mailbox' : mailbox'[i].kind # "Assigned"
      BY <1>3, <2>2 DEF IInv, Fresh
    <3> QED BY <1>0, <2>1, <2>2, <3>1, <3>2 DEF IInv, Fresh
  <2>3. HistorySuffices =>
          \A id \in AttemptIds :
            Untouched(id)' \/ \E a \in Live(catalog') \cup Past(catalog') : a.id = id
    BY <1>0, <2>1 DEF IInv, Fresh
  <2> QED BY <2>2, <2>3 DEF Fresh
<1>9. Mail'
  <2>1. ASSUME NEW i \in DOMAIN mailbox' PROVE Truthful(i)'
    <3>1. i + 1 \in DOMAIN mailbox /\ i + 1 # 1 /\ mailbox'[i] = mailbox[i + 1]
      BY <1>3
    <3>2. Truthful(i + 1)
      BY <3>1 DEF IInv, Mail
    <3>3. mailbox'[i].kind # "Available"
      BY <3>1, <3>2 DEF Truthful
    <3>4. mailbox'[i].id \in AttemptIds
      BY <1>3 DEF Events
    <3>5. CASE job'[mailbox'[i].id] = job[mailbox'[i].id]
      BY <3>1, <3>2, <3>3, <3>5 DEF Truthful
    <3>6. CASE /\ job[mailbox'[i].id].state = "offered"
               /\ job'[mailbox'[i].id].state \in {"acquired", "gone"}
      BY <3>1, <3>2, <3>3, <3>6 DEF Truthful
    <3> QED BY <1>1, <3>4, <3>5, <3>6
  <2>2. \A id \in AttemptIds :
          /\ job'[id].state = "started" => job'[id].runner # None
          /\ job'[id].state = "completed" => job'[id].result # None
    BY <1>1 DEF IInv, Mail
  <2> QED BY <1>0, <2>1, <2>2 DEF Mail
<1>10. Spared'
  <2>1. \A a \in Live(catalog) : a.id \in AttemptIds
    BY DocumentsAreValid, EvidenceTypes DEF IInv, Typed, Sound, Attempts
  <2>2. \A id \in AttemptIds : job[id].state = "completed" => job'[id].state = "completed"
    BY <1>1
  <2> QED BY <1>0, <2>1, <2>2 DEF IInv, Spared, Expired
<1>11. Durable'
  <2> SUFFICES ASSUME HistorySuffices
               PROVE  Holds(catalog', delivery'.event) /\ AcknowledgedIsDurable'
    BY <1>0 DEF Durable
  <2>1. Holds(catalog, e)
    BY <1>0 DEF IInv, Durable, e
  <2>2. ASSUME NEW id \in AttemptIds PROVE Recorded(catalog, mailbox', job'[id], id)
    <3>1. Recorded(catalog, mailbox, job[id], id)
      BY DurableIsRecorded DEF IInv, Durable
    <3>2. \A kind : Taken(mailbox', kind, id) => Taken(mailbox, kind, id) \/ (e.kind = kind /\ e.id = id)
      <4> SUFFICES ASSUME NEW kind, Taken(mailbox', kind, id), NEW i \in DOMAIN mailbox,
                          mailbox[i].kind = kind, mailbox[i].id = id
                   PROVE  e.kind = kind /\ e.id = id
        BY DEF Taken
      <4>1. i = 1
        BY <1>3 DEF Taken
      <4> QED BY <1>0, <4>1
    <3>3. PICK a \in Known(catalog) :
            /\ a.id = e.id
            /\ e.kind = "Started" => a.github_job_id = JobOf(e.id) /\ a.runner_id = e.runner.id
            /\ e.kind = "Completed" => a.result = e.result \/ (e.runner = None /\ Out(a))
      BY <2>1 DEF Holds, Known
    <3>4. CASE e.kind = "Available" /\ id = e.id /\ job'[id].state \in {"acquired", "gone"}
      BY <3>3, <3>4 DEF Recorded
    <3>5. CASE job'[id] = job[id] /\ id # e.id
      BY <3>1, <3>2, <3>5 DEF Recorded
    <3>6. CASE job'[id] = job[id] /\ id = e.id /\ e.kind # "Available"
      <4>1. /\ e.kind = "Started" =>
                 job[id].runner # None /\ e.runner = [name |-> id, id |-> job[id].runner]
            /\ e.kind = "Completed" =>
                 /\ e.result = job[id].result
                 /\ e.runner = IF job[id].runner = None THEN None
                               ELSE [name |-> id, id |-> job[id].runner]
        BY <1>0, <3>6 DEF Truthful
      <4>2. e.kind = "Completed" /\ e.runner = None => job[id].runner = None
        <5>1. job[id].runner # None => [name |-> id, id |-> job[id].runner] \in RunnerReferences
          BY DEF IInv, Typed, Jobs, Option, RunnerReferences
        <5> QED BY <4>1, <5>1, RunnerAssumption
      <4>3. /\ e.kind = "Started" => a.github_job_id = JobOf(id) /\ a.runner_id = job[id].runner
            /\ e.kind = "Completed" =>
                 a.result = job[id].result \/ (job[id].runner = None /\ Out(a))
        BY <3>3, <3>6, <4>1, <4>2
      <4> QED BY <3>1, <3>2, <3>3, <3>6, <4>3 DEF Recorded
    <3> QED BY <1>1, <3>4, <3>5, <3>6
  <2>3. AcknowledgedIsDurable'
    BY <1>0, <2>2, DurableIsRecorded
  <2> QED BY <1>0, <2>1, <2>3
<1> QED
  BY <1>4, <1>5, <1>6, <1>7, <1>8, <1>9, <1>10, <1>11 DEF IInv

-----------------------------------------------------------------------------
(***************************************************************************)
(* Commands and the host: the catalog, the queue and the jobs stand.       *)
(***************************************************************************)
\* The types of what a command or the host changes.
HostTyped ==
  /\ runner \in [AttemptIds -> Option(RunnerIds)]
  /\ vm \in [AttemptIds -> Option(VmIdentities)]
  /\ cloning \subseteq AttemptIds /\ guest \subseteq AttemptIds
  /\ effects \in [AttemptIds -> [clones : Nat, jits : Nat, starts : Nat]]

\* What such a step preserves, the rest given.
LEMMA HostKeeps ==
  ASSUME IInv, UNCHANGED <<catalog, delivery, mailbox, job>>, now' \in Nat, now' >= now,
         HostTyped', Ownership', Position', Counted',
         \A id \in AttemptIds : effects'[id] = effects[id] \/ \E a \in Live(catalog) : a.id = id,
         pc' \in {"clone", "cloning"} => pc \in {"clone", "cloning"}
  PROVE  IInv'
<1>1. Typed'
  BY DEF IInv, Typed, HostTyped
<1>2. Fresh'
  <2>1. \A id \in AttemptIds :
          Untouched(id) => Untouched(id)' \/ \E a \in Live(catalog) : a.id = id
    BY DEF Untouched
  <2>2. HistorySuffices =>
          \A id \in AttemptIds :
            Untouched(id)' \/ \E a \in Live(catalog') \cup Past(catalog') : a.id = id
    BY <2>1 DEF IInv, Fresh
  <2>3. ASSUME Offers = {}
        PROVE  (/\ \A id \in AttemptIds : job[id].state \notin {"offered", "acquired"}
                /\ \A i \in DOMAIN mailbox : mailbox[i].kind = "Assigned" => i = 1
                /\ delivery # None /\ delivery.acknowledged =>
                     \A i \in DOMAIN mailbox : mailbox[i].kind # "Assigned"
                /\ \A id \in AttemptIds :
                     \/ job[id].state = "queued"
                     \/ delivery = None /\ mailbox # << >> /\ Head(mailbox) = Assigned(id)
                     => Untouched(id) /\ \A a \in Live(catalog) : a.id # id)'
    BY <2>1, <2>3 DEF IInv, Fresh
  <2> QED BY <2>2, <2>3 DEF Fresh
<1>3. Mail'
  BY DEF IInv, Mail, Truthful
<1>4. Spared'
  <2>1. \A a \in Live(catalog) : Expired(a) => now' > a.not_after
    <3>1. \A a \in Live(catalog) : a.not_after \in Nat
      BY DocumentsAreValid, EvidenceTypes, TimesAssumption DEF IInv, Typed, Sound, Attempts
    <3> QED BY <3>1 DEF Expired, IInv, Typed
  <2> QED BY <2>1 DEF IInv, Spared, Expired
<1>5. Durable'
  <2>1. HistorySuffices => AcknowledgedIsDurable'
    BY DurableIsRecorded DEF IInv, Durable
  <2> QED BY <2>1 DEF IInv, Durable
<1> QED
  BY <1>1, <1>2, <1>3, <1>4, <1>5 DEF IInv

\* The host's parts hold before every step.
LEMMA HostIsTyped ==
  ASSUME IInv
  PROVE  HostTyped /\ now \in Nat /\ \A a \in Live(catalog) : a.id \in AttemptIds
<1>1. \A a \in Live(catalog) : a.id \in AttemptIds
  BY DocumentsAreValid, EvidenceTypes DEF IInv, Typed, Sound, Attempts
<1> QED
  BY <1>1 DEF IInv, Typed, HostTyped

\* A controller that goes on to dispatch or to a delete, and one that returns.
LEMMA ReturnKeeps ==
  ASSUME IInv, PollIdle \/ ConfirmVm \/ Return
  PROVE  IInv'
<1>1. /\ UNCHANGED <<catalog, delivery, now, mailbox, job, runner, vm, cloning, guest, effects>>
      /\ pc' \in {"idle", "dispatch", "destroy"} /\ (pc' # "idle" => delivery = None)
  BY DEF PollIdle, ConfirmVm, Return, durable, service, host, Driving
<1>2. HostTyped /\ now \in Nat
  BY HostIsTyped
<1>3. HostTyped' /\ Ownership' /\ Counted'
  BY <1>1, <1>2 DEF HostTyped, IInv, Ownership, Counted, AtMostOnceEffects
<1>4. Position'
  BY <1>1 DEF Position
<1> QED
  BY <1>1, <1>2, <1>3, <1>4, HostKeeps

LEMMA TickKeeps ==
  ASSUME IInv, Tick
  PROVE  IInv'
<1>1. /\ UNCHANGED <<catalog, delivery, pc, mailbox, job, runner, vm, cloning, guest, effects>>
      /\ now' = now + 1
  BY DEF Tick, durable, service, host
<1>2. HostTyped /\ now \in Nat
  BY HostIsTyped
<1>3. HostTyped' /\ Ownership' /\ Counted' /\ Position'
  BY <1>1, <1>2 DEF HostTyped, IInv, Ownership, Counted, AtMostOnceEffects, Position
<1> QED
  BY <1>1, <1>2, <1>3, HostKeeps

\* A clone command is issued once, after its checkpoint.
LEMMA ExecuteCloneKeeps ==
  ASSUME IInv, ExecuteClone
  PROVE  IInv'
<1>1. /\ UNCHANGED <<catalog, delivery, now, mailbox, job, runner, vm, guest>>
      /\ cloning' = cloning \cup {attempt.id} /\ pc' = "cloning"
      /\ effects' = [effects EXCEPT ![attempt.id].clones = @ + 1]
      /\ Driving("clone", {"CloneStarted"}) /\ Typed
  BY DEF ExecuteClone, durable, service, IInv
<1>2. /\ pc = "clone" /\ delivery = None /\ attempt.phase = "CloneStarted"
      /\ Live(catalog) = {attempt} /\ attempt.id \in AttemptIds
  BY <1>1, Driven
<1>3. UnboundClone(attempt) /\ effects[attempt.id].clones = 0
  BY <1>2 DEF IInv, Position
<1>4. HostTyped /\ now \in Nat
  BY HostIsTyped
<1>5. /\ effects' \in [AttemptIds -> [clones : Nat, jits : Nat, starts : Nat]]
      /\ \A id \in AttemptIds : id # attempt.id => effects'[id] = effects[id]
      /\ effects'[attempt.id].clones = 1
      /\ effects'[attempt.id].jits = effects[attempt.id].jits
      /\ effects'[attempt.id].starts = effects[attempt.id].starts
  BY <1>1, <1>2, <1>3, <1>4 DEF HostTyped
<1>6. HostTyped'
  BY <1>1, <1>2, <1>4, <1>5 DEF HostTyped
<1>7. Ownership'
  BY <1>1, <1>2, <1>3 DEF IInv, Ownership
<1>8. Position'
  BY <1>1, <1>2 DEF Position
<1>9. Counted'
  <2>1. AtMostOnceEffects'
    BY <1>5 DEF IInv, Counted, AtMostOnceEffects
  <2> QED BY <1>1, <1>2, <1>5, <2>1 DEF IInv, Counted, PreClone
<1> QED
  BY <1>1, <1>2, <1>4, <1>5, <1>6, <1>7, <1>8, <1>9, HostKeeps

\* So is a JIT request.
LEMMA GenerateJitKeeps ==
  ASSUME IInv, GenerateJit
  PROVE  IInv'
<1>1. /\ UNCHANGED <<catalog, delivery, now, mailbox, job, vm, cloning, guest>>
      /\ \E r \in RunnerIds : runner' = [runner EXCEPT ![attempt.id] = r]
      /\ effects' = [effects EXCEPT ![attempt.id].jits = @ + 1] /\ pc' = "jitted"
      /\ Driving("jit", {"Registering", "Assigned"}) /\ Typed
  BY DEF GenerateJit, durable, host, IInv
<1>2. /\ pc = "jit" /\ delivery = None /\ attempt.phase \in {"Registering", "Assigned"}
      /\ Live(catalog) = {attempt} /\ attempt.id \in AttemptIds
  BY <1>1, Driven
<1>3. /\ attempt.jit_generation_started
      /\ effects[attempt.id].jits = 0 /\ effects[attempt.id].starts = 0
  BY <1>2 DEF IInv, Position
<1>4. HostTyped /\ now \in Nat
  BY HostIsTyped
<1>5. /\ effects' \in [AttemptIds -> [clones : Nat, jits : Nat, starts : Nat]]
      /\ \A id \in AttemptIds : id # attempt.id => effects'[id] = effects[id]
      /\ effects'[attempt.id].jits = 1
      /\ effects'[attempt.id].clones = effects[attempt.id].clones
      /\ effects'[attempt.id].starts = effects[attempt.id].starts
  BY <1>1, <1>2, <1>3, <1>4 DEF HostTyped
<1>r. /\ runner' \in [AttemptIds -> Option(RunnerIds)] /\ runner'[attempt.id] # None
      /\ \A id \in AttemptIds : id # attempt.id => runner'[id] = runner[id]
  BY <1>1, <1>2, <1>4, NoneAssumption DEF HostTyped, Option
<1>6. HostTyped'
  BY <1>1, <1>4, <1>5, <1>r DEF HostTyped
<1>7. Ownership'
  <2>1. Held(attempt)
    BY <1>2 DEF Held, Owned
  <2> QED BY <1>1, <1>2, <1>3, <1>r, <2>1 DEF IInv, Ownership
<1>8. Position'
  BY <1>1, <1>2, <1>3, <1>5, <1>r DEF Position
<1>9. Counted'
  <2>1. AtMostOnceEffects'
    BY <1>5 DEF IInv, Counted, AtMostOnceEffects
  <2> QED BY <1>1, <1>2, <1>3, <1>5, <2>1 DEF IInv, Counted
<1> QED
  BY <1>1, <1>2, <1>4, <1>5, <1>6, <1>7, <1>8, <1>9, HostKeeps

\* And the runner command.
LEMMA ExecuteRunnerKeeps ==
  ASSUME IInv, ExecuteRunner
  PROVE  IInv'
<1>1. /\ UNCHANGED <<catalog, delivery, now, mailbox, job, runner, vm, cloning>>
      /\ guest' = guest \cup {attempt.id} /\ vm[attempt.id] # None
      /\ effects' = [effects EXCEPT ![attempt.id].starts = @ + 1] /\ pc' = "running"
      /\ Driving("start", {"Registering", "Assigned"}) /\ Typed
  BY DEF ExecuteRunner, durable, service, IInv, Ready
<1>2. /\ pc = "start" /\ delivery = None /\ attempt.phase \in {"Registering", "Assigned"}
      /\ Live(catalog) = {attempt} /\ attempt.id \in AttemptIds
  BY <1>1, Driven
<1>3. attempt.runner_start_started /\ effects[attempt.id].starts = 0
  BY <1>2 DEF IInv, Position
<1>4. HostTyped /\ now \in Nat
  BY HostIsTyped
<1>5. /\ effects' \in [AttemptIds -> [clones : Nat, jits : Nat, starts : Nat]]
      /\ \A id \in AttemptIds : id # attempt.id => effects'[id] = effects[id]
      /\ effects'[attempt.id].starts = 1
      /\ effects'[attempt.id].clones = effects[attempt.id].clones
      /\ effects'[attempt.id].jits = effects[attempt.id].jits
  BY <1>1, <1>2, <1>3, <1>4 DEF HostTyped
<1>6. HostTyped'
  BY <1>1, <1>2, <1>4, <1>5 DEF HostTyped
<1>7. Ownership'
  <2>1. Held(attempt)
    BY <1>2 DEF Held, Owned
  <2> QED BY <1>1, <1>2, <1>3, <2>1 DEF IInv, Ownership
<1>8. Position'
  BY <1>1, <1>2 DEF Position
<1>9. Counted'
  <2>1. AtMostOnceEffects'
    BY <1>5 DEF IInv, Counted, AtMostOnceEffects
  <2>2. \A id \in AttemptIds : id \in guest' \/ job[id].state = "started" => effects'[id].starts # 0
    BY <1>1, <1>5 DEF IInv, Counted
  <2> QED BY <1>1, <1>2, <1>3, <1>5, <2>1, <2>2 DEF IInv, Counted
<1> QED
  BY <1>1, <1>2, <1>4, <1>5, <1>6, <1>7, <1>8, <1>9, HostKeeps

\* Destroying the VM and its guest, and removing the registration.
LEMMA DestructionKeeps ==
  ASSUME IInv, DestroyVm \/ RemoveRunner
  PROVE  IInv'
<1>1. /\ UNCHANGED <<catalog, delivery, now, mailbox, job, cloning, effects>> /\ pc' = "idle"
      /\ \/ /\ vm' = [vm EXCEPT ![attempt.id] = None] /\ guest' = guest \ {attempt.id}
            /\ runner' = runner
         \/ /\ vm' = vm /\ guest' = guest /\ runner' = [runner EXCEPT ![attempt.id] = None]
      /\ Driving(pc, Cleanup) /\ Typed
  BY DEF DestroyVm, RemoveRunner, Driving, durable, service, host, IInv
<1>2. attempt.id \in AttemptIds
  BY <1>1, Driven
<1>3. HostTyped /\ now \in Nat
  BY HostIsTyped
<1>4. /\ vm' \in [AttemptIds -> Option(VmIdentities)]
      /\ runner' \in [AttemptIds -> Option(RunnerIds)] /\ guest' \subseteq guest
      /\ \A id \in AttemptIds :
           /\ vm'[id] \in {vm[id], None} /\ runner'[id] \in {runner[id], None}
           /\ id \in guest' => vm'[id] = vm[id]
  BY <1>1, <1>2, <1>3 DEF HostTyped, Option
<1>5. HostTyped'
  BY <1>1, <1>3, <1>4 DEF HostTyped
<1>6. Ownership'
  BY <1>1, <1>4 DEF IInv, Ownership
<1>7. Position'
  BY <1>1, IdlePosition
<1>8. Counted'
  BY <1>1, <1>4 DEF IInv, Counted, AtMostOnceEffects
<1> QED
  BY <1>1, <1>3, <1>5, <1>6, <1>7, <1>8, HostKeeps

\* What happens on the host by itself.
LEMMA HostStepKeeps ==
  ASSUME IInv, CloneEnds \/ ReplaceVm \/ RunnerExits
  PROVE  IInv'
<1>1. HostTyped /\ now \in Nat
  BY HostIsTyped
<1>2. /\ UNCHANGED <<catalog, delivery, pc, now, mailbox, job, runner, effects>>
      /\ cloning' \subseteq cloning /\ guest' \subseteq guest
  BY DEF CloneEnds, ReplaceVm, RunnerExits, durable, service, host
<1>3. /\ vm' \in [AttemptIds -> Option(VmIdentities)]
      /\ \A id \in AttemptIds :
           \/ vm'[id] = vm[id]
           \/ vm'[id] # None /\ (id \in cloning \/ vm[id] # None)
  <2>1. CASE CloneEnds
    <3>1. PICK id \in cloning :
            \/ UNCHANGED vm
            \/ \E v \in VmIdentities : vm' = [vm EXCEPT ![id] = v]
      BY <2>1 DEF CloneEnds
    <3>2. id \in AttemptIds
      BY <1>1 DEF HostTyped
    <3>3. CASE UNCHANGED vm
      BY <1>1, <3>3 DEF HostTyped
    <3>4. ASSUME NEW v \in VmIdentities, vm' = [vm EXCEPT ![id] = v]
          PROVE  /\ vm' \in [AttemptIds -> Option(VmIdentities)]
                 /\ \A k \in AttemptIds :
                      vm'[k] = vm[k] \/ (vm'[k] # None /\ (k \in cloning \/ vm[k] # None))
      BY <1>1, <3>2, <3>4, NoneAssumption DEF HostTyped, Option
    <3> QED BY <3>1, <3>3, <3>4
  <2>2. CASE ReplaceVm
    <3>1. PICK id \in AttemptIds, v \in VmIdentities : vm[id] # None /\ vm' = [vm EXCEPT ![id] = v]
      BY <2>2 DEF ReplaceVm
    <3> QED BY <1>1, <3>1, NoneAssumption DEF HostTyped, Option
  <2>3. CASE RunnerExits
    BY <1>1, <2>3 DEF RunnerExits, HostTyped
  <2> QED BY <2>1, <2>2, <2>3
<1>4. HostTyped'
  BY <1>1, <1>2, <1>3 DEF HostTyped
<1>5. Ownership'
  <2>1. \A a : UnboundClone(a) => Held(a)
    BY DEF UnboundClone, Held, Owned
  <2> QED BY <1>2, <1>3, <2>1 DEF IInv, Ownership
<1>6. Position'
  BY <1>2 DEF IInv, Position
<1>7. Counted'
  BY <1>2 DEF IInv, Counted, AtMostOnceEffects
<1> QED
  BY <1>1, <1>2, <1>4, <1>5, <1>6, <1>7, HostKeeps

-----------------------------------------------------------------------------
(***************************************************************************)
(* The service: one job changes and one message says so.                   *)
(***************************************************************************)
\* The five things the service may say of a job.
Says(id, e, j) ==
  \/ /\ Offers # {} /\ job[id].state = "queued" /\ mailbox = << >> /\ delivery = None
     /\ e.kind = "Available" /\ j.state = "offered"
  \/ /\ job[id].state = "acquired" \/ (job[id].state = "queued" /\ mailbox = << >> /\ delivery = None)
     /\ e.kind = "Assigned" /\ e = Assigned(id) /\ j.state = "assigned"
  \/ /\ job[id].state = "assigned" /\ id \in guest /\ j.state = "started" /\ j.runner # None
     /\ e.kind = "Started" /\ e.runner = [name |-> id, id |-> j.runner]
  \/ /\ job[id].state = "started" /\ j.state = "completed" /\ j.runner = job[id].runner
     /\ e.kind = "Completed" /\ e.runner = [name |-> id, id |-> j.runner]
     /\ e.result = j.result /\ j.result # None /\ j.runner # None
  \/ /\ job[id].state \in {"acquired", "assigned"} /\ j.state = "completed" /\ j.runner = None
     /\ e.kind = "Completed" /\ e.runner = None
     /\ e.result = j.result /\ j.result # None

Sent(id, e, j) ==
  /\ id \in AttemptIds /\ e \in Events /\ e.id = id /\ j \in Jobs /\ Says(id, e, j)
  /\ mailbox' = Append(mailbox, e) /\ job' = [job EXCEPT ![id] = j]
  /\ runner' \in [AttemptIds -> Option(RunnerIds)]
  /\ \A k \in AttemptIds :
       runner'[k] = runner[k] \/ (runner'[k] = None /\ job[k].state = "started")
  /\ UNCHANGED <<catalog, delivery, pc, now, vm, cloning, guest, effects>>

\* Every step of the service is one of them.
LEMMA ServiceSends ==
  ASSUME IInv, OfferJob \/ AssignJob \/ StartJob \/ CompleteJob \/ CancelJob
  PROVE  \E id, e, j : Sent(id, e, j)
<1>0. /\ UNCHANGED <<catalog, delivery, pc, now, vm, cloning, guest, effects>>
      /\ runner \in [AttemptIds -> Option(RunnerIds)] /\ job \in [AttemptIds -> Jobs]
      /\ guest \subseteq AttemptIds
  BY DEF OfferJob, AssignJob, StartJob, CompleteJob, CancelJob, durable, host, IInv, Typed
<1>1. CASE OfferJob
  <2>1. PICK id \in AttemptIds :
          job[id].state = "queued" /\ Send(Available(id), Job("offered", None, None))
    BY <1>1, CoordinatorAssumption DEF OfferJob
  <2>2. /\ Offers # {} /\ mailbox = << >> /\ delivery = None /\ runner' = runner
    BY <1>1 DEF OfferJob, AdvertisesCapacity
  <2>3. Available(id) \in Events /\ Available(id).id = id /\ Available(id).kind = "Available"
    BY DEF Available, Events
  <2>4. Job("offered", None, None) \in Jobs /\ Job("offered", None, None).state = "offered"
    BY DEF Job, Jobs, Option
  <2>5. Says(id, Available(id), Job("offered", None, None))
    BY <2>1, <2>2, <2>3, <2>4 DEF Says
  <2>6. Sent(id, Available(id), Job("offered", None, None))
    BY <1>0, <2>1, <2>2, <2>3, <2>4, <2>5 DEF Sent, Send
  <2> QED BY <2>6
<1>2. CASE AssignJob
  <2>1. PICK id \in AttemptIds :
          /\ (job[id].state = "queued" /\ AdvertisesCapacity) \/ job[id].state = "acquired"
          /\ Send(Assigned(id), Job("assigned", None, None))
    BY <1>2 DEF AssignJob
  <2>2. runner' = runner
    BY <1>2 DEF AssignJob
  <2>3. Assigned(id) \in Events /\ Assigned(id).id = id /\ Assigned(id).kind = "Assigned"
    BY DEF Assigned, Events
  <2>4. Job("assigned", None, None) \in Jobs /\ Job("assigned", None, None).state = "assigned"
    BY DEF Job, Jobs, Option
  <2>5. Says(id, Assigned(id), Job("assigned", None, None))
    BY <2>1, <2>3, <2>4 DEF Says, AdvertisesCapacity
  <2>6. Sent(id, Assigned(id), Job("assigned", None, None))
    BY <1>0, <2>1, <2>2, <2>3, <2>4, <2>5 DEF Sent, Send
  <2> QED BY <2>6
<1>3. CASE StartJob
  <2>1. PICK id \in guest :
          /\ job[id].state = "assigned" /\ runner[id] # None
          /\ Send(Started(id, [name |-> id, id |-> runner[id]]), Job("started", runner[id], None))
    BY <1>3 DEF StartJob
  <2> DEFINE ref == [name |-> id, id |-> runner[id]]
             j == Job("started", runner[id], None)
  <2>2. runner' = runner /\ id \in AttemptIds /\ runner[id] \in RunnerIds
    BY <1>0, <1>3, <2>1 DEF StartJob, Option
  <2>3. ref \in RunnerReferences
    BY <2>2 DEF RunnerReferences
  <2>4. /\ Started(id, ref) \in Events /\ Started(id, ref).id = id
        /\ Started(id, ref).kind = "Started" /\ Started(id, ref).runner = ref
    BY <2>2, <2>3 DEF Started, Events
  <2>5. j \in Jobs /\ j.state = "started" /\ j.runner = runner[id]
    BY <2>2 DEF Job, Jobs, Option
  <2>6. Says(id, Started(id, ref), j)
    BY <2>1, <2>4, <2>5 DEF Says
  <2>7. Sent(id, Started(id, ref), j)
    BY <1>0, <2>1, <2>2, <2>4, <2>5, <2>6 DEF Sent, Send
  <2> QED BY <2>7
<1>4. CASE CompleteJob
  <2>1. PICK id \in AttemptIds, result \in Results :
          /\ job[id].state = "started"
          /\ Send(Completed(id, [name |-> id, id |-> job[id].runner], result),
                  Job("completed", job[id].runner, result))
          /\ runner' \in {runner, [runner EXCEPT ![id] = None]}
    BY <1>4 DEF CompleteJob
  <2> DEFINE ref == [name |-> id, id |-> job[id].runner]
             j == Job("completed", job[id].runner, result)
             e == Completed(id, ref, result)
  <2>2. job[id].runner # None /\ job[id].runner \in RunnerIds
    BY <1>0, <2>1 DEF IInv, Mail, Jobs, Option
  <2>3. ref \in RunnerReferences
    BY <2>2 DEF RunnerReferences
  <2>4. /\ e \in Events /\ e.id = id /\ e.kind = "Completed" /\ e.runner = ref /\ e.result = result
    BY <2>3 DEF Completed, Events
  <2>5. /\ j \in Jobs /\ j.state = "completed" /\ j.runner = job[id].runner
        /\ j.result = result /\ result # None
    BY <2>2, NoneAssumption DEF Job, Jobs, Option
  <2>6. Says(id, e, j)
    BY <2>1, <2>2, <2>4, <2>5 DEF Says
  <2>7. /\ runner' \in [AttemptIds -> Option(RunnerIds)]
        /\ \A k \in AttemptIds :
             runner'[k] = runner[k] \/ (runner'[k] = None /\ job[k].state = "started")
    BY <1>0, <2>1 DEF Option
  <2>8. Sent(id, e, j)
    BY <1>0, <2>1, <2>4, <2>5, <2>6, <2>7 DEF Sent, Send
  <2> QED BY <2>8
<1>5. CASE CancelJob
  <2> DEFINE j == Job("completed", None, Canceled)
  <2>1. PICK id \in AttemptIds :
          /\ job[id].state \in {"acquired", "assigned"}
          /\ Send(Completed(id, None, Canceled), j)
    BY <1>5 DEF CancelJob
  <2> DEFINE e == Completed(id, None, Canceled)
  <2>2. runner' = runner
    BY <1>5 DEF CancelJob
  <2>3. /\ e \in Events /\ e.id = id /\ e.kind = "Completed" /\ e.runner = None
        /\ e.result = Canceled
    BY CanceledAssumption DEF Completed, Events
  <2>4. /\ j \in Jobs /\ j.state = "completed" /\ j.runner = None
        /\ j.result = Canceled /\ Canceled # None
    BY CanceledAssumption, NoneAssumption DEF Job, Jobs, Option
  <2>5. Says(id, e, j)
    BY <2>1, <2>3, <2>4 DEF Says
  <2>6. Sent(id, e, j)
    BY <1>0, <2>1, <2>2, <2>3, <2>4, <2>5 DEF Sent, Send
  <2> QED BY <2>6
<1> QED
  BY <1>1, <1>2, <1>3, <1>4, <1>5

LEMMA SentKeeps ==
  ASSUME IInv, NEW id, NEW e, NEW j, Sent(id, e, j)
  PROVE  IInv'
<1>0. /\ id \in AttemptIds /\ e \in Events /\ e.id = id /\ j \in Jobs /\ Says(id, e, j)
      /\ mailbox' = Append(mailbox, e) /\ job' = [job EXCEPT ![id] = j]
      /\ runner' \in [AttemptIds -> Option(RunnerIds)]
      /\ \A k \in AttemptIds :
           runner'[k] = runner[k] \/ (runner'[k] = None /\ job[k].state = "started")
      /\ UNCHANGED <<catalog, delivery, pc, now, vm, cloning, guest, effects>>
  BY DEF Sent
<1>1. /\ job' \in [AttemptIds -> Jobs] /\ job'[id] = j /\ mailbox \in Seq(Events)
      /\ \A k \in AttemptIds : k # id => job'[k] = job[k]
  BY <1>0 DEF IInv, Typed
<1>2. /\ mailbox' \in Seq(Events) /\ mailbox' # << >>
      /\ \A i \in DOMAIN mailbox : i \in DOMAIN mailbox' /\ mailbox'[i] = mailbox[i]
      /\ \A i \in DOMAIN mailbox' : i \in DOMAIN mailbox \/ mailbox'[i] = e
      /\ \E i \in DOMAIN mailbox' : mailbox'[i] = e
      /\ mailbox # << >> => Head(mailbox') = Head(mailbox)
      /\ mailbox = << >> => Head(mailbox') = e /\ DOMAIN mailbox' = {1} /\ mailbox'[1] = e
  BY <1>0, <1>1, AppendExtends
<1>3. /\ j.state # "queued"
      /\ job[id].state \notin {"offered", "gone", "completed"}
      /\ j.state = "started" => id \in guest
      /\ j.state = "started" => j.runner # None
      /\ j.state = "completed" => j.result # None
  BY <1>0 DEF Says
<1>a. \A a \in Live(catalog) : a.id \in AttemptIds
  BY HostIsTyped
<1>4. Typed'
  BY <1>0, <1>1, <1>2 DEF IInv, Typed
<1>5. Ownership'
  <2>1. \A k \in AttemptIds : runner'[k] # None => runner[k] # None
    BY <1>0
  <2> QED BY <1>0, <2>1 DEF IInv, Ownership
<1>6. Position'
  <2>1. ASSUME pc = "jitted", NEW a \in Live(catalog) PROVE runner'[a.id] # None
    <3>1. runner[a.id] # None /\ effects[a.id].starts = 0
      BY <2>1 DEF IInv, Position
    <3>2. job[a.id].state # "started"
      BY <1>a, <3>1 DEF IInv, Counted
    <3> QED BY <1>0, <1>a, <3>1, <3>2
  <2> QED BY <1>0, <2>1 DEF IInv, Position
<1>7. Counted'
  <2>1. \A k \in AttemptIds : k \in guest \/ job'[k].state = "started" => effects[k].starts # 0
    BY <1>1, <1>3 DEF IInv, Counted
  <2>2. AtMostOnceEffects'
    BY <1>0 DEF IInv, Counted, AtMostOnceEffects
  <2> QED BY <1>0, <2>1, <2>2 DEF IInv, Counted
<1>8. Fresh'
  <2>1. \A k : Untouched(k)' <=> Untouched(k)
    BY <1>0 DEF Untouched
  <2>2. HistorySuffices =>
          \A k \in AttemptIds :
            Untouched(k)' \/ \E a \in Live(catalog') \cup Past(catalog') : a.id = k
    BY <1>0, <2>1 DEF IInv, Fresh
  <2>3. ASSUME Offers = {}
        PROVE  (/\ \A k \in AttemptIds : job[k].state \notin {"offered", "acquired"}
                /\ \A i \in DOMAIN mailbox : mailbox[i].kind = "Assigned" => i = 1
                /\ delivery # None /\ delivery.acknowledged =>
                     \A i \in DOMAIN mailbox : mailbox[i].kind # "Assigned"
                /\ \A k \in AttemptIds :
                     \/ job[k].state = "queued"
                     \/ delivery = None /\ mailbox # << >> /\ Head(mailbox) = Assigned(k)
                     => Untouched(k) /\ \A a \in Live(catalog) : a.id # k)'
    <3>1. /\ j.state \notin {"offered", "acquired"}
          /\ e.kind = "Assigned" =>
               job[id].state = "queued" /\ mailbox = << >> /\ delivery = None /\ e = Assigned(id)
      BY <1>0, <2>3 DEF Says, IInv, Fresh
    <3>2. \A k \in AttemptIds : job'[k].state \notin {"offered", "acquired"}
      BY <1>1, <2>3, <3>1 DEF IInv, Fresh
    <3>3. \A i \in DOMAIN mailbox' : mailbox'[i].kind = "Assigned" => i = 1
      BY <1>2, <2>3, <3>1 DEF IInv, Fresh
    <3>4. delivery # None /\ delivery.acknowledged =>
            \A i \in DOMAIN mailbox' : mailbox'[i].kind # "Assigned"
      BY <1>2, <2>3, <3>1 DEF IInv, Fresh
    <3>5. ASSUME NEW k \in AttemptIds,
                 \/ job'[k].state = "queued"
                 \/ delivery = None /\ Head(mailbox') = Assigned(k)
          PROVE  Untouched(k) /\ \A a \in Live(catalog) : a.id # k
      <4>1. CASE job'[k].state = "queued"
        BY <1>1, <1>3, <2>3, <4>1 DEF IInv, Fresh
      <4>2. CASE delivery = None /\ Head(mailbox') = Assigned(k) /\ mailbox # << >>
        BY <1>2, <2>3, <4>2 DEF IInv, Fresh
      <4>3. CASE delivery = None /\ Head(mailbox') = Assigned(k) /\ mailbox = << >>
        <5>1. e = Assigned(k)
          BY <1>2, <4>3
        <5>2. e.kind = "Assigned" /\ k = id
          BY <1>0, <5>1 DEF Assigned
        <5> QED BY <2>3, <3>1, <5>2 DEF IInv, Fresh
      <4> QED BY <3>5, <4>1, <4>2, <4>3
    <3> QED BY <1>0, <2>1, <3>2, <3>3, <3>4, <3>5
  <2> QED BY <2>2, <2>3 DEF Fresh
<1>9. Mail'
  <2>1. ASSUME NEW i \in DOMAIN mailbox' PROVE Truthful(i)'
    <3>1. CASE i \in DOMAIN mailbox
      <4>1. Truthful(i) /\ mailbox'[i] = mailbox[i] /\ mailbox[i].id \in AttemptIds
        BY <1>1, <1>2, <3>1 DEF IInv, Mail, Events
      <4>2. CASE mailbox[i].id # id
        BY <1>1, <4>1, <4>2 DEF Truthful
      <4>3. CASE mailbox[i].id = id
        <5>1. mailbox[i].kind \in {"Assigned", "Started"}
          <6>1. mailbox[i] \in Events
            BY <1>1, <3>1
          <6>2. mailbox[i].kind \in {"Available", "Assigned", "Started", "Completed"}
            BY <6>1 DEF Events
          <6>3. mailbox[i].kind \notin {"Available", "Completed"}
            BY <1>3, <4>1, <4>3 DEF Truthful
          <6> QED BY <6>2, <6>3
        <5>2. mailbox[i].kind = "Started" =>
                j.state = "completed" /\ j.runner = job[id].runner /\ job[id].runner # None
          BY <1>0, <4>1, <4>3 DEF Truthful, Says
        <5> QED BY <1>1, <1>3, <4>1, <4>3, <5>1, <5>2 DEF Truthful
      <4> QED BY <4>2, <4>3
    <3>2. CASE i \notin DOMAIN mailbox
      <4>1. mailbox'[i] = e
        BY <1>2, <3>2
      <4>2. e.kind = "Available" => i = 1 /\ j.state = "offered"
        BY <1>0, <1>2 DEF Says
      <4>3. /\ e.kind = "Started" =>
                 /\ j.state \in {"started", "completed"} /\ j.runner # None
                 /\ e.runner = [name |-> id, id |-> j.runner]
            /\ e.kind = "Completed" =>
                 /\ j.state = "completed" /\ e.result = j.result
                 /\ e.runner = IF j.runner = None THEN None ELSE [name |-> id, id |-> j.runner]
        BY <1>0 DEF Says
      <4> QED BY <1>0, <1>1, <1>3, <4>1, <4>2, <4>3 DEF Truthful
    <3> QED BY <3>1, <3>2
  <2>2. \A k \in AttemptIds :
          /\ job'[k].state = "started" => job'[k].runner # None
          /\ job'[k].state = "completed" => job'[k].result # None
    BY <1>1, <1>3 DEF IInv, Mail
  <2>3. delivery # None /\ ~delivery.acknowledged =>
          mailbox' # << >> /\ delivery.event = Head(mailbox')
    BY <1>2 DEF IInv, Mail
  <2> QED BY <1>0, <2>1, <2>2, <2>3 DEF Mail
<1>10. Spared'
  <2>1. \A k \in AttemptIds : job[k].state = "completed" => job'[k].state = "completed"
    BY <1>1, <1>3
  <2> QED BY <1>0, <1>a, <2>1 DEF IInv, Spared, Expired
<1>11. Durable'
  <2> SUFFICES ASSUME HistorySuffices PROVE Durable'
    BY DEF Durable
  <2>1. ASSUME NEW k \in AttemptIds PROVE Recorded(catalog, mailbox', job'[k], k)
    <3>1. Recorded(catalog, mailbox, job[k], k)
      BY DurableIsRecorded DEF IInv, Durable
    <3>2. \A kind : Taken(mailbox', kind, k) => Taken(mailbox, kind, k)
      BY <1>2 DEF Taken
    <3>3. CASE k # id
      BY <1>1, <3>1, <3>2, <3>3 DEF Recorded
    <3>4. CASE k = id
      <4>1. ~Taken(mailbox', e.kind, id)
        BY <1>0, <1>2 DEF Taken
      <4> QED BY <1>0, <1>1, <3>1, <3>2, <3>4, <4>1 DEF Recorded, Says
    <3> QED BY <3>3, <3>4
  <2>2. AcknowledgedIsDurable'
    BY <1>0, <2>1, DurableIsRecorded
  <2>3. ASSUME pc \in {"clone", "cloning"}, NEW a \in Live(catalog), job'[a.id].state = "completed"
        PROVE  \E i \in DOMAIN mailbox' : mailbox'[i].kind = "Completed" /\ mailbox'[i].id = a.id
    <3>1. CASE a.id = id
      <4>1. e.kind = "Completed"
        BY <1>0, <1>1, <2>3, <3>1 DEF Says
      <4> QED BY <1>0, <1>2, <3>1, <4>1
    <3>2. CASE a.id # id
      <4>1. PICK i \in DOMAIN mailbox : mailbox[i].kind = "Completed" /\ mailbox[i].id = a.id
        BY <1>1, <1>a, <2>3, <3>2 DEF IInv, Durable
      <4> QED BY <1>2, <4>1
    <3> QED BY <3>1, <3>2
  <2>4. delivery # None => Holds(catalog, delivery.event)
    BY DEF IInv, Durable
  <2> QED BY <1>0, <2>2, <2>3, <2>4 DEF Durable
<1> QED
  BY <1>4, <1>5, <1>6, <1>7, <1>8, <1>9, <1>10, <1>11 DEF IInv

-----------------------------------------------------------------------------
(***************************************************************************)
(* The invariant, and what it gives.                                       *)
(***************************************************************************)
\* The constants the theorems range over: any finite or infinite set of jobs,
\* as long as deadlines are times, a fence is not None and, when the service
\* offers jobs, history is long enough to remember them.
Premises == DeadlinesAreTimes /\ FenceIsSome /\ OffersAreRemembered

LEMMA InitInvariant == Init => IInv
<1> SUFFICES ASSUME Init PROVE IInv
  OBVIOUS
<1>0. /\ catalog = empty /\ delivery = None /\ pc = "idle" /\ now = 0 /\ mailbox = << >>
      /\ job = [id \in AttemptIds |-> Job("queued", None, None)]
      /\ runner = [id \in AttemptIds |-> None] /\ vm = [id \in AttemptIds |-> None]
      /\ cloning = {} /\ guest = {}
      /\ effects = [id \in AttemptIds |-> [clones |-> 0, jits |-> 0, starts |-> 0]]
  BY DEF Init
<1>1. Sound(catalog) /\ Live(catalog) = {}
  <2>1. Sound(catalog)
    BY <1>0, EmptyIsCatalog DEF Sound
  <2>2. catalog.active = << >>
    BY <1>0 DEF empty
  <2> QED BY <2>1, <2>2 DEF Live, Range
<1>2. /\ mailbox \in Seq(Events) /\ DOMAIN mailbox = {}
  BY <1>0
<1>3. \A id \in AttemptIds : job[id] \in Jobs /\ job[id].state = "queued"
  BY <1>0 DEF Job, Jobs, Option
<1>4. job \in [AttemptIds -> Jobs]
  BY <1>0, <1>3
<1>5. /\ runner \in [AttemptIds -> Option(RunnerIds)] /\ vm \in [AttemptIds -> Option(VmIdentities)]
      /\ effects \in [AttemptIds -> [clones : Nat, jits : Nat, starts : Nat]]
      /\ \A id \in AttemptIds : vm[id] = None /\ runner[id] = None
      /\ \A id \in AttemptIds : Untouched(id)
  BY <1>0 DEF Option, Untouched
<1>6. Typed
  BY <1>0, <1>1, <1>2, <1>4, <1>5 DEF Typed
<1>7. Ownership /\ Position
  BY <1>0, <1>5 DEF Ownership, Position
<1>8. Counted
  <2>1. \A id \in AttemptIds : effects[id].clones = 0 /\ effects[id].jits = 0 /\ effects[id].starts = 0
    BY <1>5 DEF Untouched
  <2> QED BY <1>0, <1>1, <1>3, <2>1 DEF Counted, AtMostOnceEffects
<1>9. Fresh
  BY <1>0, <1>1, <1>2, <1>3, <1>5 DEF Fresh
<1>10. Mail /\ Spared
  BY <1>0, <1>1, <1>2, <1>3 DEF Mail, Spared
<1>11. Durable
  <2>1. \A id \in AttemptIds : Recorded(catalog, mailbox, job[id], id)
    BY <1>3 DEF Recorded
  <2> QED BY <1>0, <2>1, DurableIsRecorded DEF Durable
<1> QED
  BY <1>6, <1>7, <1>8, <1>9, <1>10, <1>11 DEF IInv

LEMMA NextInvariant ==
  ASSUME Premises, IInv, [Next]_vars
  PROVE  IInv'
<1>1. CASE Reconcile \/ Acknowledge \/ Settle
  BY <1>1, ReconcileKeeps, AcknowledgeKeeps, SettleKeeps DEF Premises
<1>2. CASE PollIdle \/ ConfirmVm \/ Return
  BY <1>2, ReturnKeeps
<1>3. CASE AuthorizeClone \/ ExpireBeforeClone \/ CompleteUnprovisioned \/ RetireComplete
  BY <1>3, ReservationOperations, RetireCompleteKeeps
<1>4. CASE CheckpointClone \/ ExecuteClone \/ BindVmIdentity \/ CheckpointRegistration
  BY <1>4, CheckpointCloneKeeps, ExecuteCloneKeeps, BindVmIdentityKeeps,
     CheckpointRegistrationKeeps
<1>5. CASE RecoverRegistration \/ CheckpointJit \/ GenerateJit \/ RecordRegistration
  BY <1>5, RegistrationKeeps, CheckpointJitKeeps, GenerateJitKeeps
<1>6. CASE CheckpointStart \/ ExecuteRunner
  BY <1>6, CheckpointStartKeeps, ExecuteRunnerKeeps
<1>7. CASE DeadlineCleanup \/ BeginCleanup \/ DestroyVm \/ AdvanceCleanup \/ RemoveRunner
  BY <1>7, CleanupOperations, DestructionKeeps, AdvanceCleanupKeeps
<1>8. CASE Tick \/ CloneEnds \/ ReplaceVm \/ RunnerExits
  BY <1>8, TickKeeps, HostStepKeeps
<1>9. CASE OfferJob \/ AssignJob \/ StartJob \/ CompleteJob \/ CancelJob
  <2>1. PICK id, e, j : Sent(id, e, j)
    BY <1>9, ServiceSends
  <2> QED BY <2>1, SentKeeps
<1>10. CASE UNCHANGED vars
  <2>1. UNCHANGED <<catalog, delivery, pc, now, mailbox, job, runner, vm, cloning, guest, effects>>
    BY <1>10 DEF vars
  <2>2. HostTyped /\ now \in Nat
    BY HostIsTyped
  <2>3. HostTyped' /\ Ownership' /\ Counted' /\ Position'
    BY <2>1, <2>2 DEF HostTyped, IInv, Ownership, Counted, AtMostOnceEffects, Position
  <2> QED BY <2>1, <2>2, <2>3, HostKeeps
<1> QED
  BY <1>1, <1>2, <1>3, <1>4, <1>5, <1>6, <1>7, <1>8, <1>9, <1>10
     DEF Next, Deliveries, Operations, World

\* The invariant holds in every state of every behaviour of the coordinator.
THEOREM CoordinatorInvariant ==
  ASSUME Premises
  PROVE  Spec => []IInv
<1>1. Init => IInv
  BY InitInvariant
<1>2. IInv /\ [Next]_vars => IInv'
  BY NextInvariant
<1> QED
  BY <1>1, <1>2, PTL DEF Spec

\* Each clone command, JIT request and runner command is issued at most once
\* for an attempt, through every crash between a checkpoint and its command,
\* every lost answer and every redelivered message.
THEOREM EffectsAtMostOnce ==
  ASSUME Premises
  PROVE  Spec => []AtMostOnceEffects
<1>1. IInv => AtMostOnceEffects
  BY DEF IInv, Counted
<1> QED
  BY <1>1, CoordinatorInvariant, PTL

\* Every VM, clone command, registration and guest has an owner in the catalog
\* that recorded the step that made it and still holds capacity.
THEOREM WorkersHaveOwners ==
  ASSUME Premises
  PROVE  Spec => []WorkersAreOwned
<1>1. ASSUME IInv PROVE WorkersAreOwned
  <2> SUFFICES ASSUME NEW id \in AttemptIds
               PROVE  LET holds(P(_)) == \E a \in find_active(catalog, id) :
                                           a.phase # "Complete" /\ P(a) IN
                      /\ id \in cloning \/ vm[id] # None =>
                           holds(LAMBDA a : has_clone_started_history(a))
                      /\ runner[id] # None => holds(LAMBDA a : a.jit_generation_started)
                      /\ id \in guest =>
                           holds(LAMBDA a : a.runner_start_started /\ vm[id] # None)
    BY DEF WorkersAreOwned
  <2>1. \A a \in Live(catalog) :
          (UnboundClone(a) => Held(a)) /\ (Held(a) => a.phase # "Complete" /\ has_clone_started_history(a))
    <3>1. Live(catalog) \subseteq ValidAttempts
      BY <1>1, DocumentsAreValid DEF IInv, Typed, Sound
    <3>2. ASSUME NEW a \in ValidAttempts, Held(a) PROVE has_clone_started_history(a)
      BY <3>2, HistoryShape DEF Held, Owned, Cleanup
    <3> QED BY <3>1, <3>2 DEF UnboundClone, Held, Owned, Cleanup
  <2>2. \A a : a \in find_active(catalog, id) <=> a \in Live(catalog) /\ a.id = id
    BY DEF find_active, Live
  <2>3. id \in cloning \/ vm[id] # None =>
          \E a \in find_active(catalog, id) : a.phase # "Complete" /\ has_clone_started_history(a)
    BY <1>1, <2>1, <2>2 DEF IInv, Ownership
  <2>4. runner[id] # None =>
          \E a \in find_active(catalog, id) : a.phase # "Complete" /\ a.jit_generation_started
    BY <1>1, <2>1, <2>2 DEF IInv, Ownership
  <2>5. id \in guest =>
          \E a \in find_active(catalog, id) :
            a.phase # "Complete" /\ a.runner_start_started /\ vm[id] # None
    BY <1>1, <2>1, <2>2 DEF IInv, Ownership
  <2> QED BY <2>3, <2>4, <2>5
<1> QED
  BY <1>1, CoordinatorInvariant, PTL

\* What every message said before it was acknowledged is in the catalog, when
\* history remembers every attempt.
THEOREM AcknowledgedIsRecorded ==
  ASSUME Premises, HistorySuffices
  PROVE  Spec => []AcknowledgedIsDurable
<1>1. IInv => AcknowledgedIsDurable
  BY DEF IInv, Durable
<1> QED
  BY <1>1, CoordinatorInvariant, PTL

\* Only DestroyVm makes a VM go, and only one under the name of the attempt.
LEMMA VmGoesByDestruction ==
  ASSUME IInv, [Next]_vars, NEW id \in AttemptIds, vm[id] # None, vm'[id] = None
  PROVE  /\ pc = "destroy" /\ attempt \in find_active(catalog, id)
         /\ attempt.phase \in Cleanup /\ Live(catalog) = {attempt} /\ attempt.id = id
<1>1. vm \in [AttemptIds -> Option(VmIdentities)] /\ cloning \subseteq AttemptIds /\ Typed
  BY DEF IInv, Typed
<1>2. vm' # vm
  OBVIOUS
<1>3. CloneEnds \/ ReplaceVm \/ DestroyVm
  BY <1>2 DEF vars, Next, Deliveries, Operations, World, Reconcile, Acknowledge, Settle,
     PollIdle, AuthorizeClone, ExpireBeforeClone, CheckpointClone, ExecuteClone, BindVmIdentity,
     CheckpointRegistration, RecoverRegistration, CheckpointJit, GenerateJit, RecordRegistration,
     CheckpointStart, ExecuteRunner, DeadlineCleanup, BeginCleanup, CompleteUnprovisioned,
     RetireComplete, ConfirmVm, AdvanceCleanup, RemoveRunner, Return, Tick, RunnerExits, OfferJob,
     AssignJob, StartJob, CompleteJob, CancelJob, host
<1>4. ~CloneEnds /\ ~ReplaceVm
  <2>1. ASSUME NEW k \in AttemptIds, NEW v \in VmIdentities, vm' = [vm EXCEPT ![k] = v] PROVE FALSE
    BY <1>1, <2>1, NoneAssumption
  <2> QED BY <1>1, <1>2, <2>1 DEF CloneEnds, ReplaceVm
<1>5. /\ Driving("destroy", Cleanup) /\ pc = "destroy" /\ vm' = [vm EXCEPT ![attempt.id] = None]
  BY <1>3, <1>4 DEF DestroyVm, Driving
<1>6. attempt.phase \in Cleanup /\ Live(catalog) = {attempt} /\ attempt.id \in AttemptIds
  BY <1>1, <1>5, Driven
<1>7. id = attempt.id
  BY <1>1, <1>5, <1>6
<1> QED
  BY <1>5, <1>6, <1>7 DEF find_active, Live

\* Only a tick that finds the bound VM under the name gets as far as a delete.
LEMMA DeleteIsConfirmed ==
  ASSUME IInv, [Next]_vars, pc # "destroy", pc' = "destroy"
  PROVE  Live(catalog) = {attempt} /\ attempt.vm_identity = vm[attempt.id]
<1>1. ConfirmVm
  BY DEF vars, Next, Deliveries, Operations, World, Reconcile, Acknowledge, Settle,
     PollIdle, AuthorizeClone, ExpireBeforeClone, CheckpointClone, ExecuteClone, BindVmIdentity,
     CheckpointRegistration, RecoverRegistration, CheckpointJit, GenerateJit, RecordRegistration,
     CheckpointStart, ExecuteRunner, DeadlineCleanup, BeginCleanup, CompleteUnprovisioned,
     RetireComplete, DestroyVm, AdvanceCleanup, RemoveRunner, Return, Tick, CloneEnds, ReplaceVm,
     RunnerExits, OfferJob, AssignJob, StartJob, CompleteJob, CancelJob
<1>2. Driving("dispatch", Cleanup) /\ Ready(attempt) /\ Typed
  BY <1>1 DEF ConfirmVm, IInv
<1> QED
  BY <1>2, Driven DEF Ready

\* A VM that replaced the bound one under its name is deleted only by a command
\* that was under way when it came.
THEOREM ForeignVmStays ==
  ASSUME Premises
  PROVE  Spec => ForeignVmIsSpared
<1>1. ASSUME IInv, [Next]_vars
      PROVE  [\A id \in AttemptIds :
                /\ vm[id] # None /\ \A a \in find_active(catalog, id) : a.vm_identity # vm[id]
                /\ vm'[id] = None \/ pc' = "destroy"
                => pc = "destroy"]_vars
  <2> SUFFICES ASSUME NEW id \in AttemptIds, vm[id] # None,
                      \A a \in find_active(catalog, id) : a.vm_identity # vm[id],
                      vm'[id] = None \/ pc' = "destroy"
               PROVE  pc = "destroy"
    OBVIOUS
  <2>1. PICK a \in Live(catalog) : a.id = id
    BY <1>1 DEF IInv, Ownership
  <2>2. a \in find_active(catalog, id)
    BY <2>1 DEF find_active, Live
  <2>3. CASE vm'[id] = None
    BY <1>1, <2>3, VmGoesByDestruction
  <2>4. CASE pc' = "destroy"
    BY <1>1, <2>1, <2>2, <2>4, DeleteIsConfirmed
  <2> QED BY <2>3, <2>4
<1> QED
  BY <1>1, CoordinatorInvariant, PTL DEF Spec, ForeignVmIsSpared

\* The VM of a job that runs in its guest goes only past the deadline.
THEOREM RunningJobStays ==
  ASSUME Premises
  PROVE  Spec => RunningJobIsSpared
<1>1. ASSUME IInv, [Next]_vars
      PROVE  [\A id \in guest :
                job[id].state = "started" /\ vm[id] # None /\ vm'[id] = None =>
                  \E a \in find_active(catalog, id) : Expired(a)]_vars
  <2> SUFFICES ASSUME NEW id \in guest, job[id].state = "started", vm[id] # None, vm'[id] = None
               PROVE  \E a \in find_active(catalog, id) : Expired(a)
    OBVIOUS
  <2>1. id \in AttemptIds
    BY <1>1 DEF IInv, Typed
  <2>2. /\ attempt \in find_active(catalog, id) /\ attempt.phase \in Cleanup
        /\ Live(catalog) = {attempt} /\ attempt.id = id
    BY <1>1, <2>1, VmGoesByDestruction
  <2>3. attempt.runner_start_started
    BY <1>1, <2>1, <2>2 DEF IInv, Ownership
  <2>4. Expired(attempt)
    BY <1>1, <2>2, <2>3 DEF IInv, Spared, Ending
  <2> QED BY <2>2, <2>4
<1> QED
  BY <1>1, CoordinatorInvariant, PTL DEF Spec, RunningJobIsSpared

=============================================================================
