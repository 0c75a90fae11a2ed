----------------------- MODULE PairedPublicationProofs -----------------------
(***************************************************************************)
(* What the private store's paired publication promises for every catalog  *)
(* bound, every set of messages and every interleaving of crashes, errors  *)
(* and power losses: current documents are whole, what returned is         *)
(* durable, an interrupted transaction is finished or undone by the next   *)
(* open, and the durable directory is one catalog and one fence that       *)
(* change together.                                                        *)
(***************************************************************************)
EXTENDS PairedPublication, DisposableAttemptLemmas

-----------------------------------------------------------------------------
(***************************************************************************)
(* Documents.                                                              *)
(***************************************************************************)
\* A recovery document the store may publish.
Doc(r) == r \in RecoveryDocuments /\ validate_recovery(r) /\ Sound(r.catalog)

IsPrepared(r) == r.phase.name = "SettlementPrepared"

\* A catalog and the fence that stands over it, with nothing under way.
Good(c, f) == Sound(c) /\ (f = None \/ (Doc(f) /\ f.catalog = c /\ ~ IsPrepared(f)))

\* The documents a transaction may stage: a fence that a message puts up or
\* resolves, a successor, and the intent to settle.
Fencing(c, f, r) ==
  IF f = None THEN \E m \in Deliveries, t \in ObservationTimes : r \in ReconciledFences(m, c, t)
  ELSE \E m \in Deliveries : r \in ResolvedFences(f, m, c)

Advancing(f, r) == f # None /\ r \in Advances(f) /\ exact_recovery_successor(f, r)

Single(c, f, r) == r.catalog = c /\ (Fencing(c, f, r) \/ Advancing(f, r))

Pair(c, f, r) == r.catalog # c /\ Fencing(c, f, r)

Settles(c, f, r) ==
  /\ f # None /\ IsPrepared(r) /\ r.phase.target \in SettledCatalogs(f, c)
  /\ r \in prepare_settlement(f, c, r.phase.target)

\* A step of ScaleSetDeliveryFence, or none.
FenceMoves(c, f, d, g) ==
  \/ d = c /\ g = f
  \/ /\ f = None /\ \E m \in Deliveries, t \in ObservationTimes : g \in ReconciledFences(m, c, t)
     /\ d = g.catalog
  \/ f # None /\ d = c /\ g \in Advances(f)
  \/ f # None /\ (\E m \in Deliveries : g \in ResolvedFences(f, m, c)) /\ d = g.catalog
  \/ f # None /\ g = None /\ d \in SettledCatalogs(f, c)
  \/ f = None /\ g = None /\ d \in OrdinarySuccessors(c)

-----------------------------------------------------------------------------
(***************************************************************************)
(* Directories: the catalog c, its stage x, the fence f and its stage y.   *)
(***************************************************************************)
Stages == {"catalogStage", "deliveryStage"}

IsDirectory(d) == d = [n \in Names |-> d[n]]

\* What a transaction that has not taken effect leaves beside a good pair.
Staged(c, x, f, y) ==
  \/ x = None /\ y \in {None, Torn}
  \/ x = None /\ Doc(y) /\ (Single(c, f, y) \/ Settles(c, f, y))
  \/ Doc(y) /\ Pair(c, f, y) /\ x \in {None, Torn, y.catalog}
  \/ Doc(y) /\ Settles(c, f, y) /\ y.phase.target # c /\ x \in {None, Torn, y.phase.target}
  \/ y = None /\ x = Torn
  \/ y = None /\ f = None /\ x \in OrdinarySuccessors(c)
  \/ y = None /\ f # None /\ x # c

Resting(c, x, f, y) == Good(c, f) /\ Staged(c, x, f, y)

\* The catalog of a pair is published and its fence is not.
Ahead(c, x, f, y) ==
  /\ x = None /\ Doc(y) /\ ~ IsPrepared(y) /\ c = y.catalog
  /\ IF f = None THEN y.phase = Reconciled /\ y.revision = 1 /\ y.prior_catalog # c
     ELSE Doc(f) /\ ~ IsPrepared(f) /\ f.catalog # c /\ is_lifecycle_resolution_of(y, f)

\* The intent to settle is current.
Decided(c, x, f, y) ==
  /\ y = None /\ Doc(f) /\ IsPrepared(f)
  /\ Sound(f.phase.target) /\ f.phase.target \in SettledCatalogs(f, f.catalog)
  /\ \/ c = f.catalog /\ (x = None \/ (f.phase.target # c /\ x \in {Torn, f.phase.target}))
     \/ c = f.phase.target /\ x = None

Shape(d, P(_, _, _, _)) == P(d["catalog"], d["catalogStage"], d["delivery"], d["deliveryStage"])

Legal(d) ==
  IsDirectory(d) /\ (Shape(d, Resting) \/ Shape(d, Ahead) \/ Shape(d, Decided))

\* What the abstract catalog and fence may do when e becomes durable after d.
AbsStep(d, e) == FenceMoves(CatalogOf(d), FenceOf(d), CatalogOf(e), FenceOf(e))

\* e may be found where d was durable, and shows the same pair.
Follows(d, e) == Legal(e) /\ AbsStep(d, e)
Beside(d, e) == Legal(e) /\ CatalogOf(e) = CatalogOf(d) /\ FenceOf(e) = FenceOf(d)

\* Only stages are torn, and a fence's stage only while it stands alone.
DirtyFits(d, ns) ==
  /\ ns \subseteq Stages /\ \A n \in ns : d[n] # None
  /\ "deliveryStage" \in ns => d["catalogStage"] = None /\ ~ Shape(d, Ahead)

\* An error may remove the stages that are guarded: a fence's stage only while
\* no catalog depends on it.
Cleanable(d, ns) ==
  /\ ns \subseteq Stages
  /\ "deliveryStage" \in ns /\ d["deliveryStage"] \notin {None, Torn} =>
       \/ IsPrepared(d["deliveryStage"])
       \/ d["catalogStage"] = None /\ ~ Shape(d, Ahead)

Tear(d, ns) == [n \in Names |-> IF n \in ns THEN Torn ELSE d[n]]
Torns(d, ns) == {Tear(d, t) : t \in SUBSET ns}

Edit(d, n, k) == [d EXCEPT ![n] = k]
Moved(d, n, to) == [d EXCEPT ![to] = d[n], ![n] = None]

Clean(c, x, f, y) == Good(c, f) /\ x = None /\ y = None
PairStaged(c, x, f, y) == Good(c, f) /\ Doc(y) /\ Pair(c, f, y) /\ x \in {None, y.catalog}
SingleStaged(c, x, f, y) == Good(c, f) /\ Doc(y) /\ Single(c, f, y) /\ x = None
OrdinaryStaged(c, x, f, y) == Good(c, f) /\ f = None /\ y = None /\ x \in OrdinarySuccessors(c)
ChangeStaged(c, x, f, y) ==
  /\ Good(c, f) /\ Doc(y) /\ Settles(c, f, y) /\ y.phase.target # c
  /\ x \in {None, y.phase.target}
SameStaged(c, x, f, y) ==
  Good(c, f) /\ Doc(y) /\ Settles(c, f, y) /\ y.phase.target = c /\ x = None

-----------------------------------------------------------------------------
(***************************************************************************)
(* The scripts.  A plan is a script that is safe to run from a durable     *)
(* directory b whose stages ns are unsynchronized and as are guarded.      *)
(***************************************************************************)
SyncC == SyncFile("catalogStage")
SyncD == SyncFile("deliveryStage")
MoveC == Rename("catalogStage", "catalog", FALSE)
MoveD(no_replace) == Rename("deliveryStage", "delivery", no_replace)
ReplaceD == Rename("deliveryStage", "delivery", FALSE)
WriteC(c) == Write("catalogStage", c)
WriteD(r) == Write("deliveryStage", r)

\* From a recovered directory: nothing to do, or one whole transaction.
AtRest(s, b, ns, as) == Shape(b, Clean) /\ ns = {} /\ as = {} /\ s = <<>>

OrdinaryPlan(s, b, ns, as) ==
  /\ Shape(b, Clean) /\ ns = {} /\ as = {} /\ b["delivery"] = None
  /\ \E k \in OrdinarySuccessors(b["catalog"]) : s = <<WriteC(k), SyncC, MoveC, SyncDirectory>>

SinglePlan(s, b, ns, as) ==
  /\ Shape(b, Clean) /\ ns = {} /\ as = {}
  /\ \E r \in RecoveryDocuments, no_replace \in BOOLEAN :
       /\ Doc(r) /\ Single(b["catalog"], b["delivery"], r)
       /\ s = <<WriteD(r), SyncD, MoveD(no_replace), SyncDirectory>>

PairPlan(s, b, ns, as) ==
  /\ Shape(b, Clean) /\ ns = {} /\ as = {}
  /\ \E r \in RecoveryDocuments, no_replace \in BOOLEAN :
       /\ Doc(r) /\ Pair(b["catalog"], b["delivery"], r)
       /\ s = <<WriteD(r), SyncD, SyncDirectory, Disarm("deliveryStage"),
                WriteC(r.catalog), SyncC, SyncDirectory,
                MoveC, SyncDirectory, MoveD(no_replace), SyncDirectory>>

ChangePlan(s, b, ns, as) ==
  /\ Shape(b, Clean) /\ ns = {} /\ as = {}
  /\ \E r \in RecoveryDocuments :
       /\ Doc(r) /\ Settles(b["catalog"], b["delivery"], r) /\ r.phase.target # b["catalog"]
       /\ s = <<WriteD(r), SyncD, SyncDirectory, WriteC(r.phase.target), SyncC, SyncDirectory,
                ReplaceD, SyncDirectory, MoveC, SyncDirectory,
                Unlink("delivery"), SyncDirectory>>

SamePlan(s, b, ns, as) ==
  /\ Shape(b, Clean) /\ ns = {} /\ as = {}
  /\ \E r \in RecoveryDocuments :
       /\ Doc(r) /\ Settles(b["catalog"], b["delivery"], r) /\ r.phase.target = b["catalog"]
       /\ s = <<WriteD(r), SyncD, SyncDirectory, ReplaceD, SyncDirectory,
                Unlink("delivery"), SyncDirectory>>

\* With the fence of a pair staged, without and with its catalog.
PairAlone(s, b, ns, as) ==
  /\ Shape(b, PairStaged) /\ b["catalogStage"] = None
  /\ LET write == WriteC(b["deliveryStage"].catalog) IN
     \/ /\ ns = {}
        /\ \E no_replace \in BOOLEAN :
             \/ /\ as \subseteq {"deliveryStage"}
                /\ s = <<Disarm("deliveryStage"), write, SyncC, SyncDirectory,
                         MoveC, SyncDirectory, MoveD(no_replace), SyncDirectory>>
             \/ /\ as = {}
                /\ s = <<write, SyncC, SyncDirectory,
                         MoveC, SyncDirectory, MoveD(no_replace), SyncDirectory>>
     \/ ns \subseteq {"deliveryStage"} /\ as = {} /\ s = <<Unlink("deliveryStage"), SyncDirectory>>

PairBoth(s, b, ns, as) ==
  /\ Shape(b, PairStaged) /\ b["catalogStage"] = b["deliveryStage"].catalog
  /\ \E no_replace \in BOOLEAN :
       \/ /\ ns = {} /\ as \subseteq {"catalogStage"}
          /\ s = <<MoveC, SyncDirectory, MoveD(no_replace), SyncDirectory>>
       \/ /\ ns \subseteq {"catalogStage"} /\ as = {}
          /\ s \in {<<SyncC, MoveC, SyncDirectory, MoveD(no_replace), SyncDirectory>>,
                    <<SyncD, SyncC, MoveC, SyncDirectory, MoveD(no_replace), SyncDirectory>>}

AheadPlan(s, b, ns, as) ==
  /\ Shape(b, Ahead) /\ ns = {} /\ as = {}
  /\ \E no_replace \in BOOLEAN : s \in {<<MoveD(no_replace), SyncDirectory>>,
                            <<SyncD, MoveD(no_replace), SyncDirectory>>}

\* With one document staged.
SingleRest(s, b, ns, as) ==
  /\ Shape(b, SingleStaged) /\ as = {}
  /\ \E no_replace \in BOOLEAN :
       \/ ns = {} /\ s = <<MoveD(no_replace), SyncDirectory>>
       \/ ns \subseteq {"deliveryStage"} /\ s = <<SyncD, MoveD(no_replace), SyncDirectory>>

OrdinaryRest(s, b, ns, as) ==
  /\ Shape(b, OrdinaryStaged) /\ as = {}
  /\ \/ ns = {} /\ s = <<MoveC, SyncDirectory>>
     \/ ns \subseteq {"catalogStage"} /\ s = <<SyncC, MoveC, SyncDirectory>>

\* With the intent to settle staged.
ChangeAlone(s, b, ns, as) ==
  /\ Shape(b, ChangeStaged) /\ b["catalogStage"] = None
  /\ LET write == WriteC(b["deliveryStage"].phase.target) IN
     \/ /\ ns = {} /\ as \subseteq {"deliveryStage"}
        /\ s = <<write, SyncC, SyncDirectory, ReplaceD, SyncDirectory,
                 MoveC, SyncDirectory, Unlink("delivery"), SyncDirectory>>
     \/ /\ ns = {} /\ as = {}
        /\ s = <<ReplaceD, SyncDirectory, write, SyncC, SyncDirectory,
                 MoveC, SyncDirectory, Unlink("delivery"), SyncDirectory>>
     \/ /\ ns \subseteq {"deliveryStage"} /\ as = {}
        /\ s = <<SyncD, ReplaceD, SyncDirectory, write, SyncC, SyncDirectory,
                 MoveC, SyncDirectory, Unlink("delivery"), SyncDirectory>>

ChangeBoth(s, b, ns, as) ==
  /\ Shape(b, ChangeStaged) /\ b["catalogStage"] = b["deliveryStage"].phase.target
  /\ \/ /\ ns = {} /\ as \subseteq Stages
        /\ s = <<ReplaceD, SyncDirectory, MoveC, SyncDirectory, Unlink("delivery"), SyncDirectory>>
     \/ /\ ns \subseteq {"catalogStage"} /\ as = {}
        /\ s \in {<<ReplaceD, SyncDirectory, SyncC, MoveC, SyncDirectory,
                    Unlink("delivery"), SyncDirectory>>,
                  <<SyncD, ReplaceD, SyncDirectory, SyncC, MoveC, SyncDirectory,
                    Unlink("delivery"), SyncDirectory>>}

SameRest(s, b, ns, as) ==
  /\ Shape(b, SameStaged)
  /\ \/ /\ ns = {} /\ as \subseteq {"deliveryStage"}
        /\ s = <<ReplaceD, SyncDirectory, Unlink("delivery"), SyncDirectory>>
     \/ /\ ns \subseteq {"deliveryStage"} /\ as = {}
        /\ s = <<SyncD, ReplaceD, SyncDirectory, Unlink("delivery"), SyncDirectory>>

\* With the intent to settle current.
DecidedPlan(s, b, ns, as) ==
  /\ Shape(b, Decided)
  /\ LET c == b["catalog"]  x == b["catalogStage"]  target == b["delivery"].phase.target IN
     \/ /\ target # c /\ x = target /\ ns = {} /\ as \subseteq {"catalogStage"}
        /\ s = <<MoveC, SyncDirectory, Unlink("delivery"), SyncDirectory>>
     \/ /\ target # c /\ x = target /\ ns \subseteq {"catalogStage"} /\ as = {}
        /\ s = <<SyncC, MoveC, SyncDirectory, Unlink("delivery"), SyncDirectory>>
     \/ /\ target # c /\ x = None /\ ns = {} /\ as = {}
        /\ s = <<WriteC(target), SyncC, SyncDirectory,
                 MoveC, SyncDirectory, Unlink("delivery"), SyncDirectory>>
     \/ /\ target = c /\ x = None /\ ns = {} /\ as = {}
        /\ s = <<Unlink("delivery"), SyncDirectory>>

Plan(s, b, ns, as) ==
  \/ AtRest(s, b, ns, as) \/ OrdinaryPlan(s, b, ns, as) \/ SinglePlan(s, b, ns, as)
  \/ PairPlan(s, b, ns, as) \/ ChangePlan(s, b, ns, as) \/ SamePlan(s, b, ns, as)
  \/ PairAlone(s, b, ns, as) \/ PairBoth(s, b, ns, as) \/ AheadPlan(s, b, ns, as)
  \/ SingleRest(s, b, ns, as) \/ OrdinaryRest(s, b, ns, as) \/ ChangeAlone(s, b, ns, as)
  \/ ChangeBoth(s, b, ns, as) \/ SameRest(s, b, ns, as) \/ DecidedPlan(s, b, ns, as)

\* What a plan does next.
Empty(s, b, ns, as) == s = <<>> /\ Shape(b, Clean) /\ ns = {} /\ as = {}

\* The stage n of e is renamed over a current name and that ends the plan.
Renames(s, b, e, n, as) ==
  /\ as = {n}
  /\ \E to \in {"catalog", "delivery"}, no_replace \in BOOLEAN :
       /\ s = <<Rename(n, to, no_replace), SyncDirectory>>
       /\ Follows(b, Moved(e, n, to)) /\ Shape(Moved(e, n, to), Clean)

\* What follows once the stage n of e is synchronized.
Continues(s, b, e, n, as) ==
  \/ s # <<>> /\ Head(s) = SyncDirectory /\ Plan(Tail(s), e, {}, as)
  \/ Renames(s, b, e, n, as)

Writes(s, b, ns, as) ==
  /\ ns = {} /\ s # <<>> /\ Tail(s) # <<>>
  /\ \E n \in Stages, k \in CatalogDocuments \cup RecoveryDocuments :
       /\ Head(s) = Write(n, k) /\ b[n] = None
       /\ \A v \in {k, Torn} : Beside(b, Edit(b, n, v)) /\ Cleanable(Edit(b, n, v), as \cup {n})
       /\ DirtyFits(Edit(b, n, k), {n})
       /\ Head(Tail(s)) = SyncFile(n)
       /\ Continues(Tail(Tail(s)), b, Edit(b, n, k), n, as \cup {n})

Syncs(s, b, ns, as) ==
  s # <<>> /\ \E n \in Stages : Head(s) = SyncFile(n) /\ Plan(Tail(s), b, ns \ {n}, as)

Disarms(s, b, ns, as) ==
  s # <<>> /\ \E n \in Stages : Head(s) = Disarm(n) /\ Plan(Tail(s), b, ns, as \ {n})

Renaming(s, b, ns, as) ==
  /\ s # <<>> /\ Tail(s) # <<>> /\ Head(Tail(s)) = SyncDirectory
  /\ \E n \in Stages \ ns, to \in {"catalog", "delivery"}, no_replace \in BOOLEAN :
       /\ Head(s) = Rename(n, to, no_replace)
       /\ Follows(b, Moved(b, n, to)) /\ DirtyFits(Moved(b, n, to), ns)
       /\ Cleanable(Moved(b, n, to), as \ {n})
       /\ Plan(Tail(Tail(s)), Moved(b, n, to), ns, as \ {n})

Unlinks(s, b, ns, as) ==
  /\ as = {} /\ s # <<>> /\ Tail(s) # <<>> /\ Head(Tail(s)) = SyncDirectory
  /\ \E n \in {"delivery", "deliveryStage"} :
       /\ Head(s) = Unlink(n)
       /\ Follows(b, Edit(b, n, None)) /\ DirtyFits(Edit(b, n, None), ns \ {n})
       /\ Plan(Tail(Tail(s)), Edit(b, n, None), ns \ {n}, {})

Kind(s, b, ns, as) ==
  \/ Empty(s, b, ns, as) \/ Writes(s, b, ns, as) \/ Syncs(s, b, ns, as)
  \/ Disarms(s, b, ns, as) \/ Renaming(s, b, ns, as) \/ Unlinks(s, b, ns, as)

-----------------------------------------------------------------------------
(***************************************************************************)
(* The inductive invariant.                                                *)
(***************************************************************************)
\* Every directory that may be found is legal, its abstract catalog and fence
\* are at most a step away from the durable ones, and an error may clean it.
Standing ==
  /\ files \in images
  /\ \A d \in images \cup {files, disk} : Follows(disk, d) /\ Cleanable(d, armed)

\* Nothing is under way between a directory sync and the next change.
Ready == files = disk /\ images \subseteq Torns(files, dirty) /\ Plan(script, files, dirty, armed)

\* A stage was written; then it was synchronized, and is renamed next.
Written(n) ==
  /\ disk[n] = None /\ files = Edit(disk, n, files[n])
  /\ files[n] \notin {None, Torn}
  /\ script # <<>>
  /\ \/ /\ Head(script) = SyncFile(n) /\ dirty = {n}
        /\ images \subseteq {disk, files, Edit(disk, n, Torn)}
        /\ Continues(Tail(script), disk, files, n, armed)
     \/ dirty = {} /\ images \subseteq {disk, files} /\ Renames(script, disk, files, n, armed)

\* The directory changed and is synchronized next.
Unsynced ==
  script # <<>> /\ Head(script) = SyncDirectory /\ Plan(Tail(script), files, dirty, armed)

PInv ==
  /\ Standing /\ DirtyFits(files, dirty)
  /\ ~ open => script = <<>> /\ armed = {}
  /\ open => Ready \/ (\E n \in Stages : Written(n)) \/ Unsynced

-----------------------------------------------------------------------------
(***************************************************************************)
(* One event leaves a valid catalog.                                       *)
(***************************************************************************)
LEMMA ReleaseIsSound ==
  ASSUME NEW c, Sound(c), NEW a, NEW d \in retire_unprovisioned_cancellation(c, a)
  PROVE  Sound(d)
<1> DEFINE begin == [name |-> "BeginUnprovisionedRelease"]
           end == [name |-> "CompleteUnprovisioned"]
<1>0. begin \in Actions /\ end \in Actions
  BY DEF Actions
<1>1. PICK releasing \in replace_attempt(c, a.id, a.revision, begin) :
        d \in UNION {UNION {retire_complete(complete, a.id, done.revision) :
                              done \in find_active(complete, a.id)} :
                       complete \in UNION {replace_attempt(releasing, a.id, b.revision, end) :
                                             b \in find_active(releasing, a.id)}}
  BY DEF retire_unprovisioned_cancellation
<1> HIDE DEF begin, end
<1>2. PICK b \in find_active(releasing, a.id) :
        \E complete \in replace_attempt(releasing, a.id, b.revision, end) :
          d \in UNION {retire_complete(complete, a.id, done.revision) :
                         done \in find_active(complete, a.id)}
  BY <1>1
<1>3. PICK complete \in replace_attempt(releasing, a.id, b.revision, end) :
        d \in UNION {retire_complete(complete, a.id, done.revision) :
                       done \in find_active(complete, a.id)}
  BY <1>2
<1>4. PICK done \in find_active(complete, a.id) :
        d \in retire_complete(complete, a.id, done.revision)
  BY <1>3
<1>5. Sound(releasing)
  BY <1>0, <1>1, TransitionSwaps DEF Swap
<1>6. Sound(complete)
  BY <1>0, <1>3, <1>5, TransitionSwaps DEF Swap
<1> QED BY <1>4, <1>6, RetirementMoves

\* A new message's event.
LEMMA EventIsSound ==
  ASSUME NEW c, Sound(c), NEW e \in DeliveryEvents, NEW t, attempt_not_after(t) \in Times,
         NEW d \in reconcile_event(e, c, t)
  PROVE  Sound(d)
<1> DEFINE until == attempt_not_after(t)
<1>0. /\ e.id \in AttemptIds /\ JobOf(e.id) \in JobIds
      /\ e.kind \in {"Available", "Assigned", "Started", "Completed"}
      /\ e.kind = "Started" => e.runner \in RunnerReferences
      /\ e.kind = "Completed" => e.runner \in RunnerReferences \cup {None} /\ e.result \in Results
  BY JobAssumption DEF DeliveryEvents, Option
<1>1. e.kind # "Available" => event_action(e) \in Actions
  BY <1>0 DEF event_action, Actions
<1> HIDE DEF until
<1>2. CASE e.kind \in {"Available", "Assigned"}
  <2>1. d \in ReconcileRequest(e, c, t)
    BY <1>2 DEF reconcile_event
  <2>2. CASE find_active(c, e.id) # {}
    <3>1. PICK a \in find_active(c, e.id) :
            d \in IF \/ e.kind = "Available"
                     \/ a.phase = "Reserved" /\ a.github_job_id = None
                  THEN {k \in {c} : a.not_after = until}
                  ELSE replace_attempt(c, a.id, a.revision, event_action(e))
      BY <2>1, <2>2 DEF ReconcileRequest, until
    <3>2. CASE d = c
      BY <3>2
    <3>3. CASE d # c
      <4>1. e.kind # "Available" /\ d \in replace_attempt(c, a.id, a.revision, event_action(e))
        BY <3>1, <3>3
      <4> QED BY <1>1, <4>1, TransitionSwaps DEF Swap
    <3> QED BY <3>2, <3>3
  <2>3. CASE find_active(c, e.id) = {} /\ d = c
    BY <2>3
  <2>4. CASE find_active(c, e.id) = {} /\ d # c
    <3>1. d \in reserve(c, reserved(e.id, until))
      BY <2>1, <2>4 DEF ReconcileRequest, until
    <3> QED BY <1>0, <2>4, <3>1, ReservationAdds DEF until
  <2> QED BY <2>2, <2>3, <2>4
<1>3. CASE e.kind \in {"Started", "Completed"}
  <2>1. d \in ReconcileEvidence(e, c)
    BY <1>3 DEF reconcile_event
  <2>2. CASE find_active(c, e.id) # {}
    <3>1. PICK a \in find_active(c, e.id) :
            d \in IF is_unbound_runnerless_cancellation(e, a) THEN CancelUnbound(c, a)
                  ELSE replace_attempt(c, a.id, a.revision, event_action(e))
      BY <2>1, <2>2 DEF ReconcileEvidence
    <3>2. CASE is_unbound_runnerless_cancellation(e, a)
      <4>1. [name |-> "BeginCleanup"] \in Actions
        BY DEF Actions
      <4>2. \/ d = c \/ d \in retire_unprovisioned_cancellation(c, a)
            \/ d \in replace_attempt(c, a.id, a.revision, [name |-> "BeginCleanup"])
        BY <3>1, <3>2 DEF CancelUnbound
      <4> QED BY <4>1, <4>2, ReleaseIsSound, TransitionSwaps DEF Swap
    <3>3. CASE ~ is_unbound_runnerless_cancellation(e, a)
      <4>1. d \in replace_attempt(c, a.id, a.revision, event_action(e))
        BY <3>1, <3>3
      <4> QED BY <1>1, <1>3, <4>1, TransitionSwaps DEF Swap
    <3> QED BY <3>2, <3>3
  <2>3. CASE find_active(c, e.id) = {}
    BY <2>1, <2>3 DEF ReconcileEvidence
  <2> QED BY <2>2, <2>3
<1> QED BY <1>0, <1>2, <1>3

\* A resolving message's event.
LEMMA ResolvingIsSound ==
  ASSUME NEW c, Sound(c), NEW e, NEW ambiguous, NEW d \in ResolvingEvent(e, ambiguous, c)
  PROVE  Sound(d)
<1>1. PICK a \in {b \in find_active(c, e.id) : e.id \in ambiguous /\ b.phase = "Reserved"} :
        d \in IF e.kind = "Assigned" THEN {c}
              ELSE IF IsRunnerlessCancellation(e) THEN retire_unprovisioned_cancellation(c, a)
              ELSE {}
  BY DEF ResolvingEvent
<1>2. d = c \/ d \in retire_unprovisioned_cancellation(c, a)
  BY <1>1
<1> QED BY <1>2, ReleaseIsSound

\* A settled message's event.
LEMMA SettlingIsSound ==
  ASSUME NEW c, Sound(c), NEW e, NEW acquired,
         NEW d \in settle_scale_set_delivery_catalog(e, acquired, c)
  PROVE  Sound(d)
<1>1. CASE d = c
  BY <1>1
<1>2. CASE d # c
  <2>1. PICK a \in find_active(c, e.id) :
          d \in IF a.phase = "Reserved" THEN retire_unprovisioned_cancellation(c, a)
                ELSE {k \in {c} : a.github_job_id # None \/ a.phase = "Complete"}
    BY <1>2 DEF settle_scale_set_delivery_catalog
  <2>2. d \in retire_unprovisioned_cancellation(c, a)
    BY <1>2, <2>1
  <2> QED BY <2>2, ReleaseIsSound
<1> QED BY <1>1, <1>2

-----------------------------------------------------------------------------
(***************************************************************************)
(* The events of a message, one after the other.                           *)
(***************************************************************************)
LEMMA LargestMember ==
  ASSUME NEW n \in Nat, NEW s \in SUBSET (1 .. n), s # {}
  PROVE  Max(s) \in s /\ \A y \in s : Max(s) >= y
<1> DEFINE bounds == {i \in 1 .. n : \A y \in s : i >= y}
<1>0. \A y \in s : y \in Nat /\ y >= 1 /\ y <= n
  OBVIOUS
<1>1. n \in bounds
  <2>1. PICK y \in s : TRUE
    OBVIOUS
  <2>2. n \in 1 .. n /\ \A z \in s : n >= z
    BY <1>0, <2>1
  <2> QED BY <2>2
<1>2. bounds \subseteq Nat /\ bounds # {}
  BY <1>1
<1>3. PICK m \in bounds : \A i \in bounds : m <= i
  BY <1>2, LeastMember
<1>4. m \in s
  <2>1. SUFFICES ASSUME m \notin s PROVE FALSE
    OBVIOUS
  <2>2. \A y \in s : y \in Int /\ y >= 1 /\ y <= m /\ y # m
    BY <2>1
  <2>3. m \in Int /\ m <= n
    OBVIOUS
  <2>4. m - 1 \in bounds
    <3>1. PICK y \in s : TRUE
      OBVIOUS
    <3>2. m - 1 \in 1 .. n /\ \A z \in s : m - 1 >= z
      BY <2>2, <2>3, <3>1
    <3> QED BY <3>2
  <2> QED BY <1>3, <2>3, <2>4
<1>5. \E x \in s : \A y \in s : x >= y
  BY <1>4
<1> QED BY <1>5, Zenon DEF Max

\* The function that a fold over n events recurses on exists.
Unfolds(n, b, G, g) ==
  \A s \in SUBSET (1 .. n) : g[s] = IF s = {} THEN b ELSE G[Max(s)][g[s \ {Max(s)}]]

\* The recursion has a solution, built one event at a time.
LEMMA FoldExists ==
  ASSUME NEW n \in Nat, NEW T, NEW b \in T, NEW G, \A k \in 1 .. n : G[k] \in [T -> T]
  PROVE  \E g \in [SUBSET (1 .. n) -> T] : Unfolds(n, b, G, g)
<1> DEFINE Found(k) == \E g \in [SUBSET (1 .. k) -> T] : Unfolds(k, b, G, g)
           missing == {k \in 0 .. n : ~ Found(k)}
<1>1. Found(0)
  <2> DEFINE g == [s \in SUBSET (1 .. 0) |-> b]
  <2>1. \A s \in SUBSET (1 .. 0) : s = {}
    OBVIOUS
  <2>2. g \in [SUBSET (1 .. 0) -> T] /\ Unfolds(0, b, G, g)
    BY <2>1 DEF Unfolds
  <2> QED BY <2>2
<1>2. ASSUME NEW k \in 0 .. n - 1, Found(k) PROVE Found(k + 1)
  <2>1. PICK g \in [SUBSET (1 .. k) -> T] : Unfolds(k, b, G, g)
    BY <1>2
  <2> DEFINE h == [s \in SUBSET (1 .. k + 1) |->
                     IF k + 1 \in s THEN G[k + 1][g[s \ {k + 1}]] ELSE g[s]]
  <2>2. k \in Nat /\ k + 1 \in 1 .. n /\ 1 .. k \subseteq 1 .. k + 1
    OBVIOUS
  <2>3. \A s \in SUBSET (1 .. k + 1) :
          /\ s \ {k + 1} \in SUBSET (1 .. k)
          /\ k + 1 \notin s => s \in SUBSET (1 .. k)
    BY <2>2
  <2>4. h \in [SUBSET (1 .. k + 1) -> T]
    <3>1. \A s \in SUBSET (1 .. k + 1) : g[s \ {k + 1}] \in T /\ (k + 1 \notin s => g[s] \in T)
      BY <2>1, <2>3
    <3>2. \A x \in T : G[k + 1][x] \in T
      BY <2>2
    <3> QED BY <3>1, <3>2
  <2>5. \A s \in SUBSET (1 .. k) : s \in SUBSET (1 .. k + 1) /\ k + 1 \notin s /\ h[s] = g[s]
    BY <2>2
  <2>6. ASSUME NEW s \in SUBSET (1 .. k + 1)
        PROVE  h[s] = IF s = {} THEN b ELSE G[Max(s)][h[s \ {Max(s)}]]
    <3>1. CASE k + 1 \in s
      <4>1. Max(s) = k + 1
        <5>1. k + 1 \in Nat /\ s # {}
          BY <2>2, <3>1
        <5>2. Max(s) \in s /\ Max(s) >= k + 1
          BY <3>1, <5>1, LargestMember
        <5>3. Max(s) \in 1 .. k + 1
          BY <5>2
        <5> QED BY <2>2, <5>2, <5>3
      <4>2. h[s] = G[k + 1][g[s \ {k + 1}]]
        BY <3>1
      <4>3. h[s \ {k + 1}] = g[s \ {k + 1}]
        BY <2>3, <2>5
      <4> QED BY <3>1, <4>1, <4>2, <4>3
    <3>2. CASE k + 1 \notin s /\ s # {}
      <4>1. s \in SUBSET (1 .. k) /\ s \ {Max(s)} \in SUBSET (1 .. k)
        BY <2>3, <3>2
      <4>2. h[s] = g[s] /\ h[s \ {Max(s)}] = g[s \ {Max(s)}]
        BY <2>5, <4>1
      <4> QED BY <2>1, <3>2, <4>1, <4>2 DEF Unfolds
    <3>3. CASE s = {}
      <4>1. s \in SUBSET (1 .. k)
        BY <3>3
      <4>2. h[s] = g[s] /\ g[s] = b
        BY <2>1, <2>5, <3>3, <4>1 DEF Unfolds
      <4> QED BY <3>3, <4>2
    <3> QED BY <3>1, <3>2, <3>3
  <2> HIDE DEF h
  <2>7. Unfolds(k + 1, b, G, h)
    BY <2>6 DEF Unfolds
  <2> QED BY <2>4, <2>7
<1> HIDE DEF Found
<1>3. missing = {}
  <2>1. SUFFICES ASSUME missing # {} PROVE FALSE
    OBVIOUS
  <2>2. missing \subseteq Nat
    OBVIOUS
  <2>3. PICK k \in missing : \A i \in missing : k <= i
    BY <2>1, <2>2, LeastMember
  <2>4. k # 0 /\ k \in 0 .. n
    BY <1>1, <2>3
  <2>5. k - 1 \in 0 .. n - 1 /\ k - 1 \notin missing /\ (k - 1) + 1 = k
    BY <2>3, <2>4
  <2>6. Found(k - 1)
    BY <2>4, <2>5
  <2>7. Found((k - 1) + 1)
    BY <1>2, <2>5, <2>6
  <2> QED BY <2>3, <2>5, <2>7
<1>4. Found(n)
  BY <1>3
<1> QED BY <1>4 DEF Found

\* What holds of the base and is kept by every event holds of the fold.
LEMMA FoldKeeps ==
  ASSUME NEW n \in Nat, NEW T, NEW f, f[{}] \in T,
         \A k \in 1 .. n : f[1 .. k - 1] \in T => f[1 .. k] \in T
  PROVE  f[1 .. n] \in T
<1> DEFINE missing == {k \in 0 .. n : f[1 .. k] \notin T}
<1>1. missing = {}
  <2>1. SUFFICES ASSUME missing # {} PROVE FALSE
    OBVIOUS
  <2>0. missing \subseteq Nat
    OBVIOUS
  <2>2. PICK k \in missing : \A i \in missing : k <= i
    <3> HIDE DEF missing
    <3> QED BY <2>0, <2>1, LeastMember
  <2>3. 1 .. 0 = {}
    OBVIOUS
  <2>4. k # 0 /\ k \in 0 .. n
    BY <2>3
  <2>5. k \in 1 .. n /\ k - 1 \in 0 .. n /\ k - 1 \notin missing
    BY <2>2, <2>4
  <2> QED BY <2>2, <2>5
<1>2. n \in 0 .. n
  OBVIOUS
<1> QED BY <1>1, <1>2

\* The largest index of the first k events.
LEMMA InitialSegments ==
  ASSUME NEW n \in Nat
  PROVE  \A k \in 1 .. n : /\ 1 .. k \in SUBSET (1 .. n) /\ 1 .. k # {}
                           /\ Max(1 .. k) = k /\ (1 .. k) \ {Max(1 .. k)} = 1 .. k - 1
<1>1. SUFFICES ASSUME NEW k \in 1 .. n
               PROVE  /\ 1 .. k \in SUBSET (1 .. n) /\ 1 .. k # {}
                      /\ Max(1 .. k) = k /\ (1 .. k) \ {Max(1 .. k)} = 1 .. k - 1
  OBVIOUS
<1>2. k \in 1 .. k /\ 1 .. k \in SUBSET (1 .. n)
  OBVIOUS
<1>3. Max(1 .. k) \in 1 .. k /\ Max(1 .. k) >= k
  BY <1>2, LargestMember
<1>4. Max(1 .. k) = k
  BY <1>3
<1>5. (1 .. k) \ {k} = 1 .. k - 1
  OBVIOUS
<1> QED BY <1>2, <1>4, <1>5

\* A new message.
LEMMA ReconciledIsSound ==
  ASSUME NEW c, Sound(c), NEW m \in DeliveryMessages, NEW t, attempt_not_after(t) \in Times,
         NEW d \in reconcile_scale_set_delivery(m, c, t)
  PROVE  Sound(d)
<1> DEFINE events == m.events
           n == Len(events)
           T == SUBSET {k \in Catalogs : validate_catalog(k)}
           op(catalogs, event) == UNION {reconcile_event(event, k, t) : k \in catalogs}
           G == [i \in 1 .. n |-> [x \in T |-> op(x, events[i])]]
           body(f) == [s \in SUBSET (DOMAIN events) |->
                         IF s = {} THEN {c} ELSE op(f[s \ {Max(s)}], events[Max(s)])]
           P(f) == f = body(f)
           iter == CHOOSE f : P(f)
<1>1. n \in Nat /\ DOMAIN events = 1 .. n /\ \A i \in 1 .. n : events[i] \in DeliveryEvents
  BY LenProperties, ElementOfSeq DEF DeliveryMessages
<1>2. {c} \in T
  BY DEF Sound
<1>3. ASSUME NEW x \in T, NEW i \in 1 .. n PROVE op(x, events[i]) \in T
  <2>1. ASSUME NEW k \in op(x, events[i]) PROVE k \in Catalogs /\ validate_catalog(k)
    <3>1. PICK j \in x : k \in reconcile_event(events[i], j, t)
      OBVIOUS
    <3>2. Sound(j)
      BY DEF Sound
    <3>3. Sound(k)
      BY <1>1, <3>1, <3>2, EventIsSound
    <3> QED BY <3>3 DEF Sound
  <2> HIDE DEF op
  <2> QED BY <2>1
<1> HIDE DEF op, T, n, events
<1>4. \E f : P(f)
  <2>1. \A i \in 1 .. n : G[i] \in [T -> T]
    BY <1>3
  <2>2. PICK g \in [SUBSET (1 .. n) -> T] : Unfolds(n, {c}, G, g)
    <3> HIDE DEF G
    <3> QED BY <1>1, <1>2, <2>1, FoldExists
  <2>3. ASSUME NEW s \in SUBSET (1 .. n), s # {}
        PROVE  g[s] = op(g[s \ {Max(s)}], events[Max(s)])
    <3>1. Max(s) \in 1 .. n
      BY <1>1, <2>3, LargestMember
    <3>2. g[s \ {Max(s)}] \in T
      OBVIOUS
    <3>3. g[s] = G[Max(s)][g[s \ {Max(s)}]]
      BY <2>2, <2>3 DEF Unfolds
    <3> QED BY <3>1, <3>2, <3>3
  <2>4. g[{}] = {c}
    BY <2>2 DEF Unfolds
  <2>5. g = body(g)
    BY <1>1, <2>3, <2>4
  <2> QED BY <2>5
<1>5. iter = body(iter)
  <2>1. P(CHOOSE f : P(f))
    <3> HIDE DEF P
    <3> QED BY <1>4, Zenon
  <2> QED BY <2>1
<1> HIDE DEF iter
<1>6. iter[{}] = {c} /\ \A i \in 1 .. n : iter[1 .. i] = op(iter[1 .. i - 1], events[i])
  <2>1. \A s \in SUBSET (1 .. n) :
          iter[s] = IF s = {} THEN {c} ELSE op(iter[s \ {Max(s)}], events[Max(s)])
    BY <1>1, <1>5
  <2>2. ASSUME NEW i \in 1 .. n PROVE iter[1 .. i] = op(iter[1 .. i - 1], events[i])
    <3>1. /\ 1 .. i \in SUBSET (1 .. n) /\ 1 .. i # {}
          /\ Max(1 .. i) = i /\ (1 .. i) \ {Max(1 .. i)} = 1 .. i - 1
      BY <1>1, InitialSegments
    <3>2. iter[1 .. i] = op(iter[(1 .. i) \ {Max(1 .. i)}], events[Max(1 .. i)])
      BY <2>1, <3>1
    <3> QED BY <3>1, <3>2
  <2> QED BY <2>1, <2>2
<1>7. iter[1 .. n] \in T
  <2>1. \A i \in 1 .. n : iter[1 .. i - 1] \in T => iter[1 .. i] \in T
    BY <1>3, <1>6
  <2> QED BY <1>1, <1>2, <1>6, <2>1, FoldKeeps
<1>8. d \in iter[DOMAIN events]
  BY Zenon DEF reconcile_scale_set_delivery, FoldLeft, MapThenFoldSet, iter, P, body, op, events
<1> QED BY <1>1, <1>7, <1>8 DEF T, Sound

\* A resolving one.
LEMMA ResolvedIsSound ==
  ASSUME NEW c, Sound(c), NEW m \in DeliveryMessages, NEW ambiguous,
         NEW d \in reconcile_scale_set_acquisition_resolution(ambiguous, m, c)
  PROVE  Sound(d)
<1> DEFINE events == m.events
           n == Len(events)
           T == SUBSET {k \in Catalogs : validate_catalog(k)}
           op(catalogs, event) == UNION {ResolvingEvent(event, ambiguous, k) : k \in catalogs}
           G == [i \in 1 .. n |-> [x \in T |-> op(x, events[i])]]
           body(f) == [s \in SUBSET (DOMAIN events) |->
                         IF s = {} THEN {c} ELSE op(f[s \ {Max(s)}], events[Max(s)])]
           P(f) == f = body(f)
           iter == CHOOSE f : P(f)
<1>1. n \in Nat /\ DOMAIN events = 1 .. n /\ \A i \in 1 .. n : events[i] \in DeliveryEvents
  BY LenProperties, ElementOfSeq DEF DeliveryMessages
<1>2. {c} \in T
  BY DEF Sound
<1>3. ASSUME NEW x \in T, NEW i \in 1 .. n PROVE op(x, events[i]) \in T
  <2>1. ASSUME NEW k \in op(x, events[i]) PROVE k \in Catalogs /\ validate_catalog(k)
    <3>1. PICK j \in x : k \in ResolvingEvent(events[i], ambiguous, j)
      OBVIOUS
    <3>2. Sound(j)
      BY DEF Sound
    <3>3. Sound(k)
      BY <1>1, <3>1, <3>2, ResolvingIsSound
    <3> QED BY <3>3 DEF Sound
  <2> HIDE DEF op
  <2> QED BY <2>1
<1> HIDE DEF op, T, n, events
<1>4. \E f : P(f)
  <2>1. \A i \in 1 .. n : G[i] \in [T -> T]
    BY <1>3
  <2>2. PICK g \in [SUBSET (1 .. n) -> T] : Unfolds(n, {c}, G, g)
    <3> HIDE DEF G
    <3> QED BY <1>1, <1>2, <2>1, FoldExists
  <2>3. ASSUME NEW s \in SUBSET (1 .. n), s # {}
        PROVE  g[s] = op(g[s \ {Max(s)}], events[Max(s)])
    <3>1. Max(s) \in 1 .. n
      BY <1>1, <2>3, LargestMember
    <3>2. g[s \ {Max(s)}] \in T
      OBVIOUS
    <3>3. g[s] = G[Max(s)][g[s \ {Max(s)}]]
      BY <2>2, <2>3 DEF Unfolds
    <3> QED BY <3>1, <3>2, <3>3
  <2>4. g[{}] = {c}
    BY <2>2 DEF Unfolds
  <2>5. g = body(g)
    BY <1>1, <2>3, <2>4
  <2> QED BY <2>5
<1>5. iter = body(iter)
  <2>1. P(CHOOSE f : P(f))
    <3> HIDE DEF P
    <3> QED BY <1>4, Zenon
  <2> QED BY <2>1
<1> HIDE DEF iter
<1>6. iter[{}] = {c} /\ \A i \in 1 .. n : iter[1 .. i] = op(iter[1 .. i - 1], events[i])
  <2>1. \A s \in SUBSET (1 .. n) :
          iter[s] = IF s = {} THEN {c} ELSE op(iter[s \ {Max(s)}], events[Max(s)])
    BY <1>1, <1>5
  <2>2. ASSUME NEW i \in 1 .. n PROVE iter[1 .. i] = op(iter[1 .. i - 1], events[i])
    <3>1. /\ 1 .. i \in SUBSET (1 .. n) /\ 1 .. i # {}
          /\ Max(1 .. i) = i /\ (1 .. i) \ {Max(1 .. i)} = 1 .. i - 1
      BY <1>1, InitialSegments
    <3>2. iter[1 .. i] = op(iter[(1 .. i) \ {Max(1 .. i)}], events[Max(1 .. i)])
      BY <2>1, <3>1
    <3> QED BY <3>1, <3>2
  <2> QED BY <2>1, <2>2
<1>7. iter[1 .. n] \in T
  <2>1. \A i \in 1 .. n : iter[1 .. i - 1] \in T => iter[1 .. i] \in T
    BY <1>3, <1>6
  <2> QED BY <1>1, <1>2, <1>6, <2>1, FoldKeeps
<1>8. d \in iter[DOMAIN events]
  BY Zenon DEF reconcile_scale_set_acquisition_resolution, FoldLeft, MapThenFoldSet, iter, P,
               body, op, events
<1> QED BY <1>1, <1>7, <1>8 DEF T, Sound

\* A settled one: what its events leave once `acquired' was handed over.
SettledBy(acquired, events, c) ==
  FoldLeft(LAMBDA catalogs, event :
             UNION {settle_scale_set_delivery_catalog(event, event.id \in acquired, d) :
                      d \in catalogs},
           {c}, events)

\* Settling leaves a valid catalog.
LEMMA SettledIsSound ==
  ASSUME NEW c, Sound(c), NEW events \in Seq(DeliveryEvents), NEW acquired,
         NEW d \in SettledBy(acquired, events, c)
  PROVE  Sound(d)
<1> DEFINE n == Len(events)
           T == SUBSET {k \in Catalogs : validate_catalog(k)}
           op(catalogs, event) ==
             UNION {settle_scale_set_delivery_catalog(event, event.id \in acquired, k) :
                      k \in catalogs}
           G == [i \in 1 .. n |-> [x \in T |-> op(x, events[i])]]
           body(f) == [s \in SUBSET (DOMAIN events) |->
                         IF s = {} THEN {c} ELSE op(f[s \ {Max(s)}], events[Max(s)])]
           P(f) == f = body(f)
           iter == CHOOSE f : P(f)
<1>1. n \in Nat /\ DOMAIN events = 1 .. n /\ \A i \in 1 .. n : events[i] \in DeliveryEvents
  BY LenProperties, ElementOfSeq
<1>2. {c} \in T
  BY DEF Sound
<1>3. ASSUME NEW x \in T, NEW i \in 1 .. n PROVE op(x, events[i]) \in T
  <2>1. ASSUME NEW k \in op(x, events[i]) PROVE k \in Catalogs /\ validate_catalog(k)
    <3>1. PICK j \in x :
            k \in settle_scale_set_delivery_catalog(events[i], events[i].id \in acquired, j)
      OBVIOUS
    <3>2. Sound(j)
      BY DEF Sound
    <3>3. Sound(k)
      BY <1>1, <3>1, <3>2, SettlingIsSound
    <3> QED BY <3>3 DEF Sound
  <2> HIDE DEF op
  <2> QED BY <2>1
<1> HIDE DEF op, T, n
<1>4. \E f : P(f)
  <2>1. \A i \in 1 .. n : G[i] \in [T -> T]
    BY <1>3
  <2>2. PICK g \in [SUBSET (1 .. n) -> T] : Unfolds(n, {c}, G, g)
    <3> HIDE DEF G
    <3> QED BY <1>1, <1>2, <2>1, FoldExists
  <2>3. ASSUME NEW s \in SUBSET (1 .. n), s # {}
        PROVE  g[s] = op(g[s \ {Max(s)}], events[Max(s)])
    <3>1. Max(s) \in 1 .. n
      BY <1>1, <2>3, LargestMember
    <3>2. g[s \ {Max(s)}] \in T
      OBVIOUS
    <3>3. g[s] = G[Max(s)][g[s \ {Max(s)}]]
      BY <2>2, <2>3 DEF Unfolds
    <3> QED BY <3>1, <3>2, <3>3
  <2>4. g[{}] = {c}
    BY <2>2 DEF Unfolds
  <2>5. g = body(g)
    BY <1>1, <2>3, <2>4
  <2> QED BY <2>5
<1>5. iter = body(iter)
  <2>1. P(CHOOSE f : P(f))
    <3> HIDE DEF P
    <3> QED BY <1>4, Zenon
  <2> QED BY <2>1
<1> HIDE DEF iter
<1>6. iter[{}] = {c} /\ \A i \in 1 .. n : iter[1 .. i] = op(iter[1 .. i - 1], events[i])
  <2>1. \A s \in SUBSET (1 .. n) :
          iter[s] = IF s = {} THEN {c} ELSE op(iter[s \ {Max(s)}], events[Max(s)])
    BY <1>1, <1>5
  <2>2. ASSUME NEW i \in 1 .. n PROVE iter[1 .. i] = op(iter[1 .. i - 1], events[i])
    <3>1. /\ 1 .. i \in SUBSET (1 .. n) /\ 1 .. i # {}
          /\ Max(1 .. i) = i /\ (1 .. i) \ {Max(1 .. i)} = 1 .. i - 1
      BY <1>1, InitialSegments
    <3>2. iter[1 .. i] = op(iter[(1 .. i) \ {Max(1 .. i)}], events[Max(1 .. i)])
      BY <2>1, <3>1
    <3> QED BY <3>1, <3>2
  <2> QED BY <2>1, <2>2
<1>7. iter[1 .. n] \in T
  <2>1. \A i \in 1 .. n : iter[1 .. i - 1] \in T => iter[1 .. i] \in T
    BY <1>3, <1>6
  <2> QED BY <1>1, <1>2, <1>6, <2>1, FoldKeeps
<1>8. d \in iter[DOMAIN events]
  BY Zenon DEF SettledBy, FoldLeft, MapThenFoldSet, iter, P, body, op
<1> QED BY <1>1, <1>7, <1>8 DEF T, Sound

-----------------------------------------------------------------------------
(***************************************************************************)
(* Recovery documents.                                                     *)
(***************************************************************************)
LEMMA SoundIsDocument ==
  ASSUME NEW c, Sound(c)
  PROVE  c \in CatalogDocuments
<1>1. ValidAttempts \subseteq Attempts
  BY DEF ValidAttempts
<1>2. \A s : s \in Seq(ValidAttempts) => s \in Seq(Attempts)
  BY <1>1
<1> QED BY <1>2 DEF Sound, Catalogs, CatalogDocuments

\* What a document holds.
LEMMA DocumentFields ==
  ASSUME NEW f, Doc(f)
  PROVE  /\ f.revision \in Nat /\ f.prior_catalog \in CatalogDocuments
         /\ f.catalog \in CatalogDocuments /\ Sound(f.catalog)
         /\ f.delivery \in DeliveryMessages /\ f.delivery.events \in Seq(DeliveryEvents)
         /\ f.phase \in RecoveryPhases /\ validate_recovery(f) /\ f \in RecoveryDocuments
BY DEF Doc, RecoveryDocuments, DeliveryMessages

\* What a phase holds.
LEMMA PhaseFields ==
  ASSUME NEW p \in RecoveryPhases
  PROVE  /\ p.name \in {"Acknowledged", "AcquisitionRecoveryObserved"} =>
              p.acquired \in SUBSET AttemptIds
         /\ p.name \in LifecyclePhases => p.resolution \in Resolutions
<1>1. \/ p = Reconciled \/ p = AcknowledgementStarted
      \/ p \in [name : {"Acknowledged", "AcquisitionRecoveryObserved"},
                acquired : SUBSET AttemptIds]
      \/ p \in [name : LifecyclePhases, resolution : Resolutions]
      \/ p \in [name : {"SettlementPrepared"}, proof : SettlementProofs,
                acquired : SUBSET AttemptIds, target : CatalogDocuments]
  BY DEF RecoveryPhases
<1>2. LifecyclePhases = {"LifecycleReconciled", "LifecycleAcknowledgementStarted",
                         "LifecycleAcknowledged"}
  BY DEF LifecyclePhases
<1>3. Reconciled.name = "Reconciled" /\ AcknowledgementStarted.name = "AcknowledgementStarted"
  BY DEF Reconciled, AcknowledgementStarted
<1> QED BY <1>1, <1>2, <1>3

\* The requests of a message.
LEMMA RequestsAreIdentities ==
  ASSUME NEW m \in DeliveryMessages
  PROVE  /\ EventRequests(m) \in SUBSET AttemptIds
         /\ available_request_ids(m) \in SUBSET AttemptIds
<1>1. m.events \in Seq(DeliveryEvents)
  BY DEF DeliveryMessages
<1>2. \A i \in DOMAIN m.events : m.events[i] \in DeliveryEvents
  BY <1>1, ElementOfSeq
<1>3. \A e \in DeliveryEvents : e.id \in AttemptIds
  BY DEF DeliveryEvents
<1> QED BY <1>2, <1>3 DEF EventRequests, available_request_ids

\* The next document.
LEMMA SuccessorFields ==
  ASSUME NEW f \in RecoveryDocuments, NEW p, NEW c, NEW r \in Successor(f, p, c)
  PROVE  /\ validate_recovery(r) /\ r.revision = f.revision + 1
         /\ r.catalog = c /\ r.phase = p
         /\ r.prior_catalog = f.prior_catalog /\ r.delivery = f.delivery
         /\ p \in RecoveryPhases /\ c \in CatalogDocuments => r \in RecoveryDocuments
<1>1. r = [f EXCEPT !.revision = @ + 1, !.catalog = c, !.phase = p] /\ validate_recovery(r)
  BY DEF Successor, ValidDocuments
<1>2. f = [revision |-> f.revision, prior_catalog |-> f.prior_catalog, catalog |-> f.catalog,
           delivery |-> f.delivery, phase |-> f.phase] /\ f.revision \in Nat
      /\ f.prior_catalog \in CatalogDocuments /\ f.delivery \in DeliveryMessages
  BY DEF RecoveryDocuments
<1>3. r = [revision |-> f.revision + 1, prior_catalog |-> f.prior_catalog, catalog |-> c,
           delivery |-> f.delivery, phase |-> p]
  BY <1>1, <1>2
<1> QED BY <1>1, <1>2, <1>3 DEF RecoveryDocuments

\* The fence a message puts up or resolves.
LEMMA FencingFacts ==
  ASSUME NEW c, NEW f, Good(c, f), NEW r, Fencing(c, f, r)
  PROVE  /\ Doc(r) /\ ~ IsPrepared(r)
         /\ f = None => r.revision = 1 /\ r.phase = Reconciled /\ r.prior_catalog = c
         /\ f # None => HasResolution(r) /\ is_lifecycle_resolution_of(r, f)
<1>0. Sound(c) /\ c \in CatalogDocuments
  BY SoundIsDocument DEF Good
<1>1. CASE f = None
  <2>1. PICK m \in Deliveries, t \in ObservationTimes : r \in ReconciledFences(m, c, t)
    BY <1>1 DEF Fencing
  <2>2. PICK d \in reconcile_scale_set_delivery(m, c, t) : r \in recovery_reconciled(m, c, d)
    BY <2>1 DEF ReconciledFences
  <2>3. /\ m \in DeliveryMessages /\ m.events \in Seq(DeliveryEvents)
        /\ attempt_not_after(t) \in Times
    BY DocumentsAssumption DEF DeliveryMessages
  <2>4. Sound(d)
    BY <1>0, <2>2, <2>3, ReconciledIsSound
  <2>5. Sound(d) /\ d \in CatalogDocuments
    BY <2>4, SoundIsDocument
  <2>6. /\ r = [revision |-> 1, prior_catalog |-> c, catalog |-> d, delivery |-> m,
                phase |-> Reconciled]
        /\ validate_recovery(r)
    BY <2>2 DEF recovery_reconciled, ValidDocuments
  <2>7. Reconciled \in RecoveryPhases /\ Reconciled.name = "Reconciled"
    BY DEF RecoveryPhases, Reconciled
  <2>8. r \in RecoveryDocuments
    BY <1>0, <2>3, <2>5, <2>6, <2>7 DEF RecoveryDocuments
  <2> QED BY <1>1, <2>5, <2>6, <2>7, <2>8 DEF Doc, IsPrepared
<1>2. CASE f # None
  <2>0. Doc(f) /\ f.catalog = c /\ f \in RecoveryDocuments /\ f.revision \in Nat
    BY <1>2, DocumentFields DEF Good
  <2>1. PICK m \in Deliveries : r \in ResolvedFences(f, m, c)
    BY <1>2 DEF Fencing
  <2> DEFINE ambiguous == available_request_ids(f.delivery)
  <2>2. PICK d \in reconcile_scale_set_acquisition_resolution(ambiguous, m, c) :
          r \in prepare_lifecycle_resolution(f, m, EventRequests(m), c, d)
    BY <2>1 DEF ResolvedFences
  <2> HIDE DEF ambiguous
  <2>3. m \in DeliveryMessages /\ m.events \in Seq(DeliveryEvents)
    BY DocumentsAssumption DEF DeliveryMessages
  <2>4. Sound(d)
    BY <1>0, <2>2, <2>3, ResolvedIsSound
  <2>5. Sound(d) /\ d \in CatalogDocuments
    BY <2>4, SoundIsDocument
  <2> DEFINE resolution == [base_revision |-> f.revision, delivery |-> m,
                            acquired |-> EventRequests(m), prior_catalog |-> c]
             phase == Lifecycle("LifecycleReconciled", resolution)
  <2>6. r \in Successor(f, phase, d)
    BY <2>2 DEF prepare_lifecycle_resolution
  <2>7. resolution \in Resolutions
    BY <1>0, <2>0, <2>3, RequestsAreIdentities DEF Resolutions
  <2>8. /\ resolution.base_revision = f.revision /\ resolution.prior_catalog = c
        /\ phase.name = "LifecycleReconciled" /\ phase.resolution = resolution
    BY DEF Lifecycle
  <2>9. phase \in RecoveryPhases
    <3> HIDE DEF resolution
    <3> QED BY <2>7 DEF RecoveryPhases, Lifecycle, LifecyclePhases
  <2> HIDE DEF resolution, phase
  <2>10. /\ validate_recovery(r) /\ r.catalog = d /\ r.phase = phase
         /\ r.prior_catalog = f.prior_catalog /\ r.delivery = f.delivery
         /\ r \in RecoveryDocuments
    BY <2>0, <2>5, <2>6, <2>9, SuccessorFields
  <2>11. Doc(r) /\ ~ IsPrepared(r) /\ HasResolution(r)
    BY <2>5, <2>8, <2>10 DEF Doc, IsPrepared, HasResolution, LifecyclePhases
  <2>12. is_lifecycle_resolution_of(r, f)
    BY <2>0, <2>8, <2>10, <2>11 DEF is_lifecycle_resolution_of, matches_catalog
  <2> QED BY <1>2, <2>11, <2>12
<1> QED BY <1>1, <1>2

\* The document a publication replaces alone.
LEMMA AdvanceForms ==
  ASSUME NEW f, Doc(f), NEW r \in Advances(f), r # f
  PROVE  \/ r \in Successor(f, AcknowledgementStarted, f.catalog)
         \/ \E acquired \in SUBSET AttemptIds :
              \/ r \in Successor(f, Acknowledged(acquired), f.catalog)
              \/ r \in Successor(f, AcquisitionRecoveryObserved(acquired), f.catalog)
         \/ /\ f.phase.name = "LifecycleReconciled"
            /\ r \in Successor(f, Lifecycle("LifecycleAcknowledgementStarted", f.phase.resolution),
                               f.catalog)
         \/ /\ f.phase.name = "LifecycleAcknowledgementStarted"
            /\ r \in Successor(f, Lifecycle("LifecycleAcknowledged", f.phase.resolution), f.catalog)
<1>0. f.delivery \in DeliveryMessages /\ f.phase \in RecoveryPhases
  BY DocumentFields
<1>1. available_request_ids(f.delivery) \in SUBSET AttemptIds
  BY <1>0, RequestsAreIdentities
<1>2. CASE r \in begin_ack(f)
  BY <1>2 DEF begin_ack
<1>3. CASE r \in begin_lifecycle_ack(f)
  BY <1>3 DEF begin_lifecycle_ack
<1>4. CASE r \in record_lifecycle_ack(f)
  BY <1>4 DEF record_lifecycle_ack
<1>5. ASSUME NEW acquired \in SUBSET available_request_ids(f.delivery),
             r \in record_ack_response(f, acquired)
      PROVE  r \in Successor(f, Acknowledged(acquired), f.catalog) /\ acquired \in SUBSET AttemptIds
  BY <1>1, <1>5 DEF record_ack_response
<1>6. ASSUME NEW acquired \in SUBSET available_request_ids(f.delivery),
             r \in record_recovery_acquire(f, acquired)
      PROVE  \E all \in SUBSET AttemptIds :
               r \in Successor(f, AcquisitionRecoveryObserved(all), f.catalog)
  <2> DEFINE observed == IF f.phase.name = "AcquisitionRecoveryObserved" THEN f.phase.acquired
                         ELSE {}
  <2>1. r \in Successor(f, AcquisitionRecoveryObserved(observed \cup acquired), f.catalog)
    BY <1>6 DEF record_recovery_acquire
  <2>2. observed \in SUBSET AttemptIds
    BY <1>0, PhaseFields
  <2> HIDE DEF observed
  <2>3. observed \cup acquired \in SUBSET AttemptIds
    BY <1>1, <2>2
  <2> QED BY <2>1, <2>3
<1>7. \/ r \in begin_ack(f) \/ r \in begin_lifecycle_ack(f) \/ r \in record_lifecycle_ack(f)
      \/ \E acquired \in SUBSET available_request_ids(f.delivery) :
           r \in record_ack_response(f, acquired) \/ r \in record_recovery_acquire(f, acquired)
  BY Zenon DEF Advances
<1> QED BY <1>2, <1>3, <1>4, <1>5, <1>6, <1>7

\* A successor carries the same catalog, and is not taken for a resolution.
LEMMA AdvancingFacts ==
  ASSUME NEW c, NEW f, Good(c, f), NEW r, Advancing(f, r)
  PROVE  /\ Doc(r) /\ ~ IsPrepared(r) /\ r.catalog = c /\ r # f
         /\ HasResolution(r) => ~ is_lifecycle_resolution_of(r, f)
         /\ ~ HasResolution(r) => r.phase.name \in {"AcknowledgementStarted", "Acknowledged",
                                                    "AcquisitionRecoveryObserved"}
<1>0. Doc(f) /\ f.catalog = c /\ f # None /\ r \in Advances(f)
  BY DEF Good, Advancing
<1>1. /\ f.revision \in Nat /\ Sound(c) /\ c \in CatalogDocuments /\ f \in RecoveryDocuments
      /\ f.phase \in RecoveryPhases /\ validate_recovery(f)
  BY <1>0, DocumentFields
<1>2. r # f
  BY <1>1 DEF Advancing, exact_recovery_successor
<1>3. ASSUME NEW p \in RecoveryPhases, r \in Successor(f, p, c), p.name # "SettlementPrepared"
      PROVE  Doc(r) /\ ~ IsPrepared(r) /\ r.catalog = c /\ r.phase = p
  <2>1. validate_recovery(r) /\ r.catalog = c /\ r.phase = p /\ r \in RecoveryDocuments
    BY <1>1, <1>3, SuccessorFields
  <2> QED BY <1>1, <1>3, <2>1 DEF Doc, IsPrepared
<1>4. CASE r \in Successor(f, AcknowledgementStarted, c)
  <2>1. /\ AcknowledgementStarted \in RecoveryPhases
        /\ AcknowledgementStarted.name = "AcknowledgementStarted"
    BY DEF RecoveryPhases, AcknowledgementStarted
  <2>2. Doc(r) /\ ~ IsPrepared(r) /\ r.catalog = c /\ r.phase = AcknowledgementStarted
    BY <1>3, <1>4, <2>1
  <2> QED BY <1>2, <2>1, <2>2 DEF HasResolution, LifecyclePhases
<1>5. ASSUME NEW acquired \in SUBSET AttemptIds, NEW p,
             p \in {Acknowledged(acquired), AcquisitionRecoveryObserved(acquired)},
             r \in Successor(f, p, c)
      PROVE  /\ Doc(r) /\ ~ IsPrepared(r) /\ r.catalog = c /\ ~ HasResolution(r)
             /\ r.phase.name \in {"Acknowledged", "AcquisitionRecoveryObserved"}
  <2>1. p \in RecoveryPhases /\ p.name \in {"Acknowledged", "AcquisitionRecoveryObserved"}
    BY <1>5 DEF RecoveryPhases, Acknowledged, AcquisitionRecoveryObserved
  <2>2. Doc(r) /\ ~ IsPrepared(r) /\ r.catalog = c /\ r.phase = p
    BY <1>3, <1>5, <2>1
  <2> QED BY <2>1, <2>2 DEF HasResolution, LifecyclePhases
<1>6. ASSUME NEW n \in {"LifecycleAcknowledgementStarted", "LifecycleAcknowledged"},
             f.phase.name \in {"LifecycleReconciled", "LifecycleAcknowledgementStarted"},
             r \in Successor(f, Lifecycle(n, f.phase.resolution), c)
      PROVE  /\ Doc(r) /\ ~ IsPrepared(r) /\ r.catalog = c /\ HasResolution(r)
             /\ ~ is_lifecycle_resolution_of(r, f)
  <2> DEFINE p == Lifecycle(n, f.phase.resolution)
  <2>1. f.phase.resolution \in Resolutions
    BY <1>1, <1>6, PhaseFields DEF LifecyclePhases
  <2>2. p \in RecoveryPhases /\ p.name = n /\ p.resolution = f.phase.resolution
    BY <2>1 DEF RecoveryPhases, Lifecycle, LifecyclePhases
  <2> HIDE DEF p
  <2>3. Doc(r) /\ ~ IsPrepared(r) /\ r.catalog = c /\ r.phase = p
    BY <1>3, <1>6, <2>2 DEF p
  <2>4. HasResolution(r)
    BY <2>2, <2>3 DEF HasResolution, LifecyclePhases
  <2>5. \E steps \in {1, 2} : <<f.phase.resolution, steps>> \in ResolutionSteps(f.phase)
    BY <1>6 DEF ResolutionSteps
  <2>6. PICK steps \in {1, 2} : ValidResolution(f, f.phase.resolution, steps)
    BY <1>1, <2>5 DEF validate_recovery
  <2>7. f.phase.resolution.base_revision # f.revision
    BY <2>6 DEF ValidResolution
  <2> QED BY <2>2, <2>3, <2>4, <2>7 DEF is_lifecycle_resolution_of
<1> QED BY <1>0, <1>2, <1>4, <1>5, <1>6, AdvanceForms

\* What a conclusive document says was acquired.
LEMMA EvidenceForms ==
  ASSUME NEW f, Doc(f), NEW e \in SettlementEvidence(f)
  PROVE  /\ e.proof \in SettlementProofs /\ e.acquired \in SUBSET AttemptIds
         /\ SettlementEvidence(f) = {e}
<1>0. f.phase \in RecoveryPhases
  BY DocumentFields
<1>1. CASE f.phase.name = "Acknowledged"
  <2>1. f.phase.acquired \in SUBSET AttemptIds
    BY <1>0, <1>1, PhaseFields
  <2> QED BY <1>1, <2>1 DEF SettlementEvidence, SettlementProofs
<1>2. CASE f.phase.name = "AcquisitionRecoveryObserved"
  <2>1. f.phase.acquired \in SUBSET AttemptIds
    BY <1>0, <1>2, PhaseFields
  <2> QED BY <1>2, <2>1 DEF SettlementEvidence, SettlementProofs
<1>3. CASE f.phase.name = "LifecycleAcknowledged"
  <2>1. f.phase.resolution \in Resolutions
    BY <1>0, <1>3, PhaseFields DEF LifecyclePhases
  <2>2. f.phase.resolution.acquired \in SUBSET AttemptIds
    BY <2>1 DEF Resolutions
  <2> QED BY <1>3, <2>1, <2>2 DEF SettlementEvidence, SettlementProofs
<1> QED BY <1>1, <1>2, <1>3 DEF SettlementEvidence

\* The intent to settle.
LEMMA PreparedForms ==
  ASSUME NEW f, Doc(f), NEW c, NEW k, NEW r \in prepare_settlement(f, c, k)
  PROVE  /\ matches_catalog(f, c)
         /\ \E e \in SettlementEvidence(f) :
              r \in Successor(f, SettlementPrepared(e.proof, e.acquired, k), f.catalog)
BY DEF prepare_settlement

\* A prepared intent carries the catalog it settles to.
LEMMA PreparedIntent ==
  ASSUME NEW c, NEW f, Good(c, f), f # None, NEW k, NEW r \in prepare_settlement(f, c, k)
  PROVE  IsPrepared(r) /\ r.phase.target = k
<1>1. Doc(f) /\ f \in RecoveryDocuments
  BY DEF Good, Doc
<1>2. PICK e \in SettlementEvidence(f) :
        r \in Successor(f, SettlementPrepared(e.proof, e.acquired, k), f.catalog)
  BY <1>1, PreparedForms
<1>3. r.phase = SettlementPrepared(e.proof, e.acquired, k)
  BY <1>1, <1>2, SuccessorFields
<1> QED BY <1>3 DEF SettlementPrepared, IsPrepared

\* The intent to settle is a successor that names a catalog it settles to.
LEMMA SettlesFacts ==
  ASSUME NEW c, NEW f, Good(c, f), NEW r, Settles(c, f, r)
  PROVE  /\ Doc(r) /\ IsPrepared(r) /\ r.catalog = c /\ r # f
         /\ Sound(r.phase.target) /\ r.phase.target \in SettledCatalogs(r, c)
         /\ exact_recovery_successor(f, r)
<1> DEFINE k == r.phase.target
<1>0. /\ Doc(f) /\ f.catalog = c /\ f # None /\ ~ IsPrepared(f) /\ IsPrepared(r)
      /\ k \in SettledCatalogs(f, c) /\ r \in prepare_settlement(f, c, k)
  BY DEF Good, Settles
<1>1. /\ f.revision \in Nat /\ Sound(c) /\ c \in CatalogDocuments /\ f \in RecoveryDocuments
      /\ f.delivery.events \in Seq(DeliveryEvents)
  BY <1>0, DocumentFields
<1> HIDE DEF k
<1>2. PICK e \in SettlementEvidence(f) :
        r \in Successor(f, SettlementPrepared(e.proof, e.acquired, k), c)
  BY <1>0, PreparedForms
<1>3. /\ e.proof \in SettlementProofs /\ e.acquired \in SUBSET AttemptIds
      /\ SettlementEvidence(f) = {e}
  BY <1>0, EvidenceForms
<1>4. /\ validate_recovery(r) /\ r.revision = f.revision + 1 /\ r.catalog = c
      /\ r.phase = SettlementPrepared(e.proof, e.acquired, k) /\ r.delivery = f.delivery
  BY <1>1, <1>2, SuccessorFields
<1>5. k \in SettledBy(e.acquired, f.delivery.events, c)
  <2>1. \E v \in SettlementEvidence(f) : k \in SettledBy(v.acquired, f.delivery.events, c)
    BY <1>0, Zenon DEF SettledCatalogs, SettledBy, IsPrepared
  <2> QED BY <1>3, <2>1
<1>6. Sound(k) /\ k \in CatalogDocuments
  BY <1>1, <1>5, SettledIsSound, SoundIsDocument
<1>7. SettlementPrepared(e.proof, e.acquired, k) \in RecoveryPhases
  BY <1>3, <1>6 DEF SettlementPrepared, RecoveryPhases
<1>8. r \in RecoveryDocuments
  BY <1>1, <1>2, <1>7, SuccessorFields
<1>9. k \in SettledCatalogs(r, c)
  <2>1. r.phase.acquired = e.acquired
    BY <1>4 DEF SettlementPrepared
  <2>2. k \in SettledBy(r.phase.acquired, r.delivery.events, c)
    BY <1>4, <1>5, <2>1
  <2>3. r.phase.name = "SettlementPrepared" /\ matches_catalog(r, c)
    BY <1>0, <1>4 DEF IsPrepared, matches_catalog
  <2>4. SettledCatalogs(r, c) =
          UNION {SettledBy(v.acquired, r.delivery.events, c) :
                   v \in {v \in IF r.phase.name = "SettlementPrepared" THEN {r.phase}
                                 ELSE SettlementEvidence(r) : matches_catalog(r, c)}}
    BY Zenon DEF SettledCatalogs, SettledBy
  <2>5. r.phase \in {v \in IF r.phase.name = "SettlementPrepared" THEN {r.phase}
                            ELSE SettlementEvidence(r) : matches_catalog(r, c)}
    BY <2>3
  <2> QED BY <2>2, <2>4, <2>5
<1>10. exact_recovery_successor(f, r)
  <2>1. r.phase.name = "SettlementPrepared" /\ r.catalog = f.catalog
    BY <1>0, <1>4 DEF IsPrepared
  <2>2. r \in prepare_settlement(f, r.catalog, r.phase.target)
    BY <1>0, <1>4 DEF k
  <2> QED BY <1>4, <2>1, <2>2 DEF exact_recovery_successor
<1>11. r # f
  BY <1>1, <1>4
<1> QED BY <1>0, <1>1, <1>4, <1>6, <1>8, <1>9, <1>10, <1>11 DEF Doc, k

-----------------------------------------------------------------------------
(***************************************************************************)
(* What is staged.                                                         *)
(***************************************************************************)
\* What a transaction of the coordinator makes of a catalog.
LEMMA OrdinaryFacts ==
  ASSUME NEW c, Sound(c), NEW k \in OrdinarySuccessors(c)
  PROVE  Sound(k) /\ k # c /\ validate_recovery_successor_of(k, c)
<1>0. c \in Catalogs /\ validate_catalog(c) /\ Range(c.active) = Live(c)
  BY DEF Sound, Live
<1> DEFINE Bound(a) == UNION {catalog_bind_vm_identity_after_clone(c, a.id, a.revision, v) :
                                v \in VmIdentities}
           registration(a, i) ==
             [name |-> "RecordRegistration", runner |-> [name |-> a.id, id |-> i]]
           Registered(a) == UNION {replace_attempt(c, a.id, a.revision, registration(a, i)) :
                                     i \in RunnerIds}
           Advanced(a) == UNION {replace_attempt(c, a.id, a.revision, action) :
                                   action \in OrdinaryActions}
           All(a) == retire_complete(c, a.id, a.revision) \cup Bound(a) \cup Registered(a)
                       \cup Advanced(a)
<1>1. k # c /\ \E a \in Range(c.active) : k \in All(a)
  <2>1. k \in (UNION {All(a) : a \in Range(c.active)}) \ {c}
    BY Zenon DEF OrdinarySuccessors
  <2> HIDE DEF All
  <2> QED BY <2>1
<1>2. PICK a \in Range(c.active) :
        \/ k \in retire_complete(c, a.id, a.revision)
        \/ k \in Bound(a) \/ k \in Registered(a) \/ k \in Advanced(a)
  <2> HIDE DEF Bound, Registered, Advanced
  <2> QED BY <1>1
<1>3. a \in ValidAttempts /\ a.id \in AttemptIds
  BY <1>0, DocumentsAreValid DEF ValidAttempts, Attempts
<1>4. CASE k \in retire_complete(c, a.id, a.revision)
  <2>1. Sound(k)
    BY <1>4, RetirementMoves
  <2>2. CatalogKinds(k, c)
    BY <1>4 DEF CatalogKinds, IsRetirement
  <2> QED BY <1>0, <1>1, <2>1, <2>2, TestsAreExact
<1>5. ASSUME NEW v \in VmIdentities,
             k \in catalog_bind_vm_identity_after_clone(c, a.id, a.revision, v)
      PROVE  Sound(k) /\ validate_recovery_successor_of(k, c)
  <2>1. Sound(k)
    BY <1>5, BindingSwaps DEF Swap
  <2>2. CatalogKinds(k, c)
    BY <1>0, <1>5, BindingKinds
  <2> QED BY <1>0, <2>1, <2>2, TestsAreExact
<1>6. ASSUME NEW action \in Actions, k \in replace_attempt(c, a.id, a.revision, action)
      PROVE  Sound(k) /\ validate_recovery_successor_of(k, c)
  <2>1. Sound(k)
    BY <1>6, TransitionSwaps DEF Swap
  <2>2. CatalogKinds(k, c)
    BY <1>0, <1>1, <1>6, TransitionKinds
  <2> QED BY <1>0, <2>1, <2>2, TestsAreExact
<1>7. OrdinaryActions \subseteq Actions
  BY DEF OrdinaryActions, Actions
<1>8. ASSUME NEW i \in RunnerIds PROVE registration(a, i) \in Actions
  BY <1>3 DEF Actions, RunnerReferences
<1>9. CASE k \in Bound(a)
  BY <1>1, <1>5, <1>9
<1>10. CASE k \in Registered(a)
  <2>1. PICK i \in RunnerIds : k \in replace_attempt(c, a.id, a.revision, registration(a, i))
    BY <1>10
  <2> HIDE DEF registration
  <2> QED BY <1>1, <1>6, <1>8, <2>1
<1>11. CASE k \in Advanced(a)
  BY <1>1, <1>6, <1>7, <1>11
<1> QED BY <1>1, <1>2, <1>4, <1>9, <1>10, <1>11

\* Neither mark is a document.
LEMMA MarksAreNoDocuments ==
  /\ Torn # None
  /\ \A c : Sound(c) => c \in CatalogDocuments
  /\ \A c : Sound(c) => c # None /\ c # Torn
  /\ \A r : Doc(r) => r # None /\ r # Torn
<1>1. \A s : s \in Seq(ValidAttempts) => s \in Seq(Attempts)
  <2>1. ValidAttempts \subseteq Attempts
    BY DEF ValidAttempts
  <2> QED BY <2>1
<1>2. \A c : Sound(c) => c \in CatalogDocuments
  BY <1>1 DEF Sound, Catalogs, CatalogDocuments
<1> QED BY <1>2, DocumentsAssumption DEF Doc

\* A fence that stages no more than itself is not ahead of its catalog.
LEMMA StagedIsNotAhead ==
  ASSUME NEW c, NEW x, NEW f, NEW y, Resting(c, x, f, y)
  PROVE  /\ f = None \/ ~ IsPrepared(f)
         /\ ~ (/\ y \notin {None, Torn} /\ y.catalog = c
               /\ IF f = None THEN y.phase = Reconciled /\ y.prior_catalog # c
                  ELSE is_lifecycle_resolution_of(y, f) /\ f.catalog # c)
<1>1. Good(c, f) /\ Staged(c, x, f, y)
  BY DEF Resting
<1>2. CASE f # None
  BY <1>1, <1>2 DEF Good
<1>3. CASE f = None
  <2>1. ASSUME Single(c, f, y) PROVE y.prior_catalog = c
    BY <1>1, <1>3, <2>1, FencingFacts DEF Single, Advancing
  <2>2. ~ Settles(c, f, y)
    BY <1>3 DEF Settles
  <2> QED BY <1>1, <1>3, <2>1, <2>2 DEF Staged, Pair
<1> QED BY <1>2, <1>3

\* The abstract catalog and fence of each shape.
LEMMA AbstractPair ==
  ASSUME NEW d
  PROVE  /\ Shape(d, Resting) => CatalogOf(d) = d["catalog"] /\ FenceOf(d) = d["delivery"]
         /\ Shape(d, Ahead) => CatalogOf(d) = d["catalog"] /\ FenceOf(d) = d["deliveryStage"]
         /\ Shape(d, Decided) =>
              CatalogOf(d) = d["delivery"].phase.target /\ FenceOf(d) = None
<1> DEFINE c == d["catalog"]
           x == d["catalogStage"]
           f == d["delivery"]
           y == d["deliveryStage"]
<1>0. Settling(d) <=> f # None /\ IsPrepared(f)
  BY DEF Settling, Is, Exists, IsPrepared
<1>1. AheadOfFence(d) <=>
        /\ y \notin {None, Torn} /\ y.catalog = c
        /\ IF f = None THEN y.phase = Reconciled /\ y.prior_catalog # c
           ELSE is_lifecycle_resolution_of(y, f) /\ f.catalog # c
  BY DEF AheadOfFence, matches_catalog, matches_prior_catalog
<1> HIDE DEF c, x, f, y
<1>2. ASSUME Resting(c, x, f, y)
      PROVE  ~ Settling(d) /\ ~ AheadOfFence(d)
  BY <1>0, <1>1, <1>2, StagedIsNotAhead
<1>3. ASSUME Ahead(c, x, f, y)
      PROVE  ~ Settling(d) /\ AheadOfFence(d)
  BY <1>0, <1>1, <1>3, MarksAreNoDocuments DEF Ahead
<1>4. ASSUME Decided(c, x, f, y)
      PROVE  Settling(d)
  BY <1>0, <1>4, MarksAreNoDocuments DEF Decided
<1> QED BY <1>2, <1>3, <1>4 DEF Shape, CatalogOf, FenceOf, c, x, f, y

-----------------------------------------------------------------------------
(***************************************************************************)
(* Directories that differ in a stage.                                     *)
(***************************************************************************)
\* Stages whose bytes were not synchronized may be torn.
LEMMA TearKeeps ==
  ASSUME NEW d, Legal(d), NEW ns, DirtyFits(d, ns), NEW t \in SUBSET ns
  PROVE  /\ Legal(Tear(d, t))
         /\ CatalogOf(Tear(d, t)) = CatalogOf(d) /\ FenceOf(Tear(d, t)) = FenceOf(d)
         /\ \A as : Cleanable(d, as) => Cleanable(Tear(d, t), as)
<1> DEFINE e == Tear(d, t)
           c == d["catalog"]
           x == d["catalogStage"]
           f == d["delivery"]
           y == d["deliveryStage"]
<1>1. /\ t \subseteq Stages /\ \A n \in t : d[n] # None
      /\ "deliveryStage" \in t => x = None /\ ~ Ahead(c, x, f, y)
  BY DEF DirtyFits, Shape
<1>2. /\ IsDirectory(e) /\ e["catalog"] = c /\ e["delivery"] = f
      /\ e["catalogStage"] = (IF "catalogStage" \in t THEN Torn ELSE x)
      /\ e["deliveryStage"] = (IF "deliveryStage" \in t THEN Torn ELSE y)
  BY <1>1 DEF IsDirectory, Tear, Names, Stages
<1> DEFINE X == e["catalogStage"]
           Y == e["deliveryStage"]
<1>3. /\ "catalogStage" \in t => x # None /\ X = Torn /\ Y = y
      /\ "catalogStage" \notin t => X = x
      /\ "deliveryStage" \in t => x = None /\ X = x /\ y # None /\ Y = Torn
                                    /\ ~ Ahead(c, x, f, y)
      /\ "deliveryStage" \notin t => Y = y
  BY <1>1, <1>2
<1>4. Shape(d, Resting) <=> Resting(c, x, f, y)
  BY DEF Shape
<1>5. Shape(d, Ahead) <=> Ahead(c, x, f, y)
  BY DEF Shape
<1>6. Shape(d, Decided) <=> Decided(c, x, f, y)
  BY DEF Shape
<1>7. Shape(e, Resting) <=> Resting(c, X, f, Y)
  BY <1>2 DEF Shape
<1>8. Shape(e, Ahead) <=> Ahead(c, X, f, Y)
  BY <1>2 DEF Shape
<1>9. Shape(e, Decided) <=> Decided(c, X, f, Y)
  BY <1>2 DEF Shape
<1> HIDE DEF e, c, x, f, y, X, Y
<1>10. ASSUME Resting(c, x, f, y) PROVE Resting(c, X, f, Y)
  <2>1. Good(c, f) /\ Staged(c, x, f, y) /\ Torn # None /\ Torn # c
    BY <1>10, MarksAreNoDocuments DEF Resting, Good
  <2>2. CASE "deliveryStage" \in t
    BY <1>3, <2>1, <2>2 DEF Resting, Staged
  <2>3. CASE "deliveryStage" \notin t /\ "catalogStage" \in t
    BY <1>3, <2>1, <2>3 DEF Resting, Staged
  <2> QED BY <1>3, <1>10, <2>2, <2>3
<1>11. ASSUME Ahead(c, x, f, y) PROVE X = x /\ Y = y
  BY <1>3, <1>11 DEF Ahead
<1>12. ASSUME Decided(c, x, f, y) PROVE Decided(c, X, f, Y)
  BY <1>3, <1>12 DEF Decided
<1>13. Resting(c, x, f, y) \/ Ahead(c, x, f, y) \/ Decided(c, x, f, y)
  BY <1>4, <1>5, <1>6 DEF Legal
<1>14. Legal(e)
  BY <1>2, <1>7, <1>8, <1>9, <1>10, <1>11, <1>12, <1>13 DEF Legal
<1>15. e["catalog"] = c /\ e["delivery"] = f /\ Y = e["deliveryStage"]
       /\ d["catalog"] = c /\ d["delivery"] = f /\ y = d["deliveryStage"]
  BY <1>2 DEF c, f, y, Y
<1>16. CatalogOf(e) = CatalogOf(d) /\ FenceOf(e) = FenceOf(d)
  <2>1. CASE Resting(c, x, f, y)
    BY <1>4, <1>7, <1>10, <1>15, <2>1, AbstractPair
  <2>2. CASE Ahead(c, x, f, y)
    BY <1>5, <1>8, <1>11, <1>15, <2>2, AbstractPair
  <2>3. CASE Decided(c, x, f, y)
    BY <1>6, <1>9, <1>12, <1>15, <2>3, AbstractPair
  <2> QED BY <1>13, <2>1, <2>2, <2>3
<1>17. ASSUME NEW as, Cleanable(d, as) PROVE Cleanable(e, as)
  <2>1. /\ as \subseteq Stages
        /\ "deliveryStage" \in as /\ y \notin {None, Torn} =>
             IsPrepared(y) \/ (x = None /\ ~ Ahead(c, x, f, y))
    BY <1>5, <1>17 DEF Cleanable, x, y
  <2>2. "deliveryStage" \in as /\ Y \notin {None, Torn} =>
             IsPrepared(Y) \/ (X = None /\ ~ Ahead(c, X, f, Y))
    BY <1>3, <2>1
  <2> QED BY <1>8, <2>1, <2>2 DEF Cleanable, X, Y
<1> QED BY <1>14, <1>16, <1>17 DEF e

\* The stages an error removes.
Cleaned(d, ns) == [n \in Names |-> IF n \in ns THEN None ELSE d[n]]

\* Guarded stages may be removed.
LEMMA CleanKeeps ==
  ASSUME NEW d, Legal(d), NEW as, Cleanable(d, as), NEW t \in SUBSET as
  PROVE  /\ Legal(Cleaned(d, t))
         /\ CatalogOf(Cleaned(d, t)) = CatalogOf(d) /\ FenceOf(Cleaned(d, t)) = FenceOf(d)
         /\ \A ns : DirtyFits(d, ns) => DirtyFits(Cleaned(d, t), ns \ t)
<1> DEFINE e == Cleaned(d, t)
           c == d["catalog"]
           x == d["catalogStage"]
           f == d["delivery"]
           y == d["deliveryStage"]
<1>1. /\ t \subseteq Stages
      /\ "deliveryStage" \in t /\ y \notin {None, Torn} =>
           IsPrepared(y) \/ (x = None /\ ~ Ahead(c, x, f, y))
  BY DEF Cleanable, Shape
<1>2. /\ IsDirectory(e) /\ e["catalog"] = c /\ e["delivery"] = f
      /\ e["catalogStage"] = (IF "catalogStage" \in t THEN None ELSE x)
      /\ e["deliveryStage"] = (IF "deliveryStage" \in t THEN None ELSE y)
  BY <1>1 DEF IsDirectory, Cleaned, Names, Stages
<1> DEFINE X == e["catalogStage"]
           Y == e["deliveryStage"]
<1>3. /\ X \in {x, None} /\ Y \in {y, None}
      /\ Y # y => Y = None /\ (y \notin {None, Torn} =>
                                 IsPrepared(y) \/ (x = None /\ ~ Ahead(c, x, f, y)))
  BY <1>1, <1>2
<1>4. Shape(d, Resting) <=> Resting(c, x, f, y)
  BY DEF Shape
<1>5. Shape(d, Ahead) <=> Ahead(c, x, f, y)
  BY DEF Shape
<1>6. Shape(d, Decided) <=> Decided(c, x, f, y)
  BY DEF Shape
<1>7. Shape(e, Resting) <=> Resting(c, X, f, Y)
  BY <1>2 DEF Shape
<1>8. Shape(e, Ahead) <=> Ahead(c, X, f, Y)
  BY <1>2 DEF Shape
<1>9. Shape(e, Decided) <=> Decided(c, X, f, Y)
  BY <1>2 DEF Shape
<1>a. ASSUME NEW ns, DirtyFits(d, ns) PROVE DirtyFits(e, ns \ t)
  <2>1. /\ ns \subseteq Stages /\ \A n \in ns : d[n] # None
        /\ "deliveryStage" \in ns => x = None /\ ~ Ahead(c, x, f, y)
    BY <1>a, <1>5 DEF DirtyFits
  <2>2. \A n \in ns \ t : e[n] # None
    BY <2>1 DEF Cleaned, Names, Stages
  <2>3. "deliveryStage" \in ns \ t => X = None /\ Y = y /\ X = x /\ ~ Ahead(c, X, f, Y)
    BY <1>2, <2>1
  <2>4. "deliveryStage" \in ns \ t => e["catalogStage"] = None /\ ~ Shape(e, Ahead)
    BY <1>8, <2>3
  <2> HIDE DEF e
  <2> QED BY <2>1, <2>2, <2>4 DEF DirtyFits
<1> HIDE DEF e, c, x, f, y, X, Y
<1>10. ASSUME Resting(c, x, f, y) PROVE Resting(c, X, f, Y)
  <2>1. Good(c, f) /\ Staged(c, x, f, y) /\ Torn # None /\ Torn # c
    BY <1>10, MarksAreNoDocuments DEF Resting, Good
  <2>2. Doc(y) => y \notin {None, Torn}
    BY MarksAreNoDocuments
  <2>3. CASE Y = y
    BY <1>3, <2>1, <2>3 DEF Resting, Staged
  <2>4. CASE Y # y /\ X = None
    BY <1>3, <2>1, <2>4 DEF Resting, Staged
  <2>5. CASE Y # y /\ X = x /\ x # None
    <3>1. Y = None /\ (Doc(y) => IsPrepared(y))
      BY <1>3, <2>2, <2>5
    <3>2. Doc(y) => ~ Pair(c, f, y)
      BY <2>1, <3>1, FencingFacts DEF Pair
    <3>3. Settles(c, f, y) => f # None
      BY DEF Settles
    <3> QED BY <2>1, <2>5, <3>1, <3>2, <3>3 DEF Resting, Staged
  <2> QED BY <1>3, <2>3, <2>4, <2>5
<1>11. ASSUME Ahead(c, x, f, y) PROVE X = x /\ Y = y
  BY <1>3, <1>11, MarksAreNoDocuments DEF Ahead
<1>12. ASSUME Decided(c, x, f, y) PROVE Decided(c, X, f, Y)
  BY <1>3, <1>12 DEF Decided
<1>13. Resting(c, x, f, y) \/ Ahead(c, x, f, y) \/ Decided(c, x, f, y)
  BY <1>4, <1>5, <1>6 DEF Legal
<1>14. Legal(e)
  BY <1>2, <1>7, <1>8, <1>9, <1>10, <1>11, <1>12, <1>13 DEF Legal
<1>15. e["catalog"] = c /\ e["delivery"] = f /\ Y = e["deliveryStage"]
       /\ d["catalog"] = c /\ d["delivery"] = f /\ y = d["deliveryStage"]
  BY <1>2 DEF c, f, y, Y
<1>16. CatalogOf(e) = CatalogOf(d) /\ FenceOf(e) = FenceOf(d)
  <2>1. CASE Resting(c, x, f, y)
    BY <1>4, <1>7, <1>10, <1>15, <2>1, AbstractPair
  <2>2. CASE Ahead(c, x, f, y)
    BY <1>5, <1>8, <1>11, <1>15, <2>2, AbstractPair
  <2>3. CASE Decided(c, x, f, y)
    BY <1>6, <1>9, <1>12, <1>15, <2>3, AbstractPair
  <2> QED BY <1>13, <2>1, <2>2, <2>3
<1> QED BY <1>14, <1>16, <1>a DEF e

-----------------------------------------------------------------------------
(***************************************************************************)
(* One change of a directory at a time.                                    *)
(***************************************************************************)
\* What an edit leaves alone.
LEMMA EditFields ==
  ASSUME NEW b, IsDirectory(b), NEW n \in Names, NEW v
  PROVE  /\ IsDirectory(Edit(b, n, v)) /\ Edit(b, n, v)[n] = v
         /\ \A m \in Names \ {n} : Edit(b, n, v)[m] = b[m]
BY DEF IsDirectory, Edit

\* What a rename leaves alone.
LEMMA MoveFields ==
  ASSUME NEW b, IsDirectory(b), NEW n \in Stages, NEW to \in {"catalog", "delivery"}
  PROVE  /\ IsDirectory(Moved(b, n, to)) /\ Moved(b, n, to)[to] = b[n]
         /\ Moved(b, n, to)[n] = None
         /\ \A m \in Names \ {n, to} : Moved(b, n, to)[m] = b[m]
<1> DEFINE d == [b EXCEPT ![to] = b[n]]
<1>1. n \in Names /\ to \in Names /\ n # to
  BY DEF Stages, Names
<1>2. IsDirectory(d) /\ d[to] = b[n] /\ \A m \in Names \ {to} : d[m] = b[m]
  BY <1>1 DEF IsDirectory
<1>3. Moved(b, n, to) = [d EXCEPT ![n] = None]
  BY DEF Moved
<1> HIDE DEF d
<1> QED BY <1>1, <1>2, <1>3 DEF IsDirectory

\* Nothing happens to the abstract pair, or something after nothing.
LEMMA BesideFollows ==
  ASSUME NEW d, NEW e, Beside(d, e)
  PROVE  Follows(d, e) /\ \A g : Follows(e, g) => Follows(d, g)
BY DEF Follows, Beside, AbsStep, FenceMoves

\* A stage changes beside a pair at rest, or beside a settlement's intent.
LEMMA StageBeside ==
  ASSUME NEW b, IsDirectory(b), NEW n \in Stages, NEW v,
         \/ Shape(b, Resting) /\ Shape(Edit(b, n, v), Resting)
         \/ Shape(b, Decided) /\ Shape(Edit(b, n, v), Decided)
  PROVE  Beside(b, Edit(b, n, v))
<1> DEFINE e == Edit(b, n, v)
<1>1. IsDirectory(e) /\ e["catalog"] = b["catalog"] /\ e["delivery"] = b["delivery"]
  BY EditFields DEF Names, Stages
<1> HIDE DEF e
<1>2. Legal(e)
  BY <1>1 DEF Legal, e
<1>3. CatalogOf(e) = CatalogOf(b) /\ FenceOf(e) = FenceOf(b)
  BY <1>1, AbstractPair DEF e
<1> QED BY <1>2, <1>3 DEF Beside, e

\* The shapes that are at rest.
LEMMA RestingShapes ==
  ASSUME NEW c, NEW x, NEW f, NEW y,
         \/ Clean(c, x, f, y) \/ PairStaged(c, x, f, y) \/ SingleStaged(c, x, f, y)
         \/ OrdinaryStaged(c, x, f, y) \/ ChangeStaged(c, x, f, y) \/ SameStaged(c, x, f, y)
  PROVE  Resting(c, x, f, y)
BY DEF Resting, Staged, Clean, PairStaged, SingleStaged, OrdinaryStaged, ChangeStaged, SameStaged

\* A shape at rest is not ahead.
LEMMA RestIsNotAhead ==
  ASSUME NEW c, NEW x, NEW f, NEW y, Resting(c, x, f, y)
  PROVE  ~ Ahead(c, x, f, y)
BY StagedIsNotAhead, MarksAreNoDocuments DEF Ahead

\* A document is staged beside a clean pair.
LEMMA StageFence ==
  ASSUME NEW b, IsDirectory(b), Shape(b, Clean), NEW r, Doc(r),
         \/ Single(b["catalog"], b["delivery"], r) \/ Pair(b["catalog"], b["delivery"], r)
         \/ Settles(b["catalog"], b["delivery"], r)
  PROVE  /\ \A v \in {r, Torn} : /\ Beside(b, Edit(b, "deliveryStage", v))
                                 /\ Cleanable(Edit(b, "deliveryStage", v), {"deliveryStage"})
         /\ DirtyFits(Edit(b, "deliveryStage", r), {"deliveryStage"})
         /\ b["deliveryStage"] = None
<1> DEFINE c == b["catalog"]
           f == b["delivery"]
<1>1. Good(c, f) /\ b["catalogStage"] = None /\ b["deliveryStage"] = None /\ Shape(b, Resting)
  BY RestingShapes DEF Clean, Shape
<1>2. ASSUME NEW v \in {r, Torn}
      PROVE  /\ Shape(Edit(b, "deliveryStage", v), Resting)
             /\ ~ Shape(Edit(b, "deliveryStage", v), Ahead)
             /\ Edit(b, "deliveryStage", v)["catalogStage"] = None
             /\ Edit(b, "deliveryStage", v)["deliveryStage"] = v
  <2> DEFINE e == Edit(b, "deliveryStage", v)
  <2>1. /\ IsDirectory(e) /\ e["catalog"] = c /\ e["delivery"] = f
        /\ e["catalogStage"] = None /\ e["deliveryStage"] = v
    BY <1>1, EditFields DEF Names
  <2> HIDE DEF e, c, f
  <2>2. Resting(c, None, f, v)
    BY <1>1 DEF Resting, Staged, c, f
  <2>3. ~ Ahead(c, None, f, v)
    BY <2>2, RestIsNotAhead
  <2>4. Shape(e, Resting) /\ ~ Shape(e, Ahead)
    BY <2>1, <2>2, <2>3 DEF Shape
  <2> QED BY <2>1, <2>4 DEF e
<1>3. r # None
  BY MarksAreNoDocuments
<1>4. \A v \in {r, Torn} : Beside(b, Edit(b, "deliveryStage", v))
  BY <1>1, <1>2, StageBeside DEF Stages
<1>5. \A v \in {r, Torn} : Cleanable(Edit(b, "deliveryStage", v), {"deliveryStage"})
  BY <1>2 DEF Cleanable, Stages
<1>6. DirtyFits(Edit(b, "deliveryStage", r), {"deliveryStage"})
  BY <1>2, <1>3 DEF DirtyFits, Stages
<1> QED BY <1>1, <1>4, <1>5, <1>6

\* A catalog is staged beside a clean pair, a staged fence or an intent.
LEMMA StageCatalog ==
  ASSUME NEW b, IsDirectory(b), b["catalogStage"] = None, NEW k, NEW as \in SUBSET Stages,
         LET c == b["catalog"]  f == b["delivery"]  y == b["deliveryStage"] IN
         \/ Shape(b, Clean) /\ f = None /\ k \in OrdinarySuccessors(c)
         \/ Shape(b, PairStaged) /\ k = y.catalog /\ "deliveryStage" \notin as
         \/ Shape(b, ChangeStaged) /\ k = y.phase.target
         \/ Shape(b, Decided) /\ f.phase.target # c /\ k = f.phase.target
  PROVE  /\ \A v \in {k, Torn} : /\ Beside(b, Edit(b, "catalogStage", v))
                                 /\ Cleanable(Edit(b, "catalogStage", v), as)
         /\ DirtyFits(Edit(b, "catalogStage", k), {"catalogStage"})
         /\ Sound(k)
<1> DEFINE c == b["catalog"]
           f == b["delivery"]
           y == b["deliveryStage"]
           Case1 == Clean(c, None, f, y) /\ f = None /\ k \in OrdinarySuccessors(c)
           Case2 == PairStaged(c, None, f, y) /\ k = y.catalog /\ "deliveryStage" \notin as
           Case3 == ChangeStaged(c, None, f, y) /\ k = y.phase.target
           Case4 == Decided(c, None, f, y) /\ f.phase.target # c /\ k = f.phase.target
<1>0. Case1 \/ Case2 \/ Case3 \/ Case4
  BY DEF Shape
<1>1. Sound(k)
  <2> HIDE DEF c, f, y
  <2>1. CASE Case1
    BY <2>1, OrdinaryFacts DEF Clean, Good
  <2>2. CASE Case2
    BY <2>2 DEF PairStaged, Doc
  <2>3. CASE Case3
    BY <2>3, SettlesFacts DEF ChangeStaged
  <2>4. CASE Case4
    BY <2>4 DEF Decided
  <2> QED BY <1>0, <2>1, <2>2, <2>3, <2>4
<1>2. k # None /\ k # Torn
  BY <1>1, MarksAreNoDocuments
<1>3. ASSUME NEW v \in {k, Torn}
      PROVE  /\ Beside(b, Edit(b, "catalogStage", v)) /\ Cleanable(Edit(b, "catalogStage", v), as)
  <2> DEFINE e == Edit(b, "catalogStage", v)
  <2>1. /\ IsDirectory(e) /\ e["catalog"] = c /\ e["delivery"] = f
        /\ e["catalogStage"] = v /\ e["deliveryStage"] = y
    BY EditFields DEF Names
  <2>2. Shape(b, Resting) <=> Resting(c, None, f, y)
    BY DEF Shape
  <2>3. Shape(b, Decided) <=> Decided(c, None, f, y)
    BY DEF Shape
  <2> HIDE DEF e, c, f, y
  <2>4. \/ Resting(c, None, f, y) /\ Resting(c, v, f, y)
        \/ Decided(c, None, f, y) /\ Decided(c, v, f, y)
    <3>1. CASE Case1
      BY <3>1, RestingShapes DEF Resting, Staged, Clean
    <3>2. CASE Case2
      BY <3>2, RestingShapes DEF Resting, Staged, PairStaged
    <3>3. CASE Case3
      BY <3>3, RestingShapes DEF Resting, Staged, ChangeStaged
    <3>4. CASE Case4
      BY <3>4 DEF Decided
    <3> QED BY <1>0, <3>1, <3>2, <3>3, <3>4
  <2>5. \/ Shape(b, Resting) /\ Shape(e, Resting)
        \/ Shape(b, Decided) /\ Shape(e, Decided)
    BY <2>1, <2>2, <2>3, <2>4 DEF Shape
  <2>6. Beside(b, e)
    BY <2>5, StageBeside DEF e, Stages
  <2>7. "deliveryStage" \in as /\ y \notin {None, Torn} => IsPrepared(y)
    <3>1. CASE Case1
      BY <3>1 DEF Clean
    <3>2. CASE Case2
      BY <3>2
    <3>3. CASE Case3
      BY <3>3, SettlesFacts DEF ChangeStaged
    <3>4. CASE Case4
      BY <3>4 DEF Decided
    <3> QED BY <1>0, <3>1, <3>2, <3>3, <3>4
  <2>8. Cleanable(e, as)
    BY <2>1, <2>7 DEF Cleanable
  <2> QED BY <2>6, <2>8 DEF e
<1>4. DirtyFits(Edit(b, "catalogStage", k), {"catalogStage"})
  <2>1. Edit(b, "catalogStage", k)["catalogStage"] = k
    BY EditFields DEF Names
  <2> QED BY <1>2, <2>1 DEF DirtyFits, Stages
<1> QED BY <1>1, <1>3, <1>4

\* A rename over the catalog: an ordinary successor takes effect, the catalog of
\* a pair goes ahead of its fence, a settled one follows its intent.
LEMMA MoveCatalog ==
  ASSUME NEW b, IsDirectory(b)
  PROVE  LET e == Moved(b, "catalogStage", "catalog") IN
         /\ Shape(b, OrdinaryStaged) => Follows(b, e) /\ Shape(e, Clean)
         /\ Shape(b, PairStaged) /\ b["catalogStage"] = b["deliveryStage"].catalog =>
              Follows(b, e) /\ Shape(e, Ahead)
         /\ /\ Shape(b, Decided) /\ b["catalogStage"] = b["delivery"].phase.target
            /\ b["delivery"].phase.target # b["catalog"]
            => /\ Follows(b, e) /\ Shape(e, Decided) /\ e["catalogStage"] = None
               /\ e["catalog"] = e["delivery"].phase.target
<1> DEFINE e == Moved(b, "catalogStage", "catalog")
           c == b["catalog"]
           x == b["catalogStage"]
           f == b["delivery"]
           y == b["deliveryStage"]
<1>1. /\ IsDirectory(e) /\ e["catalog"] = x /\ e["catalogStage"] = None
      /\ e["delivery"] = f /\ e["deliveryStage"] = y
  BY MoveFields DEF Names, Stages
<1>2. /\ Shape(b, OrdinaryStaged) <=> OrdinaryStaged(c, x, f, y)
      /\ Shape(b, PairStaged) <=> PairStaged(c, x, f, y)
      /\ Shape(b, Decided) <=> Decided(c, x, f, y)
      /\ Shape(b, Resting) <=> Resting(c, x, f, y)
  BY DEF Shape
<1>3. /\ Shape(e, Clean) <=> Clean(x, None, f, y)
      /\ Shape(e, Ahead) <=> Ahead(x, None, f, y)
      /\ Shape(e, Decided) <=> Decided(x, None, f, y)
      /\ Shape(e, Resting) <=> Resting(x, None, f, y)
  BY <1>1 DEF Shape
<1> HIDE DEF e
<1>4. /\ Shape(b, Resting) => CatalogOf(b) = c /\ FenceOf(b) = f
      /\ Shape(b, Decided) => CatalogOf(b) = f.phase.target /\ FenceOf(b) = None
      /\ Shape(e, Resting) => CatalogOf(e) = x /\ FenceOf(e) = f
      /\ Shape(e, Ahead) => CatalogOf(e) = x /\ FenceOf(e) = y
      /\ Shape(e, Decided) => CatalogOf(e) = f.phase.target /\ FenceOf(e) = None
  BY <1>1, AbstractPair
<1> HIDE DEF c, x, f, y
<1>5. ASSUME OrdinaryStaged(c, x, f, y) PROVE Follows(b, e) /\ Shape(e, Clean)
  <2>1. Sound(x) /\ f = None /\ y = None /\ x \in OrdinarySuccessors(c) /\ Resting(c, x, f, y)
    BY <1>5, OrdinaryFacts, RestingShapes DEF OrdinaryStaged, Good
  <2>2. Clean(x, None, f, y)
    BY <2>1 DEF Clean, Good
  <2>3. Resting(x, None, f, y)
    BY <2>2, RestingShapes
  <2> QED BY <1>1, <1>2, <1>3, <1>4, <2>1, <2>2, <2>3 DEF Follows, Legal, AbsStep, FenceMoves
<1>6. ASSUME PairStaged(c, x, f, y), x = y.catalog PROVE Follows(b, e) /\ Shape(e, Ahead)
  <2>1. Good(c, f) /\ Doc(y) /\ Pair(c, f, y) /\ Resting(c, x, f, y)
    BY <1>6, RestingShapes DEF PairStaged
  <2>2. /\ ~ IsPrepared(y) /\ y.catalog # c /\ Fencing(c, f, y)
        /\ f = None => y.revision = 1 /\ y.phase = Reconciled /\ y.prior_catalog = c
        /\ f # None => is_lifecycle_resolution_of(y, f)
    BY <2>1, FencingFacts DEF Pair
  <2>3. f # None => Doc(f) /\ ~ IsPrepared(f) /\ f.catalog = c
    BY <2>1 DEF Good
  <2>4. Ahead(x, None, f, y)
    BY <1>6, <2>1, <2>2, <2>3 DEF Ahead
  <2>5. FenceMoves(c, f, x, y)
    BY <1>6, <2>2 DEF Fencing, FenceMoves
  <2> QED BY <1>1, <1>2, <1>3, <1>4, <2>1, <2>4, <2>5 DEF Follows, Legal, AbsStep
<1>7. ASSUME Decided(c, x, f, y), x = f.phase.target, f.phase.target # c
      PROVE  /\ Follows(b, e) /\ Shape(e, Decided) /\ e["catalogStage"] = None
             /\ e["catalog"] = e["delivery"].phase.target
  <2>1. Decided(x, None, f, y)
    BY <1>7 DEF Decided
  <2>2. Follows(b, e)
    BY <1>1, <1>2, <1>3, <1>4, <1>7, <2>1, BesideFollows DEF Legal, Beside
  <2> QED BY <1>1, <1>3, <1>7, <2>1, <2>2
<1> QED BY <1>2, <1>5, <1>6, <1>7 DEF e, c, x, f, y

\* A rename over the fence: a single document or the fence of a pair takes its
\* place, or the settlement is decided.
LEMMA MoveDelivery ==
  ASSUME NEW b, IsDirectory(b)
  PROVE  LET e == Moved(b, "deliveryStage", "delivery") IN
         /\ Shape(b, SingleStaged) \/ Shape(b, Ahead) => Follows(b, e) /\ Shape(e, Clean)
         /\ Shape(b, ChangeStaged) \/ Shape(b, SameStaged) =>
              /\ Follows(b, e) /\ Shape(e, Decided) /\ e["catalog"] = b["catalog"]
              /\ e["catalogStage"] = b["catalogStage"] /\ e["deliveryStage"] = None
              /\ e["delivery"] = b["deliveryStage"]
<1> DEFINE e == Moved(b, "deliveryStage", "delivery")
           c == b["catalog"]
           x == b["catalogStage"]
           f == b["delivery"]
           y == b["deliveryStage"]
<1>1. /\ IsDirectory(e) /\ e["catalog"] = c /\ e["catalogStage"] = x
      /\ e["delivery"] = y /\ e["deliveryStage"] = None
  BY MoveFields DEF Names, Stages
<1>2. /\ Shape(b, SingleStaged) <=> SingleStaged(c, x, f, y)
      /\ Shape(b, ChangeStaged) <=> ChangeStaged(c, x, f, y)
      /\ Shape(b, SameStaged) <=> SameStaged(c, x, f, y)
      /\ Shape(b, Ahead) <=> Ahead(c, x, f, y)
      /\ Shape(b, Resting) <=> Resting(c, x, f, y)
  BY DEF Shape
<1>3. /\ Shape(e, Clean) <=> Clean(c, x, y, None)
      /\ Shape(e, Decided) <=> Decided(c, x, y, None)
      /\ Shape(e, Resting) <=> Resting(c, x, y, None)
  BY <1>1 DEF Shape
<1> HIDE DEF e
<1>4. /\ Shape(b, Resting) => CatalogOf(b) = c /\ FenceOf(b) = f
      /\ Shape(b, Ahead) => CatalogOf(b) = c /\ FenceOf(b) = y
      /\ Shape(e, Resting) => CatalogOf(e) = c /\ FenceOf(e) = y
      /\ Shape(e, Decided) => CatalogOf(e) = y.phase.target /\ FenceOf(e) = None
  BY <1>1, AbstractPair
<1> HIDE DEF c, x, f, y
<1>5. ASSUME SingleStaged(c, x, f, y) PROVE Follows(b, e) /\ Shape(e, Clean)
  <2>1. Good(c, f) /\ Doc(y) /\ x = None /\ y.catalog = c /\ Resting(c, x, f, y)
        /\ (Fencing(c, f, y) \/ Advancing(f, y))
    BY <1>5, RestingShapes DEF SingleStaged, Single
  <2>2. ~ IsPrepared(y)
    BY <2>1, FencingFacts, AdvancingFacts
  <2>3. Clean(c, x, y, None)
    BY <2>1, <2>2 DEF Clean, Good
  <2>4. Resting(c, x, y, None)
    BY <2>3, RestingShapes
  <2>5. FenceMoves(c, f, c, y)
    BY <2>1 DEF Fencing, Advancing, FenceMoves
  <2> QED BY <1>1, <1>2, <1>3, <1>4, <2>1, <2>3, <2>4, <2>5 DEF Follows, Legal, AbsStep
<1>6. ASSUME Ahead(c, x, f, y) PROVE Follows(b, e) /\ Shape(e, Clean)
  <2>1. Clean(c, x, y, None)
    BY <1>6 DEF Ahead, Clean, Good, Doc
  <2>2. Resting(c, x, y, None)
    BY <2>1, RestingShapes
  <2> QED BY <1>1, <1>2, <1>3, <1>4, <1>6, <2>1, <2>2, BesideFollows DEF Legal, Beside
<1>7. ASSUME ChangeStaged(c, x, f, y) \/ SameStaged(c, x, f, y)
      PROVE  Follows(b, e) /\ Shape(e, Decided)
  <2>1. Good(c, f) /\ Doc(y) /\ Settles(c, f, y) /\ Resting(c, x, f, y)
        /\ (x = None \/ (y.phase.target # c /\ x = y.phase.target))
    BY <1>7, RestingShapes DEF ChangeStaged, SameStaged
  <2>2. /\ IsPrepared(y) /\ y.catalog = c /\ Sound(y.phase.target)
        /\ y.phase.target \in SettledCatalogs(y, c)
    BY <2>1, SettlesFacts
  <2>3. Decided(c, x, y, None)
    BY <2>1, <2>2 DEF Decided
  <2>4. FenceMoves(c, f, y.phase.target, None)
    BY <2>1 DEF Settles, FenceMoves
  <2> QED BY <1>1, <1>2, <1>3, <1>4, <2>1, <2>3, <2>4 DEF Follows, Legal, AbsStep
<1> QED BY <1>1, <1>2, <1>5, <1>6, <1>7 DEF e, c, x, f, y

\* The fence of a pair whose catalog was never staged is undone, and a settled
\* fence is removed.
LEMMA UnlinkFollows ==
  ASSUME NEW b, IsDirectory(b), b["catalogStage"] = None
  PROVE  /\ Shape(b, PairStaged) =>
              LET e == Edit(b, "deliveryStage", None) IN Follows(b, e) /\ Shape(e, Clean)
         /\ Shape(b, Decided) /\ b["delivery"].phase.target = b["catalog"] =>
              LET e == Edit(b, "delivery", None) IN Follows(b, e) /\ Shape(e, Clean)
<1> DEFINE c == b["catalog"]
           f == b["delivery"]
           y == b["deliveryStage"]
           d == Edit(b, "deliveryStage", None)
           e == Edit(b, "delivery", None)
<1>1. /\ IsDirectory(d) /\ d["catalog"] = c /\ d["catalogStage"] = None
      /\ d["delivery"] = f /\ d["deliveryStage"] = None
      /\ IsDirectory(e) /\ e["catalog"] = c /\ e["catalogStage"] = None
      /\ e["delivery"] = None /\ e["deliveryStage"] = y
  BY EditFields DEF Names
<1>2. /\ Shape(b, PairStaged) <=> PairStaged(c, None, f, y)
      /\ Shape(b, Decided) <=> Decided(c, None, f, y)
      /\ Shape(b, Resting) <=> Resting(c, None, f, y)
      /\ Shape(d, Clean) <=> Clean(c, None, f, None)
      /\ Shape(d, Resting) <=> Resting(c, None, f, None)
      /\ Shape(e, Clean) <=> Clean(c, None, None, y)
      /\ Shape(e, Resting) <=> Resting(c, None, None, y)
  BY <1>1 DEF Shape
<1> HIDE DEF d, e
<1>3. ASSUME PairStaged(c, None, f, y) PROVE Follows(b, d) /\ Shape(d, Clean)
  <2> HIDE DEF c, f, y
  <2>1. Clean(c, None, f, None)
    BY <1>3 DEF PairStaged, Clean
  <2>2. Resting(c, None, f, None) /\ Resting(c, None, f, y)
    BY <1>3, <2>1, RestingShapes
  <2>3. Follows(b, d)
    BY <1>2, <2>2, StageBeside, BesideFollows DEF d, Stages
  <2> QED BY <1>2, <2>1, <2>3
<1>4. ASSUME Decided(c, None, f, y), f.phase.target = c PROVE Follows(b, e) /\ Shape(e, Clean)
  <2>1. CatalogOf(b) = c /\ FenceOf(b) = None
    BY <1>2, <1>4, AbstractPair
  <2>2. y = None /\ Sound(c)
    <3> HIDE DEF c, f, y
    <3> QED BY <1>4 DEF Decided
  <2>3. Clean(c, None, None, y)
    BY <2>2 DEF Clean, Good
  <2>4. Resting(c, None, None, y)
    BY <2>3, RestingShapes
  <2>5. CatalogOf(e) = c /\ FenceOf(e) = None
    BY <1>1, <1>2, <2>4, AbstractPair
  <2> QED BY <1>1, <1>2, <2>1, <2>3, <2>4, <2>5, BesideFollows DEF Legal, Beside
<1> QED BY <1>2, <1>3, <1>4 DEF d, e

-----------------------------------------------------------------------------
(***************************************************************************)
(* What each plan does next.                                               *)
(***************************************************************************)
\* Nothing is unsynchronized, or only catalog stages are guarded.
LEMMA Unguarded ==
  /\ \A d : DirtyFits(d, {})
  /\ \A d, as : as \subseteq {"catalogStage"} => Cleanable(d, as)
BY DEF DirtyFits, Cleanable, Stages

\* The transactions that rename what they stage.
LEMMA RenameKinds ==
  ASSUME NEW b, IsDirectory(b), NEW s, NEW ns, NEW as,
         OrdinaryPlan(s, b, ns, as) \/ SinglePlan(s, b, ns, as)
  PROVE  Writes(s, b, ns, as)
<1>0. /\ Shape(b, Clean) /\ ns = {} /\ as = {}
      /\ b["catalogStage"] = None /\ b["deliveryStage"] = None
      /\ Good(b["catalog"], b["delivery"])
  BY DEF OrdinaryPlan, SinglePlan, Shape, Clean
<1>1. CASE OrdinaryPlan(s, b, ns, as)
  <2>1. PICK k \in OrdinarySuccessors(b["catalog"]) : s = <<WriteC(k), SyncC, MoveC, SyncDirectory>>
    BY <1>1 DEF OrdinaryPlan
  <2>2. b["delivery"] = None
    BY <1>1 DEF OrdinaryPlan
  <2>3. /\ s # <<>> /\ Head(s) = WriteC(k) /\ Tail(s) # <<>> /\ Head(Tail(s)) = SyncC
        /\ Tail(Tail(s)) = <<MoveC, SyncDirectory>>
    BY <2>1
  <2> DEFINE e == Edit(b, "catalogStage", k)
  <2>4. /\ \A v \in {k, Torn} : /\ Beside(b, Edit(b, "catalogStage", v))
                                /\ Cleanable(Edit(b, "catalogStage", v), as \cup {"catalogStage"})
        /\ DirtyFits(e, {"catalogStage"}) /\ Sound(k)
    BY <1>0, <2>2, StageCatalog DEF Stages
  <2>5. Shape(e, OrdinaryStaged) /\ IsDirectory(e)
    <3>1. /\ IsDirectory(e) /\ e["catalog"] = b["catalog"] /\ e["delivery"] = None
          /\ e["catalogStage"] = k /\ e["deliveryStage"] = None
      BY <1>0, <2>2, EditFields DEF Names
    <3> HIDE DEF e
    <3> QED BY <1>0, <2>2, <3>1 DEF Shape, OrdinaryStaged
  <2>6. Follows(e, Moved(e, "catalogStage", "catalog")) /\ Shape(Moved(e, "catalogStage", "catalog"), Clean)
    BY <2>5, MoveCatalog
  <2> HIDE DEF e
  <2>7. Follows(b, Moved(e, "catalogStage", "catalog"))
    BY <2>4, <2>6, BesideFollows DEF e
  <2>8. Renames(Tail(Tail(s)), b, e, "catalogStage", as \cup {"catalogStage"})
    BY <1>0, <2>3, <2>6, <2>7 DEF Renames, MoveC
  <2>9. k \in CatalogDocuments
    BY <2>4, MarksAreNoDocuments
  <2> QED BY <1>0, <2>3, <2>4, <2>8, <2>9 DEF Writes, Continues, WriteC, SyncC, Stages, e
<1>2. CASE SinglePlan(s, b, ns, as)
  <2>1. PICK r \in RecoveryDocuments, no_replace \in BOOLEAN :
          /\ Doc(r) /\ Single(b["catalog"], b["delivery"], r)
          /\ s = <<WriteD(r), SyncD, MoveD(no_replace), SyncDirectory>>
    BY <1>2 DEF SinglePlan
  <2>3. /\ s # <<>> /\ Head(s) = WriteD(r) /\ Tail(s) # <<>> /\ Head(Tail(s)) = SyncD
        /\ Tail(Tail(s)) = <<MoveD(no_replace), SyncDirectory>>
    BY <2>1
  <2> DEFINE e == Edit(b, "deliveryStage", r)
  <2>4. /\ \A v \in {r, Torn} : /\ Beside(b, Edit(b, "deliveryStage", v))
                                /\ Cleanable(Edit(b, "deliveryStage", v), as \cup {"deliveryStage"})
        /\ DirtyFits(e, {"deliveryStage"})
    BY <1>0, <2>1, StageFence
  <2>5. Shape(e, SingleStaged) /\ IsDirectory(e)
    <3>1. /\ IsDirectory(e) /\ e["catalog"] = b["catalog"] /\ e["delivery"] = b["delivery"]
          /\ e["catalogStage"] = None /\ e["deliveryStage"] = r
      BY <1>0, EditFields DEF Names
    <3> HIDE DEF e
    <3> QED BY <1>0, <2>1, <3>1 DEF Shape, SingleStaged
  <2>6. /\ Follows(e, Moved(e, "deliveryStage", "delivery"))
        /\ Shape(Moved(e, "deliveryStage", "delivery"), Clean)
    BY <2>5, MoveDelivery
  <2> HIDE DEF e
  <2>7. Follows(b, Moved(e, "deliveryStage", "delivery"))
    BY <2>4, <2>6, BesideFollows DEF e
  <2>8. Renames(Tail(Tail(s)), b, e, "deliveryStage", as \cup {"deliveryStage"})
    BY <1>0, <2>3, <2>6, <2>7 DEF Renames, MoveD
  <2> QED BY <1>0, <2>1, <2>3, <2>4, <2>8 DEF Writes, Continues, WriteD, SyncD, Stages, e
<1> QED BY <1>1, <1>2

\* The transactions that make a stage durable first.
LEMMA StageKinds ==
  ASSUME NEW b, IsDirectory(b), NEW s, NEW ns, NEW as,
         PairPlan(s, b, ns, as) \/ ChangePlan(s, b, ns, as) \/ SamePlan(s, b, ns, as)
  PROVE  Writes(s, b, ns, as)
<1>0. /\ Shape(b, Clean) /\ ns = {} /\ as = {}
      /\ b["catalogStage"] = None /\ b["deliveryStage"] = None
      /\ Good(b["catalog"], b["delivery"])
  BY DEF PairPlan, ChangePlan, SamePlan, Shape, Clean
<1>1. ASSUME NEW r \in RecoveryDocuments, Doc(r),
             \/ Pair(b["catalog"], b["delivery"], r) \/ Settles(b["catalog"], b["delivery"], r),
             NEW rest, s # <<>>, Head(s) = WriteD(r), Tail(s) # <<>>, Head(Tail(s)) = SyncD,
             Tail(Tail(s)) # <<>>, Head(Tail(Tail(s))) = SyncDirectory,
             Tail(Tail(Tail(s))) = rest,
             Plan(rest, Edit(b, "deliveryStage", r), {}, {"deliveryStage"})
      PROVE  Writes(s, b, ns, as)
  <2> DEFINE e == Edit(b, "deliveryStage", r)
  <2>4. /\ \A v \in {r, Torn} : /\ Beside(b, Edit(b, "deliveryStage", v))
                                /\ Cleanable(Edit(b, "deliveryStage", v), as \cup {"deliveryStage"})
        /\ DirtyFits(e, {"deliveryStage"})
    BY <1>0, <1>1, StageFence
  <2>8. Continues(Tail(Tail(s)), b, e, "deliveryStage", as \cup {"deliveryStage"})
    BY <1>0, <1>1 DEF Continues
  <2> QED BY <1>0, <1>1, <2>4, <2>8 DEF Writes, WriteD, SyncD, Stages
<1>2. ASSUME NEW r
      PROVE  LET e == Edit(b, "deliveryStage", r) IN
             /\ e["catalog"] = b["catalog"] /\ e["delivery"] = b["delivery"]
             /\ e["catalogStage"] = None /\ e["deliveryStage"] = r
  BY <1>0, EditFields DEF Names
<1>3. CASE PairPlan(s, b, ns, as)
  <2>1. PICK r \in RecoveryDocuments, no_replace \in BOOLEAN :
          /\ Doc(r) /\ Pair(b["catalog"], b["delivery"], r)
          /\ s = <<WriteD(r), SyncD, SyncDirectory, Disarm("deliveryStage"),
                   WriteC(r.catalog), SyncC, SyncDirectory,
                   MoveC, SyncDirectory, MoveD(no_replace), SyncDirectory>>
    BY <1>3 DEF PairPlan
  <2> DEFINE e == Edit(b, "deliveryStage", r)
             rest == <<Disarm("deliveryStage"), WriteC(r.catalog), SyncC, SyncDirectory,
                       MoveC, SyncDirectory, MoveD(no_replace), SyncDirectory>>
  <2>2. /\ s # <<>> /\ Head(s) = WriteD(r) /\ Tail(s) # <<>> /\ Head(Tail(s)) = SyncD
        /\ Tail(Tail(s)) # <<>> /\ Head(Tail(Tail(s))) = SyncDirectory
        /\ Tail(Tail(Tail(s))) = rest
    BY <2>1
  <2>3. /\ e["catalog"] = b["catalog"] /\ e["delivery"] = b["delivery"]
        /\ e["catalogStage"] = None /\ e["deliveryStage"] = r
    BY <1>2
  <2> HIDE DEF e
  <2>4. Shape(e, PairStaged)
    BY <1>0, <2>1, <2>3 DEF Shape, PairStaged
  <2>5. PairAlone(rest, e, {}, {"deliveryStage"})
    BY <2>3, <2>4 DEF PairAlone
  <2> QED BY <1>1, <2>1, <2>2, <2>5 DEF Plan, e
<1>4. CASE ChangePlan(s, b, ns, as)
  <2>1. PICK r \in RecoveryDocuments :
          /\ Doc(r) /\ Settles(b["catalog"], b["delivery"], r) /\ r.phase.target # b["catalog"]
          /\ s = <<WriteD(r), SyncD, SyncDirectory, WriteC(r.phase.target), SyncC, SyncDirectory,
                   ReplaceD, SyncDirectory, MoveC, SyncDirectory,
                   Unlink("delivery"), SyncDirectory>>
    BY <1>4 DEF ChangePlan
  <2> DEFINE e == Edit(b, "deliveryStage", r)
             rest == <<WriteC(r.phase.target), SyncC, SyncDirectory, ReplaceD, SyncDirectory,
                       MoveC, SyncDirectory, Unlink("delivery"), SyncDirectory>>
  <2>2. /\ s # <<>> /\ Head(s) = WriteD(r) /\ Tail(s) # <<>> /\ Head(Tail(s)) = SyncD
        /\ Tail(Tail(s)) # <<>> /\ Head(Tail(Tail(s))) = SyncDirectory
        /\ Tail(Tail(Tail(s))) = rest
    BY <2>1
  <2>3. /\ e["catalog"] = b["catalog"] /\ e["delivery"] = b["delivery"]
        /\ e["catalogStage"] = None /\ e["deliveryStage"] = r
    BY <1>2
  <2> HIDE DEF e
  <2>4. Shape(e, ChangeStaged)
    BY <1>0, <2>1, <2>3 DEF Shape, ChangeStaged
  <2>5. ChangeAlone(rest, e, {}, {"deliveryStage"})
    BY <2>3, <2>4 DEF ChangeAlone
  <2> QED BY <1>1, <2>1, <2>2, <2>5 DEF Plan, e
<1>5. CASE SamePlan(s, b, ns, as)
  <2> DEFINE rest == <<ReplaceD, SyncDirectory, Unlink("delivery"), SyncDirectory>>
  <2>1. PICK r \in RecoveryDocuments :
          /\ Doc(r) /\ Settles(b["catalog"], b["delivery"], r) /\ r.phase.target = b["catalog"]
          /\ s = <<WriteD(r), SyncD, SyncDirectory, ReplaceD, SyncDirectory,
                   Unlink("delivery"), SyncDirectory>>
    BY <1>5 DEF SamePlan
  <2> DEFINE e == Edit(b, "deliveryStage", r)
  <2>2. /\ s # <<>> /\ Head(s) = WriteD(r) /\ Tail(s) # <<>> /\ Head(Tail(s)) = SyncD
        /\ Tail(Tail(s)) # <<>> /\ Head(Tail(Tail(s))) = SyncDirectory
        /\ Tail(Tail(Tail(s))) = rest
    BY <2>1
  <2>3. /\ e["catalog"] = b["catalog"] /\ e["delivery"] = b["delivery"]
        /\ e["catalogStage"] = None /\ e["deliveryStage"] = r
    BY <1>2
  <2> HIDE DEF e
  <2>4. Shape(e, SameStaged)
    BY <1>0, <2>1, <2>3 DEF Shape, SameStaged
  <2>5. SameRest(rest, e, {}, {"deliveryStage"})
    BY <2>3, <2>4 DEF SameRest
  <2> QED BY <1>1, <2>1, <2>2, <2>5 DEF Plan, e
<1> QED BY <1>3, <1>4, <1>5

\* The fence of a pair is staged alone.
LEMMA PairAloneKinds ==
  ASSUME NEW b, IsDirectory(b), NEW s, NEW ns, NEW as, PairAlone(s, b, ns, as)
  PROVE  Kind(s, b, ns, as)
<1> DEFINE y == b["deliveryStage"]
           rest(no_replace) == <<WriteC(y.catalog), SyncC, SyncDirectory,
                                 MoveC, SyncDirectory, MoveD(no_replace), SyncDirectory>>
<1>0. Shape(b, PairStaged) /\ b["catalogStage"] = None
  BY DEF PairAlone
<1>1. ASSUME NEW no_replace \in BOOLEAN, ns = {}, as \subseteq {"deliveryStage"},
             s = <<Disarm("deliveryStage"), WriteC(y.catalog), SyncC, SyncDirectory,
                   MoveC, SyncDirectory, MoveD(no_replace), SyncDirectory>>
      PROVE  Disarms(s, b, ns, as)
  <2>1. s # <<>> /\ Head(s) = Disarm("deliveryStage") /\ Tail(s) = rest(no_replace)
    BY <1>1
  <2>2. as \ {"deliveryStage"} = {}
    BY <1>1
  <2>3. PairAlone(rest(no_replace), b, ns, {})
    BY <1>0, <1>1 DEF PairAlone
  <2> HIDE DEF rest
  <2> QED BY <2>1, <2>2, <2>3 DEF Disarms, Plan, Stages
<1>2. ASSUME NEW no_replace \in BOOLEAN, ns = {}, as = {}, s = rest(no_replace)
      PROVE  Writes(s, b, ns, as)
  <2> DEFINE e == Edit(b, "catalogStage", y.catalog)
             more == <<MoveC, SyncDirectory, MoveD(no_replace), SyncDirectory>>
  <2>1. /\ s # <<>> /\ Head(s) = WriteC(y.catalog) /\ Tail(s) # <<>> /\ Head(Tail(s)) = SyncC
        /\ Tail(Tail(s)) # <<>> /\ Head(Tail(Tail(s))) = SyncDirectory
        /\ Tail(Tail(Tail(s))) = more
    BY <1>2
  <2>2. /\ \A v \in {y.catalog, Torn} :
             /\ Beside(b, Edit(b, "catalogStage", v))
             /\ Cleanable(Edit(b, "catalogStage", v), as \cup {"catalogStage"})
        /\ DirtyFits(e, {"catalogStage"}) /\ Sound(y.catalog)
    BY <1>0, <1>2, StageCatalog DEF Stages
  <2>3. /\ e["catalog"] = b["catalog"] /\ e["delivery"] = b["delivery"]
        /\ e["catalogStage"] = y.catalog /\ e["deliveryStage"] = y
    BY <1>0, EditFields DEF Names
  <2> HIDE DEF e
  <2>4. Shape(e, PairStaged)
    BY <1>0, <2>3 DEF Shape, PairStaged
  <2>5. PairBoth(more, e, {}, {"catalogStage"})
    BY <2>3, <2>4 DEF PairBoth
  <2>6. Continues(Tail(Tail(s)), b, e, "catalogStage", as \cup {"catalogStage"})
    BY <1>2, <2>1, <2>5 DEF Continues, Plan
  <2>7. y.catalog \in CatalogDocuments
    BY <2>2, MarksAreNoDocuments
  <2> QED BY <1>0, <1>2, <2>1, <2>2, <2>6, <2>7 DEF Writes, WriteC, SyncC, Stages, e
<1>3. ASSUME ns \subseteq {"deliveryStage"}, as = {},
             s = <<Unlink("deliveryStage"), SyncDirectory>>
      PROVE  Unlinks(s, b, ns, as)
  <2> DEFINE e == Edit(b, "deliveryStage", None)
  <2>1. /\ s # <<>> /\ Head(s) = Unlink("deliveryStage") /\ Tail(s) # <<>>
        /\ Head(Tail(s)) = SyncDirectory /\ Tail(Tail(s)) = <<>>
    BY <1>3
  <2>2. ns \ {"deliveryStage"} = {}
    BY <1>3
  <2>3. Follows(b, e) /\ Shape(e, Clean)
    BY <1>0, UnlinkFollows
  <2> HIDE DEF e
  <2>4. Plan(<<>>, e, {}, {})
    BY <2>3 DEF Plan, AtRest
  <2> QED BY <1>3, <2>1, <2>2, <2>3, <2>4, Unguarded DEF Unlinks, e
<1> QED BY <1>1, <1>2, <1>3 DEF PairAlone, Kind

\* Both of a pair are staged, and then its catalog is ahead.
LEMMA PairBothKinds ==
  ASSUME NEW b, IsDirectory(b), NEW s, NEW ns, NEW as,
         PairBoth(s, b, ns, as) \/ AheadPlan(s, b, ns, as)
  PROVE  Kind(s, b, ns, as)
<1>1. CASE PairBoth(s, b, ns, as)
  <2> DEFINE y == b["deliveryStage"]
             rest(no_replace) == <<MoveC, SyncDirectory, MoveD(no_replace), SyncDirectory>>
             synced(no_replace) == <<SyncC, MoveC, SyncDirectory, MoveD(no_replace), SyncDirectory>>
             both(no_replace) ==
               <<SyncD, SyncC, MoveC, SyncDirectory, MoveD(no_replace), SyncDirectory>>
  <2>0. Shape(b, PairStaged) /\ b["catalogStage"] = y.catalog
    BY <1>1 DEF PairBoth
  <2>1. PICK no_replace \in BOOLEAN :
          \/ ns = {} /\ as \subseteq {"catalogStage"} /\ s = rest(no_replace)
          \/ /\ ns \subseteq {"catalogStage"} /\ as = {}
             /\ s \in {synced(no_replace), both(no_replace)}
    BY <1>1 DEF PairBoth
  <2>2. CASE ns = {} /\ as \subseteq {"catalogStage"} /\ s = rest(no_replace)
    <3> DEFINE e == Moved(b, "catalogStage", "catalog")
               more == <<MoveD(no_replace), SyncDirectory>>
    <3>1. /\ s # <<>> /\ Head(s) = MoveC /\ Tail(s) # <<>> /\ Head(Tail(s)) = SyncDirectory
          /\ Tail(Tail(s)) = more
      BY <2>2
    <3>2. as \ {"catalogStage"} = {}
      BY <2>2
    <3>3. Follows(b, e) /\ Shape(e, Ahead)
      BY <2>0, MoveCatalog
    <3> HIDE DEF e
    <3>4. AheadPlan(more, e, {}, {})
      BY <3>3 DEF AheadPlan
    <3>5. Renaming(s, b, ns, as)
      BY <2>2, <3>1, <3>2, <3>3, <3>4, Unguarded DEF Renaming, Plan, Stages, MoveC, e
    <3> QED BY <3>5 DEF Kind
  <2>3. CASE ns \subseteq {"catalogStage"} /\ as = {} /\ s = synced(no_replace)
    <3>1. s # <<>> /\ Head(s) = SyncC /\ Tail(s) = rest(no_replace)
      BY <2>3
    <3>2. ns \ {"catalogStage"} = {}
      BY <2>3
    <3>3. PairBoth(rest(no_replace), b, {}, as)
      BY <2>0, <2>3 DEF PairBoth
    <3>4. Syncs(s, b, ns, as)
      BY <3>1, <3>2, <3>3 DEF Syncs, Plan, Stages, SyncC
    <3> QED BY <3>4 DEF Kind
  <2>4. CASE ns \subseteq {"catalogStage"} /\ as = {} /\ s = both(no_replace)
    <3>1. s # <<>> /\ Head(s) = SyncD /\ Tail(s) = synced(no_replace)
      BY <2>4
    <3>2. ns \ {"deliveryStage"} = ns
      BY <2>4
    <3>3. PairBoth(synced(no_replace), b, ns, as)
      BY <2>0, <2>4 DEF PairBoth
    <3>4. Syncs(s, b, ns, as)
      BY <3>1, <3>2, <3>3 DEF Syncs, Plan, Stages, SyncD
    <3> QED BY <3>4 DEF Kind
  <2> QED BY <2>1, <2>2, <2>3, <2>4
<1>2. CASE AheadPlan(s, b, ns, as)
  <2>0. Shape(b, Ahead) /\ ns = {} /\ as = {}
    BY <1>2 DEF AheadPlan
  <2>1. PICK no_replace \in BOOLEAN :
          s \in {<<MoveD(no_replace), SyncDirectory>>, <<SyncD, MoveD(no_replace), SyncDirectory>>}
    BY <1>2 DEF AheadPlan
  <2>2. CASE s = <<MoveD(no_replace), SyncDirectory>>
    <3> DEFINE e == Moved(b, "deliveryStage", "delivery")
    <3>1. /\ s # <<>> /\ Head(s) = MoveD(no_replace) /\ Tail(s) # <<>>
          /\ Head(Tail(s)) = SyncDirectory /\ Tail(Tail(s)) = <<>>
      BY <2>2
    <3>2. Follows(b, e) /\ Shape(e, Clean)
      BY <2>0, MoveDelivery
    <3> HIDE DEF e
    <3>3. AtRest(<<>>, e, {}, {})
      BY <3>2 DEF AtRest
    <3>4. Renaming(s, b, ns, as)
      BY <2>0, <3>1, <3>2, <3>3, Unguarded DEF Renaming, Plan, Stages, MoveD, e
    <3> QED BY <3>4 DEF Kind
  <2>3. CASE s = <<SyncD, MoveD(no_replace), SyncDirectory>>
    <3>1. s # <<>> /\ Head(s) = SyncD /\ Tail(s) = <<MoveD(no_replace), SyncDirectory>>
      BY <2>3
    <3>2. AheadPlan(<<MoveD(no_replace), SyncDirectory>>, b, {}, as)
      BY <2>0 DEF AheadPlan
    <3>3. Syncs(s, b, ns, as)
      BY <2>0, <3>1, <3>2 DEF Syncs, Plan, Stages, SyncD
    <3> QED BY <3>3 DEF Kind
  <2> QED BY <2>1, <2>2, <2>3
<1> QED BY <1>1, <1>2

\* A single document is staged.
LEMMA SingleKinds ==
  ASSUME NEW b, IsDirectory(b), NEW s, NEW ns, NEW as,
         SingleRest(s, b, ns, as) \/ OrdinaryRest(s, b, ns, as)
  PROVE  Kind(s, b, ns, as)
<1>1. CASE SingleRest(s, b, ns, as)
  <2>0. Shape(b, SingleStaged) /\ as = {}
    BY <1>1 DEF SingleRest
  <2>1. PICK no_replace \in BOOLEAN :
          \/ ns = {} /\ s = <<MoveD(no_replace), SyncDirectory>>
          \/ ns \subseteq {"deliveryStage"} /\ s = <<SyncD, MoveD(no_replace), SyncDirectory>>
    BY <1>1 DEF SingleRest
  <2>2. CASE ns = {} /\ s = <<MoveD(no_replace), SyncDirectory>>
    <3> DEFINE e == Moved(b, "deliveryStage", "delivery")
    <3>1. /\ s # <<>> /\ Head(s) = MoveD(no_replace) /\ Tail(s) # <<>>
          /\ Head(Tail(s)) = SyncDirectory /\ Tail(Tail(s)) = <<>>
      BY <2>2
    <3>2. Follows(b, e) /\ Shape(e, Clean)
      BY <2>0, MoveDelivery
    <3> HIDE DEF e
    <3>3. AtRest(<<>>, e, {}, {})
      BY <3>2 DEF AtRest
    <3>4. Renaming(s, b, ns, as)
      BY <2>0, <2>2, <3>1, <3>2, <3>3, Unguarded DEF Renaming, Plan, Stages, MoveD, e
    <3> QED BY <3>4 DEF Kind
  <2>3. CASE ns \subseteq {"deliveryStage"} /\ s = <<SyncD, MoveD(no_replace), SyncDirectory>>
    <3>1. s # <<>> /\ Head(s) = SyncD /\ Tail(s) = <<MoveD(no_replace), SyncDirectory>>
      BY <2>3
    <3>2. ns \ {"deliveryStage"} = {}
      BY <2>3
    <3>3. SingleRest(<<MoveD(no_replace), SyncDirectory>>, b, {}, as)
      BY <2>0 DEF SingleRest
    <3>4. Syncs(s, b, ns, as)
      BY <2>0, <3>1, <3>2, <3>3 DEF Syncs, Plan, Stages, SyncD
    <3> QED BY <3>4 DEF Kind
  <2> QED BY <2>1, <2>2, <2>3
<1>2. CASE OrdinaryRest(s, b, ns, as)
  <2>0. Shape(b, OrdinaryStaged) /\ as = {}
    BY <1>2 DEF OrdinaryRest
  <2>2. CASE ns = {} /\ s = <<MoveC, SyncDirectory>>
    <3> DEFINE e == Moved(b, "catalogStage", "catalog")
    <3>1. /\ s # <<>> /\ Head(s) = MoveC /\ Tail(s) # <<>>
          /\ Head(Tail(s)) = SyncDirectory /\ Tail(Tail(s)) = <<>>
      BY <2>2
    <3>2. Follows(b, e) /\ Shape(e, Clean)
      BY <2>0, MoveCatalog
    <3> HIDE DEF e
    <3>3. AtRest(<<>>, e, {}, {})
      BY <3>2 DEF AtRest
    <3>4. Renaming(s, b, ns, as)
      BY <2>0, <2>2, <3>1, <3>2, <3>3, Unguarded DEF Renaming, Plan, Stages, MoveC, e
    <3> QED BY <3>4 DEF Kind
  <2>3. CASE ns \subseteq {"catalogStage"} /\ s = <<SyncC, MoveC, SyncDirectory>>
    <3>1. s # <<>> /\ Head(s) = SyncC /\ Tail(s) = <<MoveC, SyncDirectory>>
      BY <2>3
    <3>2. ns \ {"catalogStage"} = {}
      BY <2>3
    <3>3. OrdinaryRest(<<MoveC, SyncDirectory>>, b, {}, as)
      BY <2>0 DEF OrdinaryRest
    <3>4. Syncs(s, b, ns, as)
      BY <2>0, <3>1, <3>2, <3>3 DEF Syncs, Plan, Stages, SyncC
    <3> QED BY <3>4 DEF Kind
  <2> QED BY <1>2, <2>2, <2>3 DEF OrdinaryRest
<1> QED BY <1>1, <1>2

\* The intent to settle is staged and becomes current.
LEMMA DecideKinds ==
  ASSUME NEW b, IsDirectory(b), NEW s, NEW ns, NEW as, as \subseteq Stages,
         Shape(b, ChangeStaged) \/ Shape(b, SameStaged),
         ns = {} \/ (ns \subseteq {"catalogStage"} /\ b["catalogStage"] # None),
         s # <<>>, Head(s) = ReplaceD, Tail(s) # <<>>, Head(Tail(s)) = SyncDirectory,
         \A e : /\ Shape(e, Decided) /\ e["catalog"] = b["catalog"]
                /\ e["catalogStage"] = b["catalogStage"] /\ e["delivery"] = b["deliveryStage"]
                => Plan(Tail(Tail(s)), e, ns, as \ {"deliveryStage"})
  PROVE  Renaming(s, b, ns, as)
<1> DEFINE e == Moved(b, "deliveryStage", "delivery")
<1>1. /\ Follows(b, e) /\ Shape(e, Decided) /\ e["catalog"] = b["catalog"]
      /\ e["catalogStage"] = b["catalogStage"] /\ e["deliveryStage"] = None
      /\ e["delivery"] = b["deliveryStage"]
  BY MoveDelivery
<1> HIDE DEF e
<1>2. Plan(Tail(Tail(s)), e, ns, as \ {"deliveryStage"})
  BY <1>1
<1>3. DirtyFits(e, ns)
  BY <1>1 DEF DirtyFits, Stages
<1>4. Cleanable(e, as \ {"deliveryStage"})
  BY <1>1 DEF Cleanable
<1>5. "deliveryStage" \in Stages \ ns
  BY DEF Stages
<1> QED BY <1>1, <1>2, <1>3, <1>4, <1>5 DEF Renaming, ReplaceD, e

\* The intent is staged alone.
LEMMA ChangeAloneKinds ==
  ASSUME NEW b, IsDirectory(b), NEW s, NEW ns, NEW as, ChangeAlone(s, b, ns, as)
  PROVE  Kind(s, b, ns, as)
<1> DEFINE y == b["deliveryStage"]
           target == y.phase.target
           first == <<WriteC(target), SyncC, SyncDirectory, ReplaceD, SyncDirectory,
                      MoveC, SyncDirectory, Unlink("delivery"), SyncDirectory>>
           second == <<ReplaceD, SyncDirectory, WriteC(target), SyncC, SyncDirectory,
                       MoveC, SyncDirectory, Unlink("delivery"), SyncDirectory>>
           third == <<SyncD, ReplaceD, SyncDirectory, WriteC(target), SyncC, SyncDirectory,
                      MoveC, SyncDirectory, Unlink("delivery"), SyncDirectory>>
<1>0. Shape(b, ChangeStaged) /\ b["catalogStage"] = None
  BY DEF ChangeAlone
<1>1. CASE ns = {} /\ as \subseteq {"deliveryStage"} /\ s = first
  <2> DEFINE e == Edit(b, "catalogStage", target)
             more == <<ReplaceD, SyncDirectory, MoveC, SyncDirectory,
                       Unlink("delivery"), SyncDirectory>>
  <2>1. /\ s # <<>> /\ Head(s) = WriteC(target) /\ Tail(s) # <<>> /\ Head(Tail(s)) = SyncC
        /\ Tail(Tail(s)) # <<>> /\ Head(Tail(Tail(s))) = SyncDirectory
        /\ Tail(Tail(Tail(s))) = more
    BY <1>1
  <2>2. as \cup {"catalogStage"} \subseteq Stages
    BY <1>1 DEF Stages
  <2>3. /\ \A v \in {target, Torn} :
             /\ Beside(b, Edit(b, "catalogStage", v))
             /\ Cleanable(Edit(b, "catalogStage", v), as \cup {"catalogStage"})
        /\ DirtyFits(e, {"catalogStage"}) /\ Sound(target)
    BY <1>0, <2>2, StageCatalog
  <2>4. /\ e["catalog"] = b["catalog"] /\ e["delivery"] = b["delivery"]
        /\ e["catalogStage"] = target /\ e["deliveryStage"] = y
    BY <1>0, EditFields DEF Names
  <2> HIDE DEF e
  <2>5. Shape(e, ChangeStaged)
    BY <1>0, <2>4 DEF Shape, ChangeStaged
  <2>6. ChangeBoth(more, e, {}, as \cup {"catalogStage"})
    BY <2>2, <2>4, <2>5 DEF ChangeBoth
  <2> HIDE DEF more
  <2>7. Continues(Tail(Tail(s)), b, e, "catalogStage", as \cup {"catalogStage"})
    BY <2>1, <2>6 DEF Continues, Plan
  <2>8. target \in CatalogDocuments
    BY <2>3, MarksAreNoDocuments
  <2>9. Writes(s, b, ns, as)
    <3> HIDE DEF first
    <3> QED BY <1>0, <1>1, <2>1, <2>3, <2>7, <2>8 DEF Writes, WriteC, SyncC, Stages, e
  <2> QED BY <2>9 DEF Kind
<1>2. CASE ns = {} /\ as = {} /\ s = second
  <2> DEFINE more == <<WriteC(target), SyncC, SyncDirectory,
                       MoveC, SyncDirectory, Unlink("delivery"), SyncDirectory>>
  <2>1. /\ s # <<>> /\ Head(s) = ReplaceD /\ Tail(s) # <<>> /\ Head(Tail(s)) = SyncDirectory
        /\ Tail(Tail(s)) = more
    BY <1>2
  <2>2. as \ {"deliveryStage"} = {} /\ as \subseteq Stages /\ target # b["catalog"]
    BY <1>0, <1>2 DEF Shape, ChangeStaged
  <2>3. ASSUME NEW e, Shape(e, Decided), e["catalog"] = b["catalog"],
               e["catalogStage"] = b["catalogStage"], e["delivery"] = y
        PROVE  DecidedPlan(more, e, {}, {})
    BY <1>0, <2>2, <2>3 DEF DecidedPlan
  <2> HIDE DEF more
  <2>4. Renaming(s, b, ns, as)
    BY <1>0, <1>2, <2>1, <2>2, <2>3, DecideKinds DEF Plan
  <2> QED BY <2>4 DEF Kind
<1>3. CASE ns \subseteq {"deliveryStage"} /\ as = {} /\ s = third
  <2>1. s # <<>> /\ Head(s) = SyncD /\ Tail(s) = second
    BY <1>3
  <2>2. ns \ {"deliveryStage"} = {}
    BY <1>3
  <2>3. ChangeAlone(second, b, {}, as)
    BY <1>0, <1>3 DEF ChangeAlone
  <2> HIDE DEF second
  <2>4. Syncs(s, b, ns, as)
    BY <2>1, <2>2, <2>3 DEF Syncs, Plan, Stages, SyncD
  <2> QED BY <2>4 DEF Kind
<1> QED BY <1>1, <1>2, <1>3 DEF ChangeAlone

\* The intent is staged with the catalog it settles to.
LEMMA ChangeBothKinds ==
  ASSUME NEW b, IsDirectory(b), NEW s, NEW ns, NEW as, ChangeBoth(s, b, ns, as)
  PROVE  Kind(s, b, ns, as)
<1> DEFINE y == b["deliveryStage"]
           target == y.phase.target
           first == <<ReplaceD, SyncDirectory, MoveC, SyncDirectory,
                      Unlink("delivery"), SyncDirectory>>
           second == <<ReplaceD, SyncDirectory, SyncC, MoveC, SyncDirectory,
                       Unlink("delivery"), SyncDirectory>>
           third == <<SyncD, ReplaceD, SyncDirectory, SyncC, MoveC, SyncDirectory,
                      Unlink("delivery"), SyncDirectory>>
<1>0. Shape(b, ChangeStaged) /\ b["catalogStage"] = target
  BY DEF ChangeBoth
<1>a. target # b["catalog"] /\ b["catalogStage"] # None
  <2>1. Good(b["catalog"], b["delivery"]) /\ Settles(b["catalog"], b["delivery"], y)
        /\ target # b["catalog"]
    BY <1>0 DEF Shape, ChangeStaged
  <2>2. Sound(target)
    BY <2>1, SettlesFacts
  <2> QED BY <1>0, <2>1, <2>2, MarksAreNoDocuments
<1>1. CASE ns = {} /\ as \subseteq Stages /\ s = first
  <2> DEFINE more == <<MoveC, SyncDirectory, Unlink("delivery"), SyncDirectory>>
  <2>1. /\ s # <<>> /\ Head(s) = ReplaceD /\ Tail(s) # <<>> /\ Head(Tail(s)) = SyncDirectory
        /\ Tail(Tail(s)) = more
    BY <1>1
  <2>2. as \ {"deliveryStage"} \subseteq {"catalogStage"}
    BY <1>1 DEF Stages
  <2>3. ASSUME NEW e, Shape(e, Decided), e["catalog"] = b["catalog"],
               e["catalogStage"] = b["catalogStage"], e["delivery"] = y
        PROVE  DecidedPlan(more, e, {}, as \ {"deliveryStage"})
    BY <1>0, <1>a, <2>2, <2>3 DEF DecidedPlan
  <2> HIDE DEF more
  <2>4. Renaming(s, b, ns, as)
    BY <1>0, <1>1, <2>1, <2>2, <2>3, DecideKinds DEF Plan
  <2> QED BY <2>4 DEF Kind
<1>2. CASE ns \subseteq {"catalogStage"} /\ as = {} /\ s = second
  <2> DEFINE more == <<SyncC, MoveC, SyncDirectory, Unlink("delivery"), SyncDirectory>>
  <2>1. /\ s # <<>> /\ Head(s) = ReplaceD /\ Tail(s) # <<>> /\ Head(Tail(s)) = SyncDirectory
        /\ Tail(Tail(s)) = more
    BY <1>2
  <2>2. as \ {"deliveryStage"} = {} /\ as \subseteq Stages
    BY <1>2
  <2>3. ASSUME NEW e, Shape(e, Decided), e["catalog"] = b["catalog"],
               e["catalogStage"] = b["catalogStage"], e["delivery"] = y
        PROVE  DecidedPlan(more, e, ns, {})
    BY <1>0, <1>a, <1>2, <2>3 DEF DecidedPlan
  <2> HIDE DEF more
  <2>4. Renaming(s, b, ns, as)
    BY <1>0, <1>a, <1>2, <2>1, <2>2, <2>3, DecideKinds DEF Plan
  <2> QED BY <2>4 DEF Kind
<1>3. CASE ns \subseteq {"catalogStage"} /\ as = {} /\ s = third
  <2>1. s # <<>> /\ Head(s) = SyncD /\ Tail(s) = second
    BY <1>3
  <2>2. ns \ {"deliveryStage"} = ns
    BY <1>3
  <2>3. ChangeBoth(second, b, ns, as)
    BY <1>0, <1>3 DEF ChangeBoth
  <2> HIDE DEF second
  <2>4. Syncs(s, b, ns, as)
    BY <2>1, <2>2, <2>3 DEF Syncs, Plan, Stages, SyncD
  <2> QED BY <2>4 DEF Kind
<1> QED BY <1>1, <1>2, <1>3 DEF ChangeBoth

\* The intent leaves the catalog as it is.
LEMMA SameKinds ==
  ASSUME NEW b, IsDirectory(b), NEW s, NEW ns, NEW as, SameRest(s, b, ns, as)
  PROVE  Kind(s, b, ns, as)
<1> DEFINE first == <<ReplaceD, SyncDirectory, Unlink("delivery"), SyncDirectory>>
           second == <<SyncD, ReplaceD, SyncDirectory, Unlink("delivery"), SyncDirectory>>
<1>0. Shape(b, SameStaged) /\ b["catalogStage"] = None
      /\ b["deliveryStage"].phase.target = b["catalog"]
  BY DEF SameRest, Shape, SameStaged
<1>1. CASE ns = {} /\ as \subseteq {"deliveryStage"} /\ s = first
  <2> DEFINE more == <<Unlink("delivery"), SyncDirectory>>
  <2>1. /\ s # <<>> /\ Head(s) = ReplaceD /\ Tail(s) # <<>> /\ Head(Tail(s)) = SyncDirectory
        /\ Tail(Tail(s)) = more
    BY <1>1
  <2>2. as \ {"deliveryStage"} = {} /\ as \subseteq Stages
    BY <1>1 DEF Stages
  <2>3. ASSUME NEW e, Shape(e, Decided), e["catalog"] = b["catalog"],
               e["catalogStage"] = b["catalogStage"], e["delivery"] = b["deliveryStage"]
        PROVE  DecidedPlan(more, e, {}, {})
    BY <1>0, <2>3 DEF DecidedPlan
  <2> HIDE DEF more
  <2>4. Renaming(s, b, ns, as)
    BY <1>0, <1>1, <2>1, <2>2, <2>3, DecideKinds DEF Plan
  <2> QED BY <2>4 DEF Kind
<1>2. CASE ns \subseteq {"deliveryStage"} /\ as = {} /\ s = second
  <2>1. s # <<>> /\ Head(s) = SyncD /\ Tail(s) = first
    BY <1>2
  <2>2. ns \ {"deliveryStage"} = {}
    BY <1>2
  <2>3. SameRest(first, b, {}, as)
    BY <1>0, <1>2 DEF SameRest
  <2> HIDE DEF first
  <2>4. Syncs(s, b, ns, as)
    BY <2>1, <2>2, <2>3 DEF Syncs, Plan, Stages, SyncD
  <2> QED BY <2>4 DEF Kind
<1> QED BY <1>1, <1>2 DEF SameRest

\* The intent is current.
LEMMA DecidedKinds ==
  ASSUME NEW b, IsDirectory(b), NEW s, NEW ns, NEW as, DecidedPlan(s, b, ns, as)
  PROVE  Kind(s, b, ns, as)
<1> DEFINE c == b["catalog"]
           x == b["catalogStage"]
           target == b["delivery"].phase.target
           first == <<MoveC, SyncDirectory, Unlink("delivery"), SyncDirectory>>
           second == <<SyncC, MoveC, SyncDirectory, Unlink("delivery"), SyncDirectory>>
           third == <<WriteC(target), SyncC, SyncDirectory,
                      MoveC, SyncDirectory, Unlink("delivery"), SyncDirectory>>
           last == <<Unlink("delivery"), SyncDirectory>>
<1>0. Shape(b, Decided)
  BY DEF DecidedPlan
<1>1. CASE target # c /\ x = target /\ ns = {} /\ as \subseteq {"catalogStage"} /\ s = first
  <2> DEFINE e == Moved(b, "catalogStage", "catalog")
  <2>1. /\ s # <<>> /\ Head(s) = MoveC /\ Tail(s) # <<>> /\ Head(Tail(s)) = SyncDirectory
        /\ Tail(Tail(s)) = last
    BY <1>1
  <2>2. as \ {"catalogStage"} = {}
    BY <1>1
  <2>3. /\ Follows(b, e) /\ Shape(e, Decided) /\ e["catalogStage"] = None
        /\ e["catalog"] = e["delivery"].phase.target
    BY <1>0, <1>1, MoveCatalog
  <2> HIDE DEF e
  <2>4. DecidedPlan(last, e, {}, {})
    BY <2>3 DEF DecidedPlan
  <2> HIDE DEF last
  <2>5. Renaming(s, b, ns, as)
    BY <1>1, <2>1, <2>2, <2>3, <2>4, Unguarded DEF Renaming, Plan, Stages, MoveC, e
  <2> QED BY <2>5 DEF Kind
<1>2. CASE target # c /\ x = target /\ ns \subseteq {"catalogStage"} /\ as = {} /\ s = second
  <2>1. s # <<>> /\ Head(s) = SyncC /\ Tail(s) = first
    BY <1>2
  <2>2. ns \ {"catalogStage"} = {}
    BY <1>2
  <2>3. DecidedPlan(first, b, {}, as)
    BY <1>0, <1>2 DEF DecidedPlan
  <2> HIDE DEF first
  <2>4. Syncs(s, b, ns, as)
    BY <2>1, <2>2, <2>3 DEF Syncs, Plan, Stages, SyncC
  <2> QED BY <2>4 DEF Kind
<1>3. CASE target # c /\ x = None /\ ns = {} /\ as = {} /\ s = third
  <2> DEFINE e == Edit(b, "catalogStage", target)
  <2>1. /\ s # <<>> /\ Head(s) = WriteC(target) /\ Tail(s) # <<>> /\ Head(Tail(s)) = SyncC
        /\ Tail(Tail(s)) # <<>> /\ Head(Tail(Tail(s))) = SyncDirectory
        /\ Tail(Tail(Tail(s))) = first
    BY <1>3
  <2>3. /\ \A v \in {target, Torn} :
             /\ Beside(b, Edit(b, "catalogStage", v))
             /\ Cleanable(Edit(b, "catalogStage", v), as \cup {"catalogStage"})
        /\ DirtyFits(e, {"catalogStage"}) /\ Sound(target)
    BY <1>0, <1>3, StageCatalog DEF Stages
  <2>4. /\ e["catalog"] = c /\ e["delivery"] = b["delivery"]
        /\ e["catalogStage"] = target /\ e["deliveryStage"] = b["deliveryStage"]
    BY <1>0, EditFields DEF Names
  <2> HIDE DEF e
  <2>5. Shape(e, Decided)
    BY <1>0, <1>3, <2>4 DEF Shape, Decided
  <2>6. DecidedPlan(first, e, {}, as \cup {"catalogStage"})
    BY <1>3, <2>4, <2>5 DEF DecidedPlan
  <2> HIDE DEF first
  <2>7. Continues(Tail(Tail(s)), b, e, "catalogStage", as \cup {"catalogStage"})
    BY <2>1, <2>6 DEF Continues, Plan
  <2>8. target \in CatalogDocuments
    BY <2>3, MarksAreNoDocuments
  <2>9. Writes(s, b, ns, as)
    <3> HIDE DEF third
    <3> QED BY <1>3, <2>1, <2>3, <2>7, <2>8 DEF Writes, WriteC, SyncC, Stages, e
  <2> QED BY <2>9 DEF Kind
<1>4. CASE target = c /\ x = None /\ ns = {} /\ as = {} /\ s = last
  <2> DEFINE e == Edit(b, "delivery", None)
  <2>1. /\ s # <<>> /\ Head(s) = Unlink("delivery") /\ Tail(s) # <<>>
        /\ Head(Tail(s)) = SyncDirectory /\ Tail(Tail(s)) = <<>>
    BY <1>4
  <2>3. Follows(b, e) /\ Shape(e, Clean)
    BY <1>0, <1>4, UnlinkFollows
  <2> HIDE DEF e
  <2>4. Plan(<<>>, e, {}, {})
    BY <2>3 DEF Plan, AtRest
  <2>5. Unlinks(s, b, ns, as)
    BY <1>4, <2>1, <2>3, <2>4, Unguarded DEF Unlinks, e
  <2> QED BY <2>5 DEF Kind
<1> QED BY <1>1, <1>2, <1>3, <1>4 DEF DecidedPlan

\* Every plan is finished or does one of five things next.
LEMMA PlanKinds ==
  ASSUME NEW b, IsDirectory(b), NEW s, NEW ns, NEW as, Plan(s, b, ns, as)
  PROVE  Kind(s, b, ns, as)
<1>1. CASE AtRest(s, b, ns, as)
  BY <1>1 DEF AtRest, Empty, Kind
<1>2. CASE OrdinaryPlan(s, b, ns, as) \/ SinglePlan(s, b, ns, as)
  BY <1>2, RenameKinds DEF Kind
<1>3. CASE PairPlan(s, b, ns, as) \/ ChangePlan(s, b, ns, as) \/ SamePlan(s, b, ns, as)
  BY <1>3, StageKinds DEF Kind
<1> QED
  BY <1>1, <1>2, <1>3, PairAloneKinds, PairBothKinds, SingleKinds, ChangeAloneKinds,
     ChangeBothKinds, SameKinds, DecidedKinds DEF Plan

-----------------------------------------------------------------------------
(***************************************************************************)
(* The file system.                                                        *)
(***************************************************************************)
\* What standing asks of one directory.
Stands(b, d, as) == Follows(b, d) /\ Cleanable(d, as)

\* A legal directory follows itself.
LEMMA FollowsItself ==
  ASSUME NEW d, Legal(d)
  PROVE  Follows(d, d)
BY DEF Follows, AbsStep, FenceMoves

\* What shows the same pair follows the same directories.
LEMMA FollowsBeside ==
  ASSUME NEW b, NEW d, Follows(b, d), NEW e, Beside(d, e)
  PROVE  Follows(b, e)
BY DEF Follows, Beside, AbsStep

\* Fewer stages are guarded, or unsynchronized.
LEMMA Fewer ==
  /\ \A d, as, bs : Cleanable(d, as) /\ bs \subseteq as => Cleanable(d, bs)
  /\ \A d, ns, ms : DirtyFits(d, ns) /\ ms \subseteq ns => DirtyFits(d, ms)
BY DEF Cleanable, DirtyFits

\* Tearing nothing changes nothing.
LEMMA TearNothing ==
  ASSUME NEW d, IsDirectory(d), NEW ns
  PROVE  /\ Tear(d, {}) = d /\ d \in Torns(d, ns) /\ Torns(d, {}) = {d}
<1>1. Tear(d, {}) = d
  BY DEF Tear, IsDirectory
<1>2. SUBSET {} = {{}}
  OBVIOUS
<1>3. {} \in SUBSET ns
  OBVIOUS
<1> HIDE DEF Tear
<1>4. Torns(d, {}) = {d}
  BY <1>1, <1>2 DEF Torns
<1>5. d \in Torns(d, ns)
  BY <1>1, <1>3 DEF Torns
<1> QED BY <1>1, <1>4, <1>5

\* Whatever is torn of an unsynchronized directory stands where it does.
LEMMA TornsStand ==
  ASSUME NEW b, NEW d, NEW as, Stands(b, d, as), NEW ns, DirtyFits(d, ns), NEW e \in Torns(d, ns)
  PROVE  Stands(b, e, as)
<1>1. PICK t \in SUBSET ns : e = Tear(d, t)
  BY DEF Torns
<1>2. Legal(d)
  BY DEF Stands, Follows
<1>3. Beside(d, e) /\ Cleanable(e, as)
  BY <1>1, <1>2, TearKeeps DEF Beside, Stands
<1> QED BY <1>3, FollowsBeside DEF Stands

\* The directory of each torn image after a file is synchronized, renamed or
\* unlinked.
LEMMA TornThen ==
  ASSUME NEW b, IsDirectory(b), NEW ns, ns \subseteq Stages, NEW d \in Torns(b, ns)
  PROVE  /\ IsDirectory(d)
         /\ \A n \in Stages :
              [d EXCEPT ![n] = IF @ = Torn THEN b[n] ELSE @] \in Torns(b, ns \ {n})
         /\ \A n \in Stages \ ns, to \in {"catalog", "delivery"} :
              [d EXCEPT ![to] = b[n], ![n] = None] \in Torns(Moved(b, n, to), ns)
         /\ \A n \in Names : [d EXCEPT ![n] = None] \in Torns(Edit(b, n, None), ns \ {n})
<1>1. PICK t \in SUBSET ns : d = Tear(b, t)
  BY DEF Torns
<1>2. IsDirectory(d) /\ \A m \in Names : d[m] = IF m \in t THEN Torn ELSE b[m]
  BY <1>1 DEF Tear, IsDirectory
<1>3. Stages \subseteq Names
  BY DEF Stages, Names
<1>4. ASSUME NEW n \in Stages
      PROVE  [d EXCEPT ![n] = IF @ = Torn THEN b[n] ELSE @] \in Torns(b, ns \ {n})
  <2>1. [d EXCEPT ![n] = IF @ = Torn THEN b[n] ELSE @] = Tear(b, t \ {n})
    BY <1>2, <1>3 DEF Tear, IsDirectory
  <2>2. t \ {n} \in SUBSET (ns \ {n})
    OBVIOUS
  <2> QED BY <2>1, <2>2 DEF Torns
<1>5. ASSUME NEW n \in Stages \ ns, NEW to \in {"catalog", "delivery"}
      PROVE  [d EXCEPT ![to] = b[n], ![n] = None] \in Torns(Moved(b, n, to), ns)
  <2>1. /\ IsDirectory(Moved(b, n, to)) /\ Moved(b, n, to)[to] = b[n]
        /\ Moved(b, n, to)[n] = None
        /\ \A m \in Names \ {n, to} : Moved(b, n, to)[m] = b[m]
    BY MoveFields
  <2>2. n \in Names /\ to \in Names /\ n # to /\ n \notin t /\ to \notin t
    BY DEF Stages, Names
  <2>3. \A m \in Names : [d EXCEPT ![to] = b[n], ![n] = None][m] =
                           IF m = n THEN None ELSE IF m = to THEN b[n] ELSE d[m]
    BY <1>2, <2>2 DEF IsDirectory
  <2>4. IsDirectory([d EXCEPT ![to] = b[n], ![n] = None])
    BY <1>2, <2>2 DEF IsDirectory
  <2> DEFINE e == [d EXCEPT ![to] = b[n], ![n] = None]
  <2>a. \A m \in Names : e[m] = IF m = n THEN None ELSE IF m = to THEN b[n] ELSE d[m]
    BY <2>3
  <2> HIDE DEF e
  <2>5. ASSUME NEW m \in Names PROVE e[m] = IF m \in t THEN Torn ELSE Moved(b, n, to)[m]
    <3>1. CASE m \in {n, to}
      BY <2>a, <2>1, <2>2, <3>1
    <3>2. CASE m \notin {n, to}
      BY <1>2, <2>a, <2>1, <3>2
    <3> QED BY <3>1, <3>2
  <2>6. e = Tear(Moved(b, n, to), t)
    BY <2>4, <2>5 DEF Tear, IsDirectory, e
  <2> QED BY <2>6 DEF Torns, e
<1>6. ASSUME NEW n \in Names
      PROVE  [d EXCEPT ![n] = None] \in Torns(Edit(b, n, None), ns \ {n})
  <2>1. [d EXCEPT ![n] = None] = Tear(Edit(b, n, None), t \ {n})
    BY <1>2 DEF Tear, IsDirectory, Edit
  <2>2. t \ {n} \in SUBSET (ns \ {n})
    OBVIOUS
  <2> QED BY <2>1, <2>2 DEF Torns
<1> QED BY <1>2, <1>4, <1>5, <1>6

\* Writing, renaming and synchronizing a stage that alone differs.
LEMMA EditThen ==
  ASSUME NEW b, IsDirectory(b), NEW n \in Stages, b[n] = None, NEW v, v # None, v # Torn
  PROVE  LET e == Edit(b, n, v) IN
         /\ \A d \in {b, e, Edit(b, n, Torn)} :
              [d EXCEPT ![n] = IF @ = Torn THEN v ELSE @] \in {b, e}
         /\ [e EXCEPT ![n] = IF @ = Torn THEN v ELSE @] = e
         /\ \A to \in {"catalog", "delivery"}, d \in {b, e} :
              [d EXCEPT ![to] = v, ![n] = None] = Moved(e, n, to)
<1> DEFINE e == Edit(b, n, v)
<1>1. n \in Names /\ Torn # None
  BY MarksAreNoDocuments DEF Stages, Names
<1>2. [b EXCEPT ![n] = IF @ = Torn THEN v ELSE @] = b
  BY <1>1 DEF IsDirectory
<1>3. [e EXCEPT ![n] = IF @ = Torn THEN v ELSE @] = e
  BY <1>1 DEF IsDirectory, Edit
<1>4. [Edit(b, n, Torn) EXCEPT ![n] = IF @ = Torn THEN v ELSE @] = e
  BY <1>1 DEF IsDirectory, Edit
<1>5. ASSUME NEW to \in {"catalog", "delivery"}
      PROVE  /\ [b EXCEPT ![to] = v, ![n] = None] = Moved(e, n, to)
             /\ [e EXCEPT ![to] = v, ![n] = None] = Moved(e, n, to)
  <2>1. to \in Names /\ n # to
    BY DEF Names, Stages
  <2>2. e[n] = v
    BY <1>1 DEF Edit, IsDirectory
  <2>3. [b EXCEPT ![to] = v, ![n] = None] = [e EXCEPT ![to] = v, ![n] = None]
    BY <1>1, <2>1 DEF Edit, IsDirectory
  <2> QED BY <2>2, <2>3 DEF Moved
<1> QED BY <1>2, <1>3, <1>4, <1>5

\* Which operation is which.
LEMMA Operations ==
  /\ \A n, k : Write(n, k).op = "write" /\ Write(n, k).name = n /\ Write(n, k).document = k
  /\ \A n : SyncFile(n).op = "syncFile" /\ SyncFile(n).name = n
  /\ \A n : Disarm(n).op = "disarm" /\ Disarm(n).name = n
  /\ SyncDirectory.op = "syncDirectory"
  /\ \A n, to, no_replace : LET s == Rename(n, to, no_replace) IN
       s.op = "rename" /\ s.name = n /\ s.to = to
  /\ \A n : Unlink(n).op = "unlink" /\ Unlink(n).name = n
BY DEF Write, SyncFile, Disarm, SyncDirectory, Rename, Unlink

\* What each operation does.
LEMMA Effects ==
  ASSUME FileOperation, NEW n
  PROVE  /\ script # <<>> /\ script' = Tail(script) /\ open' = open
         /\ \A k : Head(script) = Write(n, k) =>
              /\ files' = Edit(files, n, k)
              /\ images' = images \cup {Edit(d, n, k) : d \in images}
                                  \cup {Edit(d, n, Torn) : d \in images}
              /\ dirty' = dirty \cup {n} /\ armed' = armed \cup {n} /\ disk' = disk
         /\ Head(script) = SyncFile(n) =>
              /\ images' = {[d EXCEPT ![n] = IF @ = Torn THEN files[n] ELSE @] : d \in images}
              /\ dirty' = dirty \ {n} /\ files' = files /\ disk' = disk /\ armed' = armed
         /\ Head(script) = Disarm(n) =>
              /\ armed' = armed \ {n} /\ files' = files /\ disk' = disk /\ images' = images
              /\ dirty' = dirty
         /\ \A to, no_replace : Head(script) = Rename(n, to, no_replace) /\ n \notin dirty =>
              /\ files' = Moved(files, n, to)
              /\ images' = images \cup {[d EXCEPT ![to] = files[n], ![n] = None] : d \in images}
              /\ dirty' = dirty /\ armed' = armed \ {n} /\ disk' = disk
         /\ Head(script) = Unlink(n) =>
              /\ files' = Edit(files, n, None)
              /\ images' = images \cup {[d EXCEPT ![n] = None] : d \in images}
              /\ dirty' = dirty \ {n} /\ armed' = armed /\ disk' = disk
         /\ Head(script) = SyncDirectory =>
              /\ images' = Torns(files, dirty) /\ disk' = files
              /\ files' = files /\ dirty' = dirty /\ armed' = armed
<1>1. PICK s : s = Head(script)
  OBVIOUS
<1>2. \/ DoWrite(s) \/ DoSyncFile(s) \/ DoDisarm(s) \/ DoRename(s) \/ DoUnlink(s)
      \/ DoSyncDirectory(s)
  BY <1>1 DEF FileOperation
<1>3. /\ DoWrite(s) => s.op = "write"
      /\ DoSyncFile(s) => s.op = "syncFile"
      /\ DoDisarm(s) => s.op = "disarm"
      /\ DoRename(s) => s.op = "rename"
      /\ DoUnlink(s) => s.op = "unlink"
      /\ DoSyncDirectory(s) => s.op = "syncDirectory"
  BY DEF DoWrite, DoSyncFile, DoDisarm, DoRename, DoUnlink, DoSyncDirectory
<1>4. ASSUME NEW k, s = Write(n, k)
      PROVE  /\ files' = Edit(files, n, k)
             /\ images' = images \cup {Edit(d, n, k) : d \in images}
                                 \cup {Edit(d, n, Torn) : d \in images}
             /\ dirty' = dirty \cup {n} /\ armed' = armed \cup {n} /\ disk' = disk
  <2>1. s.op = "write" /\ s.name = n /\ s.document = k
    BY <1>4, Operations
  <2>2. DoWrite(s)
    BY <1>2, <1>3, <2>1
  <2>3. /\ files' = Edit(files, s.name, s.document)
        /\ images' = images \cup {Edit(d, s.name, c) : d \in images, c \in {s.document, Torn}}
        /\ dirty' = dirty \cup {s.name} /\ armed' = armed \cup {s.name} /\ disk' = disk
    BY <2>2 DEF DoWrite, Edit
  <2> QED BY <2>1, <2>3
<1>5. ASSUME s = SyncFile(n)
      PROVE  /\ images' = {[d EXCEPT ![n] = IF @ = Torn THEN files[n] ELSE @] : d \in images}
             /\ dirty' = dirty \ {n} /\ files' = files /\ disk' = disk /\ armed' = armed
  <2>1. s.op = "syncFile" /\ s.name = n
    BY <1>5, Operations
  <2>2. DoSyncFile(s)
    BY <1>2, <1>3, <2>1
  <2> QED BY <2>1, <2>2 DEF DoSyncFile
<1>6. ASSUME s = Disarm(n)
      PROVE  /\ armed' = armed \ {n} /\ files' = files /\ disk' = disk /\ images' = images
             /\ dirty' = dirty
  <2>1. s.op = "disarm" /\ s.name = n
    BY <1>6, Operations
  <2>2. DoDisarm(s)
    BY <1>2, <1>3, <2>1
  <2> QED BY <2>1, <2>2 DEF DoDisarm
<1>7. ASSUME NEW to, NEW no_replace, s = Rename(n, to, no_replace), n \notin dirty
      PROVE  /\ files' = Moved(files, n, to)
             /\ images' = images \cup {[d EXCEPT ![to] = files[n], ![n] = None] : d \in images}
             /\ dirty' = dirty /\ armed' = armed \ {n} /\ disk' = disk
  <2>1. s.op = "rename" /\ s.name = n /\ s.to = to
    BY <1>7, Operations
  <2>2. DoRename(s)
    BY <1>2, <1>3, <2>1
  <2>3. Contents(s.name) = {files[n]}
    BY <1>7, <2>1 DEF Contents
  <2>4. /\ files' = Moved(files, s.name, s.to)
        /\ images' = images \cup {[d EXCEPT ![s.to] = c, ![s.name] = None] :
                                    d \in images, c \in Contents(s.name)}
        /\ dirty' = {IF m = s.name THEN s.to ELSE m : m \in dirty}
        /\ armed' = armed \ {s.name} /\ disk' = disk
    BY <2>2 DEF DoRename, Moved
  <2>5. {IF m = n THEN to ELSE m : m \in dirty} = dirty
    BY <1>7
  <2> QED BY <2>1, <2>3, <2>4, <2>5
<1>8. ASSUME s = Unlink(n)
      PROVE  /\ files' = Edit(files, n, None)
             /\ images' = images \cup {[d EXCEPT ![n] = None] : d \in images}
             /\ dirty' = dirty \ {n} /\ armed' = armed /\ disk' = disk
  <2>1. s.op = "unlink" /\ s.name = n
    BY <1>8, Operations
  <2>2. DoUnlink(s)
    BY <1>2, <1>3, <2>1
  <2> QED BY <2>1, <2>2 DEF DoUnlink, Edit
<1>9. ASSUME s = SyncDirectory
      PROVE  /\ images' = Torns(files, dirty) /\ disk' = files
             /\ files' = files /\ dirty' = dirty /\ armed' = armed
  <2>1. s.op = "syncDirectory"
    BY <1>9, Operations
  <2>2. DoSyncDirectory(s)
    BY <1>2, <1>3, <2>1
  <2> QED BY <2>2 DEF DoSyncDirectory, Synced, Torns, Tear
<1>10. script # <<>> /\ script' = Tail(script) /\ open' = open
  BY DEF FileOperation
<1> QED BY <1>1, <1>4, <1>5, <1>6, <1>7, <1>8, <1>9, <1>10

\* The same for a stage that is written, or renamed once synchronized.
LEMMA WriteEffects ==
  ASSUME FileOperation, NEW n, NEW k, Head(script) = Write(n, k)
  PROVE  /\ files' = Edit(files, n, k)
         /\ images' = images \cup {Edit(d, n, k) : d \in images} \cup {Edit(d, n, Torn) : d \in images}
         /\ dirty' = dirty \cup {n} /\ armed' = armed \cup {n} /\ disk' = disk
BY Effects, Zenon

\* A rename.
LEMMA RenameEffects ==
  ASSUME FileOperation, NEW n, NEW to, NEW no_replace, Head(script) = Rename(n, to, no_replace),
         n \notin dirty
  PROVE  /\ files' = Moved(files, n, to)
         /\ images' = images \cup {[d EXCEPT ![to] = files[n], ![n] = None] : d \in images}
         /\ dirty' = dirty /\ armed' = armed \ {n} /\ disk' = disk
BY Effects, Zenon

-----------------------------------------------------------------------------
(***************************************************************************)
(* The file operations keep the invariant.                                 *)
(***************************************************************************)
LEMMA InvariantFacts ==
  ASSUME PInv
  PROVE  /\ files \in images /\ Legal(files) /\ Legal(disk)
         /\ IsDirectory(files) /\ IsDirectory(disk)
         /\ \A d \in images \cup {files, disk} : Stands(disk, d, armed)
         /\ dirty \subseteq Stages /\ armed \subseteq Stages /\ DirtyFits(files, dirty)
<1>1. /\ files \in images /\ DirtyFits(files, dirty)
      /\ \A d \in images \cup {files, disk} : Stands(disk, d, armed)
  BY DEF PInv, Standing, Stands
<1>2. Stands(disk, files, armed) /\ Stands(disk, disk, armed)
  BY <1>1
<1>3. Legal(files) /\ Legal(disk) /\ armed \subseteq Stages
  BY <1>2 DEF Stands, Follows, Cleanable
<1> QED BY <1>1, <1>3 DEF Legal, DirtyFits

\* The invariant of the next state, from its parts.
LEMMA InvariantNext ==
  ASSUME files' \in images', \A d \in images' \cup {disk'} : Stands(disk', d, armed'),
         DirtyFits(files', dirty'),
         IF open' THEN Ready' \/ (\E n \in Stages : Written(n)') \/ Unsynced'
         ELSE script' = <<>> /\ armed' = {}
  PROVE  PInv'
BY DEF PInv, Standing, Stands

\* Nothing is under way, and a file operation is done.
LEMMA ReadySteps ==
  ASSUME PInv, open, Ready, FileOperation
  PROVE  PInv'
<1>0. /\ files = disk /\ images \subseteq Torns(files, dirty) /\ Plan(script, files, dirty, armed)
  BY DEF Ready
<1>1. /\ files \in images /\ Legal(files) /\ IsDirectory(files)
      /\ \A d \in images \cup {files} : Stands(files, d, armed)
      /\ dirty \subseteq Stages /\ armed \subseteq Stages /\ DirtyFits(files, dirty)
  BY <1>0, InvariantFacts
<1>2. Kind(script, files, dirty, armed) /\ script # <<>> /\ script' = Tail(script) /\ open'
  BY <1>0, <1>1, PlanKinds DEF FileOperation
<1>3. CASE Writes(script, files, dirty, armed)
  <2>1. PICK n \in Stages, k \in CatalogDocuments \cup RecoveryDocuments :
          /\ Head(script) = Write(n, k) /\ files[n] = None
          /\ \A v \in {k, Torn} : /\ Beside(files, Edit(files, n, v))
                                  /\ Cleanable(Edit(files, n, v), armed \cup {n})
          /\ DirtyFits(Edit(files, n, k), {n})
          /\ Head(Tail(script)) = SyncFile(n)
          /\ Continues(Tail(Tail(script)), files, Edit(files, n, k), n, armed \cup {n})
    BY <1>3 DEF Writes
  <2>2. dirty = {} /\ Tail(script) # <<>>
    BY <1>3 DEF Writes
  <2>3. images = {files}
    BY <1>0, <1>1, <2>2, TearNothing
  <2>5. /\ files' = Edit(files, n, k) /\ dirty' = {n} /\ armed' = armed \cup {n} /\ disk' = disk
        /\ images' = images \cup {Edit(d, n, k) : d \in images} \cup {Edit(d, n, Torn) : d \in images}
    <3>1. dirty \cup {n} = {n}
      BY <2>2
    <3> QED BY <2>1, <3>1, WriteEffects
  <2>6. images' = {files, Edit(files, n, k), Edit(files, n, Torn)}
    BY <2>3, <2>5
  <2>7. k # None /\ k # Torn /\ n \in Names
    BY DocumentsAssumption DEF Stages, Names
  <2>8. files'[n] = k
    BY <1>1, <2>5, <2>7, EditFields
  <2>9. Written(n)'
    BY <1>0, <1>2, <2>1, <2>2, <2>5, <2>6, <2>7, <2>8 DEF Written
  <2>10. Cleanable(files, armed \cup {n})
    <3>1. Cleanable(files, armed)
      BY <1>1 DEF Stands
    <3> QED BY <2>1, <3>1 DEF Cleanable, Stages
  <2>11. \A d \in images' \cup {disk'} : Stands(disk', d, armed')
    <3>1. Stands(files, files, armed \cup {n})
      BY <1>1, <2>10 DEF Stands
    <3>2. \A v \in {k, Torn} : Stands(files, Edit(files, n, v), armed \cup {n})
      BY <2>1, BesideFollows DEF Stands
    <3> QED BY <1>0, <2>5, <2>6, <3>1, <3>2
  <2> QED BY <1>2, <2>1, <2>5, <2>6, <2>9, <2>11, InvariantNext
<1>4. CASE Syncs(script, files, dirty, armed)
  <2>1. PICK n \in Stages :
          Head(script) = SyncFile(n) /\ Plan(Tail(script), files, dirty \ {n}, armed)
    BY <1>4 DEF Syncs
  <2>3. /\ files' = files /\ disk' = disk /\ armed' = armed /\ dirty' = dirty \ {n}
        /\ images' = {[d EXCEPT ![n] = IF @ = Torn THEN files[n] ELSE @] : d \in images}
    BY <2>1, Effects
  <2>4. images' \subseteq Torns(files, dirty \ {n})
    <3>1. \A d \in images :
            [d EXCEPT ![n] = IF @ = Torn THEN files[n] ELSE @] \in Torns(files, dirty \ {n})
      BY <1>0, <1>1, TornThen
    <3> QED BY <2>3, <3>1
  <2>5. [files EXCEPT ![n] = IF @ = Torn THEN files[n] ELSE @] = files
    BY <1>1 DEF IsDirectory, Names, Stages
  <2>6. files' \in images'
    BY <1>1, <2>3, <2>5
  <2>7. DirtyFits(files', dirty')
    BY <1>1, <2>3, Fewer
  <2>8. \A d \in images' \cup {disk'} : Stands(disk', d, armed')
    BY <1>0, <1>1, <2>3, <2>4, <2>7, TornsStand
  <2>9. Ready'
    BY <1>0, <1>2, <2>1, <2>3, <2>4 DEF Ready
  <2> QED BY <1>2, <2>6, <2>7, <2>8, <2>9, InvariantNext
<1>5. CASE Disarms(script, files, dirty, armed)
  <2>1. PICK n \in Stages :
          Head(script) = Disarm(n) /\ Plan(Tail(script), files, dirty, armed \ {n})
    BY <1>5 DEF Disarms
  <2>3. /\ files' = files /\ disk' = disk /\ armed' = armed \ {n} /\ dirty' = dirty
        /\ images' = images
    BY <2>1, Effects
  <2>8. \A d \in images' \cup {disk'} : Stands(disk', d, armed')
    <3>1. ASSUME NEW d \in images \cup {files} PROVE Stands(files, d, armed \ {n})
      BY <1>1, Fewer DEF Stands
    <3> QED BY <1>0, <2>3, <3>1
  <2>9. Ready'
    BY <1>0, <1>2, <2>1, <2>3 DEF Ready
  <2> QED BY <1>1, <1>2, <2>3, <2>8, <2>9, InvariantNext
<1>6. CASE Renaming(script, files, dirty, armed)
  <2>1. PICK n \in Stages \ dirty, to \in {"catalog", "delivery"}, no_replace \in BOOLEAN :
          /\ Head(script) = Rename(n, to, no_replace)
          /\ Follows(files, Moved(files, n, to)) /\ DirtyFits(Moved(files, n, to), dirty)
          /\ Cleanable(Moved(files, n, to), armed \ {n})
          /\ Plan(Tail(Tail(script)), Moved(files, n, to), dirty, armed \ {n})
    BY <1>6 DEF Renaming
  <2> DEFINE e == Moved(files, n, to)
  <2>5. /\ files' = e /\ disk' = disk /\ armed' = armed \ {n} /\ dirty' = dirty
        /\ images' = images \cup {[d EXCEPT ![to] = files[n], ![n] = None] : d \in images}
    BY <2>1, RenameEffects
  <2>6. \A d \in images' : d \in images \/ d \in Torns(e, dirty)
    <3>1. \A d \in images : [d EXCEPT ![to] = files[n], ![n] = None] \in Torns(e, dirty)
      BY <1>0, <1>1, TornThen
    <3> HIDE DEF e
    <3> QED BY <2>5, <3>1
  <2>7. files' \in images'
    BY <1>1, <2>5 DEF Moved
  <2> HIDE DEF e
  <2>8. \A d \in images' \cup {disk'} : Stands(disk', d, armed')
    <3>1. \A d \in images \cup {files} : Stands(files, d, armed \ {n})
      <4>1. ASSUME NEW d \in images \cup {files} PROVE Stands(files, d, armed \ {n})
        BY <1>1, Fewer DEF Stands
      <4> QED BY <4>1
    <3>2. \A d \in Torns(e, dirty) : Stands(files, d, armed \ {n})
      BY <2>1, TornsStand DEF Stands, e
    <3> QED BY <1>0, <2>5, <2>6, <3>1, <3>2
  <2>9. Unsynced'
    BY <1>2, <1>6, <2>1, <2>5 DEF Unsynced, Renaming, e
  <2>10. DirtyFits(files', dirty')
    BY <2>1, <2>5 DEF e
  <2> QED BY <1>2, <2>7, <2>8, <2>9, <2>10, InvariantNext
<1>7. CASE Unlinks(script, files, dirty, armed)
  <2>1. PICK n \in {"delivery", "deliveryStage"} :
          /\ Head(script) = Unlink(n)
          /\ Follows(files, Edit(files, n, None)) /\ DirtyFits(Edit(files, n, None), dirty \ {n})
          /\ Plan(Tail(Tail(script)), Edit(files, n, None), dirty \ {n}, {})
    BY <1>7 DEF Unlinks
  <2>0. armed = {}
    BY <1>7 DEF Unlinks
  <2> DEFINE e == Edit(files, n, None)
  <2>5. /\ files' = e /\ disk' = disk /\ armed' = armed /\ dirty' = dirty \ {n}
        /\ images' = images \cup {[d EXCEPT ![n] = None] : d \in images}
    BY <2>1, Effects
  <2>6. \A d \in images' : d \in images \/ d \in Torns(e, dirty \ {n})
    <3>1. \A d \in images : [d EXCEPT ![n] = None] \in Torns(e, dirty \ {n})
      BY <1>0, <1>1, TornThen DEF Names
    <3> HIDE DEF e
    <3> QED BY <2>5, <3>1
  <2>7. files' \in images'
    BY <1>1, <2>5 DEF Edit
  <2> HIDE DEF e
  <2>8. \A d \in images' \cup {disk'} : Stands(disk', d, armed')
    <3>1. Cleanable(e, armed)
      BY <2>0, Unguarded
    <3>2. \A d \in Torns(e, dirty \ {n}) : Stands(files, d, armed)
      BY <2>1, <3>1, TornsStand DEF Stands, e
    <3> QED BY <1>0, <1>1, <2>5, <2>6, <3>2
  <2>9. Unsynced'
    BY <1>2, <1>7, <2>0, <2>1, <2>5 DEF Unsynced, Unlinks, e
  <2>10. DirtyFits(files', dirty')
    BY <2>1, <2>5 DEF e
  <2> QED BY <1>2, <2>7, <2>8, <2>9, <2>10, InvariantNext
<1> QED BY <1>2, <1>3, <1>4, <1>5, <1>6, <1>7 DEF Kind, Empty

\* A stage was written.
LEMMA WrittenSteps ==
  ASSUME PInv, open, NEW n \in Stages, Written(n), FileOperation
  PROVE  PInv'
<1>1. /\ files \in images /\ IsDirectory(files) /\ IsDirectory(disk)
      /\ \A d \in images \cup {files, disk} : Stands(disk, d, armed)
  BY InvariantFacts
<1>2. script # <<>> /\ script' = Tail(script) /\ open'
  BY DEF FileOperation
<1>3. /\ disk[n] = None /\ files = Edit(disk, n, files[n]) /\ files[n] # None /\ files[n] # Torn
  BY DEF Written
<1>4. CASE /\ Head(script) = SyncFile(n) /\ dirty = {n}
           /\ images \subseteq {disk, files, Edit(disk, n, Torn)}
           /\ Continues(Tail(script), disk, files, n, armed)
  <2>3. /\ files' = files /\ disk' = disk /\ armed' = armed /\ dirty' = {}
        /\ images' = {[d EXCEPT ![n] = IF @ = Torn THEN files[n] ELSE @] : d \in images}
    BY <1>4, Effects
  <2>4. /\ \A d \in {disk, files, Edit(disk, n, Torn)} :
             [d EXCEPT ![n] = IF @ = Torn THEN files[n] ELSE @] \in {disk, files}
        /\ [files EXCEPT ![n] = IF @ = Torn THEN files[n] ELSE @] = files
    BY <1>1, <1>3, EditThen
  <2>5. images' \subseteq {disk, files} /\ files' \in images'
    BY <1>1, <1>4, <2>3, <2>4
  <2>6. \A d \in images' \cup {disk'} : Stands(disk', d, armed')
    BY <1>1, <2>3, <2>5
  <2>7. DirtyFits(files', dirty')
    BY <2>3, Unguarded
  <2>8. CASE /\ script' # <<>> /\ Head(script') = SyncDirectory
             /\ Plan(Tail(script'), files, {}, armed)
    BY <1>2, <2>3, <2>5, <2>6, <2>7, <2>8, InvariantNext DEF Unsynced
  <2>9. CASE Renames(script', disk, files, n, armed)
    <3>1. script' # <<>>
      BY <2>9 DEF Renames
    <3>2. Written(n)'
      BY <1>3, <2>3, <2>5, <2>9, <3>1 DEF Written
    <3> QED BY <1>2, <2>5, <2>6, <2>7, <3>2, InvariantNext
  <2> QED BY <1>2, <1>4, <2>8, <2>9 DEF Continues
<1>5. CASE dirty = {} /\ images \subseteq {disk, files} /\ Renames(script, disk, files, n, armed)
  <2>1. PICK to \in {"catalog", "delivery"}, no_replace \in BOOLEAN :
          /\ script = <<Rename(n, to, no_replace), SyncDirectory>>
          /\ Follows(disk, Moved(files, n, to)) /\ Shape(Moved(files, n, to), Clean)
    BY <1>5 DEF Renames
  <2> DEFINE e == Moved(files, n, to)
  <2>2. Head(script) = Rename(n, to, no_replace) /\ Tail(script) = <<SyncDirectory>>
    BY <2>1
  <2>5. armed = {n}
    BY <1>5 DEF Renames
  <2>6. /\ files' = e /\ disk' = disk /\ armed' = {} /\ dirty' = {}
        /\ images' = images \cup {[d EXCEPT ![to] = files[n], ![n] = None] : d \in images}
    <3>1. n \notin dirty /\ armed \ {n} = {}
      BY <1>5, <2>5
    <3> QED BY <1>5, <2>2, <3>1, RenameEffects
  <2>7. \A d \in {disk, files} : [d EXCEPT ![to] = files[n], ![n] = None] = e
    BY <1>1, <1>3, EditThen
  <2> HIDE DEF e
  <2>8. images' \subseteq {disk, files, e} /\ files' \in images'
    BY <1>1, <1>5, <2>6, <2>7
  <2>9. \A d \in images' \cup {disk'} : Stands(disk', d, armed')
    <3>1. Stands(disk, disk, {}) /\ Stands(disk, files, {}) /\ Stands(disk, e, {})
      BY <1>1, <2>1, Unguarded DEF Stands, e
    <3> QED BY <2>6, <2>8, <3>1
  <2>10. Head(script') = SyncDirectory /\ Tail(script') = <<>> /\ script' # <<>>
    <3>1. script' = <<SyncDirectory>>
      BY <1>2, <2>2
    <3> HIDE DEF SyncDirectory
    <3> QED BY <3>1
  <2>11. Plan(<<>>, e, {}, {})
    BY <2>1 DEF Plan, AtRest, e
  <2>12. Unsynced'
    BY <2>6, <2>10, <2>11 DEF Unsynced
  <2> QED BY <1>2, <2>6, <2>8, <2>9, <2>12, Unguarded, InvariantNext
<1> QED BY <1>4, <1>5 DEF Written

\* The directory is synchronized.
LEMMA UnsyncedSteps ==
  ASSUME PInv, open, Unsynced, FileOperation
  PROVE  PInv'
<1>1. /\ Legal(files) /\ IsDirectory(files) /\ DirtyFits(files, dirty) /\ Stands(disk, files, armed)
  BY InvariantFacts
<1>2. script # <<>> /\ script' = Tail(script) /\ open'
  BY DEF FileOperation
<1>3. Head(script) = SyncDirectory /\ Plan(Tail(script), files, dirty, armed)
  BY DEF Unsynced
<1>5. /\ files' = files /\ disk' = files /\ dirty' = dirty /\ armed' = armed
      /\ images' = Torns(files, dirty)
  BY <1>3, Effects
<1>6. Stands(files, files, armed)
  BY <1>1, FollowsItself DEF Stands
<1>7. \A d \in images' \cup {disk'} : Stands(disk', d, armed')
  BY <1>1, <1>5, <1>6, TornsStand
<1>8. files' \in images'
  BY <1>1, <1>5, TearNothing
<1>9. Ready'
  BY <1>2, <1>3, <1>5 DEF Ready
<1> QED BY <1>1, <1>2, <1>5, <1>7, <1>8, <1>9, InvariantNext

\* A file operation in any state of the store.
LEMMA FileOperationSteps ==
  ASSUME PInv, FileOperation
  PROVE  PInv'
<1>1. open
  BY DEF PInv, FileOperation
<1> QED BY <1>1, ReadySteps, WrittenSteps, UnsyncedSteps DEF PInv

-----------------------------------------------------------------------------
(***************************************************************************)
(* Crashes, errors and power losses keep the invariant.                    *)
(***************************************************************************)
LEMMA CrashSteps ==
  ASSUME PInv, Crash
  PROVE  PInv'
<1>1. /\ files \in images /\ DirtyFits(files, dirty)
      /\ \A d \in images \cup {files, disk} : Stands(disk, d, armed)
  BY InvariantFacts
<1>2. /\ files' = files /\ disk' = disk /\ images' = images /\ dirty' = dirty
      /\ ~ open' /\ script' = <<>> /\ armed' = {}
  BY DEF Crash
<1>3. \A d \in images \cup {disk} : Stands(disk, d, {})
  BY <1>1, Unguarded DEF Stands
<1>4. \A d \in images' \cup {disk'} : Stands(disk', d, armed')
  BY <1>2, <1>3
<1> QED BY <1>1, <1>2, <1>4, InvariantNext

\* Only a plan that is ready writes next.
LEMMA WritesNext ==
  ASSUME PInv, script # <<>>, Head(script).op = "write"
  PROVE  /\ Ready /\ dirty = {} /\ images = {files}
         /\ \E n \in Stages : \E k : /\ Head(script) = Write(n, k)
                                     /\ Beside(files, Edit(files, n, Torn))
<1>1. open /\ IsDirectory(files) /\ files \in images
  BY InvariantFacts DEF PInv
<1>2. ~ Unsynced
  BY Operations DEF Unsynced
<1>3. ASSUME NEW n \in Stages PROVE ~ Written(n)
  <2>1. SUFFICES ASSUME Written(n) PROVE FALSE
    OBVIOUS
  <2>2. Head(script) = SyncFile(n) \/ Renames(script, disk, files, n, armed)
    BY <2>1 DEF Written
  <2>3. CASE Renames(script, disk, files, n, armed)
    <3>1. PICK to, no_replace : script = <<Rename(n, to, no_replace), SyncDirectory>>
      BY <2>3 DEF Renames
    <3>2. Head(script) = Rename(n, to, no_replace)
      BY <3>1
    <3> QED BY <3>2, Operations
  <2> QED BY <2>2, <2>3, Operations
<1>4. Ready
  BY <1>1, <1>2, <1>3 DEF PInv
<1>5. Kind(script, files, dirty, armed)
  BY <1>1, <1>4, PlanKinds DEF Ready
<1>6. Writes(script, files, dirty, armed)
  <2>1. ~ Syncs(script, files, dirty, armed)
    BY Operations DEF Syncs
  <2>2. ~ Disarms(script, files, dirty, armed)
    BY Operations DEF Disarms
  <2>3. ~ Renaming(script, files, dirty, armed)
    <3>1. Renaming(script, files, dirty, armed) =>
            \E n, to, no_replace : Head(script) = Rename(n, to, no_replace)
      BY DEF Renaming
    <3> QED BY <3>1, Operations
  <2>4. ~ Unlinks(script, files, dirty, armed)
    BY Operations DEF Unlinks
  <2> QED BY <1>5, <2>1, <2>2, <2>3, <2>4 DEF Kind, Empty
<1>7. dirty = {}
  BY <1>6 DEF Writes
<1>8. images = {files}
  BY <1>1, <1>4, <1>7, TearNothing DEF Ready
<1>9. \E n \in Stages : \E k :
        Head(script) = Write(n, k) /\ Beside(files, Edit(files, n, Torn))
  BY <1>6 DEF Writes
<1> QED BY <1>4, <1>7, <1>8, <1>9

\* A crash in the middle of a write.
LEMMA CrashInWriteSteps ==
  ASSUME PInv, CrashInWrite
  PROVE  PInv'
<1>1. /\ Ready /\ dirty = {} /\ images = {files}
  BY WritesNext DEF CrashInWrite
<1>a. PICK n \in Stages : \E k : /\ Head(script) = Write(n, k)
                                  /\ Beside(files, Edit(files, n, Torn))
  BY WritesNext DEF CrashInWrite
<1>2. PICK k : Head(script) = Write(n, k) /\ Beside(files, Edit(files, n, Torn))
  BY <1>a
<1>3. Head(script).name = n
  BY <1>2, Operations
<1>4. /\ files' = Edit(files, n, Torn)
      /\ images' = images \cup {Edit(d, n, Torn) : d \in images}
      /\ ~ open' /\ script' = <<>> /\ armed' = {} /\ disk' = disk /\ dirty' = dirty
  BY <1>3 DEF CrashInWrite, Edit
<1>5. files = disk /\ Stands(disk, files, {}) /\ Stands(disk, Edit(files, n, Torn), {})
  <2>1. Legal(files) /\ files = disk
    BY <1>1, InvariantFacts DEF Ready
  <2> QED BY <1>2, <2>1, FollowsItself, BesideFollows, Unguarded DEF Stands
<1>6. images' = {files, Edit(files, n, Torn)}
  BY <1>1, <1>4
<1>7. \A d \in images' \cup {disk'} : Stands(disk', d, armed')
  BY <1>4, <1>5, <1>6
<1>8. DirtyFits(files', dirty')
  BY <1>1, <1>4, Unguarded
<1> QED BY <1>4, <1>6, <1>7, <1>8, InvariantNext

\* An error, which removes what is guarded.
LEMMA FailSteps ==
  ASSUME PInv, Fail
  PROVE  PInv'
<1>1. /\ files \in images /\ DirtyFits(files, dirty) /\ Legal(files)
      /\ \A d \in images \cup {files, disk} : Stands(disk, d, armed)
  BY InvariantFacts
<1>2. /\ files' = Cleaned(files, armed)
      /\ images' = {Cleaned(d, names) : d \in images, names \in SUBSET armed}
      /\ dirty' = dirty \ armed /\ disk' = disk
      /\ ~ open' /\ script' = <<>> /\ armed' = {}
  BY DEF Fail, Cleaned
<1>3. files' \in images'
  BY <1>1, <1>2
<1>4. ASSUME NEW d \in images, NEW names \in SUBSET armed
      PROVE  Stands(disk, Cleaned(d, names), {})
  <2>1. Follows(disk, d) /\ Legal(d) /\ Cleanable(d, armed)
    BY <1>1 DEF Stands, Follows
  <2>2. Beside(d, Cleaned(d, names))
    BY <2>1, CleanKeeps DEF Beside
  <2> QED BY <2>1, <2>2, FollowsBeside, Unguarded DEF Stands
<1>5. Stands(disk, disk, {})
  BY <1>1, Unguarded DEF Stands
<1>6. \A d \in images' \cup {disk'} : Stands(disk', d, armed')
  BY <1>2, <1>4, <1>5
<1>7. DirtyFits(files', dirty')
  BY <1>1, <1>2, CleanKeeps DEF Stands
<1> QED BY <1>2, <1>3, <1>6, <1>7, InvariantNext

\* A power loss.
LEMMA PowerLossSteps ==
  ASSUME PInv, PowerLoss
  PROVE  PInv'
<1>1. \A d \in images : Legal(d)
  BY InvariantFacts DEF Stands, Follows
<1>2. PICK d \in images : files' = d /\ disk' = d /\ images' = {d}
  BY DEF PowerLoss
<1>3. ~ open' /\ script' = <<>> /\ armed' = {} /\ dirty' = {}
  BY DEF PowerLoss
<1>4. Stands(d, d, {})
  BY <1>1, FollowsItself, Unguarded DEF Stands
<1>5. \A e \in images' \cup {disk'} : Stands(disk', e, armed')
  BY <1>2, <1>3, <1>4
<1>6. DirtyFits(files', dirty')
  BY <1>3, Unguarded
<1> QED BY <1>2, <1>3, <1>5, <1>6, InvariantNext

-----------------------------------------------------------------------------
(***************************************************************************)
(* The scripts as they are written: lists of operations joined together.   *)
(***************************************************************************)
\* Two lists joined are the list that has the elements of both in order.
LEMMA Join ==
  ASSUME NEW S, NEW s \in Seq(S), NEW t \in Seq(S), NEW u \in Seq(S),
         Len(u) = Len(s) + Len(t), \A i \in 1 .. Len(s) : u[i] = s[i],
         \A i \in 1 .. Len(t) : u[Len(s) + i] = t[i]
  PROVE  s \o t = u
<1>1. Len(s \o t) = Len(u) /\ s \o t \in Seq(S) /\ Len(s) \in Nat /\ Len(t) \in Nat
  BY ConcatProperties, LenProperties
<1>2. ASSUME NEW i \in 1 .. Len(u) PROVE (s \o t)[i] = u[i]
  <2>1. CASE i <= Len(s)
    BY <1>1, <2>1, ConcatProperties
  <2>2. CASE i > Len(s)
    <3>1. i - Len(s) \in 1 .. Len(t) /\ i = Len(s) + (i - Len(s))
      BY <1>1, <2>2
    <3> QED BY <1>1, <2>2, <3>1, ConcatProperties
  <2> QED BY <1>1, <2>1, <2>2
<1> QED BY <1>1, <1>2, SeqEqual

\* The lengths the scripts are joined from.
LEMMA Join1_2 ==
  ASSUME NEW a1, NEW b1, NEW b2
  PROVE  <<a1>> \o <<b1, b2>>
         = <<a1, b1, b2>>
<1> DEFINE S == {a1, b1, b2}
           s == <<a1>>
           t == <<b1, b2>>
           u == <<a1, b1, b2>>
<1>1. s \in Seq(S) /\ t \in Seq(S) /\ u \in Seq(S)
  OBVIOUS
<1>2. Len(s) = 1 /\ Len(t) = 2 /\ Len(u) = 3
  OBVIOUS
<1>3. (\A i \in 1 .. 1 : u[i] = s[i]) /\ (\A i \in 1 .. 2 : u[1 + i] = t[i])
  OBVIOUS
<1>4. s \o t = u
  <2> HIDE DEF S, s, t, u
  <2>1. /\ Len(u) = Len(s) + Len(t)
        /\ \A i \in 1 .. Len(s) : u[i] = s[i]
        /\ \A i \in 1 .. Len(t) : u[Len(s) + i] = t[i]
    BY <1>2, <1>3
  <2> QED BY <1>1, <2>1, Join
<1> QED BY <1>4

LEMMA Join2_1 ==
  ASSUME NEW a1, NEW a2, NEW b1
  PROVE  <<a1, a2>> \o <<b1>>
         = <<a1, a2, b1>>
<1> DEFINE S == {a1, a2, b1}
           s == <<a1, a2>>
           t == <<b1>>
           u == <<a1, a2, b1>>
<1>1. s \in Seq(S) /\ t \in Seq(S) /\ u \in Seq(S)
  OBVIOUS
<1>2. Len(s) = 2 /\ Len(t) = 1 /\ Len(u) = 3
  OBVIOUS
<1>3. (\A i \in 1 .. 2 : u[i] = s[i]) /\ (\A i \in 1 .. 1 : u[2 + i] = t[i])
  OBVIOUS
<1>4. s \o t = u
  <2> HIDE DEF S, s, t, u
  <2>1. /\ Len(u) = Len(s) + Len(t)
        /\ \A i \in 1 .. Len(s) : u[i] = s[i]
        /\ \A i \in 1 .. Len(t) : u[Len(s) + i] = t[i]
    BY <1>2, <1>3
  <2> QED BY <1>1, <2>1, Join
<1> QED BY <1>4

LEMMA Join2_2 ==
  ASSUME NEW a1, NEW a2, NEW b1, NEW b2
  PROVE  <<a1, a2>> \o <<b1, b2>>
         = <<a1, a2, b1, b2>>
<1> DEFINE S == {a1, a2, b1, b2}
           s == <<a1, a2>>
           t == <<b1, b2>>
           u == <<a1, a2, b1, b2>>
<1>1. s \in Seq(S) /\ t \in Seq(S) /\ u \in Seq(S)
  OBVIOUS
<1>2. Len(s) = 2 /\ Len(t) = 2 /\ Len(u) = 4
  OBVIOUS
<1>3. (\A i \in 1 .. 2 : u[i] = s[i]) /\ (\A i \in 1 .. 2 : u[2 + i] = t[i])
  OBVIOUS
<1>4. s \o t = u
  <2> HIDE DEF S, s, t, u
  <2>1. /\ Len(u) = Len(s) + Len(t)
        /\ \A i \in 1 .. Len(s) : u[i] = s[i]
        /\ \A i \in 1 .. Len(t) : u[Len(s) + i] = t[i]
    BY <1>2, <1>3
  <2> QED BY <1>1, <2>1, Join
<1> QED BY <1>4

LEMMA Join3_2 ==
  ASSUME NEW a1, NEW a2, NEW a3, NEW b1, NEW b2
  PROVE  <<a1, a2, a3>> \o <<b1, b2>>
         = <<a1, a2, a3, b1, b2>>
<1> DEFINE S == {a1, a2, a3, b1, b2}
           s == <<a1, a2, a3>>
           t == <<b1, b2>>
           u == <<a1, a2, a3, b1, b2>>
<1>1. s \in Seq(S) /\ t \in Seq(S) /\ u \in Seq(S)
  OBVIOUS
<1>2. Len(s) = 3 /\ Len(t) = 2 /\ Len(u) = 5
  OBVIOUS
<1>3. (\A i \in 1 .. 3 : u[i] = s[i]) /\ (\A i \in 1 .. 2 : u[3 + i] = t[i])
  OBVIOUS
<1>4. s \o t = u
  <2> HIDE DEF S, s, t, u
  <2>1. /\ Len(u) = Len(s) + Len(t)
        /\ \A i \in 1 .. Len(s) : u[i] = s[i]
        /\ \A i \in 1 .. Len(t) : u[Len(s) + i] = t[i]
    BY <1>2, <1>3
  <2> QED BY <1>1, <2>1, Join
<1> QED BY <1>4

LEMMA Join3_3 ==
  ASSUME NEW a1, NEW a2, NEW a3, NEW b1, NEW b2, NEW b3
  PROVE  <<a1, a2, a3>> \o <<b1, b2, b3>>
         = <<a1, a2, a3, b1, b2, b3>>
<1> DEFINE S == {a1, a2, a3, b1, b2, b3}
           s == <<a1, a2, a3>>
           t == <<b1, b2, b3>>
           u == <<a1, a2, a3, b1, b2, b3>>
<1>1. s \in Seq(S) /\ t \in Seq(S) /\ u \in Seq(S)
  OBVIOUS
<1>2. Len(s) = 3 /\ Len(t) = 3 /\ Len(u) = 6
  OBVIOUS
<1>3. (\A i \in 1 .. 3 : u[i] = s[i]) /\ (\A i \in 1 .. 3 : u[3 + i] = t[i])
  OBVIOUS
<1>4. s \o t = u
  <2> HIDE DEF S, s, t, u
  <2>1. /\ Len(u) = Len(s) + Len(t)
        /\ \A i \in 1 .. Len(s) : u[i] = s[i]
        /\ \A i \in 1 .. Len(t) : u[Len(s) + i] = t[i]
    BY <1>2, <1>3
  <2> QED BY <1>1, <2>1, Join
<1> QED BY <1>4

LEMMA Join3_5 ==
  ASSUME NEW a1, NEW a2, NEW a3, NEW b1, NEW b2, NEW b3, NEW b4, NEW b5
  PROVE  <<a1, a2, a3>> \o <<b1, b2, b3, b4, b5>>
         = <<a1, a2, a3, b1, b2, b3, b4, b5>>
<1> DEFINE S == {a1, a2, a3, b1, b2, b3, b4, b5}
           s == <<a1, a2, a3>>
           t == <<b1, b2, b3, b4, b5>>
           u == <<a1, a2, a3, b1, b2, b3, b4, b5>>
<1>1. s \in Seq(S) /\ t \in Seq(S) /\ u \in Seq(S)
  OBVIOUS
<1>2. Len(s) = 3 /\ Len(t) = 5 /\ Len(u) = 8
  OBVIOUS
<1>3. (\A i \in 1 .. 3 : u[i] = s[i]) /\ (\A i \in 1 .. 5 : u[3 + i] = t[i])
  OBVIOUS
<1>4. s \o t = u
  <2> HIDE DEF S, s, t, u
  <2>1. /\ Len(u) = Len(s) + Len(t)
        /\ \A i \in 1 .. Len(s) : u[i] = s[i]
        /\ \A i \in 1 .. Len(t) : u[Len(s) + i] = t[i]
    BY <1>2, <1>3
  <2> QED BY <1>1, <2>1, Join
<1> QED BY <1>4

LEMMA Join3_7 ==
  ASSUME NEW a1, NEW a2, NEW a3, NEW b1, NEW b2, NEW b3, NEW b4, NEW b5, NEW b6,
         NEW b7
  PROVE  <<a1, a2, a3>> \o <<b1, b2, b3, b4, b5, b6, b7>>
         = <<a1, a2, a3, b1, b2, b3, b4, b5, b6, b7>>
<1> DEFINE S == {a1, a2, a3, b1, b2, b3, b4, b5, b6, b7}
           s == <<a1, a2, a3>>
           t == <<b1, b2, b3, b4, b5, b6, b7>>
           u == <<a1, a2, a3, b1, b2, b3, b4, b5, b6, b7>>
<1>1. s \in Seq(S) /\ t \in Seq(S) /\ u \in Seq(S)
  OBVIOUS
<1>2. Len(s) = 3 /\ Len(t) = 7 /\ Len(u) = 10
  OBVIOUS
<1>3. (\A i \in 1 .. 3 : u[i] = s[i]) /\ (\A i \in 1 .. 7 : u[3 + i] = t[i])
  OBVIOUS
<1>4. s \o t = u
  <2> HIDE DEF S, s, t, u
  <2>1. /\ Len(u) = Len(s) + Len(t)
        /\ \A i \in 1 .. Len(s) : u[i] = s[i]
        /\ \A i \in 1 .. Len(t) : u[Len(s) + i] = t[i]
    BY <1>2, <1>3
  <2> QED BY <1>1, <2>1, Join
<1> QED BY <1>4

LEMMA Join4_2 ==
  ASSUME NEW a1, NEW a2, NEW a3, NEW a4, NEW b1, NEW b2
  PROVE  <<a1, a2, a3, a4>> \o <<b1, b2>>
         = <<a1, a2, a3, a4, b1, b2>>
<1> DEFINE S == {a1, a2, a3, a4, b1, b2}
           s == <<a1, a2, a3, a4>>
           t == <<b1, b2>>
           u == <<a1, a2, a3, a4, b1, b2>>
<1>1. s \in Seq(S) /\ t \in Seq(S) /\ u \in Seq(S)
  OBVIOUS
<1>2. Len(s) = 4 /\ Len(t) = 2 /\ Len(u) = 6
  OBVIOUS
<1>3. (\A i \in 1 .. 4 : u[i] = s[i]) /\ (\A i \in 1 .. 2 : u[4 + i] = t[i])
  OBVIOUS
<1>4. s \o t = u
  <2> HIDE DEF S, s, t, u
  <2>1. /\ Len(u) = Len(s) + Len(t)
        /\ \A i \in 1 .. Len(s) : u[i] = s[i]
        /\ \A i \in 1 .. Len(t) : u[Len(s) + i] = t[i]
    BY <1>2, <1>3
  <2> QED BY <1>1, <2>1, Join
<1> QED BY <1>4

LEMMA Join5_2 ==
  ASSUME NEW a1, NEW a2, NEW a3, NEW a4, NEW a5, NEW b1, NEW b2
  PROVE  <<a1, a2, a3, a4, a5>> \o <<b1, b2>>
         = <<a1, a2, a3, a4, a5, b1, b2>>
<1> DEFINE S == {a1, a2, a3, a4, a5, b1, b2}
           s == <<a1, a2, a3, a4, a5>>
           t == <<b1, b2>>
           u == <<a1, a2, a3, a4, a5, b1, b2>>
<1>1. s \in Seq(S) /\ t \in Seq(S) /\ u \in Seq(S)
  OBVIOUS
<1>2. Len(s) = 5 /\ Len(t) = 2 /\ Len(u) = 7
  OBVIOUS
<1>3. (\A i \in 1 .. 5 : u[i] = s[i]) /\ (\A i \in 1 .. 2 : u[5 + i] = t[i])
  OBVIOUS
<1>4. s \o t = u
  <2> HIDE DEF S, s, t, u
  <2>1. /\ Len(u) = Len(s) + Len(t)
        /\ \A i \in 1 .. Len(s) : u[i] = s[i]
        /\ \A i \in 1 .. Len(t) : u[Len(s) + i] = t[i]
    BY <1>2, <1>3
  <2> QED BY <1>1, <2>1, Join
<1> QED BY <1>4

LEMMA Join6_1 ==
  ASSUME NEW a1, NEW a2, NEW a3, NEW a4, NEW a5, NEW a6, NEW b1
  PROVE  <<a1, a2, a3, a4, a5, a6>> \o <<b1>>
         = <<a1, a2, a3, a4, a5, a6, b1>>
<1> DEFINE S == {a1, a2, a3, a4, a5, a6, b1}
           s == <<a1, a2, a3, a4, a5, a6>>
           t == <<b1>>
           u == <<a1, a2, a3, a4, a5, a6, b1>>
<1>1. s \in Seq(S) /\ t \in Seq(S) /\ u \in Seq(S)
  OBVIOUS
<1>2. Len(s) = 6 /\ Len(t) = 1 /\ Len(u) = 7
  OBVIOUS
<1>3. (\A i \in 1 .. 6 : u[i] = s[i]) /\ (\A i \in 1 .. 1 : u[6 + i] = t[i])
  OBVIOUS
<1>4. s \o t = u
  <2> HIDE DEF S, s, t, u
  <2>1. /\ Len(u) = Len(s) + Len(t)
        /\ \A i \in 1 .. Len(s) : u[i] = s[i]
        /\ \A i \in 1 .. Len(t) : u[Len(s) + i] = t[i]
    BY <1>2, <1>3
  <2> QED BY <1>1, <2>1, Join
<1> QED BY <1>4

LEMMA Join6_2 ==
  ASSUME NEW a1, NEW a2, NEW a3, NEW a4, NEW a5, NEW a6, NEW b1, NEW b2
  PROVE  <<a1, a2, a3, a4, a5, a6>> \o <<b1, b2>>
         = <<a1, a2, a3, a4, a5, a6, b1, b2>>
<1> DEFINE S == {a1, a2, a3, a4, a5, a6, b1, b2}
           s == <<a1, a2, a3, a4, a5, a6>>
           t == <<b1, b2>>
           u == <<a1, a2, a3, a4, a5, a6, b1, b2>>
<1>1. s \in Seq(S) /\ t \in Seq(S) /\ u \in Seq(S)
  OBVIOUS
<1>2. Len(s) = 6 /\ Len(t) = 2 /\ Len(u) = 8
  OBVIOUS
<1>3. (\A i \in 1 .. 6 : u[i] = s[i]) /\ (\A i \in 1 .. 2 : u[6 + i] = t[i])
  OBVIOUS
<1>4. s \o t = u
  <2> HIDE DEF S, s, t, u
  <2>1. /\ Len(u) = Len(s) + Len(t)
        /\ \A i \in 1 .. Len(s) : u[i] = s[i]
        /\ \A i \in 1 .. Len(t) : u[Len(s) + i] = t[i]
    BY <1>2, <1>3
  <2> QED BY <1>1, <2>1, Join
<1> QED BY <1>4

LEMMA Join7_2 ==
  ASSUME NEW a1, NEW a2, NEW a3, NEW a4, NEW a5, NEW a6, NEW a7, NEW b1, NEW b2
  PROVE  <<a1, a2, a3, a4, a5, a6, a7>> \o <<b1, b2>>
         = <<a1, a2, a3, a4, a5, a6, a7, b1, b2>>
<1> DEFINE S == {a1, a2, a3, a4, a5, a6, a7, b1, b2}
           s == <<a1, a2, a3, a4, a5, a6, a7>>
           t == <<b1, b2>>
           u == <<a1, a2, a3, a4, a5, a6, a7, b1, b2>>
<1>1. s \in Seq(S) /\ t \in Seq(S) /\ u \in Seq(S)
  OBVIOUS
<1>2. Len(s) = 7 /\ Len(t) = 2 /\ Len(u) = 9
  OBVIOUS
<1>3. (\A i \in 1 .. 7 : u[i] = s[i]) /\ (\A i \in 1 .. 2 : u[7 + i] = t[i])
  OBVIOUS
<1>4. s \o t = u
  <2> HIDE DEF S, s, t, u
  <2>1. /\ Len(u) = Len(s) + Len(t)
        /\ \A i \in 1 .. Len(s) : u[i] = s[i]
        /\ \A i \in 1 .. Len(t) : u[Len(s) + i] = t[i]
    BY <1>2, <1>3
  <2> QED BY <1>1, <2>1, Join
<1> QED BY <1>4

LEMMA Join8_2 ==
  ASSUME NEW a1, NEW a2, NEW a3, NEW a4, NEW a5, NEW a6, NEW a7, NEW a8, NEW b1,
         NEW b2
  PROVE  <<a1, a2, a3, a4, a5, a6, a7, a8>> \o <<b1, b2>>
         = <<a1, a2, a3, a4, a5, a6, a7, a8, b1, b2>>
<1> DEFINE S == {a1, a2, a3, a4, a5, a6, a7, a8, b1, b2}
           s == <<a1, a2, a3, a4, a5, a6, a7, a8>>
           t == <<b1, b2>>
           u == <<a1, a2, a3, a4, a5, a6, a7, a8, b1, b2>>
<1>1. s \in Seq(S) /\ t \in Seq(S) /\ u \in Seq(S)
  OBVIOUS
<1>2. Len(s) = 8 /\ Len(t) = 2 /\ Len(u) = 10
  OBVIOUS
<1>3. (\A i \in 1 .. 8 : u[i] = s[i]) /\ (\A i \in 1 .. 2 : u[8 + i] = t[i])
  OBVIOUS
<1>4. s \o t = u
  <2> HIDE DEF S, s, t, u
  <2>1. /\ Len(u) = Len(s) + Len(t)
        /\ \A i \in 1 .. Len(s) : u[i] = s[i]
        /\ \A i \in 1 .. Len(t) : u[Len(s) + i] = t[i]
    BY <1>2, <1>3
  <2> QED BY <1>1, <2>1, Join
<1> QED BY <1>4

LEMMA Join9_2 ==
  ASSUME NEW a1, NEW a2, NEW a3, NEW a4, NEW a5, NEW a6, NEW a7, NEW a8, NEW a9,
         NEW b1, NEW b2
  PROVE  <<a1, a2, a3, a4, a5, a6, a7, a8, a9>> \o <<b1, b2>>
         = <<a1, a2, a3, a4, a5, a6, a7, a8, a9, b1, b2>>
<1> DEFINE S == {a1, a2, a3, a4, a5, a6, a7, a8, a9, b1, b2}
           s == <<a1, a2, a3, a4, a5, a6, a7, a8, a9>>
           t == <<b1, b2>>
           u == <<a1, a2, a3, a4, a5, a6, a7, a8, a9, b1, b2>>
<1>1. s \in Seq(S) /\ t \in Seq(S) /\ u \in Seq(S)
  OBVIOUS
<1>2. Len(s) = 9 /\ Len(t) = 2 /\ Len(u) = 11
  OBVIOUS
<1>3. (\A i \in 1 .. 9 : u[i] = s[i]) /\ (\A i \in 1 .. 2 : u[9 + i] = t[i])
  OBVIOUS
<1>4. s \o t = u
  <2> HIDE DEF S, s, t, u
  <2>1. /\ Len(u) = Len(s) + Len(t)
        /\ \A i \in 1 .. Len(s) : u[i] = s[i]
        /\ \A i \in 1 .. Len(t) : u[Len(s) + i] = t[i]
    BY <1>2, <1>3
  <2> QED BY <1>1, <2>1, Join
<1> QED BY <1>4

LEMMA Join10_2 ==
  ASSUME NEW a1, NEW a2, NEW a3, NEW a4, NEW a5, NEW a6, NEW a7, NEW a8, NEW a9,
         NEW a10, NEW b1, NEW b2
  PROVE  <<a1, a2, a3, a4, a5, a6, a7, a8, a9, a10>> \o <<b1, b2>>
         = <<a1, a2, a3, a4, a5, a6, a7, a8, a9, a10, b1, b2>>
<1> DEFINE S == {a1, a2, a3, a4, a5, a6, a7, a8, a9, a10, b1, b2}
           s == <<a1, a2, a3, a4, a5, a6, a7, a8, a9, a10>>
           t == <<b1, b2>>
           u == <<a1, a2, a3, a4, a5, a6, a7, a8, a9, a10, b1, b2>>
<1>1. s \in Seq(S) /\ t \in Seq(S) /\ u \in Seq(S)
  OBVIOUS
<1>2. Len(s) = 10 /\ Len(t) = 2 /\ Len(u) = 12
  OBVIOUS
<1>3. (\A i \in 1 .. 10 : u[i] = s[i]) /\ (\A i \in 1 .. 2 : u[10 + i] = t[i])
  OBVIOUS
<1>4. s \o t = u
  <2> HIDE DEF S, s, t, u
  <2>1. /\ Len(u) = Len(s) + Len(t)
        /\ \A i \in 1 .. Len(s) : u[i] = s[i]
        /\ \A i \in 1 .. Len(t) : u[Len(s) + i] = t[i]
    BY <1>2, <1>3
  <2> QED BY <1>1, <2>1, Join
<1> QED BY <1>4

LEMMA JoinEmpty ==
  ASSUME NEW S, NEW s \in Seq(S)
  PROVE  <<>> \o s = s /\ s \o <<>> = s
BY EmptySeq, ConcatEmptySeq

\* What is published once it is synchronized again.
LEMMA PublishScripts ==
  ASSUME NEW no_replace
  PROVE  /\ <<SyncFile("deliveryStage")>> \o PublishDelivery(no_replace)
            = <<SyncD, MoveD(no_replace), SyncDirectory>>
         /\ <<SyncFile("catalogStage")>> \o PublishCatalog = <<SyncC, MoveC, SyncDirectory>>
         /\ <<SyncFile("deliveryStage"), SyncFile("catalogStage")>>
              \o PublishCatalog \o PublishDelivery(no_replace)
            = <<SyncD, SyncC, MoveC, SyncDirectory, MoveD(no_replace), SyncDirectory>>
<1>1. PublishDelivery(no_replace) = <<MoveD(no_replace), SyncDirectory>>
  BY DEF PublishDelivery, MoveD
<1>2. PublishCatalog = <<MoveC, SyncDirectory>>
  BY DEF PublishCatalog, MoveC
<1>3. SyncFile("deliveryStage") = SyncD /\ SyncFile("catalogStage") = SyncC
  BY DEF SyncD, SyncC
<1>4. <<SyncD>> \o <<MoveD(no_replace), SyncDirectory>> = <<SyncD, MoveD(no_replace), SyncDirectory>>
  BY Join1_2
<1>5. <<SyncC>> \o <<MoveC, SyncDirectory>> = <<SyncC, MoveC, SyncDirectory>>
  BY Join1_2
<1>6. <<SyncD, SyncC>> \o <<MoveC, SyncDirectory>> = <<SyncD, SyncC, MoveC, SyncDirectory>>
  BY Join2_2
<1>7. <<SyncD, SyncC, MoveC, SyncDirectory>> \o <<MoveD(no_replace), SyncDirectory>>
      = <<SyncD, SyncC, MoveC, SyncDirectory, MoveD(no_replace), SyncDirectory>>
  BY Join4_2
<1> QED BY <1>1, <1>2, <1>3, <1>4, <1>5, <1>6, <1>7

\* Nothing joined to a script.
LEMMA NothingThen ==
  ASSUME NEW a, NEW b
  PROVE  /\ <<>> \o <<a, b>> = <<a, b>>
         /\ \A c : <<>> \o <<a, b, c>> = <<a, b, c>>
         /\ \A c, d, e : <<>> \o <<a, b, c, d, e>> = <<a, b, c, d, e>>
         /\ \A c, d, e, f, g : <<>> \o <<a, b, c, d, e, f, g>> = <<a, b, c, d, e, f, g>>
<1>1. <<>> \o <<a, b>> = <<a, b>>
  <2>1. <<a, b>> \in Seq({a, b})
    OBVIOUS
  <2> QED BY <2>1, JoinEmpty
<1>2. ASSUME NEW c PROVE <<>> \o <<a, b, c>> = <<a, b, c>>
  <2>1. <<a, b, c>> \in Seq({a, b, c})
    OBVIOUS
  <2> QED BY <2>1, JoinEmpty
<1>3. ASSUME NEW c, NEW d, NEW e PROVE <<>> \o <<a, b, c, d, e>> = <<a, b, c, d, e>>
  <2>1. <<a, b, c, d, e>> \in Seq({a, b, c, d, e})
    OBVIOUS
  <2> QED BY <2>1, JoinEmpty
<1>4. ASSUME NEW c, NEW d, NEW e, NEW f, NEW g
      PROVE  <<>> \o <<a, b, c, d, e, f, g>> = <<a, b, c, d, e, f, g>>
  <2>1. <<a, b, c, d, e, f, g>> \in Seq({a, b, c, d, e, f, g})
    OBVIOUS
  <2> QED BY <2>1, JoinEmpty
<1> QED BY <1>1, <1>2, <1>3, <1>4

\* The scripts that end a settlement: with its catalog staged, to be staged,
\* or in place; and once its intent is current.
LEMMA SettlementScripts ==
  ASSUME NEW target
  PROVE  LET staged == <<SyncFile("catalogStage")>> \o PublishCatalog
             written == Stage("catalogStage", target) \o <<SyncDirectory>> \o PublishCatalog
             decide == <<SyncFile("deliveryStage")>> \o PublishDelivery(FALSE)
             remove == Removal("delivery")
         IN /\ staged \o remove
               = <<SyncC, MoveC, SyncDirectory, Unlink("delivery"), SyncDirectory>>
            /\ written \o remove
               = <<WriteC(target), SyncC, SyncDirectory, MoveC, SyncDirectory,
                   Unlink("delivery"), SyncDirectory>>
            /\ <<>> \o remove = <<Unlink("delivery"), SyncDirectory>>
            /\ \A s \in {<<Unlink("delivery"), SyncDirectory>>,
                         <<SyncC, MoveC, SyncDirectory, Unlink("delivery"), SyncDirectory>>,
                         <<WriteC(target), SyncC, SyncDirectory, MoveC, SyncDirectory,
                           Unlink("delivery"), SyncDirectory>>} : <<>> \o s = s
            /\ decide \o <<Unlink("delivery"), SyncDirectory>>
               = <<SyncD, ReplaceD, SyncDirectory, Unlink("delivery"), SyncDirectory>>
            /\ decide \o <<SyncC, MoveC, SyncDirectory, Unlink("delivery"), SyncDirectory>>
               = <<SyncD, ReplaceD, SyncDirectory, SyncC, MoveC, SyncDirectory,
                   Unlink("delivery"), SyncDirectory>>
            /\ decide \o <<WriteC(target), SyncC, SyncDirectory, MoveC, SyncDirectory,
                           Unlink("delivery"), SyncDirectory>>
               = <<SyncD, ReplaceD, SyncDirectory, WriteC(target), SyncC, SyncDirectory,
                   MoveC, SyncDirectory, Unlink("delivery"), SyncDirectory>>
<1> DEFINE U == Unlink("delivery")
           W == WriteC(target)
<1>1. /\ <<SyncFile("catalogStage")>> \o PublishCatalog = <<SyncC, MoveC, SyncDirectory>>
      /\ <<SyncFile("deliveryStage")>> \o PublishDelivery(FALSE) = <<SyncD, ReplaceD, SyncDirectory>>
  BY PublishScripts DEF MoveD, ReplaceD
<1>2. Removal("delivery") = <<U, SyncDirectory>>
  BY DEF Removal
<1>3. Stage("catalogStage", target) = <<W, SyncC>> /\ PublishCatalog = <<MoveC, SyncDirectory>>
  BY DEF Stage, SyncC, WriteC, PublishCatalog, MoveC
<1> HIDE DEF U, W
<1>4. <<W, SyncC>> \o <<SyncDirectory>> = <<W, SyncC, SyncDirectory>>
  BY Join2_1
<1>5. <<W, SyncC, SyncDirectory>> \o <<MoveC, SyncDirectory>>
      = <<W, SyncC, SyncDirectory, MoveC, SyncDirectory>>
  BY Join3_2
<1>6. <<W, SyncC, SyncDirectory, MoveC, SyncDirectory>> \o <<U, SyncDirectory>>
      = <<W, SyncC, SyncDirectory, MoveC, SyncDirectory, U, SyncDirectory>>
  BY Join5_2
<1>7. <<SyncC, MoveC, SyncDirectory>> \o <<U, SyncDirectory>>
      = <<SyncC, MoveC, SyncDirectory, U, SyncDirectory>>
  BY Join3_2
<1>8. <<SyncD, ReplaceD, SyncDirectory>> \o <<U, SyncDirectory>>
      = <<SyncD, ReplaceD, SyncDirectory, U, SyncDirectory>>
  BY Join3_2
<1>9. <<SyncD, ReplaceD, SyncDirectory>> \o <<SyncC, MoveC, SyncDirectory, U, SyncDirectory>>
      = <<SyncD, ReplaceD, SyncDirectory, SyncC, MoveC, SyncDirectory, U, SyncDirectory>>
  BY Join3_5
<1>10. <<SyncD, ReplaceD, SyncDirectory>>
         \o <<W, SyncC, SyncDirectory, MoveC, SyncDirectory, U, SyncDirectory>>
       = <<SyncD, ReplaceD, SyncDirectory, W, SyncC, SyncDirectory,
           MoveC, SyncDirectory, U, SyncDirectory>>
  BY Join3_7
<1>11. /\ <<>> \o <<U, SyncDirectory>> = <<U, SyncDirectory>>
       /\ <<>> \o <<SyncC, MoveC, SyncDirectory, U, SyncDirectory>>
          = <<SyncC, MoveC, SyncDirectory, U, SyncDirectory>>
       /\ <<>> \o <<W, SyncC, SyncDirectory, MoveC, SyncDirectory, U, SyncDirectory>>
          = <<W, SyncC, SyncDirectory, MoveC, SyncDirectory, U, SyncDirectory>>
  BY NothingThen
<1> QED BY <1>1, <1>2, <1>3, <1>4, <1>5, <1>6, <1>7, <1>8, <1>9, <1>10, <1>11 DEF U, W

-----------------------------------------------------------------------------
(***************************************************************************)
(* Recovery: every legal directory that decodes gets a plan, but for the   *)
(* two shapes PairedCrashRecovers leaves out.                              *)
(***************************************************************************)
\* The unsynchronized stages there are.
LEMMA DirtyStages ==
  ASSUME NEW d, NEW ns, DirtyFits(d, ns)
  PROVE  /\ d["catalogStage"] = None => ns \subseteq {"deliveryStage"}
         /\ d["catalogStage"] # None => ns \subseteq {"catalogStage"}
         /\ d["deliveryStage"] = None => ns \subseteq {"catalogStage"}
         /\ Shape(d, Ahead) => ns \subseteq {"catalogStage"}
BY DEF DirtyFits, Stages

\* No settlement is under way and no fence is current.
LEMMA UnfencedPlans ==
  ASSUME NEW d, Legal(d), Decodes(d), d["delivery"] = None, NEW ns, DirtyFits(d, ns)
  PROVE  /\ RecoverUnfenced(d) # {}
         /\ \A s \in RecoverUnfenced(d) : Plan(s, d, ns, {})
         /\ d["deliveryStage"] # None => ~ IsPrepared(d["deliveryStage"])
<1> DEFINE c == d["catalog"]
           x == d["catalogStage"]
           f == d["delivery"]
           y == d["deliveryStage"]
<1>1. c # Torn /\ x # Torn /\ f # Torn /\ y # Torn
  BY DEF Decodes, Names
<1>2. /\ Shape(d, Clean) <=> Clean(c, x, f, y)
      /\ Shape(d, Ahead) <=> Ahead(c, x, f, y)
      /\ Shape(d, PairStaged) <=> PairStaged(c, x, f, y)
      /\ Shape(d, SingleStaged) <=> SingleStaged(c, x, f, y)
      /\ Shape(d, OrdinaryStaged) <=> OrdinaryStaged(c, x, f, y)
  BY DEF Shape
<1>3. Resting(c, x, f, y) \/ Ahead(c, x, f, y) \/ Decided(c, x, f, y)
  BY DEF Legal, Shape
<1>4. /\ x = None => ns \subseteq {"deliveryStage"}
      /\ x # None => ns \subseteq {"catalogStage"}
      /\ y = None => ns \subseteq {"catalogStage"}
      /\ Ahead(c, x, f, y) => ns \subseteq {"catalogStage"}
  BY <1>2, DirtyStages
<1>5. RecoverUnfenced(d) =
        IF y = None THEN
          IF x = None THEN {<<>>}
          ELSE IF x = c THEN {Removal("catalogStage")}
          ELSE IF validate_recovery_successor_of(x, c)
          THEN {<<SyncFile("catalogStage")>> \o PublishCatalog} ELSE {}
        ELSE IF y.revision # 1 \/ y.phase # Reconciled THEN {}
        ELSE IF x # None THEN
          IF y.catalog = c /\ x = c
          THEN {Removal("catalogStage") \o <<SyncFile("deliveryStage")>> \o PublishDelivery(TRUE)}
          ELSE IF y.prior_catalog = c /\ y.catalog = x
          THEN {<<SyncFile("deliveryStage"), SyncFile("catalogStage")>>
                  \o PublishCatalog \o PublishDelivery(TRUE)}
          ELSE {}
        ELSE IF y.catalog = c THEN {<<SyncFile("deliveryStage")>> \o PublishDelivery(TRUE)}
        ELSE IF y.prior_catalog = c THEN {Removal("deliveryStage")}
        ELSE {}
  BY DEF RecoverUnfenced, RecoverCatalog, Exists, matches_catalog, matches_prior_catalog
<1>6. f = None
  OBVIOUS
<1>7. \A s : AtRest(s, d, ns, {}) \/ OrdinaryRest(s, d, ns, {}) \/ AheadPlan(s, d, ns, {})
             \/ PairAlone(s, d, ns, {}) \/ PairBoth(s, d, ns, {}) \/ SingleRest(s, d, ns, {})
             => Plan(s, d, ns, {})
  BY DEF Plan
<1>8. \/ Clean(c, x, f, y) \/ Ahead(c, x, f, y) \/ PairStaged(c, x, f, y)
      \/ SingleStaged(c, x, f, y) \/ OrdinaryStaged(c, x, f, y)
  <2> HIDE DEF c, x, f, y
  <2>1. ~ Settles(c, f, y)
    BY <1>6 DEF Settles
  <2>2. ~ Decided(c, x, f, y)
    BY <1>6, MarksAreNoDocuments DEF Decided
  <2> QED
    BY <1>1, <1>3, <1>6, <2>1, <2>2
       DEF Resting, Staged, Clean, PairStaged, SingleStaged, OrdinaryStaged
<1>9. CASE Clean(c, x, f, y)
  <2>1. x = None /\ y = None
    BY <1>9 DEF Clean
  <2>2. AtRest(<<>>, d, ns, {})
    BY <1>2, <1>4, <1>9, <2>1 DEF AtRest
  <2>3. RecoverUnfenced(d) = {<<>>}
    BY <1>5, <2>1
  <2> QED BY <1>7, <2>1, <2>2, <2>3
<1>10. CASE OrdinaryStaged(c, x, f, y)
  <2>1. Sound(c) /\ x \in OrdinarySuccessors(c) /\ y = None
    BY <1>10 DEF OrdinaryStaged, Good
  <2>2. Sound(x) /\ x # c /\ validate_recovery_successor_of(x, c) /\ x # None
    BY <2>1, OrdinaryFacts, MarksAreNoDocuments
  <2>3. RecoverUnfenced(d) = {<<SyncC, MoveC, SyncDirectory>>}
    BY <1>5, <2>1, <2>2, PublishScripts
  <2>4. OrdinaryRest(<<SyncC, MoveC, SyncDirectory>>, d, ns, {})
    BY <1>2, <1>4, <1>10, <2>1 DEF OrdinaryRest
  <2> QED BY <1>7, <2>1, <2>3, <2>4
<1>11. CASE SingleStaged(c, x, f, y)
  <2>1. Good(c, f) /\ Doc(y) /\ y.catalog = c /\ x = None /\ Fencing(c, f, y)
    BY <1>6, <1>11 DEF SingleStaged, Single, Advancing
  <2>2. y.revision = 1 /\ y.phase = Reconciled /\ ~ IsPrepared(y) /\ y # None
    BY <1>6, <2>1, FencingFacts, MarksAreNoDocuments
  <2>3. RecoverUnfenced(d) = {<<SyncD, MoveD(TRUE), SyncDirectory>>}
    BY <1>5, <2>1, <2>2, PublishScripts
  <2>4. SingleRest(<<SyncD, MoveD(TRUE), SyncDirectory>>, d, ns, {})
    BY <1>2, <1>4, <1>11, <2>1 DEF SingleRest
  <2> QED BY <1>7, <2>2, <2>3, <2>4
<1>12. CASE PairStaged(c, x, f, y)
  <2>1. Good(c, f) /\ Doc(y) /\ y.catalog # c /\ Fencing(c, f, y) /\ x \in {None, y.catalog}
    BY <1>12 DEF PairStaged, Pair
  <2>2. /\ y.revision = 1 /\ y.phase = Reconciled /\ ~ IsPrepared(y) /\ y # None
        /\ y.prior_catalog = c
    BY <1>6, <2>1, FencingFacts, MarksAreNoDocuments
  <2>3. CASE x = None
    <3>1. RecoverUnfenced(d) = {<<Unlink("deliveryStage"), SyncDirectory>>}
      BY <1>5, <2>1, <2>2, <2>3 DEF Removal
    <3>2. PairAlone(<<Unlink("deliveryStage"), SyncDirectory>>, d, ns, {})
      BY <1>2, <1>4, <1>12, <2>3 DEF PairAlone
    <3> QED BY <1>7, <2>2, <3>1, <3>2
  <2>4. CASE x # None
    <3>1. RecoverUnfenced(d) =
            {<<SyncD, SyncC, MoveC, SyncDirectory, MoveD(TRUE), SyncDirectory>>}
      BY <1>5, <2>1, <2>2, <2>4, PublishScripts
    <3>2. PairBoth(<<SyncD, SyncC, MoveC, SyncDirectory, MoveD(TRUE), SyncDirectory>>, d, ns, {})
      BY <1>2, <1>4, <1>12, <2>1, <2>4 DEF PairBoth
    <3> QED BY <1>7, <2>2, <3>1, <3>2
  <2> QED BY <2>3, <2>4
<1>13. CASE Ahead(c, x, f, y)
  <2>1. /\ x = None /\ Doc(y) /\ ~ IsPrepared(y) /\ y.catalog = c
        /\ y.phase = Reconciled /\ y.revision = 1 /\ y # None
    BY <1>6, <1>13, MarksAreNoDocuments DEF Ahead
  <2>2. ns = {}
    BY <1>4, <1>13, <2>1
  <2>3. RecoverUnfenced(d) = {<<SyncD, MoveD(TRUE), SyncDirectory>>}
    BY <1>5, <2>1, PublishScripts
  <2>4. AheadPlan(<<SyncD, MoveD(TRUE), SyncDirectory>>, d, ns, {})
    BY <1>2, <1>13, <2>2 DEF AheadPlan
  <2> QED BY <1>7, <2>1, <2>3, <2>4
<1> QED BY <1>8, <1>9, <1>10, <1>11, <1>12, <1>13

\* A fence is current and no settlement is under way.
LEMMA FencedPlans ==
  ASSUME NEW d, Legal(d), Decodes(d), d["delivery"] # None, ~ SettlementIsPresent(d),
         NEW ns, DirtyFits(d, ns)
  PROVE  /\ \/ RecoverFenced(d) # {} \/ SingleSuccessorStaged(d) \/ CatalogOnlyStaged(d)
         /\ \A s \in RecoverFenced(d) : Plan(s, d, ns, {})
<1> DEFINE c == d["catalog"]
           x == d["catalogStage"]
           f == d["delivery"]
           y == d["deliveryStage"]
<1>1. c # Torn /\ x # Torn /\ f # Torn /\ y # Torn
  BY DEF Decodes, Names
<1>2. /\ Shape(d, Clean) <=> Clean(c, x, f, y)
      /\ Shape(d, Ahead) <=> Ahead(c, x, f, y)
      /\ Shape(d, PairStaged) <=> PairStaged(c, x, f, y)
      /\ Shape(d, SingleStaged) <=> SingleStaged(c, x, f, y)
  BY DEF Shape
<1>3. Resting(c, x, f, y) \/ Ahead(c, x, f, y) \/ Decided(c, x, f, y)
  BY DEF Legal, Shape
<1>4. /\ x = None => ns \subseteq {"deliveryStage"}
      /\ x # None => ns \subseteq {"catalogStage"}
      /\ y = None => ns \subseteq {"catalogStage"}
      /\ Ahead(c, x, f, y) => ns \subseteq {"catalogStage"}
  BY <1>2, DirtyStages
<1>5. f # None /\ ~ IsPrepared(f) /\ (y # None => ~ IsPrepared(y))
  BY DEF SettlementIsPresent, Is, Exists, IsPrepared
<1>6. RecoverFenced(d) =
        IF y # None /\ ~ HasResolution(y) THEN {}
        ELSE IF y # None /\ is_lifecycle_resolution_of(y, f) THEN
          IF f.catalog = c THEN
            IF x # None /\ y.catalog = x
            THEN {<<SyncFile("deliveryStage"), SyncFile("catalogStage")>>
                    \o PublishCatalog \o PublishDelivery(FALSE)}
            ELSE IF x = None /\ y.catalog = c
            THEN {<<SyncFile("deliveryStage")>> \o PublishDelivery(FALSE)}
            ELSE IF x = None THEN {Removal("deliveryStage")}
            ELSE {}
          ELSE IF y.catalog = c
          THEN {s \o (<<SyncFile("deliveryStage")>> \o PublishDelivery(FALSE)) :
                  s \in DropStaleCatalogStage(d)}
          ELSE {}
        ELSE IF f.catalog # c \/ x # None THEN {}
        ELSE IF y = None THEN {<<>>}
        ELSE IF f = y THEN {Removal("deliveryStage")}
        ELSE IF exact_recovery_successor(f, y)
        THEN {<<SyncFile("deliveryStage")>> \o PublishDelivery(FALSE)} ELSE {}
  <2>1. RecoverDelivery(d) =
          IF y = None THEN {<<>>}
          ELSE IF f = y THEN {Removal("deliveryStage")}
          ELSE IF exact_recovery_successor(f, y)
          THEN {<<SyncFile("deliveryStage")>> \o PublishDelivery(FALSE)} ELSE {}
    BY <1>5 DEF RecoverDelivery
  <2>2. RecoverResolution(d) =
          IF f.catalog = c THEN
            IF x # None /\ y.catalog = x
            THEN {<<SyncFile("deliveryStage"), SyncFile("catalogStage")>>
                    \o PublishCatalog \o PublishDelivery(FALSE)}
            ELSE IF x = None /\ y.catalog = c
            THEN {<<SyncFile("deliveryStage")>> \o PublishDelivery(FALSE)}
            ELSE IF x = None THEN {Removal("deliveryStage")}
            ELSE {}
          ELSE IF y.catalog = c
          THEN {s \o (<<SyncFile("deliveryStage")>> \o PublishDelivery(FALSE)) :
                  s \in DropStaleCatalogStage(d)}
          ELSE {}
    BY DEF RecoverResolution, Exists, matches_catalog
  <2> QED BY <2>1, <2>2 DEF RecoverFenced, Exists, matches_catalog
<1>7. \A s : AtRest(s, d, ns, {}) \/ AheadPlan(s, d, ns, {}) \/ PairAlone(s, d, ns, {})
             \/ PairBoth(s, d, ns, {}) \/ SingleRest(s, d, ns, {})
             => Plan(s, d, ns, {})
  BY DEF Plan
<1>8. \/ Clean(c, x, f, y) \/ Ahead(c, x, f, y) \/ PairStaged(c, x, f, y)
      \/ SingleStaged(c, x, f, y) \/ (Good(c, f) /\ y = None /\ x # None /\ x # c)
  <2> HIDE DEF c, x, f, y
  <2>1. Doc(y) => ~ Settles(c, f, y)
    BY <1>5, MarksAreNoDocuments DEF Settles
  <2>2. ~ Decided(c, x, f, y)
    BY <1>5 DEF Decided
  <2> QED BY <1>1, <1>3, <1>5, <2>1, <2>2 DEF Resting, Staged, Clean, PairStaged, SingleStaged
<1>9. CASE Clean(c, x, f, y)
  <2>1. x = None /\ y = None /\ f.catalog = c
    BY <1>5, <1>9 DEF Clean, Good
  <2>2. AtRest(<<>>, d, ns, {})
    BY <1>2, <1>4, <1>9, <2>1 DEF AtRest
  <2>3. RecoverFenced(d) = {<<>>}
    BY <1>6, <2>1
  <2> QED BY <1>7, <2>2, <2>3
<1>10. CASE Good(c, f) /\ y = None /\ x # None /\ x # c
  <2>1. CatalogOnlyStaged(d)
    BY <1>5, <1>10 DEF CatalogOnlyStaged, Exists
  <2>2. RecoverFenced(d) = {}
    BY <1>6, <1>10
  <2> QED BY <2>1, <2>2
<1>11. CASE SingleStaged(c, x, f, y)
  <2>1. Good(c, f) /\ Doc(y) /\ y.catalog = c /\ x = None /\ y # None /\ f.catalog = c
    BY <1>5, <1>11, MarksAreNoDocuments DEF SingleStaged, Single, Good
  <2>2. SingleRest(<<SyncD, MoveD(FALSE), SyncDirectory>>, d, ns, {})
    BY <1>2, <1>4, <1>11, <2>1 DEF SingleRest
  <2>3. CASE Fencing(c, f, y)
    <3>1. HasResolution(y) /\ is_lifecycle_resolution_of(y, f)
      BY <1>5, <2>1, <2>3, FencingFacts
    <3>2. RecoverFenced(d) = {<<SyncD, MoveD(FALSE), SyncDirectory>>}
      BY <1>6, <2>1, <3>1, PublishScripts
    <3> QED BY <1>7, <2>2, <3>2
  <2>4. CASE Advancing(f, y)
    <3>1. /\ y # f /\ exact_recovery_successor(f, y)
          /\ HasResolution(y) => ~ is_lifecycle_resolution_of(y, f)
          /\ ~ HasResolution(y) => y.phase.name \in {"AcknowledgementStarted", "Acknowledged",
                                                     "AcquisitionRecoveryObserved"}
      BY <2>1, <2>4, AdvancingFacts DEF Advancing
    <3>2. CASE HasResolution(y)
      <4>1. RecoverFenced(d) = {<<SyncD, MoveD(FALSE), SyncDirectory>>}
        BY <1>6, <2>1, <3>1, <3>2, PublishScripts
      <4> QED BY <1>7, <2>2, <4>1
    <3>3. CASE ~ HasResolution(y)
      <4>1. SingleSuccessorStaged(d)
        BY <2>1, <3>1, <3>3 DEF SingleSuccessorStaged, Is, Exists
      <4>2. RecoverFenced(d) = {}
        BY <1>6, <2>1, <3>3
      <4> QED BY <4>1, <4>2
    <3> QED BY <3>2, <3>3
  <2> QED BY <1>11, <2>3, <2>4 DEF SingleStaged, Single
<1>12. CASE PairStaged(c, x, f, y)
  <2>1. /\ Good(c, f) /\ Doc(y) /\ y.catalog # c /\ Fencing(c, f, y) /\ x \in {None, y.catalog}
        /\ y # None /\ f.catalog = c
    BY <1>5, <1>12, MarksAreNoDocuments DEF PairStaged, Pair, Good
  <2>2. HasResolution(y) /\ is_lifecycle_resolution_of(y, f)
    BY <1>5, <2>1, FencingFacts
  <2>3. CASE x = None
    <3>1. RecoverFenced(d) = {<<Unlink("deliveryStage"), SyncDirectory>>}
      BY <1>6, <2>1, <2>2, <2>3 DEF Removal
    <3>2. PairAlone(<<Unlink("deliveryStage"), SyncDirectory>>, d, ns, {})
      BY <1>2, <1>4, <1>12, <2>3 DEF PairAlone
    <3> QED BY <1>7, <3>1, <3>2
  <2>4. CASE x # None
    <3>1. RecoverFenced(d) =
            {<<SyncD, SyncC, MoveC, SyncDirectory, MoveD(FALSE), SyncDirectory>>}
      BY <1>6, <2>1, <2>2, <2>4, PublishScripts
    <3>2. PairBoth(<<SyncD, SyncC, MoveC, SyncDirectory, MoveD(FALSE), SyncDirectory>>, d, ns, {})
      BY <1>2, <1>4, <1>12, <2>1, <2>4 DEF PairBoth
    <3> QED BY <1>7, <3>1, <3>2
  <2> QED BY <2>3, <2>4
<1>13. CASE Ahead(c, x, f, y)
  <2>1. /\ x = None /\ Doc(y) /\ y.catalog = c /\ y # None
        /\ f.catalog # c /\ is_lifecycle_resolution_of(y, f) /\ HasResolution(y)
    BY <1>5, <1>13, MarksAreNoDocuments DEF Ahead, is_lifecycle_resolution_of
  <2>2. ns = {}
    BY <1>4, <1>13, <2>1
  <2>3. DropStaleCatalogStage(d) = {<<>>}
    BY <2>1 DEF DropStaleCatalogStage
  <2>4. RecoverFenced(d) = {<<>> \o <<SyncD, MoveD(FALSE), SyncDirectory>>}
    BY <1>6, <2>1, <2>3, PublishScripts
  <2>5. RecoverFenced(d) = {<<SyncD, MoveD(FALSE), SyncDirectory>>}
    BY <2>4, NothingThen
  <2>6. AheadPlan(<<SyncD, MoveD(FALSE), SyncDirectory>>, d, ns, {})
    BY <1>2, <1>13, <2>2 DEF AheadPlan
  <2> QED BY <1>7, <2>5, <2>6
<1> QED BY <1>8, <1>9, <1>10, <1>11, <1>12, <1>13

\* The rest of a settlement whose intent was made for this catalog.
LEMMA FinishScripts ==
  ASSUME NEW d, NEW prepared, prepared.catalog = d["catalog"], IsPrepared(prepared),
         prepared.phase.target # None,
         prepared.phase.target \in SettledCatalogs(prepared, d["catalog"])
  PROVE  LET target == prepared.phase.target IN
         /\ target = d["catalog"] /\ d["catalogStage"] = None =>
              FinishSettlement(d, prepared) = {<<Unlink("delivery"), SyncDirectory>>}
         /\ target # d["catalog"] /\ d["catalogStage"] = target =>
              FinishSettlement(d, prepared) =
                {<<SyncC, MoveC, SyncDirectory, Unlink("delivery"), SyncDirectory>>}
         /\ target # d["catalog"] /\ d["catalogStage"] = None =>
              FinishSettlement(d, prepared) =
                {<<WriteC(target), SyncC, SyncDirectory, MoveC, SyncDirectory,
                   Unlink("delivery"), SyncDirectory>>}
<1> DEFINE c == d["catalog"]
           x == d["catalogStage"]
           target == prepared.phase.target
           staged == <<SyncFile("catalogStage")>> \o PublishCatalog
           written(t) == Stage("catalogStage", t) \o <<SyncDirectory>> \o PublishCatalog
           P(t) == IF t = c THEN DropStaleCatalogStage(d)
                   ELSE IF x = t THEN {staged}
                   ELSE IF x = None THEN {written(t)}
                   ELSE {}
           targets == {t \in SettledCatalogs(prepared, c) : matches_settlement_catalog(prepared, t)}
           publish == UNION {P(t) : t \in targets}
<1>1. FinishSettlement(d, prepared) = {s \o Removal("delivery") : s \in publish}
  BY DEF FinishSettlement, matches_catalog
<1>2. targets = {target}
  BY DEF matches_settlement_catalog, IsPrepared
<1>4. /\ target = c /\ x = None => P(target) = {<<>>}
      /\ target # c /\ x = target => P(target) = {staged}
      /\ target # c /\ x = None => P(target) = {written(target)}
  BY DEF DropStaleCatalogStage
<1> HIDE DEF P, targets
<1>5. publish = P(target)
  BY <1>2
<1> HIDE DEF publish
<1>6. /\ staged \o Removal("delivery")
         = <<SyncC, MoveC, SyncDirectory, Unlink("delivery"), SyncDirectory>>
      /\ written(target) \o Removal("delivery")
         = <<WriteC(target), SyncC, SyncDirectory, MoveC, SyncDirectory,
             Unlink("delivery"), SyncDirectory>>
      /\ <<>> \o Removal("delivery") = <<Unlink("delivery"), SyncDirectory>>
  BY SettlementScripts
<1> HIDE DEF staged, written
<1> QED BY <1>1, <1>4, <1>5, <1>6

\* A settlement is under way.
LEMMA SettlementPlans ==
  ASSUME NEW d, Legal(d), Decodes(d), SettlementIsPresent(d), NEW ns, DirtyFits(d, ns)
  PROVE  /\ recover_scale_set_settlement_locked(d) # {}
         /\ \A s \in recover_scale_set_settlement_locked(d) : Plan(s, d, ns, {})
<1> DEFINE c == d["catalog"]
           x == d["catalogStage"]
           f == d["delivery"]
           y == d["deliveryStage"]
<1>1. c # Torn /\ x # Torn /\ f # Torn /\ y # Torn
  BY DEF Decodes, Names
<1>2. /\ Shape(d, Decided) <=> Decided(c, x, f, y)
      /\ Shape(d, ChangeStaged) <=> ChangeStaged(c, x, f, y)
      /\ Shape(d, SameStaged) <=> SameStaged(c, x, f, y)
  BY DEF Shape
<1>3. Resting(c, x, f, y) \/ Ahead(c, x, f, y) \/ Decided(c, x, f, y)
  BY DEF Legal, Shape
<1>4. /\ x = None => ns \subseteq {"deliveryStage"}
      /\ x # None => ns \subseteq {"catalogStage"}
      /\ y = None => ns \subseteq {"catalogStage"}
  BY DirtyStages
<1>5. (f # None /\ IsPrepared(f)) \/ (y # None /\ IsPrepared(y))
  BY DEF SettlementIsPresent, Is, Exists, IsPrepared
<1>6. LET prepared == IF y # None THEN y ELSE f IN
      recover_scale_set_settlement_locked(d) =
        IF IsPrepared(prepared)
        THEN {s \o t : s \in RecoverDelivery(d), t \in FinishSettlement(d, prepared)}
        ELSE {}
  BY DEF recover_scale_set_settlement_locked, Exists, IsPrepared
<1>7. RecoverDelivery(d) =
        IF y = None THEN {<<>>}
        ELSE IF f = None THEN
          IF y.revision = 1 /\ y.phase = Reconciled
          THEN {<<SyncFile("deliveryStage")>> \o PublishDelivery(TRUE)} ELSE {}
        ELSE IF f = y THEN {Removal("deliveryStage")}
        ELSE IF exact_recovery_successor(f, y)
        THEN {<<SyncFile("deliveryStage")>> \o PublishDelivery(FALSE)} ELSE {}
  BY DEF RecoverDelivery
<1>8. \A s : ChangeAlone(s, d, ns, {}) \/ ChangeBoth(s, d, ns, {}) \/ SameRest(s, d, ns, {})
             \/ DecidedPlan(s, d, ns, {}) => Plan(s, d, ns, {})
  BY DEF Plan
<1>9. ChangeStaged(c, x, f, y) \/ SameStaged(c, x, f, y) \/ Decided(c, x, f, y)
  <2> HIDE DEF c, x, f, y
  <2>1. ~ Ahead(c, x, f, y)
    BY <1>5 DEF Ahead
  <2>2. ASSUME Resting(c, x, f, y)
        PROVE  Good(c, f) /\ Doc(y) /\ Settles(c, f, y)
               /\ (x = None \/ (y.phase.target # c /\ x = y.phase.target))
    <3>1. Good(c, f) /\ Staged(c, x, f, y)
      BY <2>2 DEF Resting
    <3>2. y # None /\ IsPrepared(y)
      BY <1>5, <3>1 DEF Good
    <3>3. ~ Single(c, f, y)
      BY <3>1, <3>2, FencingFacts, AdvancingFacts DEF Single
    <3>4. ~ Pair(c, f, y)
      BY <3>1, <3>2, FencingFacts DEF Pair
    <3> QED BY <1>1, <3>1, <3>2, <3>3, <3>4 DEF Staged
  <2> QED BY <1>3, <2>1, <2>2 DEF ChangeStaged, SameStaged
<1>10. ASSUME ChangeStaged(c, x, f, y) \/ SameStaged(c, x, f, y)
       PROVE  /\ recover_scale_set_settlement_locked(d) # {}
              /\ \A s \in recover_scale_set_settlement_locked(d) : Plan(s, d, ns, {})
  <2> DEFINE target == y.phase.target
             decide == <<SyncFile("deliveryStage")>> \o PublishDelivery(FALSE)
  <2>1. /\ Good(c, f) /\ Doc(y) /\ Settles(c, f, y)
        /\ x = None \/ (target # c /\ x = target)
    BY <1>10 DEF ChangeStaged, SameStaged
  <2>2. /\ IsPrepared(y) /\ y.catalog = c /\ y # f /\ Sound(target)
        /\ target \in SettledCatalogs(y, c) /\ exact_recovery_successor(f, y)
        /\ f # None /\ y # None /\ target # None
    BY <2>1, SettlesFacts, MarksAreNoDocuments DEF Settles
  <2>3. RecoverDelivery(d) = {decide}
    BY <1>7, <2>2
  <2>4. recover_scale_set_settlement_locked(d) = {decide \o t : t \in FinishSettlement(d, y)}
    <3>1. recover_scale_set_settlement_locked(d) =
            {s \o t : s \in RecoverDelivery(d), t \in FinishSettlement(d, y)}
      BY <1>6, <2>2
    <3> HIDE DEF decide
    <3> QED BY <2>3, <3>1
  <2>5. CASE target = c
    <3>1. x = None /\ SameStaged(c, x, f, y)
      BY <1>10, <2>1, <2>5 DEF ChangeStaged
    <3>2. FinishSettlement(d, y) = {<<Unlink("delivery"), SyncDirectory>>}
      BY <2>2, <2>5, <3>1, FinishScripts
    <3>3. recover_scale_set_settlement_locked(d) =
            {<<SyncD, ReplaceD, SyncDirectory, Unlink("delivery"), SyncDirectory>>}
      BY <2>4, <3>2, SettlementScripts
    <3>4. SameRest(<<SyncD, ReplaceD, SyncDirectory, Unlink("delivery"), SyncDirectory>>,
                   d, ns, {})
      BY <1>2, <1>4, <3>1 DEF SameRest
    <3> QED BY <1>8, <3>3, <3>4
  <2>6. CASE target # c /\ x = None
    <3> DEFINE s == <<SyncD, ReplaceD, SyncDirectory, WriteC(target), SyncC, SyncDirectory,
                      MoveC, SyncDirectory, Unlink("delivery"), SyncDirectory>>
    <3>1. ChangeStaged(c, x, f, y)
      BY <1>10, <2>6 DEF SameStaged
    <3>2. FinishSettlement(d, y) =
            {<<WriteC(target), SyncC, SyncDirectory, MoveC, SyncDirectory,
               Unlink("delivery"), SyncDirectory>>}
      BY <2>2, <2>6, FinishScripts
    <3>3. recover_scale_set_settlement_locked(d) = {s}
      BY <2>4, <3>2, SettlementScripts
    <3>4. ChangeAlone(s, d, ns, {})
      BY <1>2, <1>4, <2>6, <3>1 DEF ChangeAlone
    <3> HIDE DEF s
    <3> QED BY <1>8, <3>3, <3>4
  <2>7. CASE target # c /\ x = target
    <3> DEFINE s == <<SyncD, ReplaceD, SyncDirectory, SyncC, MoveC, SyncDirectory,
                      Unlink("delivery"), SyncDirectory>>
    <3>1. ChangeStaged(c, x, f, y) /\ x # None
      BY <1>10, <2>2, <2>7 DEF SameStaged
    <3>2. FinishSettlement(d, y) =
            {<<SyncC, MoveC, SyncDirectory, Unlink("delivery"), SyncDirectory>>}
      BY <2>2, <2>7, FinishScripts
    <3>3. recover_scale_set_settlement_locked(d) = {s}
      BY <2>4, <3>2, SettlementScripts
    <3>4. ChangeBoth(s, d, ns, {})
      BY <1>2, <1>4, <2>7, <3>1 DEF ChangeBoth
    <3> HIDE DEF s
    <3> QED BY <1>8, <3>3, <3>4
  <2> QED BY <2>1, <2>5, <2>6, <2>7
<1>11. ASSUME Decided(c, x, f, y)
       PROVE  /\ recover_scale_set_settlement_locked(d) # {}
              /\ \A s \in recover_scale_set_settlement_locked(d) : Plan(s, d, ns, {})
  <2> DEFINE target == f.phase.target
  <2>1. /\ y = None /\ IsPrepared(f) /\ Sound(target)
        /\ target \in SettledCatalogs(f, f.catalog)
        /\ \/ c = f.catalog /\ (x = None \/ (target # c /\ x = target))
           \/ c = target /\ x = None
    BY <1>1, <1>11 DEF Decided
  <2>2. target # None
    BY <2>1, MarksAreNoDocuments
  <2>3. RecoverDelivery(d) = {<<>>}
    BY <1>7, <2>1
  <2>4. recover_scale_set_settlement_locked(d) = {<<>> \o t : t \in FinishSettlement(d, f)}
    BY <1>6, <2>1, <2>3
  <2>5. CASE c = target /\ x = None
    <3>1. FinishSettlement(d, f) = {<<Unlink("delivery"), SyncDirectory>>}
      <4>1. CASE f.catalog = c
        BY <2>1, <2>2, <2>5, <4>1, FinishScripts
      <4>2. CASE f.catalog # c
        <5>1. DropStaleCatalogStage(d) = {<<>>}
          BY <2>5 DEF DropStaleCatalogStage
        <5>2. FinishSettlement(d, f) = {s \o Removal("delivery") : s \in {<<>>}}
          BY <2>1, <2>5, <4>2, <5>1
             DEF FinishSettlement, matches_catalog, matches_settlement_catalog, IsPrepared
        <5> QED BY <5>2, SettlementScripts
      <4> QED BY <4>1, <4>2
    <3>2. recover_scale_set_settlement_locked(d) = {<<Unlink("delivery"), SyncDirectory>>}
      BY <2>4, <3>1, NothingThen
    <3>3. ns = {}
      BY <1>4, <2>1, <2>5
    <3>4. DecidedPlan(<<Unlink("delivery"), SyncDirectory>>, d, ns, {})
      BY <1>2, <1>11, <2>5, <3>3 DEF DecidedPlan
    <3> QED BY <1>8, <3>2, <3>4
  <2>6. CASE c = f.catalog /\ target # c /\ x = None
    <3> DEFINE s == <<WriteC(target), SyncC, SyncDirectory, MoveC, SyncDirectory,
                      Unlink("delivery"), SyncDirectory>>
    <3>1. FinishSettlement(d, f) = {s}
      BY <2>1, <2>2, <2>6, FinishScripts
    <3>2. recover_scale_set_settlement_locked(d) = {s}
      BY <2>4, <3>1, SettlementScripts
    <3>3. ns = {}
      BY <1>4, <2>1, <2>6
    <3>4. DecidedPlan(s, d, ns, {})
      BY <1>2, <1>11, <2>6, <3>3 DEF DecidedPlan
    <3> HIDE DEF s
    <3> QED BY <1>8, <3>2, <3>4
  <2>7. CASE c = f.catalog /\ target # c /\ x = target
    <3> DEFINE s == <<SyncC, MoveC, SyncDirectory, Unlink("delivery"), SyncDirectory>>
    <3>1. FinishSettlement(d, f) = {s}
      BY <2>1, <2>2, <2>7, FinishScripts
    <3>2. recover_scale_set_settlement_locked(d) = {s}
      BY <2>4, <3>1, SettlementScripts
    <3>3. ns \subseteq {"catalogStage"}
      BY <1>4, <2>1
    <3>4. DecidedPlan(s, d, ns, {})
      BY <1>2, <1>11, <2>7, <3>3 DEF DecidedPlan
    <3> HIDE DEF s
    <3> QED BY <1>8, <3>2, <3>4
  <2> QED BY <2>1, <2>5, <2>6, <2>7
<1> QED BY <1>9, <1>10, <1>11

\* What an open may run, and when it refuses.
LEMMA RecoveryPlans ==
  ASSUME NEW d, Legal(d), NEW ns, DirtyFits(d, ns)
  PROVE  /\ \A s \in RecoveryScripts(d) : Plan(s, d, ns, {})
         /\ Decodes(d) /\ ~ SingleSuccessorStaged(d) /\ ~ CatalogOnlyStaged(d) =>
              RecoveryScripts(d) # {}
         /\ Shape(d, Clean) => RecoveryScripts(d) = {<<>>}
<1>1. RecoveryScripts(d) =
        IF ~ Decodes(d) THEN {}
        ELSE IF SettlementIsPresent(d) THEN recover_scale_set_settlement_locked(d)
        ELSE IF d["delivery"] # None THEN RecoverFenced(d) ELSE RecoverUnfenced(d)
  BY DEF RecoveryScripts, Exists
<1>2. CASE ~ Decodes(d)
  <2>1. ~ Shape(d, Clean)
    <3>1. PICK n \in Names : d[n] = Torn
      BY <1>2 DEF Decodes
    <3>2. Clean(d["catalog"], d["catalogStage"], d["delivery"], d["deliveryStage"]) =>
            d["catalog"] # Torn /\ d["catalogStage"] # Torn /\ d["delivery"] # Torn
            /\ d["deliveryStage"] # Torn
      BY MarksAreNoDocuments DEF Clean, Good
    <3> QED BY <3>1, <3>2 DEF Shape, Names
  <2> QED BY <1>1, <1>2, <2>1
<1>3. CASE Decodes(d)
  <2>1. Shape(d, Clean) =>
          /\ ~ SettlementIsPresent(d) /\ d["catalogStage"] = None /\ d["deliveryStage"] = None
          /\ d["delivery"] # None => d["delivery"].catalog = d["catalog"]
    BY DEF Shape, Clean, Good, SettlementIsPresent, Is, Exists, IsPrepared
  <2>2. Shape(d, Clean) => RecoveryScripts(d) = {<<>>}
    <3>1. SUFFICES ASSUME Shape(d, Clean) PROVE RecoveryScripts(d) = {<<>>}
      OBVIOUS
    <3>2. d["delivery"] # None => RecoverFenced(d) = {<<>>}
      BY <2>1, <3>1 DEF RecoverFenced, RecoverDelivery, Exists, matches_catalog
    <3>3. RecoverUnfenced(d) = {<<>>}
      BY <2>1, <3>1 DEF RecoverUnfenced, RecoverCatalog
    <3> QED BY <1>1, <1>3, <2>1, <3>1, <3>2, <3>3
  <2>3. CASE SettlementIsPresent(d)
    BY <1>1, <1>3, <2>2, <2>3, SettlementPlans
  <2>4. CASE ~ SettlementIsPresent(d) /\ d["delivery"] # None
    BY <1>1, <1>3, <2>2, <2>4, FencedPlans
  <2>5. CASE ~ SettlementIsPresent(d) /\ d["delivery"] = None
    BY <1>1, <1>3, <2>2, <2>5, UnfencedPlans
  <2> QED BY <2>3, <2>4, <2>5
<1> QED BY <1>2, <1>3

-----------------------------------------------------------------------------
(***************************************************************************)
(* The transactions begin with a plan.                                     *)
(***************************************************************************)
LEMMA TransactionScripts ==
  ASSUME NEW r, NEW no_replace, NEW target
  PROVE  LET W == WriteD(r)
             X == WriteC(target)
             D == MoveD(no_replace)
             U == Unlink("delivery")
         IN /\ Stage("deliveryStage", r) \o PublishDelivery(no_replace) = <<W, SyncD, D, SyncDirectory>>
            /\ Stage("catalogStage", target) \o PublishCatalog = <<X, SyncC, MoveC, SyncDirectory>>
            /\ Stage("deliveryStage", r) \o <<SyncDirectory, Disarm("deliveryStage")>>
                 \o Stage("catalogStage", target) \o <<SyncDirectory>>
                 \o PublishCatalog \o PublishDelivery(no_replace)
               = <<W, SyncD, SyncDirectory, Disarm("deliveryStage"), X, SyncC, SyncDirectory,
                   MoveC, SyncDirectory, D, SyncDirectory>>
            /\ Stage("deliveryStage", r) \o <<SyncDirectory>>
                 \o (Stage("catalogStage", target) \o <<SyncDirectory>>)
                 \o PublishDelivery(FALSE) \o PublishCatalog \o Removal("delivery")
               = <<W, SyncD, SyncDirectory, X, SyncC, SyncDirectory, ReplaceD, SyncDirectory,
                   MoveC, SyncDirectory, U, SyncDirectory>>
            /\ Stage("deliveryStage", r) \o <<SyncDirectory>> \o <<>>
                 \o PublishDelivery(FALSE) \o <<>> \o Removal("delivery")
               = <<W, SyncD, SyncDirectory, ReplaceD, SyncDirectory, U, SyncDirectory>>
<1> DEFINE W == WriteD(r)
           X == WriteC(target)
           D == MoveD(no_replace)
           U == Unlink("delivery")
           N == Disarm("deliveryStage")
           E == SyncDirectory
<1>1. /\ Stage("deliveryStage", r) = <<W, SyncD>> /\ Stage("catalogStage", target) = <<X, SyncC>>
      /\ PublishCatalog = <<MoveC, E>> /\ PublishDelivery(no_replace) = <<D, E>>
      /\ PublishDelivery(FALSE) = <<ReplaceD, E>> /\ Removal("delivery") = <<U, E>>
  BY DEF Stage, WriteD, WriteC, SyncD, SyncC, PublishCatalog, PublishDelivery, MoveC, MoveD,
         ReplaceD, Removal
<1> HIDE DEF W, X, D, U, N, E
<1>2. /\ <<W, SyncD>> \o <<D, E>> = <<W, SyncD, D, E>>
      /\ <<X, SyncC>> \o <<MoveC, E>> = <<X, SyncC, MoveC, E>>
      /\ <<W, SyncD>> \o <<E, N>> = <<W, SyncD, E, N>>
  BY Join2_2
<1>3. /\ <<W, SyncD, E, N>> \o <<X, SyncC>> = <<W, SyncD, E, N, X, SyncC>>
  BY Join4_2
<1>4. <<W, SyncD, E, N, X, SyncC>> \o <<E>> = <<W, SyncD, E, N, X, SyncC, E>>
  BY Join6_1
<1>5. <<W, SyncD, E, N, X, SyncC, E>> \o <<MoveC, E>> = <<W, SyncD, E, N, X, SyncC, E, MoveC, E>>
  BY Join7_2
<1>6. <<W, SyncD, E, N, X, SyncC, E, MoveC, E>> \o <<D, E>>
      = <<W, SyncD, E, N, X, SyncC, E, MoveC, E, D, E>>
  BY Join9_2
<1>7. <<W, SyncD>> \o <<E>> = <<W, SyncD, E>> /\ <<X, SyncC>> \o <<E>> = <<X, SyncC, E>>
  BY Join2_1
<1>8. <<W, SyncD, E>> \o <<X, SyncC, E>> = <<W, SyncD, E, X, SyncC, E>>
  BY Join3_3
<1>9. <<W, SyncD, E, X, SyncC, E>> \o <<ReplaceD, E>> = <<W, SyncD, E, X, SyncC, E, ReplaceD, E>>
  BY Join6_2
<1>10. <<W, SyncD, E, X, SyncC, E, ReplaceD, E>> \o <<MoveC, E>>
       = <<W, SyncD, E, X, SyncC, E, ReplaceD, E, MoveC, E>>
  BY Join8_2
<1>11. <<W, SyncD, E, X, SyncC, E, ReplaceD, E, MoveC, E>> \o <<U, E>>
       = <<W, SyncD, E, X, SyncC, E, ReplaceD, E, MoveC, E, U, E>>
  BY Join10_2
<1>12. <<W, SyncD, E>> \o <<>> = <<W, SyncD, E>>
  <2>1. <<W, SyncD, E>> \in Seq({W, SyncD, E})
    OBVIOUS
  <2> QED BY <2>1, JoinEmpty
<1>13. <<W, SyncD, E>> \o <<ReplaceD, E>> = <<W, SyncD, E, ReplaceD, E>>
  BY Join3_2
<1>14. <<W, SyncD, E, ReplaceD, E>> \o <<>> = <<W, SyncD, E, ReplaceD, E>>
  <2>1. <<W, SyncD, E, ReplaceD, E>> \in Seq({W, SyncD, E, ReplaceD})
    OBVIOUS
  <2> QED BY <2>1, JoinEmpty
<1>15. <<W, SyncD, E, ReplaceD, E>> \o <<U, E>> = <<W, SyncD, E, ReplaceD, E, U, E>>
  BY Join5_2
<1>a. Stage("deliveryStage", r) \o PublishDelivery(no_replace) = <<W, SyncD, D, E>>
  BY <1>1, <1>2
<1>b. Stage("catalogStage", target) \o PublishCatalog = <<X, SyncC, MoveC, E>>
  BY <1>1, <1>2
<1>c. Stage("deliveryStage", r) \o <<E, N>> \o Stage("catalogStage", target) \o <<E>>
        \o PublishCatalog \o PublishDelivery(no_replace)
      = <<W, SyncD, E, N, X, SyncC, E, MoveC, E, D, E>>
  BY <1>1, <1>2, <1>3, <1>4, <1>5, <1>6
<1>d. Stage("deliveryStage", r) \o <<E>> \o (Stage("catalogStage", target) \o <<E>>)
        \o PublishDelivery(FALSE) \o PublishCatalog \o Removal("delivery")
      = <<W, SyncD, E, X, SyncC, E, ReplaceD, E, MoveC, E, U, E>>
  BY <1>1, <1>7, <1>8, <1>9, <1>10, <1>11
<1>e. Stage("deliveryStage", r) \o <<E>> \o <<>> \o PublishDelivery(FALSE) \o <<>>
        \o Removal("delivery")
      = <<W, SyncD, E, ReplaceD, E, U, E>>
  BY <1>1, <1>7, <1>12, <1>13, <1>14, <1>15
<1> QED BY <1>a, <1>b, <1>c, <1>d, <1>e DEF W, X, D, U, N, E

\* A fence that a message puts up or resolves, alone or with its catalog.
LEMMA FencingPlans ==
  ASSUME NEW d, Shape(d, Clean), NEW r, Fencing(d["catalog"], d["delivery"], r),
         NEW no_replace \in BOOLEAN
  PROVE  Plan(PairScript(d, r, no_replace), d, {}, {})
<1> DEFINE c == d["catalog"]
           f == d["delivery"]
<1>1. Good(c, f)
  BY DEF Shape, Clean
<1>2. Doc(r) /\ r \in RecoveryDocuments
  BY <1>1, FencingFacts DEF Doc
<1>3. CASE r.catalog = c
  <2>1. PairScript(d, r, no_replace) = <<WriteD(r), SyncD, MoveD(no_replace), SyncDirectory>>
    BY <1>3, TransactionScripts DEF PairScript
  <2>2. Single(c, f, r)
    BY <1>3 DEF Single
  <2>3. SinglePlan(PairScript(d, r, no_replace), d, {}, {})
    BY <1>2, <2>1, <2>2 DEF SinglePlan
  <2> QED BY <2>3 DEF Plan
<1>4. CASE r.catalog # c
  <2>1. PairScript(d, r, no_replace) =
          <<WriteD(r), SyncD, SyncDirectory, Disarm("deliveryStage"),
            WriteC(r.catalog), SyncC, SyncDirectory,
            MoveC, SyncDirectory, MoveD(no_replace), SyncDirectory>>
    BY <1>4, TransactionScripts DEF PairScript
  <2>2. Pair(c, f, r)
    BY <1>4 DEF Pair
  <2>3. PairPlan(PairScript(d, r, no_replace), d, {}, {})
    BY <1>2, <2>1, <2>2 DEF PairPlan
  <2> QED BY <2>3 DEF Plan
<1> QED BY <1>3, <1>4

\* The intent to settle and what follows it.
LEMMA SettlingPlans ==
  ASSUME NEW d, Shape(d, Clean), NEW r, Settles(d["catalog"], d["delivery"], r)
  PROVE  Plan(SettleScript(d, r), d, {}, {})
<1> DEFINE c == d["catalog"]
           f == d["delivery"]
<1>1. Good(c, f)
  BY DEF Shape, Clean
<1>2. Doc(r) /\ r \in RecoveryDocuments
  BY <1>1, SettlesFacts DEF Doc
<1>3. CASE r.phase.target # c
  <2>1. SettleScript(d, r) =
          <<WriteD(r), SyncD, SyncDirectory, WriteC(r.phase.target), SyncC, SyncDirectory,
            ReplaceD, SyncDirectory, MoveC, SyncDirectory, Unlink("delivery"), SyncDirectory>>
    BY <1>3, TransactionScripts DEF SettleScript
  <2>2. ChangePlan(SettleScript(d, r), d, {}, {})
    BY <1>2, <1>3, <2>1 DEF ChangePlan
  <2> QED BY <2>2 DEF Plan
<1>4. CASE r.phase.target = c
  <2>1. SettleScript(d, r) =
          <<WriteD(r), SyncD, SyncDirectory, ReplaceD, SyncDirectory,
            Unlink("delivery"), SyncDirectory>>
    BY <1>4, TransactionScripts DEF SettleScript
  <2>2. SamePlan(SettleScript(d, r), d, {}, {})
    BY <1>2, <1>4, <2>1 DEF SamePlan
  <2> QED BY <2>2 DEF Plan
<1> QED BY <1>3, <1>4

\* What an open store may begin.
LEMMA BeginPlans ==
  ASSUME NEW d, Shape(d, Clean),
         NEW s \in ReconcileScripts(d) \cup AdvanceScripts(d) \cup ResolveScripts(d)
                     \cup SettleScripts(d) \cup CatalogScripts(d)
  PROVE  Plan(s, d, {}, {})
<1> DEFINE c == d["catalog"]
           f == d["delivery"]
<1>1. Good(c, f)
  BY DEF Shape, Clean
<1>2. CASE s \in ReconcileScripts(d)
  <2>1. f = None /\ \E m \in Deliveries, t \in ObservationTimes :
                      \E r \in ReconciledFences(m, c, t) : s = PairScript(d, r, TRUE)
    <3>1. f = None /\ \E r \in UNION {UNION {ReconciledFences(m, c, t) : t \in ObservationTimes} :
                                     m \in Deliveries} : s = PairScript(d, r, TRUE)
      BY <1>2 DEF ReconcileScripts
    <3>2. PICK r : /\ r \in UNION {UNION {ReconciledFences(m, c, t) : t \in ObservationTimes} :
                                   m \in Deliveries}
                   /\ s = PairScript(d, r, TRUE)
      BY <3>1
    <3>3. PICK m \in Deliveries : r \in UNION {ReconciledFences(m, c, t) : t \in ObservationTimes}
      BY <3>2
    <3>4. PICK t \in ObservationTimes : r \in ReconciledFences(m, c, t)
      BY <3>3
    <3> QED BY <3>1, <3>2, <3>4
  <2>2. PICK r : Fencing(c, f, r) /\ s = PairScript(d, r, TRUE)
    BY <2>1 DEF Fencing
  <2> QED BY <2>2, FencingPlans
<1>3. CASE s \in AdvanceScripts(d)
  <2>1. f # None /\ \E r \in Advances(f) :
          /\ exact_recovery_successor(f, r)
          /\ s = Stage("deliveryStage", r) \o PublishDelivery(FALSE)
    BY <1>3 DEF AdvanceScripts
  <2>2. PICK r : Advancing(f, r) /\ s = Stage("deliveryStage", r) \o PublishDelivery(FALSE)
    BY <2>1 DEF Advancing
  <2>3. Doc(r) /\ r.catalog = c /\ r \in RecoveryDocuments
    BY <1>1, <2>2, AdvancingFacts DEF Doc
  <2>4. s = <<WriteD(r), SyncD, MoveD(FALSE), SyncDirectory>>
    BY <2>2, TransactionScripts
  <2>5. Single(c, f, r)
    BY <2>2, <2>3 DEF Single
  <2>6. SinglePlan(s, d, {}, {})
    BY <2>3, <2>4, <2>5 DEF SinglePlan
  <2> QED BY <2>6 DEF Plan
<1>4. CASE s \in ResolveScripts(d)
  <2>1. f # None /\ \E m \in Deliveries :
                      \E r \in ResolvedFences(f, m, c) : s = PairScript(d, r, FALSE)
    BY <1>4 DEF ResolveScripts
  <2>2. PICK r : Fencing(c, f, r) /\ s = PairScript(d, r, FALSE)
    BY <2>1 DEF Fencing
  <2> QED BY <2>2, FencingPlans
<1>5. CASE s \in SettleScripts(d)
  <2>1. f # None /\ \E k \in SettledCatalogs(f, c) :
                      \E r \in prepare_settlement(f, c, k) : s = SettleScript(d, r)
    BY <1>5 DEF SettleScripts
  <2>2. PICK k \in SettledCatalogs(f, c) :
          \E r \in prepare_settlement(f, c, k) : s = SettleScript(d, r)
    BY <2>1
  <2>a. PICK r \in prepare_settlement(f, c, k) : s = SettleScript(d, r)
    BY <2>2
  <2>3. Settles(c, f, r)
    BY <1>1, <2>1, PreparedIntent DEF Settles
  <2> QED BY <2>a, <2>3, SettlingPlans
<1>6. CASE s \in CatalogScripts(d)
  <2>1. f = None /\ \E k \in OrdinarySuccessors(c) : s = Stage("catalogStage", k) \o PublishCatalog
    BY <1>6 DEF CatalogScripts
  <2>2. OrdinaryPlan(s, d, {}, {})
    BY <2>1, TransactionScripts DEF OrdinaryPlan
  <2> QED BY <2>2 DEF Plan
<1> QED BY <1>2, <1>3, <1>4, <1>5, <1>6

-----------------------------------------------------------------------------
(***************************************************************************)
(* Opening and beginning keep the invariant, and the theorems follow.      *)
(***************************************************************************)
\* An open store with nothing to do has a clean, durable directory.
LEMMA AtRestFacts ==
  ASSUME PInv, open, script = <<>>
  PROVE  /\ Ready /\ Shape(files, Clean) /\ dirty = {} /\ armed = {}
         /\ images = {files} /\ disk = files
<1>1. IsDirectory(files) /\ files \in images
  BY InvariantFacts
<1>2. Ready
  <2>1. \A n \in Stages : ~ Written(n)
    BY DEF Written
  <2> QED BY <2>1 DEF PInv, Unsynced
<1>3. Kind(script, files, dirty, armed)
  BY <1>1, <1>2, PlanKinds DEF Ready
<1>4. Empty(script, files, dirty, armed)
  BY <1>3 DEF Kind, Writes, Syncs, Disarms, Renaming, Unlinks
<1>5. Shape(files, Clean) /\ dirty = {} /\ armed = {}
  BY <1>4 DEF Empty
<1> QED BY <1>1, <1>2, <1>5, TearNothing DEF Ready

\* A transaction begins.
LEMMA BeginSteps ==
  ASSUME PInv, Begin(ReconcileScripts(files) \cup AdvanceScripts(files) \cup ResolveScripts(files)
                       \cup SettleScripts(files) \cup CatalogScripts(files))
  PROVE  PInv'
<1>1. open /\ script = <<>>
  BY DEF Begin
<1>2. /\ Ready /\ Shape(files, Clean) /\ dirty = {} /\ armed = {}
      /\ images = {files} /\ disk = files
  BY <1>1, AtRestFacts
<1>3. /\ files' = files /\ disk' = disk /\ images' = images /\ dirty' = dirty /\ armed' = armed
      /\ open' = open
  BY DEF Begin
<1>4. Plan(script', files, {}, {})
  BY <1>2, BeginPlans DEF Begin
<1>5. Ready'
  BY <1>2, <1>3, <1>4 DEF Ready
<1>6. \A d \in images' \cup {disk'} : Stands(disk', d, armed')
  BY <1>3, InvariantFacts
<1>7. files' \in images' /\ DirtyFits(files', dirty') /\ open'
  BY <1>1, <1>3, InvariantFacts
<1> QED BY <1>5, <1>6, <1>7, InvariantNext

\* The store is opened and recovers.
LEMMA OpenSteps ==
  ASSUME PInv, Open
  PROVE  PInv'
<1>1. Legal(files) /\ IsDirectory(files) /\ DirtyFits(files, dirty)
  BY InvariantFacts
<1>2. /\ script' \in RecoveryScripts(files) /\ disk' = files /\ images' = Torns(files, dirty)
      /\ open' /\ armed' = {} /\ files' = files /\ dirty' = dirty
  BY DEF Open, Synced, Torns, Tear
<1>3. Plan(script', files, dirty, {})
  BY <1>1, <1>2, RecoveryPlans
<1>4. Ready'
  BY <1>2, <1>3 DEF Ready
<1>5. Stands(files, files, {})
  BY <1>1, FollowsItself, Unguarded DEF Stands
<1>6. \A d \in images' \cup {disk'} : Stands(disk', d, armed')
  BY <1>1, <1>2, <1>5, TornsStand
<1>7. files' \in images' /\ DirtyFits(files', dirty')
  BY <1>1, <1>2, TearNothing
<1> QED BY <1>2, <1>4, <1>6, <1>7, InvariantNext

\* A new store.
LEMMA InitHolds ==
  ASSUME Init
  PROVE  PInv /\ CatalogOf(disk) = empty /\ FenceOf(disk) = None
<1>1. /\ IsDirectory(files) /\ files["catalog"] = empty /\ files["catalogStage"] = None
      /\ files["delivery"] = None /\ files["deliveryStage"] = None
  BY DEF Init, IsDirectory, Names
<1>2. /\ disk = files /\ images = {files} /\ dirty = {} /\ script = <<>> /\ armed = {} /\ open
  BY DEF Init
<1>3. Sound(empty)
  BY EmptyIsCatalog DEF Sound
<1>4. Shape(files, Clean)
  BY <1>1, <1>3 DEF Shape, Clean, Good
<1>5. Legal(files) /\ Shape(files, Resting)
  BY <1>1, <1>4, RestingShapes DEF Shape, Legal
<1>6. Ready
  BY <1>1, <1>2, <1>4, TearNothing DEF Ready, Plan, AtRest
<1>7. Standing
  BY <1>2, <1>5, FollowsItself, Unguarded DEF Standing
<1>8. CatalogOf(disk) = empty /\ FenceOf(disk) = None
  BY <1>1, <1>2, <1>5, AbstractPair
<1> QED BY <1>2, <1>6, <1>7, <1>8, Unguarded DEF PInv

\* Every step.
LEMMA NextKeeps ==
  ASSUME PInv, [Next]_vars
  PROVE  PInv'
<1>1. CASE UNCHANGED vars
  BY <1>1 DEF vars, PInv, Standing, Ready, Written, Unsynced
<1>2. ASSUME \/ publish_scale_set_reconciled_delivery \/ publish_scale_set_delivery_successor
             \/ publish_scale_set_lifecycle_resolution \/ settle_scale_set_delivery
             \/ replace_if_revision
      PROVE  PInv'
  <2>1. Begin(ReconcileScripts(files) \cup AdvanceScripts(files) \cup ResolveScripts(files)
                \cup SettleScripts(files) \cup CatalogScripts(files))
    BY <1>2 DEF publish_scale_set_reconciled_delivery, publish_scale_set_delivery_successor,
                publish_scale_set_lifecycle_resolution, settle_scale_set_delivery,
                replace_if_revision, Begin
  <2> QED BY <2>1, BeginSteps
<1> QED
  BY <1>1, <1>2, OpenSteps, FileOperationSteps, CrashSteps, CrashInWriteSteps, FailSteps,
     PowerLossSteps DEF Next

\* The inductive invariant of the paired publication.
THEOREM PublicationInvariant == Spec => []PInv
<1>1. Init => PInv
  BY InitHolds
<1>2. PInv /\ [Next]_vars => PInv'
  BY NextKeeps
<1> QED BY <1>1, <1>2, PTL DEF Spec

\* The current catalog and fence are whole and valid in every directory that a
\* crash, an error or a power loss may leave.
THEOREM CurrentDocumentsAreWhole == Spec => []CurrentIsWhole
<1>1. PInv => CurrentIsWhole
  <2>1. SUFFICES ASSUME PInv, NEW d \in images \cup {files, disk}
                 PROVE  /\ d["catalog"] # Torn /\ d["catalog"] # None
                        /\ validate_catalog(d["catalog"]) /\ d["delivery"] # Torn
                        /\ d["delivery"] # None => validate_recovery(d["delivery"])
    BY DEF CurrentIsWhole
  <2>2. Legal(d)
    BY <2>1, InvariantFacts DEF Stands, Follows
  <2> DEFINE c == d["catalog"]
             x == d["catalogStage"]
             f == d["delivery"]
             y == d["deliveryStage"]
  <2>3. Resting(c, x, f, y) \/ Ahead(c, x, f, y) \/ Decided(c, x, f, y)
    BY <2>2 DEF Legal, Shape
  <2> HIDE DEF c, x, f, y
  <2>4. Sound(c) /\ (f = None \/ Doc(f))
    BY <2>3 DEF Resting, Ahead, Decided, Good, Doc
  <2>5. validate_catalog(c)
    BY <2>4 DEF Sound, Catalogs
  <2> QED BY <2>4, <2>5, MarksAreNoDocuments DEF Doc, c, f
<1> QED BY <1>1, PublicationInvariant, PTL

\* A transaction that returned, and a store that opened, left nothing that a
\* power loss could undo or that a later open would have to classify.
THEOREM ReturnsAreDurable == Spec => []ReturnIsDurable
<1>1. PInv => ReturnIsDurable
  <2>1. SUFFICES ASSUME PInv, open, script = <<>>
                 PROVE  images = {files} /\ disk = files /\ RecoveryScripts(files) = {<<>>}
    BY DEF ReturnIsDurable
  <2>2. images = {files} /\ disk = files /\ Shape(files, Clean)
    BY <2>1, AtRestFacts
  <2>3. Legal(files) /\ DirtyFits(files, dirty)
    BY <2>1, InvariantFacts
  <2>4. RecoveryScripts(files) = {<<>>}
    BY <2>2, <2>3, RecoveryPlans
  <2> QED BY <2>2, <2>4
<1> QED BY <1>1, PublicationInvariant, PTL

\* Whatever interrupted the store, also in an earlier recovery, the next open
\* finds a script that finishes or undoes it; but for the two named shapes.
THEOREM PairedCrashesRecover == Spec => []PairedCrashRecovers
<1>1. PInv => PairedCrashRecovers
  BY InvariantFacts, RecoveryPlans DEF PairedCrashRecovers
<1> QED BY <1>1, PublicationInvariant, PTL

\* The durable directory moves like one catalog and one fence.
LEMMA DurableMoves ==
  ASSUME PInv, [Next]_vars
  PROVE  AbsStep(disk, disk')
<1>1. \A d \in images \cup {files, disk} : AbsStep(disk, d)
  BY InvariantFacts DEF Stands, Follows
<1>2. disk' \in images \cup {files, disk}
  BY DEF Next, vars, Begin, publish_scale_set_reconciled_delivery,
         publish_scale_set_delivery_successor, publish_scale_set_lifecycle_resolution,
         settle_scale_set_delivery, replace_if_revision, Open, FileOperation, DoWrite, DoSyncFile,
         DoDisarm, DoRename, DoUnlink, DoSyncDirectory, Crash, CrashInWrite, Fail, PowerLoss
<1> QED BY <1>1, <1>2

\* No crash, error or power loss shows half of a transaction, undoes a returned
\* one, or publishes a catalog without its fence: the two files implement the
\* one catalog and one fence of ScaleSetDeliveryFence.
THEOREM PublicationImplementsFence == Spec => ImplementsFence
<1>1. Init => Fence!Init
  BY InitHolds DEF Fence!Init
<1>2. PInv /\ [Next]_vars => [Fence!Next]_(Fence!vars)
  <2>1. SUFFICES ASSUME PInv, [Next]_vars PROVE Fence!Next \/ UNCHANGED Fence!vars
    OBVIOUS
  <2>2. FenceMoves(CatalogOf(disk), FenceOf(disk), CatalogOf(disk'), FenceOf(disk'))
    BY <2>1, DurableMoves DEF AbsStep
  <2>3. CatalogOf(disk)' = CatalogOf(disk') /\ FenceOf(disk)' = FenceOf(disk')
    BY DEF CatalogOf, FenceOf, Settling, AheadOfFence, Is, Exists
  <2> QED BY <2>2, <2>3 DEF FenceMoves, Fence!Next, Fence!Reconcile, Fence!Advance, Fence!Resolve,
                            Fence!Settle, Fence!Ordinary, Fence!vars
<1> QED BY <1>1, <1>2, PublicationInvariant, PTL DEF ImplementsFence, Fence!Spec, Spec

=============================================================================
