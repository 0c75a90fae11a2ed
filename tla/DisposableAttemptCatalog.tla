----------------------- MODULE DisposableAttemptCatalog -----------------------
(***************************************************************************)
(* The durable catalog of disposable attempts: the active reservations,    *)
(* which own host capacity, and the bounded FIFO of retired attempts, the  *)
(* tombstones, which answer redelivered service events.  As in             *)
(* DisposableAttemptState an operator returns the set of catalogs the      *)
(* method may hand back, {} for Err.                                       *)
(*                                                                         *)
(* The resources and the prepared-template identity of a reservation are   *)
(* copied and compared, never changed, and are left out; a reservation is  *)
(* its attempt.                                                            *)
(***************************************************************************)
EXTENDS DisposableAttemptState, Sequences, SequencesExt, FiniteSets

CONSTANTS
  MaxActive,          \* MAX_ACTIVE_DISPOSABLE_ATTEMPTS
  MaxTombstones,      \* MAX_DISPOSABLE_ATTEMPT_TOMBSTONES
  MaxCatalogRevision  \* MAX_DISPOSABLE_ATTEMPT_CATALOG_REVISION

ASSUME CatalogBoundsAssumption ==
  /\ MaxActive \in Nat \ {0}
  /\ MaxTombstones \in Nat \ {0}
  /\ MaxCatalogRevision \in Nat \ {0}

CatalogDocuments == [revision : Nat, active : Seq(Attempts), tombstones : Seq(Attempts)]

empty == [revision |-> 1, active |-> <<>>, tombstones |-> <<>>]

\* The documents of `attempts' with this identity; at most one in a valid catalog.
find_active(c, id) == {a \in Range(c.active) : a.id = id}
find_tombstone(c, id) == {a \in Range(c.tombstones) : a.id = id}

\* Workers holding capacity: every active attempt that is not complete.
host_usage(c) == Cardinality({i \in DOMAIN c.active : c.active[i].phase # "Complete"})

-----------------------------------------------------------------------------
\* The revisions of `attempts', added up.
RevisionSum(attempts) ==
  LET sum[n \in 0 .. Len(attempts)] ==
        IF n = 0 THEN 0 ELSE sum[n - 1] + attempts[n].revision
  IN  sum[Len(attempts)]

\* What the catalog revision must be if every attempt in it was reserved,
\* advanced and retired one revision at a time.
represented_revision(c) ==
  1 + RevisionSum(c.active) + RevisionSum(c.tombstones) + Len(c.tombstones)

\* Mutant: the revision must stay exact after tombstones have been evicted.
ExactRevisionIsConsistent(c) == c.revision = represented_revision(c)

RevisionIsConsistent(c) ==
  IF Len(c.tombstones) < MaxTombstones
  THEN c.revision = represented_revision(c)
  ELSE c.revision >= represented_revision(c)

\* Mutant: a retired attempt that never had a runner clashes with an active one
\* that has none.
IdentitiesUniqueAbsentToo(c) ==
  LET all == c.active \o c.tombstones IN
  \A i, j \in DOMAIN all : i # j =>
    LET a == all[i]  b == all[j] IN
    /\ a.id # b.id
    /\ a.vm_identity = b.vm_identity => a.vm_identity = None
    /\ a.runner_id = b.runner_id => a.runner_id = None /\ ~ (i <= Len(c.active) /\ j > Len(c.active))
    /\ a.github_job_id = b.github_job_id => a.github_job_id = None

IdentitiesUnique(c) ==
  LET all == c.active \o c.tombstones IN
  \A i, j \in DOMAIN all : i # j =>
    LET a == all[i]  b == all[j] IN
    /\ a.id # b.id
    /\ a.vm_identity = b.vm_identity => a.vm_identity = None
    /\ a.runner_id = b.runner_id => a.runner_id = None
    /\ a.github_job_id = b.github_job_id => a.github_job_id = None

validate_catalog(c) ==
  /\ Len(c.active) <= MaxActive
  /\ Len(c.tombstones) <= MaxTombstones
  /\ RevisionIsConsistent(c)
  /\ \A a \in Range(c.active) : a.phase = "Reserved" => a.revision = 1
  /\ IdentitiesUnique(c)
  /\ \A a \in Range(c.tombstones) : a.phase = "Complete"

\* next.revision = self.revision.next()?; next.validate()?; Ok(next)
PublishedCatalog(c, next) ==
  {d \in {[next EXCEPT !.revision = c.revision + 1]} :
     d.revision <= MaxCatalogRevision /\ validate_catalog(d)}

-----------------------------------------------------------------------------
(***************************************************************************)
(* The operations.                                                         *)
(***************************************************************************)
reserve(c, a) ==
  IF find_active(c, a.id) # {} THEN {b \in {c} : find_active(c, a.id) = {a}}
  ELSE IF find_tombstone(c, a.id) # {} \/ Len(c.active) >= MaxActive THEN {}
  ELSE PublishedCatalog(c, [c EXCEPT !.active = Append(@, a)])

\* One DisposableAttemptCatalogAction: its name and what it carries.
Actions ==
  [name : {"AuthorizeClone", "RecordCloneStarted", "BeginUnprovisionedRelease",
           "CompleteUnprovisioned", "BeginRegistration", "RecordJitGenerationStarted",
           "RecordRunnerStartStarted", "BeginCleanup"}]
  \cup [name : {"RecordRegistration", "RecordRunnerReady"}, runner : RunnerReferences]
  \cup [name : {"RecordAssigned"}, job : JobIds]
  \cup [name : {"RecordRunning"}, runner : RunnerReferences, job : JobIds]
  \cup [name : {"RecordTerminal"}, runner : RunnerReferences \cup {None}, job : JobIds,
        result : Results]
  \cup [name : {"AdvanceCleanup"}, phase : Cleanup \cup {"Complete"}]

apply_action(a, action) ==
  CASE action.name = "AuthorizeClone" -> authorize_clone(a)
    [] action.name = "RecordCloneStarted" -> record_clone_started(a)
    [] action.name = "BeginUnprovisionedRelease" -> begin_unprovisioned_release(a)
    [] action.name = "CompleteUnprovisioned" -> complete_unprovisioned(a)
    [] action.name = "BeginRegistration" -> begin_registration(a)
    [] action.name = "RecordJitGenerationStarted" -> record_jit_generation_started(a)
    [] action.name = "RecordRegistration" -> record_registration(a, action.runner)
    [] action.name = "RecordRunnerStartStarted" -> record_runner_start_started(a)
    [] action.name = "RecordRunnerReady" -> record_runner_ready(a, action.runner)
    [] action.name = "RecordAssigned" -> record_assigned(a, action.job)
    [] action.name = "RecordRunning" -> record_running(a, action.runner, action.job)
    [] action.name = "RecordTerminal" ->
         record_terminal(a, action.runner, action.job, action.result)
    [] action.name = "BeginCleanup" -> begin_cleanup(a)
    [] action.name = "AdvanceCleanup" -> advance_cleanup(a, action.phase)
    [] OTHER -> {} \* BeginProvisioning, which never advances a current attempt

\* Where the attempt `id' stands, when the caller's expected attempt revision
\* is the current one.
Positions(c, id, expected) ==
  {i \in DOMAIN c.active : c.active[i].id = id /\ c.active[i].revision = expected}

replace_attempt(c, id, expected, action) ==
  UNION {UNION {IF b = c.active[i] THEN {c}
                ELSE PublishedCatalog(c, [c EXCEPT !.active[i] = b]) :
                  b \in apply_action(c.active[i], action)} :
           i \in Positions(c, id, expected)}

checkpoint_clone_started(c, id, expected) ==
  replace_attempt(c, id, expected, [name |-> "RecordCloneStarted"])

catalog_bind_vm_identity_after_clone(c, id, expected, identity) ==
  UNION {UNION {PublishedCatalog(c, [c EXCEPT !.active[i] = b]) :
                  b \in bind_vm_identity_after_clone(c.active[i], identity)} :
           i \in Positions(c, id, expected)}

\* The replay history after a push: FIFO eviction past the bound.
Retained(tombstones) ==
  IF Len(tombstones) > MaxTombstones THEN Tail(tombstones) ELSE tombstones

retire_complete(c, id, expected) ==
  UNION {PublishedCatalog(c, [c EXCEPT !.active = RemoveAt(c.active, i),
                                       !.tombstones = Retained(Append(@, c.active[i]))]) :
           i \in {k \in Positions(c, id, expected) : c.active[k].phase = "Complete"}}

-----------------------------------------------------------------------------
(***************************************************************************)
(* What a store accepts as the next document: exactly one reservation, one *)
(* attempt transition or one retirement; recovery of a staged document     *)
(* also accepts the private binding of a VM identity.                      *)
(***************************************************************************)
ChangedPositions(d, c) == {i \in DOMAIN c.active : d.active[i] # c.active[i]}

\* Mutant: a staged retirement must leave the older history as it was.
RetirementWithoutEviction(d, c) ==
  \E a \in Range(c.active) :
    /\ d \in retire_complete(c, a.id, a.revision)
    /\ IsPrefix(c.tombstones, d.tombstones)

IsRetirement(d, c) ==
  \E a \in Range(c.active) : d \in retire_complete(c, a.id, a.revision)

validate_successor_of(d, c) ==
  /\ validate_catalog(c) /\ validate_catalog(d)
  /\ d.revision = c.revision + 1
  /\ \/ Len(d.active) = Len(c.active) + 1 /\ d \in reserve(c, Last(d.active))
     \/ /\ Len(d.active) = Len(c.active) /\ d.tombstones = c.tombstones
        /\ \E i \in DOMAIN c.active :
             /\ ChangedPositions(d, c) = {i}
             /\ is_exact_successor_of(d.active[i], c.active[i])
     \/ IsRetirement(d, c)

validate_recovery_successor_of(d, c) ==
  \/ validate_successor_of(d, c)
  \/ /\ validate_catalog(c) /\ validate_catalog(d)
     /\ d.revision = c.revision + 1
     /\ Len(d.active) = Len(c.active) /\ d.tombstones = c.tombstones
     /\ \E i \in DOMAIN c.active :
          LET prior == c.active[i]  next == d.active[i] IN
          /\ ChangedPositions(d, c) = {i}
          /\ prior.phase = "CloneStarted" /\ prior.revision = 3 /\ prior.vm_identity = None
          /\ next.phase = "CloneStarted" /\ next.revision = 4 /\ next.vm_identity # None
          /\ \A f \in {"id", "runner_id", "github_job_id", "result", "not_after"} :
               next[f] = prior[f]

=============================================================================
