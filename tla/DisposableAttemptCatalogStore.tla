-------------------- MODULE DisposableAttemptCatalogStore --------------------
(***************************************************************************)
(* The catalog under every sequence of operations of its store: reserve,   *)
(* transition, the clone transaction's binding and retire_complete, for    *)
(* any attempt in any order, past the point where replay history evicts.   *)
(* The store is exclusive and revision-checked, so each operation is one   *)
(* step; a caller that holds a stale revision is refused and changes       *)
(* nothing.                                                                *)
(***************************************************************************)
EXTENDS DisposableAttemptCatalog

VARIABLE catalog \* the published document

Init == catalog = empty

Reserve == \E id \in AttemptIds, t \in Times : catalog' \in reserve(catalog, reserved(id, t))

Transition ==
  \E a \in Range(catalog.active), action \in Actions :
    catalog' \in replace_attempt(catalog, a.id, a.revision, action)

BindVmIdentity ==
  \E a \in Range(catalog.active), v \in VmIdentities :
    catalog' \in catalog_bind_vm_identity_after_clone(catalog, a.id, a.revision, v)

RetireComplete ==
  \E a \in Range(catalog.active) : catalog' \in retire_complete(catalog, a.id, a.revision)

Next == Reserve \/ Transition \/ BindVmIdentity \/ RetireComplete

Spec == Init /\ [][Next]_catalog

-----------------------------------------------------------------------------
\* The represented-revision check, exact until history fills and a lower
\* bound from then on, never refuses what the attempt's own document allows:
\* a successor without an identity clash is published and a complete attempt
\* retires, on either side of the eviction boundary.
AccountingNeverRefuses ==
  catalog.revision < MaxCatalogRevision =>
    /\ \A i \in DOMAIN catalog.active, action \in Actions :
         \A b \in apply_action(catalog.active[i], action) :
           IdentitiesUnique([catalog EXCEPT !.active[i] = b]) =>
             replace_attempt(catalog, b.id, catalog.active[i].revision, action) # {}
    /\ \A a \in Range(catalog.active) :
         a.phase = "Complete" => retire_complete(catalog, a.id, a.revision) # {}

\* The next call of the cleanup of an attempt, and what it publishes.
CleanupCall(phase) ==
  CASE phase \in {"Reserved", "CloneAuthorized"} -> [name |-> "BeginUnprovisionedRelease"]
    [] phase = "UnprovisionedReleasing" -> [name |-> "CompleteUnprovisioned"]
    [] phase = "Destroying" -> [name |-> "AdvanceCleanup", phase |-> "Deregistering"]
    [] phase = "Deregistering" -> [name |-> "AdvanceCleanup", phase |-> "Releasing"]
    [] phase = "Releasing" -> [name |-> "AdvanceCleanup", phase |-> "Complete"]
    [] OTHER -> [name |-> "BeginCleanup"]

CleanedUp(c, id) ==
  {d \in {c} : find_active(c, id) = {}} \cup
  UNION {IF a.phase = "Complete" THEN retire_complete(c, id, a.revision)
         ELSE replace_attempt(c, id, a.revision, CleanupCall(a.phase)) : a \in find_active(c, id)}

\* Evidence that names a runner or a job of another attempt, active or retired,
\* is refused and may leave its attempt without either for good.  Wherever that
\* stops an attempt, and whatever the others hold, its cleanup alone takes it
\* to retirement: five writes at most, none of them refused on behalf of
\* another attempt or at the bound of the history.  Only a clone whose VM is
\* not known stays.
CleanupAlwaysRetires ==
  LET next(catalogs, id) == UNION {CleanedUp(c, id) : c \in catalogs} IN
  \A a \in Range(catalog.active) :
    \/ a.phase = "CloneStarted" /\ a.vm_identity = None
    \/ catalog.revision + 5 > MaxCatalogRevision
    \/ \E c \in next(next(next(next(CleanedUp(catalog, a.id), a.id), a.id), a.id), a.id) :
         find_active(c, a.id) = {}

\* A crash may leave any operation's document staged: recovery accepts all of
\* them.  The ordinary store path accepts all but the binding of a VM, which
\* no ordinary writer may forge.
StoreSuccessorIsExact ==
  [][ /\ validate_recovery_successor_of(catalog', catalog)
      /\ validate_successor_of(catalog', catalog) <=>
           ~ \E i \in DOMAIN catalog.active :
               /\ catalog.active[i].vm_identity = None
               /\ Len(catalog'.active) = Len(catalog.active)
               /\ catalog'.active[i].vm_identity # None ]_catalog

=============================================================================
