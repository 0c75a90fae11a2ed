------------------------ MODULE ResidentSandboxCatalog ------------------------
(***************************************************************************)
(* The catalog of resident project sandboxes: acceptance requests,         *)
(* permanent generation maxima and locator claims, and one record per      *)
(* accepted generation with its current operation.  Operators return the   *)
(* set of catalogs a call may produce: one, or none when it refuses.       *)
(*                                                                         *)
(* A sorted vector with unique keys is a set.  A digest is what it is      *)
(* computed from: a lineage is the pair of project and sandbox id, a       *)
(* configuration stands for its digest and its policy generations, and the *)
(* locator is the identity hashed into it.  policy_identity hashes fields  *)
(* of its own record that no checkpoint changes and is left out.           *)
(***************************************************************************)
EXTENDS Naturals, FiniteSets, FiniteSetsExt

CONSTANTS
  None,
  RequestIds, Lineages, Sources, Configs,
  MaxEntries,      \* MAX_RESIDENT_SANDBOX_ENTRIES, and the two bounds equal to it
  MaxLineages,     \* MAX_RESIDENT_SANDBOX_LINEAGES
  MaxGeneration,   \* MAX_RESIDENT_SANDBOX_GENERATION
  MaxRevision      \* MAX_RESIDENT_SANDBOX_REVISION

ASSUME BoundsAssumption ==
  /\ MaxEntries \in Nat \ {0} /\ MaxLineages \in Nat \ {0}
  /\ MaxGeneration \in Nat \ {0} /\ MaxRevision \in Nat \ {0}

\* A configuration may declare a project disk, which names its own Lima source.
ASSUME ConfigsAssumption ==
  \A config \in Configs : config.disk_source \in Sources \cup {None}

-----------------------------------------------------------------------------
(***************************************************************************)
(* Records.                                                                *)
(***************************************************************************)
Physical == {"Unmaterialized", "StoppedBound", "RunningBound", "RevalidateRequired",
             "Quarantined", "RetireRequested", "Retired"}

\* The physical state an operation of each kind belongs to.
HomeOf == [Materialize |-> "Unmaterialized", Start |-> "StoppedBound", Stop |-> "RunningBound"]

Kinds == DOMAIN HomeOf
Checkpoints == [kind : Kinds, step : {"Authorized", "PrestartFailed", "Started",
                                      "RecoveryRequired"}]

key(r) == [lineage |-> r.lineage, generation |-> r.generation]

\* last_operation_generation, 0 for None
next_operation_generation(r) == r.last + 1

Advanced(r, operation, last) ==
  IF r.revision + 1 > MaxRevision THEN {}
  ELSE {[r EXCEPT !.revision = @ + 1, !.operation = operation, !.last = last]}

InPhase(r, kind, phase) ==
  r.operation # None /\ r.operation.kind = kind /\ r.operation.phase = phase

apply_checkpoint(r, cp) ==
  IF r.physical = "Retired" \/ r.physical # HomeOf[cp.kind] THEN {}
  ELSE CASE cp.step = "Authorized" /\ r.operation = None ->
              LET generation == next_operation_generation(r) IN
              IF generation > MaxGeneration THEN {}
              ELSE Advanced(r, [kind |-> cp.kind, generation |-> generation,
                                phase |-> "Authorized"], generation)
         [] cp.step = "PrestartFailed" /\ InPhase(r, cp.kind, "Authorized") ->
              Advanced(r, None, r.last)
         [] cp.step = "Started" /\ InPhase(r, cp.kind, "Authorized") ->
              Advanced(r, [r.operation EXCEPT !.phase = "Started"], r.last)
         [] cp.step = "RecoveryRequired" /\ InPhase(r, cp.kind, "Started") ->
              Advanced(r, [r.operation EXCEPT !.phase = "RecoveryRequired"], r.last)
         [] OTHER -> {}

validate_record(r) ==
  /\ r.generation <= MaxGeneration
  /\ r.config.disk_source \in {None, r.source}
  /\ r.revision = 1 => r.physical = "Unmaterialized" /\ r.last = 0 /\ r.operation = None
  /\ r.operation # None => /\ r.physical = HomeOf[r.operation.kind]
                           /\ r.last = r.operation.generation
  /\ r.last <= MaxGeneration

-----------------------------------------------------------------------------
(***************************************************************************)
(* The catalog.                                                            *)
(***************************************************************************)
empty == [revision |-> 1, requests |-> {}, maxima |-> {}, locators |-> {}, entries |-> {}]

Generated == [lineage : Lineages, generation : Nat]
Locators == Lineages \X Nat \X Sources
Operations == [kind : Kinds, generation : Nat,
               phase : {"Authorized", "Started", "RecoveryRequired"}]

\* What a catalog document may hold.
Revisions == 1 .. MaxRevision
Vectors(S) == {v \in SUBSET S : IsFiniteSet(v)}
Claims == [request_id : RequestIds, lineage : Lineages, source : Sources, config : Configs,
           generation : Nat, locator : Locators]
Records == [lineage : Lineages, generation : Nat, revision : Revisions, source : Sources,
            locator : Locators, config : Configs, physical : Physical, last : Nat,
            operation : Operations \cup {None}]
Catalogs ==
  [revision : Revisions, requests : Vectors(Claims),
   maxima : Vectors([lineage : Lineages, maximum : Nat]),
   locators : Vectors([source : Sources, locator : Locators, key : Generated]),
   entries : Vectors(Records)]

find(c, k) == {r \in c.entries : key(r) = k}

derive_locator(lineage, generation, source) == <<lineage, generation, source>>

MaximumOf(c, lineage) == {m.maximum : m \in {m \in c.maxima : m.lineage = lineage}}

NextGeneration(c, lineage) ==
  IF MaximumOf(c, lineage) = {} THEN 1 ELSE 1 + (CHOOSE g \in MaximumOf(c, lineage) : TRUE)

UniqueBy(S, Key(_)) == \A x, y \in S : Key(x) = Key(y) => x = y

\* The revision that the represented history adds up to.
Represented(c) ==
  1 + Cardinality(c.requests) + MapThenSumSet(LAMBDA r : r.revision - 1, c.entries)

validate(c) ==
  /\ Cardinality(c.entries) <= MaxEntries /\ Cardinality(c.maxima) <= MaxLineages
  /\ Cardinality(c.requests) = Cardinality(c.entries)
  /\ Cardinality(c.locators) = Cardinality(c.entries)
  /\ c.revision = Represented(c)
  /\ UniqueBy(c.requests, LAMBDA q : q.request_id)
  /\ UniqueBy(c.maxima, LAMBDA m : m.lineage)
  /\ UniqueBy(c.locators, LAMBDA l : l.locator)
  /\ UniqueBy(c.entries, key)
  /\ UniqueBy(c.entries, LAMBDA r : <<r.source, r.locator>>)
  /\ \A r \in c.entries :
       /\ validate_record(r)
       /\ \E g \in MaximumOf(c, r.lineage) : r.generation <= g
       /\ [source |-> r.source, locator |-> r.locator, key |-> key(r)] \in c.locators
  /\ UniqueBy(c.locators, LAMBDA l : l.key)
  /\ \A l \in c.locators :
       \E r \in find(c, l.key) : l.source = r.source /\ l.locator = r.locator
  /\ UniqueBy(c.requests, key)
  /\ \A q \in c.requests :
       /\ \E r \in find(c, key(q)) :
            q.source = r.source /\ q.locator = r.locator /\ q.config = r.config
       /\ q.locator = derive_locator(q.lineage, q.generation, q.source)
  /\ \A m \in c.maxima :
       LET generations == {r.generation : r \in {r \in c.entries : r.lineage = m.lineage}}
       IN generations # {} /\ m.maximum = Max(generations)

Satisfies(q, request) ==
  /\ q.lineage = request.lineage /\ q.source = request.source /\ q.config = request.config

\* The catalog with one more generation of request.lineage.
Accepted(c, request, generation) ==
  LET locator == derive_locator(request.lineage, generation, request.source)
      record == [lineage |-> request.lineage, generation |-> generation, revision |-> 1,
                 source |-> request.source, locator |-> locator, config |-> request.config,
                 physical |-> "Unmaterialized", last |-> 0, operation |-> None]
      claim == [request_id |-> request.request_id, lineage |-> request.lineage,
                source |-> request.source, config |-> request.config,
                generation |-> generation, locator |-> locator]
  IN [revision |-> c.revision + 1,
      requests |-> c.requests \cup {claim},
      maxima |-> {m \in c.maxima : m.lineage # request.lineage}
                   \cup {[lineage |-> request.lineage, maximum |-> generation]},
      locators |-> c.locators \cup {[source |-> request.source, locator |-> locator,
                                     key |-> key(record)]},
      entries |-> c.entries \cup {record}]

accept(c, request) ==
  LET same == {q \in c.requests : q.request_id = request.request_id}
      generation == NextGeneration(c, request.lineage)
      locator == derive_locator(request.lineage, generation, request.source)
      next == Accepted(c, request, generation)
  IN
  CASE ~ validate(c) \/ request.config.disk_source \notin {None, request.source} -> {}
    [] same # {} -> {c : q \in {q \in same : Satisfies(q, request)}}
    [] OTHER ->
         IF /\ Cardinality(c.entries) < MaxEntries
            /\ MaximumOf(c, request.lineage) = {} => Cardinality(c.maxima) < MaxLineages
            /\ generation <= MaxGeneration
            /\ \A l \in c.locators : ~ (l.source = request.source /\ l.locator = locator)
            /\ c.revision < MaxRevision
            /\ validate(next)
         THEN {next} ELSE {}

-----------------------------------------------------------------------------
(***************************************************************************)
(* The successor test of the store.                                        *)
(***************************************************************************)
is_exact_acceptance_successor(current, next) ==
  /\ Cardinality(next.requests) = Cardinality(current.requests) + 1
  /\ Cardinality(next.locators) = Cardinality(current.locators) + 1
  /\ Cardinality(next.entries) = Cardinality(current.entries) + 1
  /\ current.entries \subseteq next.entries
  /\ current.requests \subseteq next.requests
  /\ current.locators \subseteq next.locators
  /\ \E r \in next.entries \ current.entries, q \in next.requests \ current.requests,
        l \in next.locators \ current.locators :
       /\ r.revision = 1 /\ r.physical = "Unmaterialized" /\ r.last = 0 /\ r.operation = None
       /\ key(q) = key(r) /\ Satisfies(q, r) /\ q.locator = r.locator
       /\ l = [source |-> r.source, locator |-> r.locator, key |-> key(r)]
       /\ r.generation = NextGeneration(current, r.lineage)
       /\ next.maxima = {m \in current.maxima : m.lineage # r.lineage}
                          \cup {[lineage |-> r.lineage, maximum |-> r.generation]}

\* Mutant: the generation of a newly authorized operation is not compared.
OperationSuccessorAnyGeneration(prior, next) ==
  \/ /\ prior.operation = None /\ next.operation # None
     /\ next.operation.phase = "Authorized" /\ next.last = next.operation.generation
  \/ /\ prior.operation # None /\ prior.operation.phase = "Authorized"
     /\ next.operation = None /\ prior.last = prior.operation.generation
     /\ next.last = prior.last
  \/ /\ prior.operation # None /\ next.operation # None
     /\ next.operation = [prior.operation EXCEPT !.phase = next.operation.phase]
     /\ <<prior.operation.phase, next.operation.phase>> \in
          {<<"Authorized", "Started">>, <<"Started", "RecoveryRequired">>}
     /\ next.last = prior.last

valid_operation_successor(prior, next) ==
  \/ /\ prior.operation = None /\ next.operation # None
     /\ next.operation.phase = "Authorized" /\ next.last = next.operation.generation
     /\ next.operation.generation = next_operation_generation(prior)
  \/ /\ prior.operation # None /\ prior.operation.phase = "Authorized"
     /\ next.operation = None /\ prior.last = prior.operation.generation
     /\ next.last = prior.last
  \/ /\ prior.operation # None /\ next.operation # None
     /\ next.operation = [prior.operation EXCEPT !.phase = next.operation.phase]
     /\ <<prior.operation.phase, next.operation.phase>> \in
          {<<"Authorized", "Started">>, <<"Started", "RecoveryRequired">>}
     /\ next.last = prior.last

validate_successor_of(next, current) ==
  /\ validate(current) /\ validate(next)
  /\ next.revision = current.revision + 1
  /\ IF <<next.requests, next.maxima, next.locators>>
          # <<current.requests, current.maxima, current.locators>>
     THEN is_exact_acceptance_successor(current, next)
     ELSE \E r \in next.entries \ current.entries, prior \in current.entries \ next.entries :
            /\ next.entries = (current.entries \ {prior}) \cup {r}
            /\ [r EXCEPT !.revision = prior.revision, !.operation = prior.operation,
                         !.last = prior.last] = prior
            /\ r.revision = prior.revision + 1
            /\ valid_operation_successor(prior, r)

\* checkpoint, of one exact record revision
checkpoint(c, k, expected_record_revision, cp) ==
  UNION {{next \in {[c EXCEPT !.entries = (@ \ {r}) \cup {s}, !.revision = @ + 1] :
                      s \in apply_checkpoint(r, cp)} :
            next.revision <= MaxRevision /\ validate_successor_of(next, c)} :
           r \in {r \in find(c, k) : r.revision = expected_record_revision}}

\* Every catalog one call makes of another.
Requests == [request_id : RequestIds, lineage : Lineages, source : Sources, config : Configs]

Successors(c) ==
  ((UNION {accept(c, request) : request \in Requests}) \ {c})
    \cup UNION {checkpoint(c, key(r), r.revision, cp) : r \in c.entries, cp \in Checkpoints}

=============================================================================
