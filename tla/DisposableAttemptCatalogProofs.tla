-------------------- MODULE DisposableAttemptCatalogProofs --------------------
(***************************************************************************)
(* What the catalog store promises for every number of attempts, every     *)
(* bound on active attempts and on replay history, and every set of        *)
(* identities: a crash may stage any operation's document, and the         *)
(* revision accounting refuses nothing.                                    *)
(***************************************************************************)
EXTENDS DisposableAttemptCatalogStore, DisposableAttemptLemmas

\* The inductive invariant: the published document passes validate, and so
\* does every attempt in it.
CInv == catalog \in Catalogs /\ validate_catalog(catalog)

-----------------------------------------------------------------------------
\* The first catalog is valid.
LEMMA InitInv == Init => CInv
BY EmptyIsCatalog DEF Init, CInv

-----------------------------------------------------------------------------
(***************************************************************************)
(* The operations.                                                         *)
(***************************************************************************)
\* Every step that changes the catalog is a reservation, one transition, one
\* binding or one retirement.
LEMMA NextKinds ==
  ASSUME CInv, Next, catalog' # catalog
  PROVE  CatalogKinds(catalog', catalog)
<1>1. catalog \in Catalogs
  BY DEF CInv
<1>2. CASE Reserve
  BY <1>1, <1>2, ReservationKinds DEF Reserve
<1>3. CASE Transition
  BY <1>1, <1>3, TransitionKinds DEF Transition
<1>4. CASE BindVmIdentity
  BY <1>1, <1>4, BindingKinds DEF BindVmIdentity
<1>5. CASE RetireComplete
  BY <1>5 DEF RetireComplete, CatalogKinds, IsRetirement
<1> QED
  BY <1>2, <1>3, <1>4, <1>5 DEF Next

-----------------------------------------------------------------------------
(***************************************************************************)
(* The theorems.                                                           *)
(***************************************************************************)
\* Every step keeps the catalog valid.
LEMMA NextInv == CInv /\ [Next]_catalog => CInv'
<1> SUFFICES ASSUME CInv, [Next]_catalog PROVE CInv'
  OBVIOUS
<1>1. CASE catalog' = catalog
  BY <1>1 DEF CInv
<1>2. CASE catalog' # catalog
  <2>1. CatalogKinds(catalog', catalog)
    BY <1>2, NextKinds
  <2>2. CASE IsRetirement(catalog', catalog)
    BY <2>2, RetirementShortens DEF IsRetirement, CInv
  <2>3. CASE ~ IsRetirement(catalog', catalog)
    BY <2>1, <2>3 DEF CatalogKinds, Replaced, CInv
  <2> QED
    BY <2>2, <2>3
<1> QED
  BY <1>1, <1>2

\* Every published catalog passes validate, and so does every attempt in it:
\* the next start decodes it.
THEOREM CatalogInvariant == Spec => []CInv
BY InitInv, NextInv, PTL DEF Spec

\* Recovery accepts every document an operation may have staged; the ordinary
\* store path accepts all of them but the binding of a VM.
THEOREM StoreTestsAreExact == Spec => StoreSuccessorIsExact
<1> DEFINE Exact ==
      /\ validate_recovery_successor_of(catalog', catalog)
      /\ validate_successor_of(catalog', catalog) <=>
           ~ \E i \in DOMAIN catalog.active :
               /\ catalog.active[i].vm_identity = None
               /\ Len(catalog'.active) = Len(catalog.active)
               /\ catalog'.active[i].vm_identity # None
<1>1. CInv /\ [Next]_catalog => [Exact]_catalog
  <2> SUFFICES ASSUME CInv, Next, catalog' # catalog PROVE Exact
    OBVIOUS
  <2>1. CatalogKinds(catalog', catalog)
    BY NextKinds
  <2> QED
    BY <2>1, TestsAreExact DEF CInv, Unbound
<1> QED
  BY <1>1, CatalogInvariant, PTL DEF Spec, StoreSuccessorIsExact
-----------------------------------------------------------------------------
(***************************************************************************)
(* Accounting: what the attempt's own document allows, the represented     *)
(* revision allows too.                                                    *)
(***************************************************************************)
\* The parts of a catalog, typed.
LEMMA CatalogParts ==
  ASSUME NEW c \in Catalogs
  PROVE  /\ c.revision \in Nat
         /\ c.active \in Seq(ValidAttempts) /\ c.tombstones \in Seq(ValidAttempts)
         /\ Len(c.active) \in Nat /\ Len(c.tombstones) \in Nat
         /\ DOMAIN c.active = 1 .. Len(c.active)
         /\ \A i \in 1 .. Len(c.active) : c.active[i] \in ValidAttempts
         /\ RevisionSum(c.active) \in Int /\ RevisionSum(c.tombstones) \in Int
<1>1. /\ c.revision \in Nat
      /\ c.active \in Seq(ValidAttempts) /\ c.tombstones \in Seq(ValidAttempts)
  BY DEF Catalogs
<1>2. \A s \in Seq(ValidAttempts) : RevisionSum(s) \in Int
  <2> SUFFICES ASSUME NEW s \in Seq(ValidAttempts) PROVE RevisionSum(s) \in Int
    OBVIOUS
  <2>1. PICK f : PartialSums(s, f)
    BY SumsExist
  <2>2. Len(s) \in 0 .. Len(s)
    BY LenProperties
  <2> QED BY <2>1, <2>2, SumIsLast DEF PartialSums
<1> QED BY <1>1, <1>2, LenProperties, ElementOfSeq

\* A successor is published unless its identities clash.
LEMMA SuccessorIsPublished ==
  ASSUME NEW c \in Catalogs, validate_catalog(c), c.revision < MaxCatalogRevision,
         NEW i \in DOMAIN c.active, NEW b \in ValidAttempts,
         b.revision = c.active[i].revision + 1,
         IdentitiesUnique([c EXCEPT !.active[i] = b])
  PROVE  PublishedCatalog(c, [c EXCEPT !.active[i] = b]) # {}
<1> DEFINE t == [c.active EXCEPT ![i] = b]
           next == [c EXCEPT !.active[i] = b]
           d == [next EXCEPT !.revision = c.revision + 1]
<1>1. /\ c.revision \in Nat /\ i \in 1 .. Len(c.active)
      /\ c.active \in Seq(ValidAttempts) /\ c.tombstones \in Seq(ValidAttempts)
      /\ Len(c.active) \in Nat /\ Len(c.tombstones) \in Nat
      /\ RevisionSum(c.active) \in Int /\ RevisionSum(c.tombstones) \in Int
      /\ c.active[i] \in ValidAttempts
  BY CatalogParts
<1>2. t \in Seq(ValidAttempts) /\ Len(t) = Len(c.active)
  BY <1>1, ExceptSeq
<1>3. /\ d.revision = c.revision + 1 /\ d.active = t /\ d.tombstones = c.tombstones
      /\ next.active = t /\ next.tombstones = c.tombstones
  BY DEF Catalogs
<1>4. RevisionSum(t) = RevisionSum(c.active) + 1
  <2>1. RevisionSum(t) = RevisionSum(c.active) + b.revision - c.active[i].revision
    BY <1>1, SumOfExcept
  <2>2. c.active[i].revision \in Int
    BY <1>1 DEF ValidAttempts, Attempts
  <2> QED BY <1>1, <2>1, <2>2
<1>5. RevisionIsConsistent(c) /\ Len(c.active) <= MaxActive /\ Len(c.tombstones) <= MaxTombstones
  BY DEF validate_catalog
<1> HIDE DEF t, d
<1>6. RevisionIsConsistent(d)
  BY <1>1, <1>3, <1>4, <1>5 DEF RevisionIsConsistent, represented_revision
<1>7. \A a \in Range(t) : a.phase = "Reserved" => a.revision = 1
  <2>1. Range(t) \subseteq ValidAttempts
    BY <1>2, RangeOfSeq
  <2> QED BY <2>1 DEF ValidAttempts, validate, PhaseShape
<1>8. IdentitiesUnique(d)
  <2>1. IdentitiesUnique(next)
    OBVIOUS
  <2> HIDE DEF next
  <2> QED BY <1>3, <2>1 DEF IdentitiesUnique
<1>9. \A a \in Range(c.tombstones) : a.phase = "Complete"
  BY DEF validate_catalog
<1>10. validate_catalog(d)
  BY <1>2, <1>3, <1>5, <1>6, <1>7, <1>8, <1>9 DEF validate_catalog
<1>11. d.revision <= MaxCatalogRevision
  BY <1>1, <1>3, CatalogBoundsAssumption
<1>12. d \in PublishedCatalog(c, next)
  BY <1>10, <1>11 DEF PublishedCatalog, d
<1> QED BY <1>12

\* So no action the attempt allows is refused.
LEMMA ActionIsPublished ==
  ASSUME NEW c \in Catalogs, validate_catalog(c), c.revision < MaxCatalogRevision,
         NEW i \in DOMAIN c.active, NEW action \in Actions,
         NEW b \in apply_action(c.active[i], action),
         IdentitiesUnique([c EXCEPT !.active[i] = b])
  PROVE  replace_attempt(c, b.id, c.active[i].revision, action) # {}
<1> DEFINE a == c.active[i]
<1>1. a \in ValidAttempts
  BY CatalogParts
<1>2. b.id = a.id /\ (b # a => b \in ValidAttempts /\ b.revision = a.revision + 1)
  <2>1. CASE b = a
    BY <2>1
  <2>2. CASE b # a
    <3>1. b \in ValidAttempts /\ Step(a, b) /\ is_exact_successor_of(b, a)
      BY <1>1, <2>2, ActionIsSuccessor
    <3>2. b.revision = a.revision + 1
      BY <1>1, <2>2, <3>1, SuccessorAdvances
    <3> QED BY <3>1, <3>2 DEF Step, Keeps
  <2> QED BY <2>1, <2>2
<1>3. i \in Positions(c, b.id, a.revision)
  BY <1>2 DEF Positions
<1>4. \E d : d \in (IF b = a THEN {c} ELSE PublishedCatalog(c, [c EXCEPT !.active[i] = b]))
  <2>1. CASE b = a
    BY <2>1
  <2>2. CASE b # a
    BY <1>2, <2>2, SuccessorIsPublished
  <2> QED BY <2>1, <2>2
<1>5. PICK d : d \in (IF b = a THEN {c} ELSE PublishedCatalog(c, [c EXCEPT !.active[i] = b]))
  BY <1>4
<1>6. d \in replace_attempt(c, b.id, a.revision, action)
  BY <1>3, <1>5 DEF replace_attempt
<1> QED BY <1>6

\* Removing an attempt, and the tail, are lists without one member.
LEMMA RemovalIsWithout ==
  ASSUME NEW s \in Seq(ValidAttempts), NEW i \in 1 .. Len(s)
  PROVE  Without(RemoveAt(s, i), s, i) /\ Without(Tail(s), s, 1)
<1> DEFINE N == Len(s)
           before == SubSeq(s, 1, i - 1)
           after == SubSeq(s, i + 1, N)
<1>1. N \in Nat /\ i \in 1 .. N /\ s # << >> /\ \A k \in 1 .. N : s[k] \in ValidAttempts
  BY LenProperties, ElementOfSeq
<1>2. Without(Tail(s), s, 1)
  <2>1. /\ Tail(s) \in Seq(ValidAttempts) /\ Len(Tail(s)) = N - 1
        /\ \A k \in 1 .. Len(Tail(s)) : Tail(s)[k] = s[k + 1]
    BY <1>1, HeadTailProperties
  <2>2. \A k \in 1 .. Len(Tail(s)) : ~ (k < 1)
    BY <1>1, <2>1
  <2> QED BY <2>1, <2>2 DEF Without
<1>3. /\ before \in Seq(ValidAttempts) /\ Len(before) = i - 1
      /\ \A k \in 1 .. i - 1 : before[k] = s[k]
  <2>1. \A k \in 1 .. i - 1 : s[k] \in ValidAttempts
    BY <1>1
  <2>2. /\ before \in Seq(ValidAttempts)
        /\ Len(before) = IF 1 <= i - 1 THEN i - 1 - 1 + 1 ELSE 0
        /\ \A k \in 1 .. i - 1 - 1 + 1 : before[k] = s[1 + k - 1]
    BY <1>1, <2>1, SubSeqProperties
  <2> HIDE DEF before
  <2> QED BY <1>1, <2>2
<1>4. /\ after \in Seq(ValidAttempts) /\ Len(after) = N - i
      /\ \A k \in 1 .. N - i : after[k] = s[i + k]
  <2>1. \A k \in i + 1 .. N : s[k] \in ValidAttempts
    BY <1>1
  <2>2. /\ after \in Seq(ValidAttempts)
        /\ Len(after) = IF i + 1 <= N THEN N - (i + 1) + 1 ELSE 0
        /\ \A k \in 1 .. N - (i + 1) + 1 : after[k] = s[i + 1 + k - 1]
    BY <1>1, <2>1, SubSeqProperties
  <2> HIDE DEF after, N
  <2> QED BY <1>1, <2>2
<1>5. RemoveAt(s, i) = before \o after
  BY DEF RemoveAt
<1> HIDE DEF before, after, N
<1>6. /\ before \o after \in Seq(ValidAttempts)
      /\ Len(before \o after) = N - 1
      /\ \A k \in 1 .. N - 1 :
           (before \o after)[k] = IF k <= i - 1 THEN before[k] ELSE after[k - (i - 1)]
  <2>1. /\ before \o after \in Seq(ValidAttempts)
        /\ Len(before \o after) = Len(before) + Len(after)
        /\ \A k \in 1 .. Len(before) + Len(after) :
             (before \o after)[k] = IF k <= Len(before) THEN before[k]
                                   ELSE after[k - Len(before)]
    BY <1>3, <1>4, ConcatProperties
  <2>2. Len(before) = i - 1 /\ Len(before) + Len(after) = N - 1
    BY <1>1, <1>3, <1>4
  <2> QED BY <2>1, <2>2
<1>7. ASSUME NEW k \in 1 .. N - 1
      PROVE  (before \o after)[k] = IF k < i THEN s[k] ELSE s[k + 1]
  <2>1. CASE k < i
    <3>1. k \in 1 .. i - 1 /\ k <= i - 1
      BY <1>1, <2>1
    <3> QED BY <1>3, <1>6, <2>1, <3>1
  <2>2. CASE ~ (k < i)
    <3>1. k - (i - 1) \in 1 .. N - i /\ ~ (k <= i - 1) /\ i + (k - (i - 1)) = k + 1
      BY <1>1, <2>2
    <3>2. after[k - (i - 1)] = s[k + 1]
      BY <1>4, <3>1
    <3> QED BY <1>6, <2>2, <3>1, <3>2
  <2> QED BY <2>1, <2>2
<1>8. Without(RemoveAt(s, i), s, i)
  BY <1>5, <1>6, <1>7 DEF Without, N
<1> QED BY <1>2, <1>8

\* What a list without one member holds, it held before.
LEMMA WithoutRange ==
  ASSUME NEW s \in Seq(ValidAttempts), NEW i \in 1 .. Len(s), NEW t, Without(t, s, i)
  PROVE  Range(t) \subseteq Range(s)
<1>1. /\ Len(s) \in Nat /\ t \in Seq(ValidAttempts) /\ Len(t) = Len(s) - 1
      /\ \A k \in 1 .. Len(t) : t[k] = IF k < i THEN s[k] ELSE s[k + 1]
  BY LenProperties DEF Without
<1>2. Range(s) = {s[k] : k \in 1 .. Len(s)} /\ Range(t) = {t[k] : k \in 1 .. Len(t)}
  BY <1>1, RangeEquality
<1>3. \A k \in 1 .. Len(t) : k \in 1 .. Len(s) /\ k + 1 \in 1 .. Len(s)
  BY <1>1
<1> QED BY <1>1, <1>2, <1>3

\* A complete attempt retires, whether or not history evicts its oldest entry.
LEMMA RetirementIsPublished ==
  ASSUME NEW c \in Catalogs, validate_catalog(c), c.revision < MaxCatalogRevision,
         NEW i \in DOMAIN c.active, c.active[i].phase = "Complete"
  PROVE  retire_complete(c, c.active[i].id, c.active[i].revision) # {}
<1> DEFINE a == c.active[i]
           m == Len(c.active)
           n == Len(c.tombstones)
           e == IF n + 1 > MaxTombstones THEN 1 ELSE 0
           t == RemoveAt(c.active, i)
           pushed == Append(c.tombstones, a)
           kept == Retained(pushed)
           next == [c EXCEPT !.active = t, !.tombstones = kept]
           d == [next EXCEPT !.revision = c.revision + 1]
<1>1. /\ c.revision \in Nat /\ m \in Nat /\ n \in Nat /\ i \in 1 .. m
      /\ c.active \in Seq(ValidAttempts) /\ c.tombstones \in Seq(ValidAttempts)
      /\ RevisionSum(c.active) \in Int /\ RevisionSum(c.tombstones) \in Int
      /\ a \in ValidAttempts /\ a.revision \in Nat
  <2>1. a \in ValidAttempts
    BY CatalogParts
  <2>2. a.revision \in Nat
    BY <2>1 DEF ValidAttempts, Attempts
  <2> QED BY <2>1, <2>2, CatalogParts
<1>2. /\ m <= MaxActive /\ n <= MaxTombstones /\ RevisionIsConsistent(c) /\ IdentitiesUnique(c)
      /\ MaxTombstones \in Nat /\ MaxActive \in Nat /\ MaxCatalogRevision \in Nat
      /\ \A b \in Range(c.active) : b.phase = "Reserved" => b.revision = 1
      /\ \A b \in Range(c.tombstones) : b.phase = "Complete"
  BY CatalogBoundsAssumption DEF validate_catalog
<1>3. Without(t, c.active, i)
  BY <1>1, RemovalIsWithout
<1>4. /\ pushed \in Seq(ValidAttempts) /\ Len(pushed) = n + 1 /\ pushed[n + 1] = a
      /\ \A k \in 1 .. n : pushed[k] = c.tombstones[k]
      /\ Range(pushed) = Range(c.tombstones) \cup {a}
      /\ RevisionSum(pushed) = RevisionSum(c.tombstones) + a.revision
  BY <1>1, AppendProperties, AppendRange, SumOfAppend
<1> HIDE DEF a, t, pushed, m, n
<1>5. /\ t \in Seq(ValidAttempts) /\ Len(t) = m - 1
      /\ \A k \in 1 .. m - 1 : t[k] = IF k < i THEN c.active[k] ELSE c.active[k + 1]
      /\ RevisionSum(t) = RevisionSum(c.active) - a.revision
      /\ Range(t) \subseteq Range(c.active)
  <2>1. i \in 1 .. Len(c.active)
    BY <1>1 DEF m
  <2>2. RevisionSum(t) = RevisionSum(c.active) - a.revision
    BY <1>1, <1>3, <2>1, SumOfWithout DEF a
  <2>3. Range(t) \subseteq Range(c.active)
    BY <1>1, <1>3, <2>1, WithoutRange
  <2> QED BY <1>3, <2>2, <2>3 DEF Without, m
\* The history kept: everything pushed, or all but its oldest entry.
<1>6. /\ kept \in Seq(ValidAttempts) /\ Len(kept) = n + 1 - e
      /\ \A j \in 1 .. n + 1 - e : kept[j] = pushed[j + e]
      /\ Range(kept) \subseteq Range(pushed)
      /\ e = 0 => kept = pushed
      /\ e = 1 => RevisionSum(kept) = RevisionSum(pushed) - pushed[1].revision
  <2>1. CASE n + 1 > MaxTombstones
    <3>1. kept = Tail(pushed) /\ e = 1
      BY <1>4, <2>1 DEF Retained
    <3>2. 1 \in 1 .. Len(pushed)
      BY <1>1, <1>4
    <3>3. Without(Tail(pushed), pushed, 1)
      BY <1>4, <3>2, RemovalIsWithout
    <3>4. /\ RevisionSum(Tail(pushed)) = RevisionSum(pushed) - pushed[1].revision
          /\ Range(Tail(pushed)) \subseteq Range(pushed)
      BY <1>4, <3>2, <3>3, SumOfWithout, WithoutRange
    <3>5. /\ Tail(pushed) \in Seq(ValidAttempts) /\ Len(Tail(pushed)) = n
          /\ \A j \in 1 .. n : Tail(pushed)[j] = pushed[j + 1]
      BY <1>1, <1>4, <3>3 DEF Without
    <3>6. n + 1 - e = n
      BY <1>1, <3>1
    <3> QED BY <3>1, <3>4, <3>5, <3>6
  <2>2. CASE ~ (n + 1 > MaxTombstones)
    <3>1. kept = pushed /\ e = 0
      BY <1>4, <2>2 DEF Retained
    <3>2. n + 1 - e = n + 1 /\ \A j \in 1 .. n + 1 : j + e = j
      BY <1>1, <3>1
    <3> QED BY <1>4, <3>1, <3>2
  <2> QED BY <2>1, <2>2
<1>e. /\ e \in {0, 1} /\ (e = 1 <=> n = MaxTombstones) /\ (e = 0 <=> n < MaxTombstones)
  BY <1>1, <1>2
<1> HIDE DEF e, kept
<1>7. /\ next.active = t /\ next.tombstones = kept
      /\ d.revision = c.revision + 1 /\ d.active = t /\ d.tombstones = kept
  BY DEF Catalogs
<1>c. d \in Catalogs
  <2>1. next \in Catalogs
    BY <1>5, <1>6 DEF Catalogs
  <2>2. c.revision + 1 \in Nat
    BY <1>1
  <2> HIDE DEF next
  <2> QED BY <2>1, <2>2 DEF Catalogs
<1>r. d \in PublishedCatalog(c, next) <=> d.revision <= MaxCatalogRevision /\ validate_catalog(d)
  BY DEF PublishedCatalog
<1>q. d \in PublishedCatalog(c, next) =>
        retire_complete(c, c.active[i].id, c.active[i].revision) # {}
  <2> SUFFICES ASSUME d \in PublishedCatalog(c, next)
               PROVE  d \in retire_complete(c, c.active[i].id, c.active[i].revision)
    OBVIOUS
  <2>1. i \in {k \in Positions(c, c.active[i].id, c.active[i].revision) :
                 c.active[k].phase = "Complete"}
    BY DEF Positions
  <2> HIDE DEF d
  <2> QED BY <2>1 DEF retire_complete, t, kept, pushed, a
<1> HIDE DEF next, d
<1>8. RevisionIsConsistent(d)
  <2>0. /\ represented_revision(d) = 1 + RevisionSum(t) + RevisionSum(kept) + Len(kept)
        /\ represented_revision(c) = 1 + RevisionSum(c.active) + RevisionSum(c.tombstones) + n
    BY <1>7 DEF represented_revision, n
  <2>s. /\ RevisionSum(c.active) \in Int /\ RevisionSum(c.tombstones) \in Int
        /\ a.revision \in Int /\ n \in Int
        /\ RevisionSum(t) = RevisionSum(c.active) - a.revision
        /\ RevisionSum(pushed) = RevisionSum(c.tombstones) + a.revision
    BY <1>1, <1>4, <1>5
  <2>1. CASE e = 0
    <3>0. RevisionSum(kept) = RevisionSum(c.tombstones) + a.revision /\ Len(kept) = n + 1
      BY <1>1, <1>4, <1>6, <2>1
    <3>1. represented_revision(d) = represented_revision(c) + 1
      BY <2>s, <2>0, <3>0
    <3>2. c.revision = represented_revision(c)
      BY <1>2, <1>e, <2>1 DEF RevisionIsConsistent, n
    <3> QED BY <1>1, <1>7, <3>1, <3>2 DEF RevisionIsConsistent
  <2>2. CASE e = 1
    <3>1. pushed[1].revision \in Nat
      <4>1. pushed[1] \in ValidAttempts
        BY <1>1, <1>4, ElementOfSeq
      <4> QED BY <4>1 DEF ValidAttempts, Attempts
    <3>2. Len(kept) = n
      BY <1>1, <1>6, <2>2
    <3>3. /\ represented_revision(d) = represented_revision(c) - pushed[1].revision
          /\ represented_revision(c) \in Int
      <4>1. RevisionSum(kept) = RevisionSum(c.tombstones) + a.revision - pushed[1].revision
        <5>1. RevisionSum(kept) = RevisionSum(pushed) - pushed[1].revision
          BY <1>6, <2>2
        <5> QED BY <2>s, <3>1, <5>1
      <4>2. pushed[1].revision \in Int
        BY <3>1
      <4> QED BY <2>0, <2>s, <3>2, <4>1, <4>2
    <3>4. c.revision >= represented_revision(c)
      BY <1>2, <1>e, <2>2, <1>1 DEF RevisionIsConsistent, n
    <3>5. ~ (Len(d.tombstones) < MaxTombstones)
      BY <1>1, <1>2, <1>7, <1>e, <2>2, <3>2
    <3>6. d.revision >= represented_revision(d)
      BY <1>1, <1>7, <3>1, <3>3, <3>4
    <3> QED BY <3>5, <3>6 DEF RevisionIsConsistent
  <2> QED BY <1>e, <2>1, <2>2
\* Where each document of the new catalog stood in the old one.
<1>9. IdentitiesUnique(d)
  <2> DEFINE dall == d.active \o d.tombstones
             call == c.active \o c.tombstones
             p == [k \in 1 .. m + n - e |->
                     IF k < i THEN k ELSE IF k < m THEN k + 1
                     ELSE IF k + e < m + n THEN k + e + 1 ELSE i]
  <2>1. /\ DOMAIN call = 1 .. m + n
        /\ \A k \in 1 .. m : call[k] = c.active[k]
        /\ \A j \in 1 .. n : call[m + j] = c.tombstones[j]
    BY JoinedLists DEF m, n
  <2>2. /\ DOMAIN dall = 1 .. m + n - e
        /\ \A k \in 1 .. m - 1 : dall[k] = t[k]
        /\ \A j \in 1 .. n + 1 - e : dall[m - 1 + j] = kept[j]
    <3>1. /\ DOMAIN dall = 1 .. Len(t) + Len(kept)
          /\ \A k \in 1 .. Len(t) : dall[k] = t[k]
          /\ \A j \in 1 .. Len(kept) : dall[Len(t) + j] = kept[j]
      BY <1>7, <1>c, JoinedLists
    <3>2. Len(t) = m - 1 /\ Len(kept) = n + 1 - e /\ Len(t) + Len(kept) = m + n - e
      BY <1>1, <1>5, <1>6, <1>e
    <3> QED BY <3>1, <3>2
  <2> HIDE DEF dall, call
  <2>3. \A k \in 1 .. m + n - e : p[k] \in 1 .. m + n
    BY <1>1, <1>e
  <2>4. ASSUME NEW k \in 1 .. m + n - e, NEW l \in 1 .. m + n - e, k # l
        PROVE  p[k] # p[l]
    <3>1. /\ p[k] = IF k < i THEN k ELSE IF k < m THEN k + 1
                    ELSE IF k + e < m + n THEN k + e + 1 ELSE i
          /\ p[l] = IF l < i THEN l ELSE IF l < m THEN l + 1
                    ELSE IF l + e < m + n THEN l + e + 1 ELSE i
      OBVIOUS
    <3>2. /\ m \in Int /\ n \in Int /\ e \in Int /\ i \in Int /\ k \in Int /\ l \in Int
          /\ i <= m /\ 0 <= e /\ e <= 1 /\ k + e <= m + n /\ l + e <= m + n
      BY <1>1, <1>e
    <3>p. p[k] \in Int /\ p[l] \in Int
      BY <3>1, <3>2
    <3> HIDE DEF p
    <3>3. CASE k < m /\ l < m
      BY <2>4, <3>1, <3>2, <3>3
    <3>4. CASE k < m /\ ~ (l < m)
      <4>1. p[k] <= m /\ p[k] # i /\ (p[l] > m \/ p[l] = i)
        BY <3>1, <3>2, <3>4
      <4> QED BY <3>2, <3>p, <4>1
    <3>5. CASE ~ (k < m) /\ l < m
      <4>1. p[l] <= m /\ p[l] # i /\ (p[k] > m \/ p[k] = i)
        BY <3>1, <3>2, <3>5
      <4> QED BY <3>2, <3>p, <4>1
    <3>6. CASE ~ (k < m) /\ ~ (l < m)
      <4>0. ~ (k < i) /\ ~ (l < i)
        BY <3>2, <3>6
      <4>1. /\ p[k] = IF k + e < m + n THEN k + e + 1 ELSE i
            /\ p[l] = IF l + e < m + n THEN l + e + 1 ELSE i
        BY <3>1, <3>6, <4>0
      <4> QED BY <2>4, <3>2, <3>6, <4>1
    <3> QED BY <3>3, <3>4, <3>5, <3>6
  <2>5. ASSUME NEW k \in 1 .. m + n - e PROVE dall[k] = call[p[k]]
    <3>1. CASE k < m
      <4>1. k \in 1 .. m - 1 /\ k \in 1 .. m /\ k + 1 \in 1 .. m /\ (k < i => p[k] = k)
            /\ (~ (k < i) => p[k] = k + 1)
        BY <1>1, <3>1
      <4> QED BY <1>5, <2>1, <2>2, <4>1
    <3>2. CASE ~ (k < m)
      <4> DEFINE j == k - m + 1
      <4>1. j \in 1 .. n + 1 - e /\ m - 1 + j = k /\ ~ (k < i) /\ j + e \in 1 .. n + 1
        BY <1>1, <1>e, <3>2
      <4>2. dall[k] = pushed[j + e]
        BY <1>6, <2>2, <4>1
      <4>3. CASE k + e < m + n
        <5>1. p[k] = k + e + 1 /\ k + e + 1 = m + (j + e) /\ j + e \in 1 .. n
          BY <1>1, <1>e, <3>2, <4>1, <4>3
        <5> HIDE DEF p, j
        <5>2. call[m + (j + e)] = c.tombstones[j + e] /\ pushed[j + e] = c.tombstones[j + e]
          BY <1>4, <2>1, <5>1
        <5> QED BY <4>2, <5>1, <5>2
      <4>4. CASE ~ (k + e < m + n)
        <5>1. p[k] = i /\ j + e = n + 1
          BY <1>1, <1>e, <3>2, <4>1, <4>4
        <5> HIDE DEF p, j
        <5> QED BY <1>1, <1>4, <2>1, <4>2, <5>1 DEF a
      <4> QED BY <4>3, <4>4
    <3> QED BY <3>1, <3>2
  <2>6. \A k, l \in DOMAIN call : k # l =>
          /\ call[k].id # call[l].id
          /\ call[k].vm_identity = call[l].vm_identity => call[k].vm_identity = None
          /\ call[k].runner_id = call[l].runner_id => call[k].runner_id = None
          /\ call[k].github_job_id = call[l].github_job_id => call[k].github_job_id = None
    BY <1>2 DEF IdentitiesUnique, call
  <2> HIDE DEF p
  <2>7. ASSUME NEW k \in DOMAIN dall, NEW l \in DOMAIN dall, k # l
        PROVE  /\ dall[k].id # dall[l].id
               /\ dall[k].vm_identity = dall[l].vm_identity => dall[k].vm_identity = None
               /\ dall[k].runner_id = dall[l].runner_id => dall[k].runner_id = None
               /\ dall[k].github_job_id = dall[l].github_job_id => dall[k].github_job_id = None
    <3>1. /\ p[k] \in DOMAIN call /\ p[l] \in DOMAIN call /\ p[k] # p[l]
          /\ dall[k] = call[p[k]] /\ dall[l] = call[p[l]]
      BY <2>1, <2>2, <2>3, <2>4, <2>5, <2>7
    <3>2. /\ call[p[k]].id # call[p[l]].id
          /\ call[p[k]].vm_identity = call[p[l]].vm_identity => call[p[k]].vm_identity = None
          /\ call[p[k]].runner_id = call[p[l]].runner_id => call[p[k]].runner_id = None
          /\ call[p[k]].github_job_id = call[p[l]].github_job_id =>
               call[p[k]].github_job_id = None
      BY <2>6, <3>1
    <3> QED BY <3>1, <3>2, Zenon
  <2> QED BY <2>7 DEF IdentitiesUnique, dall
<1>10. /\ \A b \in Range(t) : b.phase = "Reserved" => b.revision = 1
       /\ \A b \in Range(kept) : b.phase = "Complete"
  BY <1>2, <1>4, <1>5, <1>6 DEF a
<1>11. Len(t) <= MaxActive /\ Len(kept) <= MaxTombstones
  BY <1>1, <1>2, <1>5, <1>6, <1>e
<1>12. validate_catalog(d)
  BY <1>7, <1>8, <1>9, <1>10, <1>11 DEF validate_catalog
<1>13. d.revision <= MaxCatalogRevision
  BY <1>1, <1>2, <1>7
<1> QED BY <1>q, <1>r, <1>12, <1>13

\* The represented-revision check never refuses an operation that the
\* attempt's own document allows, on either side of the eviction boundary.
THEOREM AccountingStaysConsistent == Spec => []AccountingNeverRefuses
<1>1. CInv => AccountingNeverRefuses
  <2> SUFFICES ASSUME CInv, catalog.revision < MaxCatalogRevision
               PROVE  /\ \A i \in DOMAIN catalog.active, action \in Actions :
                           \A b \in apply_action(catalog.active[i], action) :
                             IdentitiesUnique([catalog EXCEPT !.active[i] = b]) =>
                               replace_attempt(catalog, b.id, catalog.active[i].revision,
                                               action) # {}
                      /\ \A a \in Range(catalog.active) :
                           a.phase = "Complete" =>
                             retire_complete(catalog, a.id, a.revision) # {}
    BY DEF AccountingNeverRefuses
  <2>0. catalog \in Catalogs /\ validate_catalog(catalog)
    BY DEF CInv
  <2>1. ASSUME NEW i \in DOMAIN catalog.active, NEW action \in Actions,
               NEW b \in apply_action(catalog.active[i], action),
               IdentitiesUnique([catalog EXCEPT !.active[i] = b])
        PROVE  replace_attempt(catalog, b.id, catalog.active[i].revision, action) # {}
    BY <2>0, <2>1, ActionIsPublished
  <2>2. ASSUME NEW a \in Range(catalog.active), a.phase = "Complete"
        PROVE  retire_complete(catalog, a.id, a.revision) # {}
    <3>1. PICK i \in DOMAIN catalog.active : a = catalog.active[i]
      BY DEF Range
    <3> QED BY <2>0, <2>2, <3>1, RetirementIsPublished
  <2> QED BY <2>1, <2>2
<1> QED
  BY <1>1, CatalogInvariant, PTL
=============================================================================
