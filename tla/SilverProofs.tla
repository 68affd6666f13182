---------------------------- MODULE SilverProofs ----------------------------
(* Proofs about Silver, for any number of snapshots, runs, workers and     *)
(* operators, any payloads and any answers of the geocoder.                *)
EXTENDS Silver, FiniteSetTheorems, SequenceTheorems, WellFoundedInduction, TLAPS

-----------------------------------------------------------------------------
(* The inductive invariant                                                 *)

Reading == {"candidates", "create", "insert"}
Linking == {"after", "link"}

(* What process() may rely on at each of its steps.  Listings are only     *)
(* added, so what it read of them stays true.                              *)
ProcessOK(k, listed, drawn) ==
    /\ k.pc # "idle" => k.run \in Runs
    /\ k.pc \notin {"idle", "load"} =>
          \A s \in Snapshots : RunOf[s] = k.run => s \in listed \/ s \in Range(k.todo)
    /\ k.pc \in Reading \cup Linking => k.todo # <<>>
    /\ k.pc \in {"create", "insert"} \cup Linking =>
          /\ IsInjective(k.candidates)
          /\ Range(k.candidates) \subseteq listed
          /\ \A t \in Range(k.candidates) : ~SameChain(t, Head(k.todo))
    /\ k.pc \in Linking =>
          /\ Head(k.todo) \in listed
          /\ \A t \in Range(k.candidates) : drawn[{Head(k.todo), t}] = None
    /\ k.pc = "link" =>
          /\ k.candidates # <<>>
          /\ Evaluation[<<Head(k.todo), Head(k.candidates)>>] # None
    /\ k.pc = "insert" => k.canonical # None
    /\ k.canonical # None => k.pc \in {"candidates", "insert"}
    /\ k.fields # {} => k.pc = "after" /\ k.previous # None

(* No two workers link the same listing, and of two listings being linked  *)
(* only the later one was offered the other.                               *)
ApartFrom(k, l) ==
    k.pc \in Linking /\ l.pc \in Linking =>
        /\ Head(k.todo) # Head(l.todo)
        /\ ~(Head(k.todo) \in Range(l.candidates) /\ Head(l.todo) \in Range(k.candidates))

WorkersAreApart ==
    \A v, w \in Workers : v # w => ApartFrom(worker[v], worker[w])

LinksAreListed == \A p \in Pairs : links[p] # None => p \subseteq Listed

DecisionsHaveLinks ==
    \A o \in Operators : operator[o].pc = "save" =>
        operator[o].pair \in Pairs /\ links[operator[o].pair] # None

PropertiesExist ==
    /\ \A s \in Listed : Canonical(s) <= properties
    /\ \A w \in Workers : worker[w].canonical # None => worker[w].canonical <= properties

(* A property that a worker holds is that of a related listing, or one it  *)
(* created itself and nobody else has seen.                                *)
Attached(k, listed, rows) ==
    \E t \in listed : t \in Related[Head(k.todo)] /\ rows[t].canonical = k.canonical

Fresh(w) ==
    /\ \A t \in Listed : Canonical(t) # worker[w].canonical
    /\ \A v \in Workers \ {w} : worker[v].canonical # worker[w].canonical

CanonicalsAreJustified ==
    \A w \in Workers : worker[w].canonical # None =>
        Attached(worker[w], Listed, listings) \/ Fresh(w)

WorkInv ==
    /\ \A w \in Workers : ProcessOK(worker[w], Listed, links)
    /\ WorkersAreApart
    /\ LinksAreListed
    /\ DecisionsHaveLinks
    /\ PropertiesExist
    /\ CanonicalsAreJustified
    /\ MergesAreJustified

IInv == TypeOK /\ NormalizedIsComplete /\ WorkInv

-----------------------------------------------------------------------------
(* Sequences                                                               *)

LEMMA HeadAndTail ==
    ASSUME NEW S, NEW q \in Seq(S), q # <<>>
    PROVE  /\ Head(q) \in S
           /\ Tail(q) \in Seq(S)
           /\ Range(q) = {Head(q)} \cup Range(Tail(q))
           /\ IsInjective(q) => IsInjective(Tail(q)) /\ Head(q) \notin Range(Tail(q))
<1>1. /\ Len(q) \in Nat \ {0} /\ DOMAIN q = 1..Len(q)
      /\ Head(q) = q[1] /\ Head(q) \in S
      /\ Tail(q) \in Seq(S) /\ DOMAIN Tail(q) = 1..(Len(q) - 1)
      /\ \A i \in 1..(Len(q) - 1) : Tail(q)[i] = q[i + 1]
  BY HeadTailProperties
<1>2. Range(q) \subseteq {Head(q)} \cup Range(Tail(q))
  <2>1. ASSUME NEW i \in DOMAIN q PROVE q[i] \in {Head(q)} \cup Range(Tail(q))
    <3>1. CASE i = 1
      BY <3>1, <1>1
    <3>2. CASE i # 1
      <4>1. i - 1 \in DOMAIN Tail(q) /\ Tail(q)[i - 1] = q[i]
        BY <3>2, <1>1
      <4> QED
        BY <4>1 DEF Range
    <3> QED
      BY <3>1, <3>2
  <2> QED
    BY <2>1 DEF Range
<1>3. {Head(q)} \cup Range(Tail(q)) \subseteq Range(q)
  <2>1. Head(q) \in Range(q)
    BY <1>1 DEF Range
  <2>2. ASSUME NEW i \in DOMAIN Tail(q) PROVE Tail(q)[i] \in Range(q)
    <3>1. i + 1 \in DOMAIN q /\ Tail(q)[i] = q[i + 1]
      BY <1>1
    <3> QED
      BY <3>1 DEF Range
  <2> QED
    BY <2>1, <2>2 DEF Range
<1>4. ASSUME IsInjective(q) PROVE IsInjective(Tail(q)) /\ Head(q) \notin Range(Tail(q))
  <2>1. \A i, j \in 1..Len(q) : q[i] = q[j] => i = j
    BY <1>1, <1>4 DEF IsInjective
  <2>2. ASSUME NEW i \in DOMAIN Tail(q), NEW j \in DOMAIN Tail(q), Tail(q)[i] = Tail(q)[j]
        PROVE  i = j
    <3>1. i + 1 \in 1..Len(q) /\ j + 1 \in 1..Len(q) /\ q[i + 1] = q[j + 1]
      BY <1>1, <2>2
    <3>2. i + 1 = j + 1
      BY <3>1, <2>1
    <3> QED
      BY <3>2, <1>1
  <2>3. ASSUME NEW i \in DOMAIN Tail(q) PROVE Tail(q)[i] # Head(q)
    <3>1. i + 1 \in 1..Len(q) /\ 1 \in 1..Len(q) /\ i + 1 # 1 /\ Tail(q)[i] = q[i + 1]
      BY <1>1
    <3> QED
      BY <3>1, <2>1, <1>1
  <2> QED
    BY <2>2, <2>3 DEF IsInjective, Range
<1> QED
  BY <1>1, <1>2, <1>3, <1>4

LEMMA OrderedHasAll ==
    ASSUME NEW S \in SUBSET Snapshots, NEW q \in Ordered(S)
    PROVE  q \in Seq(Snapshots) /\ IsInjective(q) /\ Range(q) = S
<1>1. IsFiniteSet(S) /\ Cardinality(S) \in Nat
  BY SilverAssumption, FS_Subset, FS_CardinalityType
<1>2. /\ q \in [1..Cardinality(S) -> S]
      /\ \A i, j \in 1..Cardinality(S) : i # j => q[i] # q[j]
  BY DEF Ordered, SetToSeqs
<1>3. q \in Seq(Snapshots)
  BY <1>1, <1>2
<1>4. IsInjective(q)
  BY <1>2 DEF IsInjective
<1>5. q \in Injection(1..Cardinality(S), S)
  BY <1>2 DEF Injection, IsInjective
<1>6. Cardinality(1..Cardinality(S)) = Cardinality(S)
  BY <1>1, FS_Interval
<1>7. q \in Surjection(1..Cardinality(S), S)
  BY <1>1, <1>5, <1>6, FS_Injection
<1>8. Range(q) = S
  BY <1>7, <1>2 DEF Surjection, Range
<1> QED
  BY <1>3, <1>4, <1>8

(* The first position of a match, and the first changed field.             *)
LEMMA MinIsMember ==
    ASSUME NEW S \in SUBSET Nat, S # {}
    PROVE  Min(S) \in S
<1> DEFINE R == {ss \in Nat \X Nat : ss[1] < ss[2]}
<1>1. IsWellFoundedOn(R, Nat)
  BY NatLessThanWellFounded, Zenon DEF OpToRel
<1>2. PICK n \in S : \A m \in S : ~ (<<m, n>> \in R)
  <2> HIDE DEF R
  <2> QED
    BY <1>1, WFMin
<1>3. ASSUME NEW m \in S PROVE n =< m
  <2>1. m \in Nat /\ n \in Nat
    OBVIOUS
  <2>2. m < n => <<m, n>> \in R
    BY <2>1
  <2> QED
    BY <1>2, <2>1, <2>2
<1> QED
  BY <1>3 DEF Min

LEMMA TwoMakeAPair ==
    ASSUME NEW s \in Snapshots, NEW t \in Snapshots, s # t
    PROVE  {s, t} \in Pairs
<1>1. IsFiniteSet({s}) /\ Cardinality({s}) = 1
  BY FS_Singleton
<1>2. Cardinality({s} \cup {t}) = 2
  BY <1>1, FS_AddElement
<1>3. {s} \cup {t} = {s, t}
  OBVIOUS
<1> QED
  BY <1>2, <1>3 DEF Pairs

-----------------------------------------------------------------------------
(* Rules                                                                   *)

LEMMA RelatedIsSymmetric ==
    ASSUME NEW s \in Snapshots, NEW t \in Snapshots, t \in Related[s]
    PROVE  s \in Related[t]
BY DEF Related, SameChain, SameFingerprint

LEMMA EvaluationTells ==
    ASSUME NEW s \in Snapshots, NEW t \in Snapshots
    PROVE  /\ Evaluation[<<s, t>>] \in {"deterministic", "proposal", None}
           /\ Evaluation[<<s, t>>] = "deterministic" => t \in Related[s]
<1> DEFINE f == Fields[s]
           g == Fields[t]
           same == SameFingerprint(f, g)
           missing == MissingStrong(f) \/ MissingStrong(g)
<1>1. Evaluation[<<s, t>>] = EvaluatePair(f, g)
  BY DEF Evaluation
<1>2. same => ~missing
  BY DEF SameFingerprint
<1>3. CASE same
  <2>1. EvaluatePair(f, g) = "deterministic"
    BY <1>3, <1>2 DEF EvaluatePair
  <2> QED
    BY <1>1, <1>3, <2>1 DEF Related
<1>4. CASE ~same
  <2>1. EvaluatePair(f, g) \in {"proposal", None}
    BY <1>4 DEF EvaluatePair
  <2> QED
    BY <1>1, <2>1, SilverAssumption
<1> QED
  BY <1>3, <1>4

LEMMA NewListingIsARow ==
    ASSUME NEW s \in Snapshots, NEW c \in Nat \ {0}, NEW answer \in GeoAnswers \cup {None}
    PROVE  NewListing(s, c, answer) \in ListingRow /\ NewListing(s, c, answer).canonical = c
<1>1. Fields[s].geo_precision \in Precisions
  BY DEF Fields, NormalizeSnapshot, AssignLocation, Precisions
<1>2. MaxPrecision(Fields[s]) \in Precisions
  BY DEF MaxPrecision, Precisions
<1>3. MaybeGeocode(Fields[s], answer) \in Precisions
  BY <1>1, <1>2, SilverAssumption DEF MaybeGeocode, ClampPrecision, Given
<1> QED
  BY <1>3 DEF NewListing, ListingRow

LEMMA NewLinkIsARow ==
    ASSUME NEW method \in {"deterministic", "proposal"}
    PROVE  NewLink(method) \in LinkRow /\ NewLink(method) # None
BY RowsAssumption DEF NewLink, LinkRow, LinkState

-----------------------------------------------------------------------------
(* Merging                                                                 *)

Justified(listed, rows) ==
    \A S \in SUBSET listed :
        (\A a \in S : Related[a] \cap (listed \ S) = {})
            => \A a \in S, b \in listed \ S : rows[a].canonical # rows[b].canonical

(* One more listing joins the property of a related one or has its own.    *)
LEMMA JustifiedGrows ==
    ASSUME NEW L \in SUBSET Snapshots, NEW rows, NEW s \in Snapshots, s \notin L, NEW more,
           \A t \in L : more[t] = rows[t],
           Justified(L, rows),
           \/ \E t \in L : t \in Related[s] /\ rows[t].canonical = more[s].canonical
           \/ \A t \in L : rows[t].canonical # more[s].canonical
    PROVE  Justified(L \cup {s}, more)
<1> SUFFICES ASSUME NEW T \in SUBSET (L \cup {s}),
                    \A a \in T : Related[a] \cap ((L \cup {s}) \ T) = {},
                    NEW a \in T, NEW b \in (L \cup {s}) \ T
             PROVE  more[a].canonical # more[b].canonical
  BY DEF Justified
<1> DEFINE S == T \ {s}
<1>1. S \in SUBSET L /\ L \ S = L \ T /\ \A x \in S : Related[x] \cap (L \ S) = {}
  OBVIOUS
<1>2. \A x \in S, y \in L \ T : rows[x].canonical # rows[y].canonical
  <2> HIDE DEF S
  <2>1. \A x \in S, y \in L \ S : rows[x].canonical # rows[y].canonical
    BY <1>1 DEF Justified
  <2> QED
    BY <1>1, <2>1
<1>3. CASE a # s /\ b # s
  <2>1. a \in S /\ b \in L \ T /\ a \in L
    BY <1>3
  <2> QED
    BY <2>1, <1>2
<1>4. CASE a = s
  <2>1. b \in L \ T
    BY <1>4
  <2>2. ASSUME NEW t \in L, t \in Related[s], rows[t].canonical = more[s].canonical
        PROVE  t \in S
    BY <1>4, <2>2
  <2> QED
    BY <1>2, <1>4, <2>1, <2>2
<1>5. CASE b = s
  <2>1. a \in S /\ a \in L
    BY <1>5
  <2>2. ASSUME NEW t \in L, t \in Related[s], rows[t].canonical = more[s].canonical
        PROVE  t \in L \ T
    <3>1. s \in Related[t]
      BY <2>2, RelatedIsSymmetric
    <3> QED
      BY <1>5, <3>1
  <2> QED
    BY <1>2, <1>5, <2>1, <2>2
<1> QED
  BY <1>3, <1>4, <1>5

-----------------------------------------------------------------------------
(* Kinds of steps                                                          *)

WorkTypeOK ==
    /\ properties \in Nat
    /\ listings \in [Snapshots -> ListingRow \cup {None}]
    /\ changes \subseteq ChangeRow
    /\ links \in [Pairs -> LinkRow \cup {None}]
    /\ worker \in [Workers -> Process]
    /\ operator \in [Operators -> Decision]

LEMMA IInvParts ==
    IInv <=> Jobs!JobTypeOK /\ WorkTypeOK /\ NormalizedIsComplete /\ WorkInv
BY DEF IInv, TypeOK, WorkTypeOK

LEMMA MoreListings ==
    ASSUME NEW k, NEW L, NEW M, L \subseteq M, NEW drawn, ProcessOK(k, L, drawn)
    PROVE  ProcessOK(k, M, drawn)
BY DEF ProcessOK

(* A worker moves and no row of another table is written: the property it  *)
(* holds is the one it held, that of a related listing, or a new one.      *)
LocalStep(w, k) ==
    /\ k \in Process
    /\ worker' = [worker EXCEPT ![w] = k]
    /\ UNCHANGED <<listings, links, operator>>
    /\ changes' \subseteq ChangeRow
    /\ ProcessOK(k, Listed, links)
    /\ k.pc \in Linking =>
          /\ worker[w].pc \in Linking
          /\ Head(k.todo) = Head(worker[w].todo)
          /\ Range(k.candidates) \subseteq Range(worker[w].candidates)
    /\ \/ /\ UNCHANGED properties
          /\ \/ k.canonical = None
             \/ k.canonical = worker[w].canonical /\ Head(k.todo) = Head(worker[w].todo)
             \/ Attached(k, Listed, listings)
       \/ /\ properties' = properties + 1
          /\ k.canonical = properties + 1

LEMMA LocalKeeps ==
    ASSUME WorkTypeOK, WorkInv, NEW w \in Workers, NEW k, LocalStep(w, k)
    PROVE  WorkTypeOK' /\ WorkInv' /\ Listed' = Listed
<1>1. Listed' = Listed
  BY DEF LocalStep, Listed
<1>2. /\ worker'[w] = k
      /\ \A v \in Workers \ {w} : worker'[v] = worker[v]
  BY DEF LocalStep, WorkTypeOK
<1>3. WorkTypeOK'
  <2>1. properties' \in Nat
    BY DEF LocalStep, WorkTypeOK
  <2>2. worker' \in [Workers -> Process]
    BY DEF LocalStep, WorkTypeOK
  <2> QED
    BY <2>1, <2>2 DEF LocalStep, WorkTypeOK
<1>4. ASSUME NEW v \in Workers PROVE ProcessOK(worker'[v], Listed', links')
  <2>1. links' = links
    BY DEF LocalStep
  <2>2. CASE v = w
    BY <1>1, <1>2, <2>1, <2>2 DEF LocalStep
  <2>3. CASE v # w
    BY <1>1, <1>2, <2>1, <2>3 DEF WorkInv
  <2> QED
    BY <2>2, <2>3
<1>5. WorkersAreApart'
  <2>1. ASSUME NEW u \in Workers, NEW v \in Workers, u # v
        PROVE  ApartFrom(worker'[u], worker'[v])
    <3>0. ApartFrom(worker[u], worker[v]) /\ ApartFrom(worker[v], worker[u])
      BY <2>1 DEF WorkInv, WorkersAreApart
    <3>1. CASE u = w
      BY <3>0, <3>1, <2>1, <1>2 DEF LocalStep, ApartFrom
    <3>2. CASE v = w
      BY <3>0, <3>2, <2>1, <1>2 DEF LocalStep, ApartFrom
    <3>3. CASE u # w /\ v # w
      BY <3>0, <3>3, <1>2
    <3> QED
      BY <3>1, <3>2, <3>3
  <2> QED
    BY <2>1 DEF WorkersAreApart
<1>6. LinksAreListed' /\ DecisionsHaveLinks'
  BY <1>1 DEF LocalStep, WorkInv, LinksAreListed, DecisionsHaveLinks
<1>7. PropertiesExist'
  <2>1. \A s \in Listed : Canonical(s) \in Nat
    BY DEF WorkTypeOK, Listed, Canonical, ListingRow
  <2>2. properties' \in Nat /\ properties <= properties'
    BY DEF LocalStep, WorkTypeOK
  <2>3. ASSUME NEW s \in Listed PROVE listings[s].canonical <= properties'
    BY <2>1, <2>2 DEF WorkTypeOK, WorkInv, PropertiesExist, Canonical
  <2>4. k.canonical # None => k.canonical <= properties'
    <3>1. CASE properties' = properties + 1 /\ k.canonical = properties + 1
      BY <3>1, <2>2
    <3>2. CASE k.canonical = worker[w].canonical
      <4>1. k.canonical # None => k.canonical \in Nat
        BY DEF LocalStep, Process
      <4> QED
        BY <3>2, <4>1, <2>2 DEF WorkTypeOK, WorkInv, PropertiesExist
    <3>3. CASE Attached(k, Listed, listings)
      BY <3>3, <2>3 DEF Attached
    <3> QED
      BY <3>1, <3>2, <3>3 DEF LocalStep
  <2>5. ASSUME NEW v \in Workers, v # w, worker[v].canonical # None
        PROVE  worker[v].canonical <= properties'
    <3>1. worker[v].canonical \in Nat
      BY <2>5 DEF WorkTypeOK, Process
    <3> QED
      BY <2>5, <3>1, <2>2 DEF WorkTypeOK, WorkInv, PropertiesExist
  <2>6. listings' = listings
    BY DEF LocalStep
  <2> QED
    BY <1>1, <1>2, <2>3, <2>4, <2>5, <2>6 DEF PropertiesExist, Canonical
<1>8. CanonicalsAreJustified'
  <2>0. listings' = listings
    BY DEF LocalStep
  <2>1. ASSUME NEW v \in Workers, worker'[v].canonical # None
        PROVE  Attached(worker'[v], Listed', listings') \/ Fresh(v)'
    <3>1. CASE v = w
      <4>1. CASE Attached(k, Listed, listings)
        BY <4>1, <3>1, <2>0, <1>1, <1>2
      <4>2. CASE k.canonical = worker[w].canonical /\ Head(k.todo) = Head(worker[w].todo)
        <5>1. CASE Attached(worker[w], Listed, listings)
          BY <5>1, <4>2, <3>1, <2>0, <1>1, <1>2 DEF Attached
        <5>2. CASE Fresh(w)
          BY <5>2, <4>2, <3>1, <2>0, <1>1, <1>2 DEF Fresh, Canonical
        <5> QED
          BY <5>1, <5>2, <4>2, <3>1, <2>1, <1>2 DEF WorkInv, CanonicalsAreJustified
      <4>3. CASE properties' = properties + 1 /\ k.canonical = properties + 1
        <5>1. ASSUME NEW t \in Listed PROVE listings[t].canonical # properties + 1
          <6>1. listings[t].canonical \in Nat /\ listings[t].canonical <= properties
            BY DEF WorkTypeOK, Listed, ListingRow, WorkInv, PropertiesExist, Canonical
          <6> QED
            BY <6>1 DEF WorkTypeOK
        <5>2. ASSUME NEW u \in Workers PROVE worker[u].canonical # properties + 1
          <6>1. CASE worker[u].canonical = None
            <7>1. k.canonical # None
              BY <2>1, <3>1, <1>2
            <7> QED
              BY <6>1, <7>1, <4>3
          <6>2. CASE worker[u].canonical # None
            <7>1. worker[u].canonical \in Nat /\ worker[u].canonical <= properties
              BY <6>2 DEF WorkTypeOK, Process, WorkInv, PropertiesExist
            <7> QED
              BY <7>1 DEF WorkTypeOK
          <6> QED
            BY <6>1, <6>2
        <5> QED
          BY <5>1, <5>2, <4>3, <3>1, <2>0, <1>1, <1>2 DEF Fresh, Canonical
      <4> QED
        BY <4>1, <4>2, <4>3, <3>1, <2>1, <1>2 DEF LocalStep
    <3>2. CASE v # w
      <4>1. worker'[v] = worker[v] /\ worker[v].canonical # None
        BY <3>2, <2>1, <1>2
      <4>2. CASE Attached(worker[v], Listed, listings)
        BY <4>1, <4>2, <2>0, <1>1
      <4>3. CASE Fresh(v)
        <5>1. k.canonical # worker[v].canonical
          <6>1. CASE properties' = properties + 1 /\ k.canonical = properties + 1
            <7>1. worker[v].canonical \in Nat /\ worker[v].canonical <= properties
              BY <4>1 DEF WorkTypeOK, Process, WorkInv, PropertiesExist
            <7> QED
              BY <6>1, <7>1 DEF WorkTypeOK
          <6>2. CASE k.canonical = worker[w].canonical
            BY <6>2, <4>3, <3>2 DEF Fresh
          <6>3. CASE Attached(k, Listed, listings)
            BY <6>3, <4>3 DEF Attached, Fresh, Canonical
          <6> QED
            BY <6>1, <6>2, <6>3, <4>1 DEF LocalStep
        <5> QED
          BY <5>1, <4>1, <4>3, <2>0, <1>1, <1>2 DEF Fresh, Canonical
      <4> QED
        BY <4>1, <4>2, <4>3 DEF WorkInv, CanonicalsAreJustified
    <3> QED
      BY <3>1, <3>2
  <2> QED
    BY <2>1 DEF CanonicalsAreJustified
<1>9. MergesAreJustified'
  BY <1>1 DEF LocalStep, WorkInv, MergesAreJustified, Canonical
<1> QED
  BY <1>1, <1>3, <1>4, <1>5, <1>6, <1>7, <1>8, <1>9 DEF WorkInv

(* A listing is inserted: the worker goes on to link it.                   *)
LEMMA InsertKeeps ==
    ASSUME WorkTypeOK, WorkInv, NEW w \in Workers, InsertListing(w)
    PROVE  WorkTypeOK' /\ WorkInv' /\ Listed \subseteq Listed'
<1> DEFINE s == Head(worker[w].todo)
           c == worker[w].canonical
           changed == IF worker[w].previous = None THEN {}
                      ELSE CompareListings(Fields[worker[w].previous], Fields[s])
           k == [worker[w] EXCEPT !.pc = "after", !.canonical = None, !.fields = changed]
<1>1. /\ worker[w] \in Process /\ worker[w].pc = "insert"
      /\ ProcessOK(worker[w], Listed, links)
  BY DEF WorkTypeOK, WorkInv, InsertListing
<1>2. /\ worker[w].todo # <<>> /\ worker[w].todo \in Seq(Snapshots)
      /\ worker[w].candidates \in Seq(Snapshots)
      /\ c \in Nat \ {0} /\ c # None
      /\ worker[w].run \in Runs
  BY <1>1 DEF ProcessOK, Process, Reading
<1>3. s \in Snapshots
  BY <1>2, HeadAndTail
<1>4. PICK row \in ListingRow : row.canonical = c /\ listings' = [listings EXCEPT ![s] = row]
  BY <1>2, <1>3, NewListingIsARow DEF InsertListing, Current, Inserted
<1>5. row # None /\ s \notin Listed
  BY RowsAssumption DEF InsertListing, Current, Insertable
<1>6. /\ listings'[s] = row
      /\ \A t \in Listed : listings'[t] = listings[t]
      /\ Listed' = Listed \cup {s}
  BY <1>3, <1>4, <1>5 DEF Listed, WorkTypeOK
<1>7. changed \subseteq 1..Len(ChangeFields) /\ (changed # {} => worker[w].previous # None)
  BY DEF CompareListings
<1>8. worker' = [worker EXCEPT ![w] = k]
  BY DEF InsertListing, Current, WorkTypeOK
<1> HIDE DEF changed
<1>9. /\ k \in Process /\ k.pc = "after" /\ k.canonical = None /\ k.fields = changed
      /\ k.todo = worker[w].todo /\ k.candidates = worker[w].candidates
      /\ k.run = worker[w].run /\ k.previous = worker[w].previous
  BY <1>1, <1>7 DEF Process
<1>10. /\ worker'[w] = k
       /\ \A v \in Workers \ {w} : worker'[v] = worker[v]
  BY <1>8 DEF WorkTypeOK
<1> HIDE DEF k
<1>11. UNCHANGED <<properties, changes, links, operator>>
  BY DEF InsertListing
<1>12. WorkTypeOK'
  BY <1>3, <1>4, <1>8, <1>9, <1>11 DEF WorkTypeOK
<1>13. ProcessOK(k, Listed', links)
  <2>1. ASSUME NEW t \in Range(k.candidates) PROVE links[{s, t}] = None
    <3>1. t \in Listed /\ ~SameChain(t, s)
      BY <1>1, <1>9, <2>1 DEF ProcessOK
    <3>2. t \in Snapshots /\ s # t
      BY <3>1 DEF Listed, SameChain
    <3>3. {s, t} \in Pairs
      BY <3>2, <1>3, TwoMakeAPair
    <3> QED
      BY <3>3, <1>5 DEF WorkInv, LinksAreListed
  <2>2. /\ IsInjective(k.candidates)
        /\ Range(k.candidates) \subseteq Listed
        /\ \A t \in Range(k.candidates) : ~SameChain(t, Head(k.todo))
        /\ \A r \in Snapshots : RunOf[r] = k.run => r \in Listed \/ r \in Range(k.todo)
    BY <1>1, <1>9 DEF ProcessOK
  <2> QED
    BY <2>1, <2>2, <1>2, <1>6, <1>7, <1>9 DEF ProcessOK, Reading, Linking
<1>14. ASSUME NEW v \in Workers PROVE ProcessOK(worker'[v], Listed', links')
  <2>1. CASE v = w
    BY <2>1, <1>10, <1>11, <1>13
  <2>2. CASE v # w
    <3>1. ProcessOK(worker[v], Listed', links)
      BY <1>6, MoreListings DEF WorkInv
    <3> QED
      BY <2>2, <3>1, <1>10, <1>11
  <2> QED
    BY <2>1, <2>2
<1>15. WorkersAreApart'
  <2>1. ASSUME NEW v \in Workers, v # w, worker[v].pc \in Linking
        PROVE  Head(worker[v].todo) # s /\ s \notin Range(worker[v].candidates)
    <3>1. ProcessOK(worker[v], Listed, links)
      BY DEF WorkInv
    <3> QED
      BY <2>1, <3>1, <1>5 DEF ProcessOK
  <2>2. ASSUME NEW u \in Workers, NEW v \in Workers, u # v
        PROVE  ApartFrom(worker'[u], worker'[v])
    <3>1. CASE u # w /\ v # w
      BY <2>2, <3>1, <1>10 DEF WorkInv, WorkersAreApart
    <3>2. CASE u = w
      BY <2>1, <2>2, <3>2, <1>9, <1>10 DEF ApartFrom
    <3>3. CASE v = w
      BY <2>1, <2>2, <3>3, <1>9, <1>10 DEF ApartFrom
    <3> QED
      BY <3>1, <3>2, <3>3
  <2> QED
    BY <2>2 DEF WorkersAreApart
<1>16. LinksAreListed' /\ DecisionsHaveLinks'
  BY <1>6, <1>11 DEF WorkInv, LinksAreListed, DecisionsHaveLinks
<1>17. PropertiesExist'
  BY <1>2, <1>4, <1>6, <1>9, <1>10, <1>11 DEF WorkInv, PropertiesExist, Canonical
<1>18. CanonicalsAreJustified'
  <2>1. ASSUME NEW v \in Workers, worker'[v].canonical # None
        PROVE  Attached(worker'[v], Listed', listings') \/ Fresh(v)'
    <3>1. v # w /\ worker'[v] = worker[v] /\ worker[v].canonical # None
      BY <2>1, <1>9, <1>10
    <3>2. CASE Attached(worker[v], Listed, listings)
      BY <3>1, <3>2, <1>6 DEF Attached
    <3>3. CASE Fresh(v)
      BY <3>1, <3>3, <1>4, <1>6, <1>9, <1>10 DEF Fresh, Canonical
    <3> QED
      BY <3>1, <3>2, <3>3 DEF WorkInv, CanonicalsAreJustified
  <2> QED
    BY <2>1 DEF CanonicalsAreJustified
<1>19. MergesAreJustified'
  <2>1. Justified(Listed, listings)
    BY DEF WorkInv, MergesAreJustified, Justified, Canonical
  <2>2. \/ \E t \in Listed : t \in Related[s] /\ listings[t].canonical = listings'[s].canonical
        \/ \A t \in Listed : listings[t].canonical # listings'[s].canonical
    BY <1>2, <1>4, <1>6 DEF WorkInv, CanonicalsAreJustified, Attached, Fresh, Canonical
  <2>3. Listed \in SUBSET Snapshots
    BY DEF Listed
  <2>4. Justified(Listed \cup {s}, listings')
    BY <2>1, <2>2, <2>3, <1>3, <1>5, <1>6, JustifiedGrows
  <2> QED
    BY <2>4, <1>6 DEF MergesAreJustified, Justified, Canonical
<1> QED
  BY <1>6, <1>12, <1>14, <1>15, <1>16, <1>17, <1>18, <1>19 DEF WorkInv

(* A link is drawn between a listing and the first of its candidates.      *)
LEMMA InsertLinkKeeps ==
    ASSUME WorkTypeOK, WorkInv, NEW w \in Workers, InsertLink(w)
    PROVE  WorkTypeOK' /\ WorkInv' /\ Listed' = Listed
<1> DEFINE s == Head(worker[w].todo)
           q == worker[w].candidates
           k == [worker[w] EXCEPT !.pc = "after", !.candidates = Tail(q)]
<1>1. /\ worker[w] \in Process /\ worker[w].pc = "link"
      /\ ProcessOK(worker[w], Listed, links)
  BY DEF WorkTypeOK, WorkInv, InsertLink
<1>2. /\ worker[w].todo # <<>> /\ worker[w].todo \in Seq(Snapshots)
      /\ q # <<>> /\ q \in Seq(Snapshots)
      /\ Evaluation[<<s, Head(q)>>] # None
      /\ IsInjective(q) /\ Range(q) \subseteq Listed /\ s \in Listed
      /\ \A t \in Range(q) : ~SameChain(t, s) /\ links[{s, t}] = None
  BY <1>1 DEF ProcessOK, Process, Linking
<1>3. /\ s \in Snapshots /\ Head(q) \in Snapshots
      /\ Tail(q) \in Seq(Snapshots) /\ Range(q) = {Head(q)} \cup Range(Tail(q))
      /\ IsInjective(Tail(q)) /\ Head(q) \notin Range(Tail(q))
  BY <1>2, HeadAndTail
<1>4. PICK row \in LinkRow : row # None /\ links' = [links EXCEPT ![{s, Head(q)}] = row]
  <2>1. Evaluation[<<s, Head(q)>>] \in {"deterministic", "proposal"}
    BY <1>2, <1>3, EvaluationTells
  <2> QED
    BY <2>1, NewLinkIsARow DEF InsertLink, PairOf, Method, Current
<1>5. {s, Head(q)} \in Pairs
  BY <1>2, <1>3, TwoMakeAPair DEF SameChain
<1>6. /\ links' \in [Pairs -> LinkRow \cup {None}]
      /\ links'[{s, Head(q)}] = row
      /\ \A p \in Pairs : p # {s, Head(q)} => links'[p] = links[p]
  BY <1>4, <1>5 DEF WorkTypeOK
<1>7. worker' = [worker EXCEPT ![w] = k]
  BY DEF InsertLink, WorkTypeOK
<1>8. /\ k \in Process /\ k.pc = "after" /\ k.candidates = Tail(q)
      /\ k.todo = worker[w].todo /\ k.run = worker[w].run
      /\ k.canonical = worker[w].canonical /\ k.fields = worker[w].fields
      /\ k.previous = worker[w].previous
  BY <1>1, <1>3 DEF Process
<1>9. /\ worker'[w] = k
      /\ \A v \in Workers \ {w} : worker'[v] = worker[v]
  BY <1>7 DEF WorkTypeOK
<1>10. UNCHANGED <<properties, listings, changes, operator>> /\ Listed' = Listed
  BY DEF InsertLink, Listed
<1>11. WorkTypeOK'
  BY <1>6, <1>7, <1>8, <1>10 DEF WorkTypeOK
<1> HIDE DEF k
<1>12. ProcessOK(k, Listed, links')
  <2>1. ASSUME NEW t \in Range(Tail(q)) PROVE links'[{s, t}] = None
    <3>1. t \in Snapshots /\ s # t /\ t # Head(q) /\ links[{s, t}] = None
      BY <1>2, <1>3, <2>1 DEF Listed, SameChain
    <3>2. {s, t} \in Pairs /\ {s, t} # {s, Head(q)}
      BY <3>1, <1>3, TwoMakeAPair
    <3> QED
      BY <3>1, <3>2, <1>6
  <2> QED
    BY <2>1, <1>1, <1>2, <1>3, <1>8 DEF ProcessOK, Reading, Linking
<1>13. ASSUME NEW v \in Workers, v # w PROVE ProcessOK(worker[v], Listed, links')
  <2>0. ProcessOK(worker[v], Listed, links) /\ worker[v] \in Process
    BY DEF WorkInv, WorkTypeOK
  <2>1. ASSUME worker[v].pc \in Linking, NEW t \in Range(worker[v].candidates)
        PROVE  links'[{Head(worker[v].todo), t}] = None
    <3>1. /\ Head(worker[v].todo) \in Listed /\ t \in Listed
          /\ ~SameChain(t, Head(worker[v].todo))
          /\ links[{Head(worker[v].todo), t}] = None
      BY <2>0, <2>1 DEF ProcessOK
    <3>2. {Head(worker[v].todo), t} \in Pairs
      BY <3>1, TwoMakeAPair DEF Listed, SameChain
    <3>3. {Head(worker[v].todo), t} # {s, Head(q)}
      <4>1. ApartFrom(worker[v], worker[w])
        BY <1>13 DEF WorkInv, WorkersAreApart
      <4>2. Head(worker[v].todo) # s /\ ~(Head(worker[v].todo) \in Range(q) /\ s = t)
        BY <4>1, <2>1, <1>1 DEF ApartFrom, Linking
      <4> QED
        BY <4>2, <1>3
    <3> QED
      BY <3>1, <3>2, <3>3, <1>6
  <2> QED
    BY <2>0, <2>1 DEF ProcessOK
<1>14. ASSUME NEW v \in Workers PROVE ProcessOK(worker'[v], Listed', links')
  BY <1>9, <1>10, <1>12, <1>13
<1>15. WorkersAreApart'
  <2>1. ASSUME NEW u \in Workers, NEW v \in Workers, u # v
        PROVE  ApartFrom(worker'[u], worker'[v])
    <3>0. ApartFrom(worker[u], worker[v]) /\ ApartFrom(worker[v], worker[u])
      BY <2>1 DEF WorkInv, WorkersAreApart
    <3>1. CASE u = w
      BY <3>0, <3>1, <2>1, <1>1, <1>3, <1>8, <1>9 DEF Linking, ApartFrom
    <3>2. CASE v = w
      BY <3>0, <3>2, <2>1, <1>1, <1>3, <1>8, <1>9 DEF Linking, ApartFrom
    <3>3. CASE u # w /\ v # w
      BY <3>0, <3>3, <1>9
    <3> QED
      BY <3>1, <3>2, <3>3
  <2> QED
    BY <2>1 DEF WorkersAreApart
<1>16. LinksAreListed'
  BY <1>2, <1>3, <1>6, <1>10 DEF WorkInv, LinksAreListed
<1>17. DecisionsHaveLinks'
  BY <1>4, <1>6, <1>10 DEF WorkInv, DecisionsHaveLinks
<1>18. PropertiesExist'
  BY <1>8, <1>9, <1>10 DEF WorkInv, PropertiesExist, Canonical
<1>19. CanonicalsAreJustified'
  <2>1. ASSUME NEW v \in Workers
        PROVE  worker'[v].canonical = worker[v].canonical /\ worker'[v].todo = worker[v].todo
    BY <1>8, <1>9
  <2>2. ASSUME NEW v \in Workers, worker'[v].canonical # None
        PROVE  Attached(worker'[v], Listed', listings') \/ Fresh(v)'
    <3>1. CASE Attached(worker[v], Listed, listings)
      BY <3>1, <2>1, <1>10 DEF Attached
    <3>2. CASE Fresh(v)
      BY <3>2, <2>1, <1>10 DEF Fresh, Canonical
    <3> QED
      BY <3>1, <3>2, <2>1, <2>2 DEF WorkInv, CanonicalsAreJustified
  <2> QED
    BY <2>2 DEF CanonicalsAreJustified
<1>20. MergesAreJustified'
  BY <1>10 DEF WorkInv, MergesAreJustified, Canonical
<1> QED
  BY <1>10, <1>11, <1>14, <1>15, <1>16, <1>17, <1>18, <1>19, <1>20 DEF WorkInv

(* A decision writes a link that is there.                                 *)
DecisionStep ==
    /\ UNCHANGED <<properties, listings, changes, worker>>
    /\ links' \in [Pairs -> LinkRow \cup {None}]
    /\ \A p \in Pairs : links'[p] = None <=> links[p] = None
    /\ operator' \in [Operators -> Decision]
    /\ DecisionsHaveLinks'

LEMMA DecisionKeeps ==
    ASSUME WorkTypeOK, WorkInv, DecisionStep
    PROVE  WorkTypeOK' /\ WorkInv' /\ Listed' = Listed
<1>1. Listed' = Listed
  BY DEF DecisionStep, Listed
<1>2. WorkTypeOK'
  BY DEF DecisionStep, WorkTypeOK
<1>3. ASSUME NEW v \in Workers PROVE ProcessOK(worker'[v], Listed', links')
  <2>0. ProcessOK(worker[v], Listed, links)
    BY DEF WorkInv
  <2>1. ASSUME worker[v].pc \in Linking, NEW t \in Range(worker[v].candidates)
        PROVE  links'[{Head(worker[v].todo), t}] = None
    <3>1. /\ Head(worker[v].todo) \in Listed /\ t \in Listed
          /\ ~SameChain(t, Head(worker[v].todo))
          /\ links[{Head(worker[v].todo), t}] = None
      BY <2>0, <2>1 DEF ProcessOK
    <3>2. {Head(worker[v].todo), t} \in Pairs
      BY <3>1, TwoMakeAPair DEF Listed, SameChain
    <3> QED
      BY <3>1, <3>2 DEF DecisionStep
  <2>2. ProcessOK(worker[v], Listed, links')
    BY <2>0, <2>1 DEF ProcessOK
  <2>3. worker' = worker
    BY DEF DecisionStep
  <2> QED
    BY <2>2, <2>3, <1>1
<1>4. WorkersAreApart'
  BY DEF DecisionStep, WorkInv, WorkersAreApart
<1>5. LinksAreListed' /\ DecisionsHaveLinks'
  BY <1>1 DEF DecisionStep, WorkInv, LinksAreListed
<1>6. PropertiesExist'
  BY <1>1 DEF DecisionStep, WorkInv, PropertiesExist, Canonical
<1>7. CanonicalsAreJustified'
  BY <1>1 DEF DecisionStep, WorkInv, CanonicalsAreJustified, Attached, Fresh, Canonical
<1>8. MergesAreJustified'
  BY <1>1 DEF DecisionStep, WorkInv, MergesAreJustified, Canonical
<1> QED
  BY <1>1, <1>2, <1>3, <1>4, <1>5, <1>6, <1>7, <1>8 DEF WorkInv

-----------------------------------------------------------------------------
(* The steps of process()                                                  *)

LEMMA IdleIsAProcess ==
    Idle \in Process /\ Idle.pc = "idle" /\ Idle.canonical = None /\ Idle.fields = {}
BY DEF Idle, Process

LEMMA ResetSteps ==
    ASSUME WorkTypeOK, NEW w \in Workers, worker' = [worker EXCEPT ![w] = Idle],
           UNCHANGED <<properties, listings, changes, links, operator>>
    PROVE  LocalStep(w, Idle)
<1>1. ProcessOK(Idle, Listed, links)
  BY IdleIsAProcess DEF ProcessOK, Reading, Linking
<1> QED
  BY <1>1, IdleIsAProcess DEF LocalStep, WorkTypeOK, Linking

LEMMA BeginSteps ==
    ASSUME WorkTypeOK, NEW w \in Workers, NEW r \in Runs, Begin(w, r)
    PROVE  LocalStep(w, [Idle EXCEPT !.pc = "load", !.run = r])
<1> DEFINE k == [Idle EXCEPT !.pc = "load", !.run = r]
<1>1. k \in Process /\ k.pc = "load" /\ k.canonical = None /\ k.fields = {} /\ k.run = r
  BY IdleIsAProcess DEF Process
<1>2. worker' = [worker EXCEPT ![w] = k]
  BY DEF Begin
<1> HIDE DEF k
<1>3. ProcessOK(k, Listed, links)
  BY <1>1 DEF ProcessOK, Reading, Linking
<1>4. LocalStep(w, k)
  BY <1>1, <1>2, <1>3 DEF LocalStep, WorkTypeOK, Linking, Begin
<1> QED
  BY <1>4 DEF k

LEMMA LoadRunSteps ==
    ASSUME WorkTypeOK, WorkInv, NEW w \in Workers, LoadRun(w)
    PROVE  \E k : LocalStep(w, k)
<1>1. CASE worker' = [worker EXCEPT ![w] = Idle]
  BY <1>1, ResetSteps DEF LoadRun
<1>2. ASSUME NEW q \in ListForRun(worker[w].run),
             worker' = [worker EXCEPT ![w].pc = "snapshot", ![w].todo = q]
      PROVE  \E k : LocalStep(w, k)
  <2> DEFINE k == [worker[w] EXCEPT !.pc = "snapshot", !.todo = q]
  <2>1. /\ worker[w] \in Process /\ worker[w].pc = "load"
        /\ ProcessOK(worker[w], Listed, links)
    BY DEF WorkTypeOK, WorkInv, LoadRun
  <2>2. q \in Seq(Snapshots) /\ Range(q) = {s \in Snapshots : RunOf[s] = worker[w].run}
    BY <1>2, OrderedHasAll DEF ListForRun
  <2>3. /\ k \in Process /\ k.pc = "snapshot" /\ k.todo = q
        /\ k.run = worker[w].run /\ k.canonical = worker[w].canonical
        /\ k.fields = worker[w].fields
    BY <2>1, <2>2 DEF Process
  <2>4. worker' = [worker EXCEPT ![w] = k]
    BY <1>2 DEF WorkTypeOK
  <2> HIDE DEF k
  <2>5. ProcessOK(k, Listed, links) /\ k.canonical = None
    BY <2>1, <2>2, <2>3 DEF ProcessOK, Reading, Linking
  <2> QED
    BY <2>3, <2>4, <2>5 DEF LocalStep, WorkTypeOK, Linking, LoadRun
<1> QED
  BY <1>1, <1>2 DEF LoadRun, Failed, Ended

LEMMA SkipSteps ==
    ASSUME WorkTypeOK, WorkInv, NEW w \in Workers, Skip(w)
    PROVE  \E k : LocalStep(w, k)
<1> DEFINE q == worker[w].todo
           k == [worker[w] EXCEPT !.todo = Tail(q)]
<1>1. /\ worker[w] \in Process /\ worker[w].pc = "snapshot"
      /\ ProcessOK(worker[w], Listed, links)
  BY DEF WorkTypeOK, WorkInv, Skip
<1>2. q \in Seq(Snapshots) /\ q # <<>>
  BY <1>1 DEF Process, Skip, AllDone
<1>3. Head(q) \in Snapshots /\ Tail(q) \in Seq(Snapshots) /\ Range(q) = {Head(q)} \cup Range(Tail(q))
  BY <1>2, HeadAndTail
<1>4. Head(q) \in Listed
  BY <1>3 DEF Skip, Current, Listed
<1>5. /\ k \in Process /\ k.pc = "snapshot" /\ k.todo = Tail(q)
      /\ k.run = worker[w].run /\ k.canonical = worker[w].canonical
      /\ k.fields = worker[w].fields
  BY <1>1, <1>3 DEF Process
<1>6. worker' = [worker EXCEPT ![w] = k]
  BY DEF WorkTypeOK, Skip
<1> HIDE DEF k
<1>7. ProcessOK(k, Listed, links) /\ k.canonical = None
  <2>1. \A s \in Snapshots : RunOf[s] = k.run => s \in Listed \/ s \in Range(k.todo)
    BY <1>1, <1>3, <1>4, <1>5 DEF ProcessOK
  <2> QED
    BY <2>1, <1>1, <1>5 DEF ProcessOK, Reading, Linking
<1> QED
  BY <1>5, <1>6, <1>7 DEF LocalStep, WorkTypeOK, Linking, Skip

LEMMA ReadChainSteps ==
    ASSUME WorkTypeOK, WorkInv, NEW w \in Workers, ReadChain(w)
    PROVE  \E k : LocalStep(w, k)
<1> DEFINE s == Head(worker[w].todo)
<1>1. /\ worker[w] \in Process /\ worker[w].pc = "snapshot"
      /\ ProcessOK(worker[w], Listed, links)
  BY DEF WorkTypeOK, WorkInv, ReadChain
<1>2. worker[w].todo # <<>> /\ s \in Snapshots
  BY <1>1, HeadAndTail DEF Process, ReadChain, AllDone
<1>3. PICK chain \in ListChain(s) :
         LET previous == IF chain = <<>> THEN None ELSE Last(chain) IN
         worker' = [worker EXCEPT
            ![w].pc = "candidates", ![w].previous = previous,
            ![w].canonical = IF previous = None THEN None ELSE Canonical(previous)]
  BY DEF ReadChain, Current
<1> DEFINE previous == IF chain = <<>> THEN None ELSE Last(chain)
           canonical == IF previous = None THEN None ELSE Canonical(previous)
           k == [worker[w] EXCEPT !.pc = "candidates", !.previous = previous,
                                  !.canonical = canonical]
<1>4. chain \in Seq(Snapshots) /\ Range(chain) = {t \in Listed : SameChain(s, t)}
  <2>1. {t \in Listed : SameChain(s, t)} \in SUBSET Snapshots
    BY DEF Listed
  <2> QED
    BY <2>1, OrderedHasAll DEF ListChain
<1>5. previous # None => previous \in Listed /\ SameChain(s, previous)
  <2>1. chain # <<>> => Last(chain) \in Range(chain)
    BY <1>4 DEF Last, Range
  <2> QED
    BY <2>1, <1>4
<1>6. canonical # None =>
         /\ canonical \in Nat \ {0} /\ previous \in Listed
         /\ previous \in Related[s] /\ listings[previous].canonical = canonical
  BY <1>2, <1>5 DEF Canonical, Related, Listed, WorkTypeOK, ListingRow
<1>7. worker' = [worker EXCEPT ![w] = k]
  BY <1>3 DEF WorkTypeOK
<1>8. previous \in Snapshots \cup {None}
  BY <1>5 DEF Listed
<1> HIDE DEF previous, canonical
<1>9. /\ k \in Process /\ k.pc = "candidates" /\ k.todo = worker[w].todo
      /\ k.run = worker[w].run /\ k.canonical = canonical
      /\ k.fields = worker[w].fields
  BY <1>1, <1>6, <1>8 DEF Process
<1> HIDE DEF k
<1>10. ProcessOK(k, Listed, links)
  BY <1>1, <1>2, <1>9 DEF ProcessOK, Reading, Linking
<1>11. k.canonical = None \/ Attached(k, Listed, listings)
  BY <1>6, <1>9 DEF Attached
<1> QED
  BY <1>7, <1>9, <1>10, <1>11 DEF LocalStep, WorkTypeOK, Linking, ReadChain

LEMMA CandidatesAreOffered ==
    ASSUME NEW s \in Snapshots, NEW q \in FindDedupeCandidates(s)
    PROVE  /\ q \in Seq(Snapshots) /\ IsInjective(q) /\ Range(q) \subseteq Listed
           /\ \A t \in Range(q) : ~SameChain(t, s)
<1>1. CASE q = <<>>
  BY <1>1 DEF IsInjective, Range
<1>2. CASE Fields[s].neighborhood # None
  <2> DEFINE S == {t \in Listed : /\ ~SameChain(s, t)
                                  /\ Fields[t].neighborhood = Fields[s].neighborhood}
  <2>1. S \in SUBSET Snapshots
    BY DEF Listed
  <2>2. q \in Seq(Snapshots) /\ IsInjective(q) /\ Range(q) = S
    BY <1>2, <2>1, OrderedHasAll DEF FindDedupeCandidates
  <2> QED
    BY <2>2 DEF SameChain
<1> QED
  BY <1>1, <1>2 DEF FindDedupeCandidates

LEMMA ReadCandidatesSteps ==
    ASSUME WorkTypeOK, WorkInv, NEW w \in Workers, ReadCandidates(w)
    PROVE  \E k : LocalStep(w, k)
<1> DEFINE s == Head(worker[w].todo)
<1>1. /\ worker[w] \in Process /\ worker[w].pc = "candidates"
      /\ ProcessOK(worker[w], Listed, links)
  BY DEF WorkTypeOK, WorkInv, ReadCandidates
<1>2. worker[w].todo # <<>> /\ s \in Snapshots
  BY <1>1, HeadAndTail DEF Process, ProcessOK, Reading
<1>3. PICK q \in FindDedupeCandidates(s) :
         LET matches == DeterministicMatches(s, q)
             canonical == IF worker[w].canonical = None /\ matches # {}
                          THEN Canonical(q[Min(matches)]) ELSE worker[w].canonical
         IN  worker' = [worker EXCEPT
                ![w].pc = IF canonical = None THEN "create" ELSE "insert",
                ![w].candidates = q, ![w].canonical = canonical]
  BY DEF ReadCandidates, Current
<1> DEFINE matches == DeterministicMatches(s, q)
           canonical == IF worker[w].canonical = None /\ matches # {}
                        THEN Canonical(q[Min(matches)]) ELSE worker[w].canonical
           pc == IF canonical = None THEN "create" ELSE "insert"
           k == [worker[w] EXCEPT !.pc = pc, !.candidates = q, !.canonical = canonical]
<1>4. /\ q \in Seq(Snapshots) /\ IsInjective(q) /\ Range(q) \subseteq Listed
      /\ \A t \in Range(q) : ~SameChain(t, s)
  BY <1>2, CandidatesAreOffered
<1>5. matches # {} =>
         /\ Min(matches) \in DOMAIN q
         /\ Evaluation[<<s, q[Min(matches)]>>] = "deterministic"
  <2>1. matches \in SUBSET Nat
    BY <1>4 DEF DeterministicMatches
  <2>2. matches # {} => Min(matches) \in matches
    BY <2>1, MinIsMember
  <2> QED
    BY <2>2 DEF DeterministicMatches
<1>6. matches # {} =>
         /\ q[Min(matches)] \in Listed /\ q[Min(matches)] \in Related[s]
         /\ Canonical(q[Min(matches)]) \in Nat \ {0}
  <2>1. matches # {} => q[Min(matches)] \in Listed
    BY <1>4, <1>5 DEF Range
  <2> QED
    BY <2>1, <1>2, <1>5, EvaluationTells DEF Listed, Canonical, WorkTypeOK, ListingRow
<1>7. /\ canonical \in (Nat \ {0}) \cup {None}
      /\ \/ canonical = worker[w].canonical
         \/ \E t \in Listed : t \in Related[s] /\ listings[t].canonical = canonical
  <2>1. CASE worker[w].canonical = None /\ matches # {}
    BY <2>1, <1>6 DEF Canonical
  <2>2. CASE ~(worker[w].canonical = None /\ matches # {})
    BY <2>2, <1>1 DEF Process
  <2> QED
    BY <2>1, <2>2
<1>8. worker' = [worker EXCEPT ![w] = k]
  BY <1>3 DEF WorkTypeOK
<1>9. pc \in {"create", "insert"} /\ (pc = "insert" <=> canonical # None)
  OBVIOUS
<1> HIDE DEF canonical, pc
<1>10. /\ k \in Process /\ k.pc = pc /\ k.todo = worker[w].todo
       /\ k.run = worker[w].run /\ k.canonical = canonical
       /\ k.candidates = q /\ k.fields = worker[w].fields
  BY <1>1, <1>4, <1>7, <1>9 DEF Process
<1> HIDE DEF k
<1>11. ProcessOK(k, Listed, links)
  <2>1. \A t \in Snapshots : RunOf[t] = k.run => t \in Listed \/ t \in Range(k.todo)
    BY <1>1, <1>10 DEF ProcessOK
  <2>2. k.run \in Runs /\ k.fields = {}
    BY <1>1, <1>10 DEF ProcessOK
  <2> QED
    BY <2>1, <2>2, <1>2, <1>4, <1>9, <1>10 DEF ProcessOK, Reading, Linking
<1>12. \/ k.canonical = worker[w].canonical /\ Head(k.todo) = Head(worker[w].todo)
       \/ Attached(k, Listed, listings)
  BY <1>7, <1>10 DEF Attached
<1> QED
  BY <1>8, <1>9, <1>10, <1>11, <1>12 DEF LocalStep, WorkTypeOK, Linking, ReadCandidates

LEMMA CreatePropertySteps ==
    ASSUME WorkTypeOK, WorkInv, NEW w \in Workers, CreateProperty(w)
    PROVE  \E k : LocalStep(w, k)
<1> DEFINE k == [worker[w] EXCEPT !.pc = "insert", !.canonical = properties + 1]
<1>1. /\ worker[w] \in Process /\ worker[w].pc = "create"
      /\ ProcessOK(worker[w], Listed, links)
  BY DEF WorkTypeOK, WorkInv, CreateProperty
<1>2. properties + 1 \in Nat \ {0}
  BY DEF WorkTypeOK
<1>3. worker' = [worker EXCEPT ![w] = k] /\ properties' = properties + 1
  BY DEF CreateProperty, NewProperty, WorkTypeOK
<1>4. /\ k \in Process /\ k.pc = "insert" /\ k.todo = worker[w].todo
      /\ k.run = worker[w].run /\ k.canonical = properties + 1
      /\ k.candidates = worker[w].candidates /\ k.fields = worker[w].fields
  BY <1>1, <1>2 DEF Process
<1>5. properties + 1 # None
  BY <1>2, SilverAssumption
<1> HIDE DEF k
<1>6. ProcessOK(k, Listed, links)
  BY <1>1, <1>4, <1>5 DEF ProcessOK, Reading, Linking
<1> QED
  BY <1>3, <1>4, <1>6 DEF LocalStep, WorkTypeOK, Linking, CreateProperty

LEMMA EmitChangeSteps ==
    ASSUME WorkTypeOK, WorkInv, NEW w \in Workers, EmitChange(w)
    PROVE  \E k : LocalStep(w, k)
<1> DEFINE i == Min(worker[w].fields)
           k == [worker[w] EXCEPT !.fields = worker[w].fields \ {i}]
<1>1. /\ worker[w] \in Process /\ worker[w].pc = "after"
      /\ ProcessOK(worker[w], Listed, links) /\ worker[w].fields # {}
  BY DEF WorkTypeOK, WorkInv, EmitChange
<1>2. /\ worker[w].fields \in SUBSET (1..Len(ChangeFields))
      /\ worker[w].todo \in Seq(Snapshots) /\ worker[w].todo # <<>>
      /\ worker[w].previous \in Snapshots
  BY <1>1 DEF Process, ProcessOK, Linking
<1>3. i \in 1..Len(ChangeFields)
  <2>1. worker[w].fields \in SUBSET Nat
    BY <1>2
  <2> QED
    BY <1>1, <1>2, <2>1, MinIsMember
<1>4. Head(worker[w].todo) \in Snapshots
  BY <1>2, HeadAndTail
<1>5. /\ worker' = [worker EXCEPT ![w] = k]
      /\ changes' = changes \cup {NewChange(Head(worker[w].todo), worker[w].previous, ChangeFields[i])}
  BY DEF EmitChange, Current, WorkTypeOK
<1> HIDE DEF i
<1>6. NewChange(Head(worker[w].todo), worker[w].previous, ChangeFields[i]) \in ChangeRow
  BY <1>2, <1>3, <1>4 DEF NewChange, ChangeRow
<1>7. changes' \subseteq ChangeRow
  BY <1>5, <1>6 DEF WorkTypeOK
<1>8. /\ k \in Process /\ k.pc = "after" /\ k.todo = worker[w].todo
      /\ k.run = worker[w].run /\ k.canonical = worker[w].canonical
      /\ k.candidates = worker[w].candidates /\ k.previous = worker[w].previous
  BY <1>1, <1>2 DEF Process
<1> HIDE DEF k
<1>9. ProcessOK(k, Listed, links)
  BY <1>1, <1>8 DEF ProcessOK, Reading, Linking
<1> QED
  BY <1>1, <1>5, <1>7, <1>8, <1>9 DEF LocalStep, Linking, EmitChange

LEMMA PassOverSteps ==
    ASSUME WorkTypeOK, WorkInv, NEW w \in Workers, PassOver(w)
    PROVE  \E k : LocalStep(w, k)
<1> DEFINE q == worker[w].candidates
           k == [worker[w] EXCEPT !.candidates = Tail(q)]
<1>1. /\ worker[w] \in Process /\ worker[w].pc = "after" /\ q # <<>>
      /\ ProcessOK(worker[w], Listed, links)
  BY DEF WorkTypeOK, WorkInv, PassOver
<1>2. /\ IsInjective(q) /\ q \in Seq(Snapshots)
  BY <1>1 DEF Process, ProcessOK, Linking
<1>3. /\ Tail(q) \in Seq(Snapshots) /\ Range(q) = {Head(q)} \cup Range(Tail(q))
      /\ IsInjective(Tail(q))
  BY <1>1, <1>2, HeadAndTail
<1>4. worker' = [worker EXCEPT ![w] = k]
  BY DEF PassOver, WorkTypeOK
<1>5. /\ k \in Process /\ k.pc = "after" /\ k.todo = worker[w].todo
      /\ k.run = worker[w].run /\ k.canonical = worker[w].canonical
      /\ k.candidates = Tail(q) /\ k.previous = worker[w].previous
      /\ k.fields = worker[w].fields
  BY <1>1, <1>3 DEF Process
<1> HIDE DEF k
<1>6. ProcessOK(k, Listed, links)
  BY <1>1, <1>3, <1>5 DEF ProcessOK, Reading, Linking
<1> QED
  BY <1>1, <1>3, <1>4, <1>5, <1>6 DEF LocalStep, WorkTypeOK, Linking, PassOver

LEMMA FoundNoPairSteps ==
    ASSUME WorkTypeOK, WorkInv, NEW w \in Workers, FoundNoPair(w)
    PROVE  \E k : LocalStep(w, k)
<1> DEFINE k == [worker[w] EXCEPT !.pc = "link"]
<1>1. /\ worker[w] \in Process /\ worker[w].pc = "after" /\ worker[w].candidates # <<>>
      /\ ProcessOK(worker[w], Listed, links) /\ worker[w].fields = {}
      /\ Evaluation[<<Head(worker[w].todo), Head(worker[w].candidates)>>] # None
  BY DEF WorkTypeOK, WorkInv, FoundNoPair, Method, Current
<1>2. worker' = [worker EXCEPT ![w] = k]
  BY DEF FoundNoPair, To, WorkTypeOK
<1>3. /\ k \in Process /\ k.pc = "link" /\ k.todo = worker[w].todo
      /\ k.run = worker[w].run /\ k.canonical = worker[w].canonical
      /\ k.candidates = worker[w].candidates /\ k.previous = worker[w].previous
      /\ k.fields = worker[w].fields
  BY <1>1 DEF Process
<1> HIDE DEF k
<1>4. ProcessOK(k, Listed, links)
  BY <1>1, <1>3 DEF ProcessOK, Reading, Linking
<1> QED
  BY <1>1, <1>2, <1>3, <1>4 DEF LocalStep, WorkTypeOK, Linking, FoundNoPair

LEMMA NextSnapshotSteps ==
    ASSUME WorkTypeOK, WorkInv, NEW w \in Workers, NextSnapshot(w)
    PROVE  \E k : LocalStep(w, k)
<1> DEFINE q == worker[w].todo
           k == [Idle EXCEPT !.pc = "snapshot", !.run = worker[w].run, !.todo = Tail(q)]
<1>1. /\ worker[w] \in Process /\ worker[w].pc = "after"
      /\ ProcessOK(worker[w], Listed, links)
  BY DEF WorkTypeOK, WorkInv, NextSnapshot
<1>2. q \in Seq(Snapshots) /\ q # <<>> /\ Head(q) \in Listed
  BY <1>1 DEF Process, ProcessOK, Linking
<1>3. Tail(q) \in Seq(Snapshots) /\ Range(q) = {Head(q)} \cup Range(Tail(q))
  BY <1>2, HeadAndTail
<1>4. worker[w].run \in Runs \cup {None} /\ worker' = [worker EXCEPT ![w] = k]
  BY <1>1 DEF NextSnapshot, Process
<1>5. /\ k \in Process /\ k.pc = "snapshot" /\ k.todo = Tail(q)
      /\ k.run = worker[w].run /\ k.canonical = None /\ k.fields = {}
  BY <1>3, <1>4, IdleIsAProcess DEF Process
<1> HIDE DEF k
<1>6. ProcessOK(k, Listed, links)
  <2>1. \A s \in Snapshots : RunOf[s] = k.run => s \in Listed \/ s \in Range(k.todo)
    BY <1>1, <1>2, <1>3, <1>5 DEF ProcessOK
  <2> QED
    BY <2>1, <1>1, <1>5 DEF ProcessOK, Reading, Linking
<1> QED
  BY <1>4, <1>5, <1>6 DEF LocalStep, WorkTypeOK, Linking, NextSnapshot

-----------------------------------------------------------------------------
(* The steps of _decide_link                                               *)

LEMMA DecideLoadSteps ==
    ASSUME WorkTypeOK, WorkInv, NEW o \in Operators, NEW p \in Pairs, DecideLoad(o, p)
    PROVE  DecisionStep
<1> DEFINE d == [pc |-> "save", pair |-> p, version |-> links[p].version]
<1>1. d \in Decision /\ d.pair = p
  BY DEF DecideLoad, WorkTypeOK, LinkRow, Decision
<1>2. operator' = [operator EXCEPT ![o] = d]
  BY DEF DecideLoad
<1> HIDE DEF d
<1>3. DecisionsHaveLinks'
  BY <1>1, <1>2 DEF DecideLoad, DecisionsHaveLinks, WorkInv, WorkTypeOK
<1> QED
  BY <1>1, <1>2, <1>3 DEF DecideLoad, DecisionStep, WorkTypeOK

LEMMA OperatorReset ==
    ASSUME WorkTypeOK, WorkInv, NEW o \in Operators,
           operator' = [operator EXCEPT ![o] = OperatorIdle],
           UNCHANGED <<properties, listings, changes, worker>>,
           links' \in [Pairs -> LinkRow \cup {None}],
           \A p \in Pairs : links'[p] = None <=> links[p] = None
    PROVE  DecisionStep
<1>1. OperatorIdle \in Decision /\ OperatorIdle.pc = "idle"
  BY DEF OperatorIdle, Decision
<1>2. DecisionsHaveLinks'
  BY <1>1 DEF DecisionsHaveLinks, WorkInv, WorkTypeOK
<1> QED
  BY <1>1, <1>2 DEF DecisionStep, WorkTypeOK

LEMMA DecidedIsARow ==
    ASSUME NEW link \in LinkRow, NEW o \in Operators, NEW n \in Nat,
           NEW state \in {"confirmed", "rejected"}
    PROVE  [link EXCEPT !.state = state, !.decided_by = o, !.version = n] \in LinkRow
BY DEF LinkRow

LEMMA DecideSaveSteps ==
    ASSUME WorkTypeOK, WorkInv, NEW o \in Operators, NEW state \in {"confirmed", "rejected"},
           DecideSave(o, state)
    PROVE  DecisionStep
<1> DEFINE p == operator[o].pair
           row == [links[p] EXCEPT !.state = state, !.decided_by = o,
                                   !.version = operator[o].version + 1]
<1>1. p \in Pairs /\ links[p] # None /\ operator[o].version \in Nat
  BY DEF DecideSave, WorkInv, DecisionsHaveLinks, WorkTypeOK, Decision
<1>2. links[p] \in LinkRow
  BY <1>1 DEF WorkTypeOK
<1>3. row \in LinkRow
  <2>1. operator[o].version + 1 \in Nat
    BY <1>1
  <2> QED
    BY <1>2, <2>1, DecidedIsARow
<1>4. links' = [links EXCEPT ![p] = row]
  BY DEF DecideSave
<1>5. row # None
  BY <1>3, RowsAssumption
<1> HIDE DEF row
<1>6. /\ links' \in [Pairs -> LinkRow \cup {None}]
      /\ \A r \in Pairs : links'[r] = None <=> links[r] = None
  BY <1>1, <1>3, <1>4, <1>5 DEF WorkTypeOK
<1> QED
  BY <1>6, OperatorReset DEF DecideSave

LEMMA DecideConflictSteps ==
    ASSUME WorkTypeOK, WorkInv, NEW o \in Operators, DecideConflict(o)
    PROVE  DecisionStep
BY OperatorReset DEF DecideConflict, WorkTypeOK

-----------------------------------------------------------------------------
(* Jobs                                                                    *)

AllListed(r) == \A s \in Snapshots : RunOf[s] = r => s \in Listed

JobStep ==
    /\ Jobs!JobTypeOK'
    /\ \A r \in Runs : phase'[r] = "succeeded" => phase[r] = "succeeded" \/ AllListed(r)

LEMMA QuietJobs ==
    ASSUME Jobs!JobTypeOK, UNCHANGED jobVars
    PROVE  JobStep
BY DEF jobVars, Jobs!JobTypeOK, JobStep

LEMMA ClaimMoves ==
    ASSUME Jobs!JobTypeOK, NEW w \in Workers, NEW r \in Runs, Jobs!Claim(w, r)
    PROVE  JobStep
<1>1. tries[r] + 1 \in 0..MaxAttempts
  BY SilverAssumption DEF Jobs!Claim, Jobs!Job!Start, Jobs!JobTypeOK
<1>2. tries' \in [Runs -> 0..MaxAttempts]
  BY <1>1 DEF Jobs!Claim, Jobs!Job!Start, Jobs!JobTypeOK
<1> QED
  BY <1>2 DEF Jobs!Claim, Jobs!Job!Start, Jobs!JobTypeOK, JobStep

LEMMA FailureMoves ==
    ASSUME Jobs!JobTypeOK, NEW w \in Workers, NEW r \in Runs,
           Jobs!RecordOutcome(w, r, "permanent")
    PROVE  JobStep
<1>1. CASE UNCHANGED jobVars
  BY <1>1, QuietJobs
<1>2. CASE Jobs!EndedAs(r, "failed") /\ holder' = [holder EXCEPT ![r] = None]
  BY <1>2 DEF Jobs!EndedAs, Jobs!Job!Finish, Jobs!JobTypeOK, JobStep
<1> QED
  BY <1>1, <1>2 DEF Jobs!RecordOutcome, Jobs!jobVars, jobVars

LEMMA SuccessMoves ==
    ASSUME Jobs!JobTypeOK, NEW w \in Workers, NEW r \in Runs, AllListed(r),
           Jobs!RecordOutcome(w, r, "succeeded")
    PROVE  JobStep
<1>1. CASE UNCHANGED jobVars
  BY <1>1, QuietJobs
<1>2. CASE Jobs!EndedAs(r, "succeeded") /\ holder' = [holder EXCEPT ![r] = None]
  BY <1>2 DEF Jobs!EndedAs, Jobs!Job!Finish, Jobs!JobTypeOK, JobStep
<1> QED
  BY <1>1, <1>2 DEF Jobs!RecordOutcome, Jobs!jobVars, jobVars

LEMMA LapseMoves ==
    ASSUME Jobs!JobTypeOK, NEW r \in Runs, Jobs!Lapse(r)
    PROVE  JobStep
BY DEF Jobs!Lapse, Jobs!Job!Interrupt, Jobs!JobTypeOK, JobStep

LEMMA CompleteKeeps ==
    ASSUME NormalizedIsComplete, JobStep, Listed \subseteq Listed'
    PROVE  NormalizedIsComplete'
<1>1. \A s \in Snapshots : RunOf[s] \in Runs
  BY SilverAssumption
<1> QED
  BY <1>1 DEF NormalizedIsComplete, JobStep, AllListed

-----------------------------------------------------------------------------
(* Every step                                                              *)

LEMMA InitIInv ==
    ASSUME Init
    PROVE  IInv
<1>1. Jobs!JobTypeOK
  BY SilverAssumption DEF Init, Jobs!AllWaiting, Jobs!JobTypeOK
<1>2. OperatorIdle \in Decision /\ OperatorIdle.pc = "idle"
  BY DEF OperatorIdle, Decision
<1>3. WorkTypeOK
  BY <1>2, IdleIsAProcess DEF Init, WorkTypeOK
<1>4. Listed = {}
  BY DEF Init, Listed
<1>5. NormalizedIsComplete
  BY SilverAssumption DEF Init, Jobs!AllWaiting, NormalizedIsComplete
<1>6. ASSUME NEW w \in Workers PROVE ProcessOK(worker[w], Listed, links)
  <2>1. worker[w] = Idle
    BY DEF Init
  <2> QED
    BY <2>1, IdleIsAProcess DEF ProcessOK, Reading, Linking
<1>7. WorkersAreApart
  BY IdleIsAProcess DEF Init, WorkersAreApart, ApartFrom, Linking
<1>8. LinksAreListed /\ DecisionsHaveLinks
  BY <1>2 DEF Init, LinksAreListed, DecisionsHaveLinks
<1>9. PropertiesExist /\ CanonicalsAreJustified
  BY <1>4, IdleIsAProcess DEF Init, PropertiesExist, CanonicalsAreJustified
<1>10. MergesAreJustified
  BY <1>4 DEF MergesAreJustified
<1> QED
  BY <1>1, <1>3, <1>5, <1>6, <1>7, <1>8, <1>9, <1>10, IInvParts DEF WorkInv

(* What a step does to the jobs and to the rest.                           *)
WorkerPart(w) ==
    /\ JobStep
    /\ (\E k : LocalStep(w, k)) \/ InsertListing(w) \/ InsertLink(w)

LEMMA FailedSteps ==
    ASSUME IInv, NEW w \in Workers, worker[w].pc # "idle", Failed(w),
           UNCHANGED <<properties, listings, changes, links, operator>>
    PROVE  WorkerPart(w)
<1>0. Jobs!JobTypeOK /\ WorkTypeOK /\ WorkInv
  BY IInvParts
<1>1. worker[w].run \in Runs
  BY <1>0 DEF WorkInv, ProcessOK
<1>2. JobStep
  BY <1>0, <1>1, FailureMoves DEF Failed, Ended
<1>3. LocalStep(w, Idle)
  BY <1>0, ResetSteps DEF Failed, Ended
<1> QED
  BY <1>2, <1>3 DEF WorkerPart

LEMMA FinishedSteps ==
    ASSUME IInv, NEW w \in Workers, Finished(w)
    PROVE  WorkerPart(w)
<1>0. Jobs!JobTypeOK /\ WorkTypeOK /\ WorkInv
  BY IInvParts
<1>1. worker[w].run \in Runs /\ AllListed(worker[w].run)
  <2>1. ProcessOK(worker[w], Listed, links) /\ worker[w].pc = "snapshot" /\ worker[w].todo = <<>>
    BY <1>0 DEF WorkInv, Finished, AllDone
  <2>2. Range(worker[w].todo) = {}
    BY <2>1 DEF Range
  <2> QED
    BY <2>1, <2>2 DEF ProcessOK, AllListed
<1>2. JobStep
  BY <1>0, <1>1, SuccessMoves DEF Finished, Ended
<1>3. LocalStep(w, Idle)
  BY <1>0, ResetSteps DEF Finished, Ended
<1> QED
  BY <1>2, <1>3 DEF WorkerPart

LEMMA WorkerParts ==
    ASSUME IInv, NEW w \in Workers, WorkerStep(w)
    PROVE  WorkerPart(w)
<1>0. Jobs!JobTypeOK /\ WorkTypeOK /\ WorkInv
  BY IInvParts
<1>1. ASSUME NEW r \in Runs, Begin(w, r) PROVE WorkerPart(w)
  BY <1>0, <1>1, BeginSteps, ClaimMoves DEF WorkerPart, Begin
<1>2. CASE LoadRun(w)
  <2>1. CASE UNCHANGED jobVars
    BY <1>0, <1>2, <2>1, QuietJobs, LoadRunSteps DEF WorkerPart
  <2>2. CASE Failed(w)
    BY <1>2, <2>2, FailedSteps DEF LoadRun
  <2> QED
    BY <1>2, <2>1, <2>2 DEF LoadRun
<1>3. CASE Skip(w)
  BY <1>0, <1>3, SkipSteps, QuietJobs DEF WorkerPart, Skip
<1>4. CASE ReadChain(w)
  BY <1>0, <1>4, ReadChainSteps, QuietJobs DEF WorkerPart, ReadChain
<1>5. CASE ReadCandidates(w)
  BY <1>0, <1>5, ReadCandidatesSteps, QuietJobs DEF WorkerPart, ReadCandidates
<1>6. CASE CreateProperty(w)
  BY <1>0, <1>6, CreatePropertySteps, QuietJobs DEF WorkerPart, CreateProperty
<1>7. CASE InsertListing(w)
  BY <1>0, <1>7, QuietJobs DEF WorkerPart, InsertListing
<1>8. CASE InsertConflict(w)
  BY <1>8, FailedSteps DEF InsertConflict
<1>9. CASE EmitChange(w)
  BY <1>0, <1>9, EmitChangeSteps, QuietJobs DEF WorkerPart, EmitChange
<1>10. CASE PassOver(w)
  BY <1>0, <1>10, PassOverSteps, QuietJobs DEF WorkerPart, PassOver
<1>11. CASE FoundNoPair(w)
  BY <1>0, <1>11, FoundNoPairSteps, QuietJobs DEF WorkerPart, FoundNoPair
<1>12. CASE InsertLink(w)
  BY <1>0, <1>12, QuietJobs DEF WorkerPart, InsertLink
<1>13. CASE NextSnapshot(w)
  BY <1>0, <1>13, NextSnapshotSteps, QuietJobs DEF WorkerPart, NextSnapshot
<1>14. CASE Finished(w)
  BY <1>14, FinishedSteps
<1>15. CASE HandlerError(w)
  BY <1>15, FailedSteps DEF HandlerError
<1>16. CASE WorkerCrash(w)
  BY <1>0, <1>16, ResetSteps, QuietJobs DEF WorkerPart, WorkerCrash
<1> QED
  BY <1>1, <1>2, <1>3, <1>4, <1>5, <1>6, <1>7, <1>8, <1>9, <1>10, <1>11, <1>12,
     <1>13, <1>14, <1>15, <1>16 DEF WorkerStep

LEMMA OperatorParts ==
    ASSUME IInv, NEW o \in Operators, OperatorStep(o)
    PROVE  JobStep /\ DecisionStep
<1>0. Jobs!JobTypeOK /\ WorkTypeOK /\ WorkInv
  BY IInvParts
<1>1. ASSUME NEW p \in Pairs, DecideLoad(o, p) PROVE JobStep /\ DecisionStep
  BY <1>0, <1>1, QuietJobs, DecideLoadSteps DEF DecideLoad
<1>2. ASSUME NEW state \in {"confirmed", "rejected"}, DecideSave(o, state)
      PROVE  JobStep /\ DecisionStep
  BY <1>0, <1>2, QuietJobs, DecideSaveSteps DEF DecideSave
<1>3. CASE DecideConflict(o)
  BY <1>0, <1>3, QuietJobs, DecideConflictSteps DEF DecideConflict
<1> QED
  BY <1>1, <1>2, <1>3 DEF OperatorStep

LEMMA IInvStep ==
    ASSUME IInv, [Next]_vars
    PROVE  IInv'
<1>0. Jobs!JobTypeOK /\ WorkTypeOK /\ NormalizedIsComplete /\ WorkInv
  BY IInvParts
<1>1. ASSUME NEW w \in Workers, WorkerPart(w) PROVE IInv'
  <2>1. WorkTypeOK' /\ WorkInv' /\ Listed \subseteq Listed'
    BY <1>0, <1>1, LocalKeeps, InsertKeeps, InsertLinkKeeps DEF WorkerPart
  <2>2. JobStep
    BY <1>1 DEF WorkerPart
  <2>3. NormalizedIsComplete' /\ Jobs!JobTypeOK'
    BY <1>0, <2>1, <2>2, CompleteKeeps DEF JobStep
  <2> QED
    BY <2>1, <2>3 DEF IInv, TypeOK, WorkTypeOK
<1>2. ASSUME JobStep, DecisionStep PROVE IInv'
  <2>1. WorkTypeOK' /\ WorkInv' /\ Listed \subseteq Listed'
    BY <1>0, <1>2, DecisionKeeps
  <2>2. NormalizedIsComplete' /\ Jobs!JobTypeOK'
    BY <1>0, <1>2, <2>1, CompleteKeeps DEF JobStep
  <2> QED
    BY <2>1, <2>2 DEF IInv, TypeOK, WorkTypeOK
<1>3. ASSUME UNCHANGED <<properties, listings, changes, links, worker, operator>>
      PROVE  DecisionStep
  BY <1>0, <1>3 DEF DecisionStep, WorkTypeOK, WorkInv, DecisionsHaveLinks
<1>4. ASSUME NEW r \in Runs, LeaseEnds(r) PROVE IInv'
  BY <1>0, <1>2, <1>3, <1>4, LapseMoves DEF LeaseEnds
<1>5. CASE UNCHANGED vars
  BY <1>0, <1>2, <1>3, <1>5, QuietJobs DEF vars, jobVars
<1> QED
  BY <1>1, <1>2, <1>4, <1>5, WorkerParts, OperatorParts DEF Next

LEMMA IInvInvariant == Spec => []IInv
BY InitIInv, IInvStep, PTL DEF Spec

-----------------------------------------------------------------------------
(* Theorems                                                                *)

(* Every row and every step of process() and of _decide_link keeps its     *)
(* shape.                                                                  *)
THEOREM SilverTypes == Spec => []TypeOK
<1>1. IInv => TypeOK
  BY DEF IInv
<1> QED
  BY <1>1, IInvInvariant, PTL

(* NormalizeRunService.process reports success only when every snapshot of *)
(* its run has its listing, whichever attempts inserted them.              *)
THEOREM NormalizedIsCompleteInvariant == Spec => []NormalizedIsComplete
<1>1. IInv => NormalizedIsComplete
  BY DEF IInv
<1> QED
  BY <1>1, IInvInvariant, PTL

(* Listings share a canonical property only along same-chain and           *)
(* same-fingerprint listings, in whatever order process() inserts them.    *)
THEOREM MergesAreJustifiedInvariant == Spec => []MergesAreJustified
<1>1. IInv => MergesAreJustified
  BY DEF IInv, WorkInv
<1> QED
  BY <1>1, IInvInvariant, PTL

(* The insert of a link never meets uq_dedupe_links_pair, although         *)
(* find_pair looked in an earlier transaction.                             *)
THEOREM LinksNeverCollideInvariant == Spec => []LinksNeverCollide
<1>1. ASSUME IInv PROVE LinksNeverCollide
  <2>1. ASSUME NEW w \in Workers, worker[w].pc = "link" PROVE links[PairOf(w)] = None
    <3>1. worker[w] \in Process /\ ProcessOK(worker[w], Listed, links)
      BY <1>1, IInvParts DEF WorkTypeOK, WorkInv
    <3>2. /\ worker[w].candidates \in Seq(Snapshots) /\ worker[w].candidates # <<>>
          /\ \A t \in Range(worker[w].candidates) : links[{Head(worker[w].todo), t}] = None
      BY <2>1, <3>1 DEF Process, ProcessOK, Linking
    <3>3. Head(worker[w].candidates) \in Range(worker[w].candidates)
      BY <3>2, HeadAndTail
    <3> QED
      BY <3>2, <3>3 DEF PairOf, Current
  <2> QED
    BY <2>1 DEF LinksNeverCollide
<1> QED
  BY <1>1, IInvInvariant, PTL

=============================================================================
