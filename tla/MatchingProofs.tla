--------------------------- MODULE MatchingProofs ---------------------------
(***************************************************************************)
(* Proofs about Matching: that the datasets a command names are closed     *)
(* under the manifest's needs and nothing more, and that one dataset with  *)
(* any of the three that decide whether links are sent tells how an object *)
(* is recognised under every selection.                                    *)
(***************************************************************************)
EXTENDS Matching, FiniteSetTheorems, WellFoundedInduction, TLAPS

-----------------------------------------------------------------------------
(* The least number                                                        *)

(* A set of numbers that is not empty has a least one.                     *)
LEMMA LeastNumber ==
  ASSUME NEW S \in SUBSET Nat, S # {}
  PROVE  \E n \in S : \A m \in S : n <= m
  <1> DEFINE R == OpToRel(<, Nat)
  <1>1. \E n \in S : \A m \in S : ~(<<m, n>> \in R)
    <2>1. IsWellFoundedOn(R, Nat)
      BY NatLessThanWellFounded
    <2> HIDE DEF R
    <2> QED
      BY <2>1, WFMin
  <1>2. PICK n \in S : \A m \in S : ~(<<m, n>> \in R)
    BY <1>1
  <1>3. ASSUME NEW m \in S PROVE n <= m
    <2>1. m \in Nat /\ n \in Nat /\ <<m, n>> \in Nat \X Nat
      OBVIOUS
    <2>2. ~(m < n)
      BY <1>2, <2>1 DEF OpToRel
    <2> QED
      BY <2>1, <2>2
  <1> QED
    BY <1>3

-----------------------------------------------------------------------------
(* The closure of a request                                                *)

Closed(S) == \A row \in Needs : row[1] \in S => row[2] \subseteq S

(* The step of the closure keeps what is there, stays within every closed  *)
(* set, and stops at a closed one.                                         *)
LEMMA NeedsStep ==
  ASSUME NEW S, NEW T, S \subseteq T, Closed(T)
  PROVE  S \subseteq WithNeeds(S) /\ WithNeeds(S) \subseteq T /\ (WithNeeds(S) = S <=> Closed(S))
  BY DEF WithNeeds, Closed

(* The datasets are finitely many.                                         *)
LEMMA DatasetsAreFinite == IsFiniteSet(Datasets)
  <1> DEFINE list == <<
    "references", "tenancy_contacts", "tenancy_contact_assignments", "virtualization_clusters",
    "virtualization_machines", "virtualization_components", "vpn_crypto", "vpn_tunnels", "vpn_l2vpns",
    "wireless_networks", "ipam_registries", "ipam_routing", "ipam_vlans", "ipam_prefixes",
    "ipam_addresses", "ipam_services", "users", "data_sources", "extras_customization", "extras_templates",
    "extras_views", "extras_automation", "extras_contexts", "regions", "sites", "locations",
    "device_catalog", "racks", "module_catalog", "component_templates", "devices", "device_components",
    "rack_reservations", "power", "circuit_catalog", "circuits", "virtual_circuits",
    "circuit_group_assignments", "cabling">>
             at == [i \in 1..39 |-> list[i]]
  <1>1. at \in [1..39 -> Datasets] /\ \A d \in Datasets : \E i \in 1..39 : at[i] = d
    BY DEF Datasets, KindsOf
  <1> HIDE DEF at
  <1>2. at \in Surjection(1..39, Datasets)
    BY <1>1 DEF Surjection
  <1>3. IsFiniteSet(1..39)
    <2>1. 1 \in Int /\ 39 \in Int
      OBVIOUS
    <2> QED
      BY <2>1, FS_Interval, Zenon
  <1> QED
    BY <1>2, <1>3, FS_Surjection

(* Whatever a dataset needs is a dataset.                                  *)
LEMMA NeedsAreDatasets == Closed(Datasets)
  BY DEF Closed, Needs, Datasets, KindsOf

(* The closure, one round of needs at a time.                              *)
IsGrowth(grown, named) ==
  grown = [n \in 0..Cardinality(Datasets) |-> IF n = 0 THEN named ELSE WithNeeds(grown[n - 1])]

(* It can be carried on as long as it takes.                               *)
LEMMA GrowthExists ==
  ASSUME NEW named
  PROVE  \E grown : IsGrowth(grown, named)
  <1> DEFINE Rounds(g, m) == g = [n \in 0..m |-> IF n = 0 THEN named ELSE WithNeeds(g[n - 1])]
             S == {m \in Nat : ~\E g : Rounds(g, m)}
  <1>1. ASSUME S # {} PROVE FALSE
    <2>1. PICK m \in S : \A k \in S : m <= k
      <3> HIDE DEF S
      <3>1. S \in SUBSET Nat
        BY DEF S
      <3> QED
        BY <1>1, <3>1, LeastNumber
    <2>2. CASE m = 0
      <3>1. Rounds([n \in 0..0 |-> named], 0)
        OBVIOUS
      <3> QED
        BY <2>1, <2>2, <3>1
    <2>3. CASE m # 0
      <3>1. m - 1 \in Nat /\ m - 1 \notin S /\ m \in Nat
        BY <2>1, <2>3
      <3>2. PICK g : Rounds(g, m - 1)
        BY <3>1
      <3> DEFINE h == [n \in 0..m |-> IF n = m THEN WithNeeds(g[m - 1]) ELSE g[n]]
      <3>3. ASSUME NEW n \in 0..m
            PROVE  h[n] = IF n = 0 THEN named ELSE WithNeeds(h[n - 1])
        <4>1. CASE n = m
          BY <2>3, <3>1, <4>1
        <4>2. CASE n # m
          <5>1. n \in 0..(m - 1) /\ h[n] = g[n]
            BY <3>1, <4>2
          <5>2. g[n] = IF n = 0 THEN named ELSE WithNeeds(g[n - 1])
            BY <3>2, <5>1
          <5>3. n # 0 => n - 1 \in 0..m /\ n - 1 # m /\ h[n - 1] = g[n - 1]
            BY <3>1, <5>1
          <5> QED
            BY <5>1, <5>2, <5>3
        <4> QED
          BY <4>1, <4>2
      <3>4. Rounds(h, m)
        <4> DEFINE f == [n \in 0..m |-> IF n = 0 THEN named ELSE WithNeeds(h[n - 1])]
        <4>1. \A n \in 0..m : h[n] = f[n]
          BY <3>3
        <4> QED
          BY <4>1
      <3> QED
        BY <2>1, <3>4
    <2> QED
      BY <2>2, <2>3
  <1>2. Cardinality(Datasets) \in Nat
    BY DatasetsAreFinite, FS_CardinalityType
  <1>3. \E g : Rounds(g, Cardinality(Datasets))
    BY <1>1, <1>2
  <1> QED
    BY <1>3 DEF IsGrowth

(* ResolveDatasets is the last round.                                      *)
LEMMA Growth ==
  ASSUME NEW named
  PROVE  \E grown : /\ ResolveDatasets(named) = grown[Cardinality(Datasets)]
                     /\ grown[0] = named
                     /\ \A n \in 1..Cardinality(Datasets) : grown[n] = WithNeeds(grown[n - 1])
  <1> DEFINE last == Cardinality(Datasets)
             grown == CHOOSE g : IsGrowth(g, named)
  <1>1. IsGrowth(grown, named)
    BY GrowthExists
  <1>2. ResolveDatasets(named) = grown[last]
    BY DEF ResolveDatasets, IsGrowth
  <1>3. last \in Nat
    BY DatasetsAreFinite, FS_CardinalityType
  <1> HIDE DEF grown, last
  <1>4. grown = [n \in 0..last |-> IF n = 0 THEN named ELSE WithNeeds(grown[n - 1])]
    BY <1>1 DEF IsGrowth, last
  <1>5. grown[0] = named /\ \A n \in 1..last : grown[n] = WithNeeds(grown[n - 1])
    BY <1>3, <1>4
  <1> QED
    BY <1>2, <1>5 DEF last

(* Every round is closed or has a dataset more than the one before: after  *)
(* as many rounds as there are datasets the selection is closed.  It is    *)
(* the least closed one with what was named (ResolveDatasets).             *)
THEOREM ClosureIsLeast ==
  ASSUME NEW named \in SUBSET Datasets
  PROVE  /\ named \subseteq ResolveDatasets(named)
         /\ ResolveDatasets(named) \subseteq Datasets
         /\ Closed(ResolveDatasets(named))
         /\ \A T \in SUBSET Datasets :
              named \subseteq T /\ Closed(T) => ResolveDatasets(named) \subseteq T
  <1> DEFINE last == Cardinality(Datasets)
  <1>1. PICK grown : /\ ResolveDatasets(named) = grown[last]
                     /\ grown[0] = named
                     /\ \A n \in 1..last : grown[n] = WithNeeds(grown[n - 1])
    BY Growth
  <1>2. last \in Nat
    BY DatasetsAreFinite, FS_CardinalityType
  <1> HIDE DEF last
  <1>3. ASSUME NEW T \in SUBSET Datasets, named \subseteq T, Closed(T)
        PROVE  \A n \in 0..last : named \subseteq grown[n] /\ grown[n] \subseteq T
    <2> DEFINE S == {n \in 0..last : ~(named \subseteq grown[n] /\ grown[n] \subseteq T)}
    <2>1. ASSUME S # {} PROVE FALSE
      <3>1. S \in SUBSET Nat
        BY <1>2
      <3>2. PICK n \in S : \A k \in S : n <= k
        <4> HIDE DEF S
        <4> QED
          BY <2>1, <3>1, LeastNumber
      <3>3. n # 0
        BY <1>1, <1>3, <3>2
      <3>4. n \in 1..last /\ n - 1 \in 0..last /\ n - 1 \notin S
        BY <1>2, <3>2, <3>3
      <3>5. named \subseteq grown[n - 1] /\ grown[n - 1] \subseteq T
        BY <3>4
      <3>6. grown[n] = WithNeeds(grown[n - 1])
        BY <1>1, <3>4
      <3>7. grown[n - 1] \subseteq grown[n] /\ grown[n] \subseteq T
        BY <1>3, <3>5, <3>6, NeedsStep
      <3> QED
        BY <3>2, <3>5, <3>7
    <2> QED
      BY <2>1
  <1>4. \A n \in 0..last : named \subseteq grown[n] /\ grown[n] \subseteq Datasets
    BY <1>3, NeedsAreDatasets
  <1>5. \A n \in 0..last : IsFiniteSet(grown[n]) /\ Cardinality(grown[n]) \in Nat
    BY <1>4, DatasetsAreFinite, FS_Subset, FS_CardinalityType
  <1>6. \A n \in 0..last : Closed(grown[n]) \/ Cardinality(grown[n]) >= n
    <2> DEFINE S == {n \in 0..last : ~(Closed(grown[n]) \/ Cardinality(grown[n]) >= n)}
    <2>1. ASSUME S # {} PROVE FALSE
      <3>1. S \in SUBSET Nat
        BY <1>2
      <3>2. PICK n \in S : \A k \in S : n <= k
        <4> HIDE DEF S
        <4> QED
          BY <2>1, <3>1, LeastNumber
      <3>3. n \in 0..last /\ ~Closed(grown[n]) /\ ~(Cardinality(grown[n]) >= n)
        BY <3>2
      <3>4. n # 0
        BY <1>2, <1>5, <3>3
      <3>5. n \in 1..last /\ n - 1 \in 0..last /\ n - 1 \notin S
        BY <1>2, <3>2, <3>4
      <3>6. grown[n] = WithNeeds(grown[n - 1]) /\ grown[n - 1] \subseteq Datasets
        BY <1>1, <1>4, <3>5
      <3>7. grown[n - 1] \subseteq grown[n] /\ (grown[n] = grown[n - 1] <=> Closed(grown[n - 1]))
        BY <3>6, NeedsStep, NeedsAreDatasets
      <3>8. ~Closed(grown[n - 1]) /\ grown[n] # grown[n - 1]
        BY <3>3, <3>7
      <3>9. Cardinality(grown[n - 1]) >= n - 1
        BY <3>5, <3>8
      <3>10. Cardinality(grown[n - 1]) # Cardinality(grown[n])
             /\ Cardinality(grown[n - 1]) <= Cardinality(grown[n])
        BY <1>5, <3>5, <3>7, <3>8, FS_Subset
      <3>11. Cardinality(grown[n]) \in Nat /\ Cardinality(grown[n - 1]) \in Nat /\ n \in Nat
        BY <1>2, <1>5, <3>5
      <3> QED
        BY <3>3, <3>9, <3>10, <3>11
    <2> QED
      BY <2>1
  <1>7. Closed(grown[last])
    <2>1. last \in 0..last
      BY <1>2
    <2>2. CASE Cardinality(grown[last]) >= last
      <3>1. Cardinality(grown[last]) <= last /\ (Cardinality(grown[last]) = last => grown[last] = Datasets)
        BY <1>4, <2>1, DatasetsAreFinite, FS_Subset DEF last
      <3>2. Cardinality(grown[last]) = last
        BY <1>2, <1>5, <2>1, <2>2, <3>1
      <3> QED
        BY <3>1, <3>2, NeedsAreDatasets
    <2> QED
      BY <1>6, <2>1, <2>2
  <1>8. last \in 0..last
    BY <1>2
  <1> QED
    BY <1>1, <1>3, <1>4, <1>7, <1>8

-----------------------------------------------------------------------------
(* What a selection decides                                                *)

(* Selections that agree on the three datasets make the same records.      *)
LEMMA SameRecords ==
  ASSUME NEW k, NEW o, NEW S, NEW T, S \cap Selectors = T \cap Selectors
  PROVE  SourceRecord(k, o, S) = SourceRecord(k, o, T) /\ LocalRecord(k, o, S) = LocalRecord(k, o, T)
  <1>1. \A d \in Selectors : d \in S <=> d \in T
    OBVIOUS
  <1>2. ASSUME NEW name
        PROVE  /\ Projected(k, name, S) <=> Projected(k, name, T)
               /\ Includes(k, name, S) <=> Includes(k, name, T)
               /\ "wireless_networks" \in S <=> "wireless_networks" \in T
    BY <1>1 DEF Selectors, Projected, Includes
  <1>3. Sent(k, o, S) = Sent(k, o, T)
    BY <1>2 DEF Sent, Collected
  <1>4. Relationships(k, o, S) = Relationships(k, o, T)
    BY <1>2 DEF Relationships
  <1> QED
    BY <1>3, <1>4 DEF SourceRecord, LocalRecord

(* A selection collects a kind through a small one within it.              *)
LEMMA SmallWithin ==
  ASSUME NEW S \in SUBSET Datasets, Closed(S), NEW k \in KindsIn(S)
  PROVE  \E named \in SmallRequests :
           /\ k \in KindsIn(ResolveDatasets(named))
           /\ ResolveDatasets(named) \subseteq S
           /\ ResolveDatasets(named) \cap Selectors = S \cap Selectors
  <1>1. PICK d \in S : k \in KindsOf[d]
    BY DEF KindsIn
  <1> DEFINE named == {d} \cup (S \cap Selectors)
  <1>2. named \in SmallRequests
    <2>1. d \in Datasets /\ S \cap Selectors \in SUBSET Selectors
      OBVIOUS
    <2>2. \E e \in Datasets, D \in SUBSET Selectors : named = {e} \cup D
      BY <2>1
    <2> HIDE DEF named
    <2> QED
      BY <2>2 DEF SmallRequests
  <1>3. named \in SUBSET Datasets /\ named \subseteq S /\ d \in named /\ S \cap Selectors \subseteq named
    OBVIOUS
  <1> HIDE DEF named
  <1>4. named \subseteq ResolveDatasets(named) /\ ResolveDatasets(named) \subseteq S
    BY <1>3, ClosureIsLeast
  <1>5. k \in KindsIn(ResolveDatasets(named))
    BY <1>1, <1>3, <1>4 DEF KindsIn
  <1> QED
    BY <1>2, <1>3, <1>4, <1>5

(* So what holds of the small selections holds of all.                     *)
LEMMA RecognisedUnderAll ==
  ASSUME RecognisedWhenSmall, NEW S \in SUBSET Datasets, Closed(S),
         NEW k \in Kinds \cap KindsIn(S), NEW o \in ObjectTable[k]
  PROVE  Recognised(k, o, S)
  <1>1. PICK named \in SmallRequests :
           /\ k \in KindsIn(ResolveDatasets(named))
           /\ ResolveDatasets(named) \subseteq S
           /\ ResolveDatasets(named) \cap Selectors = S \cap Selectors
    BY SmallWithin
  <1> DEFINE T == ResolveDatasets(named)
  <1>2. Recognised(k, o, T)
    BY <1>1 DEF RecognisedWhenSmall
  <1>3. SourceRecord(k, o, S) = SourceRecord(k, o, T) /\ LocalRecord(k, o, S) = LocalRecord(k, o, T)
    BY <1>1, SameRecords
  <1>4. KindsIn(T) \subseteq KindsIn(S)
    BY <1>1 DEF KindsIn
  <1> HIDE DEF T
  <1>5. Resolves(k, SourceRecord(k, o, T), T) => Resolves(k, SourceRecord(k, o, S), S)
    BY <1>3, <1>4 DEF Resolves
  <1> QED
    BY <1>2, <1>3, <1>5 DEF Recognised

-----------------------------------------------------------------------------
(* The invariant                                                           *)

(* What was collected and compared are the records of one object.          *)
RecordInv ==
  /\ selected \subseteq Datasets /\ Closed(selected)
  /\ \/ object = NoObject /\ source = NoRecord("pending") /\ local = NoRecord("pending")
     \/ \E k \in Kinds \cap KindsIn(selected) : \E o \in ObjectTable[k] :
          /\ object = [kind |-> k, attrs |-> o.attrs, links |-> o.links]
          /\ source = SourceRecord(k, o, selected)
          /\ \/ local = NoRecord("pending")
             \/ local = LocalRecord(k, o, selected) /\ reference = Reference(k, o)

(* A record depends on the names and links of an object only.              *)
LEMMA SameObject ==
  ASSUME NEW k, NEW o, NEW p, o.attrs = p.attrs, o.links = p.links, NEW S
  PROVE  LocalRecord(k, o, S) = LocalRecord(k, p, S) /\ Reference(k, o) = Reference(k, p)
  <1>1. Relationships(k, o, S) = Relationships(k, p, S) /\ Attributes(k, o) = Attributes(k, p)
        /\ (InQueryset(k, o) <=> InQueryset(k, p))
    BY DEF Relationships, Attributes, InQueryset
  <1> QED
    BY <1>1 DEF LocalRecord, Reference

(* No object is of no kind.                                                *)
LEMMA SomeKind == \A k \in AllKinds : k # "none"
  <1>1. ASSUME NEW d \in Datasets PROVE "none" \notin KindsOf[d]
    BY DEF Datasets, KindsOf, SlotTemplates, PortTemplates, Ports
  <1> QED
    BY <1>1 DEF AllKinds

(* The invariant holds at first and is kept by the two steps.              *)
LEMMA RecordsKept ==
  /\ Init => RecordInv
  /\ RecordInv /\ [Next]_vars => RecordInv'
  <1>1. Init => RecordInv
    BY ClosureIsLeast, RequestsAssumption DEF Init, Selections, RecordInv
  <1>2. ASSUME RecordInv, NEW k \in Kinds, Collect(k) PROVE RecordInv'
    <2>1. selected' = selected /\ local' = NoRecord("pending") /\ k \in Kinds \cap KindsIn(selected)
      <3>1. object = NoObject /\ selected' = selected /\ UNCHANGED local /\ k \in KindsIn(selected)
        BY <1>2 DEF Collect
      <3>2. ASSUME NEW j \in Kinds, NEW attrs, NEW links
            PROVE  [kind |-> j, attrs |-> attrs, links |-> links] # NoObject
        BY SomeKind, KindsAssumption DEF NoObject
      <3> QED
        BY <1>2, <3>1, <3>2 DEF RecordInv
    <2>2. PICK o \in ObjectTable[k] : /\ object' = [kind |-> k, attrs |-> o.attrs, links |-> o.links]
                                      /\ source' = SourceRecord(k, o, selected)
      BY <1>2 DEF Collect
    <2> QED
      BY <1>2, <2>1, <2>2 DEF RecordInv
  <1>3. ASSUME RecordInv, Compare PROVE RecordInv'
    <2>1. PICK k \in Kinds \cap KindsIn(selected) : \E o \in ObjectTable[k] :
            /\ object = [kind |-> k, attrs |-> o.attrs, links |-> o.links]
            /\ source = SourceRecord(k, o, selected)
      BY <1>3 DEF RecordInv, Compare
    <2>2. PICK o \in ObjectTable[k] : /\ object = [kind |-> k, attrs |-> o.attrs, links |-> o.links]
                                      /\ source = SourceRecord(k, o, selected)
      BY <2>1
    <2>3. local' = LocalRecord(k, object, selected) /\ reference' = Reference(k, object)
          /\ UNCHANGED <<selected, object, source>>
      BY <1>3, <2>2 DEF Compare
    <2>4. object.attrs = o.attrs /\ object.links = o.links
      BY <2>2
    <2>5. local' = LocalRecord(k, o, selected) /\ reference' = Reference(k, o)
      BY <2>3, <2>4, SameObject
    <2> QED
      BY <1>3, <2>2, <2>3, <2>5 DEF RecordInv
  <1>4. RecordInv /\ UNCHANGED vars => RecordInv'
    BY DEF RecordInv, vars
  <1> QED
    BY <1>1, <1>2, <1>3, <1>4 DEF Next

-----------------------------------------------------------------------------
(* Theorems                                                                *)

(* RecordInv of every reachable state: a selection is closed under needs,  *)
(* and the records are of one object of a kind it collects.                *)
LEMMA Invariance == Spec => []RecordInv
  BY RecordsKept, PTL DEF Spec

(* The statuses and payloads of records are of their types, whatever       *)
(* datasets are requested (_load_source_records, _records).                *)
THEOREM TypeCorrect == Spec => []TypeOK
  <1>1. ASSUME NEW k, NEW o, NEW S
        PROVE  /\ SourceRecord(k, o, S).status \in {"record", "skipped"}
               /\ SourceRecord(k, o, S).status # "record" => SourceRecord(k, o, S) = NoRecord("skipped")
    BY DEF SourceRecord, NoRecord
  <1>2. ASSUME NEW k, NEW o, NEW S
        PROVE  LET l == LocalRecord(k, o, S) IN
               /\ l.status \in {"record", "left out", "crashed"}
               /\ l.status # "record" => l = NoRecord(l.status)
    BY DEF LocalRecord, NoRecord
  <1>3. \A why : NoRecord(why).status = why /\ NoRecord(why).identity = NoIdentity /\ NoRecord(why).links = {}
    BY DEF NoRecord
  <1>4. ASSUME RecordInv PROVE TypeOK
    <2>1. CASE object = NoObject /\ source = NoRecord("pending") /\ local = NoRecord("pending")
      BY <1>3, <1>4, <2>1 DEF RecordInv, TypeOK
    <2>2. ASSUME NEW k \in Kinds \cap KindsIn(selected), NEW o \in ObjectTable[k],
                 object = [kind |-> k, attrs |-> o.attrs, links |-> o.links],
                 source = SourceRecord(k, o, selected),
                 local = NoRecord("pending") \/ local = LocalRecord(k, o, selected)
          PROVE  TypeOK
      <3>1. source.status \in {"pending", "record", "skipped"}
            /\ (source.status # "record" => source.identity = NoIdentity /\ source.links = {})
        BY <1>1, <1>3, <2>2
      <3>2. local.status \in {"pending", "record", "left out", "crashed"}
            /\ (local.status # "record" => local.identity = NoIdentity /\ local.links = {})
        <4>1. CASE local = NoRecord("pending")
          BY <1>3, <4>1
        <4>2. CASE local = LocalRecord(k, o, selected)
          <5>1. local.status \in {"record", "left out", "crashed"}
            BY <1>2, <4>2
          <5>2. local.status # "record" => local = NoRecord(local.status)
            BY <1>2, <4>2
          <5> QED
            BY <1>3, <5>1, <5>2
        <4> QED
          BY <2>2, <4>1, <4>2
      <3>3. selected \subseteq Datasets /\ object.kind \in Kinds
        BY <1>4, <2>2 DEF RecordInv
      <3> QED
        BY <3>1, <3>2, <3>3 DEF TypeOK
    <2> QED
      BY <1>4, <2>1, <2>2 DEF RecordInv
  <1> QED
    BY <1>4, Invariance, PTL

(* Every object is recognised, whatever is compared.                       *)
LEMMA Throughout ==
  ASSUME RecognisedWhenSmall, RecordInv
  PROVE  MatchesItself /\ ReferenceAgrees /\ UnchangedShowsNoChange /\ EveryLinkResolves /\ DependenciesAreLayered
  <1> DEFINE Goal == MatchesItself /\ ReferenceAgrees /\ UnchangedShowsNoChange
                     /\ EveryLinkResolves /\ DependenciesAreLayered
  <1>1. \A why : NoRecord(why).status = why /\ NoRecord(why).links = {}
    BY DEF NoRecord
  <1>2. CASE object = NoObject /\ source = NoRecord("pending") /\ local = NoRecord("pending")
    BY <1>1, <1>2 DEF MatchesItself, ReferenceAgrees, NamedAlike, UnchangedShowsNoChange, LinkedAlike,
                      EveryLinkResolves, Resolves, DependenciesAreLayered, Layered
  <1>3. ASSUME NEW k \in Kinds \cap KindsIn(selected), NEW o \in ObjectTable[k],
               object = [kind |-> k, attrs |-> o.attrs, links |-> o.links],
               source = SourceRecord(k, o, selected),
               \/ local = NoRecord("pending")
               \/ local = LocalRecord(k, o, selected) /\ reference = Reference(k, o)
        PROVE  Goal
    <2>1. object.kind = k
      BY <1>3
    <2>2. Recognised(k, o, selected)
      BY <1>3, RecognisedUnderAll DEF RecordInv
    <2>3. EveryLinkResolves /\ DependenciesAreLayered
      BY <1>3, <2>1, <2>2 DEF Recognised, EveryLinkResolves, DependenciesAreLayered
    <2>4. CASE local = NoRecord("pending")
      BY <1>1, <2>3, <2>4 DEF MatchesItself, ReferenceAgrees, NamedAlike, UnchangedShowsNoChange, LinkedAlike
    <2>5. CASE local = LocalRecord(k, o, selected) /\ reference = Reference(k, o)
      BY <1>3, <2>1, <2>2, <2>3, <2>5 DEF Recognised, MatchesItself, ReferenceAgrees, UnchangedShowsNoChange
    <2> QED
      BY <1>3, <2>4, <2>5
  <1> QED
    BY <1>2, <1>3 DEF RecordInv

(* Small requests suffice.  If every object is recognised when one dataset *)
(* is requested, with any of the three that decide whether a link is sent  *)
(* (what the run visits), then whatever is requested: an object and its    *)
(* replica make the same identity (natural_identity on both sides),        *)
THEOREM MatchedIfWhenSmall == RecognisedWhenSmall => (Spec => []MatchesItself)
  <1> SUFFICES ASSUME RecognisedWhenSmall PROVE Spec => []MatchesItself
    OBVIOUS
  <1>1. RecordInv => MatchesItself
    BY Throughout
  <1> QED
    BY <1>1, Invariance, PTL

(* ... referrers name it by that identity (_target_identity),              *)
THEOREM NamedIfWhenSmall == RecognisedWhenSmall => (Spec => []ReferenceAgrees)
  <1> SUFFICES ASSUME RecognisedWhenSmall PROVE Spec => []ReferenceAgrees
    OBVIOUS
  <1>1. RecordInv => ReferenceAgrees
    BY Throughout
  <1> QED
    BY <1>1, Invariance, PTL

(* ... it shows no difference in its links (the two projections),          *)
THEOREM UnchangedIfWhenSmall == RecognisedWhenSmall => (Spec => []UnchangedShowsNoChange)
  <1> SUFFICES ASSUME RecognisedWhenSmall PROVE Spec => []UnchangedShowsNoChange
    OBVIOUS
  <1>1. RecordInv => UnchangedShowsNoChange
    BY Throughout
  <1> QED
    BY <1>1, Invariance, PTL

(* ... every link leads to a collected kind (projectionForDatasets),       *)
THEOREM ResolvesIfWhenSmall == RecognisedWhenSmall => (Spec => []EveryLinkResolves)
  <1> SUFFICES ASSUME RecognisedWhenSmall PROVE Spec => []EveryLinkResolves
    OBVIOUS
  <1>1. RecordInv => EveryLinkResolves
    BY Throughout
  <1> QED
    BY <1>1, Invariance, PTL

(* ... and what must be written first has layers (dependency_order).       *)
THEOREM LayeredIfWhenSmall == RecognisedWhenSmall => (Spec => []DependenciesAreLayered)
  <1> SUFFICES ASSUME RecognisedWhenSmall PROVE Spec => []DependenciesAreLayered
    OBVIOUS
  <1>1. RecordInv => DependenciesAreLayered
    BY Throughout
  <1> QED
    BY <1>1, Invariance, PTL
=============================================================================
