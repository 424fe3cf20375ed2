-------------------------- MODULE WritePlanProofs --------------------------
(***************************************************************************)
(* Proofs about WritePlan: the resolver skips exactly the observations     *)
(* whose identities have no ground, and the writer carries out every plan  *)
(* that dependency_order accepts, for any number of records and any graph  *)
(* of links between them.                                                  *)
(*                                                                         *)
(* The resolver's invariant says that its open calls are a path of         *)
(* identity links, so that a failure of the innermost one makes the whole  *)
(* path groundless.  The writer's says that its open calls are a path of   *)
(* dependencies in the plan, which a circle would contradict.              *)
(***************************************************************************)
EXTENDS WritePlan, SequenceTheorems, TLAPS

(* The open calls are a path of identity links from the record at hand;    *)
(* what is in the memos is right; every observation is somewhere.          *)
ResolverInv ==
  /\ \A i \in 1 .. Len(resolving) - 1 : resolving[i + 1] \in IdentityTargets(resolving[i])
  /\ resolving # <<>> => resolving[1] \in {current} \cup Targets(current)
  /\ identities \cap Groundless = {}
  /\ failures \subseteq Groundless
  /\ \A r \in accepted : {r} \cup Targets(r) \subseteq identities
  /\ \A r \in skipped : ({r} \cup Targets(r)) \cap Groundless # {}
  /\ phase = "resolving" => accepted \cup skipped \cup todo \cup ({current} \ {NoRecord}) = Collected
  /\ phase # "resolving" => accepted \cup skipped = Collected /\ resolving = <<>>

(* The open calls are a path of dependencies in the plan; cached objects   *)
(* of the plan are saved ones; saved records have their links.             *)
WriterInv ==
  /\ \A i \in 1 .. Len(materializing) - 1 : materializing[i + 1] \in Dependencies(materializing[i])
  /\ ToSet(materializing) \subseteq Mutable
  /\ saved \subseteq cache \cap Mutable
  /\ cache \cap Mutable \subseteq saved
  /\ \A t \in cache : t \in saved \/ Present(t)
  /\ \A r \in saved : Dependencies(r) \cap Mutable \subseteq saved
  /\ \A p \in linked : p[2] \in saved \/ Present(p[2])
  /\ \A r \in saved : \A t \in SetAtOnce(r) : <<r, t>> \in linked
  /\ \A r \in saved \ unlinked : \A t \in DeferredTargets(r) : <<r, t>> \in linked

(* What each phase can rely on: an ordered plan while it is carried out,   *)
(* and no element that is neither saved, nor open, nor still to come.      *)
PhaseInv ==
  /\ phase = "resolving" => cache = {} /\ saved = {} /\ linked = {}
  /\ phase # "syncing" => materializing = <<>>
  /\ phase \in {"syncing", "deferring"} =>
       /\ Orderable(accepted)
       /\ \A r \in accepted : \A t \in Targets(r) : t \in accepted \/ Present(t)
  /\ phase = "syncing" => todo \subseteq Mutable /\ Mutable \subseteq saved \cup todo \cup ToSet(materializing)
  /\ phase = "deferring" => saved = Mutable
  /\ phase # "ended" => outcome = "none"
  /\ outcome = "applied" => saved = Mutable /\ unlinked = {}

(* The inductive invariant.                                                *)
IInv == TypeOK /\ ResolverInv /\ WriterInv /\ PhaseInv

-----------------------------------------------------------------------------
(* Stacks of calls                                                         *)

(* A stack holds records.                                                  *)
LEMMA InSeq ==
  ASSUME NEW s \in Seq(Records)
  PROVE  DOMAIN s = 1 .. Len(s) /\ Len(s) \in Nat /\ ToSet(s) \subseteq Records
  <1>1. DOMAIN s = 1 .. Len(s) /\ Len(s) \in Nat
    OBVIOUS
  <1> QED
    BY <1>1 DEF ToSet

(* The innermost call of a stack, and the calls that wait for it.          *)
LEMMA Innermost ==
  ASSUME NEW s \in Seq(Records), s # <<>>
  PROVE  /\ Len(s) \in Nat /\ Len(s) > 0
         /\ Last(s) = s[Len(s)] /\ Last(s) \in Records /\ Last(s) \in ToSet(s)
         /\ Front(s) \in Seq(Records) /\ Len(Front(s)) = Len(s) - 1
         /\ \A i \in 1 .. Len(s) - 1 : Front(s)[i] = s[i]
         /\ ToSet(Front(s)) \subseteq ToSet(s)
         /\ ToSet(s) \subseteq ToSet(Front(s)) \cup {Last(s)}
  <1>1. Len(s) \in Nat /\ Len(s) > 0
    OBVIOUS
  <1>2. Last(s) = s[Len(s)] /\ Last(s) \in Records /\ Last(s) \in ToSet(s)
    <2>1. Len(s) \in DOMAIN s
      BY <1>1
    <2> QED
      BY <2>1 DEF Last, ToSet
  <1>3. /\ Front(s) \in Seq(Records) /\ Len(Front(s)) = Len(s) - 1
        /\ \A i \in 1 .. Len(s) - 1 : Front(s)[i] = s[i]
    <2>1. \A i \in 1 .. Len(s) - 1 : s[i] \in Records
      BY <1>1
    <2>2. 1 \in Int /\ Len(s) - 1 \in Int
      BY <1>1
    <2> DEFINE n == Len(s) - 1
    <2>3. n \in Int /\ \A i \in 1 .. n : s[i] \in Records
      BY <2>1, <2>2
    <2> HIDE DEF n
    <2>4. /\ SubSeq(s, 1, n) \in Seq(Records)
          /\ Len(SubSeq(s, 1, n)) = IF 1 <= n THEN n - 1 + 1 ELSE 0
          /\ \A i \in 1 .. n - 1 + 1 : SubSeq(s, 1, n)[i] = s[1 + i - 1]
      BY <2>3, SubSeqProperties
    <2>5. Front(s) = SubSeq(s, 1, n)
      BY DEF Front, n
    <2>6. n = Len(s) - 1
      BY DEF n
    <2> QED
      BY <1>1, <2>4, <2>5, <2>6
  <1>4. DOMAIN s = 1 .. Len(s) /\ DOMAIN Front(s) = 1 .. Len(s) - 1
    BY <1>1, <1>3
  <1>5. ToSet(Front(s)) \subseteq ToSet(s)
    BY <1>1, <1>3, <1>4 DEF ToSet
  <1>6. ASSUME NEW x \in ToSet(s)
        PROVE  x \in ToSet(Front(s)) \cup {Last(s)}
    <2>1. PICK i \in 1 .. Len(s) : x = s[i]
      BY <1>4 DEF ToSet
    <2>2. i = Len(s) \/ i \in 1 .. Len(s) - 1
      BY <1>1
    <2> QED
      BY <2>1, <2>2, <1>2, <1>3, <1>4 DEF ToSet
  <1> QED
    BY <1>1, <1>2, <1>3, <1>5, <1>6

(* A call is opened.                                                       *)
LEMMA OneMore ==
  ASSUME NEW s \in Seq(Records), NEW t \in Records
  PROVE  /\ Append(s, t) \in Seq(Records) /\ Append(s, t) # <<>>
         /\ Len(Append(s, t)) = Len(s) + 1
         /\ \A i \in 1 .. Len(s) : Append(s, t)[i] = s[i]
         /\ Append(s, t)[Len(s) + 1] = t
         /\ ToSet(Append(s, t)) = ToSet(s) \cup {t}
  <1>1. /\ Append(s, t) \in Seq(Records) /\ Append(s, t) # <<>>
        /\ Len(Append(s, t)) = Len(s) + 1
        /\ \A i \in 1 .. Len(s) : Append(s, t)[i] = s[i]
        /\ Append(s, t)[Len(s) + 1] = t
    OBVIOUS
  <1>2. ToSet(Append(s, t)) = ToSet(s) \cup {t}
    <2>1. DOMAIN s = 1 .. Len(s) /\ DOMAIN Append(s, t) = 1 .. Len(s) + 1 /\ Len(s) \in Nat
      BY <1>1
    <2>2. \A i \in 1 .. Len(s) + 1 : i \in 1 .. Len(s) \/ i = Len(s) + 1
      BY <2>1
    <2> QED
      BY <1>1, <2>1, <2>2 DEF ToSet
  <1> QED
    BY <1>1, <1>2

(* A call that is not the innermost one has a next one.                    *)
LEMMA NextOf ==
  ASSUME NEW n \in Nat, NEW i \in 1 .. n, i # n
  PROVE  i \in 1 .. n - 1 /\ i + 1 \in 1 .. n
  OBVIOUS

(* The empty stack.                                                        *)
LEMMA NoCalls == ToSet(<<>>) = {} /\ <<>> \in Seq(Records) /\ Len(<<>>) = 0
  BY DEF ToSet

-----------------------------------------------------------------------------
(* Groundless records                                                      *)

(* Groundless is the largest baseless set.                                 *)
LEMMA BaselessIsGroundless ==
  ASSUME NEW S \in SUBSET Records, Baseless(S)
  PROVE  S \subseteq Groundless
  BY DEF Groundless

(* The union of baseless sets is baseless.                                 *)
LEMMA GroundlessIsBaseless == Groundless \subseteq Records /\ Baseless(Groundless)
  <1>1. Groundless \subseteq Records
    BY DEF Groundless
  <1>2. ASSUME NEW r \in Groundless
        PROVE  evidence[r] # "sound" \/ IdentityTargets(r) \cap Groundless # {}
    <2>1. PICK S \in SUBSET Records : Baseless(S) /\ r \in S
      BY DEF Groundless
    <2>2. S \subseteq Groundless
      BY <2>1, BaselessIsGroundless
    <2> QED
      BY <2>1, <2>2 DEF Baseless
  <1> QED
    BY <1>1, <1>2 DEF Baseless

(* A sound record whose identity links lead to grounded ones is grounded.  *)
LEMMA Grounded ==
  ASSUME NEW r \in Records, evidence[r] = "sound", IdentityTargets(r) \cap Groundless = {}
  PROVE  r \notin Groundless
  BY GroundlessIsBaseless DEF Baseless

(* A record that is unsound, or not in the run, is groundless.             *)
LEMMA UnsoundIsGroundless ==
  ASSUME NEW r \in Records, evidence[r] # "sound"
  PROVE  r \in Groundless
  <1>1. Baseless({r})
    BY DEF Baseless
  <1> QED
    BY <1>1, BaselessIsGroundless

(* A path of identity links whose end is unsound, or leads on to a         *)
(* groundless record or back into the path, is groundless as a whole.      *)
LEMMA GroundlessPath ==
  ASSUME NEW s \in Seq(Records), s # <<>>,
         \A i \in 1 .. Len(s) - 1 : s[i + 1] \in IdentityTargets(s[i]),
         \/ evidence[Last(s)] # "sound"
         \/ \E t \in IdentityTargets(Last(s)) : t \in Groundless \/ t \in ToSet(s)
  PROVE  ToSet(s) \subseteq Groundless
  <1> DEFINE S == ToSet(s) \cup Groundless
  <1>1. Len(s) \in Nat /\ Len(s) > 0 /\ Last(s) = s[Len(s)] /\ DOMAIN s = 1 .. Len(s)
    BY Innermost
  <1>2. S \in SUBSET Records
    BY <1>1, GroundlessIsBaseless DEF ToSet
  <1>3. ASSUME NEW r \in ToSet(s)
        PROVE  evidence[r] # "sound" \/ IdentityTargets(r) \cap S # {}
    <2>1. PICK i \in 1 .. Len(s) : r = s[i]
      BY <1>1 DEF ToSet
    <2>2. CASE i = Len(s)
      BY <2>1, <2>2, <1>1
    <2>3. CASE i # Len(s)
      <3>1. i \in 1 .. Len(s) - 1 /\ i + 1 \in 1 .. Len(s)
        BY <2>1, <2>3, <1>1, NextOf
      <3>2. s[i + 1] \in ToSet(s)
        BY <3>1, <1>1 DEF ToSet
      <3> QED
        BY <3>1, <3>2, <2>1
    <2> QED
      BY <2>2, <2>3
  <1>4. ASSUME NEW r \in Groundless
        PROVE  evidence[r] # "sound" \/ IdentityTargets(r) \cap S # {}
    BY GroundlessIsBaseless DEF Baseless
  <1>5. Baseless(S)
    BY <1>3, <1>4 DEF Baseless
  <1> QED
    BY <1>2, <1>5, BaselessIsGroundless

(* The graph is what the collection run says: no step changes it.          *)
LEMMA GraphStays ==
  ASSUME UNCHANGED <<link, evidence>>
  PROVE  /\ Groundless' = Groundless /\ Collected' = Collected
         /\ \A r : Targets(r)' = Targets(r)
         /\ \A r : IdentityTargets(r)' = IdentityTargets(r)
         /\ \A r : DeferredTargets(r)' = DeferredTargets(r)
         /\ \A r : Dependencies(r)' = Dependencies(r)
         /\ \A r : SetAtOnce(r)' = SetAtOnce(r)
  <1>1. /\ \A r : Targets(r)' = Targets(r)
        /\ \A r : IdentityTargets(r)' = IdentityTargets(r)
        /\ \A r : DeferredTargets(r)' = DeferredTargets(r)
        /\ Collected' = Collected
    BY DEF Targets, IdentityTargets, DeferredTargets, Collected
  <1>2. /\ \A r : Dependencies(r)' = Dependencies(r)
        /\ \A r : SetAtOnce(r)' = SetAtOnce(r)
    BY <1>1 DEF Dependencies, SetAtOnce
  <1>3. Groundless' = Groundless
    BY DEF Groundless, Baseless, IdentityTargets
  <1> QED
    BY <1>1, <1>2, <1>3

(* Every link is either set at once or deferred.                           *)
LEMMA LinkSets ==
  ASSUME NEW r
  PROVE  /\ Targets(r) \subseteq Records /\ IdentityTargets(r) \subseteq Targets(r)
         /\ DeferredTargets(r) \subseteq Targets(r)
         /\ SetAtOnce(r) = Dependencies(r)
         /\ Dependencies(r) \subseteq Targets(r)
         /\ Targets(r) = SetAtOnce(r) \cup DeferredTargets(r)
  BY DEF Targets, IdentityTargets, DeferredTargets, SetAtOnce, Dependencies
(* The links of a record are pairs of records.                             *)
LEMMA LinksOf ==
  ASSUME NEW r \in Records, NEW T \in SUBSET Records
  PROVE  {<<r, t>> : t \in T} \subseteq Records \X Records
  OBVIOUS

-----------------------------------------------------------------------------
(* Types                                                                   *)

(* Every step keeps the types; that deferred links are set when nothing is *)
(* being resolved, and when the outcome is open, comes from the other two  *)
(* invariants.                                                             *)
LEMMA TypeStep ==
  ASSUME IInv, [Next]_vars
  PROVE  TypeOK'
  <1> USE NoRecordAssumption
  <1>1. ASSUME NEW r \in Records, Visit(r)
        PROVE  TypeOK'
    BY <1>1 DEF Visit, graph, resolver, writer, IInv, TypeOK, PhaseInv
  <1>2. ASSUME NEW t \in Records, Call(t)
        PROVE  TypeOK'
    BY <1>2, OneMore DEF Call, graph, writer, IInv, TypeOK
  <1>3. CASE Return
    <2>1. resolving \in Seq(Records) /\ resolving # <<>> /\ TypeOK
      BY <1>3 DEF Return, IInv, TypeOK
    <2>2. Last(resolving) \in Records /\ Front(resolving) \in Seq(Records)
      BY <2>1, Innermost
    <2>3. identities' = identities \cup {Last(resolving)} /\ resolving' = Front(resolving)
      BY <1>3 DEF Return
    <2>4. UNCHANGED <<link, evidence, local, phase, todo, current, failures, accepted, skipped, outcome>>
      BY <1>3 DEF Return, graph
    <2>5. UNCHANGED <<materializing, cache, saved, linked, unlinked>>
      BY <1>3 DEF Return, writer
    <2>6. identities' \subseteq Records /\ resolving' \in Seq(Records)
      BY <2>1, <2>2, <2>3 DEF TypeOK
    <2>7. current # NoRecord
      BY <2>1 DEF TypeOK
    <2> QED
      BY <2>1, <2>4, <2>5, <2>6, <2>7 DEF TypeOK
  <1>4. CASE Raise
    <2>1. Blamed \subseteq Records
      BY InSeq DEF Blamed, IInv, TypeOK
    <2> QED
      BY <1>4, <2>1, NoCalls DEF Raise, graph, writer, IInv, TypeOK, PhaseInv
  <1>5. CASE Accept
    BY <1>5 DEF Accept, graph, writer, IInv, TypeOK, PhaseInv
  <1>6. CASE Compare
    <2>1. /\ local' \in [Records -> {"absent", "same", "differs", "ambiguous"}]
          /\ phase' \in {"syncing", "ended"} /\ outcome' \in {"none", "not ready"}
          /\ todo' \subseteq Records /\ current' = NoRecord
      BY <1>6 DEF Compare, End, IInv, TypeOK, PhaseInv
    <2> QED
      BY <1>6, <2>1 DEF Compare, resolver, writer, IInv, TypeOK
  <1>7. ASSUME NEW r \in Records, VisitElement(r)
        PROVE  TypeOK'
    <2>1. <<r>> \in Seq(Records)
      OBVIOUS
    <2> QED
      BY <1>7, <2>1 DEF VisitElement, graph, resolver, IInv, TypeOK
  <1>8. ASSUME NEW d \in Records, Materialize(d)
        PROVE  TypeOK'
    BY <1>8, OneMore DEF Materialize, graph, resolver, IInv, TypeOK
  <1>9. CASE Save
    <2> DEFINE r == Last(materializing)
    <2>1. materializing \in Seq(Records) /\ materializing # <<>>
      BY <1>9 DEF Save, IInv, TypeOK
    <2>2. r \in Records /\ Front(materializing) \in Seq(Records)
      BY <2>1, Innermost
    <2>3. SetAtOnce(r) \subseteq Records
      BY LinkSets
    <2>4. phase = "syncing" /\ resolving = <<>>
      BY <1>9 DEF Save, IInv, ResolverInv
    <2>5. /\ cache' = cache \cup {r} \cup SetAtOnce(r) /\ saved' = saved \cup {r}
          /\ linked' = linked \cup {<<r, t>> : t \in SetAtOnce(r)} /\ unlinked' = unlinked \cup {r}
          /\ materializing' = Front(materializing)
          /\ current' = IF materializing' = <<>> THEN NoRecord ELSE current
          /\ UNCHANGED <<graph, phase, todo, resolver, outcome>>
      BY <1>9 DEF Save
    <2>6. linked' \subseteq Records \X Records
      <3>1. {<<r, t>> : t \in SetAtOnce(r)} \subseteq Records \X Records
        BY <2>2, <2>3, LinksOf
      <3>2. linked \subseteq Records \X Records
        BY DEF IInv, TypeOK
      <3> QED
        BY <2>5, <3>1, <3>2
    <2>7. current' \in Records \cup {NoRecord} /\ (current' = NoRecord => materializing' = <<>>)
      BY <2>1, <2>5 DEF IInv, TypeOK
    <2> HIDE DEF r
    <2> QED
      BY <2>2, <2>3, <2>4, <2>5, <2>6, <2>7 DEF graph, resolver, IInv, TypeOK
  <1>10. CASE SyncComplete
    BY <1>10 DEF SyncComplete, graph, resolver, writer, IInv, TypeOK
  <1>11. ASSUME NEW r \in Records, SetDeferred(r)
         PROVE  TypeOK'
    <2>1. DeferredTargets(r) \subseteq Records
      BY LinkSets
    <2>2. linked' \subseteq Records \X Records
      <3>1. {<<r, t>> : t \in DeferredTargets(r)} \subseteq Records \X Records
        BY <2>1, LinksOf
      <3>2. linked' = linked \cup {<<r, t>> : t \in DeferredTargets(r)}
        BY <1>11 DEF SetDeferred
      <3>3. linked \subseteq Records \X Records
        BY DEF IInv, TypeOK
      <3> QED
        BY <3>1, <3>2, <3>3
    <2> QED
      BY <1>11, <2>1, <2>2 DEF SetDeferred, graph, resolver, IInv, TypeOK
  <1>12. CASE Commit
    BY <1>12 DEF Commit, End, graph, resolver, writer, IInv, TypeOK, ResolverInv, PhaseInv
  <1>13. CASE Refused
    BY <1>13, NoCalls DEF Refused, End, graph, resolver, IInv, TypeOK, ResolverInv
  <1>14. CASE UNCHANGED vars
    BY <1>14 DEF vars, graph, resolver, writer, IInv, TypeOK
  <1> QED
    BY <1>1, <1>2, <1>3, <1>4, <1>5, <1>6, <1>7, <1>8, <1>9, <1>10, <1>11, <1>12, <1>13, <1>14 DEF Next, Ended

-----------------------------------------------------------------------------
(* The resolver                                                            *)

(* Only resolving changes the resolver: a call extends its path, a return  *)
(* names a grounded record, a raise blames a groundless path.              *)
LEMMA ResolverStep ==
  ASSUME IInv, [Next]_vars
  PROVE  ResolverInv'
  <1> USE NoRecordAssumption
  <1>1. UNCHANGED <<link, evidence>>
    BY DEF Next, Ended, vars, graph, Visit, Call, Return, Raise, Accept, Compare, VisitElement, Materialize,
       Save, SyncComplete, SetDeferred, Commit, Refused
  <1>2. /\ Groundless' = Groundless /\ Collected' = Collected
        /\ \A r : Targets(r)' = Targets(r)
        /\ \A r : IdentityTargets(r)' = IdentityTargets(r)
    BY <1>1, GraphStays
  <1>3. ASSUME NEW r \in Records, Visit(r)
        PROVE  ResolverInv'
    <2>1. /\ phase = "resolving" /\ current = NoRecord /\ r \in todo /\ current' = r /\ todo' = todo \ {r}
          /\ UNCHANGED <<phase, resolving, identities, failures, accepted, skipped>>
      BY <1>3 DEF Visit, resolver
    <2>2. resolving = <<>>
      BY <2>1 DEF IInv, TypeOK
    <2>3. accepted' \cup skipped' \cup todo' \cup ({current'} \ {NoRecord}) = Collected
      BY <2>1 DEF IInv, ResolverInv
    <2> QED
      BY <1>2, <2>1, <2>2, <2>3, NoCalls DEF IInv, ResolverInv
  <1>4. ASSUME NEW t \in Records, Call(t)
        PROVE  ResolverInv'
    <2>1. /\ phase = "resolving" /\ current # NoRecord /\ t \in Asked
          /\ resolving' = Append(resolving, t)
          /\ UNCHANGED <<phase, todo, current, identities, failures, accepted, skipped>>
      BY <1>4 DEF Call
    <2>2. /\ resolving' # <<>> /\ Len(resolving') = Len(resolving) + 1
          /\ \A i \in 1 .. Len(resolving) : resolving'[i] = resolving[i]
          /\ resolving'[Len(resolving) + 1] = t
      <3>1. resolving \in Seq(Records)
        BY DEF IInv, TypeOK
      <3> QED
        BY <2>1, <3>1, OneMore
    <2>3. CASE resolving = <<>>
      <3>1. t \in {current} \cup Targets(current)
        BY <2>1, <2>3 DEF Asked
      <3>2. Len(resolving) = 0
        BY <2>3
      <3>3. resolving'[1] = t /\ Len(resolving') = 1
        BY <2>2, <3>2
      <3> QED
        BY <1>2, <2>1, <3>1, <3>3 DEF IInv, ResolverInv
    <2>4. CASE resolving # <<>>
      <3>1. /\ Len(resolving) \in Nat /\ Len(resolving) > 0
            /\ Last(resolving) = resolving[Len(resolving)]
        BY <2>4, Innermost DEF IInv, TypeOK
      <3>2. t \in IdentityTargets(resolving[Len(resolving)])
        BY <2>1, <2>4, <3>1 DEF Asked
      <3>3. ASSUME NEW i \in 1 .. Len(resolving') - 1
            PROVE  resolving'[i + 1] \in IdentityTargets(resolving'[i])
        <4>1. i \in 1 .. Len(resolving)
          BY <2>2, <3>1
        <4>2. CASE i = Len(resolving)
          BY <2>2, <3>2, <4>1, <4>2
        <4>3. CASE i # Len(resolving)
          <5>1. i \in 1 .. Len(resolving) - 1 /\ i + 1 \in 1 .. Len(resolving)
            BY <3>1, <4>1, <4>3, NextOf
          <5>2. resolving[i + 1] \in IdentityTargets(resolving[i])
            BY <5>1 DEF IInv, ResolverInv
          <5> QED
            BY <2>2, <4>1, <5>1, <5>2
        <4> QED
          BY <4>2, <4>3
      <3>4. resolving'[1] = resolving[1]
        BY <2>2, <3>1
      <3> QED
        BY <1>2, <2>1, <2>2, <2>4, <3>3, <3>4 DEF IInv, ResolverInv
    <2> QED
      BY <2>3, <2>4
  <1>5. CASE Return
    <2> DEFINE r == Last(resolving)
    <2>1. /\ phase = "resolving" /\ resolving # <<>> /\ Asked = {} /\ evidence[r] = "sound"
          /\ identities' = identities \cup {r} /\ resolving' = Front(resolving)
          /\ UNCHANGED <<phase, todo, current, failures, accepted, skipped>>
      BY <1>5 DEF Return
    <2>2. /\ Len(resolving) \in Nat /\ r \in Records
          /\ Len(resolving') = Len(resolving) - 1
          /\ \A i \in 1 .. Len(resolving) - 1 : resolving'[i] = resolving[i]
          /\ resolving' \in Seq(Records)
      BY <2>1, Innermost DEF IInv, TypeOK
    <2>3. IdentityTargets(r) \subseteq identities
      BY <2>1 DEF Asked
    <2>4. r \notin Groundless
      BY <2>1, <2>2, <2>3, Grounded DEF IInv, ResolverInv
    <2>5. \A i \in 1 .. Len(resolving') - 1 : resolving'[i + 1] \in IdentityTargets(resolving'[i])
      BY <2>2 DEF IInv, ResolverInv
    <2>6. resolving' # <<>> => resolving'[1] \in {current} \cup Targets(current)
      <3> SUFFICES ASSUME resolving' # <<>>
                   PROVE  resolving'[1] \in {current} \cup Targets(current)
        OBVIOUS
      <3>1. Len(resolving') > 0
        BY <2>2
      <3>2. resolving'[1] = resolving[1]
        BY <2>2, <3>1
      <3> QED
        BY <2>1, <3>2 DEF IInv, ResolverInv
    <2> HIDE DEF r
    <2> QED
      BY <1>2, <2>1, <2>4, <2>5, <2>6 DEF IInv, ResolverInv
  <1>6. CASE Raise
    <2>1. /\ phase = "resolving" /\ current # NoRecord
          /\ \/ \E t \in Asked : RaisesAtOnce(t)
             \/ resolving # <<>> /\ evidence[Last(resolving)] = "unnamed"
          /\ failures' = failures \cup ToSet(resolving) /\ resolving' = <<>>
          /\ skipped' = skipped \cup {current} /\ current' = NoRecord
          /\ UNCHANGED <<phase, todo, identities, accepted>>
      BY <1>6 DEF Raise, Blamed
    <2>2. \A t \in Records : RaisesAtOnce(t) => t \in Groundless \/ t \in ToSet(resolving)
      BY UnsoundIsGroundless DEF RaisesAtOnce, IInv, ResolverInv
    <2>3. CASE resolving = <<>>
      <3>1. PICK t \in Asked : RaisesAtOnce(t)
        BY <2>1, <2>3
      <3>2. t \in {current} \cup Targets(current) /\ t \in Records
        BY <2>1, <2>3, <3>1, LinkSets DEF Asked, IInv, TypeOK
      <3>3. t \in Groundless
        BY <2>2, <2>3, <3>1, <3>2, NoCalls
      <3>4. ({current} \cup Targets(current)) \cap Groundless # {}
        BY <3>2, <3>3
      <3> QED
        BY <1>2, <2>1, <2>3, <3>4, NoCalls DEF IInv, ResolverInv
    <2>4. CASE resolving # <<>>
      <3>1. \/ evidence[Last(resolving)] # "sound"
            \/ \E t \in IdentityTargets(Last(resolving)) : t \in Groundless \/ t \in ToSet(resolving)
        <4>1. Asked \subseteq IdentityTargets(Last(resolving)) /\ Asked \subseteq Records
          BY <2>4, LinkSets DEF Asked
        <4> QED
          BY <2>1, <2>2, <4>1
      <3>2. ToSet(resolving) \subseteq Groundless
        BY <2>4, <3>1, GroundlessPath DEF IInv, TypeOK, ResolverInv
      <3>3. resolving[1] \in ToSet(resolving)
        <4>1. 1 \in DOMAIN resolving
          <5>1. resolving \in Seq(Records)
            BY DEF IInv, TypeOK
          <5>2. DOMAIN resolving = 1 .. Len(resolving) /\ Len(resolving) \in Nat /\ Len(resolving) > 0
            BY <2>4, <5>1, Innermost, InSeq
          <5> QED
            BY <5>2
        <4> QED
          BY <4>1 DEF ToSet
      <3>4. ({current} \cup Targets(current)) \cap Groundless # {}
        BY <2>4, <3>2, <3>3 DEF IInv, ResolverInv
      <3> QED
        BY <1>2, <2>1, <3>2, <3>4, NoCalls DEF IInv, ResolverInv
    <2> QED
      BY <2>3, <2>4
  <1>7. CASE Accept
    <2>1. /\ phase = "resolving" /\ current # NoRecord /\ resolving = <<>> /\ Asked = {}
          /\ accepted' = accepted \cup {current} /\ current' = NoRecord
          /\ UNCHANGED <<phase, todo, resolving, identities, failures, skipped>>
      BY <1>7 DEF Accept
    <2>2. {current} \cup Targets(current) \subseteq identities
      BY <2>1 DEF Asked
    <2> QED
      BY <1>2, <2>1, <2>2, NoCalls DEF IInv, ResolverInv
  <1>8. CASE Compare
    <2>1. /\ phase = "resolving" /\ current = NoRecord /\ todo = {} /\ phase' # "resolving"
          /\ UNCHANGED resolver
      BY <1>8 DEF Compare, End
    <2>2. resolving = <<>>
      BY <2>1 DEF IInv, TypeOK
    <2> QED
      BY <1>2, <2>1, <2>2, NoCalls DEF resolver, IInv, ResolverInv
  <1>9. ASSUME phase # "resolving", phase' # "resolving", UNCHANGED resolver
        PROVE  ResolverInv'
    BY <1>2, <1>9, NoCalls DEF resolver, IInv, ResolverInv
  <1>10. CASE UNCHANGED vars
    BY <1>2, <1>10 DEF vars, resolver, IInv, ResolverInv
  <1>11. ASSUME NEW r \in Records, VisitElement(r) \/ Materialize(r) \/ SetDeferred(r)
         PROVE  ResolverInv'
    BY <1>9, <1>11 DEF VisitElement, Materialize, SetDeferred
  <1>12. CASE Save \/ SyncComplete \/ Commit \/ Refused
    BY <1>9, <1>12 DEF Save, SyncComplete, Commit, Refused, End
  <1> QED
    BY <1>3, <1>4, <1>5, <1>6, <1>7, <1>8, <1>10, <1>11, <1>12 DEF Next, Ended
-----------------------------------------------------------------------------
(* The writer                                                              *)

(* A path of dependencies inside a set that dependency_order can order     *)
(* does not lead back into itself.                                         *)
LEMMA NoCircle ==
  ASSUME NEW plan \in SUBSET Records, Orderable(plan),
         NEW s \in Seq(Records), s # <<>>, ToSet(s) \subseteq plan,
         \A i \in 1 .. Len(s) - 1 : s[i + 1] \in Dependencies(s[i])
  PROVE  Dependencies(Last(s)) \cap ToSet(s) = {}
  <1> SUFFICES ASSUME NEW d \in Dependencies(Last(s)) \cap ToSet(s)
               PROVE  FALSE
    OBVIOUS
  <1>1. DOMAIN s = 1 .. Len(s) /\ Len(s) \in Nat /\ Len(s) > 0 /\ Last(s) = s[Len(s)]
    BY Innermost, InSeq
  <1>2. PICK j \in 1 .. Len(s) : d = s[j]
    BY <1>1 DEF ToSet
  <1> DEFINE C == {s[k] : k \in j .. Len(s)}
  <1>3. \A k \in j .. Len(s) : k \in 1 .. Len(s)
    BY <1>1, <1>2
  <1>4. C \subseteq plan
    BY <1>1, <1>3 DEF ToSet
  <1>5. d \in C
    <2>1. j \in j .. Len(s)
      BY <1>1, <1>2
    <2> QED
      BY <1>2, <2>1
  <1>6. PICK r \in C : Dependencies(r) \cap C = {}
    BY <1>4, <1>5 DEF Orderable
  <1>7. PICK k \in j .. Len(s) : r = s[k]
    OBVIOUS
  <1>8. CASE k = Len(s)
    BY <1>1, <1>5, <1>6, <1>7, <1>8
  <1>9. CASE k # Len(s)
    <2>1. k \in 1 .. Len(s) - 1 /\ k + 1 \in 1 .. Len(s)
      BY <1>1, <1>3, <1>7, <1>9, NextOf
    <2>2. k + 1 \in j .. Len(s)
      BY <1>1, <1>2, <1>7, <2>1
    <2>3. s[k + 1] \in C
      BY <2>2
    <2> QED
      BY <2>1, <2>3, <1>6, <1>7
  <1> QED
    BY <1>8, <1>9

(* What is absent from the local NetBox and accepted is to be created.     *)
LEMMA AbsentIsPlanned ==
  ASSUME NEW t \in accepted, ~Present(t)
  PROVE  t \in Mutable
  BY DEF Present, Mutable

(* What the innermost call asks for is never being materialized.           *)
LEMMA NeverMeetsCycle ==
  ASSUME IInv
  PROVE  ~MeetsCycle
  <1> SUFFICES ASSUME phase = "syncing", materializing # <<>>
               PROVE  Missing(Last(materializing)) \cap ToSet(materializing) = {}
    BY DEF MeetsCycle
  <1>1. /\ Orderable(accepted) /\ accepted \subseteq Records /\ materializing \in Seq(Records)
        /\ ToSet(materializing) \subseteq accepted
        /\ \A i \in 1 .. Len(materializing) - 1 : materializing[i + 1] \in Dependencies(materializing[i])
    BY DEF IInv, TypeOK, WriterInv, PhaseInv, Mutable
  <1>2. Dependencies(Last(materializing)) \cap ToSet(materializing) = {}
    BY <1>1, NoCircle
  <1> QED
    BY <1>2 DEF Missing

(* The target of a link was saved before, or is in the local NetBox.       *)
LEMMA NeverMeetsUnavailable ==
  ASSUME IInv
  PROVE  ~MeetsUnavailable
  <1> DEFINE r == Last(materializing)
  <1>1. ASSUME phase = "syncing", materializing # <<>>, Missing(r) = {}, NEW t \in SetAtOnce(r)
        PROVE  Reachable(t)
    <2>1. r \in Mutable
      BY <1>1, Innermost DEF IInv, TypeOK, WriterInv
    <2>2. t \in accepted \/ Present(t)
      BY <1>1, <2>1, LinkSets DEF IInv, PhaseInv, Mutable
    <2>3. t \in Mutable => t \in cache
      BY <1>1, LinkSets DEF Missing
    <2> QED
      BY <2>2, <2>3, AbsentIsPlanned DEF Reachable
  <1>2. ASSUME phase = "deferring", NEW q \in unlinked, NEW t \in DeferredTargets(q)
        PROVE  Reachable(t)
    <2>1. q \in Mutable /\ Mutable \subseteq cache
      BY <1>2 DEF IInv, TypeOK, WriterInv, PhaseInv
    <2>2. t \in accepted \/ Present(t)
      BY <1>2, <2>1, LinkSets DEF IInv, PhaseInv, Mutable
    <2> QED
      BY <2>1, <2>2, AbsentIsPlanned DEF Reachable
  <1> QED
    BY <1>1, <1>2 DEF MeetsUnavailable

(* A save takes its targets from the cache or from the local NetBox; the   *)
(* links of a saved record are set now or when nothing else is left.       *)
LEMMA WriterStep ==
  ASSUME IInv, [Next]_vars
  PROVE  WriterInv'
  <1>1. /\ \A r : Targets(r)' = Targets(r)
        /\ \A r : DeferredTargets(r)' = DeferredTargets(r)
        /\ \A r : Dependencies(r)' = Dependencies(r)
        /\ \A r : SetAtOnce(r)' = SetAtOnce(r)
    <2>1. UNCHANGED <<link, evidence>>
      BY DEF Next, Ended, vars, graph, Visit, Call, Return, Raise, Accept, Compare, VisitElement, Materialize,
         Save, SyncComplete, SetDeferred, Commit, Refused
    <2> QED
      BY <2>1, GraphStays
  <1>2. ASSUME phase = "resolving", UNCHANGED writer
        PROVE  WriterInv'
    <2>1. cache = {} /\ saved = {} /\ linked = {} /\ materializing = <<>>
      BY <1>2 DEF IInv, PhaseInv
    <2>2. /\ cache' = {} /\ saved' = {} /\ linked' = {} /\ ToSet(materializing') = {}
          /\ materializing' = <<>> /\ Len(materializing') = 0
      BY <1>2, <2>1, NoCalls DEF writer
    <2> QED
      BY <2>2 DEF WriterInv
  <1>3. ASSUME UNCHANGED <<local, accepted>>
        PROVE  Mutable' = Mutable /\ \A t : Present(t)' = Present(t)
    BY <1>3 DEF Mutable, Present
  <1>4. ASSUME UNCHANGED <<local, accepted, cache, saved, linked, unlinked>>,
               /\ \A i \in 1 .. Len(materializing') - 1 : materializing'[i + 1] \in Dependencies(materializing'[i])
               /\ ToSet(materializing') \subseteq Mutable
        PROVE  WriterInv'
    BY <1>1, <1>3, <1>4 DEF IInv, WriterInv
  <1>5. ASSUME NEW r \in Records, VisitElement(r)
        PROVE  WriterInv'
    <2>1. /\ UNCHANGED <<local, accepted, cache, saved, linked, unlinked>>
          /\ r \in todo /\ (UNCHANGED materializing \/ materializing' = <<r>>) /\ phase = "syncing"
      BY <1>5 DEF VisitElement, graph, resolver
    <2>2. CASE UNCHANGED materializing
      BY <1>4, <2>1, <2>2 DEF IInv, WriterInv
    <2>3. CASE materializing' = <<r>>
      <3>1. r \in Mutable
        BY <2>1 DEF IInv, PhaseInv
      <3>2. ToSet(materializing') = {r} /\ Len(materializing') = 1
        BY <2>3 DEF ToSet
      <3> QED
        BY <1>4, <2>1, <3>1, <3>2
    <2> QED
      BY <2>1, <2>2, <2>3
  <1>6. ASSUME NEW d \in Records, Materialize(d)
        PROVE  WriterInv'
    <2>1. /\ UNCHANGED <<local, accepted, cache, saved, linked, unlinked>>
          /\ materializing # <<>> /\ d \in Missing(Last(materializing))
          /\ materializing' = Append(materializing, d)
      BY <1>6 DEF Materialize, graph, resolver
    <2>2. materializing \in Seq(Records)
      BY DEF IInv, TypeOK
    <2>3. /\ Len(materializing') = Len(materializing) + 1
          /\ \A i \in 1 .. Len(materializing) : materializing'[i] = materializing[i]
          /\ materializing'[Len(materializing) + 1] = d
          /\ ToSet(materializing') = ToSet(materializing) \cup {d}
      BY <2>1, <2>2, OneMore
    <2>4. d \in Mutable /\ d \in Dependencies(Last(materializing))
      BY <2>1 DEF Missing
    <2>5. /\ Len(materializing) \in Nat /\ Len(materializing) > 0
          /\ Last(materializing) = materializing[Len(materializing)]
      BY <2>1, <2>2, Innermost
    <2>6. ASSUME NEW i \in 1 .. Len(materializing') - 1
          PROVE  materializing'[i + 1] \in Dependencies(materializing'[i])
      <3>1. i \in 1 .. Len(materializing)
        BY <2>3, <2>5
      <3>2. CASE i = Len(materializing)
        BY <2>3, <2>4, <2>5, <3>1, <3>2
      <3>3. CASE i # Len(materializing)
        <4>1. i \in 1 .. Len(materializing) - 1 /\ i + 1 \in 1 .. Len(materializing)
          BY <2>5, <3>1, <3>3, NextOf
        <4>2. materializing[i + 1] \in Dependencies(materializing[i])
          BY <4>1 DEF IInv, WriterInv
        <4> QED
          BY <2>3, <3>1, <4>1, <4>2
      <3> QED
        BY <3>2, <3>3
    <2>7. ToSet(materializing') \subseteq Mutable
      BY <2>3, <2>4 DEF IInv, WriterInv
    <2> QED
      BY <1>4, <2>1, <2>6, <2>7
  <1>7. CASE Save
    <2> DEFINE r == Last(materializing)
    <2>1. /\ materializing # <<>> /\ Missing(r) = {} /\ \A t \in SetAtOnce(r) : Reachable(t)
          /\ cache' = cache \cup {r} \cup SetAtOnce(r) /\ saved' = saved \cup {r}
          /\ linked' = linked \cup {<<r, t>> : t \in SetAtOnce(r)} /\ unlinked' = unlinked \cup {r}
          /\ materializing' = Front(materializing)
          /\ UNCHANGED <<local, accepted>>
      BY <1>7 DEF Save, graph, resolver
    <2>2. materializing \in Seq(Records)
      BY DEF IInv, TypeOK
    <2>3. /\ Len(materializing) \in Nat /\ r \in ToSet(materializing)
          /\ Len(materializing') = Len(materializing) - 1
          /\ \A i \in 1 .. Len(materializing) - 1 : materializing'[i] = materializing[i]
          /\ ToSet(materializing') \subseteq ToSet(materializing)
      BY <2>1, <2>2, Innermost
    <2>4. Mutable' = Mutable /\ \A t : Present(t)' = Present(t)
      BY <1>3, <2>1
    <2>5. r \in Mutable
      BY <2>3 DEF IInv, WriterInv
    <2> DEFINE T == SetAtOnce(r)
    <2>6. T = Dependencies(r) /\ T \cap Mutable \subseteq saved
      BY <2>1, LinkSets DEF Missing, IInv, WriterInv
    <2>7. \A t \in T : t \in cache \/ Present(t)
      BY <2>1 DEF Reachable
    <2>8. linked' = linked \cup {<<r, t>> : t \in T} /\ cache' = cache \cup {r} \cup T
      BY <2>1
    <2> HIDE DEF r, T
    <2>9. /\ \A i \in 1 .. Len(materializing') - 1 : materializing'[i + 1] \in Dependencies(materializing'[i])
          /\ ToSet(materializing') \subseteq Mutable
      BY <2>3 DEF IInv, WriterInv
    <2>10. /\ saved' \subseteq cache' \cap Mutable
           /\ cache' \cap Mutable \subseteq saved'
           /\ \A t \in cache' : t \in saved' \/ Present(t)
      BY <2>1, <2>5, <2>6, <2>7, <2>8 DEF IInv, WriterInv
    <2>11. \A q \in saved' : Dependencies(q) \cap Mutable \subseteq saved'
      BY <2>1, <2>6 DEF IInv, WriterInv
    <2>12. \A p \in linked' : p[2] \in saved' \/ Present(p[2])
      <3>1. ASSUME NEW p \in linked'
            PROVE  p[2] \in saved' \/ Present(p[2])
        <4>1. CASE p \in linked
          BY <2>1, <4>1 DEF IInv, WriterInv
        <4>2. CASE p \in {<<r, t>> : t \in T}
          <5>1. PICK t \in T : p = <<r, t>>
            BY <4>2
          <5>2. p[2] = t /\ t \in cache'
            BY <5>1, <2>8
          <5> QED
            BY <5>2, <2>10
        <4> QED
          BY <2>8, <4>1, <4>2
      <3> QED
        BY <3>1
    <2>13. \A q \in saved' : \A t \in SetAtOnce(q) : <<q, t>> \in linked'
      <3>1. ASSUME NEW q \in saved', NEW t \in SetAtOnce(q)
            PROVE  <<q, t>> \in linked'
        <4>1. CASE q \in saved
          BY <2>8, <4>1 DEF IInv, WriterInv
        <4>2. CASE q = r
          BY <2>8, <4>2 DEF T
        <4> QED
          BY <2>1, <4>1, <4>2
      <3> QED
        BY <3>1
    <2>14. \A q \in saved' \ unlinked' : \A t \in DeferredTargets(q) : <<q, t>> \in linked'
      BY <2>1, <2>8 DEF IInv, WriterInv
    <2> QED
      BY <1>1, <2>4, <2>9, <2>10, <2>11, <2>12, <2>13, <2>14 DEF WriterInv
  <1>8. ASSUME NEW r \in Records, SetDeferred(r)
        PROVE  WriterInv'
    <2> DEFINE T == DeferredTargets(r)
    <2>1. /\ phase = "deferring" /\ r \in unlinked /\ \A t \in T : t \in cache \/ Present(t)
          /\ linked' = linked \cup {<<r, t>> : t \in T}
          /\ cache' = cache \cup T /\ unlinked' = unlinked \ {r}
          /\ UNCHANGED <<local, accepted, saved, materializing>>
      BY <1>8 DEF SetDeferred, Reachable, graph, resolver
    <2>2. Mutable' = Mutable /\ \A t : Present(t)' = Present(t)
      BY <1>3, <2>1
    <2>3. saved = Mutable
      BY <2>1 DEF IInv, PhaseInv
    <2>4. \A q \in saved' \ unlinked' : \A t \in DeferredTargets(q) : <<q, t>> \in linked'
      <3>1. ASSUME NEW q \in saved' \ unlinked', NEW t \in DeferredTargets(q)
            PROVE  <<q, t>> \in linked'
        <4>1. CASE q = r
          BY <2>1, <4>1
        <4>2. CASE q # r
          BY <2>1, <4>2 DEF IInv, WriterInv
        <4> QED
          BY <4>1, <4>2
      <3> QED
        BY <3>1
    <2> HIDE DEF T
    <2>5. \A p \in linked' : p[2] \in saved' \/ Present(p[2])
      <3>1. ASSUME NEW p \in linked'
            PROVE  p[2] \in saved' \/ Present(p[2])
        <4>1. CASE p \in linked
          BY <2>1, <4>1 DEF IInv, WriterInv
        <4>2. CASE p \in {<<r, t>> : t \in T}
          <5>1. PICK t \in T : p = <<r, t>>
            BY <4>2
          <5>2. p[2] = t /\ (t \in cache \/ Present(t))
            BY <5>1, <2>1
          <5> QED
            BY <5>2, <2>1 DEF IInv, WriterInv
        <4> QED
          BY <2>1, <4>1, <4>2
      <3> QED
        BY <3>1
    <2>6. /\ saved' \subseteq cache' \cap Mutable /\ cache' \cap Mutable \subseteq saved'
          /\ \A t \in cache' : t \in saved' \/ Present(t)
      BY <2>1, <2>3 DEF IInv, WriterInv
    <2>7. /\ \A q \in saved' : Dependencies(q) \cap Mutable \subseteq saved'
          /\ \A q \in saved' : \A t \in SetAtOnce(q) : <<q, t>> \in linked'
          /\ \A i \in 1 .. Len(materializing') - 1 : materializing'[i + 1] \in Dependencies(materializing'[i])
          /\ ToSet(materializing') \subseteq Mutable
      BY <2>1 DEF IInv, WriterInv
    <2> QED
      BY <1>1, <2>2, <2>4, <2>5, <2>6, <2>7 DEF WriterInv
  <1>9. CASE Refused
    <2>1. /\ cache' = {} /\ saved' = {} /\ linked' = {} /\ materializing' = <<>>
          /\ UNCHANGED <<local, accepted>>
      BY <1>9 DEF Refused, graph, resolver
    <2>2. ToSet(materializing') = {} /\ Len(materializing') = 0
      BY <2>1, NoCalls
    <2> QED
      BY <2>1, <2>2 DEF WriterInv
  <1>10. CASE SyncComplete \/ Commit \/ UNCHANGED vars
    <2>1. UNCHANGED <<local, accepted, cache, saved, linked, unlinked, materializing>>
      BY <1>10 DEF SyncComplete, Commit, vars, graph, resolver, writer
    <2> QED
      BY <1>4, <2>1 DEF IInv, WriterInv
  <1>11. ASSUME NEW r \in Records, Visit(r) \/ Call(r)
         PROVE  WriterInv'
    BY <1>2, <1>11 DEF Visit, Call
  <1>12. CASE Return \/ Raise \/ Accept \/ Compare
    BY <1>2, <1>12 DEF Return, Raise, Accept, Compare
  <1> QED
    BY <1>5, <1>6, <1>7, <1>8, <1>9, <1>10, <1>11, <1>12 DEF Next, Ended

(* What the comparison found of the plan holds until the end.              *)
LEMMA PhaseStep ==
  ASSUME IInv, [Next]_vars
  PROVE  PhaseInv'
  <1>1. /\ \A r : Targets(r)' = Targets(r)
        /\ \A r : Dependencies(r)' = Dependencies(r)
    <2>1. UNCHANGED <<link, evidence>>
      BY DEF Next, Ended, vars, graph, Visit, Call, Return, Raise, Accept, Compare, VisitElement, Materialize,
         Save, SyncComplete, SetDeferred, Commit, Refused
    <2> QED
      BY <2>1, GraphStays
  <1>2. ASSUME phase = "resolving", UNCHANGED <<phase, writer, outcome>>
        PROVE  PhaseInv'
    BY <1>2 DEF writer, IInv, PhaseInv
  <1>3. ASSUME UNCHANGED <<local, accepted>>
        PROVE  /\ Mutable' = Mutable /\ \A t : Present(t)' = Present(t)
               /\ Orderable(accepted)' = Orderable(accepted)
               /\ phase \in {"syncing", "deferring"} =>
                    /\ Orderable(accepted)'
                    /\ \A r \in accepted' : \A t \in Targets(r)' : t \in accepted' \/ Present(t)'
    <2>1. Mutable' = Mutable /\ \A t : Present(t)' = Present(t)
      BY <1>3 DEF Mutable, Present
    <2>2. Orderable(accepted)' = Orderable(accepted)
      BY <1>1, <1>3 DEF Orderable
    <2> QED
      BY <1>1, <1>3, <2>1, <2>2 DEF IInv, PhaseInv
  <1>4. CASE Compare
    <2>1. /\ phase = "resolving" /\ current = NoRecord /\ UNCHANGED <<resolver, writer>>
          /\ \/ /\ Ready(local') /\ phase' = "syncing" /\ outcome' = outcome
                /\ todo' = {r \in accepted : local'[r] \in {"absent", "differs"}}
             \/ phase' = "ended" /\ outcome' = "not ready"
      BY <1>4 DEF Compare, End
    <2>2. accepted' = accepted /\ materializing' = <<>> /\ outcome = "none"
      BY <2>1 DEF resolver, writer, IInv, PhaseInv
    <2>3. CASE phase' = "ended" /\ outcome' = "not ready"
      BY <2>2, <2>3 DEF PhaseInv
    <2>4. CASE Ready(local') /\ phase' = "syncing"
      <3>1. todo' = Mutable'
        BY <2>1, <2>2, <2>4 DEF Mutable
      <3>2. Orderable(accepted)'
        BY <1>1, <2>2, <2>4 DEF Ready, Orderable
      <3>3. \A r \in accepted' : \A t \in Targets(r)' : t \in accepted' \/ Present(t)'
        BY <1>1, <2>2, <2>4 DEF Ready, Present
      <3> QED
        BY <2>1, <2>2, <2>4, <3>1, <3>2, <3>3 DEF PhaseInv
    <2> QED
      BY <2>1, <2>3, <2>4
  <1>5. ASSUME NEW r \in Records, VisitElement(r)
        PROVE  PhaseInv'
    <2>1. /\ phase = "syncing" /\ r \in todo /\ todo' = todo \ {r} /\ current = NoRecord
          /\ (r \in cache /\ UNCHANGED materializing) \/ materializing' = <<r>>
          /\ UNCHANGED <<local, accepted, saved, phase, outcome>>
      BY <1>5 DEF VisitElement, graph, resolver
    <2>2. materializing = <<>> /\ ToSet(materializing) = {}
      BY <2>1, NoCalls DEF IInv, TypeOK
    <2>3. r \in saved' \cup ToSet(materializing')
      <3>1. CASE r \in cache
        BY <2>1, <3>1 DEF IInv, WriterInv, PhaseInv
      <3>2. CASE materializing' = <<r>>
        BY <3>2 DEF ToSet
      <3> QED
        BY <2>1, <3>1, <3>2
    <2>4. todo' \subseteq Mutable /\ Mutable \subseteq saved' \cup todo' \cup ToSet(materializing')
      BY <2>1, <2>2, <2>3 DEF IInv, PhaseInv
    <2> QED
      BY <1>3, <2>1, <2>4 DEF IInv, PhaseInv
  <1>6. ASSUME NEW d \in Records, Materialize(d)
        PROVE  PhaseInv'
    <2>1. /\ phase = "syncing" /\ materializing' = Append(materializing, d)
          /\ UNCHANGED <<local, accepted, saved, todo, phase, outcome>>
      BY <1>6 DEF Materialize, graph, resolver
    <2>2. ToSet(materializing) \subseteq ToSet(materializing')
      <3>1. materializing \in Seq(Records)
        BY DEF IInv, TypeOK
      <3> QED
        BY <2>1, <3>1, OneMore
    <2>3. todo' \subseteq Mutable /\ Mutable \subseteq saved' \cup todo' \cup ToSet(materializing')
      BY <2>1, <2>2 DEF IInv, PhaseInv
    <2> QED
      BY <1>3, <2>1, <2>3 DEF IInv, PhaseInv
  <1>7. CASE Save
    <2>1. /\ phase = "syncing" /\ materializing # <<>> /\ materializing' = Front(materializing)
          /\ saved' = saved \cup {Last(materializing)}
          /\ UNCHANGED <<local, accepted, todo, phase, outcome>>
      BY <1>7 DEF Save, graph, resolver
    <2>2. ToSet(materializing) \subseteq ToSet(materializing') \cup {Last(materializing)}
      BY <2>1, Innermost DEF IInv, TypeOK
    <2>3. todo' \subseteq Mutable /\ Mutable \subseteq saved' \cup todo' \cup ToSet(materializing')
      BY <2>1, <2>2 DEF IInv, PhaseInv
    <2> QED
      BY <1>3, <2>1, <2>3 DEF IInv, PhaseInv
  <1>8. CASE SyncComplete
    <2>1. /\ phase = "syncing" /\ current = NoRecord /\ todo = {} /\ phase' = "deferring"
          /\ UNCHANGED <<local, accepted, materializing, saved, outcome>>
      BY <1>8 DEF SyncComplete, graph, resolver, writer
    <2>2. materializing = <<>> /\ ToSet(materializing) = {}
      BY <2>1, NoCalls DEF IInv, TypeOK
    <2>3. saved = Mutable
      BY <2>1, <2>2 DEF IInv, WriterInv, PhaseInv
    <2> QED
      BY <1>3, <2>1, <2>2, <2>3 DEF IInv, PhaseInv
  <1>9. ASSUME NEW r \in Records, SetDeferred(r)
        PROVE  PhaseInv'
    <2>1. phase = "deferring" /\ UNCHANGED <<local, accepted, materializing, saved, phase, outcome>>
      BY <1>9 DEF SetDeferred, graph, resolver
    <2> QED
      BY <1>3, <2>1 DEF IInv, PhaseInv
  <1>10. CASE Commit
    <2>1. /\ phase = "deferring" /\ unlinked = {} /\ phase' = "ended" /\ outcome' = "applied"
          /\ UNCHANGED <<local, accepted, writer>>
      BY <1>10 DEF Commit, End, graph, resolver
    <2> QED
      BY <1>3, <2>1 DEF writer, IInv, PhaseInv
  <1>11. CASE Refused
    <2>1. phase' = "ended" /\ outcome' = "refused" /\ materializing' = <<>>
      BY <1>11 DEF Refused, End
    <2> QED
      BY <2>1 DEF PhaseInv
  <1>12. CASE UNCHANGED vars
    <2>1. UNCHANGED <<local, accepted, writer, phase, todo, outcome>>
      BY <1>12 DEF vars, graph, resolver
    <2> QED
      BY <1>3, <2>1 DEF writer, IInv, PhaseInv
  <1>13. ASSUME NEW r \in Records, Visit(r) \/ Call(r)
         PROVE  PhaseInv'
    BY <1>2, <1>13 DEF Visit, Call
  <1>14. CASE Return \/ Raise \/ Accept
    BY <1>2, <1>14 DEF Return, Raise, Accept
  <1> QED
    BY <1>4, <1>5, <1>6, <1>7, <1>8, <1>9, <1>10, <1>11, <1>12, <1>13, <1>14 DEF Next, Ended

-----------------------------------------------------------------------------
(* Theorems                                                                *)

(* The four invariants hold together.                                      *)
LEMMA Invariance == Spec => []IInv
  <1>1. Init => IInv
    <2> SUFFICES ASSUME Init
                 PROVE  IInv
      OBVIOUS
    <2>1. /\ phase = "resolving" /\ todo = Collected /\ current = NoRecord /\ outcome = "none"
          /\ resolving = <<>> /\ identities = {} /\ failures = {} /\ accepted = {} /\ skipped = {}
          /\ materializing = <<>> /\ cache = {} /\ saved = {} /\ linked = {} /\ unlinked = {}
      BY DEF Init
    <2>2. /\ Len(resolving) = 0 /\ Len(materializing) = 0
          /\ ToSet(materializing) = {} /\ <<>> \in Seq(Records)
      BY <2>1, NoCalls
    <2>3. /\ link \in [Records \X Records -> LinkKinds]
          /\ evidence \in [Records -> {"sound", "unnamed", "absent"}]
          /\ local \in [Records -> {"absent", "same", "differs", "ambiguous"}]
      BY DEF Init
    <2>4. TypeOK
      BY <2>1, <2>2, <2>3 DEF TypeOK, Collected
    <2>5. ResolverInv
      BY <2>1, <2>2 DEF ResolverInv
    <2>6. WriterInv /\ PhaseInv
      BY <2>1, <2>2 DEF WriterInv, PhaseInv
    <2> QED
      BY <2>4, <2>5, <2>6 DEF IInv
  <1>2. IInv /\ [Next]_vars => IInv'
    BY TypeStep, ResolverStep, WriterStep, PhaseStep DEF IInv
  <1> QED
    BY <1>1, <1>2, PTL DEF Spec

(* Types are kept.                                                         *)
THEOREM TypeCorrect == Spec => []TypeOK
  <1>1. IInv => TypeOK
    BY DEF IInv
  <1> QED
    BY <1>1, Invariance, PTL

(* _load_source_records accepts exactly the observations whose identity,   *)
(* and that of each of their targets, has a ground: its memos of           *)
(* identities and failures never tell a wrong answer, whatever the order.  *)
THEOREM AcceptsTheGrounded == Spec => []AcceptedIffGrounded
  <1>1. IInv => AcceptedIffGrounded
    <2> SUFFICES ASSUME IInv, phase # "resolving"
                 PROVE  /\ accepted \cup skipped = Collected
                        /\ \A r \in Collected : r \in accepted <=> ({r} \cup Targets(r)) \cap Groundless = {}
      BY DEF AcceptedIffGrounded
    <2>1. accepted \cup skipped = Collected
      BY DEF IInv, ResolverInv
    <2>2. \A r \in accepted : ({r} \cup Targets(r)) \cap Groundless = {}
      BY DEF IInv, ResolverInv
    <2>3. \A r \in skipped : ({r} \cup Targets(r)) \cap Groundless # {}
      BY DEF IInv, ResolverInv
    <2> QED
      BY <2>1, <2>2, <2>3
  <1> QED
    BY <1>1, Invariance, PTL

(* A plan that dependency_order accepts is carried out: the recursive      *)
(* writer neither runs into a circle nor misses the target of a link.      *)
THEOREM CarriesOutPlans == Spec => []PlansAreCarriedOut
  <1>1. IInv => PlansAreCarriedOut
    BY NeverMeetsCycle, NeverMeetsUnavailable DEF PlansAreCarriedOut
  <1> QED
    BY <1>1, Invariance, PTL

(* An object is written after every object of the plan it depends on.      *)
THEOREM WritesTargetsFirst == Spec => []TargetsFirst
  <1>1. IInv => TargetsFirst
    BY DEF IInv, WriterInv, TargetsFirst
  <1> QED
    BY <1>1, Invariance, PTL

(* A committed apply has written every create and update with all links.   *)
THEOREM WritesEveryItem == Spec => []EveryItemIsWritten
  <1>1. IInv => EveryItemIsWritten
    <2> SUFFICES ASSUME IInv, outcome = "applied"
                 PROVE  /\ saved = Mutable
                        /\ \A r \in Mutable : \A t \in Targets(r) : <<r, t>> \in linked
      BY DEF EveryItemIsWritten
    <2>1. saved = Mutable /\ unlinked = {}
      BY DEF IInv, PhaseInv
    <2>2. ASSUME NEW r \in Mutable, NEW t \in Targets(r)
          PROVE  <<r, t>> \in linked
      <3>1. t \in SetAtOnce(r) \/ t \in DeferredTargets(r)
        BY <2>2, LinkSets
      <3> QED
        BY <2>1, <3>1 DEF IInv, WriterInv
    <2> QED
      BY <2>1, <2>2
  <1> QED
    BY <1>1, Invariance, PTL
=============================================================================
