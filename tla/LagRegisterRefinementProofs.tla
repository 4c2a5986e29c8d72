---------------------- MODULE LagRegisterRefinementProofs ----------------------
(***************************************************************************)
(* Proof that the LagRegister implements LagAnchors under the mapping      *)
(* anchorsBar, for every value of the constants.                           *)
(***************************************************************************)
EXTENDS LagRegisterRefinement, LagRegisterProofs

USE RefinementAssumption, NilAssumption

LEMMA AnchorOfType ==
    ASSUME NEW e \in LagWithOwner \cup {Nil}
    PROVE  AnchorOf(e) \in LA!EntryState
BY DEF AnchorOf, LagWithOwner, LagRec, LA!EntryState, LA!Anchor

LEMMA GroupAnchorsType ==
    ASSUME NEW gl \in GroupLags
    PROVE  GroupAnchors(gl) \in [TPs -> LA!EntryState]
BY AnchorOfType DEF GroupAnchors, GroupLags

\* A refresh rewrites the lag estimates and the timestamp, never the anchor.
LEMMA RefreshedLagAnchor ==
    ASSUME TypeOK, NEW tp \in TPs, NEW e \in LagWithOwner, e.lag # Nil
    PROVE  AnchorOf([e EXCEPT !.lag = RefreshedLag(@, tp)]) = AnchorOf(e)
<1>1. e.lag \in LagRec
  BY DEF LagWithOwner
<1>2. e.lag.offset \in Nat
  BY <1>1 DEF LagRec
<1>3. RefreshedLag(e.lag, tp) \in LagRec
  BY <1>1, <1>2, OrZeroType DEF RefreshedLag, LagRec, TypeOK
<1>4. /\ RefreshedLag(e.lag, tp).offset = e.lag.offset
      /\ RefreshedLag(e.lag, tp).offsetTs = e.lag.offsetTs
  BY <1>1 DEF RefreshedLag, LagRec
<1> DEFINE ne == [e EXCEPT !.lag = RefreshedLag(@, tp)]
<1>5. ne = [lag |-> RefreshedLag(e.lag, tp), owner |-> e.owner]
  BY DEF LagWithOwner
<1>6. ne \in LagWithOwner
  BY <1>3, <1>5 DEF LagWithOwner
<1>7. ne # Nil /\ ne.lag # Nil /\ e # Nil
  BY <1>3, <1>5, <1>6
<1>. QED BY <1>4, <1>5, <1>7 DEF AnchorOf

LEMMA RefreshKeepsAnchors ==
    ASSUME TypeOK, NEW reg \in LagsType, NEW reg2, UpdateStaleLags(reg, reg2)
    PROVE  AnchorsOf(reg2) = AnchorsOf(reg)
<1>1. PICK R \in [Groups -> SUBSET TPs] :
        /\ \A g \in Groups : reg[g] # Nil => R[g] \in RefreshedSets(reg[g])
        /\ reg2 = [g \in Groups |-> IF reg[g] = Nil THEN Nil
                                    ELSE RefreshedGroup(reg[g], R[g])]
  BY DEF UpdateStaleLags
<1>2. ASSUME NEW g \in Groups, reg[g] # Nil
      PROVE  GroupAnchors(RefreshedGroup(reg[g], R[g])) = GroupAnchors(reg[g])
  <2>1. reg[g] \in GroupLags
    BY <1>2 DEF LagsType
  <2>2. R[g] \subseteq StaleWithData(reg[g])
    BY <1>1, <1>2 DEF RefreshedSets
  <2>3. ASSUME NEW tp \in TPs
        PROVE  AnchorOf(RefreshedGroup(reg[g], R[g])[tp]) = AnchorOf(reg[g][tp])
    <3>1. CASE tp \in R[g]
      <4>1. reg[g][tp] \in LagWithOwner /\ reg[g][tp].lag # Nil
        BY <2>1, <2>2, <3>1 DEF StaleWithData, HasLag, GroupLags
      <4>2. RefreshedGroup(reg[g], R[g])[tp]
              = [reg[g][tp] EXCEPT !.lag = RefreshedLag(@, tp)]
        BY <3>1 DEF RefreshedGroup
      <4>. QED BY <4>1, <4>2, RefreshedLagAnchor
    <3>2. CASE tp \notin R[g]
      BY <3>2 DEF RefreshedGroup
    <3>. QED BY <3>1, <3>2
  <2>. QED BY <2>3 DEF GroupAnchors
<1>3. ASSUME NEW g \in Groups
      PROVE  AnchorsOf(reg2)[g] = AnchorsOf(reg)[g]
  <2>1. CASE reg[g] = Nil
    BY <1>1, <2>1 DEF AnchorsOf
  <2>2. CASE reg[g] # Nil
    <3>1. reg2[g] = RefreshedGroup(reg[g], R[g])
      BY <1>1, <2>2
    <3>2. reg2[g] # Nil
      <4>1. reg[g] \in GroupLags
        BY <2>2 DEF LagsType
      <4>2. RefreshedGroup(reg[g], R[g]) \in GroupLags
        BY <4>1, <1>1, <2>2, RefreshedGroupProps
      <4>. QED BY <3>1, <4>2
    <3>. QED BY <1>2, <2>2, <3>1, <3>2 DEF AnchorsOf
  <2>. QED BY <2>1, <2>2
<1>. QED BY <1>3 DEF AnchorsOf

\* Writing one group of the register rewrites that group's anchors only.
LEMMA AnchorsOfExcept ==
    ASSUME NEW reg \in LagsType, NEW g \in Groups, NEW gl2 \in GroupLags
    PROVE  AnchorsOf([reg EXCEPT ![g] = gl2]) = [AnchorsOf(reg) EXCEPT ![g] = GroupAnchors(gl2)]
BY DEF AnchorsOf, LagsType

\* A step that leaves lag_by_group alone leaves the anchors alone.
LEMMA StutterStep ==
    ASSUME lagByGroup' = lagByGroup
    PROVE  UNCHANGED anchorsBar
BY DEF anchorsBar

\* A rewrite of a known group that drops entries, keeps the lag of the
\* others, and creates new entries only without a lag is a Reshape.
LEMMA ReshapeStep ==
    ASSUME lagByGroup \in LagsType, NEW g \in Groups, lagByGroup[g] # Nil,
           NEW gl2 \in GroupLags, lagByGroup' = [lagByGroup EXCEPT ![g] = gl2],
           \A tp \in TPs : \/ gl2[tp] = Nil
                           \/ lagByGroup[g][tp] # Nil /\ gl2[tp].lag = lagByGroup[g][tp].lag
                           \/ lagByGroup[g][tp] = Nil /\ gl2[tp].lag = Nil
    PROVE  LA!Reshape(g)
<1>1. anchorsBar' = [anchorsBar EXCEPT ![g] = GroupAnchors(gl2)]
  BY AnchorsOfExcept DEF anchorsBar
<1>2. anchorsBar[g] = GroupAnchors(lagByGroup[g])
  BY DEF anchorsBar, AnchorsOf
<1>3. anchorsBar[g] # Nil
  BY <1>2, GroupAnchorsType DEF LagsType
<1>4. anchorsBar'[g] = GroupAnchors(gl2) /\ GroupAnchors(gl2) \in [TPs -> LA!EntryState]
  BY <1>1, GroupAnchorsType DEF anchorsBar, AnchorsOf
<1>5. ASSUME NEW tp \in TPs
      PROVE  \/ anchorsBar'[g][tp] \in {anchorsBar[g][tp], Absent}
             \/ anchorsBar[g][tp] = Absent /\ anchorsBar'[g][tp] = NoLag
  <2>1. anchorsBar'[g][tp] = AnchorOf(gl2[tp]) /\ anchorsBar[g][tp] = AnchorOf(lagByGroup[g][tp])
    BY <1>2, <1>4 DEF GroupAnchors
  <2>2. CASE gl2[tp] = Nil
    BY <2>1, <2>2 DEF AnchorOf
  <2>3. CASE gl2[tp] # Nil /\ lagByGroup[g][tp] # Nil /\ gl2[tp].lag = lagByGroup[g][tp].lag
    BY <2>1, <2>3 DEF AnchorOf
  <2>4. CASE gl2[tp] # Nil /\ lagByGroup[g][tp] = Nil /\ gl2[tp].lag = Nil
    BY <2>1, <2>4 DEF AnchorOf
  <2>. QED BY <2>2, <2>3, <2>4
<1>6. anchorsBar' = [anchorsBar EXCEPT ![g] = anchorsBar'[g]]
  BY <1>1, <1>4
<1>. QED BY <1>3, <1>4, <1>5, <1>6 DEF LA!Reshape

\* process_offset_commit on a known group is a Commit; on an unknown one a
\* stutter.
LEMMA OffsetCommitStep ==
    ASSUME IInv, NEW g \in Groups, NEW tp \in TPs, NEW o \in Nat, NEW ts \in Nat,
           OffsetCommit(g, tp, o, ts)
    PROVE  [LA!Next]_anchorsBar
<1>1. CASE lagByGroup[g] = Nil
  BY <1>1, StutterStep DEF OffsetCommit
<1>2. CASE lagByGroup[g] # Nil
  <2> DEFINE gl == lagByGroup[g]
             l == [offset |-> o, offsetTs |-> ts, ts |-> ts,
                   offsetLag |-> OffsetLagOrZero(tp, o), timeLag |-> TimeLagOrZero(tp, o)]
             e2 == IF gl[tp] = Nil THEN [lag |-> l, owner |-> Nil] ELSE [gl[tp] EXCEPT !.lag = l]
             gl2 == [gl EXCEPT ![tp] = e2]
  <2>1. gl \in GroupLags /\ lagByGroup \in LagsType
    BY <1>2 DEF IInv, TypeOK, LagsType
  <2>2. l \in LagRec
    BY OrZeroType DEF IInv, LagRec
  <2>3. e2 \in LagWithOwner /\ e2.lag = l
    BY <2>1, <2>2 DEF GroupLags, LagWithOwner
  <2>4. gl2 \in GroupLags
    BY <2>1, <2>3 DEF GroupLags
  <2>5. lagByGroup' = [lagByGroup EXCEPT ![g] = gl2]
    BY <1>2 DEF OffsetCommit
  <2>6. anchorsBar' = [anchorsBar EXCEPT ![g] = GroupAnchors(gl2)]
    BY <2>1, <2>4, <2>5, AnchorsOfExcept DEF anchorsBar
  <2>7. anchorsBar[g] = GroupAnchors(gl) /\ anchorsBar[g] # Nil
    BY <1>2, <2>1, GroupAnchorsType DEF anchorsBar, AnchorsOf
  <2>8. AnchorOf(e2) = [offset |-> o, offsetTs |-> ts]
    BY <2>2, <2>3 DEF AnchorOf
  <2>9. GroupAnchors(gl2) = [GroupAnchors(gl) EXCEPT ![tp] = AnchorOf(e2)]
    BY <2>1 DEF GroupAnchors, GroupLags
  <2>10. anchorsBar'[g] = [GroupAnchors(gl) EXCEPT ![tp] = [offset |-> o, offsetTs |-> ts]]
    BY <2>6, <2>8, <2>9 DEF anchorsBar, AnchorsOf
  <2>11. anchorsBar'[g] \in [TPs -> LA!EntryState]
    BY <2>4, <2>6, GroupAnchorsType DEF anchorsBar, AnchorsOf
  <2>12. anchorsBar'[g][tp] \in LA!Anchor
    BY <2>1, <2>10, GroupAnchorsType DEF LA!Anchor
  <2>13. anchorsBar' = [anchorsBar EXCEPT ![g][tp] = anchorsBar'[g][tp]]
    <3>1. anchorsBar'[g] = [anchorsBar[g] EXCEPT ![tp] = anchorsBar'[g][tp]]
      BY <2>7, <2>10 DEF GroupAnchors
    <3>2. anchorsBar' = [anchorsBar EXCEPT ![g] = anchorsBar'[g]]
      BY <2>6 DEF anchorsBar, AnchorsOf
    <3>. QED BY <3>1, <3>2
  <2>14. LA!Commit(g, tp)
    BY <2>7, <2>11, <2>12, <2>13 DEF LA!Commit
  <2>. QED BY <2>14 DEF LA!Next
<1>. QED BY <1>1, <1>2

\* One iteration of the import: a new group is an Open of the partitions
\* its members own, an imported known group a Reshape.
LEMMA ImportGroupStep ==
    ASSUME IInv, NEW g \in Groups, ImportGroup(g)
    PROVE  [LA!Next]_anchorsBar
<1>1. CASE cgReg[g] = Nil
  BY <1>1, StutterStep DEF ImportGroup
<1>2. CASE cgReg[g] # Nil
  <2> DEFINE gl == lagByGroup[g]
  <2>1. cgReg[g] \in [Members -> SUBSET TPs]
    BY <1>2 DEF IInv, TypeOK, Listing
  <2>2. PICK own \in Owners(cgReg[g]) :
          lagByGroup' = [lagByGroup EXCEPT ![g] = ImportedLags(gl, own)]
    BY <1>2 DEF ImportGroup
  <2>3. DOMAIN own \subseteq TPs /\ \A tp \in DOMAIN own : own[tp] \in Members
    BY <2>1, OwnersType
  <2>4. /\ gl \in GroupLags \cup {Nil}
        /\ gl # Nil => \A tp \in TPs : HasLag(gl[tp]) => gl[tp].lag.ts >= gl[tp].lag.offsetTs
        /\ lagByGroup \in LagsType
    BY DEF IInv, TypeOK, LagTimestampOrder, TimestampsOrdered, LagsType
  <2>5. ImportedLags(gl, own) \in GroupLags
    BY <2>3, <2>4, ImportedLagsProps
  <2>6. CASE gl = Nil
    <3>1. anchorsBar' = [anchorsBar EXCEPT ![g] = GroupAnchors(ImportedLags(gl, own))]
      BY <2>2, <2>4, <2>5, AnchorsOfExcept DEF anchorsBar
    <3>2. GroupAnchors(ImportedLags(gl, own))
            = [tp \in TPs |-> IF tp \in DOMAIN own THEN NoLag ELSE Absent]
      BY <2>3, <2>6 DEF GroupAnchors, ImportedLags, AnchorOf, LagWithOwner
    <3>3. anchorsBar[g] = Nil
      BY <2>6 DEF anchorsBar, AnchorsOf
    <3>4. LA!Open(g, DOMAIN own)
      BY <3>1, <3>2, <3>3 DEF LA!Open
    <3>. QED BY <2>3, <3>4 DEF LA!Next
  <2>7. CASE gl # Nil
    <3>1. \A tp \in TPs : \/ ImportedLags(gl, own)[tp] = Nil
                          \/ gl[tp] # Nil /\ ImportedLags(gl, own)[tp].lag = gl[tp].lag
                          \/ gl[tp] = Nil /\ ImportedLags(gl, own)[tp].lag = Nil
      BY <2>7 DEF ImportedLags
    <3>2. LA!Reshape(g)
      BY <2>2, <2>4, <2>5, <2>7, <3>1, ReshapeStep
    <3>. QED BY <3>2 DEF LA!Next
  <2>. QED BY <2>6, <2>7
<1>. QED BY <1>1, <1>2

\* process_group_metadata only drops entries and sets owners: a Reshape.
LEMMA GroupMetadataStep ==
    ASSUME IInv, NEW gm \in Metadatas, GroupMetadata(gm)
    PROVE  [LA!Next]_anchorsBar
<1>1. CASE DOMAIN gm.members = {} \/ lagByGroup[gm.group] = Nil
  BY <1>1, StutterStep DEF GroupMetadata
<1>2. CASE ~(DOMAIN gm.members = {} \/ lagByGroup[gm.group] = Nil)
  <2> DEFINE g == gm.group
             gl == lagByGroup[g]
             Kept(own) == [tp \in TPs |-> IF tp \in DOMAIN own /\ gl[tp] # Nil
                                          THEN [gl[tp] EXCEPT !.owner = own[tp]]
                                          ELSE Nil]
  <2>1. /\ g \in Groups
        /\ \E M \in SUBSET Members : gm.members \in [M -> MemberMetadata]
    BY ConstantsAssumption DEF MetadataEvent
  <2>2. \A m \in DOMAIN Claims(gm.members) : Claims(gm.members)[m] \subseteq TPs
    BY <2>1 DEF Claims, MemberMetadata
  <2>3. PICK own \in Owners(Claims(gm.members)) :
          lagByGroup' = [lagByGroup EXCEPT ![g] = Kept(own)]
    BY <1>2 DEF GroupMetadata
  <2>4. \A tp \in DOMAIN own : own[tp] \in Members
    <3>1. \A tp \in DOMAIN own : own[tp] \in DOMAIN Claims(gm.members)
      BY <2>2, OwnersType
    <3>. QED BY <2>1, <3>1 DEF Claims
  <2>5. gl \in GroupLags /\ lagByGroup \in LagsType
    BY <1>2, <2>1 DEF IInv, TypeOK, LagsType
  <2>6. ASSUME NEW tp \in TPs
        PROVE  /\ Kept(own)[tp] \in LagWithOwner \cup {Nil}
               /\ \/ Kept(own)[tp] = Nil
                  \/ gl[tp] # Nil /\ Kept(own)[tp].lag = gl[tp].lag
    BY <2>4, <2>5 DEF GroupLags, LagWithOwner
  <2>7. Kept(own) \in GroupLags
    BY <2>6 DEF GroupLags
  <2>8. LA!Reshape(g)
    BY <1>2, <2>1, <2>3, <2>5, <2>6, <2>7, ReshapeStep
  <2>. QED BY <2>1, <2>8 DEF LA!Next
<1>. QED BY <1>1, <1>2

\* The final retain of known_groups forgets the groups no longer listed.
LEMMA RetainKnownAnchors ==
    AnchorsOf(RetainKnown)
      = [g \in Groups |-> IF g \in Groups \ knownGroups THEN Nil ELSE anchorsBar[g]]
BY DEF AnchorsOf, RetainKnown, anchorsBar

LEMMA BootImportDoneStep ==
    ASSUME IInv, BootImportDone
    PROVE  [LA!Next]_anchorsBar
<1>1. anchorsBar' = AnchorsOf(RetainKnown)
  BY DEF BootImportDone, anchorsBar
<1>2. LA!Close(Groups \ knownGroups)
  BY <1>1, RetainKnownAnchors DEF LA!Close
<1>. QED BY <1>2 DEF LA!Next

\* The tick's retain, then update_stale_lags: the refresh keeps the anchors.
LEMMA TickImportDoneStep ==
    ASSUME IInv, TickImportDone
    PROVE  [LA!Next]_anchorsBar
<1>1. RetainKnown \in LagsType
  BY RetainKnownProps
<1>2. anchorsBar' = AnchorsOf(RetainKnown)
  BY <1>1, RefreshKeepsAnchors DEF IInv, TickImportDone, anchorsBar
<1>3. LA!Close(Groups \ knownGroups)
  BY <1>2, RetainKnownAnchors DEF LA!Close
<1>. QED BY <1>3 DEF LA!Next

LEMMA TickRefreshStep ==
    ASSUME IInv, TickRefresh
    PROVE  UNCHANGED anchorsBar
<1>1. lagByGroup \in LagsType
  BY DEF IInv, TypeOK, LagsType
<1>. QED BY <1>1, RefreshKeepsAnchors DEF IInv, TickRefresh, anchorsBar

\* Every step of the reconciler is a LagAnchors step or a stutter of it.
LEMMA ReconcilerStep ==
    ASSUME IInv, Reconciler
    PROVE  [LA!Next]_anchorsBar
<1>1. CASE \E g \in Groups, tp \in TPs : \E o \in 0..hw[tp], ts \in CommitTimes :
               OffsetCommit(g, tp, o, ts)
  <2>0. PICK g \in Groups, tp \in TPs :
               \E o \in 0..hw[tp], ts \in CommitTimes : OffsetCommit(g, tp, o, ts)
    BY <1>1
  <2>1. PICK o \in 0..hw[tp], ts \in CommitTimes : OffsetCommit(g, tp, o, ts)
    BY <2>0
  <2>2. o \in Nat /\ ts \in Nat
    BY DEF IInv, TypeOK, CommitTimes
  <2>. QED BY <2>1, <2>2, OffsetCommitStep
<1>2. CASE \E g \in Groups : ImportGroup(g)
  BY <1>2, ImportGroupStep
<1>3. CASE \E gm \in Metadatas : GroupMetadata(gm)
  BY <1>3, GroupMetadataStep
<1>4. CASE BootImport \/ BootReadHash \/ TickImport
  BY <1>4, StutterStep DEF BootImport, BootReadHash, TickImport
<1>. QED BY <1>1, <1>2, <1>3, <1>4, BootImportDoneStep, TickImportDoneStep, TickRefreshStep
         DEF Reconciler

LEMMA NextStep ==
    ASSUME IInv, [Next]_vars
    PROVE  [LA!Next]_anchorsBar
<1>1. CASE Environment
  BY <1>1, StutterStep DEF Environment, UpdateConsumerGroups, Produce, PollWatermark, Clock
<1>2. CASE UNCHANGED vars
  BY <1>2, StutterStep DEF vars
<1>. QED BY <1>1, <1>2, ReconcilerStep DEF Next

\* For every value of the constants, the register implements LagAnchors
\* (the property Refinement): no handler but process_offset_commit alters a
\* committed offset or offset_timestamp, and entries only appear without a lag.
THEOREM RefinementHolds == Spec => Refinement
<1>1. Init => LA!Init
  BY DEF Init, LA!Init, anchorsBar, AnchorsOf
<1>2. IInv /\ [Next]_vars => [LA!Next]_anchorsBar
  BY NextStep
<1>. QED BY <1>1, <1>2, InitIInv, NextIInv, PTL DEF Spec, Refinement, LA!Spec
=============================================================================
