-------------------------- MODULE LagRegisterProofs --------------------------
(***************************************************************************)
(* Proofs about LagRegister: the type invariant and the timestamp order of *)
(* every lag (spec 8.1), for every value of the constants.                 *)
(***************************************************************************)
EXTENDS LagRegister, TLAPS

-----------------------------------------------------------------------------
(* The estimators of PartitionOffsets return numbers on a non-empty        *)
(* history.                                                                *)

LEMMA EstimateOffsetLagType ==
    ASSUME NEW h \in Seq(Sample), h # <<>>, NEW o \in Nat
    PROVE  EstimateOffsetLag(h, o) \in Nat
<1>1. Latest(h) \in Sample
  BY Len(h) \in 1..Len(h) DEF Latest
<1>. QED BY <1>1 DEF EstimateOffsetLag, Sample

LEMMA InterpolationType ==
    ASSUME NEW h \in Seq(Sample), NEW o \in Nat, NEW i \in Int, IsBracket(h, o, i)
    PROVE  h[i].at + ((o - h[i].offset) * (h[i + 1].at - h[i].at))
                       \div (h[i + 1].offset - h[i].offset) \in Int
<1>0. /\ i \in 1..Len(h)
      /\ i + 1 \in 1..Len(h)
      /\ h[i].offset <= o
      /\ o < h[i + 1].offset
  BY DEF IsBracket
<1>1. h[i] \in Sample /\ h[i + 1] \in Sample
  BY <1>0
<1>2. /\ h[i].offset \in Nat /\ h[i + 1].offset \in Nat
      /\ h[i].at \in Nat /\ h[i + 1].at \in Nat
  BY <1>1 DEF Sample
<1>2a. h[i + 1].offset - h[i].offset \in Nat \ {0}
  BY <1>0, <1>2
<1>3. /\ o - h[i].offset \in Int
      /\ h[i + 1].at - h[i].at \in Int
      /\ h[i].at \in Int
  BY <1>2
<1>4. \A a, b \in Int : a * b \in Int
  OBVIOUS
<1>5. \A a \in Int, b \in Nat \ {0} : a \div b \in Int
  OBVIOUS
<1>. QED BY <1>2a, <1>3, <1>4, <1>5

LEMMA EstimateTimeLagType ==
    ASSUME NEW h \in Seq(Sample), h # <<>>, NEW o \in Nat
    PROVE  EstimateTimeLag(h, o) \in Int
<1>1. Latest(h) \in Sample /\ Earliest(h) \in Sample
  BY Len(h) \in 1..Len(h) DEF Latest, Earliest
<1>2. EstimateProductionTime(h, o) \in Int
  <2>1. CASE IsBracket(h, o, Bracket(h, o))
    <3> DEFINE b == Bracket(h, o)
    <3>1. b \in Int
      BY <2>1 DEF IsBracket
    <3>2. h[b].at + ((o - h[b].offset) * (h[b + 1].at - h[b].at))
                      \div (h[b + 1].offset - h[b].offset) \in Int
      BY <2>1, <3>1, InterpolationType
    <3>. QED BY <1>1, <2>1, <3>2 DEF EstimateProductionTime, Sample
  <2>2. CASE ~IsBracket(h, o, Bracket(h, o))
    BY <1>1, <2>2 DEF EstimateProductionTime, Sample
  <2>. QED BY <2>1, <2>2
<1>. QED BY <1>1, <1>2 DEF EstimateTimeLag, Sample

-----------------------------------------------------------------------------
(* Helpers of the reconciler                                               *)

USE ConstantsAssumption, OffsetsHistoryAssumption

LagsType == [Groups -> GroupLags \cup {Nil}]

LEMMA OrZeroType ==
    ASSUME TypeOK, NEW tp \in TPs, NEW o \in Nat
    PROVE  /\ OffsetLagOrZero(tp, o) \in Nat
           /\ TimeLagOrZero(tp, o) \in Int
<1>1. hist[tp] \in Seq(Sample)
  BY DEF TypeOK
<1>2. CASE hist[tp] = <<>>
  BY <1>2 DEF OffsetLagOrZero, TimeLagOrZero
<1>3. CASE hist[tp] # <<>>
  <2>1. EstimateOffsetLag(hist[tp], o) \in Nat /\ EstimateTimeLag(hist[tp], o) \in Int
    BY <1>1, <1>3, EstimateOffsetLagType, EstimateTimeLagType
  <2>. QED BY <1>3, <2>1 DEF OffsetLagOrZero, TimeLagOrZero
<1>. QED BY <1>2, <1>3

\* A refreshed group keeps its type, and a refreshed lag its timestamp order:
\* a lag is refreshed only when stale, that is when now > offset_timestamp.
LEMMA RefreshedGroupProps ==
    ASSUME TypeOK, NEW gl \in GroupLags, NEW R \in RefreshedSets(gl)
    PROVE  /\ RefreshedGroup(gl, R) \in GroupLags
           /\ (\A tp \in TPs : HasLag(gl[tp]) => gl[tp].lag.ts >= gl[tp].lag.offsetTs)
              => \A tp \in TPs : HasLag(RefreshedGroup(gl, R)[tp])
                     => RefreshedGroup(gl, R)[tp].lag.ts
                          >= RefreshedGroup(gl, R)[tp].lag.offsetTs
<1>1. ASSUME NEW tp \in R
      PROVE  /\ gl[tp].lag \in LagRec
             /\ RefreshedLag(gl[tp].lag, tp) \in LagRec
             /\ RefreshedLag(gl[tp].lag, tp).ts >= RefreshedLag(gl[tp].lag, tp).offsetTs
             /\ [gl[tp] EXCEPT !.lag = RefreshedLag(@, tp)] \in LagWithOwner
  <2>1. tp \in TPs /\ HasLag(gl[tp]) /\ IsStale(gl[tp].lag)
    BY <1>1 DEF RefreshedSets, StaleWithData
  <2>2. gl[tp] \in LagWithOwner /\ gl[tp].lag \in LagRec
    BY <2>1 DEF HasLag, GroupLags, LagWithOwner
  <2>3. /\ OffsetLagOrZero(tp, gl[tp].lag.offset) \in Nat
        /\ TimeLagOrZero(tp, gl[tp].lag.offset) \in Int
    BY <2>1, <2>2, OrZeroType DEF LagRec
  <2>4. now \in Nat
    BY DEF TypeOK
  <2>5. RefreshedLag(gl[tp].lag, tp) \in LagRec
    BY <2>2, <2>3, <2>4 DEF RefreshedLag, LagRec
  <2>6. now > gl[tp].lag.offsetTs
    BY <2>1, <2>2, <2>4 DEF IsStale, LagRec
  <2>7. RefreshedLag(gl[tp].lag, tp).ts >= RefreshedLag(gl[tp].lag, tp).offsetTs
    <3>1. /\ RefreshedLag(gl[tp].lag, tp).ts = now
          /\ RefreshedLag(gl[tp].lag, tp).offsetTs = gl[tp].lag.offsetTs
      BY <2>2 DEF RefreshedLag, LagRec
    <3>. QED BY <2>2, <2>4, <2>6, <3>1 DEF LagRec
  <2>8. [gl[tp] EXCEPT !.lag = RefreshedLag(@, tp)]
          = [lag |-> RefreshedLag(gl[tp].lag, tp), owner |-> gl[tp].owner]
    BY <2>2 DEF LagWithOwner
  <2>. QED BY <2>2, <2>5, <2>7, <2>8 DEF LagWithOwner
<1>2. R \subseteq TPs
  <2>1. StaleWithData(gl) \subseteq TPs
    BY DEF StaleWithData
  <2>2. R \in SUBSET StaleWithData(gl)
    BY DEF RefreshedSets
  <2>. QED BY <2>1, <2>2
<1>3. RefreshedGroup(gl, R) \in GroupLags
  <2>1. ASSUME NEW tp \in TPs
        PROVE  RefreshedGroup(gl, R)[tp] \in LagWithOwner \cup {Nil}
    <3>1. CASE tp \in R
      BY <1>1, <3>1 DEF RefreshedGroup
    <3>2. CASE tp \notin R
      BY <3>2 DEF RefreshedGroup, GroupLags
    <3>. QED BY <3>1, <3>2
  <2>. QED BY <2>1 DEF RefreshedGroup, GroupLags
<1>4. ASSUME \A tp \in TPs : HasLag(gl[tp]) => gl[tp].lag.ts >= gl[tp].lag.offsetTs,
             NEW tp \in TPs, HasLag(RefreshedGroup(gl, R)[tp])
      PROVE  RefreshedGroup(gl, R)[tp].lag.ts >= RefreshedGroup(gl, R)[tp].lag.offsetTs
  <2>1. CASE tp \in R
    <3>1. RefreshedGroup(gl, R)[tp].lag = RefreshedLag(gl[tp].lag, tp)
      BY <1>1, <2>1 DEF RefreshedGroup, LagWithOwner
    <3>. QED BY <1>1, <2>1, <3>1
  <2>2. CASE tp \notin R
    BY <1>4, <2>2 DEF RefreshedGroup
  <2>. QED BY <2>1, <2>2
<1>. QED BY <1>3, <1>4

LEMMA UpdateStaleLagsProps ==
    ASSUME TypeOK, NEW reg \in LagsType, NEW reg2, UpdateStaleLags(reg, reg2)
    PROVE  /\ reg2 \in LagsType
           /\ TimestampsOrdered(reg) => TimestampsOrdered(reg2)
<1>1. PICK R \in [Groups -> SUBSET TPs] :
        /\ \A g \in Groups : reg[g] # Nil => R[g] \in RefreshedSets(reg[g])
        /\ reg2 = [g \in Groups |-> IF reg[g] = Nil THEN Nil
                                    ELSE RefreshedGroup(reg[g], R[g])]
  BY DEF UpdateStaleLags
<1>2. ASSUME NEW g \in Groups, reg[g] # Nil
      PROVE  /\ reg[g] \in GroupLags
             /\ R[g] \in RefreshedSets(reg[g])
  BY <1>1, <1>2 DEF LagsType
<1>. QED BY <1>1, <1>2, RefreshedGroupProps DEF LagsType, TimestampsOrdered
LEMMA OwnersType ==
    ASSUME NEW claims, NEW own \in Owners(claims),
           \A m \in DOMAIN claims : claims[m] \subseteq TPs
    PROVE  /\ DOMAIN own \subseteq TPs
           /\ \A tp \in DOMAIN own : own[tp] \in DOMAIN claims
BY DEF Owners

LEMMA ImportedLagsProps ==
    ASSUME NEW gl \in GroupLags \cup {Nil}, NEW own,
           DOMAIN own \subseteq TPs, \A tp \in DOMAIN own : own[tp] \in Members,
           gl # Nil => \A tp \in TPs : HasLag(gl[tp]) => gl[tp].lag.ts >= gl[tp].lag.offsetTs
    PROVE  /\ ImportedLags(gl, own) \in GroupLags
           /\ \A tp \in TPs : HasLag(ImportedLags(gl, own)[tp])
                 => ImportedLags(gl, own)[tp].lag.ts >= ImportedLags(gl, own)[tp].lag.offsetTs
<1>1. ASSUME NEW tp \in TPs, gl # Nil, gl[tp] # Nil
      PROVE  gl[tp].lag \in LagRec \cup {Nil}
  BY <1>1 DEF GroupLags, LagWithOwner
<1>. QED BY <1>1 DEF ImportedLags, GroupLags, LagWithOwner, HasLag

-----------------------------------------------------------------------------
(* The inductive invariant: the type invariant and the timestamp order are *)
(* preserved together (the order is about fields the type gives).          *)

IInv == TypeOK /\ LagTimestampOrder

LEMMA InitIInv == Init => IInv
BY DEF Init, IInv, TypeOK, LagTimestampOrder, TimestampsOrdered, Listing, GroupLags,
       Pcs, HasLag

LEMMA BootImportIInv == IInv /\ BootImport => IInv'
BY DEF IInv, BootImport, StartImport, envVars, TypeOK, LagTimestampOrder, TimestampsOrdered,
       GroupsOf, Pcs, HasLag

LEMMA ImportGroupIInv ==
    ASSUME NEW g \in Groups
    PROVE  IInv /\ ImportGroup(g) => IInv'
<1> SUFFICES ASSUME IInv, ImportGroup(g) PROVE IInv'
  OBVIOUS
<1>1. CASE cgReg[g] = Nil
  BY <1>1 DEF IInv, ImportGroup, envVars, TypeOK, LagTimestampOrder, TimestampsOrdered, Pcs
<1>2. CASE cgReg[g] # Nil
  <2>1. cgReg[g] \in [Members -> SUBSET TPs]
    BY <1>2 DEF IInv, TypeOK, Listing
  <2>2. PICK own \in Owners(cgReg[g]) :
          lagByGroup' = [lagByGroup EXCEPT ![g] = ImportedLags(@, own)]
    BY <1>2 DEF ImportGroup
  <2>3. DOMAIN own \subseteq TPs /\ \A tp \in DOMAIN own : own[tp] \in Members
    BY <2>1, OwnersType
  <2>4. /\ lagByGroup[g] \in GroupLags \cup {Nil}
        /\ lagByGroup[g] # Nil => \A tp \in TPs : HasLag(lagByGroup[g][tp])
               => lagByGroup[g][tp].lag.ts >= lagByGroup[g][tp].lag.offsetTs
    BY DEF IInv, TypeOK, LagTimestampOrder, TimestampsOrdered
  <2>5. /\ ImportedLags(lagByGroup[g], own) \in GroupLags
        /\ \A tp \in TPs : HasLag(ImportedLags(lagByGroup[g], own)[tp])
              => ImportedLags(lagByGroup[g], own)[tp].lag.ts
                   >= ImportedLags(lagByGroup[g], own)[tp].lag.offsetTs
    BY <2>3, <2>4, ImportedLagsProps
  <2>6. TypeOK'
    BY <2>2, <2>5 DEF IInv, ImportGroup, envVars, TypeOK
  <2>7. LagTimestampOrder'
    BY <2>2, <2>5 DEF IInv, ImportGroup, TypeOK, LagTimestampOrder, TimestampsOrdered
  <2>. QED BY <2>6, <2>7 DEF IInv
<1>. QED BY <1>1, <1>2

\* The retain of known_groups only removes groups.
LEMMA RetainKnownProps ==
    ASSUME IInv
    PROVE  /\ RetainKnown \in LagsType
           /\ TimestampsOrdered(RetainKnown)
BY DEF IInv, TypeOK, LagTimestampOrder, TimestampsOrdered, RetainKnown, LagsType

LEMMA BootImportDoneIInv == IInv /\ BootImportDone => IInv'
<1> SUFFICES ASSUME IInv, BootImportDone PROVE IInv'
  OBVIOUS
<1>1. RetainKnown \in LagsType /\ TimestampsOrdered(RetainKnown)
  BY RetainKnownProps
<1>. QED BY <1>1 DEF IInv, BootImportDone, envVars, TypeOK, LagTimestampOrder, LagsType, Pcs

LEMMA BootReadHashIInv == IInv /\ BootReadHash => IInv'
BY DEF IInv, BootReadHash, envVars, TypeOK, LagTimestampOrder, TimestampsOrdered, Pcs

LEMMA TickImportIInv == IInv /\ TickImport => IInv'
BY DEF IInv, TickImport, StartImport, envVars, TypeOK, LagTimestampOrder,
       TimestampsOrdered, GroupsOf, Pcs

LEMMA TickImportDoneIInv == IInv /\ TickImportDone => IInv'
<1> SUFFICES ASSUME IInv, TickImportDone PROVE IInv'
  OBVIOUS
<1>1. RetainKnown \in LagsType /\ TimestampsOrdered(RetainKnown)
  BY RetainKnownProps
<1>2. lagByGroup' \in LagsType /\ TimestampsOrdered(lagByGroup')
  BY <1>1, UpdateStaleLagsProps DEF IInv, TickImportDone
<1>. QED BY <1>2 DEF IInv, TickImportDone, envVars, TypeOK, LagTimestampOrder, LagsType, Pcs

LEMMA TickRefreshIInv == IInv /\ TickRefresh => IInv'
<1> SUFFICES ASSUME IInv, TickRefresh PROVE IInv'
  OBVIOUS
<1>1. lagByGroup' \in LagsType /\ TimestampsOrdered(lagByGroup')
  BY UpdateStaleLagsProps DEF IInv, TickRefresh, TypeOK, LagTimestampOrder, LagsType
<1>. QED BY <1>1 DEF IInv, TickRefresh, envVars, reconcilerVars, TypeOK,
                    LagTimestampOrder, LagsType

\* A commit sets timestamp = offset_timestamp = commit_timestamp.
LEMMA OffsetCommitIInv ==
    ASSUME NEW g \in Groups, NEW tp \in TPs, NEW o \in Nat, NEW ts \in Nat
    PROVE  IInv /\ OffsetCommit(g, tp, o, ts) => IInv'
<1> SUFFICES ASSUME IInv, OffsetCommit(g, tp, o, ts) PROVE IInv'
  OBVIOUS
<1>1. CASE lagByGroup[g] = Nil
  BY <1>1 DEF IInv, OffsetCommit, envVars, reconcilerVars, TypeOK, LagTimestampOrder
<1>2. CASE lagByGroup[g] # Nil
  <2> DEFINE l == [offset |-> o, offsetTs |-> ts, ts |-> ts,
                   offsetLag |-> OffsetLagOrZero(tp, o),
                   timeLag |-> TimeLagOrZero(tp, o)]
             gl == lagByGroup[g]
             e == IF gl[tp] = Nil THEN [lag |-> l, owner |-> Nil]
                  ELSE [gl[tp] EXCEPT !.lag = l]
  <2>1. l \in LagRec /\ l.ts >= l.offsetTs
    BY OrZeroType DEF IInv, LagRec
  <2>2. gl \in GroupLags
    BY <1>2 DEF IInv, TypeOK
  <2>3. e \in LagWithOwner /\ e.lag = l
    BY <2>1, <2>2 DEF GroupLags, LagWithOwner
  <2>4. lagByGroup' = [lagByGroup EXCEPT ![g] = [gl EXCEPT ![tp] = e]]
    BY <1>2 DEF OffsetCommit
  <2>5. TypeOK'
    BY <2>2, <2>3, <2>4 DEF IInv, OffsetCommit, envVars, reconcilerVars, TypeOK, GroupLags
  <2>6. LagTimestampOrder'
    <3> SUFFICES ASSUME NEW g2 \in Groups, NEW tp2 \in TPs,
                        lagByGroup'[g2] # Nil, HasLag(lagByGroup'[g2][tp2])
                 PROVE  lagByGroup'[g2][tp2].lag.ts >= lagByGroup'[g2][tp2].lag.offsetTs
      BY DEF LagTimestampOrder, TimestampsOrdered
    <3>0. /\ lagByGroup \in [Groups -> GroupLags \cup {Nil}]
          /\ DOMAIN gl = TPs
      BY <2>2 DEF IInv, TypeOK, GroupLags
    <3>1. CASE g2 = g /\ tp2 = tp
      <4>1. lagByGroup'[g2][tp2] = e
        BY <2>4, <3>0, <3>1
      <4>. QED BY <2>1, <2>3, <4>1
    <3>2. CASE g2 # g
      <4>1. lagByGroup'[g2] = lagByGroup[g2]
        BY <2>4, <3>0, <3>2
      <4>. QED BY <4>1 DEF IInv, LagTimestampOrder, TimestampsOrdered
    <3>3. CASE g2 = g /\ tp2 # tp
      <4>1. lagByGroup'[g2][tp2] = lagByGroup[g2][tp2] /\ lagByGroup[g2] # Nil
        BY <1>2, <2>4, <3>0, <3>3
      <4>. QED BY <4>1 DEF IInv, LagTimestampOrder, TimestampsOrdered
    <3>. QED BY <3>1, <3>2, <3>3
  <2>. QED BY <2>5, <2>6 DEF IInv
<1>. QED BY <1>1, <1>2

\* GroupMetadata only drops entries and changes owners.
LEMMA GroupMetadataIInv ==
    ASSUME NEW gm \in Metadatas
    PROVE  IInv /\ GroupMetadata(gm) => IInv'
<1> SUFFICES ASSUME IInv, GroupMetadata(gm) PROVE IInv'
  OBVIOUS
<1>1. CASE DOMAIN gm.members = {} \/ lagByGroup[gm.group] = Nil
  BY <1>1 DEF IInv, GroupMetadata, envVars, reconcilerVars, TypeOK, LagTimestampOrder
<1>2. CASE ~(DOMAIN gm.members = {} \/ lagByGroup[gm.group] = Nil)
  <2> DEFINE g == gm.group
             gl == lagByGroup[g]
             Kept(own) == [tp \in TPs |-> IF tp \in DOMAIN own /\ gl[tp] # Nil
                                          THEN [gl[tp] EXCEPT !.owner = own[tp]]
                                          ELSE Nil]
  <2>1. /\ g \in Groups
        /\ \E M \in SUBSET Members : gm.members \in [M -> MemberMetadata]
    BY ConstantsAssumption DEF MetadataEvent
  <2>2. \A m \in DOMAIN Claims(gm.members) : Claims(gm.members)[m] \subseteq TPs
    BY <2>1 DEF Claims, MemberMetadata
  <2>3. PICK own \in Owners(Claims(gm.members)) :
          lagByGroup' = [lagByGroup EXCEPT ![g] = Kept(own)]
    BY <1>2 DEF GroupMetadata
  <2>4. \A tp \in DOMAIN own : own[tp] \in Members
    <3>1. \A tp \in DOMAIN own : own[tp] \in DOMAIN Claims(gm.members)
      BY <2>2, OwnersType
    <3>. QED BY <2>1, <3>1 DEF Claims
  <2>5. gl \in GroupLags
    BY <1>2, <2>1 DEF IInv, TypeOK
  <2>6. ASSUME NEW tp \in TPs
        PROVE  /\ Kept(own)[tp] \in LagWithOwner \cup {Nil}
               /\ Kept(own)[tp] # Nil => Kept(own)[tp].lag = gl[tp].lag
    BY <2>4, <2>5 DEF GroupLags, LagWithOwner
  <2>7. Kept(own) \in GroupLags
    BY <2>6 DEF GroupLags
  <2>8. TypeOK'
    BY <2>1, <2>3, <2>7 DEF IInv, GroupMetadata, envVars, reconcilerVars, TypeOK
  <2>9. LagTimestampOrder'
    <3> SUFFICES ASSUME NEW g2 \in Groups, NEW tp2 \in TPs,
                        lagByGroup'[g2] # Nil, HasLag(lagByGroup'[g2][tp2])
                 PROVE  lagByGroup'[g2][tp2].lag.ts >= lagByGroup'[g2][tp2].lag.offsetTs
      BY DEF LagTimestampOrder, TimestampsOrdered
    <3>0. lagByGroup \in [Groups -> GroupLags \cup {Nil}]
      BY DEF IInv, TypeOK
    <3>1. CASE g2 = g
      <4>1. lagByGroup'[g2][tp2] = Kept(own)[tp2]
        BY <2>1, <2>3, <3>0, <3>1
      <4>2. HasLag(gl[tp2]) /\ gl[tp2].lag = lagByGroup'[g2][tp2].lag
        BY <2>6, <4>1 DEF HasLag
      <4>. QED BY <1>2, <3>1, <4>2 DEF IInv, LagTimestampOrder, TimestampsOrdered
    <3>2. CASE g2 # g
      <4>1. lagByGroup'[g2] = lagByGroup[g2]
        BY <2>3, <3>0, <3>2
      <4>. QED BY <4>1 DEF IInv, LagTimestampOrder, TimestampsOrdered
    <3>. QED BY <3>1, <3>2
  <2>. QED BY <2>8, <2>9 DEF IInv
<1>. QED BY <1>1, <1>2

LEMMA AddSampleType ==
    ASSUME NEW h \in Seq(Sample), NEW smp \in Sample
    PROVE  AddSample(h, smp) \in Seq(Sample)
<1>1. CASE Len(h) < OffsetsHistory
  BY <1>1 DEF AddSample
<1>2. CASE ~(Len(h) < OffsetsHistory)
  <2>1. h # <<>>
    BY <1>2, OffsetsHistoryAssumption
  <2>. QED BY <1>2, <2>1 DEF AddSample
<1>. QED BY <1>1, <1>2

LEMMA EnvironmentIInv == IInv /\ Environment => IInv'
<1> SUFFICES ASSUME IInv, Environment PROVE IInv'
  OBVIOUS
<1>1. CASE \E l \in Listings : UpdateConsumerGroups(l)
  BY <1>1 DEF IInv, UpdateConsumerGroups, reconcilerVars, TypeOK, LagTimestampOrder
<1>2. CASE \E tp \in TPs : Produce(tp)
  BY <1>2 DEF IInv, Produce, reconcilerVars, TypeOK, LagTimestampOrder
<1>3. CASE \E tp \in TPs : PollWatermark(tp)
  <2>1. PICK tp \in TPs : PollWatermark(tp)
    BY <1>3
  <2>2. [offset |-> hw[tp], at |-> now] \in Sample
    BY DEF IInv, TypeOK, Sample
  <2>3. AddSample(hist[tp], [offset |-> hw[tp], at |-> now]) \in Seq(Sample)
    BY <2>2, AddSampleType DEF IInv, TypeOK
  <2>. QED BY <2>1, <2>3 DEF IInv, PollWatermark, reconcilerVars, TypeOK, LagTimestampOrder
<1>4. CASE Clock
  BY <1>4 DEF IInv, Clock, reconcilerVars, TypeOK, LagTimestampOrder, TimestampsOrdered
<1>. QED BY <1>1, <1>2, <1>3, <1>4 DEF Environment

LEMMA ReconcilerIInv == IInv /\ Reconciler => IInv'
<1> SUFFICES ASSUME IInv, Reconciler PROVE IInv'
  OBVIOUS
<1>1. CASE \E g \in Groups, tp \in TPs : \E o \in 0..hw[tp], ts \in CommitTimes :
               OffsetCommit(g, tp, o, ts)
  <2>0. PICK g \in Groups, tp \in TPs :
               \E o \in 0..hw[tp], ts \in CommitTimes : OffsetCommit(g, tp, o, ts)
    BY <1>1
  <2>1. PICK o \in 0..hw[tp], ts \in CommitTimes : OffsetCommit(g, tp, o, ts)
    BY <2>0
  <2>2. o \in Nat /\ ts \in Nat
    BY DEF IInv, TypeOK, CommitTimes
  <2>. QED BY <2>1, <2>2, OffsetCommitIInv
<1>. QED BY <1>1, BootImportIInv, ImportGroupIInv, BootImportDoneIInv, BootReadHashIInv,
            TickImportIInv, TickImportDoneIInv, TickRefreshIInv, GroupMetadataIInv
         DEF Reconciler

LEMMA NextIInv == IInv /\ [Next]_vars => IInv'
<1>1. IInv /\ UNCHANGED vars => IInv'
  BY DEF IInv, vars, envVars, reconcilerVars, TypeOK, LagTimestampOrder, TimestampsOrdered,
         HasLag
<1>. QED BY <1>1, ReconcilerIInv, EnvironmentIInv DEF Next

\* The type invariant holds in every reachable state.
THEOREM TypeCorrect == Spec => []TypeOK
<1>1. IInv => TypeOK
  BY DEF IInv
<1>. QED BY <1>1, InitIInv, NextIInv, PTL DEF Spec

\* Spec 8.1 for every value of the constants: every lag in the register was
\* updated no earlier than the commit it measures, however far ahead of the
\* local clock a commit timestamp is (the refresh's staleness check).
THEOREM TimestampOrderHolds == Spec => []LagTimestampOrder
<1>1. IInv => LagTimestampOrder
  BY DEF IInv
<1>. QED BY <1>1, InitIInv, NextIInv, PTL DEF Spec
=============================================================================
