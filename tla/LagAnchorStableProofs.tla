------------------------- MODULE LagAnchorStableProofs -------------------------
(***************************************************************************)
(* Proof of LagAnchorStable: only process_offset_commit moves the offset   *)
(* and offset_timestamp of a lag, and no handler moves a lag's timestamp   *)
(* backwards.                                                              *)
(*                                                                         *)
(* The refresh case needs a fact LagTimestampOrder does not give: a lag's  *)
(* timestamp is its commit timestamp or a past value of the local clock    *)
(* (TsBound).  A refresh sets timestamp = now on a stale lag, and a stale  *)
(* lag has now > offset_timestamp, so with TsBound the new timestamp is    *)
(* never earlier than the old one, even when the broker's clock ran ahead. *)
(***************************************************************************)
EXTENDS LagRegisterProofs

USE NilAssumption

\* Strengthening: every lag's timestamp is its offset_timestamp (set by a
\* commit) or a local time no later than now (set by a refresh).
TsBound ==
    \A g \in Groups, tp \in TPs :
        HasLagAt(g, tp) => \/ Entry(g, tp).lag.ts = Entry(g, tp).lag.offsetTs
                           \/ Entry(g, tp).lag.ts <= now

\* What one step does to the entry of (g, tp): it is removed, it has no lag
\* before nor after, it keeps its lag, update_stale_lags refreshes its stale
\* lag, or process_offset_commit writes a new lag for it.
LagGone(g, tp) == lagByGroup'[g] = Nil \/ lagByGroup'[g][tp] = Nil
LagAbsent(g, tp) == ~HasLagAt(g, tp) /\ ~HasLagAt(g, tp)'
LagKept(g, tp) ==
    /\ HasLagAt(g, tp) /\ lagByGroup'[g][tp] # Nil
    /\ lagByGroup'[g][tp].lag = Entry(g, tp).lag
LagRefreshed(g, tp) ==
    /\ HasLagAt(g, tp) /\ lagByGroup'[g][tp] # Nil
    /\ IsStale(Entry(g, tp).lag) /\ now' = now
    /\ lagByGroup'[g][tp].lag = RefreshedLag(Entry(g, tp).lag, tp)
LagCommitted(g, tp) ==
    /\ CommitTo(g, tp) /\ lagByGroup'[g][tp] # Nil
    /\ lagByGroup'[g][tp].lag \in LagRec
    /\ lagByGroup'[g][tp].lag.ts = lagByGroup'[g][tp].lag.offsetTs
LagFate(g, tp) ==
    LagGone(g, tp) \/ LagAbsent(g, tp) \/ LagKept(g, tp) \/ LagRefreshed(g, tp)
        \/ LagCommitted(g, tp)

\* An entry that is removed, copied with its lag, or created without a lag
\* where there was none.
LEMMA FateFromEntry ==
    ASSUME NEW g \in Groups, NEW tp \in TPs,
           \/ lagByGroup'[g] = Nil \/ lagByGroup'[g][tp] = Nil
           \/ /\ lagByGroup[g] # Nil /\ lagByGroup[g][tp] # Nil
              /\ lagByGroup'[g][tp].lag = lagByGroup[g][tp].lag
           \/ ~HasLagAt(g, tp) /\ lagByGroup'[g][tp].lag = Nil
    PROVE  LagFate(g, tp)
BY DEF LagFate, LagGone, LagAbsent, LagKept, HasLagAt, HasLag, Entry

\* A step that leaves lag_by_group alone.
LEMMA FateUnchanged ==
    ASSUME NEW g \in Groups, NEW tp \in TPs, lagByGroup' = lagByGroup
    PROVE  LagFate(g, tp)
BY FateFromEntry

\* The final retain of known_groups of the boot import.
LEMMA FateRetain ==
    ASSUME IInv, NEW g \in Groups, NEW tp \in TPs, lagByGroup' = RetainKnown
    PROVE  LagFate(g, tp)
<1>1. lagByGroup'[g] = Nil \/ lagByGroup'[g] = lagByGroup[g]
  BY DEF RetainKnown
<1>. QED BY <1>1, FateFromEntry

\* update_stale_lags over the register reg, which holds each group either
\* as lag_by_group does or not at all (the tick's retain).
LEMMA FateRefresh ==
    ASSUME IInv, NEW reg \in LagsType, UpdateStaleLags(reg, lagByGroup'), now' = now,
           \A g \in Groups : reg[g] = Nil \/ reg[g] = lagByGroup[g],
           NEW g \in Groups, NEW tp \in TPs
    PROVE  LagFate(g, tp)
<1>1. PICK R \in [Groups -> SUBSET TPs] :
        /\ \A g2 \in Groups : reg[g2] # Nil => R[g2] \in RefreshedSets(reg[g2])
        /\ lagByGroup' = [g2 \in Groups |-> IF reg[g2] = Nil THEN Nil
                                           ELSE RefreshedGroup(reg[g2], R[g2])]
  BY DEF UpdateStaleLags
<1>2. CASE reg[g] = Nil
  BY <1>1, <1>2, FateFromEntry
<1>3. CASE reg[g] # Nil
  <2>1. reg[g] = lagByGroup[g] /\ lagByGroup'[g] = RefreshedGroup(lagByGroup[g], R[g])
    BY <1>1, <1>3
  <2>2. R[g] \subseteq StaleWithData(lagByGroup[g])
    BY <1>1, <1>3, <2>1 DEF RefreshedSets
  <2>3. CASE tp \in R[g]
    <3>1. HasLagAt(g, tp) /\ IsStale(Entry(g, tp).lag)
      BY <1>3, <2>1, <2>2, <2>3 DEF StaleWithData, HasLagAt, Entry
    <3>2. lagByGroup[g][tp] \in LagWithOwner
      BY <1>3, <2>1, <3>1 DEF IInv, TypeOK, GroupLags, HasLagAt, HasLag
    <3>3. lagByGroup'[g][tp] = [lagByGroup[g][tp] EXCEPT !.lag = RefreshedLag(@, tp)]
      BY <2>1, <2>3 DEF RefreshedGroup
    <3>5. lagByGroup[g][tp].lag \in LagRec
      BY <3>1, <3>2 DEF LagWithOwner, HasLagAt, HasLag, Entry
    <3>6. RefreshedLag(lagByGroup[g][tp].lag, tp) \in LagRec
      BY <3>5, OrZeroType DEF RefreshedLag, LagRec, IInv, TypeOK
    <3>7. lagByGroup'[g][tp] = [lag |-> RefreshedLag(lagByGroup[g][tp].lag, tp),
                                owner |-> lagByGroup[g][tp].owner]
      BY <3>2, <3>3 DEF LagWithOwner
    <3>4. /\ lagByGroup'[g][tp] # Nil
          /\ lagByGroup'[g][tp].lag = RefreshedLag(Entry(g, tp).lag, tp)
      <4>1. lagByGroup'[g][tp] \in LagWithOwner
        BY <3>2, <3>6, <3>7 DEF LagWithOwner
      <4>. QED BY <3>7, <4>1 DEF Entry
    <3>. QED BY <1>3, <2>1, <3>1, <3>4 DEF LagFate, LagRefreshed
  <2>4. CASE tp \notin R[g]
    <3>1. lagByGroup'[g][tp] = lagByGroup[g][tp]
      BY <2>1, <2>4 DEF RefreshedGroup
    <3>. QED BY <1>3, <2>1, <3>1, FateFromEntry
  <2>. QED BY <2>3, <2>4
<1>. QED BY <1>2, <1>3

\* One iteration of process_consumer_groups' loop.
LEMMA FateImportGroup ==
    ASSUME IInv, NEW g0 \in Groups, ImportGroup(g0), NEW g \in Groups, NEW tp \in TPs
    PROVE  LagFate(g, tp)
<1>1. CASE cgReg[g0] = Nil
  BY <1>1, FateUnchanged DEF ImportGroup
<1>2. CASE cgReg[g0] # Nil
  <2>1. PICK own \in Owners(cgReg[g0]) :
          lagByGroup' = [lagByGroup EXCEPT ![g0] = ImportedLags(lagByGroup[g0], own)]
    BY <1>2 DEF ImportGroup
  <2>2. lagByGroup \in [Groups -> GroupLags \cup {Nil}]
    BY DEF IInv, TypeOK
  <2>3. CASE g = g0
    <3>1. lagByGroup'[g][tp] = ImportedLags(lagByGroup[g], own)[tp]
      BY <2>1, <2>2, <2>3
    <3>. QED BY <3>1, FateFromEntry DEF ImportedLags, HasLagAt, HasLag
  <2>4. CASE g # g0
    BY <2>1, <2>2, <2>4, FateFromEntry
  <2>. QED BY <2>3, <2>4
<1>. QED BY <1>1, <1>2

\* process_group_metadata keeps or drops each entry of the group.
LEMMA FateGroupMetadata ==
    ASSUME IInv, NEW gm \in Metadatas, GroupMetadata(gm), NEW g \in Groups, NEW tp \in TPs
    PROVE  LagFate(g, tp)
<1>1. CASE DOMAIN gm.members = {} \/ lagByGroup[gm.group] = Nil
  BY <1>1, FateUnchanged DEF GroupMetadata
<1>2. CASE ~(DOMAIN gm.members = {} \/ lagByGroup[gm.group] = Nil)
  <2> DEFINE g0 == gm.group
             gl == lagByGroup[g0]
             Keep(own) == [tp2 \in TPs |-> IF tp2 \in DOMAIN own /\ gl[tp2] # Nil
                                          THEN [gl[tp2] EXCEPT !.owner = own[tp2]]
                                          ELSE Nil]
  <2>0. g0 \in Groups
    BY ConstantsAssumption DEF MetadataEvent
  <2>1. PICK own \in Owners(Claims(gm.members)) : lagByGroup' = [lagByGroup EXCEPT ![g0] = Keep(own)]
    BY <1>2 DEF GroupMetadata
  <2>2. lagByGroup \in [Groups -> GroupLags \cup {Nil}] /\ gl \in GroupLags
    BY <1>2, <2>0 DEF IInv, TypeOK
  <2>3. CASE g = g0
    <3>1. lagByGroup'[g][tp] = Keep(own)[tp]
      BY <2>0, <2>1, <2>2, <2>3
    <3>2. Keep(own)[tp] = Nil \/ (gl[tp] # Nil /\ Keep(own)[tp].lag = gl[tp].lag)
      BY <2>2 DEF GroupLags, LagWithOwner
    <3>. QED BY <1>2, <2>3, <3>1, <3>2, FateFromEntry
  <2>4. CASE g # g0
    BY <2>1, <2>2, <2>4, FateFromEntry
  <2>. QED BY <2>3, <2>4
<1>. QED BY <1>1, <1>2

\* process_offset_commit writes the lag of (g0, tp0) and nothing else.
LEMMA FateOffsetCommit ==
    ASSUME IInv, NEW g0 \in Groups, NEW tp0 \in TPs, NEW o \in 0..hw[tp0],
           NEW ts \in CommitTimes, OffsetCommit(g0, tp0, o, ts),
           NEW g \in Groups, NEW tp \in TPs
    PROVE  LagFate(g, tp)
<1>1. CASE lagByGroup[g0] = Nil
  BY <1>1, FateUnchanged DEF OffsetCommit
<1>2. CASE lagByGroup[g0] # Nil
  <2> DEFINE gl == lagByGroup[g0]
             l == [offset |-> o, offsetTs |-> ts, ts |-> ts,
                   offsetLag |-> OffsetLagOrZero(tp0, o), timeLag |-> TimeLagOrZero(tp0, o)]
             e2 == IF gl[tp0] = Nil THEN [lag |-> l, owner |-> Nil] ELSE [gl[tp0] EXCEPT !.lag = l]
  <2>1. lagByGroup' = [lagByGroup EXCEPT ![g0] = [gl EXCEPT ![tp0] = e2]]
    BY <1>2 DEF OffsetCommit
  <2>2. lagByGroup \in [Groups -> GroupLags \cup {Nil}] /\ gl \in GroupLags
    BY <1>2 DEF IInv, TypeOK
  <2>3. o \in Nat /\ ts \in Nat
    BY DEF IInv, TypeOK, CommitTimes
  <2>4. l \in LagRec
    BY <2>3, OrZeroType DEF IInv, LagRec
  <2>5. CASE g = g0 /\ tp = tp0
    <3>1. lagByGroup'[g][tp] = e2
      BY <2>1, <2>2, <2>5 DEF GroupLags
    <3>2. e2 # Nil /\ e2.lag = l
      BY <2>2, <2>4 DEF GroupLags, LagWithOwner
    <3>3. CommitTo(g, tp)
      BY <2>5 DEF CommitTo
    <3>. QED BY <2>4, <3>1, <3>2, <3>3 DEF LagFate, LagCommitted
  <2>6. CASE ~(g = g0 /\ tp = tp0)
    <3>1. CASE lagByGroup[g] = Nil
      <4>1. g # g0 /\ lagByGroup'[g] = Nil
        BY <1>2, <2>1, <2>2, <3>1
      <4>. QED BY <4>1, FateFromEntry
    <3>2. CASE lagByGroup[g] # Nil
      <4>1. lagByGroup'[g][tp] = lagByGroup[g][tp]
        BY <2>1, <2>2, <2>6, <3>2 DEF GroupLags
      <4>. QED BY <3>2, <4>1, FateFromEntry DEF HasLagAt, HasLag
    <3>. QED BY <3>1, <3>2
  <2>. QED BY <2>5, <2>6
<1>. QED BY <1>1, <1>2

\* Every step leaves each entry in one of the five fates.
LEMMA NextFate ==
    ASSUME IInv, [Next]_vars, NEW g \in Groups, NEW tp \in TPs
    PROVE  LagFate(g, tp)
<1>1. CASE \E g0 \in Groups, tp0 \in TPs : \E o \in 0..hw[tp0], ts \in CommitTimes :
               OffsetCommit(g0, tp0, o, ts)
  <2>1. PICK g0 \in Groups, tp0 \in TPs :
               \E o \in 0..hw[tp0], ts \in CommitTimes : OffsetCommit(g0, tp0, o, ts)
    BY <1>1
  <2>2. PICK o \in 0..hw[tp0], ts \in CommitTimes : OffsetCommit(g0, tp0, o, ts)
    BY <2>1
  <2>. QED BY <2>2, FateOffsetCommit
<1>2. CASE \E g0 \in Groups : ImportGroup(g0)
  BY <1>2, FateImportGroup
<1>3. CASE \E gm \in Metadatas : GroupMetadata(gm)
  BY <1>3, FateGroupMetadata
<1>4. CASE BootImportDone
  BY <1>4, FateRetain DEF BootImportDone
<1>5. CASE TickImportDone
  <2>1. RetainKnown \in LagsType
    BY RetainKnownProps
  <2>2. \A g2 \in Groups : RetainKnown[g2] = Nil \/ RetainKnown[g2] = lagByGroup[g2]
    BY DEF RetainKnown
  <2>. QED BY <1>5, <2>1, <2>2, FateRefresh DEF TickImportDone, envVars
<1>6. CASE TickRefresh
  <2>1. lagByGroup \in LagsType
    BY DEF IInv, TypeOK, LagsType
  <2>. QED BY <1>6, <2>1, FateRefresh DEF TickRefresh, envVars
<1>7. CASE BootImport \/ BootReadHash \/ TickImport \/ Environment \/ UNCHANGED vars
  <2>1. lagByGroup' = lagByGroup
    BY <1>7 DEF BootImport, BootReadHash, TickImport, Environment, UpdateConsumerGroups,
                Produce, PollWatermark, Clock, vars
  <2>. QED BY <2>1, FateUnchanged
<1>. QED BY <1>1, <1>2, <1>3, <1>4, <1>5, <1>6, <1>7 DEF Next, Reconciler

\* The local clock never goes back.
LEMMA NowStep ==
    ASSUME IInv, [Next]_vars
    PROVE  now <= now'
<1>1. CASE Clock
  BY <1>1 DEF Clock, IInv, TypeOK
<1>2. CASE ~Clock
  <2>1. now' = now
    BY <1>2 DEF Next, Reconciler, Environment, BootImport, ImportGroup, BootImportDone,
                BootReadHash, TickImport, TickImportDone, TickRefresh, OffsetCommit,
                GroupMetadata, UpdateConsumerGroups, Produce, PollWatermark, envVars, vars
  <2>. QED BY <2>1 DEF IInv, TypeOK
<1>. QED BY <1>1, <1>2

\* TsBound is preserved: a kept lag keeps its timestamp while the clock
\* only advances, a refresh sets it to now, and a commit to its own
\* offset_timestamp.
LEMMA TsBoundStep ==
    ASSUME IInv, TsBound, [Next]_vars
    PROVE  TsBound'
<1> SUFFICES ASSUME NEW g \in Groups, NEW tp \in TPs, HasLagAt(g, tp)'
             PROVE  \/ Entry(g, tp)'.lag.ts = Entry(g, tp)'.lag.offsetTs
                    \/ Entry(g, tp)'.lag.ts <= now'
  BY DEF TsBound
<1>1. now <= now' /\ now' \in Nat
  BY NowStep, NextIInv DEF IInv, TypeOK
<1>2. LagFate(g, tp)
  BY NextFate
<1>3. CASE LagKept(g, tp)
  <2>1. Entry(g, tp).lag \in LagRec
    BY <1>3 DEF LagKept, HasLagAt, HasLag, Entry, IInv, TypeOK, GroupLags, LagWithOwner
  <2>2. \/ Entry(g, tp).lag.ts = Entry(g, tp).lag.offsetTs
        \/ Entry(g, tp).lag.ts <= now
    BY <1>3 DEF LagKept, TsBound
  <2>3. Entry(g, tp)'.lag = Entry(g, tp).lag
    BY <1>3 DEF LagKept, Entry
  <2>4. now \in Nat
    BY DEF IInv, TypeOK
  <2>5. Entry(g, tp).lag.ts \in Nat /\ Entry(g, tp).lag.offsetTs \in Nat
    BY <2>1 DEF LagRec
  <2>. QED BY <1>1, <2>2, <2>3, <2>4, <2>5
<1>4. CASE LagRefreshed(g, tp)
  <2>1. Entry(g, tp).lag \in LagRec
    BY <1>4 DEF LagRefreshed, HasLagAt, HasLag, Entry, IInv, TypeOK, GroupLags, LagWithOwner
  <2>2. Entry(g, tp)'.lag.ts = now'
    BY <1>4, <2>1 DEF LagRefreshed, RefreshedLag, Entry, LagRec
  <2>. QED BY <1>1, <2>2
<1>5. CASE LagCommitted(g, tp)
  BY <1>5 DEF LagCommitted, Entry
<1>6. CASE LagGone(g, tp) \/ LagAbsent(g, tp)
  BY <1>6 DEF LagGone, LagAbsent, HasLagAt, HasLag
<1>. QED BY <1>2, <1>3, <1>4, <1>5, <1>6 DEF LagFate

\* The step form of LagAnchorStable.
LEMMA AnchorStableStep ==
    ASSUME IInv, TsBound, [Next]_vars,
           NEW g \in Groups, NEW tp \in TPs,
           HasLagAt(g, tp), lagByGroup'[g] # Nil, lagByGroup'[g][tp] # Nil
    PROVE  AnchorKept(g, tp) \/ CommitTo(g, tp)
<1>1. Entry(g, tp).lag \in LagRec
  BY DEF HasLagAt, HasLag, Entry, IInv, TypeOK, GroupLags, LagWithOwner
<1>2. LagFate(g, tp)
  BY NextFate
<1>3. CASE LagKept(g, tp)
  BY <1>1, <1>3 DEF LagKept, AnchorKept, Entry, LagRec
<1>4. CASE LagRefreshed(g, tp)
  <2>1. now >= Entry(g, tp).lag.ts
    <3>1. now - Entry(g, tp).lag.offsetTs > LagStaleAfter /\ LagStaleAfter \in Nat
      BY <1>4, ConstantsAssumption DEF LagRefreshed, IsStale
    <3>2. \/ Entry(g, tp).lag.ts = Entry(g, tp).lag.offsetTs
          \/ Entry(g, tp).lag.ts <= now
      BY DEF TsBound
    <3>3. now \in Nat
      BY DEF IInv, TypeOK
    <3>. QED BY <1>1, <3>1, <3>2, <3>3 DEF LagRec
  <2>2. RefreshedLag(Entry(g, tp).lag, tp) \in LagRec
    BY <1>1, OrZeroType DEF RefreshedLag, LagRec, IInv, TypeOK
  <2>. QED BY <1>1, <1>4, <2>1, <2>2 DEF LagRefreshed, AnchorKept, RefreshedLag, LagRec
<1>5. CASE LagCommitted(g, tp)
  BY <1>5 DEF LagCommitted
<1>6. CASE LagGone(g, tp) \/ LagAbsent(g, tp)
  BY <1>6 DEF LagGone, LagAbsent
<1>. QED BY <1>2, <1>3, <1>4, <1>5, <1>6 DEF LagFate

\* The property LagAnchorStable of the lag_register run, for every value of
\* the constants: only process_offset_commit for (g, tp) changes the offset
\* or offset_timestamp of its lag; imports, GroupMetadata and
\* update_stale_lags keep them, and never move its timestamp backwards, even
\* for commits stamped ahead of the local clock.
THEOREM AnchorStableHolds == Spec => LagAnchorStable
<1>1. Init => IInv /\ TsBound
  BY InitIInv DEF Init, TsBound, HasLagAt
<1>2. IInv /\ TsBound /\ [Next]_vars => (IInv /\ TsBound)'
  BY NextIInv, TsBoundStep
<1>3. IInv /\ TsBound /\ [Next]_vars =>
        [lagByGroup' # lagByGroup =>
           \A g \in Groups, tp \in TPs :
              (HasLagAt(g, tp) /\ lagByGroup'[g] # Nil /\ lagByGroup'[g][tp] # Nil)
              => AnchorKept(g, tp) \/ CommitTo(g, tp)]_vars
  BY AnchorStableStep
<1>. QED BY <1>1, <1>2, <1>3, PTL DEF Spec, LagAnchorStable

\* For every value of the constants, a lag's timestamp is its commit's
\* offset_timestamp or a local time already reached: update_stale_lags never
\* stamps a lag with a time ahead of the local clock.
THEOREM TsBoundHolds == Spec => []TsBound
<1>1. Init => IInv /\ TsBound
  BY InitIInv DEF Init, TsBound, HasLagAt
<1>2. IInv /\ TsBound /\ [Next]_vars => (IInv /\ TsBound)'
  BY NextIInv, TsBoundStep
<1>. QED BY <1>1, <1>2, PTL DEF Spec
=============================================================================
