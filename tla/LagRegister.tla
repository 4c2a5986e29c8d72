----------------------------- MODULE LagRegister -----------------------------
(***************************************************************************)
(* The LagRegister of src/src/lag_register/register.rs: the map            *)
(* group -> topic partition -> {lag, owner}, and the single reconciler     *)
(* task that writes it.  The task boots by importing the consumer groups   *)
(* and reading the ConsumerGroupsRegister hash, then loops on a select of  *)
(* an offsets-topic event (OffsetCommit, GroupMetadata) and a 1 s tick     *)
(* (re-import when the hash changed, then refresh the stale lags).         *)
(*                                                                         *)
(* Its environment runs as other tasks and is modelled by what the         *)
(* reconciler reads of it: the ConsumerGroupsRegister content (replaced    *)
(* wholesale by each listing), the cluster's high watermarks, the          *)
(* watermark history the PartitionOffsetsRegister polls, and the clock.    *)
(*                                                                         *)
(* The reconciler is split into steps where it awaits another task's lock  *)
(* (get_groups, get_group, get_hash): those are the points where the       *)
(* ConsumerGroupsRegister can change under it.                             *)
(***************************************************************************)
EXTENDS Integers, Sequences, PartitionOffsets

CONSTANTS
    Groups,         \* consumer group names
    TPs,            \* topic partitions
    Members,        \* group members (their id; client id and host abstracted)
    Listings,       \* the ConsumerGroupsRegister contents a listing can produce
    Metadatas,      \* the GroupMetadata events the offsets topic can carry
    MaxOffset,      \* bound on a partition's high watermark
    MaxTime,        \* bound on the clock (seconds)
    LagStaleAfter,  \* LAG_STALE_AFTER (5 s)
    CommitSkew,     \* how far a commit_timestamp may be from the local clock
    Nil             \* absent group, entry, lag or owner (Option::None)

\* A ConsumerGroupsRegister content: per group, absent or the assignment of
\* each member.
Listing == [Groups -> {Nil} \cup [Members -> SUBSET TPs]]

\* A GroupMetadata event: the group, and per member (a subset of Members)
\* its assigned and its owned (subscription) topic partitions.
MemberMetadata == [assigned : SUBSET TPs, owned : SUBSET TPs]
MetadataEvent ==
    [group : Groups, members : UNION {[M -> MemberMetadata] : M \in SUBSET Members}]

ASSUME ConstantsAssumption ==
    /\ MaxOffset \in Nat
    /\ MaxTime \in Nat
    /\ LagStaleAfter \in Nat
    /\ CommitSkew \in Nat
    /\ Listings \subseteq Listing
    /\ Metadatas \subseteq MetadataEvent
    /\ Nil \notin Members

VARIABLES
    lagByGroup,        \* LagRegister.lag_by_group
    cgReg,             \* the ConsumerGroupsRegister content
    hw,                \* each partition's high watermark in the cluster
    hist,              \* the PartitionOffsetsRegister history per partition
    now,               \* Utc::now(), in seconds
    pc,                \* where the reconciler task is
    knownGroups,       \* known_groups of the running process_consumer_groups
    unvisited,         \* the known groups that loop has not reached yet
    cgRegLatestHash,   \* cg_reg_latest_hash read by the running tick
    cgRegCurrHash      \* cg_reg_curr_hash

reconcilerVars == <<pc, knownGroups, unvisited, cgRegLatestHash, cgRegCurrHash>>
envVars == <<cgReg, hw, hist, now>>
vars == <<lagByGroup, envVars, reconcilerVars>>

\* Lag, LagWithOwner and GroupWithLag.lag_by_topic_partition.
LagRec == [offset : Nat, offsetTs : Nat, ts : Nat, offsetLag : Nat, timeLag : Int]
LagWithOwner == [lag : LagRec \cup {Nil}, owner : Members \cup {Nil}]
GroupLags == [TPs -> LagWithOwner \cup {Nil}]

\* Option::None is neither a Lag, nor a LagWithOwner, nor a group's map.
ASSUME NilAssumption == Nil \notin LagRec \cup LagWithOwner \cup GroupLags

Pcs == {"boot", "bootImport", "bootHash", "idle", "tickImport"}

-----------------------------------------------------------------------------
(* Helpers                                                                 *)

GroupsOf(l) == {g \in Groups : l[g] # Nil}

\* Collecting (tp, member) pairs into a HashMap keeps, for a partition
\* claimed by several members, the last in an unspecified order: any owner
\* that claims it.
Owners(claims) ==
    LET claimed == UNION {claims[m] : m \in DOMAIN claims}
    IN {own \in [claimed -> DOMAIN claims] : \A tp \in claimed : tp \in claims[own[tp]]}

HasLag(e) == e # Nil /\ e.lag # Nil

\* Mutant: the staleness check of update_stale_lags left out.
IsStaleAlways(l) == TRUE

\* Lag::is_stale
IsStale(l) == now - l.offsetTs > LagStaleAfter

\* Mutant: the offset lag without the max(0, ...) of estimate_offset_lag.
OffsetLagOrZeroUnclamped(tp, o) ==
    IF hist[tp] = <<>> THEN 0 ELSE Latest(hist[tp]).offset - o

\* The estimators' NoData error becomes 0.
OffsetLagOrZero(tp, o) == IF hist[tp] = <<>> THEN 0 ELSE EstimateOffsetLag(hist[tp], o)
TimeLagOrZero(tp, o) == IF hist[tp] = <<>> THEN 0 ELSE EstimateTimeLag(hist[tp], o)

\* Mutant: the update path inserts a fresh LagWithOwner, dropping the lag.
ImportedLagsDropLag(gl, own) ==
    [tp \in TPs |-> IF tp \in DOMAIN own THEN [lag |-> Nil, owner |-> own[tp]] ELSE Nil]

\* The entries of a group after process_consumer_groups imported it with the
\* owners own: exactly the owned partitions, each keeping the lag it had.
ImportedLags(gl, own) ==
    [tp \in TPs |->
        IF tp \in DOMAIN own
        THEN [lag |-> IF gl # Nil /\ gl[tp] # Nil THEN gl[tp].lag ELSE Nil,
              owner |-> own[tp]]
        ELSE Nil]

\* update_stale_lags visits a group's entries in HashMap order and BREAKS at
\* the first entry with a lag that is fresh or has no tracked offset.  The
\* entries it refreshes are therefore all the stale ones with data, or, when
\* some entry breaks the loop, any subset of them (those ordered before it).
StaleWithData(gl) ==
    {tp \in TPs : HasLag(gl[tp]) /\ IsStale(gl[tp].lag) /\ hist[tp] # <<>>}
Breakers(gl) == {tp \in TPs : HasLag(gl[tp])} \ StaleWithData(gl)
RefreshedSets(gl) ==
    {R \in SUBSET StaleWithData(gl) : R = StaleWithData(gl) \/ Breakers(gl) # {}}

RefreshedLag(l, tp) ==
    [l EXCEPT !.offsetLag = OffsetLagOrZero(tp, l.offset),
              !.timeLag = TimeLagOrZero(tp, l.offset),
              !.ts = now]

RefreshedGroup(gl, R) ==
    [tp \in TPs |-> IF tp \in R THEN [gl[tp] EXCEPT !.lag = RefreshedLag(@, tp)]
                                ELSE gl[tp]]

\* update_stale_lags over the whole register, under one write lock.
UpdateStaleLags(reg, reg2) ==
    \E R \in [Groups -> SUBSET TPs] :
        /\ \A g \in Groups : reg[g] # Nil => R[g] \in RefreshedSets(reg[g])
        /\ reg2 = [g \in Groups |-> IF reg[g] = Nil THEN Nil
                                    ELSE RefreshedGroup(reg[g], R[g])]

-----------------------------------------------------------------------------
(* The reconciler task                                                     *)

Init ==
    /\ lagByGroup = [g \in Groups |-> Nil]
    /\ cgReg = [g \in Groups |-> Nil]
    /\ hw = [tp \in TPs |-> 0]
    /\ hist = [tp \in TPs |-> <<>>]
    /\ now = 0
    /\ pc = "boot"
    /\ knownGroups = {}
    /\ unvisited = {}
    /\ cgRegLatestHash = Nil
    /\ cgRegCurrHash = Nil

\* process_consumer_groups: get_groups.
StartImport(from, to) ==
    /\ pc = from
    /\ knownGroups' = GroupsOf(cgReg)
    /\ unvisited' = GroupsOf(cgReg)
    /\ pc' = to

BootImport ==
    /\ StartImport("boot", "bootImport")
    /\ UNCHANGED <<lagByGroup, envVars, cgRegLatestHash, cgRegCurrHash>>

\* One iteration of the loop over known_groups: get_group, then insert the
\* group or update its entries under the write lock.  A group gone from the
\* ConsumerGroupsRegister since get_groups is skipped.
ImportGroup(g) ==
    /\ pc \in {"bootImport", "tickImport"}
    /\ g \in unvisited
    /\ unvisited' = unvisited \ {g}
    /\ IF cgReg[g] = Nil
       THEN UNCHANGED lagByGroup
       ELSE \E own \in Owners(cgReg[g]) :
                lagByGroup' = [lagByGroup EXCEPT ![g] = ImportedLags(@, own)]
    /\ UNCHANGED <<envVars, pc, knownGroups, cgRegLatestHash, cgRegCurrHash>>

\* The final retain of known_groups.
RetainKnown == [g \in Groups |-> IF g \in knownGroups THEN lagByGroup[g] ELSE Nil]

\* End of the boot import; the hash is read only afterwards.
BootImportDone ==
    /\ pc = "bootImport"
    /\ unvisited = {}
    /\ lagByGroup' = RetainKnown
    /\ pc' = "bootHash"
    /\ UNCHANGED <<envVars, knownGroups, unvisited, cgRegLatestHash, cgRegCurrHash>>

BootReadHash ==
    /\ pc = "bootHash"
    /\ cgRegCurrHash' = cgReg
    /\ pc' = "idle"
    /\ UNCHANGED <<lagByGroup, envVars, knownGroups, unvisited, cgRegLatestHash>>

\* Tick with a changed hash: remember it and start the import.
TickImport ==
    /\ pc = "idle"
    /\ cgReg # cgRegCurrHash
    /\ cgRegLatestHash' = cgReg
    /\ StartImport("idle", "tickImport")
    /\ UNCHANGED <<lagByGroup, envVars, cgRegCurrHash>>

\* End of the tick's import: retain, record the hash, refresh stale lags.
TickImportDone ==
    /\ pc = "tickImport"
    /\ unvisited = {}
    /\ UpdateStaleLags(RetainKnown, lagByGroup')
    /\ cgRegCurrHash' = cgRegLatestHash
    /\ pc' = "idle"
    /\ UNCHANGED <<envVars, knownGroups, unvisited, cgRegLatestHash>>

\* Tick with an unchanged hash: refresh stale lags.
TickRefresh ==
    /\ pc = "idle"
    /\ cgReg = cgRegCurrHash
    /\ UpdateStaleLags(lagByGroup, lagByGroup')
    /\ UNCHANGED <<envVars, reconcilerVars>>

\* process_offset_commit.  An unknown group, the internal consumer's own or
\* not, leaves the register unchanged (only the logging differs).
OffsetCommit(g, tp, o, ts) ==
    /\ pc = "idle"
    /\ IF lagByGroup[g] = Nil
       THEN UNCHANGED lagByGroup
       ELSE LET l == [offset |-> o, offsetTs |-> ts, ts |-> ts,
                      offsetLag |-> OffsetLagOrZero(tp, o),
                      timeLag |-> TimeLagOrZero(tp, o)]
            IN lagByGroup' = [lagByGroup EXCEPT ![g][tp] =
                                 IF @ = Nil THEN [lag |-> l, owner |-> Nil]
                                 ELSE [@ EXCEPT !.lag = l]]
    /\ UNCHANGED <<envVars, reconcilerVars>>

\* Each member's assigned and owned partitions, chained.
Claims(members) == [m \in DOMAIN members |-> members[m].assigned \cup members[m].owned]

\* Mutant: the kept entries are rebuilt with the new owner and no lag.
GroupMetadataResetsLag(gm) ==
    /\ pc = "idle"
    /\ IF DOMAIN gm.members = {} \/ lagByGroup[gm.group] = Nil
       THEN UNCHANGED lagByGroup
       ELSE \E own \in Owners(Claims(gm.members)) :
              LET gl == lagByGroup[gm.group] IN
              lagByGroup' = [lagByGroup EXCEPT ![gm.group] =
                  [tp \in TPs |-> IF tp \in DOMAIN own /\ gl[tp] # Nil
                                  THEN [lag |-> Nil, owner |-> own[tp]]
                                  ELSE Nil]]
    /\ UNCHANGED <<envVars, reconcilerVars>>

\* process_group_metadata: keep only the entries of partitions in the event
\* and set their owner; new partitions are not added.
GroupMetadata(gm) ==
    /\ pc = "idle"
    /\ IF DOMAIN gm.members = {} \/ lagByGroup[gm.group] = Nil
       THEN UNCHANGED lagByGroup
       ELSE \E own \in Owners(Claims(gm.members)) :
              LET gl == lagByGroup[gm.group] IN
              lagByGroup' = [lagByGroup EXCEPT ![gm.group] =
                  [tp \in TPs |-> IF tp \in DOMAIN own /\ gl[tp] # Nil
                                  THEN [gl[tp] EXCEPT !.owner = own[tp]]
                                  ELSE Nil]]
    /\ UNCHANGED <<envVars, reconcilerVars>>

-----------------------------------------------------------------------------
(* The environment                                                         *)

\* The ConsumerGroupsRegister replaces its content with a new listing.
UpdateConsumerGroups(l) ==
    /\ cgReg' = l
    /\ UNCHANGED <<lagByGroup, hw, hist, now, reconcilerVars>>

\* A producer appends to a partition.
Produce(tp) ==
    /\ hw[tp] < MaxOffset
    /\ hw' = [hw EXCEPT ![tp] = @ + 1]
    /\ UNCHANGED <<lagByGroup, cgReg, hist, now, reconcilerVars>>

\* The watermark poller appends a sample of the current high watermark.
PollWatermark(tp) ==
    /\ hist' = [hist EXCEPT ![tp] = AddSample(@, [offset |-> hw[tp], at |-> now])]
    /\ UNCHANGED <<lagByGroup, cgReg, hw, now, reconcilerVars>>

Clock ==
    /\ now < MaxTime
    /\ now' = now + 1
    /\ UNCHANGED <<lagByGroup, cgReg, hw, hist, reconcilerVars>>

\* A commit's timestamp is the broker's clock at commit time.
CommitTimes == {t \in (now - CommitSkew)..(now + CommitSkew) : t >= 0}

Reconciler ==
    \/ BootImport
    \/ \E g \in Groups : ImportGroup(g)
    \/ BootImportDone
    \/ BootReadHash
    \/ TickImport
    \/ TickImportDone
    \/ TickRefresh
    \/ \E g \in Groups, tp \in TPs : \E o \in 0..hw[tp], ts \in CommitTimes :
           OffsetCommit(g, tp, o, ts)
    \/ \E gm \in Metadatas : GroupMetadata(gm)

Environment ==
    \/ \E l \in Listings : UpdateConsumerGroups(l)
    \/ \E tp \in TPs : Produce(tp) \/ PollWatermark(tp)
    \/ Clock

Next == Reconciler \/ Environment

Spec == Init /\ [][Next]_vars

-----------------------------------------------------------------------------
(* Properties                                                              *)

TypeOK ==
    /\ lagByGroup \in [Groups -> GroupLags \cup {Nil}]
    /\ cgReg \in Listing
    /\ hw \in [TPs -> Nat]
    /\ hist \in [TPs -> Seq(Sample)]
    /\ now \in Nat
    /\ pc \in Pcs
    /\ knownGroups \subseteq Groups
    /\ unvisited \subseteq Groups
    /\ cgRegLatestHash \in Listing \cup {Nil}
    /\ cgRegCurrHash \in Listing \cup {Nil}

Entry(g, tp) == lagByGroup[g][tp]
HasLagAt(g, tp) == lagByGroup[g] # Nil /\ HasLag(lagByGroup[g][tp])

\* Spec 8.1: every lag was last updated no earlier than the commit it
\* measures (timestamp >= offset_timestamp).  A commit timestamp comes from
\* the broker's clock and may be ahead of the local one; only the staleness
\* check in update_stale_lags keeps a refresh (timestamp = now) from
\* setting a timestamp before it.
TimestampsOrdered(reg) ==
    \A g \in Groups, tp \in TPs :
        (reg[g] # Nil /\ HasLag(reg[g][tp])) => reg[g][tp].lag.ts >= reg[g][tp].lag.offsetTs

LagTimestampOrder == TimestampsOrdered(lagByGroup)

CommitTo(g, tp) == \E o \in 0..hw[tp], ts \in CommitTimes : OffsetCommit(g, tp, o, ts)

\* Only an OffsetCommit for (g, tp) moves the anchor of its lag: a step of
\* any other handler (import, GroupMetadata, refresh) that keeps the entry
\* keeps its lag, with the same offset and offset_timestamp, and never moves
\* its timestamp backwards.
AnchorKept(g, tp) ==
    /\ lagByGroup'[g][tp].lag # Nil
    /\ lagByGroup'[g][tp].lag.offset = Entry(g, tp).lag.offset
    /\ lagByGroup'[g][tp].lag.offsetTs = Entry(g, tp).lag.offsetTs
    /\ lagByGroup'[g][tp].lag.ts >= Entry(g, tp).lag.ts

LagAnchorStable ==
    [][lagByGroup' # lagByGroup =>
         \A g \in Groups, tp \in TPs :
             (HasLagAt(g, tp) /\ lagByGroup'[g] # Nil /\ lagByGroup'[g][tp] # Nil)
             => AnchorKept(g, tp) \/ CommitTo(g, tp)]_vars

\* Spec 4.4 (invariant of Refresh): after a reconciler tick, every lag whose
\* offset_timestamp is older than LAG_STALE_AFTER and whose partition has
\* tracked offsets has been refreshed (timestamp = now) by update_stale_lags.
RefreshedAfterTick ==
    [][(TickRefresh \/ TickImportDone) =>
         \A g \in Groups, tp \in TPs :
             (/\ lagByGroup'[g] # Nil /\ HasLag(lagByGroup'[g][tp])
              /\ IsStale(lagByGroup'[g][tp].lag) /\ hist[tp] # <<>>)
             => lagByGroup'[g][tp].lag.ts = now]_vars

\* Spec 8.4: once the reconciler has seen the current ConsumerGroupsRegister
\* hash, the register holds exactly the listed groups.
GroupsSynced ==
    (pc = "idle" /\ cgRegCurrHash = cgReg) => GroupsOf(lagByGroup) = GroupsOf(cgReg)
=============================================================================
