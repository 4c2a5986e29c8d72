# TLA+ models of kcl (kommitted)

This directory holds TLA+ models of the Kafka consumer-lag exporter under
`src/`, the TLC configurations that check them, and the TLAPS proofs of
their main invariants.

## The system

kcl runs as a set of tokio tasks that talk over channels and shared maps:

| Part | Source | Role |
|---|---|---|
| ClusterStatusEmitter | `src/cluster_status/emitter.rs` | Polls the cluster metadata every second and sends a snapshot on a channel of depth 1 (`send_timeout` 100 ms) |
| ConsumerGroupsEmitter | `src/consumer_groups/emitter.rs` | The same loop for the consumer-group list |
| KonsumerOffsetsDataEmitter | not under `src/` | Streams `OffsetCommit` and `GroupMetadata` events from `__consumer_offsets` |
| ConsumerGroupsRegister | not under `src/` | The latest group listing and a hash of it |
| PartitionOffsetsRegister | not under `src/` | A bounded FIFO history of high-watermark samples per partition, and the offset- and time-lag estimators |
| LagRegister | `src/lag_register/register.rs` | The map `group -> partition -> {lag, owner}`, written by one reconciler task |
| HTTP metrics | `src/http/mod.rs` | Renders the LagRegister as three Prometheus families |
| main | `src/main.rs` | Spawns the tasks and broadcasts the Ctrl-C shutdown signal |

The LagRegister's reconciler runs this sequence:

1. At boot it imports the groups (`process_consumer_groups`), then reads
   the ConsumerGroupsRegister hash.
2. It then loops on a `select!` of two branches:
   - an offsets-topic event, handled by `process_offset_commit` or
     `process_group_metadata`;
   - a 1 s tick, which re-imports the groups if the hash changed and then
     runs `update_stale_lags`.

Every write to the map takes its `RwLock`. The ConsumerGroupsRegister,
the watermark poller and the clock are other tasks. They can change what
the reconciler reads at every `.await`.

## Modules

- **`PartitionOffsets.tla`** (modelled from spec 4.2, whose code is not
  under `src/`)
  - A history is a sequence of `[offset, at]` samples.
  - `AddSample` appends a sample and evicts FIFO at `OffsetsHistory`.
  - `EstimateOffsetLag` and `EstimateTimeLag` compute the two estimates,
    with the linear interpolation between the bracketing samples.
- **`LagRegister.tla`** models `register.rs`.
  - State:
    - `lagByGroup` is `lag_by_group`, with `Nil` for `None`.
    - `pc` is the reconciler's position: `boot`, `bootImport`, `bootHash`,
      `idle`, `tickImport`.
    - `knownGroups` and `unvisited` are the `known_groups` loop of
      `process_consumer_groups`.
    - `cgRegLatestHash` and `cgRegCurrHash` are the two hashes.
  - The reconciler is split at the awaits where the environment can
    interfere:
    - `BootImport` and `TickImport` call `get_groups`.
    - `ImportGroup(g)` is one loop iteration: `get_group`, then the write
      lock.
    - `BootImportDone` and `TickImportDone` are the final `retain`. For a
      tick, the same step also records the hash and runs
      `update_stale_lags`.
    - `BootReadHash` is the boot `get_hash`.
    - `TickRefresh` is a tick with an unchanged hash.
    - `OffsetCommit(g, tp, o, ts)` is `process_offset_commit`.
    - `GroupMetadata(gm)` is `process_group_metadata`.
  - `HashMap` iteration order is a nondeterministic choice:
    - `Owners` picks the last of several claiming members.
    - `RefreshedSets` picks the prefix that `update_stale_lags` reaches
      before its `break`.
  - The environment actions:
    - `UpdateConsumerGroups` replaces the listing.
    - `Produce` raises a high watermark.
    - `PollWatermark` appends a sample.
    - `Clock` advances the clock.
  - A commit's timestamp is the broker's clock. It may differ from the
    local clock by up to `CommitSkew`.
  - The ConsumerGroupsRegister hash is modelled as an ideal hash: the
    listing itself.
- **`Emitter.tla`** models the loop that both emitters share.
  - `FetchOk` and `FetchErr` are the fetch and its two outcomes.
  - `SendOk`, `SendTimeout` and `ShutdownBranch` are the three ways the
    `select!` can complete.
  - `Tick` is `interval.tick()`.
  - `Signal` is the Ctrl-C handler's broadcast.
  - `Receive` is the register that drains the channel.
  - A snapshot is represented by the version of the cluster state it was
    fetched from.
- **`LagAnchors.tla`** is the abstract specification of what the
  LagRegister promises about commits.
  - Per group and partition it keeps one of three states: no entry
    (`Absent`), an entry with no lag (`NoLag`), or the anchor of the last
    commit (its `offset` and `offset_timestamp`).
  - `Commit` sets an anchor in a known group.
  - `Open` adds a group whose entries have no lag.
  - `Reshape` drops entries of a known group, keeps the rest, and
    re-creates dropped ones without a lag.
  - `Close` forgets groups.
- **`LagRegisterRefinement.tla`** is the refinement mapping.
  - `AnchorOf`, `GroupAnchors` and `AnchorsOf` map `lag_by_group` to the
    abstract anchors.
  - `Refinement == LA!Spec`: the detailed spec implements LagAnchors.
  - Under the mapping:
    - `ImportGroup` of a new group is `Open`.
    - `ImportGroup` of a known group and `GroupMetadata` are `Reshape`.
    - The retains are `Close`.
    - `OffsetCommit` is `Commit`.
    - A refresh is a stutter.
- **`MetricsScrape.tla`** models `prometheus_metrics` of `http/mod.rs`.
  - It composes the handler with the LagRegister.
  - `RenderOffset`, `RenderLagOffset` and `RenderLagMs` are the three
    family loops, each under its own read lock.
  - Any LagRegister step can run between two of them.
  - `Respond` returns the text.
  - A family is abstracted to its set of `(group, partition, value)`
    series.
- **`ReconcilerShutdown.tla`** models the control of the reconciler's
  `select!` (`register.rs:116-162`) against the closing offsets channel.
  - `RecvEvent` is the `Some(kod)` branch, `Tick` the interval branch, and
    `Else` the `else` branch.
  - `KodSend` and `KodClose` are the offsets emitter, which stops on the
    `Signal`.
  - The handlers' effect on the register is left to LagRegister.
- **`MCLagRegister.tla`**, **`MCEmitter.tla`**,
  **`MCLagRegisterRefinement.tla`** and **`MCMetricsScrape.tla`**
  instantiate the models for TLC.
- **`LagRegisterProofs.tla`**, **`LagRegisterRefinementProofs.tla`**,
  **`LagAnchorStableProofs.tla`** and **`EmitterProofs.tla`** hold the
  TLAPS proofs. `ReconcilerShutdown.tla` holds its own short theorem.

## Runs

| Run | Config | Expect | Checks |
|---|---|---|---|
| lag_register | `MCLagRegister.cfg` | pass | `TypeOK`, `LagTimestampOrder`, `LagAnchorStable` |
| refresh_break | `MCLagRegister_refresh.cfg` | violation | `RefreshedAfterTick` |
| boot_hash_race | `MCLagRegister_sync.cfg` | violation | `GroupsSynced` |
| emitter | `MCEmitter.cfg` | pass | `TypeOK`, `ShutdownTerminates`, `EventuallyFresh` |
| emitter_ties | `MCEmitter_ties.cfg` | violation | `ShutdownWinsTies` |
| emitter_fetch_failing | `MCEmitter_fetchfail.cfg` | violation | `ShutdownTerminates` |
| lag_anchor_refinement | `MCLagRegisterRefinement.cfg` | pass | `Refinement` |
| scrape_snapshot | `MCMetricsScrape.cfg` | violation | `ScrapeSeriesAgree` |
| reconciler_shutdown | `ReconcilerShutdown.cfg` | violation | `ReconcilerStops` |

What the properties say:

- **`LagTimestampOrder`**: a lag's `timestamp` is never before its
  `offset_timestamp`. This holds only because `update_stale_lags` skips
  fresh lags. A commit timestamped ahead of the local clock would
  otherwise be refreshed back in time.
- **`LagAnchorStable`**: only an `OffsetCommit` for a partition changes
  that lag's `offset` and `offset_timestamp`. An import, a `GroupMetadata`
  or a refresh that keeps the entry keeps the lag, and never moves its
  `timestamp` backwards.
- **`EventuallyFresh`**: once the cluster stops changing, the receiver
  ends up with its latest state, even though a full channel makes the
  emitter drop snapshots.
- **`ShutdownTerminates`**: after a shutdown signal, the emitter's task
  ends.
- **`Refinement`**: every step maps to a LagAnchors step or a stutter.
  - No handler but `process_offset_commit` sets or changes an offset
    anchor.
  - A new entry never arrives with a lag.
  - A refresh never touches an anchor.
  - The mutant that makes `GroupMetadata` rebuild entries without their
    lag breaks it.

The violated runs are findings:

1. **refresh_break.** `update_stale_lags` uses `break` where it needs
   `continue` (`register.rs:276`, and `:284` on `NoData`). A fresh lag, or
   one on a partition without a history, leaves the stale lags after it in
   `HashMap` order unrefreshed. This contradicts the invariant of spec 4.4.
2. **boot_hash_race.** At boot, `get_hash` runs after the import
   (`register.rs:108-109`). A listing change between the two is recorded
   as seen and never imported. After that, the register lacks a listed
   group while the reconciler considers itself in sync.
3. **emitter_ties.** The `select!` is not `biased`, so a send can complete
   while shutdown is pending. Spec 4.1 says shutdown wins ties.
4. **emitter_fetch_failing.** The shutdown receiver is only polled after
   a successful fetch. With the cluster unreachable, the emitter never
   ends, and `main`'s join hangs after Ctrl-C.
5. **scrape_snapshot.** `prometheus_metrics` takes a new read lock for
   each family (`http/mod.rs:82`, `:99`, `:116`).
   - A commit or an import between two families makes the response list
     different partitions in different families.
   - Spec 4.5 describes the scrape as one consistent snapshot.
6. **reconciler_shutdown.** The reconciler's `select!` has no shutdown
   branch. Its `else` (`register.rs:158`) runs only when every pattern
   fails.
   - The interval tick always matches, so after Ctrl-C the task keeps
     ticking forever, against spec 5.
   - Under weak fairness of the reconciler and of the emitter's close,
     TLC finds the lasso in which the offsets channel is closed and
     drained, and the loop only ticks.

### Bounds

MCLagRegister uses these bounds:

- 2 groups, 2 partitions and 2 members.
- Three listings: no groups; g1 with one member owning both partitions;
  g1 split between two members. g2 is never listed, so commits and
  metadata for an unknown group are exercised.
- Two metadata events: one with an empty member list, and one that
  reassigns p1 to m2.
- `MaxOffset = 1`, `MaxTime = 1`, `LagStaleAfter = 0`, `CommitSkew = 1`
  and `OffsetsHistory = 1`.

These bounds are enough for the cases that matter:

- A commit can be fresh or stale on the next tick, since the clock
  advances past `LagStaleAfter`.
- A commit can be timestamped ahead of the clock.
- A partition can have lag data with or without a history.
- A listing can change at every await of the import.

The run has about 612,000 distinct states and takes about 70 s.

MCLagRegisterRefinement uses the same bounds with `CommitSkew = 0`
(about 300,000 states and 2 min 20 s).
- The refinement does not depend on skew.
- Skew only matters to `LagTimestampOrder`, which the lag_register run
  checks with `CommitSkew = 1`.

MCMetricsScrape uses the MCLagRegister bounds. ReconcilerShutdown uses
an offsets channel of depth 2, so events can be buffered when the
emitter closes.

MCEmitter uses `CHANNEL_SIZE = 1`, as in the code, and two cluster-state
changes. With these, a send can time out on a full channel while a newer
state is waiting to be fetched.

### Fairness

- `Spec` assumes weak fairness of the emitter and of the receiving
  register. Both are tasks that the tokio runtime keeps scheduling.
- `SelectFairSpec` adds strong fairness of the shutdown branch. This is
  tokio's random choice between ready branches.
- `FairSpec` adds, in addition, strong fairness of a successful fetch.
  This assumes the cluster is reachable infinitely often.
- The LagRegister model checks only safety, so it assumes no fairness.
- `ReconcilerShutdown` assumes weak fairness of the reconciler and of the
  emitter's close after the signal. Both are tokio tasks that stay
  runnable.

## Proofs

`LagRegisterProofs.tla` proves the following for every value of the
constants that satisfies `ConstantsAssumption` and
`OffsetsHistoryAssumption`:

- `TypeCorrect`: `Spec => []TypeOK`.
- `TimestampOrderHolds`: `Spec => []LagTimestampOrder`.

Both rest on the inductive invariant `IInv == TypeOK /\ LagTimestampOrder`.
`LagTimestampOrder` alone is not inductive: its step cases need the types
of the lag records and of the estimates.

The argument has one lemma per action:

- `OffsetCommit` sets `timestamp = offset_timestamp`.
- A refresh sets `timestamp = now` only on stale lags, and a stale lag has
  `now > offset_timestamp`.
- An import and a `GroupMetadata` copy lags unchanged.

Helper lemmas establish the types of the estimators, including the
interpolation (`InterpolationType`), of `ImportedLags`, of
`UpdateStaleLags` and of `Owners`.

`LagRegister.tla` states `NilAssumption`: `Nil` is not a lag record, an
entry or a group's map. This is what `Option::None` is in the code. TLC
evaluates it on every run, with `Nil` a model value.

`LagRegisterRefinementProofs.tla` proves `RefinementHolds:
Spec => Refinement`. It uses the same `IInv` (from `NextIInv`),
`NilAssumption` and `RefinementAssumption`. The second assumption says that
`Absent` and `NoLag` are distinct and are not anchors.

The proof has three parts:

- `Init` maps to `LA!Init`.
- A lemma per action shows that each step is a LagAnchors step or a
  stutter of `anchorsBar`:
  - `OffsetCommitStep` is a `Commit`.
  - `ImportGroupStep` is an `Open` for a new group and a `Reshape` for a
    known one.
  - `GroupMetadataStep` is a `Reshape`.
  - `BootImportDoneStep` and `TickImportDoneStep` are a `Close`.
  - `TickRefreshStep` is a stutter.
- The shared facts:
  - `RefreshKeepsAnchors`: `update_stale_lags` keeps every anchor, since
    it rewrites only the estimates and `timestamp`.
  - `ReshapeStep`: a rewrite that keeps or drops lags is a `Reshape`.
  - `AnchorsOfExcept`: writing one group rewrites only its anchors.

`IInv` is needed because the type of the register is what makes an entry
differ from `Nil`.

`EmitterProofs.tla` proves `EmitterTypeCorrect: Spec => []TypeOK` for
every `CHANNEL_SIZE`. The channel never holds more than `CHANNEL_SIZE`
snapshots: `SendOk` is guarded by room in the channel, and `Receive` by a
non-empty one.

`LagAnchorStableProofs.tla` proves `AnchorStableHolds:
Spec => LagAnchorStable`, the action property of the lag_register run.

- **Strengthening.** `IInv` is not enough. In the refresh case, the new
  timestamp is `now`, and it must not be earlier than the old timestamp.
  A commit stamped ahead of the local clock would otherwise break this.
  The strengthening is `TsBound`: a lag's `timestamp` is its own
  `offset_timestamp`, or a local time no later than `now`.
  - Since a refreshed lag is stale, `now > offset_timestamp`.
  - So under `TsBound`, `now >= timestamp`.
  - TLC checked `TsBound` on the lag_register instance (612,003 states)
    before it was proved. It is also stated on its own as `TsBoundHolds:
    Spec => []TsBound`.
- **`NextFate`.** This lemma classifies what any step does to the entry of
  a (group, partition) into one of five cases:
  - it is removed (`LagGone`);
  - it has a lag neither before nor after (`LagAbsent`);
  - it keeps its lag (`LagKept`);
  - `update_stale_lags` refreshes its stale lag (`LagRefreshed`);
  - `process_offset_commit` writes a new lag with
    `timestamp = offset_timestamp` (`LagCommitted`).
- **Action lemmas.** There is one lemma per handler (`FateImportGroup`,
  `FateGroupMetadata`, `FateRefresh`, `FateRetain`, `FateOffsetCommit`).
- **Conclusion.** From `NextFate` and the fact that the clock never goes
  back (`NowStep`), both `TsBound'` (`TsBoundStep`) and the step form of
  `LagAnchorStable` (`AnchorStableStep`) follow.

`ReconcilerShutdown.tla` proves `ReconcilerNeverStops:
Spec => [](rpc = "loop")` for every depth of the offsets channel. It
extends the reconciler_shutdown finding beyond the checked instance: the
`else` branch needs the tick to be not ready, and it always is ready.

Out of reach of the prover, and checked by TLC only:

- the liveness properties of the emitter, and the counterexample to the
  reconciler's `ReconcilerStops` (TLAPS does not handle `ENABLED` or
  fairness);
- the other findings, which are the existence of a bad behaviour and not
  a property of every behaviour;
- the estimators' behaviour on concrete histories.

## Declared abstractions

These are places where a model is coarser than the code. None of them
hides a step that could break a property that a passing run checks.

- **One step for two awaits in a tick.** `TickImport` does the
  `get_hash` of `register.rs:143` and the `get_groups` of
  `register.rs:190` in one step. A listing replaced between those two
  awaits is first seen at the next tick.
- **One step for two write locks at the end of a tick.** `TickImportDone`
  does the `retain` of `register.rs:263` and the `update_stale_lags` of
  `register.rs:156` in one step. A commit between the two locks is
  overwritten by the refresh in the code. In the model it is applied
  after the refresh.
- **One clock reading and one history per update.** `RefreshedLag` and
  `OffsetCommit` each read one `now` and one history. The code awaits
  several times (see the split read under Not modelled).
- **A monotone clock.** `Clock` only advances the clock. The wall clock
  that `chrono::Utc::now()` reads can step back, and `TsBound` relies on
  it not doing so.
- **`SendTimeout` with a pending shutdown.** In `Emitter`, a send can
  time out while a shutdown is pending. `tokio::select!` picks among the
  ready branches at random, so this over-approximates the code.
- **The failure of `set_handler`** (`main.rs:79`) is not modelled. With no
  handler, `Signal` never fires. `ShutdownTerminates` assumes it does.
- **The rendering of entries without a lag.** `MetricsScrape.Render`
  assumes that an entry without a lag emits no series in the two lag
  families.
- **The interpolation is not exercised.** Every run sets
  `OffsetsHistory = 1`. A history of one sample never has two bracketing
  samples, so no run reaches the linear interpolation in
  `PartitionOffsets`. It is translated from the code but checked by no
  property. The estimator checks under Plan would need a longer history.
- **The type of `timeLag`.** `LagRec` types `timeLag` as `Int`, not
  `Nat`. The code's lag can be negative when a commit's timestamp is
  ahead of the local clock.

## Not modelled

- **The HTTP server.** Only the `/metrics` handler is modelled. The axum
  router and the root handler are not, and `main` does not start the
  server.
- **The formatting of the metrics.** The `metrics` module is not under
  `src/`. A family is its set of series.
- **The split read of `update_stale_lags`** (`register.rs:299`). The
  latest tracked offset and the two estimates are separate awaits on the
  PartitionOffsetsRegister. The model reads the history once per refresh.
- **CLI parsing and logging.**
- **The trace-logging loop of the reconciler.** It only reads the map.
- **`main` itself.** It calls `LagRegister::new` with arguments that do
  not match its signature, and its join is not modelled.

## Plan

1. Checks of the `PartitionOffsets` estimators against reference
   definitions: time-lag monotonicity (spec 8.5) and the round trip
   (spec 8.6).
2. Ownership agreement between the import and `GroupMetadata`
   (`register.rs:427`).
3. Sentinel offsets (`-1`) in `process_offset_commit` (`register.rs:326`).
4. Splitting the refresh's reads of the PartitionOffsetsRegister.
