------------------------------- MODULE Emitter -------------------------------
(***************************************************************************)
(* The emitter task of src/src/cluster_status/emitter.rs and               *)
(* src/src/consumer_groups/emitter.rs (the two loops are the same): fetch  *)
(* a snapshot; on success select between send_timeout on a channel of     *)
(* depth CHANNEL_SIZE and the shutdown broadcast; then await the interval  *)
(* tick.  Only the select watches the shutdown signal.                     *)
(*                                                                         *)
(* The snapshot is the version of the cluster state it was fetched from.   *)
(* The receiving register (a task outside src/) takes snapshots off the    *)
(* channel in order.                                                       *)
(***************************************************************************)
EXTENDS Naturals, Sequences

CONSTANTS
    ChannelSize,   \* CHANNEL_SIZE
    MaxVersion     \* bound on the changes of the cluster state

ASSUME EmitterAssumption ==
    /\ ChannelSize \in Nat \ {0}
    /\ MaxVersion \in Nat

VARIABLES
    epc,        \* where the emitter task is: "fetch", "send", "tick", "done"
    pending,    \* the snapshot fetched and not yet sent
    chan,       \* the mpsc channel's buffer
    shutdown,   \* the shutdown broadcast has a value for this receiver
    received,   \* the last snapshot the receiver took
    cluster     \* the current version of the cluster state

vars == <<epc, pending, chan, shutdown, received, cluster>>

TypeOK ==
    /\ epc \in {"fetch", "send", "tick", "done"}
    /\ pending \in 0..MaxVersion
    /\ chan \in Seq(0..MaxVersion)
    /\ Len(chan) <= ChannelSize
    /\ shutdown \in BOOLEAN
    /\ received \in 0..MaxVersion
    /\ cluster \in 0..MaxVersion

Init ==
    /\ epc = "fetch"
    /\ pending = 0
    /\ chan = <<>>
    /\ shutdown = FALSE
    /\ received = 0
    /\ cluster = 0

\* fetch_metadata / fetch_group_list answers: the snapshot goes to the select.
FetchOk ==
    /\ epc = "fetch"
    /\ pending' = cluster
    /\ epc' = "send"
    /\ UNCHANGED <<chan, shutdown, received, cluster>>

\* The fetch fails (or times out): logged, then the interval tick.
FetchErr ==
    /\ epc = "fetch"
    /\ epc' = "tick"
    /\ UNCHANGED <<pending, chan, shutdown, received, cluster>>

\* Mutant: the send path ignores the channel's capacity.
SendOkUnbounded ==
    /\ epc = "send"
    /\ chan' = Append(chan, pending)
    /\ epc' = "tick"
    /\ UNCHANGED <<pending, shutdown, received, cluster>>

\* Mutant: off by one in the capacity check, so the send always times out.
SendOkOffByOne ==
    /\ epc = "send"
    /\ Len(chan) + 1 < ChannelSize
    /\ chan' = Append(chan, pending)
    /\ epc' = "tick"
    /\ UNCHANGED <<pending, shutdown, received, cluster>>

\* The send branch of the select completes: the channel had room.
SendOk ==
    /\ epc = "send"
    /\ Len(chan) < ChannelSize
    /\ chan' = Append(chan, pending)
    /\ epc' = "tick"
    /\ UNCHANGED <<pending, shutdown, received, cluster>>

\* The send branch completes with the timeout: the snapshot is dropped.
SendTimeout ==
    /\ epc = "send"
    /\ Len(chan) = ChannelSize
    /\ epc' = "tick"
    /\ UNCHANGED <<pending, chan, shutdown, received, cluster>>

\* Mutant: the shutdown branch is only taken while the send is blocked.
ShutdownOnlyWhenBlocked ==
    /\ epc = "send"
    /\ shutdown
    /\ Len(chan) = ChannelSize
    /\ epc' = "done"
    /\ UNCHANGED <<pending, chan, shutdown, received, cluster>>

\* The shutdown branch of the select completes: break 'outer; the task ends
\* and drops its sender, closing the channel.
ShutdownBranch ==
    /\ epc = "send"
    /\ shutdown
    /\ epc' = "done"
    /\ UNCHANGED <<pending, chan, shutdown, received, cluster>>

\* interval.tick().await, not raced against the shutdown signal.
Tick ==
    /\ epc = "tick"
    /\ epc' = "fetch"
    /\ UNCHANGED <<pending, chan, shutdown, received, cluster>>

Emitter == FetchOk \/ FetchErr \/ SendOk \/ SendTimeout \/ ShutdownBranch \/ Tick

\* The Ctrl-C handler broadcasts the shutdown unit.
Signal ==
    /\ ~shutdown
    /\ shutdown' = TRUE
    /\ UNCHANGED <<epc, pending, chan, received, cluster>>

\* The receiving register takes the oldest snapshot.
Receive ==
    /\ chan # <<>>
    /\ received' = Head(chan)
    /\ chan' = Tail(chan)
    /\ UNCHANGED <<epc, pending, shutdown, cluster>>

\* The cluster state changes.
ClusterChange ==
    /\ cluster < MaxVersion
    /\ cluster' = cluster + 1
    /\ UNCHANGED <<epc, pending, chan, shutdown, received>>

Next == Emitter \/ Signal \/ Receive \/ ClusterChange

\* The emitter and the receiver are tasks the runtime keeps scheduling.
Spec == Init /\ [][Next]_vars /\ WF_vars(Emitter) /\ WF_vars(Receive)

\* The select's random choice does not starve the shutdown branch; the
\* cluster may stay unreachable.
SelectFairSpec == Spec /\ SF_vars(ShutdownBranch)

\* In addition: the cluster answers a fetch infinitely often when asked
\* infinitely often, and the select's random choice does not starve the
\* shutdown branch.
FairSpec == Spec /\ SF_vars(FetchOk) /\ SF_vars(ShutdownBranch)

-----------------------------------------------------------------------------
(* Properties                                                              *)

\* Spec 4.1: the task ends once the shutdown signal has fired.
ShutdownTerminates == shutdown ~> (epc = "done")

\* Spec 4.1 and 5: a pending send and the shutdown signal are awaited
\* together and shutdown wins ties: with the signal pending, the select
\* never completes the send.
ShutdownWinsTies ==
    [][(epc = "send" /\ shutdown) => epc' \in {"send", "done"}]_vars

\* Dropping a snapshot on a full channel loses no freshness for good: once
\* the cluster stops changing, the receiver ends up with its latest state,
\* unless the emitter was shut down.
EventuallyFresh == <>[](received = cluster \/ epc = "done")
=============================================================================
