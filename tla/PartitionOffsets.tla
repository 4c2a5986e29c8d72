-------------------------- MODULE PartitionOffsets --------------------------
(***************************************************************************)
(* The read side of the PartitionOffsetsRegister: the bounded history of   *)
(* watermark samples kept per topic partition and the two lag estimators   *)
(* the LagRegister calls.  The register's source is not under src/, so     *)
(* every operator here is taken from the spec (section 4.2).               *)
(*                                                                         *)
(* A history is a sequence of samples [offset, at], oldest first.  The     *)
(* estimators are called only on a non-empty history: an empty one is the  *)
(* NoData error, which the callers turn into 0 (see LagRegister).          *)
(***************************************************************************)
EXTENDS Integers, Sequences

CONSTANT OffsetsHistory   \* --offsets-history: samples kept per partition

ASSUME OffsetsHistoryAssumption == OffsetsHistory \in Nat \ {0}

\* A watermark sample: the high watermark and the (seconds) time it was read.
Sample == [offset : Nat, at : Nat]

\* Appending a sample evicts the oldest one once the history is full (FIFO).
AddSample(h, s) ==
    IF Len(h) < OffsetsHistory THEN Append(h, s) ELSE Append(Tail(h), s)

Earliest(h) == h[1]
Latest(h) == h[Len(h)]

\* estimate_offset_lag: max(0, latest.offset - committed).
EstimateOffsetLag(h, o) ==
    IF Latest(h).offset > o THEN Latest(h).offset - o ELSE 0

\* The index i of the samples h[i], h[i+1] whose offsets bracket o.
Bracket(h, o) ==
    CHOOSE i \in 1..(Len(h) - 1) : h[i].offset <= o /\ o < h[i + 1].offset

IsBracket(h, o, i) ==
    /\ i \in 1..(Len(h) - 1)
    /\ h[i].offset <= o
    /\ o < h[i + 1].offset

\* The production time of offset o, interpolated linearly between the
\* bracketing samples; before the earliest sample, the earliest's time.
EstimateProductionTime(h, o) ==
    LET i == Bracket(h, o) IN
    IF o < Earliest(h).offset THEN Earliest(h).at
    ELSE IF IsBracket(h, o, i)
         THEN h[i].at + ((o - h[i].offset) * (h[i + 1].at - h[i].at))
                          \div (h[i + 1].offset - h[i].offset)
         ELSE Latest(h).at

\* estimate_time_lag: latest.at minus the production time of o; zero when
\* the committed offset has caught up with the latest sample.
EstimateTimeLag(h, o) ==
    IF o >= Latest(h).offset THEN 0
    ELSE Latest(h).at - EstimateProductionTime(h, o)
=============================================================================
