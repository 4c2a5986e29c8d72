--------------------------- MODULE ReconcilerShutdown ---------------------------
(***************************************************************************)
(* The control of the LagRegister reconciler's loop (register.rs, the      *)
(* select! in LagRegister::new) against the shutdown of the offsets-topic  *)
(* emitter feeding it.  The handlers' effect on the register is left out   *)
(* (LagRegister models it); what matters here is which select branch can   *)
(* complete.  The reconciler holds no shutdown receiver: it can only stop  *)
(* through the else branch, taken when no branch's pattern can match.      *)
(***************************************************************************)
EXTENDS Naturals, TLAPS

CONSTANT KodCapacity   \* depth of the offsets-topic event channel

VARIABLES
    signal,    \* the shutdown broadcast has fired
    kodOpen,   \* the offsets-topic emitter still holds the channel's sender
    kodBuf,    \* events buffered in the channel
    rpc        \* "loop" while the reconciler runs, "done" after the break

vars == <<signal, kodOpen, kodBuf, rpc>>

TypeOK ==
    /\ signal \in BOOLEAN
    /\ kodOpen \in BOOLEAN
    /\ kodBuf \in 0..KodCapacity
    /\ rpc \in {"loop", "done"}

Init ==
    /\ signal = FALSE
    /\ kodOpen = TRUE
    /\ kodBuf = 0
    /\ rpc = "loop"

\* The `Some(kod) = kod_rx.recv()` branch: an event is handled.
RecvEvent ==
    /\ rpc = "loop"
    /\ kodBuf > 0
    /\ kodBuf' = kodBuf - 1
    /\ UNCHANGED <<signal, kodOpen, rpc>>

\* The `_ = reconcile_timeout.tick()` branch: its pattern always matches
\* and an interval ticks forever, so it can always complete.  It changes
\* nothing modelled here: a behaviour that ticks forever stutters.
TickReady == TRUE

Tick ==
    /\ rpc = "loop"
    /\ TickReady
    /\ UNCHANGED vars

\* The else branch: only when every branch's pattern failed, that is the
\* channel is closed and drained AND the tick branch cannot complete.
Else ==
    /\ rpc = "loop"
    /\ ~kodOpen /\ kodBuf = 0
    /\ ~TickReady
    /\ rpc' = "done"
    /\ UNCHANGED <<signal, kodOpen, kodBuf>>

Reconciler == RecvEvent \/ Tick \/ Else

\* The Ctrl-C handler's broadcast.
Signal ==
    /\ ~signal
    /\ signal' = TRUE
    /\ UNCHANGED <<kodOpen, kodBuf, rpc>>

\* The offsets-topic emitter sends an event, or ends on the signal and
\* drops its sender.
KodSend ==
    /\ kodOpen /\ kodBuf < KodCapacity
    /\ kodBuf' = kodBuf + 1
    /\ UNCHANGED <<signal, kodOpen, rpc>>

KodClose ==
    /\ kodOpen /\ signal
    /\ kodOpen' = FALSE
    /\ UNCHANGED <<signal, kodBuf, rpc>>

Next == Reconciler \/ Signal \/ KodSend \/ KodClose

\* The reconciler and the emitter are tasks the runtime keeps scheduling.
Spec == Init /\ [][Next]_vars /\ WF_vars(Reconciler) /\ WF_vars(KodClose)

\* Spec 5: the reconciler's receive is selected against the shutdown
\* signal, so after a shutdown the reconciler task ends.
ReconcilerStops == signal ~> (rpc = "done")

-----------------------------------------------------------------------------
(* The finding of the reconciler_shutdown run, for every channel depth.    *)

\* The loop of LagRegister::new never breaks, whatever the depth of the
\* offsets channel and whether or not the emitter has closed it: the else
\* branch needs the tick branch to be unable to complete, and
\* reconcile_timeout.tick() always can.
THEOREM ReconcilerNeverStops == Spec => [](rpc = "loop")
<1>1. Init => rpc = "loop"
  BY DEF Init
<1>2. rpc = "loop" /\ [Next]_vars => (rpc = "loop")'
  BY DEF Next, Reconciler, RecvEvent, Tick, Else, TickReady, Signal, KodSend, KodClose, vars
<1>. QED BY <1>1, <1>2, PTL DEF Spec
=============================================================================
