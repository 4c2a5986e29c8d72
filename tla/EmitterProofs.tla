---------------------------- MODULE EmitterProofs ----------------------------
(***************************************************************************)
(* Proof of the emitter's type invariant for every channel size and bound. *)
(***************************************************************************)
EXTENDS Emitter, TLAPS

USE EmitterAssumption

LEMMA InitTypeOK == Init => TypeOK
<1> SUFFICES ASSUME Init PROVE TypeOK
  OBVIOUS
<1>1. chan \in Seq(0..MaxVersion) /\ Len(chan) <= ChannelSize
  BY DEF Init
<1>2. shutdown \in BOOLEAN
  BY Zenon DEF Init
<1>. QED BY <1>1, <1>2 DEF Init, TypeOK

\* send_timeout only appends while the channel has room, and the receiver
\* only takes from a non-empty channel.
LEMMA NextTypeOK == TypeOK /\ [Next]_vars => TypeOK'
<1> SUFFICES ASSUME TypeOK, [Next]_vars PROVE TypeOK'
  OBVIOUS
<1>1. CASE SendOk
  <2>1. Len(chan') = Len(chan) + 1 /\ chan' \in Seq(0..MaxVersion)
    BY <1>1 DEF SendOk, TypeOK
  <2>. QED BY <1>1, <2>1 DEF SendOk, TypeOK
<1>2. CASE Receive
  <2>1. Head(chan) \in 0..MaxVersion /\ Tail(chan) \in Seq(0..MaxVersion)
        /\ Len(Tail(chan)) = Len(chan) - 1
    BY <1>2 DEF Receive, TypeOK
  <2>. QED BY <1>2, <2>1 DEF Receive, TypeOK
<1>3. CASE FetchOk \/ FetchErr \/ SendTimeout \/ ShutdownBranch \/ Tick
  BY <1>3 DEF FetchOk, FetchErr, SendTimeout, ShutdownBranch, Tick, TypeOK
<1>4. CASE Signal
  <2>1. shutdown' \in BOOLEAN
    BY <1>4, Zenon DEF Signal
  <2>. QED BY <1>4, <2>1 DEF Signal, TypeOK
<1>5. CASE ClusterChange
  BY <1>5 DEF ClusterChange, TypeOK
<1>6. CASE UNCHANGED vars
  BY <1>6 DEF vars, TypeOK
<1>. QED BY <1>1, <1>2, <1>3, <1>4, <1>5, <1>6 DEF Next, Emitter

\* The emitter's state stays within its types: in particular the mpsc
\* channel never holds more than CHANNEL_SIZE snapshots (send_timeout).
THEOREM EmitterTypeCorrect == Spec => []TypeOK
BY InitTypeOK, NextTypeOK, PTL DEF Spec
=============================================================================
