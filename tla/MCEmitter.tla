------------------------------ MODULE MCEmitter ------------------------------
(* The emitter loop with a channel of depth CHANNEL_SIZE = 1 and a cluster  *)
(* state that changes twice: enough for a full channel to make the send    *)
(* time out while a newer snapshot is waiting to be fetched.               *)
EXTENDS Emitter, TLC
=============================================================================
