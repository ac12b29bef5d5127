----------------------------- MODULE MCEventBus -----------------------------
(***************************************************************************)
(* Two subscribers and the consumer around two publishers, with two        *)
(* goroutines that start and stop the consumer.                            *)
(***************************************************************************)
EXTENDS EventBus
=============================================================================
