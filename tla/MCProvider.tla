----------------------------- MODULE MCProvider -----------------------------
(* Two calls on one adapter, each with two attempts and one wait: enough    *)
(* for a retry, a wait and a refusal of one call to fall anywhere within    *)
(* the other, and for the room to grow and then to meet the headroom.       *)
EXTENDS Provider
=============================================================================
