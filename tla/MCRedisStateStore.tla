------------------------- MODULE MCRedisStateStore -------------------------
(* Two concurrent or successive updates of one record, each of which may   *)
(* lose its connection twice.                                              *)
EXTENDS RedisStateStore

AllFaults == {"timeout", "expire"}

=============================================================================
