---------------------------- MODULE MCRedisState ----------------------------
(***************************************************************************)
(* Small instances of RedisState for TLC.                                  *)
(***************************************************************************)
EXTENDS RedisState, TLC

CONSTANTS w1, w2, d1, d2

\* Partition affinity: a device has one writer, which may have several devices.
OneWriter == w1 :> {d1, d2}

\* A processor that outlived its session and the one that took its partition.
TwoWriters == w1 :> {d1} @@ w2 :> {d1}
=============================================================================
