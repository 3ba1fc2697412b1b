---- MODULE MCEventStream ----
(***************************************************************************)
(* EventStream with a handful of entries: enough for two streams with two  *)
(* entries each, one of them still on its way when the stream ends.        *)
(***************************************************************************)
EXTENDS EventStream
====
