---- MODULE MCSysdump ----
(***************************************************************************)
(* A small instance of Sysdump: two policies, one of them in two versions. *)
(***************************************************************************)
EXTENDS Sysdump, TLC

CONSTANTS a, b, a1, a2, b1

MCNameOf == a1 :> a @@ a2 :> a @@ b1 :> b
====
