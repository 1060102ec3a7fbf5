-------------------------- MODULE MCScheduledDigest --------------------------
(***************************************************************************)
(* Instances of ScheduledDigest for TLC.                                   *)
(***************************************************************************)
EXTENDS ScheduledDigest, TLC

CONSTANTS alpha, beta

MCServers == {alpha, beta}

\* Both servers want the first reading the clock repeats, and one of them the
\* reading after it as well.
MCDueAt == (alpha :> {1, 2}) @@ (beta :> {1})
=============================================================================
