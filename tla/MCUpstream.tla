----------------------------- MODULE MCUpstream -----------------------------
(***************************************************************************)
(* Three runs: one that leaks or fails, the one that meets its remains,    *)
(* and one more.  Within a run the legacy loop redials without bound.      *)
(***************************************************************************)
EXTENDS Upstream

MCMaxRuns == 3
=============================================================================
