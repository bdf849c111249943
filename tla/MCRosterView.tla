----------------------------- MODULE MCRosterView -----------------------------
(* Instances of RosterView for TLC: every nickname is its own key. *)
EXTENDS RosterView, TLC

MCFold == [n \in Nick |-> n]

Symmetry == Permutations(Fd) \cup Permutations(ChannelName) \cup Permutations(Nick)
================================================================================
