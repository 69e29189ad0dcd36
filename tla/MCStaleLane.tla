---------------------------- MODULE MCStaleLane ----------------------------
(* Small instances of the housekeeping lane. *)
EXTENDS StaleLane, TLC

CONSTANTS broken, fixed

\* Both pull requests start at the same failing commit.
MCFirstHead == [p \in PRs |-> broken]

MCTouches == 1 :> 0 @@ 2 :> 2
=============================================================================
