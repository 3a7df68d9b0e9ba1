------------------------------ MODULE MCProcesses ------------------------------
(* The processes that share files and no memory, for TLC: a behaviour is    *)
(* one of the hooks of a session, or one of servers of two versions on one  *)
(* index, while the other module stands still.                              *)
EXTENDS SessionHooks, IndexVersions, TLC

CONSTANTS h1, h2, clean, d1, d2, c1, c2, sa, sb

MCHooks    == {h1, h2}
MCDiffs    == {clean, d1, d2}
MCBlocking == {d1, d2}
MCCommits  == {c1, c2}

MCServers   == {sa, sb}
MCExtractor == sa :> 1 @@ sb :> 2

MCInit ==
    \/ Init /\ VersionsOff
    \/ Init /\ diff = clean /\ head = c1 /\ VersionsInit

MCNext ==
    \/ spc = [s \in Servers |-> "none"] /\ Next /\ UNCHANGED idxVars
    \/ VersionsNext /\ UNCHANGED vars

MCVars == <<vars, idxVars>>
MCSpec == MCInit /\ [][MCNext]_MCVars /\ HooksFairness /\ VersionsFairness
=============================================================================
