------------------------- MODULE MCBackgroundTasks -------------------------
(* Instances of BackgroundTasks for TLC: one bash task or one agent, each  *)
(* met by some of the callers.                                             *)
EXTENDS BackgroundTasks
CONSTANTS b1, g1
MCTasks == {b1, g1}
MCBash == {b1}
MCPids == {1, 2}

Trial(ts, ps, cs, f, n) == [tasks |-> ts, pids |-> ps, callers |-> cs, faults |-> f, restarts |-> n]
Swept     == Trial({b1}, {1}, {"sweep"}, 1, 0)
Recovered == Trial({b1}, {1}, {}, 1, 1)
Killed    == Trial({b1}, {1, 2}, {"kill"}, 0, 0)
Unsure    == Trial({b1}, {1}, {"kill"}, 1, 0)
Purged    == Trial({g1}, {1}, {"kill", "purge"}, 0, 1)
MCTrials  == {Swept, Recovered, Killed, Unsure, Purged}
AgentOnly == {Purged}
=============================================================================
