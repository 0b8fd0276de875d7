----------------------------- MODULE MCTriggers -----------------------------
(* Instances of Triggers for TLC: automations with a schedule that skips a  *)
(* missed slot, one that makes up for it, a webhook and a session trigger,  *)
(* one at a time; and three together, one with a schedule, one that follows *)
(* its success and one that follows any failure, its own too.               *)
EXTENDS Triggers, TLC
CONSTANTS a1, a2, a3, a4, a5, a6, a7, skip1, once2, hook3, sess4, daily5, after6, broken7, k1, k2, d1
MCAutos == {a1, a2, a3, a4, a5, a6, a7}
MCScenes == {{a1}, {a2}, {a3}, {a4}, {a5, a6, a7}}
MCTrigs == {skip1, once2, hook3, sess4, daily5, after6, broken7}
MCAuto == skip1 :> a1 @@ once2 :> a2 @@ hook3 :> a3 @@ sess4 :> a4 @@ daily5 :> a5 @@ after6 :> a6 @@ broken7 :> a7
MCKind == skip1 :> "schedule" @@ once2 :> "schedule" @@ hook3 :> "webhook" @@ sess4 :> "session"
          @@ daily5 :> "schedule" @@ after6 :> "finished" @@ broken7 :> "failed"
MCSlots == skip1 :> {0, 3} @@ once2 :> {0, 1} @@ daily5 :> {0}
MCOnMissed == skip1 :> "skip" @@ once2 :> "run_once" @@ daily5 :> "run_once"
MCSource == [t \in MCTrigs |-> IF t = after6 THEN a5 ELSE None]
MCChats == {k1, k2}
MCOwned == {k1}
MCDeliveries == {d1}
=============================================================================
