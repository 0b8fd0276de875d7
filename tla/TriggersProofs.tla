----------------------------- MODULE TriggersProofs -----------------------------
(***************************************************************************)
(* Theorems about Triggers for any automations, triggers, schedules, chats *)
(* and deliveries, and any number of restarts, edits and failures.         *)
(***************************************************************************)
EXTENDS Triggers, WellFoundedInduction, TLAPS

-----------------------------------------------------------------------------
(* The runs table.                                                         *)

Ended == {"succeeded", "failed", "cancelled"}
Gone(a) == a \notin present

\* A key is made by a trigger from a slot, an item, or the run of a source.
Shaped(k) ==
    /\ k = Key(k.t, k.slot, k.item, k.of)
    /\ k.of # None => k.t \in Chains

\* The ends that a chain selects.
Selected(c) == IF Kind[c] = "finished" THEN {"succeeded"} ELSE {"failed"}

\* The run of k was made, and what there is left of it has such a status.
Held(k, S) == (Started(k) \/ Gone(AutoOf[k.t])) /\ \A r \in Row(k) : r.status \in S

\* A chained key comes from a run that its chain listens to, with an end it selects.
Follows(k) == k.of # None => From(k.t, k.of) /\ Held(k.of, Selected(k.t))

RowOK(r) ==
    /\ r = [key |-> r.key, dedup |-> r.key, status |-> r.status]
    /\ r.status \in Ended \cup {"running"}
    /\ Shaped(r.key)

RowsOK == (\A r \in rows : RowOK(r)) /\ FiredOnce

\* What a step does to the table: nothing, one run changes its status, one run
\* more, or an automation goes with its runs.
RowStep ==
    \/ UNCHANGED <<rows, present>>
    \/ \E k, s : s \in Ended /\ rows' = SetStatus(k, s) /\ UNCHANGED present
    \/ \E k : AutoOf[k.t] \in present /\ ~Lost(k) /\ NewRun(k) /\ Shaped(k) /\ UNCHANGED present
    \/ \E a : present' = present \ {a} /\ rows' = rows \ Of(a)

\* Whatever is there afterwards was there, with the status it had if that was its last.
Kept(r) == \E q \in rows : q.key = r.key /\ (r.status = q.status \/ (Live(q) /\ r.status \in Ended))

LEMMA StatusKept ==
    ASSUME \A r \in rows : RowOK(r), NEW k, NEW s \in Ended, rows' = SetStatus(k, s)
    PROVE  /\ \A r \in rows' : RowOK(r) /\ Kept(r)
           /\ FiredOnce => FiredOnce'
           /\ \A h : Started(h) => Started(h)'
<1> DEFINE new(r) == IF r.key = k /\ Live(r) THEN [r EXCEPT !.status = s] ELSE r
<1>1. rows' = {new(r) : r \in rows}
  BY DEF SetStatus
<1>2. \A r \in rows : /\ new(r).key = r.key /\ RowOK(new(r))
                      /\ new(r).status = r.status \/ (Live(r) /\ new(r).status = s)
  BY DEF RowOK
<1> HIDE DEF new
<1>3. \A r \in rows' : RowOK(r) /\ Kept(r)
  BY <1>1, <1>2 DEF Kept
<1>4. FiredOnce => FiredOnce'
  BY <1>1, <1>2 DEF FiredOnce
<1>5. \A h : Started(h) => Started(h)'
  BY <1>1, <1>2 DEF Started, Row
<1> QED BY <1>3, <1>4, <1>5

LEMMA RowsStep ==
    ASSUME RowsOK, RowStep
    PROVE  /\ RowsOK'
           /\ \A k : Started(k) => Started(k)' \/ Gone(AutoOf[k.t])'
           /\ \A k : Gone(AutoOf[k.t]) => Gone(AutoOf[k.t])'
           /\ \A r \in rows' : Kept(r) \/ (~Started(r.key) /\ ~Gone(AutoOf[r.key.t]))
<1> USE DEF RowsOK
<1>1. CASE UNCHANGED <<rows, present>>
  BY <1>1 DEF FiredOnce, Started, Row, Gone, Kept
<1>2. ASSUME NEW k, NEW s \in Ended, rows' = SetStatus(k, s), UNCHANGED present
      PROVE  /\ RowsOK'
             /\ \A h : Started(h) => Started(h)'
             /\ \A r \in rows' : Kept(r)
  <2>1. \A r \in rows' : RowOK(r) /\ Kept(r)
    BY <1>2, StatusKept
  <2>2. FiredOnce' /\ \A h : Started(h) => Started(h)'
    BY <1>2, StatusKept
  <2> QED BY <2>1, <2>2 DEF RowOK, Shaped
<1>3. ASSUME NEW k, AutoOf[k.t] \in present, ~Lost(k), NewRun(k), Shaped(k), UNCHANGED present
      PROVE  /\ RowsOK' /\ \A h : Started(h) => Started(h)'
             /\ \A r \in rows' : r \in rows \/ (r.key = k /\ ~Started(k) /\ ~Gone(AutoOf[k.t]))
  <2> DEFINE new == [key |-> k, dedup |-> k, status |-> "running"]
  <2>1. rows' = rows \cup {new} /\ new.key = k /\ RowOK(new)
    BY <1>3 DEF NewRun, DedupKey, RowOK, Shaped
  <2> HIDE DEF new
  <2>2. \A r \in rows : r.key # k
    <3>1. \A r \in rows : r.dedup = r.key
      BY DEF RowOK
    <3> QED BY <1>3, <3>1 DEF Lost, Of, DedupKey
  <2>3. \A r \in rows' : RowOK(r)
    BY <2>1
  <2>4. FiredOnce'
    BY <2>1, <2>2 DEF FiredOnce
  <2>5. (\A h : Started(h) => Started(h)') /\ ~Started(k)
    BY <2>1, <2>2 DEF Started, Row
  <2> QED BY <1>3, <2>1, <2>3, <2>4, <2>5 DEF Gone, RowOK, Shaped
<1>4. ASSUME NEW a, present' = present \ {a}, rows' = rows \ Of(a)
      PROVE  /\ RowsOK' /\ \A h : Started(h) => Started(h)' \/ Gone(AutoOf[h.t])'
             /\ \A r \in rows' : r \in rows
  <2>1. ASSUME NEW h, Started(h) PROVE Started(h)' \/ Gone(AutoOf[h.t])'
    <3>1. PICK r \in rows : r.key = h
      BY <2>1 DEF Started, Row
    <3>2. CASE AutoOf[h.t] = a
      BY <1>4, <3>2 DEF Gone
    <3>3. CASE AutoOf[h.t] # a
      <4>1. r \in rows'
        BY <1>4, <3>1, <3>3 DEF Of
      <4> QED BY <3>1, <4>1 DEF Started, Row
    <3> QED BY <3>2, <3>3
  <2>2. FiredOnce'
    BY <1>4 DEF FiredOnce
  <2>3. \A r \in rows' : r \in rows /\ RowOK(r)'
    BY <1>4 DEF RowOK, Shaped
  <2> QED BY <2>1, <2>2, <2>3
<1>5. \A r \in rows : Kept(r)
  BY DEF Kept
<1>6. CASE \E k, s : s \in Ended /\ rows' = SetStatus(k, s) /\ UNCHANGED present
  BY <1>2, <1>6 DEF Gone
<1>7. CASE \E k : AutoOf[k.t] \in present /\ ~Lost(k) /\ NewRun(k) /\ Shaped(k) /\ UNCHANGED present
  BY <1>3, <1>5, <1>7 DEF Gone
<1>8. CASE \E a : present' = present \ {a} /\ rows' = rows \ Of(a)
  BY <1>4, <1>5, <1>8 DEF Gone
<1> QED BY <1>1, <1>6, <1>7, <1>8 DEF RowStep

\* A verdict on record stays, and no second run comes for the key.
LEMMA HeldStays ==
    ASSUME RowsOK, RowStep, NEW k, NEW S, S \subseteq Ended, Held(k, S)
    PROVE  Held(k, S)'
<1>1. Started(k)' \/ Gone(AutoOf[k.t])'
  BY RowsStep DEF Held
<1>2. ASSUME NEW r \in rows', r.key = k PROVE r.status \in S
  <2>1. Kept(r)
    BY <1>2, RowsStep DEF Held
  <2>2. PICK q \in rows : q.key = k /\ (r.status = q.status \/ (Live(q) /\ r.status \in Ended))
    BY <1>2, <2>1 DEF Kept
  <2>3. q.status \in S
    BY <2>2 DEF Held, Row
  <2> QED BY <2>2, <2>3 DEF Live, Ended
<1> QED BY <1>1, <1>2 DEF Held, Row

LEMMA FollowsStays ==
    ASSUME RowsOK, RowStep, NEW k, Follows(k)
    PROVE  Follows(k)'
BY HeldStays DEF Follows, Selected, Ended

-----------------------------------------------------------------------------
(* The calls under way.                                                    *)

\* A schedule has a latest slot.
LEMMA LatestExists ==
    ASSUME NEW P, P \subseteq Nat, P # {}, NEW n \in Nat, \A s \in P : s <= n
    PROVE  Latest(P) \in P
<1> DEFINE T == {n - s : s \in P}
           R == OpToRel(<, Nat)
<1>1. \A s \in P : n - s \in Nat
  OBVIOUS
<1>2. T \subseteq Nat /\ T # {}
  BY <1>1
<1>3. PICK x \in T : \A y \in T : ~ (<<y, x>> \in R)
  <2>1. IsWellFoundedOn(R, Nat)
    BY NatLessThanWellFounded
  <2> HIDE DEF T, R
  <2> QED BY <1>2, <2>1, WFMin
<1>4. \A y \in T : ~(y < x)
  BY <1>2, <1>3 DEF OpToRel
<1>5. PICK s \in P : x = n - s
  OBVIOUS
<1>6. \A u \in P : ~(n - u < n - s)
  BY <1>4, <1>5
<1>7. ASSUME NEW u \in P PROVE u <= s
  <2>1. u \in Nat /\ s \in Nat /\ ~(n - u < n - s)
    BY <1>6
  <2> QED BY <2>1
<1> QED BY <1>7 DEF Latest

FireOK(f) ==
    /\ f = [key |-> f.key, by |-> f.by, pc |-> f.pc]
    /\ Shaped(f.key) /\ Follows(f.key)

EndOK(e) == e.status \in {"succeeded", "failed"} /\ Held(e.key, {e.status})

DeliveryPcs == {"new", "find", "unknown", "stale", "disabled", "start", "accepted", "retry", "ok"}

\* The calls of fire_run and the hook know what they are for.
CallsOK ==
    /\ \A f \in fires : FireOK(f)
    /\ \A e \in ended : EndOK(e)
    /\ \A r \in rows : Follows(r.key)
    /\ delivery \in [Deliveries -> [pc : DeliveryPcs, t : Trigs \cup {None}, at : 0 .. MaxTime]]
    /\ now \in 0 .. MaxTime
    /\ enabled \subseteq present

Inv == RowsOK /\ CallsOK /\ AcceptedHasRun

LEMMA NewRunStep ==
    ASSUME NEW k, Shaped(k), AutoOf[k.t] \in present, ~Lost(k), NewRun(k), UNCHANGED present
    PROVE  RowStep
BY DEF RowStep

\* Every action does to the table what RowStep allows.
LEMMA NextRows ==
    ASSUME Inv, [Next]_vars
    PROVE  RowStep
<1> USE DEF table, calls, chats, count
<1>1. ASSUME UNCHANGED <<rows, present>> PROVE RowStep
  BY <1>1 DEF RowStep
<1>2. ASSUME NEW f, GetAutomation(f) PROVE RowStep
  BY <1>2 DEF GetAutomation, RowStep
<1>3. ASSUME NEW f, CreateRun(f) PROVE RowStep
  <2>1. f \in fires /\ Shaped(f.key) /\ UNCHANGED present
    BY <1>3 DEF CreateRun, Inv, CallsOK, FireOK
  <2>2. UNCHANGED rows \/ (AutoOf[f.key.t] \in present /\ ~Lost(f.key) /\ NewRun(f.key))
    BY <1>3 DEF CreateRun, NewRun, Lost
  <2> QED BY <2>1, <2>2, NewRunStep, <1>1
<1>4. ASSUME NEW k, NEW s \in {"succeeded", "failed"}, FinishRun(k, s) PROVE RowStep
  BY <1>4 DEF FinishRun, RowStep, Ended
<1>5. ASSUME NEW k, CancelRun(k) PROVE RowStep
  BY <1>5 DEF CancelRun, RowStep, Ended
<1>6. ASSUME NEW d, StartRun(d) PROVE RowStep
  <2>1. Shaped(ItemKey(HookOf(d), d))
    BY DEF Shaped, ItemKey, Key
  <2> DEFINE k == ItemKey(HookOf(d), d)
  <2>2. UNCHANGED rows \/ (AutoOf[k.t] \in present /\ ~Lost(k) /\ NewRun(k))
    BY <1>6 DEF StartRun, StartFailed, NewRun, Lost
  <2>3. UNCHANGED present
    BY <1>6 DEF StartRun
  <2> HIDE DEF k
  <2> QED BY <2>1, <2>2, <2>3, NewRunStep, <1>1 DEF k
<1>7. CASE DropAutomation
  BY <1>7 DEF DropAutomation, RowStep
<1>8. CASE Tick \/ Crash \/ Start \/ ListEnabled \/ Sweeping \/ Hooking \/ Routing
  BY <1>1, <1>8 DEF Tick, Crash, Start, ListEnabled, Sweeping, SweepTrigger, EndSweep, Hooking,
     OnFinalized, Routing, HandleEvent, MatchEvent
<1>9. ASSUME NEW x, StopAdvance(x) \/ FinishTurn(x) \/ RemoveWait(x) \/ Post(x) \/ Process(x) \/ Answer(x)
                    \/ SetEnabled(x) \/ Delete(x)
      PROVE  RowStep
  BY <1>1, <1>9 DEF StopAdvance, FinishTurn, RemoveWait, Post, Process, Answer, SetEnabled, Delete
<1>10. CASE UNCHANGED vars
  BY <1>1, <1>10 DEF vars
<1> QED BY <1>2, <1>3, <1>4, <1>5, <1>6, <1>7, <1>8, <1>9, <1>10
       DEF Next, Firing, Deleting, Ingesting

\* Calls that were under way stay what they are.
LEMMA CallsStay ==
    ASSUME RowsOK, CallsOK, RowStep, \A f \in fires' : f \in fires \/ FireOK(f)',
           \A e \in ended' : e \in ended \/ EndOK(e)',
           \A r \in rows' : Kept(r) \/ Follows(r.key)',
           delivery' \in [Deliveries -> [pc : DeliveryPcs, t : Trigs \cup {None}, at : 0 .. MaxTime]],
           now' \in 0 .. MaxTime, enabled' \subseteq present'
    PROVE  CallsOK'
<1>1. \A f \in fires : FireOK(f)'
  BY FollowsStays DEF CallsOK, FireOK, Shaped
<1>2. \A e \in ended : EndOK(e)'
  BY HeldStays DEF CallsOK, EndOK, Ended
<1>3. \A r \in rows' : Kept(r) => Follows(r.key)'
  BY FollowsStays DEF CallsOK, Kept
<1>4. \A k : Shaped(k)' <=> Shaped(k)
  BY DEF Shaped
<1> QED BY <1>1, <1>2, <1>3, <1>4 DEF CallsOK

LEMMA CallsStep ==
    ASSUME Inv, [Next]_vars
    PROVE  CallsOK'
<1> USE DEF table, calls, chats, count
<1> RowStep /\ RowsOK /\ CallsOK
  BY NextRows DEF Inv
<1>1. ASSUME \A f \in fires' : f \in fires \/ FireOK(f)',
             \A e \in ended' : e \in ended \/ EndOK(e)',
             UNCHANGED rows \/ (\E k, s : s \in Ended /\ rows' = SetStatus(k, s)) \/ rows' \subseteq rows,
             UNCHANGED <<delivery, now>> , UNCHANGED <<enabled, present>> \/ enabled' \subseteq present'
      PROVE  CallsOK'
  <2>1. \A r \in rows' : Kept(r)
    BY <1>1, StatusKept DEF RowsOK, Kept
  <2> QED BY <1>1, <2>1, CallsStay DEF CallsOK
<1>2. ASSUME NEW f \in fires, GetAutomation(f) PROVE CallsOK'
  <2>1. fires' \subseteq fires \cup {[f EXCEPT !.pc = "insert"]}
    BY <1>2 DEF GetAutomation
  <2>2. FireOK(f) /\ UNCHANGED <<rows, present>>
    BY <1>2 DEF CallsOK, GetAutomation
  <2>3. FireOK(f)'
    BY <2>2, FollowsStays DEF FireOK, Shaped
  <2>4. FireOK([f EXCEPT !.pc = "insert"])'
    BY <2>3 DEF FireOK
  <2> QED BY <1>1, <1>2, <2>1, <2>4 DEF GetAutomation
<1>3. ASSUME NEW f \in fires, CreateRun(f) PROVE CallsOK'
  <2>1. FireOK(f)
    BY DEF CallsOK
  <2>2. Follows(f.key)'
    BY <2>1, FollowsStays DEF FireOK
  <2>3. \A r \in rows' : r \in rows \/ r.key = f.key
    BY <1>3 DEF CreateRun, NewRun
  <2>4. \A r \in rows' : Kept(r) \/ Follows(r.key)'
    BY <2>2, <2>3 DEF Kept
  <2>5. fires' \subseteq fires /\ UNCHANGED <<ended, delivery, now, enabled, present>>
    BY <1>3 DEF CreateRun
  <2> QED BY <2>4, <2>5, CallsStay DEF CallsOK
<1>4. ASSUME NEW k, NEW s \in {"succeeded", "failed"}, FinishRun(k, s) PROVE CallsOK'
  <2>1. PICK r \in rows : r.key = k /\ Live(r)
    BY <1>4 DEF FinishRun, Row
  <2>2. Shaped(k) /\ \A q \in rows : q.key = k => q = r
    BY <2>1 DEF RowsOK, RowOK, FiredOnce
  <2>3. rows' = SetStatus(k, s) /\ UNCHANGED <<fires, delivery, now, enabled, present>>
        /\ ended' = ended \cup {[key |-> k, status |-> s]}
    BY <1>4 DEF FinishRun
  <2>4. Started(k)'
    BY <2>1, <2>3, StatusKept DEF RowsOK, Started, Row, Ended
  <2>5. ASSUME NEW q \in rows', q.key = k PROVE q.status = s
    <3>1. PICK o \in rows : q = IF o.key = k /\ Live(o) THEN [o EXCEPT !.status = s] ELSE o
      BY <2>3 DEF SetStatus
    <3>2. o.key = k
      BY <2>5, <3>1 DEF RowsOK, RowOK
    <3> QED BY <2>1, <2>2, <3>1, <3>2 DEF RowsOK, RowOK
  <2>6. EndOK([key |-> k, status |-> s])'
    BY <2>4, <2>5 DEF EndOK, Held, Row
  <2> QED BY <1>1, <2>2, <2>3, <2>6 DEF Ended
<1>5. ASSUME NEW e, OnFinalized(e) PROVE CallsOK'
  <2>1. EndOK(e) /\ UNCHANGED <<rows, present, delivery, now, enabled>> /\ ended' \subseteq ended
    BY <1>5 DEF OnFinalized, CallsOK
  <2>2. ASSUME NEW c \in Trigs, Listens(c, e) PROVE FireOK(Fire(ChainKey(c, e.key), "hook"))'
    <3>1. Selected(c) = {e.status} /\ c \in Chains /\ From(c, e.key)
      BY <2>1, <2>2 DEF EndOK, Listens, Accepts, Selected
    <3>2. Held(e.key, Selected(c))'
      BY <2>1, <3>1 DEF EndOK, Held, Row, Started, Gone
    <3>3. ChainKey(c, e.key) = Key(c, 0, None, e.key) /\ ChainKey(c, e.key).t = c /\ ChainKey(c, e.key).of = e.key
      BY DEF ChainKey, Key
    <3>4. Shaped(ChainKey(c, e.key))
      BY <3>1 DEF Shaped, ChainKey, Key
    <3>5. Follows(ChainKey(c, e.key))'
      BY <3>1, <3>2, <3>3 DEF Follows
    <3> QED BY <3>4, <3>5 DEF FireOK, Fire, Shaped
  <2>3. \A f \in fires' : f \in fires \/ FireOK(f)'
    BY <1>5, <2>2 DEF OnFinalized
  <2> QED BY <1>1, <2>1, <2>3
<1>6. ASSUME NEW t, NEW s, NEW item, NEW by PROVE FireOK(Fire(Key(t, s, item, None), by))'
  BY DEF FireOK, Fire, Key, Shaped, Follows
<1>7. ASSUME NEW t, SweepTrigger(t) PROVE CallsOK'
  <2>1. \A f \in fires' : f \in fires \/ FireOK(f)'
    BY <1>6, <1>7 DEF SweepTrigger, SlotKey
  <2> QED BY <1>1, <1>7, <2>1 DEF SweepTrigger
<1>8. CASE MatchEvent
  <2>1. \A f \in fires' : f \in fires \/ FireOK(f)'
    BY <1>6, <1>8 DEF MatchEvent, ItemKey
  <2> QED BY <1>1, <1>8, <2>1 DEF MatchEvent
<1>9. ASSUME NEW d \in Deliveries, StartRun(d) PROVE CallsOK'
  <2>1. PICK k : k = ItemKey(HookOf(d), d)
    OBVIOUS
  <2>2. \A r \in rows' : r \in rows \/ r.key = k
    BY <1>9, <2>1 DEF StartRun, StartFailed, NewRun
  <2>3. Follows(k)'
    BY <2>1 DEF Follows, ItemKey, Key
  <2>4. \A r \in rows' : Kept(r) \/ Follows(r.key)'
    BY <2>2, <2>3 DEF Kept
  <2>5. \E pc \in DeliveryPcs : delivery' = [delivery EXCEPT ![d].pc = pc]
    BY <1>9 DEF StartRun, StartFailed, Stand, DeliveryPcs
  <2>6. delivery' \in [Deliveries -> [pc : DeliveryPcs, t : Trigs \cup {None}, at : 0 .. MaxTime]]
    BY <2>5 DEF CallsOK
  <2>7. UNCHANGED <<fires, ended, now, enabled, present>>
    BY <1>9 DEF StartRun
  <2> QED BY <2>4, <2>6, <2>7, CallsStay DEF CallsOK
<1>10. ASSUME NEW d \in Deliveries, Post(d) \/ Process(d) \/ Answer(d) PROVE CallsOK'
  <2>1. UNCHANGED <<fires, ended, now, enabled, present, rows>>
    BY <1>10 DEF Post, Process, Answer
  <2>2. delivery' \in [Deliveries -> [pc : DeliveryPcs, t : Trigs \cup {None}, at : 0 .. MaxTime]]
    <3>1. CASE Post(d)
      BY <3>1 DEF Post, CallsOK, DeliveryPcs
    <3>2. CASE Process(d) \/ Answer(d)
      <4>1. \E pc \in DeliveryPcs : delivery' = [delivery EXCEPT ![d].pc = pc]
        BY <3>2 DEF Process, Answer, Stand, DeliveryPcs
      <4> QED BY <4>1 DEF CallsOK
    <3> QED BY <1>10, <3>1, <3>2
  <2>3. \A r \in rows' : Kept(r)
    BY <2>1 DEF Kept
  <2> QED BY <2>1, <2>2, <2>3, CallsStay DEF CallsOK
<1>11. ASSUME NEW a, SetEnabled(a) PROVE CallsOK'
  BY <1>1, <1>11 DEF SetEnabled, CallsOK
<1>12. ASSUME NEW k, CancelRun(k) PROVE CallsOK'
  BY <1>1, <1>12 DEF CancelRun, Ended
<1>13. CASE DropAutomation
  BY <1>1, <1>13 DEF DropAutomation, CallsOK
<1>14. CASE Tick
  <2>1. now' \in 0 .. MaxTime
    BY <1>14, TriggerAssumption DEF Tick, CallsOK
  <2>2. \A r \in rows' : Kept(r)
    BY <1>14 DEF Tick, Kept
  <2> QED BY <1>14, <2>1, <2>2, CallsStay DEF Tick, CallsOK
<1>15. CASE Crash
  <2>1. fires' = {} /\ ended' = {} /\ UNCHANGED <<rows, now, enabled, present>>
    BY <1>15 DEF Crash
  <2>2. delivery' \in [Deliveries -> [pc : DeliveryPcs, t : Trigs \cup {None}, at : 0 .. MaxTime]]
    BY <1>15 DEF Crash, CallsOK, DeliveryPcs
  <2>3. \A r \in rows' : Kept(r)
    BY <2>1 DEF Kept
  <2> QED BY <2>1, <2>2, <2>3, CallsStay DEF CallsOK
<1>16. CASE Start \/ ListEnabled \/ EndSweep \/ HandleEvent \/ UNCHANGED vars
  BY <1>1, <1>16 DEF Start, ListEnabled, EndSweep, HandleEvent, vars
<1>17. ASSUME NEW x, StopAdvance(x) \/ FinishTurn(x) \/ RemoveWait(x) \/ Delete(x) PROVE CallsOK'
  BY <1>1, <1>17 DEF StopAdvance, FinishTurn, RemoveWait, Delete
<1> QED BY <1>2, <1>3, <1>4, <1>5, <1>7, <1>8, <1>9, <1>10, <1>11, <1>12, <1>13, <1>14, <1>15, <1>16,
           <1>17 DEF Next, Firing, Sweeping, Hooking, Routing, Deleting, Ingesting

\* An accepted delivery has its run as long as its automation is there.
LEMMA AcceptedStep ==
    ASSUME Inv, [Next]_vars
    PROVE  AcceptedHasRun'
<1> USE DEF table, calls, chats, count
<1> RowStep /\ RowsOK /\ CallsOK /\ AcceptedHasRun
  BY NextRows DEF Inv
<1> DEFINE Good(pc) == pc \in {"accepted", "ok"}
<1>1. ASSUME NEW d \in Deliveries, delivery'[d].t = delivery[d].t, Good(delivery[d].pc)
      PROVE  Started(ItemKey(HookOf(d), d))' \/ Gone(AutoOf[HookOf(d)])'
  <2>1. PICK t : t = delivery[d].t /\ t = delivery'[d].t
    BY <1>1
  <2>2. PICK k : k = ItemKey(t, d)
    OBVIOUS
  <2>3. k.t = t
    BY <2>2 DEF ItemKey, Key
  <2>4. Started(k) \/ Gone(AutoOf[k.t])
    BY <1>1, <2>1, <2>2, <2>3 DEF AcceptedHasRun, Gone, HookOf
  <2>5. Started(k)' \/ Gone(AutoOf[k.t])'
    BY <2>4, RowsStep
  <2> QED BY <2>1, <2>2, <2>3, <2>5 DEF HookOf
<1>2. ASSUME \A d \in Deliveries : Good(delivery'[d].pc) =>
                Good(delivery[d].pc) /\ delivery'[d].t = delivery[d].t
      PROVE  AcceptedHasRun'
  BY <1>1, <1>2 DEF AcceptedHasRun, Gone
<1>3. CASE UNCHANGED delivery
  BY <1>2, <1>3
<1>4. ASSUME NEW d \in Deliveries, Post(d) \/ Process(d) \/ Answer(d) PROVE AcceptedHasRun'
  <2>1. \A e \in Deliveries : e # d => delivery'[e] = delivery[e]
    BY <1>4 DEF Post, Process, Answer, Stand, CallsOK
  <2>2. Good(delivery'[d].pc) => Good(delivery[d].pc) /\ delivery'[d].t = delivery[d].t
    BY <1>4 DEF Post, Process, Answer, Stand, CallsOK
  <2> QED BY <1>2, <2>1, <2>2
<1>5. ASSUME NEW d \in Deliveries, StartRun(d) PROVE AcceptedHasRun'
  <2>1. (\A e \in Deliveries : e # d => delivery'[e] = delivery[e]) /\ delivery'[d].t = delivery[d].t
    BY <1>5 DEF StartRun, StartFailed, Stand, CallsOK
  <2>2. Good(delivery'[d].pc) => Started(ItemKey(HookOf(d), d))'
    <3> DEFINE k == ItemKey(HookOf(d), d)
    <3>1. CASE StartFailed(d)
      BY <3>1 DEF StartFailed, Stand, CallsOK
    <3>2. CASE NewRun(k)
      <4>1. [key |-> k, dedup |-> DedupKey(k), status |-> "running"] \in rows'
        BY <3>2 DEF NewRun
      <4>2. \E r \in rows' : r.key = k
        BY <4>1
      <4>3. HookOf(d)' = HookOf(d)
        BY <2>1 DEF HookOf
      <4> QED BY <4>2, <4>3 DEF Started, Row, ItemKey, Key
    <3>3. CASE Lost(k) /\ UNCHANGED rows
      <4>1. PICK r \in rows : r.dedup = k
        BY <3>3 DEF Lost, Of, DedupKey
      <4>2. r.key = k
        BY <4>1 DEF RowsOK, RowOK
      <4>3. HookOf(d)' = HookOf(d)
        BY <2>1 DEF HookOf
      <4> QED BY <3>3, <4>2, <4>3 DEF Started, Row, ItemKey, Key
    <3> QED BY <1>5, <3>1, <3>2, <3>3 DEF StartRun
  <2>3. ASSUME NEW e \in Deliveries, Good(delivery'[e].pc)
        PROVE  Started(ItemKey(HookOf(e), e))' \/ Gone(AutoOf[HookOf(e)])'
    BY <1>1, <2>1, <2>2, <2>3
  <2> QED BY <2>3 DEF AcceptedHasRun, Gone
<1>6. CASE Crash
  BY <1>2, <1>6 DEF Crash, CallsOK
<1>7. CASE Tick \/ Start \/ Firing \/ ListEnabled \/ Sweeping \/ Hooking \/ Routing \/ Deleting \/ UNCHANGED vars
  BY <1>3, <1>7 DEF Tick, Start, Firing, GetAutomation, CreateRun, ListEnabled, Sweeping, SweepTrigger, EndSweep,
     Hooking, OnFinalized, Routing, HandleEvent, MatchEvent, Deleting, CancelRun, DropAutomation, vars
<1>8. ASSUME NEW k, \/ FinishRun(k, "succeeded") \/ FinishRun(k, "failed")
                    \/ StopAdvance(k) \/ FinishTurn(k) \/ RemoveWait(k) \/ SetEnabled(k) \/ Delete(k)
      PROVE  AcceptedHasRun'
  BY <1>3, <1>8 DEF FinishRun, StopAdvance, FinishTurn, RemoveWait, SetEnabled, Delete
<1> QED BY <1>4, <1>5, <1>6, <1>7, <1>8 DEF Next, Ingesting

LEMMA InvHolds == Spec => []Inv
<1>1. Init => Inv
  <2> SUFFICES ASSUME Init PROVE Inv
    OBVIOUS
  <2>1. RowsOK
    BY DEF Init, RowsOK, FiredOnce
  <2>2. delivery \in [Deliveries -> [pc : DeliveryPcs, t : Trigs \cup {None}, at : 0 .. MaxTime]] /\ now \in 0 .. MaxTime
    BY TriggerAssumption DEF Init, DeliveryPcs
  <2>3. AcceptedHasRun
    BY DEF Init, AcceptedHasRun
  <2> QED BY <2>1, <2>2, <2>3 DEF Init, Inv, CallsOK
<1>2. Inv /\ [Next]_vars => Inv'
  BY NextRows, RowsStep, CallsStep, AcceptedStep DEF Inv
<1> QED BY <1>1, <1>2, PTL DEF Spec

\* For any triggers, racing fires, restarts and failed inserts: a slot, an event
\* or a delivery starts at most one run.
THEOREM OneRunPerFire == Spec => []FiredOnce
<1>1. Inv => FiredOnce
  BY DEF Inv, RowsOK
<1> QED BY <1>1, InvHolds, PTL

\* A delivery that was answered as accepted has its run, whatever failed or was
\* posted again in between, unless its automation was deleted.
THEOREM AcceptedMeansRun == Spec => []AcceptedHasRun
<1>1. Inv => AcceptedHasRun
  BY DEF Inv
<1> QED BY <1>1, InvHolds, PTL

\* A chained run follows the end of a run that its trigger selects, by automation
\* and by status, over chains upon chains: no cancel or delete that races the end of
\* the walk, and no restart, makes it another's.
THEOREM ChainsEarned == Spec => []ChainFollowsEnd
<1>1. ASSUME Inv PROVE ChainFollowsEnd
  <2>1. ASSUME NEW r \in rows, r.key.of # None
        PROVE  From(r.key.t, r.key.of) /\ \A q \in rows : q.key = r.key.of => Accepts(r.key.t, q.status)
    <3>1. r.key.t \in Chains /\ From(r.key.t, r.key.of) /\ Held(r.key.of, Selected(r.key.t))
      BY <1>1, <2>1 DEF Inv, RowsOK, RowOK, CallsOK, Shaped, Follows
    <3>2. \A q \in rows : q.key = r.key.of => q.status \in Selected(r.key.t)
      BY <3>1 DEF Held, Row
    <3> QED BY <3>1, <3>2 DEF Selected, Accepts, Chains, OfKind
  <2> QED BY <2>1 DEF ChainFollowsEnd
<1> QED BY <1>1, InvHolds, PTL

-----------------------------------------------------------------------------
(* The schedule sweep.                                                     *)

LateSlot(t) == Latest(Past(t, sweep.now))

\* The sweep has to see to it that the latest slot of t has its run.
Due(t) ==
    /\ Kind[t] = "schedule" /\ AutoOf[t] \in sweep.autos \ touched
    /\ Past(t, sweep.now) # {}
    /\ sweep.now <= LateSlot(t) + FreshWindow \/ OnMissed[t] = "run_once"

Pending(t) == \E f \in fires : f.by = "sweep" /\ f.key = SlotKey(t, LateSlot(t))
Covered(t) == t \in sweep.todo \/ Pending(t) \/ Started(SlotKey(t, LateSlot(t)))

SweepOK ==
    /\ sweep \in [pc : {"idle", "offer"}, now : -1 .. MaxTime, autos : SUBSET Autos, todo : SUBSET Trigs]
    /\ present \subseteq Autos
    /\ sweep.autos \ touched \subseteq enabled
    /\ sweep.pc = "idle" => sweep.todo = {} /\ \A f \in fires : f.by # "sweep"
    /\ \A t \in Trigs : Due(t) => Covered(t)

\* A trigger that was seen to stays so while the sweep keeps its clock.
LEMMA StaysCovered ==
    ASSUME Inv, Inv', RowStep, SweepOK, sweep'.now = sweep.now, sweep'.autos = sweep.autos,
           touched \subseteq touched', sweep'.autos \ touched' \subseteq enabled',
           NEW t \in Trigs, Due(t)',
           t \in sweep.todo => Covered(t)', Pending(t) => Covered(t)'
    PROVE  Covered(t)'
<1>1. LateSlot(t)' = LateSlot(t) /\ Due(t)
  BY DEF LateSlot, Due, Past
<1>2. PICK k : k = SlotKey(t, LateSlot(t))
  OBVIOUS
<1>3. k.t = t /\ SlotKey(t, LateSlot(t))' = k
  BY <1>1, <1>2 DEF SlotKey, Key
<1>4. ~Gone(AutoOf[k.t])'
  BY <1>3 DEF Due, Gone, Inv, CallsOK
<1>5. Started(k) => Started(k)'
  BY <1>4, RowsStep DEF Inv
<1>6. Covered(t)
  BY <1>1 DEF SweepOK
<1> QED BY <1>2, <1>3, <1>5, <1>6 DEF Covered, Started

\* Steps of others, whose fires are not the sweep's.
LEMMA SweepQuiet ==
    ASSUME Inv, Inv', RowStep, SweepOK, UNCHANGED sweep, touched \subseteq touched',
           \A f \in fires : f \in fires', \A f \in fires' : f \in fires \/ f.by # "sweep",
           enabled \ touched' \subseteq enabled', present' \subseteq present
    PROVE  SweepOK'
<1>1. sweep'.autos \ touched' \subseteq enabled'
  BY DEF SweepOK
<1>2. ASSUME NEW t \in Trigs, Due(t)' PROVE Covered(t)'
  <2>1. LateSlot(t)' = LateSlot(t) /\ SlotKey(t, LateSlot(t))' = SlotKey(t, LateSlot(t))
    BY DEF LateSlot, Past, SlotKey, Key
  <2>2. Pending(t) => Pending(t)'
    BY <2>1 DEF Pending
  <2> QED BY <1>1, <1>2, <2>2, StaysCovered DEF Covered
<1> QED BY <1>1, <1>2 DEF SweepOK

LEMMA SweepStep ==
    ASSUME Inv, Inv', SweepOK, [Next]_vars
    PROVE  SweepOK'
<1> USE DEF table, calls, chats, count
<1> RowStep
  BY NextRows
<1>1. ASSUME NEW f \in fires, GetAutomation(f) PROVE SweepOK'
  <2>1. UNCHANGED <<sweep, touched, enabled, present>>
    BY <1>1 DEF GetAutomation
  <2>2. FireOK(f)
    BY DEF Inv, CallsOK
  <2>3. \A g \in fires' : g.by = "sweep" => \E h \in fires : h.by = "sweep"
    BY <1>1, <2>2 DEF GetAutomation, FireOK
  <2>4. ASSUME NEW t \in Trigs, Due(t)', Pending(t) PROVE Pending(t)'
    <3>1. PICK g \in fires : g.by = "sweep" /\ g.key = SlotKey(t, LateSlot(t))
      BY <2>4 DEF Pending
    <3>2. SlotKey(t, LateSlot(t))' = SlotKey(t, LateSlot(t)) /\ g.key.t = t
      BY <2>1, <3>1 DEF LateSlot, Past, SlotKey, Key
    <3>3. AutoOf[t] \in enabled
      BY <2>1, <2>4 DEF Due, SweepOK
    <3>4. CASE g # f
      BY <1>1, <3>1, <3>2, <3>4 DEF GetAutomation, Pending
    <3>5. CASE g = f
      <4>1. [f EXCEPT !.pc = "insert"] \in fires'
        BY <1>1, <3>2, <3>3, <3>5 DEF GetAutomation
      <4>2. [f EXCEPT !.pc = "insert"].by = f.by /\ [f EXCEPT !.pc = "insert"].key = f.key
        BY <2>2 DEF FireOK
      <4> QED BY <3>1, <3>2, <3>5, <4>1, <4>2 DEF Pending
    <3> QED BY <3>4, <3>5
  <2>5. \A t \in Trigs : Due(t)' => Covered(t)'
    BY <2>1, <2>4, StaysCovered DEF SweepOK, Covered
  <2> QED BY <2>1, <2>3, <2>5 DEF SweepOK
<1>2. ASSUME NEW f \in fires, CreateRun(f) PROVE SweepOK'
  <2>1. UNCHANGED <<sweep, enabled, present>> /\ touched \subseteq touched' /\ fires' = fires \ {f}
    BY <1>2 DEF CreateRun
  <2>2. ASSUME NEW t \in Trigs, Due(t)', Pending(t) PROVE Covered(t)'
    <3>1. PICK g \in fires : g.by = "sweep" /\ g.key = SlotKey(t, LateSlot(t))
      BY <2>2 DEF Pending
    <3>2. SlotKey(t, LateSlot(t))' = SlotKey(t, LateSlot(t)) /\ g.key.t = t
      BY <2>1, <3>1 DEF LateSlot, Past, SlotKey, Key
    <3>3. CASE g # f
      BY <2>1, <3>1, <3>2, <3>3 DEF Pending, Covered
    <3>4. CASE g = f
      <4>1. AutoOf[f.key.t] \in present /\ AutoOf[f.key.t] \notin touched'
        BY <2>1, <2>2, <3>2, <3>4 DEF Due, SweepOK, Inv, CallsOK
      <4>2. PICK k : k = f.key
        OBVIOUS
      <4>3. CASE NewRun(f.key)
        <5>1. [key |-> k, dedup |-> DedupKey(k), status |-> "running"] \in rows'
          BY <4>2, <4>3 DEF NewRun
        <5>2. \E r \in rows' : r.key = k
          BY <5>1
        <5> QED BY <3>1, <3>2, <3>4, <4>2, <5>2 DEF Covered, Started, Row
      <4>4. CASE Lost(f.key) /\ UNCHANGED rows
        <5>1. PICK r \in rows : r.dedup = f.key
          BY <4>4 DEF Lost, Of, DedupKey
        <5>2. r.key = f.key
          BY <5>1 DEF Inv, RowsOK, RowOK
        <5> QED BY <3>1, <3>2, <3>4, <4>4, <5>2 DEF Covered, Started, Row
      <4> QED BY <1>2, <4>1, <4>3, <4>4 DEF CreateRun
    <3> QED BY <3>3, <3>4
  <2>3. sweep'.autos \ touched' \subseteq enabled'
    BY <2>1 DEF SweepOK
  <2>4. \A t \in Trigs : Due(t)' => Covered(t)'
    BY <2>1, <2>2, <2>3, StaysCovered DEF Covered
  <2> QED BY <2>1, <2>3, <2>4 DEF SweepOK
<1>3. CASE ListEnabled
  <2>1. sweep' = [pc |-> "offer", now |-> now, autos |-> enabled,
                  todo |-> {t \in OfKind("schedule") : AutoOf[t] \in enabled}]
        /\ touched' = {} /\ UNCHANGED <<enabled, present>>
    BY <1>3 DEF ListEnabled
  <2>2. \A t \in Trigs : Due(t)' => t \in sweep'.todo
    BY <2>1 DEF Due, OfKind
  <2>3. now \in -1 .. MaxTime /\ enabled \in SUBSET Autos
    BY TriggerAssumption DEF Inv, CallsOK, SweepOK
  <2> QED BY <2>1, <2>2, <2>3 DEF SweepOK, Covered, OfKind
<1>4. ASSUME NEW u \in Trigs, SweepTrigger(u) PROVE SweepOK'
  <2>1. /\ sweep' = [sweep EXCEPT !.todo = @ \ {u}] /\ sweep.pc = "offer"
        /\ UNCHANGED <<touched, enabled, present>> /\ fires \subseteq fires'
    BY <1>4 DEF SweepTrigger
  <2>2. /\ sweep'.now = sweep.now /\ sweep'.autos = sweep.autos /\ sweep'.todo = sweep.todo \ {u}
        /\ sweep'.pc = "offer"
    BY <2>1 DEF SweepOK
  <2>3. ASSUME NEW t \in Trigs, Due(t)' PROVE Covered(t)'
    <3>1. LateSlot(t)' = LateSlot(t) /\ SlotKey(t, LateSlot(t))' = SlotKey(t, LateSlot(t)) /\ Due(t)
      BY <2>1, <2>2, <2>3 DEF LateSlot, Past, SlotKey, Key, Due
    <3>2. Pending(t) => Pending(t)'
      BY <2>1, <3>1 DEF Pending
    <3>3. ASSUME t = u PROVE Pending(t)'
      <4>1. LateSlot(t) \in Nat
        <5>1. Past(t, sweep.now) \subseteq Nat /\ \A s \in Past(t, sweep.now) : s <= sweep.now
          BY <3>1, SlotAssumption DEF Past, Due
        <5>2. sweep.now \in Nat
          BY <3>1, <5>1, TriggerAssumption DEF Due, SweepOK
        <5> QED BY <3>1, <5>1, <5>2, LatestExists DEF LateSlot, Due
      <4>2. ~Skipped(t, LateSlot(t))
        BY <3>1, <4>1, TriggerAssumption DEF Skipped, Due, SweepOK
      <4>3. Fire(SlotKey(t, LateSlot(t)), "sweep") \in fires'
        BY <1>4, <3>1, <3>3, <4>2 DEF SweepTrigger, Due, LateSlot
      <4> QED BY <3>1, <4>3 DEF Pending, Fire
    <3>4. t \in sweep.todo => Covered(t)'
      BY <2>2, <3>3 DEF Covered
    <3>5. sweep'.autos \ touched' \subseteq enabled'
      BY <2>1, <2>2 DEF SweepOK
    <3> QED BY <2>1, <2>2, <2>3, <3>2, <3>4, <3>5, StaysCovered DEF Covered
  <2>4. sweep' \in [pc : {"idle", "offer"}, now : -1 .. MaxTime, autos : SUBSET Autos, todo : SUBSET Trigs]
    BY <2>1 DEF SweepOK
  <2> QED BY <2>1, <2>2, <2>3, <2>4 DEF SweepOK
<1>5. CASE EndSweep
  <2>1. /\ sweep' = [sweep EXCEPT !.pc = "idle"] /\ sweep.todo = {} /\ \A f \in fires : f.by # "sweep"
        /\ UNCHANGED <<touched, enabled, present, fires, rows>>
    BY <1>5 DEF EndSweep
  <2>2. sweep'.now = sweep.now /\ sweep'.autos = sweep.autos /\ sweep'.todo = {} /\ sweep'.pc = "idle"
    BY <2>1 DEF SweepOK
  <2>3. ASSUME NEW t \in Trigs, Due(t)' PROVE Covered(t)'
    BY <2>1, <2>2, <2>3, StaysCovered DEF SweepOK, Pending
  <2>4. sweep' \in [pc : {"idle", "offer"}, now : -1 .. MaxTime, autos : SUBSET Autos, todo : SUBSET Trigs]
    BY <2>1 DEF SweepOK
  <2> QED BY <2>1, <2>2, <2>3, <2>4 DEF SweepOK
<1>6. CASE Crash
  <2>1. /\ sweep' = [pc |-> "idle", now |-> -1, autos |-> {}, todo |-> {}]
        /\ fires' = {} /\ UNCHANGED <<enabled, present>>
    BY <1>6 DEF Crash
  <2>2. -1 \in -1 .. MaxTime
    BY TriggerAssumption
  <2> QED BY <2>1, <2>2 DEF SweepOK, Due
<1>7. ASSUME NEW c, OnFinalized(c) PROVE SweepOK'
  <2>1. \A f \in fires' : f \in fires \/ f.by = "hook"
    BY <1>7 DEF OnFinalized, Fire
  <2> QED BY <1>7, <2>1, SweepQuiet DEF OnFinalized
<1>8. CASE MatchEvent
  <2>1. \A f \in fires' : f \in fires \/ f.by = "router"
    BY <1>8 DEF MatchEvent, Fire
  <2>2. \A f \in fires : f \in fires'
    BY <1>8 DEF MatchEvent
  <2> QED BY <1>8, <2>1, <2>2, SweepQuiet DEF MatchEvent
<1>9. CASE Tick \/ Start \/ HandleEvent \/ DropAutomation \/ UNCHANGED vars
  BY <1>9, SweepQuiet DEF Tick, Start, HandleEvent, DropAutomation, vars
<1>10. ASSUME NEW x, \/ FinishRun(x, "succeeded") \/ FinishRun(x, "failed") \/ CancelRun(x)
                     \/ StopAdvance(x) \/ FinishTurn(x) \/ RemoveWait(x) \/ Delete(x)
                     \/ Post(x) \/ Process(x) \/ StartRun(x) \/ Answer(x)
       PROVE  SweepOK'
  BY <1>10, SweepQuiet DEF FinishRun, CancelRun, StopAdvance, FinishTurn, RemoveWait, Delete, Post, Process,
     StartRun, Answer
<1>11. ASSUME NEW a, SetEnabled(a) PROVE SweepOK'
  BY <1>11, SweepQuiet DEF SetEnabled
<1> QED BY <1>1, <1>2, <1>3, <1>4, <1>5, <1>6, <1>7, <1>8, <1>9, <1>10, <1>11
        DEF Next, Firing, Sweeping, Hooking, Routing, Deleting, Ingesting

LEMMA SweepHolds == Spec => []SweepOK
<1>1. Init => SweepOK
  <2> SUFFICES ASSUME Init PROVE SweepOK
    OBVIOUS
  <2>1. -1 \in -1 .. MaxTime /\ present \subseteq Autos
    BY TriggerAssumption DEF Init
  <2> QED BY <2>1 DEF Init, SweepOK, Due
<1>2. Inv /\ Inv' /\ SweepOK /\ [Next]_vars => SweepOK'
  BY SweepStep
<1> QED BY <1>1, <1>2, InvHolds, PTL DEF Spec

\* Once a sweep is through, the latest slot of every schedule that it saw, and that
\* nobody edited meanwhile, has its run if it is due.
THEOREM SweepMissesNothing == Spec => []SweptIsFired
<1>1. SweepOK => SweptIsFired
  BY DEF SweepOK, SweptIsFired, Due, Covered, Pending, LateSlot
<1> QED BY <1>1, SweepHolds, PTL

-----------------------------------------------------------------------------
(* Every key in the program is of a slot of its schedule, of an event, of  *)
(* a delivery of a webhook, or of a chain and of the key it follows.       *)

TableTyped ==
    /\ \A r \in rows : IsKey(r.key)
    /\ \A k \in advancing : IsKey(k)
    /\ \A e \in ended : IsKey(e.key)
    /\ \A f \in fires : IsKey(f.key) /\ f.pc \in {"get", "insert"}

WorldTyped ==
    /\ up \in BOOLEAN /\ present \subseteq Autos
    /\ waits \subseteq OwnedChats /\ events \in Seq(Chats) /\ route.chat \in Chats \cup {None}
    /\ \A t \in sweep.todo : t \in Trigs /\ Kind[t] = "schedule"
    /\ \A d \in Deliveries :
          delivery[d].pc \notin {"new", "unknown"} => HookOf(d) \in Trigs /\ Kind[HookOf(d)] = "webhook"

(* A daemon that is down does nothing.                                     *)
DownTyped ==
    ~up => /\ advancing = {} /\ ended = {} /\ fires = {}
           /\ sweep.pc = "idle" /\ route.chat = None
           /\ \A d \in Deliveries : delivery[d].pc \notin {"find", "start", "accepted"}

Typed == TableTyped /\ WorldTyped /\ DownTyped

LEMMA SlotKeyTyped ==
    ASSUME NEW t \in Trigs, Kind[t] = "schedule", NEW n \in Int, Past(t, n) # {}
    PROVE  IsKey(SlotKey(t, Latest(Past(t, n))))
<1>1. Past(t, n) \subseteq Nat /\ Past(t, n) \subseteq Slots[t]
  BY SlotAssumption DEF Past
<1>2. \A u \in Past(t, n) : u <= n
  BY DEF Past
<1>3. n \in Nat
  BY <1>1, <1>2
<1>4. Latest(Past(t, n)) \in Slots[t]
  BY <1>1, <1>2, <1>3, LatestExists
<1> QED BY <1>4 DEF IsKey, SlotKey, Key

LEMMA ItemKeyTyped ==
    /\ \A t \in Trigs, c \in Chats : Kind[t] = "session" => IsKey(ItemKey(t, c))
    /\ \A t \in Trigs, d \in Deliveries : Kind[t] = "webhook" => IsKey(ItemKey(t, d))
BY DEF IsKey, ItemKey, Key

LEMMA ChainKeyTyped ==
    ASSUME NEW c \in Trigs, NEW e, IsKey(e.key), Listens(c, e)
    PROVE  IsKey(ChainKey(c, e.key))
BY DEF IsKey, ChainKey, Key, Listens

LEMMA StatusKeys == ASSUME TableTyped, NEW k, NEW s, rows' = SetStatus(k, s) PROVE \A r \in rows' : IsKey(r.key)
<1>1. \A r \in rows : (IF r.key = k /\ Live(r) THEN [r EXCEPT !.status = s] ELSE r).key = r.key
  <2> SUFFICES ASSUME NEW r \in rows PROVE (IF r.key = k /\ Live(r) THEN [r EXCEPT !.status = s] ELSE r).key = r.key
    OBVIOUS
  <2>1. IsKey(r.key)
    BY DEF TableTyped
  <2> QED BY <2>1
<1>2. \A r \in rows : IsKey(r.key)
  BY DEF TableTyped
<1> QED BY <1>1, <1>2 DEF SetStatus

(* The table, by the calls that write it.                                  *)
LEMMA FiringTyped == ASSUME Inv, Typed, Firing PROVE Typed'
<1> PICK f \in fires : GetAutomation(f) \/ CreateRun(f)
  BY DEF Firing
<1> USE DEF table, calls, chats, count
<1>1. up /\ IsKey(f.key)
  BY DEF Typed, TableTyped, DownTyped, GetAutomation, CreateRun
<1>2. CASE GetAutomation(f)
  <2>1. \A g \in fires' : g \in fires \/ g = [f EXCEPT !.pc = "insert"]
    BY <1>2 DEF GetAutomation
  <2>2. IsKey([f EXCEPT !.pc = "insert"].key) /\ [f EXCEPT !.pc = "insert"].pc = "insert"
    <3>1. f = [key |-> f.key, by |-> f.by, pc |-> f.pc]
      BY DEF Inv, CallsOK, FireOK
    <3> QED BY <1>1, <3>1
  <2> QED BY <1>1, <1>2, <2>1, <2>2 DEF GetAutomation, Typed, TableTyped, WorldTyped, DownTyped, HookOf
<1>3. CASE CreateRun(f)
  <2>1. /\ fires' \subseteq fires /\ UNCHANGED <<up, present, ended, waits, events, route, sweep, delivery>>
        /\ \/ rows' = rows
           \/ rows' = rows \cup {[key |-> f.key, dedup |-> DedupKey(f.key), status |-> "running"]}
        /\ advancing' \subseteq advancing \cup {f.key}
    BY <1>3 DEF CreateRun, NewRun
  <2> QED BY <1>1, <2>1 DEF Typed, TableTyped, WorldTyped, DownTyped, HookOf
<1> QED BY <1>2, <1>3

LEMMA RunTyped ==
    ASSUME Inv, Typed,
           \/ \E k \in advancing : FinishRun(k, "succeeded") \/ FinishRun(k, "failed") \/ StopAdvance(k)
           \/ Hooking \/ Deleting
    PROVE  Typed'
<1> USE DEF table, calls, chats, count
<1>1. ASSUME NEW k, NEW s, FinishRun(k, s) PROVE Typed'
  <2>1. UNCHANGED <<up, present, fires, waits, events, route, sweep, delivery>>
        /\ advancing' \subseteq advancing /\ ended' = ended \cup {[key |-> k, status |-> s]} /\ k \in advancing
    BY <1>1 DEF FinishRun
  <2>2. \A r \in rows' : IsKey(r.key)
    BY <1>1, StatusKeys DEF FinishRun, Typed
  <2> QED BY <2>1, <2>2 DEF Typed, TableTyped, WorldTyped, DownTyped, HookOf
<1>2. ASSUME NEW k, StopAdvance(k) PROVE Typed'
  BY <1>2 DEF StopAdvance, Typed, TableTyped, WorldTyped, DownTyped, HookOf
<1>3. ASSUME NEW e, OnFinalized(e) PROVE Typed'
  <2>1. UNCHANGED <<up, rows, present, advancing, waits, events, route, sweep, delivery>>
        /\ ended' \subseteq ended /\ e \in ended
    BY <1>3 DEF OnFinalized
  <2>2. \A f \in fires' : f \in fires \/ (\E c \in Trigs : Listens(c, e) /\ f = Fire(ChainKey(c, e.key), "hook"))
    BY <1>3 DEF OnFinalized
  <2>3. \A f \in fires' : IsKey(f.key) /\ f.pc \in {"get", "insert"}
    BY <2>1, <2>2, ChainKeyTyped DEF Fire, Typed, TableTyped
  <2> QED BY <2>1, <2>3 DEF Typed, TableTyped, WorldTyped, DownTyped, HookOf
<1>4. ASSUME NEW k, CancelRun(k) PROVE Typed'
  <2>1. UNCHANGED <<up, present, fires, ended, waits, events, route, sweep, delivery>> /\ advancing' \subseteq advancing
    BY <1>4 DEF CancelRun
  <2>2. \A r \in rows' : IsKey(r.key)
    BY <1>4, StatusKeys DEF CancelRun, Typed
  <2> QED BY <2>1, <2>2 DEF Typed, TableTyped, WorldTyped, DownTyped, HookOf
<1>5. CASE DropAutomation
  BY <1>5 DEF DropAutomation, Typed, TableTyped, WorldTyped, DownTyped, HookOf
<1> QED BY <1>1, <1>2, <1>3, <1>4, <1>5 DEF Hooking, Deleting

LEMMA SweepTyped == ASSUME Inv, SweepOK, Typed, ListEnabled \/ Sweeping PROVE Typed'
<1> USE DEF table, calls, chats, count
<1>1. CASE ListEnabled
  BY <1>1 DEF ListEnabled, OfKind, Typed, TableTyped, WorldTyped, DownTyped, HookOf
<1>2. ASSUME NEW t \in Trigs, SweepTrigger(t) PROVE Typed'
  <2>1. /\ UNCHANGED <<up, rows, present, advancing, ended, waits, events, route, delivery>>
        /\ sweep.pc = "offer" /\ t \in sweep.todo /\ sweep' = [sweep EXCEPT !.todo = @ \ {t}]
    BY <1>2 DEF SweepTrigger
  <2>2. sweep'.todo \subseteq sweep.todo /\ sweep'.pc = "offer" /\ sweep.now \in Int
    BY <2>1 DEF SweepOK
  <2>3. \A f \in fires' : f \in fires \/ (Past(t, sweep.now) # {} /\ f = Fire(SlotKey(t, Latest(Past(t, sweep.now))), "sweep"))
    BY <1>2 DEF SweepTrigger
  <2>4. Past(t, sweep.now) # {} => IsKey(SlotKey(t, Latest(Past(t, sweep.now))))
    BY <2>1, <2>2, SlotKeyTyped DEF Typed, WorldTyped
  <2>5. \A f \in fires' : IsKey(f.key) /\ f.pc \in {"get", "insert"}
    BY <2>3, <2>4 DEF Fire, Typed, TableTyped
  <2> QED BY <2>1, <2>2, <2>5 DEF Typed, TableTyped, WorldTyped, DownTyped, HookOf
<1>3. CASE EndSweep
  <2>1. sweep'.todo = sweep.todo /\ sweep'.pc = "idle"
    BY <1>3 DEF EndSweep, SweepOK
  <2> QED BY <1>3, <2>1 DEF EndSweep, Typed, TableTyped, WorldTyped, DownTyped, HookOf
<1> QED BY <1>1, <1>2, <1>3 DEF Sweeping

LEMMA RouteTyped == ASSUME Inv, Typed, Routing \/ \E c \in Chats : FinishTurn(c) \/ RemoveWait(c) PROVE Typed'
<1> USE DEF table, calls, chats, count
<1>1. CASE HandleEvent
  <2>1. Head(events) \in Chats /\ Tail(events) \in Seq(Chats)
    BY <1>1 DEF HandleEvent, Typed, WorldTyped
  <2> QED BY <1>1, <2>1 DEF HandleEvent, Typed, TableTyped, WorldTyped, DownTyped, HookOf
<1>2. CASE MatchEvent
  <2>1. /\ UNCHANGED <<up, rows, present, advancing, ended, waits, events, sweep, delivery>>
        /\ route.chat \in Chats /\ up /\ route'.chat = None
    BY <1>2 DEF MatchEvent, Typed, WorldTyped, DownTyped
  <2>2. \A f \in fires' : f \in fires \/ (\E t \in Trigs : t \in OfKind("session") /\ f = Fire(ItemKey(t, route.chat), "router"))
    BY <1>2 DEF MatchEvent, OfKind
  <2>3. \A f \in fires' : IsKey(f.key) /\ f.pc \in {"get", "insert"}
    BY <2>1, <2>2, ItemKeyTyped DEF Fire, OfKind, Typed, TableTyped
  <2> QED BY <2>1, <2>3 DEF Typed, TableTyped, WorldTyped, DownTyped, HookOf
<1>3. ASSUME NEW c \in Chats, FinishTurn(c) PROVE Typed'
  <2>1. events' \in Seq(Chats)
    BY <1>3 DEF FinishTurn, Typed, WorldTyped
  <2> QED BY <1>3, <2>1 DEF FinishTurn, Typed, TableTyped, WorldTyped, DownTyped, HookOf
<1>4. ASSUME NEW c \in Chats, RemoveWait(c) PROVE Typed'
  BY <1>4 DEF RemoveWait, Typed, TableTyped, WorldTyped, DownTyped, HookOf
<1> QED BY <1>1, <1>2, <1>3, <1>4 DEF Routing

LEMMA HookTyped == ASSUME Inv, Typed, NEW d \in Deliveries, Post(d) \/ Ingesting(d) PROVE Typed'
<1> USE DEF table, calls, chats, count
<1>1. UNCHANGED <<up, present, ended, fires, waits, events, route, sweep>> /\ up
  BY DEF Post, Ingesting, Process, StartRun, Answer, Typed, DownTyped
<1>2. \A e \in Deliveries : delivery'[e].pc \notin {"new", "unknown"} => HookOf(e)' \in Trigs /\ Kind[HookOf(e)'] = "webhook"
  <2>1. ASSUME Post(d) PROVE \A e \in Deliveries : delivery'[e] = delivery[e] \/ (delivery'[e].t \in Trigs /\ Kind[delivery'[e].t] = "webhook")
    BY <2>1 DEF Post, Inv, CallsOK
  <2>2. ASSUME Ingesting(d) PROVE /\ delivery[d].pc \in {"find", "start", "accepted"}
                                  /\ \A e \in Deliveries \ {d} : delivery'[e] = delivery[e]
                                  /\ delivery'[d].t = delivery[d].t
    BY <2>2 DEF Ingesting, Process, StartRun, StartFailed, Answer, Stand, Inv, CallsOK
  <2> QED BY <2>1, <2>2 DEF HookOf, Typed, WorldTyped
<1>3. /\ \A r \in rows' : IsKey(r.key)
      /\ \A k \in advancing' : IsKey(k)
  <2>1. CASE StartRun(d)
    <3> DEFINE k == ItemKey(HookOf(d), d)
    <3>1. IsKey(k)
      BY <2>1, ItemKeyTyped DEF StartRun, Typed, WorldTyped
    <3>2. \/ UNCHANGED <<rows, advancing>>
          \/ /\ rows' = rows \cup {[key |-> k, dedup |-> DedupKey(k), status |-> "running"]}
             /\ advancing' = advancing \cup {k}
      BY <2>1 DEF StartRun, StartFailed, NewRun
    <3> HIDE DEF k
    <3> QED BY <3>1, <3>2 DEF Typed, TableTyped
  <2>2. CASE UNCHANGED <<rows, advancing>>
    BY <2>2 DEF Typed, TableTyped
  <2> QED BY <2>1, <2>2 DEF Post, Ingesting, Process, Answer
<1> QED BY <1>1, <1>2, <1>3 DEF Typed, TableTyped, WorldTyped, DownTyped

LEMMA TypedNext == ASSUME Inv, SweepOK, Typed, [Next]_vars PROVE Typed'
<1> USE DEF table, calls, chats, count
<1>1. CASE Tick
  BY <1>1 DEF Tick, Typed, TableTyped, WorldTyped, DownTyped, HookOf
<1>2. CASE Crash
  <2>1. \A d \in Deliveries : /\ delivery'[d].t = delivery[d].t /\ delivery'[d].pc \notin {"find", "start", "accepted"}
                              /\ (delivery'[d].pc = delivery[d].pc \/ delivery[d].pc \notin {"new", "unknown"})
    BY <1>2 DEF Crash, Inv, CallsOK
  <2>2. /\ UNCHANGED <<present, rows, waits>> /\ up' = FALSE
        /\ advancing' = {} /\ ended' = {} /\ fires' = {} /\ events' = <<>>
        /\ sweep'.pc = "idle" /\ sweep'.todo = {} /\ route'.chat = None
    BY <1>2 DEF Crash
  <2>3. TableTyped' /\ DownTyped'
    BY <2>1, <2>2 DEF Typed, TableTyped, DownTyped
  <2>4. WorldTyped'
    <3>1. \A d \in Deliveries : delivery'[d].pc \notin {"new", "unknown"}
                                  => delivery'[d].t \in Trigs /\ Kind[delivery'[d].t] = "webhook"
      BY <2>1 DEF Typed, WorldTyped, HookOf
    <3>2. events' \in Seq(Chats)
      <4>1. <<>> \in Seq(Chats)
        OBVIOUS
      <4> QED BY <2>2, <4>1
    <3>3. up' \in BOOLEAN
      BY <2>2, Zenon
    <3>4. \A t \in sweep'.todo : t \in Trigs /\ Kind[t] = "schedule"
      BY <2>2, Zenon
    <3>5. present' \subseteq Autos /\ waits' \subseteq OwnedChats /\ route'.chat \in Chats \cup {None}
      BY <2>2 DEF Typed, WorldTyped
    <3> QED BY <3>1, <3>2, <3>3, <3>4, <3>5 DEF WorldTyped, HookOf
  <2> QED BY <2>3, <2>4 DEF Typed
<1>3. CASE Start
  BY <1>3 DEF Start, Typed, TableTyped, WorldTyped, DownTyped, HookOf
<1>4. ASSUME NEW a \in Autos, SetEnabled(a) \/ Delete(a) PROVE Typed'
  BY <1>4 DEF SetEnabled, Delete, Typed, TableTyped, WorldTyped, DownTyped, HookOf
<1>5. CASE UNCHANGED vars
  BY <1>5 DEF vars, Typed, TableTyped, WorldTyped, DownTyped, HookOf
<1> QED BY <1>1, <1>2, <1>3, <1>4, <1>5, FiringTyped, RunTyped, SweepTyped, RouteTyped, HookTyped DEF Next

(* Every variable keeps its type; no fire is under way for a key that its  *)
(* trigger cannot make, and a daemon that is down fires nothing.           *)
THEOREM TypeCorrect == Spec => []TypeOK
<1>1. Init => Typed
  BY TriggerAssumption DEF Init, Typed, TableTyped, WorldTyped, DownTyped
<1>2. Inv /\ SweepOK /\ Typed /\ [Next]_vars => Typed'
  BY TypedNext
<1>3. Inv /\ Typed => TypeOK
  BY DEF Inv, RowsOK, RowOK, CallsOK, EndOK, Typed, TableTyped, WorldTyped, DownTyped, TypeOK, Ended
<1> QED BY <1>1, <1>2, <1>3, InvHolds, SweepHolds, PTL DEF Spec
=============================================================================
