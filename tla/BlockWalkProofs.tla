-------------------------- MODULE BlockWalkProofs --------------------------
(***************************************************************************)
(* Proofs about BlockWalk, for every tree of blocks.  The walk learns where*)
(* it is only from the markers of the checkpoint: what holds of the steps  *)
(* on record follows from what holds of the blocks the walk stands in.     *)
(*                                                                         *)
(* The first half is about structure (BlockInv).  The second compares the  *)
(* walk with the meaning of the tree: Replay, what the walk reads off a    *)
(* checkpoint, agrees with Means wherever it has a value (ReplayMeans); a  *)
(* value stays while the store only grows at live places (Later, Onward,   *)
(* ValueStays); and every action keeps Stood, the body of Earned.          *)
(***************************************************************************)
EXTENDS BlockReplay, FiniteSetTheorems, SequenceTheorems, WellFoundedInduction, TLAPS

-----------------------------------------------------------------------------
(* Recursion over the tree: no set of steps holds all its parents.         *)

Solves(f, v0, G) == \A n \in DOMAIN Kind : f[n] = IF n = Root THEN v0 ELSE G[<<n, f[Parent[n]]>>]

LEMMA TreeRecursion ==
    ASSUME NEW V, NEW v0 \in V, NEW G \in [Steps \X V -> V]
    PROVE  \E f \in [DOMAIN Kind -> V] : Solves(f, v0, G)
<1> DEFINE Good(X, f) ==
             /\ X \subseteq DOMAIN Kind /\ Root \in X /\ \A n \in X \ {Root} : Parent[n] \in X
             /\ f \in [X -> V]
             /\ \A n \in X : f[n] = IF n = Root THEN v0 ELSE G[<<n, f[Parent[n]]>>]
<1>1. \A X, Y, f, g : Good(X, f) /\ Good(Y, g) => \A n \in X \cap Y : f[n] = g[n]
  <2> SUFFICES ASSUME NEW X, NEW Y, NEW f, NEW g, Good(X, f), Good(Y, g)
               PROVE  \A n \in X \cap Y : f[n] = g[n]
    OBVIOUS
  <2> DEFINE S == {n \in (X \cap Y) \ {Root} : f[n] # g[n]}
  <2>1. S \in SUBSET Steps
    BY DEF Steps
  <2>2. S = {}
    <3> SUFFICES ASSUME S # {} PROVE FALSE
      OBVIOUS
    <3>1. PICK n \in S : Parent[n] \notin S
      BY <2>1, TreeAssumption
    <3>2. Parent[n] \in X \cap Y
      BY <3>1
    <3>3. f[Parent[n]] = g[Parent[n]]
      BY <3>1, <3>2
    <3> QED BY <3>1, <3>3
  <2> QED BY <2>2
<1>2. \A n \in DOMAIN Kind : \E X, f : Good(X, f) /\ n \in X
  <2> DEFINE S == {n \in DOMAIN Kind : ~ \E X, f : Good(X, f) /\ n \in X}
  <2>1. Root \notin S
    <3>1. Good({Root}, [m \in {Root} |-> v0])
      BY TreeAssumption
    <3> QED BY <3>1
  <2>2. S = {}
    <3> SUFFICES ASSUME S # {} PROVE FALSE
      OBVIOUS
    <3>1. S \in SUBSET Steps
      BY <2>1 DEF Steps
    <3>2. PICK n \in S : Parent[n] \notin S
      BY <3>1, TreeAssumption
    <3>3. n \in Steps /\ n # Root /\ Parent[n] \in DOMAIN Kind
      BY <3>1, <3>2, TreeAssumption DEF Steps
    <3>4. PICK X, f : Good(X, f) /\ Parent[n] \in X
      BY <3>2, <3>3
    <3>5. n \notin X
      BY <3>2, <3>4
    <3> DEFINE g == [m \in X \cup {n} |-> IF m = n THEN G[<<n, f[Parent[n]]>>] ELSE f[m]]
    <3>6. G[<<n, f[Parent[n]]>>] \in V
      BY <3>3, <3>4
    <3>7. \A m \in X : g[m] = f[m]
      BY <3>5
    <3>8. Good(X \cup {n}, g)
      <4>1. \A m \in X \ {Root} : Parent[m] \in X
        BY <3>4
      <4>2. g \in [X \cup {n} -> V]
        BY <3>4, <3>6
      <4>3. \A m \in X : g[m] = IF m = Root THEN v0 ELSE G[<<m, g[Parent[m]]>>]
        <5> SUFFICES ASSUME NEW m \in X PROVE g[m] = IF m = Root THEN v0 ELSE G[<<m, g[Parent[m]]>>]
          OBVIOUS
        <5>1. g[m] = f[m] /\ (m # Root => g[Parent[m]] = f[Parent[m]])
          BY <3>7, <4>1
        <5>2. f[m] = IF m = Root THEN v0 ELSE G[<<m, f[Parent[m]]>>]
          BY <3>4
        <5> HIDE DEF g
        <5> QED BY <5>1, <5>2
      <4>4. g[n] = G[<<n, g[Parent[n]]>>]
        BY <3>4, <3>7
      <4> QED BY <3>3, <3>4, <4>1, <4>2, <4>3, <4>4
    <3>9. n \in X \cup {n}
      OBVIOUS
    <3> HIDE DEF g, Good
    <3>10. ~ \E Y, f2 : Good(Y, f2) /\ n \in Y
      BY <3>2
    <3> QED BY <3>8, <3>9, <3>10
  <2> QED BY <2>2
<1> DEFINE value(n) == CHOOSE v \in V : \E X, f : Good(X, f) /\ n \in X /\ f[n] = v
           h == [n \in DOMAIN Kind |-> value(n)]
<1>3. \A X, f : Good(X, f) => \A n \in X : h[n] = f[n]
  <2> SUFFICES ASSUME NEW X, NEW f, Good(X, f), NEW n \in X PROVE value(n) = f[n]
    OBVIOUS
  <2>1. f[n] \in V
    OBVIOUS
  <2>2. \A v \in V : (\E Y, g : Good(Y, g) /\ n \in Y /\ g[n] = v) => v = f[n]
    BY <1>1
  <2> HIDE DEF Good
  <2> QED BY <2>1, <2>2
<1>4. \A n \in DOMAIN Kind : h[n] \in V /\ h[n] = IF n = Root THEN v0 ELSE G[<<n, h[Parent[n]]>>]
  <2> SUFFICES ASSUME NEW n \in DOMAIN Kind
               PROVE  h[n] \in V /\ h[n] = IF n = Root THEN v0 ELSE G[<<n, h[Parent[n]]>>]
    OBVIOUS
  <2>1. PICK X, f : Good(X, f) /\ n \in X
    BY <1>2
  <2>2. h[n] = f[n] /\ (n # Root => h[Parent[n]] = f[Parent[n]])
    <3>1. n # Root => Parent[n] \in X
      BY <2>1
    <3> HIDE DEF h, Good
    <3> QED BY <1>3, <2>1, <3>1
  <2>3. f[n] \in V /\ f[n] = IF n = Root THEN v0 ELSE G[<<n, f[Parent[n]]>>]
    BY <2>1
  <2> HIDE DEF h, Good
  <2> QED BY <2>2, <2>3
<1> HIDE DEF value
<1>5. h \in [DOMAIN Kind -> V]
  BY <1>4
<1> HIDE DEF h
<1> QED BY <1>4, <1>5 DEF Solves

LEMMA DepthIs ==
    /\ Depth = [n \in DOMAIN Kind |->
                  IF n = Root THEN 0 ELSE Depth[Parent[n]] + IF Consumes(Parent[n]) THEN 1 ELSE 0]
    /\ Depth \in [DOMAIN Kind -> Nat]
<1> DEFINE G == [p \in Steps \X Nat |-> p[2] + IF Consumes(Parent[p[1]]) THEN 1 ELSE 0]
<1>1. G \in [Steps \X Nat -> Nat]
  <2>1. \A p \in Steps \X Nat : p[2] + (IF Consumes(Parent[p[1]]) THEN 1 ELSE 0) \in Nat
    OBVIOUS
  <2> QED BY <2>1
<1>2. PICK f \in [DOMAIN Kind -> Nat] :
         \A n \in DOMAIN Kind : f[n] = IF n = Root THEN 0 ELSE G[<<n, f[Parent[n]]>>]
  <2> HIDE DEF G
  <2>1. 0 \in Nat
    BY <1>1
  <2>2. \E f \in [DOMAIN Kind -> Nat] : Solves(f, 0, G)
    BY <1>1, <2>1, TreeRecursion
  <2> QED BY <2>2 DEF Solves
<1> DEFINE Is(d) == d = [n \in DOMAIN Kind |->
                  IF n = Root THEN 0 ELSE d[Parent[n]] + IF Consumes(Parent[n]) THEN 1 ELSE 0]
<1>3. Is(f)
  <2>1. \A n \in DOMAIN Kind : n # Root => n \in Steps /\ Parent[n] \in DOMAIN Kind
    BY TreeAssumption DEF Steps
  <2>2. \A n \in DOMAIN Kind : n # Root =>
           G[<<n, f[Parent[n]]>>] = f[Parent[n]] + IF Consumes(Parent[n]) THEN 1 ELSE 0
    BY <2>1
  <2> HIDE DEF G
  <2> QED BY <1>2, <2>2
<1>4. Is(Depth)
  BY <1>3 DEF Depth
<1>5. Depth \in [DOMAIN Kind -> Nat]
  <2> DEFINE S == {n \in Steps : Depth[n] \notin Nat}
  <2>1. Depth[Root] = 0
    BY <1>4, TreeAssumption
  <2>2. S = {}
    <3> SUFFICES ASSUME S # {} PROVE FALSE
      OBVIOUS
    <3>1. PICK n \in S : Parent[n] \notin S
      <4>1. S \in SUBSET Steps
        OBVIOUS
      <4> HIDE DEF S
      <4> QED BY <4>1, TreeAssumption
    <3>2. Parent[n] \in Steps \cup {Root} /\ n \in DOMAIN Kind /\ n # Root
      BY <3>1, TreeAssumption DEF Steps
    <3>3. Depth[Parent[n]] \in Nat
      BY <2>1, <3>1, <3>2
    <3>4. Depth[n] = Depth[Parent[n]] + IF Consumes(Parent[n]) THEN 1 ELSE 0
      BY <1>4, <3>2
    <3> QED BY <3>1, <3>3, <3>4
  <2> QED BY <1>4, <2>1, <2>2 DEF Steps
<1> QED BY <1>4, <1>5

LEMMA AboveIs ==
    Above = [n \in DOMAIN Kind |-> IF n = Root THEN {} ELSE {Parent[n]} \cup Above[Parent[n]]]
<1> DEFINE V == SUBSET DOMAIN Kind
           G == [p \in Steps \X V |-> {Parent[p[1]]} \cup p[2]]
<1>1. G \in [Steps \X V -> V] /\ {} \in V
  BY TreeAssumption
<1> HIDE DEF V
<1>2. PICK f \in [DOMAIN Kind -> V] :
         \A n \in DOMAIN Kind : f[n] = IF n = Root THEN {} ELSE G[<<n, f[Parent[n]]>>]
  <2> HIDE DEF G
  <2>1. {} \in V
    BY <1>1
  <2>2. \E f \in [DOMAIN Kind -> V] : Solves(f, {}, G)
    BY <1>1, <2>1, TreeRecursion
  <2> QED BY <2>2 DEF Solves
<1> DEFINE Is(d) == d = [n \in DOMAIN Kind |-> IF n = Root THEN {} ELSE {Parent[n]} \cup d[Parent[n]]]
<1>3. Is(f)
  <2>1. \A n \in DOMAIN Kind : n # Root => n \in Steps /\ Parent[n] \in DOMAIN Kind
    BY TreeAssumption DEF Steps
  <2>2. \A n \in DOMAIN Kind : n # Root => G[<<n, f[Parent[n]]>>] = {Parent[n]} \cup f[Parent[n]]
    BY <2>1
  <2> HIDE DEF G
  <2> QED BY <1>2, <2>2
<1> QED BY <1>3 DEF Above

LEMMA AboveDepth ==
    ASSUME NEW n \in DOMAIN Kind, NEW b \in Above[n]
    PROVE  b \in DOMAIN Body /\ Depth[b] \in Nat /\ Depth[b] + (IF Consumes(b) THEN 1 ELSE 0) <= Depth[n]
<1> DEFINE More(x) == IF Consumes(x) THEN 1 ELSE 0
           Fine(m) == \A x \in Above[m] : x \in DOMAIN Body /\ Depth[x] + More(x) <= Depth[m]
           S == {m \in Steps : ~Fine(m)}
<1>1. \A m \in DOMAIN Kind : Depth[m] \in Nat /\ More(m) \in {0, 1}
  BY DepthIs
<1>2. Above[Root] = {}
  BY AboveIs, TreeAssumption
<1>3. \A m \in Steps : /\ Parent[m] \in DOMAIN Body /\ Parent[m] \in DOMAIN Kind
                       /\ Parent[m] \in Steps \cup {Root}
                       /\ Above[m] = {Parent[m]} \cup Above[Parent[m]]
                       /\ Depth[m] = Depth[Parent[m]] + More(Parent[m])
  <2> SUFFICES ASSUME NEW m \in Steps
               PROVE  /\ Parent[m] \in DOMAIN Body /\ Parent[m] \in DOMAIN Kind
                      /\ Parent[m] \in Steps \cup {Root}
                      /\ Above[m] = {Parent[m]} \cup Above[Parent[m]]
                      /\ Depth[m] = Depth[Parent[m]] + More(Parent[m])
    OBVIOUS
  <2>1. m \in DOMAIN Kind /\ m # Root
    BY DEF Steps
  <2>2. Parent[m] \in DOMAIN Body /\ Parent[m] \in DOMAIN Kind /\ Parent[m] \in Steps \cup {Root}
    BY TreeAssumption DEF Steps
  <2>3. Above[m] = {Parent[m]} \cup Above[Parent[m]]
    BY <2>1, AboveIs
  <2>4. Depth[m] = Depth[Parent[m]] + More(Parent[m])
    BY <2>1, DepthIs
  <2> QED BY <2>2, <2>3, <2>4
<1> HIDE DEF More
<1>4. S = {}
  <2> SUFFICES ASSUME S # {} PROVE FALSE
    OBVIOUS
  <2>1. PICK m \in S : Parent[m] \notin S
    <3>1. S \in SUBSET Steps
      OBVIOUS
    <3> HIDE DEF S
    <3> QED BY <3>1, TreeAssumption
  <2>2. Fine(Parent[m])
    BY <1>2, <1>3, <2>1
  <2>3. ASSUME NEW x \in Above[m] PROVE x \in DOMAIN Body /\ Depth[x] + More(x) <= Depth[m]
    <3>1. CASE x = Parent[m]
      BY <1>1, <1>3, <2>1, <3>1
    <3>2. CASE x \in Above[Parent[m]]
      <4>1. x \in DOMAIN Body /\ Depth[x] + More(x) <= Depth[Parent[m]]
        BY <2>2, <3>2
      <4>2. x \in DOMAIN Kind
        BY <4>1, TreeAssumption
      <4> QED BY <1>1, <1>3, <2>1, <4>1, <4>2
    <3> QED BY <1>3, <2>1, <2>3, <3>1, <3>2
  <2> QED BY <2>1, <2>3
<1>5. Fine(n)
  BY <1>2, <1>4 DEF Steps
<1> QED BY <1>1, <1>5, TreeAssumption DEF More

LEMMA AroundRecursion ==
    Around = [n \in DOMAIN Kind |-> IF n = Root \/ Parent[n] = Root THEN Root
                                    ELSE IF Concurrent(Parent[n]) THEN Parent[n] ELSE Around[Parent[n]]]
<1> DEFINE V == {Root} \cup {b \in Steps : Concurrent(b)}
           G == [p \in Steps \X V |-> IF Parent[p[1]] = Root THEN Root
                                      ELSE IF Concurrent(Parent[p[1]]) THEN Parent[p[1]] ELSE p[2]]
<1>1. G \in [Steps \X V -> V] /\ Root \in V
  BY TreeAssumption DEF Steps
<1> HIDE DEF V
<1>2. PICK f \in [DOMAIN Kind -> V] :
         \A n \in DOMAIN Kind : f[n] = IF n = Root THEN Root ELSE G[<<n, f[Parent[n]]>>]
  <2> HIDE DEF G
  <2>1. Root \in V
    BY <1>1
  <2>2. \E f \in [DOMAIN Kind -> V] : Solves(f, Root, G)
    BY <1>1, <2>1, TreeRecursion
  <2> QED BY <2>2 DEF Solves
<1> DEFINE Is(d) == d = [n \in DOMAIN Kind |->
                           IF n = Root \/ Parent[n] = Root THEN Root
                           ELSE IF Concurrent(Parent[n]) THEN Parent[n] ELSE d[Parent[n]]]
<1>3. Is(f)
  <2>1. \A n \in DOMAIN Kind : n # Root => n \in Steps /\ Parent[n] \in DOMAIN Kind
    BY TreeAssumption DEF Steps
  <2>2. \A n \in DOMAIN Kind : n # Root =>
           G[<<n, f[Parent[n]]>>] = IF Parent[n] = Root THEN Root
                                    ELSE IF Concurrent(Parent[n]) THEN Parent[n] ELSE f[Parent[n]]
    BY <2>1
  <2> HIDE DEF G
  <2> QED BY <1>2, <2>2
<1> QED BY <1>3 DEF Around

LEMMA AroundIs == \A n \in Steps : Around[n] = Root \/ (Around[n] \in Steps /\ Concurrent(Around[n]))
<1> DEFINE V == {Root} \cup {b \in Steps : Concurrent(b)}
<1> DEFINE S == {n \in Steps : Around[n] \notin V}
<1>5. S = {}
  <2> SUFFICES ASSUME S # {} PROVE FALSE
    OBVIOUS
  <2>1. PICK n \in S : Parent[n] \notin S
    <3>1. S \in SUBSET Steps
      OBVIOUS
    <3> HIDE DEF S
    <3> QED BY <3>1, TreeAssumption
  <2>2. n \in DOMAIN Kind /\ n # Root /\ Parent[n] \in Steps \cup {Root}
    BY <2>1, TreeAssumption DEF Steps
  <2>3. Around[n] = IF Parent[n] = Root THEN Root
                    ELSE IF Concurrent(Parent[n]) THEN Parent[n] ELSE Around[Parent[n]]
    BY <2>2, AroundRecursion
  <2> QED BY <2>1, <2>2, <2>3
<1> QED BY <1>5 DEF V

-----------------------------------------------------------------------------
(* The blocks the walk stands in.                                          *)

Begins(s, p) == Len(p) <= Len(s) /\ \A k \in 1..Len(p) : s[k] = p[k]

Frames == [node: DOMAIN Body, at: Seq(Nat), pass: Nat, pos: Nat, rest: SUBSET Nat, parked: BOOLEAN]

Index(f) == CASE Kind[f.node] = "if" -> f.pass [] Kind[f.node] = "parallel" -> f.pass + 1 [] OTHER -> 1

FrameOK(f) ==
    /\ f \in Frames /\ Len(f.at) = Depth[f.node] /\ Index(f) \in DOMAIN Body[f.node]
    /\ f.pos = 0 => Concurrent(f.node)
    /\ Kind[f.node] = "parallel" => f.rest \subseteq 0..Len(Body[f.node]) - 1

(* A frame leads to a step: it is the one its position in its body says.   *)
Leads(f, n, s) == f.pos \in DOMAIN BodyOf(f) /\ BodyOf(f)[f.pos] = n /\ s = SuffixOf(f)

Within(f, n, s) == f.node \in Above[n] /\ Begins(s, SuffixOf(f))

(* Each frame is entered from the one before it, so that the frames before *)
(* it are the blocks around it, in the passes its suffix says.             *)
Level(stk, i) ==
    /\ FrameOK(stk[i])
    /\ i > 1 => Leads(stk[i - 1], stk[i].node, stk[i].at)
    /\ \A b \in Above[stk[i].node] : \E j \in 1..i - 1 : stk[j].node = b
    /\ \A j \in 1..i - 1 : Within(stk[j], stk[i].node, stk[i].at)

Nested(stk) == stk \in Seq(Frames) /\ \A i \in DOMAIN stk : Level(stk, i)

LEMMA BodyIs ==
    ASSUME NEW f, FrameOK(f)
    PROVE  /\ BodyOf(f) = Body[f.node][Index(f)] /\ BodyOf(f) \in Seq(Steps)
           /\ \A j \in DOMAIN BodyOf(f) : BodyOf(f)[j] \in Steps /\ Parent[BodyOf(f)[j]] = f.node
<1>1. f.node \in DOMAIN Body /\ Index(f) \in DOMAIN Body[f.node] /\ Body[f.node] \in Seq(Seq(Steps))
  BY TreeAssumption DEF FrameOK, Frames
<1>2. BodyOf(f) = Body[f.node][Index(f)]
  BY DEF BodyOf, Index
<1>3. BodyOf(f) \in Seq(Steps)
  BY <1>1, <1>2, ElementOfSeq
<1>4. \A j \in DOMAIN BodyOf(f) : Parent[BodyOf(f)[j]] = f.node
  BY <1>1, <1>2, TreeAssumption
<1>5. \A j \in DOMAIN BodyOf(f) : BodyOf(f)[j] \in Steps
  BY <1>3
<1> QED BY <1>2, <1>3, <1>4, <1>5

LEMMA SuffixIs ==
    ASSUME NEW f, FrameOK(f)
    PROVE  /\ SuffixOf(f) \in Seq(Nat) /\ Begins(SuffixOf(f), f.at)
           /\ Len(SuffixOf(f)) = Depth[f.node] + IF Consumes(f.node) THEN 1 ELSE 0
           /\ Consumes(f.node) => SuffixOf(f)[Depth[f.node] + 1] = f.pass
<1>1. f.at \in Seq(Nat) /\ f.pass \in Nat /\ Len(f.at) = Depth[f.node]
  BY DEF FrameOK, Frames
<1> QED BY <1>1 DEF SuffixOf, Begins

(* What a step that a frame leads to lies in.                              *)
LEMMA LeadsIn ==
    ASSUME NEW f, FrameOK(f), NEW n, NEW s, Leads(f, n, s)
    PROVE  /\ n \in Steps /\ Parent[n] = f.node /\ Above[n] = {f.node} \cup Above[f.node]
           /\ s \in Seq(Nat) /\ Len(s) = Depth[n] /\ Within(f, n, s)
<1>1. n \in Steps /\ Parent[n] = f.node
  BY BodyIs DEF Leads
<1>2. n \in DOMAIN Kind /\ n # Root
  BY <1>1 DEF Steps
<1>3. Above[n] = {f.node} \cup Above[f.node]
  BY <1>1, <1>2, AboveIs
<1>4. Depth[n] = Depth[f.node] + IF Consumes(f.node) THEN 1 ELSE 0
  BY <1>1, <1>2, DepthIs
<1>5. s \in Seq(Nat) /\ Len(s) = Depth[n]
  BY <1>4, SuffixIs DEF Leads
<1>6. Begins(s, SuffixOf(f))
  BY <1>5 DEF Leads, Begins
<1> QED BY <1>1, <1>3, <1>5, <1>6 DEF Within

LEMMA WithinDeeper ==
    ASSUME NEW f, FrameOK(f), NEW g, FrameOK(g), Within(g, f.node, f.at), NEW n, NEW s, Leads(f, n, s)
    PROVE  Within(g, n, s)
<1>1. Above[n] = {f.node} \cup Above[f.node] /\ s = SuffixOf(f)
  BY LeadsIn DEF Leads
<1>2. Begins(SuffixOf(f), f.at) /\ Begins(f.at, SuffixOf(g))
  BY SuffixIs DEF Within
<1>3. Len(SuffixOf(g)) \in Nat /\ Len(f.at) \in Nat /\ Len(s) \in Nat
  BY <1>1, SuffixIs DEF FrameOK, Frames
<1>4. Begins(s, SuffixOf(g))
  BY <1>1, <1>2, <1>3 DEF Begins
<1> QED BY <1>1, <1>4 DEF Within

(* The frames around the step in hand: one for each block around it.       *)
LEMMA Covered ==
    ASSUME NEW stk, Nested(stk), stk # <<>>, NEW n, NEW s, Leads(Last(stk), n, s)
    PROVE  /\ \A b \in Above[n] : \E j \in DOMAIN stk : stk[j].node = b
           /\ \A j \in DOMAIN stk : Within(stk[j], n, s)
<1>1. Len(stk) \in Nat \ {0} /\ DOMAIN stk = 1..Len(stk) /\ Last(stk) = stk[Len(stk)]
  BY DEF Nested, Last
<1> DEFINE f == stk[Len(stk)]
<1>2. /\ FrameOK(f) /\ Leads(f, n, s)
      /\ \A b \in Above[f.node] : \E j \in 1..Len(stk) - 1 : stk[j].node = b
      /\ \A j \in 1..Len(stk) - 1 : FrameOK(stk[j]) /\ Within(stk[j], f.node, f.at)
  <2>1. Level(stk, Len(stk)) /\ \A j \in 1..Len(stk) - 1 : Level(stk, j)
    BY <1>1 DEF Nested
  <2> QED BY <1>1, <2>1 DEF Level
<1> HIDE DEF f
<1>3. Above[n] = {f.node} \cup Above[f.node] /\ Within(f, n, s)
  BY <1>2, LeadsIn
<1>4. \A j \in 1..Len(stk) - 1 : Within(stk[j], n, s)
  BY <1>2, WithinDeeper
<1>5. \A b \in Above[n] : \E j \in 1..Len(stk) : stk[j].node = b
  BY <1>1, <1>2, <1>3 DEF f
<1>6. \A j \in 1..Len(stk) : Within(stk[j], n, s)
  BY <1>1, <1>3, <1>4 DEF f
<1> QED BY <1>1, <1>5, <1>6

LEMMA PushNested ==
    ASSUME NEW stk, Nested(stk), stk # <<>>, NEW f, FrameOK(f), Leads(Last(stk), f.node, f.at)
    PROVE  Nested(Append(stk, f))
<1>1. stk \in Seq(Frames) /\ f \in Frames /\ Len(stk) \in Nat \ {0} /\ Last(stk) = stk[Len(stk)]
  BY DEF Nested, FrameOK, Last
<1> DEFINE new == Append(stk, f)
<1>2. /\ new \in Seq(Frames) /\ DOMAIN new = 1..Len(stk) + 1
      /\ new[Len(stk) + 1] = f /\ \A i \in 1..Len(stk) : new[i] = stk[i]
  BY <1>1
<1>3. /\ \A b \in Above[f.node] : \E j \in 1..Len(stk) : stk[j].node = b
      /\ \A j \in 1..Len(stk) : Within(stk[j], f.node, f.at)
  BY <1>1, Covered
<1> HIDE DEF new
<1> SUFFICES ASSUME NEW i \in DOMAIN new
             PROVE  Level(new, i)
  BY <1>2 DEF Nested, new
<1>4. CASE i \in 1..Len(stk)
  <2>1. new[i] = stk[i] /\ (i > 1 => new[i - 1] = stk[i - 1]) /\ \A j \in 1..i - 1 : new[j] = stk[j]
    BY <1>1, <1>2, <1>4
  <2>2. Level(stk, i)
    BY <1>1, <1>4 DEF Nested
  <2> QED BY <2>1, <2>2 DEF Level
<1>5. CASE i = Len(stk) + 1
  <2>1. new[i] = f /\ new[i - 1] = stk[Len(stk)] /\ \A j \in 1..i - 1 : new[j] = stk[j] /\ j \in 1..Len(stk)
    BY <1>1, <1>2, <1>5
  <2>2. \A j \in 1..Len(stk) : j \in 1..i - 1
    BY <1>1, <1>5
  <2> QED BY <1>1, <1>3, <2>1, <2>2 DEF Level
<1> QED BY <1>1, <1>2, <1>4, <1>5

LEMMA PopNested ==
    ASSUME NEW stk, Nested(stk), Len(stk) > 1
    PROVE  /\ Nested(Front(stk)) /\ Front(stk) # <<>> /\ Leads(Last(Front(stk)), Last(stk).node, Last(stk).at)
           /\ Last(Front(stk)).pos >= 1
           /\ Len(Front(stk)) = Len(stk) - 1 /\ \A i \in 1..Len(stk) - 1 : Front(stk)[i] = stk[i]
<1>1. stk \in Seq(Frames) /\ Len(stk) \in Nat /\ Last(stk) = stk[Len(stk)]
  BY DEF Nested, Last
<1>2. /\ Front(stk) \in Seq(Frames) /\ Len(Front(stk)) = Len(stk) - 1
      /\ \A i \in 1..Len(stk) - 1 : Front(stk)[i] = stk[i]
  BY <1>1 DEF Front
<1>3. Last(Front(stk)) = stk[Len(stk) - 1] /\ Front(stk) # <<>>
  BY <1>1, <1>2 DEF Last
<1>4. Leads(stk[Len(stk) - 1], stk[Len(stk)].node, stk[Len(stk)].at) /\ FrameOK(stk[Len(stk) - 1])
  <2>1. Level(stk, Len(stk)) /\ Level(stk, Len(stk) - 1)
    BY <1>1 DEF Nested
  <2> QED BY <1>1, <2>1 DEF Level
<1>5. stk[Len(stk) - 1].pos >= 1
  <2>1. BodyOf(stk[Len(stk) - 1]) \in Seq(Steps)
    BY <1>4, BodyIs
  <2> QED BY <1>4, <2>1 DEF Leads
<1>6. ASSUME NEW i \in DOMAIN Front(stk)
      PROVE  /\ i \in DOMAIN stk /\ Front(stk)[i] = stk[i] /\ (i > 1 => Front(stk)[i - 1] = stk[i - 1])
             /\ \A j \in 1..i - 1 : Front(stk)[j] = stk[j]
  BY <1>1, <1>2
<1>7. Nested(Front(stk))
  <2>1. ASSUME NEW i \in DOMAIN Front(stk) PROVE Level(Front(stk), i)
    <3>1. Level(stk, i)
      BY <1>6 DEF Nested
    <3> QED BY <1>6, <3>1 DEF Level
  <2> QED BY <1>2, <2>1 DEF Nested
<1> QED BY <1>1, <1>2, <1>3, <1>4, <1>5, <1>7

(* A step at the top of the stack stays within its block.                  *)
LEMMA TopNested ==
    ASSUME NEW stk, Nested(stk), stk # <<>>, NEW f, FrameOK(f), f.node = Last(stk).node, f.at = Last(stk).at
    PROVE  Nested([stk EXCEPT ![Len(stk)] = f])
<1> DEFINE new == [stk EXCEPT ![Len(stk)] = f]
           top == Len(stk)
<1>1. stk \in Seq(Frames) /\ top \in Nat \ {0} /\ f \in Frames /\ Last(stk) = stk[top]
  BY DEF Nested, Last, FrameOK
<1>2. /\ new \in Seq(Frames) /\ DOMAIN new = 1..top
      /\ new[top] = f /\ \A i \in 1..top - 1 : new[i] = stk[i]
  BY <1>1
<1> HIDE DEF new, top
<1> SUFFICES ASSUME NEW i \in DOMAIN new
             PROVE  Level(new, i)
  BY <1>2 DEF Nested, new, top
<1>3. /\ i \in 1..top /\ i \in DOMAIN stk /\ new[i].node = stk[i].node /\ new[i].at = stk[i].at /\ FrameOK(new[i])
      /\ (i > 1 => new[i - 1] = stk[i - 1]) /\ \A j \in 1..i - 1 : new[j] = stk[j]
  <2>1. CASE i = top
    BY <1>1, <1>2, <2>1 DEF top
  <2>2. CASE i \in 1..top - 1
    <3>1. i \in DOMAIN stk
      BY <1>1, <2>2 DEF top
    <3>2. Level(stk, i)
      BY <3>1 DEF Nested
    <3> QED BY <1>1, <1>2, <2>2, <3>1, <3>2 DEF Level
  <2> QED BY <1>1, <1>2, <2>1, <2>2
<1>4. Level(stk, i)
  BY <1>3 DEF Nested
<1> QED BY <1>3, <1>4 DEF Level

-----------------------------------------------------------------------------
(* The checkpoint, and what its markers say of the blocks and the steps.   *)

Verdicts == {"succeeded", "failed"}

Place(ref) ==
    /\ ref = <<ref[1], ref[2]>> /\ ref[1] \in Steps /\ Leaf(ref[1])
    /\ ref[2] \in Seq(Nat) /\ Len(ref[2]) = Depth[ref[1]]

EntryOK(entry) == entry.out \in BOOLEAN /\ entry.status \in {"waiting", "succeeded", "failed"}

CpOK(c) ==
    /\ c = [step |-> c.step, attempt |-> c.attempt, branch |-> c.branch, admitted |-> c.admitted]
    /\ \A ref \in DOMAIN c.step : Place(ref) /\ EntryOK(c.step[ref])
    /\ \A key \in DOMAIN c.attempt :
          /\ key = <<key[1], key[2], key[3]>> /\ Kind[key[1]] = "retry" /\ key[2] \in Nat
          /\ c.attempt[key] \in Verdicts
    /\ \A key \in DOMAIN c.branch : Concurrent(key[1]) /\ c.branch[key] \in Verdicts
    /\ \A key \in DOMAIN c.admitted :
          /\ key = <<key[1], key[2]>> /\ key[1] \in Steps /\ Kind[key[1]] = "repeat" /\ Concurrent(key[1])
          /\ c.admitted[key] \in 1..Count[key[1]]

(* An attempt has a marker only when every attempt before it has failed.   *)
Follow(c) ==
    \A key \in DOMAIN c.attempt : \A a \in 0..key[2] - 1 : Failed(c.attempt, <<key[1], a, key[3]>>)

Open(c, key) == {i \in 0..c.admitted[key] - 1 : Branch(key[1], Append(key[2], i)) \notin DOMAIN c.branch}
InWindow(c) == \A key \in DOMAIN c.admitted : Cardinality(Open(c, key)) <= Concurrency[key[1]]

(* What the markers say of block n in its pass of the suffix at: of an     *)
(* attempt that the ones before it have failed, of an item that it is in   *)
(* the window.                                                             *)
EarlierFailed(c, n, at, pass) == \A a \in 0..pass - 1 : Failed(c.attempt, Attempt(n, at, a))
ConcurrentRepeat(n) == Kind[n] = "repeat" /\ Concurrent(n)

Knows(f, c) ==
    /\ Kind[f.node] = "retry" =>
          EarlierFailed(c, f.node, f.at, f.pass) /\ Attempt(f.node, f.at, f.pass) \notin DOMAIN c.attempt
    /\ ConcurrentRepeat(f.node) =>
          /\ f.pos >= 1 => f.pass < Admitted(c, <<f.node, f.at>>)
          /\ f.rest \subseteq 0..Admitted(c, <<f.node, f.at>>) - 1

Known(stk, c) == \A i \in DOMAIN stk : Knows(stk[i], c)

Recorded(ref, c) ==
    \A b \in Above[ref[1]] :
        LET at   == SubSeq(ref[2], 1, Depth[b])
            pass == ref[2][Depth[b] + 1]
        IN  /\ Kind[b] = "retry" => EarlierFailed(c, b, at, pass)
            /\ ConcurrentRepeat(b) => pass < Admitted(c, <<b, at>>)

CpInv(c) == CpOK(c) /\ Follow(c) /\ InWindow(c) /\ \A ref \in DOMAIN c.step : Recorded(ref, c)

(* Markers of a failed attempt stay, and watermarks and branches only grow.*)
Grows(c, d) ==
    /\ \A key : Failed(c.attempt, key) => Failed(d.attempt, key)
    /\ \A key : Admitted(c, key) <= Admitted(d, key)
    /\ DOMAIN c.branch \subseteq DOMAIN d.branch

LEMMA AdmittedIs == ASSUME NEW c, CpOK(c) PROVE \A key : Admitted(c, key) \in Nat
<1>1. ASSUME NEW key, key \in DOMAIN c.admitted PROVE c.admitted[key] \in Nat
  BY <1>1, CountAssumption DEF CpOK
<1> QED BY <1>1 DEF Admitted

LEMMA PassIs ==
    ASSUME NEW ref, Place(ref), NEW b \in Above[ref[1]], Consumes(b)
    PROVE  Depth[b] \in Nat /\ Depth[b] + 1 \in 1..Len(ref[2]) /\ ref[2][Depth[b] + 1] \in Nat
<1>1. ref[1] \in DOMAIN Kind /\ ref[2] \in Seq(Nat) /\ Len(ref[2]) = Depth[ref[1]]
  BY DEF Place, Steps
<1>2. Depth[b] \in Nat /\ Depth[b] + 1 <= Depth[ref[1]]
  BY <1>1, AboveDepth
<1> QED BY <1>1, <1>2

LEMMA RecordedGrows ==
    ASSUME NEW c, NEW d, CpOK(c), CpOK(d), Grows(c, d), NEW ref, Place(ref), Recorded(ref, c)
    PROVE  Recorded(ref, d)
<1> SUFFICES ASSUME NEW b \in Above[ref[1]]
             PROVE  LET at   == SubSeq(ref[2], 1, Depth[b])
                        pass == ref[2][Depth[b] + 1]
                    IN  /\ Kind[b] = "retry" => EarlierFailed(d, b, at, pass)
                        /\ ConcurrentRepeat(b) => pass < Admitted(d, <<b, at>>)
  BY DEF Recorded
<1> DEFINE at == SubSeq(ref[2], 1, Depth[b])
           pass == ref[2][Depth[b] + 1]
<1>1. /\ Kind[b] = "retry" => EarlierFailed(c, b, at, pass)
      /\ ConcurrentRepeat(b) => pass < Admitted(c, <<b, at>>)
  BY DEF Recorded
<1>2. ConcurrentRepeat(b) => pass \in Nat
  <2>1. ConcurrentRepeat(b) => Consumes(b)
    BY TreeAssumption DEF ConcurrentRepeat, Consumes
  <2> QED BY <2>1, PassIs
<1> HIDE DEF at, pass
<1>3. Kind[b] = "retry" => EarlierFailed(d, b, at, pass)
  BY <1>1 DEF EarlierFailed, Grows
<1>4. ConcurrentRepeat(b) => pass < Admitted(d, <<b, at>>)
  <2>1. Admitted(c, <<b, at>>) \in Nat /\ Admitted(d, <<b, at>>) \in Nat
    BY AdmittedIs
  <2>2. Admitted(c, <<b, at>>) <= Admitted(d, <<b, at>>)
    BY DEF Grows
  <2> QED BY <1>1, <1>2, <2>1, <2>2
<1> QED BY <1>3, <1>4 DEF at, pass

(* A step is written where the frames around it say.                       *)
LEMMA StepRecorded ==
    ASSUME NEW stk, Nested(stk), stk # <<>>, NEW n, NEW s, Leads(Last(stk), n, s),
           NEW c, Known(stk, c), \A j \in DOMAIN stk : stk[j].pos >= 1
    PROVE  Recorded(<<n, s>>, c)
<1> SUFFICES ASSUME NEW b \in Above[n], Kind[b] = "retry" \/ ConcurrentRepeat(b)
             PROVE  LET at   == SubSeq(s, 1, Depth[b])
                        pass == s[Depth[b] + 1]
                    IN  /\ Kind[b] = "retry" => EarlierFailed(c, b, at, pass)
                        /\ ConcurrentRepeat(b) => pass < Admitted(c, <<b, at>>)
  BY DEF Recorded
<1>1. PICK j \in DOMAIN stk : stk[j].node = b
  BY Covered
<1>2. FrameOK(stk[j]) /\ Begins(s, SuffixOf(stk[j])) /\ stk[j].pos >= 1
  BY Covered DEF Nested, Level, Within
<1>3. s \in Seq(Nat)
  <2>1. FrameOK(Last(stk))
    <3>1. Len(stk) \in DOMAIN stk
      BY DEF Nested
    <3> QED BY <3>1 DEF Nested, Level, Last
  <2> QED BY <2>1, LeadsIn
<1>4. Consumes(b)
  BY TreeAssumption DEF ConcurrentRepeat, Consumes
<1>5. stk[j].at \in Seq(Nat) /\ Len(stk[j].at) = Depth[b] /\ Depth[b] \in Nat /\ stk[j].pass \in Nat
  BY <1>1, <1>2 DEF FrameOK, Frames
<1>6. SuffixOf(stk[j]) = Append(stk[j].at, stk[j].pass)
  BY <1>1, <1>4 DEF SuffixOf
<1>7. Depth[b] + 1 <= Len(s) /\ \A k \in 1..Depth[b] + 1 : s[k] = Append(stk[j].at, stk[j].pass)[k]
  BY <1>2, <1>5, <1>6 DEF Begins
<1>8. s[Depth[b] + 1] = stk[j].pass /\ SubSeq(s, 1, Depth[b]) = stk[j].at
  <2> DEFINE d == Depth[b]
             at == stk[j].at
  <2>1. d \in Nat /\ at \in Seq(Nat) /\ Len(at) = d /\ d + 1 <= Len(s)
    BY <1>5, <1>7
  <2>2. \A k \in 1..d : s[k] = at[k]
    BY <1>5, <1>7
  <2>3. s[d + 1] = stk[j].pass
    BY <1>5, <1>7
  <2> HIDE DEF d, at
  <2>4. SubSeq(s, 1, d) = at
    BY <1>3, <2>1, <2>2
  <2> QED BY <2>3, <2>4 DEF d, at
<1>9. Knows(stk[j], c)
  BY DEF Known
<1> QED BY <1>1, <1>2, <1>8, <1>9 DEF Knows

-----------------------------------------------------------------------------
(* The writes.                                                             *)

StepSet(c, ref, entry) == [c EXCEPT !.step = With(@, ref, entry)]
BranchSet(c, key, s) == [c EXCEPT !.branch = With(@, key, s)]
AttemptSet(c, key, s) == [c EXCEPT !.attempt = With(@, key, s)]

LEMMA WriteStep ==
    ASSUME NEW c, CpInv(c), NEW ref, Place(ref), Recorded(ref, c), NEW entry, EntryOK(entry)
    PROVE  LET d == StepSet(c, ref, entry)
           IN  /\ CpInv(d) /\ Grows(c, d) /\ DOMAIN d.step = DOMAIN c.step \cup {ref}
               /\ d.attempt = c.attempt /\ d.admitted = c.admitted /\ d.branch = c.branch
<1> DEFINE d == StepSet(c, ref, entry)
<1>1. CpOK(c)
  BY DEF CpInv
<1>2. /\ d = [step |-> d.step, attempt |-> d.attempt, branch |-> d.branch, admitted |-> d.admitted]
      /\ d.step = With(c.step, ref, entry)
      /\ d.attempt = c.attempt /\ d.admitted = c.admitted /\ d.branch = c.branch
  BY <1>1 DEF CpOK, StepSet
<1> HIDE DEF d
<1>3. /\ DOMAIN d.step = DOMAIN c.step \cup {ref} /\ d.step[ref] = entry
      /\ \A r \in DOMAIN c.step : r # ref => d.step[r] = c.step[r]
  BY <1>2 DEF With
<1>4. \A r \in DOMAIN d.step : Place(r) /\ EntryOK(d.step[r])
  BY <1>1, <1>3 DEF CpOK
<1>5. CpOK(d)
  BY <1>1, <1>2, <1>4 DEF CpOK
<1>6. Grows(c, d)
  <2>1. \A key : Admitted(c, key) = Admitted(d, key) /\ Admitted(c, key) \in Nat
    BY <1>1, <1>2, AdmittedIs DEF Admitted
  <2> QED BY <1>2, <2>1 DEF Grows
<1>7. \A r \in DOMAIN d.step : Recorded(r, d)
  <2>1. \A r \in DOMAIN d.step : Recorded(r, c)
    BY <1>3 DEF CpInv
  <2> QED BY <1>1, <1>4, <1>5, <1>6, <2>1, RecordedGrows
<1>8. Follow(d) /\ InWindow(d)
  BY <1>2 DEF CpInv, Follow, InWindow, Open
<1> QED BY <1>2, <1>3, <1>5, <1>6, <1>7, <1>8 DEF CpInv, d

LEMMA WriteBranch ==
    ASSUME NEW c, CpInv(c), NEW key, Concurrent(key[1]), NEW s \in Verdicts
    PROVE  LET d == BranchSet(c, key, s)
           IN  /\ CpInv(d) /\ Grows(c, d) /\ d.attempt = c.attempt /\ d.admitted = c.admitted
               /\ d.step = c.step /\ DOMAIN d.branch = DOMAIN c.branch \cup {key}
<1> DEFINE d == BranchSet(c, key, s)
<1>1. CpOK(c)
  BY DEF CpInv
<1>2. /\ d = [step |-> d.step, attempt |-> d.attempt, branch |-> d.branch, admitted |-> d.admitted]
      /\ d.branch = With(c.branch, key, s)
      /\ d.attempt = c.attempt /\ d.admitted = c.admitted /\ d.step = c.step
  BY <1>1 DEF CpOK, BranchSet
<1> HIDE DEF d
<1>3. /\ DOMAIN d.branch = DOMAIN c.branch \cup {key} /\ d.branch[key] = s
      /\ \A k \in DOMAIN c.branch : k # key => d.branch[k] = c.branch[k]
  BY <1>2 DEF With
<1>4. \A k \in DOMAIN d.branch : Concurrent(k[1]) /\ d.branch[k] \in Verdicts
  BY <1>1, <1>3 DEF CpOK
<1>5. CpOK(d)
  BY <1>1, <1>2, <1>4 DEF CpOK
<1>6. Grows(c, d)
  <2>1. \A k : Admitted(c, k) = Admitted(d, k) /\ Admitted(c, k) \in Nat
    BY <1>1, <1>2, AdmittedIs DEF Admitted
  <2> QED BY <1>2, <1>3, <2>1 DEF Grows
<1>7. \A r \in DOMAIN d.step : Recorded(r, d)
  BY <1>1, <1>2, <1>5, <1>6, RecordedGrows DEF CpInv, CpOK
<1>8. InWindow(d)
  <2> SUFFICES ASSUME NEW k \in DOMAIN d.admitted PROVE Cardinality(Open(d, k)) <= Concurrency[k[1]]
    BY DEF InWindow
  <2>1. Open(d, k) \subseteq Open(c, k) /\ Cardinality(Open(c, k)) <= Concurrency[k[1]]
    <3>1. InWindow(c)
      BY DEF CpInv
    <3>2. Open(d, k) \subseteq Open(c, k)
      BY <1>2, <1>3 DEF Open
    <3> QED BY <1>2, <3>1, <3>2 DEF InWindow
  <2>2. c.admitted[k] \in Nat /\ Concurrency[k[1]] \in Nat
    BY <1>1, <1>2, CountAssumption DEF CpOK
  <2>3. IsFiniteSet(0..c.admitted[k] - 1)
    <3>1. 0 \in Int /\ c.admitted[k] - 1 \in Int
      BY <2>2
    <3> QED BY <3>1, FS_Interval
  <2>4. IsFiniteSet(Open(c, k))
    <3>1. Open(c, k) \subseteq 0..c.admitted[k] - 1
      BY DEF Open
    <3> QED BY <2>3, <3>1, FS_Subset
  <2>5. Cardinality(Open(d, k)) \in Nat /\ Cardinality(Open(c, k)) \in Nat
        /\ Cardinality(Open(d, k)) <= Cardinality(Open(c, k))
    BY <2>1, <2>4, FS_Subset, FS_CardinalityType
  <2> QED BY <2>1, <2>2, <2>5
<1>9. Follow(d)
  BY <1>2 DEF CpInv, Follow
<1> QED BY <1>2, <1>3, <1>5, <1>6, <1>7, <1>8, <1>9 DEF CpInv, d

(* A retry marks the attempt it stands in.                                 *)
LEMMA WriteAttempt ==
    ASSUME NEW c, CpInv(c), NEW f, FrameOK(f), Knows(f, c), Kind[f.node] = "retry", NEW s \in Verdicts
    PROVE  LET key == Attempt(f.node, f.at, f.pass)
               d   == AttemptSet(c, key, s)
           IN  /\ CpInv(d) /\ Grows(c, d) /\ d.admitted = c.admitted /\ d.branch = c.branch /\ d.step = c.step
               /\ d.attempt = With(c.attempt, key, s)
               /\ Attempt(f.node, f.at, f.pass + 1) \notin DOMAIN d.attempt
               /\ EarlierFailed(d, f.node, f.at, f.pass)
<1> DEFINE key == Attempt(f.node, f.at, f.pass)
           d == AttemptSet(c, key, s)
<1>1. CpOK(c) /\ key \notin DOMAIN c.attempt /\ EarlierFailed(c, f.node, f.at, f.pass)
  BY DEF CpInv, Knows
<1>2. /\ d = [step |-> d.step, attempt |-> d.attempt, branch |-> d.branch, admitted |-> d.admitted]
      /\ d.attempt = With(c.attempt, key, s)
      /\ d.branch = c.branch /\ d.admitted = c.admitted /\ d.step = c.step
  BY <1>1 DEF CpOK, AttemptSet
<1>3. f.pass \in Nat /\ key = <<f.node, f.pass, f.at>>
  BY DEF FrameOK, Frames, Attempt
<1> HIDE DEF d, key
<1>4. /\ DOMAIN d.attempt = DOMAIN c.attempt \cup {key} /\ d.attempt[key] = s
      /\ \A k \in DOMAIN c.attempt : d.attempt[k] = c.attempt[k]
  BY <1>1, <1>2 DEF With
<1>5. \A k \in DOMAIN d.attempt :
         k = <<k[1], k[2], k[3]>> /\ Kind[k[1]] = "retry" /\ k[2] \in Nat /\ d.attempt[k] \in Verdicts
  BY <1>1, <1>3, <1>4 DEF CpOK
<1>6. CpOK(d)
  BY <1>1, <1>2, <1>5 DEF CpOK
<1>7. Grows(c, d)
  <2>1. \A k : Admitted(c, k) = Admitted(d, k) /\ Admitted(c, k) \in Nat
    BY <1>1, <1>2, AdmittedIs DEF Admitted
  <2> QED BY <1>2, <1>4, <2>1 DEF Grows, Failed
<1>8. EarlierFailed(d, f.node, f.at, f.pass)
  BY <1>1, <1>7 DEF EarlierFailed, Grows
<1>9. Follow(d)
  <2> SUFFICES ASSUME NEW k \in DOMAIN d.attempt, NEW a \in 0..k[2] - 1
               PROVE  Failed(d.attempt, <<k[1], a, k[3]>>)
    BY DEF Follow
  <2>1. CASE k = key
    BY <1>3, <1>8, <2>1 DEF EarlierFailed, Attempt
  <2>2. CASE k \in DOMAIN c.attempt
    BY <1>7, <2>2 DEF CpInv, Follow, Grows
  <2> QED BY <1>4, <2>1, <2>2
<1>10. Attempt(f.node, f.at, f.pass + 1) \notin DOMAIN d.attempt
  <2> DEFINE k == Attempt(f.node, f.at, f.pass + 1)
  <2> SUFFICES ASSUME k \in DOMAIN d.attempt PROVE FALSE
    OBVIOUS
  <2>1. k = <<f.node, f.pass + 1, f.at>> /\ k # key
    BY <1>3 DEF Attempt
  <2>2. k \in DOMAIN c.attempt /\ f.pass \in 0..k[2] - 1
    BY <1>3, <1>4, <2>1
  <2>3. Failed(c.attempt, <<k[1], f.pass, k[3]>>)
    BY <2>2 DEF CpInv, Follow
  <2> QED BY <1>1, <1>3, <2>1, <2>3 DEF Failed
<1>11. \A r \in DOMAIN d.step : Recorded(r, d)
  BY <1>1, <1>2, <1>6, <1>7, RecordedGrows DEF CpInv, CpOK
<1>12. InWindow(d)
  BY <1>2 DEF CpInv, InWindow, Open
<1> QED BY <1>2, <1>6, <1>7, <1>8, <1>9, <1>10, <1>11, <1>12 DEF CpInv, d, key

-----------------------------------------------------------------------------
(* The window of a concurrent repeat.                                      *)

LEMMA MinIs ==
    ASSUME NEW S, S \subseteq Nat, S # {}
    PROVE  Min(S) \in S /\ \A u \in S : Min(S) <= u
<1> DEFINE R == OpToRel(<, Nat)
<1>1. PICK x \in S : \A y \in S : ~ (<<y, x>> \in R)
  <2>1. IsWellFoundedOn(R, Nat)
    BY NatLessThanWellFounded
  <2> HIDE DEF R
  <2> QED BY <2>1, WFMin
<1>2. \A y \in S : ~(y < x)
  BY <1>1 DEF OpToRel
<1>3. x \in S /\ \A y \in S : x <= y
  BY <1>2
<1> QED BY <1>3 DEF Min

LEMMA MaxIs ==
    ASSUME NEW S, NEW n \in Nat, S \subseteq 0..n, S # {}
    PROVE  Max(S) \in S /\ \A u \in S : u <= Max(S)
<1> DEFINE T == {n - s : s \in S}
<1>1. T \subseteq Nat /\ T # {}
  <2>1. \A s \in S : n - s \in Nat
    OBVIOUS
  <2>2. T # {}
    OBVIOUS
  <2> QED BY <2>1, <2>2
<1>2. PICK s \in S : Min(T) = n - s
  <2>1. Min(T) \in T
    BY <1>1, MinIs
  <2> QED BY <2>1
<1>3. ASSUME NEW u \in S PROVE s >= u
  <2>1. n - u \in T
    OBVIOUS
  <2>2. n - s <= n - u
    BY <1>1, <1>2, <2>1, MinIs
  <2>3. n \in Nat /\ s \in Nat /\ u \in Nat
    OBVIOUS
  <2> HIDE DEF T
  <2> QED BY <2>2, <2>3
<1>4. \E x \in S : \A y \in S : x >= y
  BY <1>3
<1>5. Max(S) \in S /\ \A y \in S : Max(S) >= y
  BY <1>4 DEF Max
<1> QED BY <1>5

Agree == copy.attempt = cp.attempt /\ copy.admitted = cp.admitted /\ DOMAIN copy.branch \subseteq DOMAIN cp.branch

(* The watermark, and the items below it that the walk knows no outcome of.*)
Mark(n, at) == Admitted(cp, <<n, at>>)
Pending(n, at) == {i \in 0..Mark(n, at) - 1 : Branch(n, Append(at, i)) \notin DOMAIN copy.branch}

LEMMA WindowIs ==
    ASSUME CpOK(cp), Agree, NEW n \in Steps, ConcurrentRepeat(n), NEW at
    PROVE  /\ Mark(n, at) \in 0..Count[n] /\ Count[n] \in Nat
           /\ IsFiniteSet(Pending(n, at)) /\ Cardinality(Pending(n, at)) \in Nat
           /\ \A i \in Window(copy, n, at) :
                 /\ i \in 0..Count[n] - 1
                 /\ i >= Mark(n, at) => i < Mark(n, at) + Concurrency[n] - Cardinality(Pending(n, at))
<1>1. Count[n] \in Nat /\ Concurrency[n] \in Nat
  BY CountAssumption DEF ConcurrentRepeat
<1>2. Mark(n, at) \in 0..Count[n]
  <2>1. CASE <<n, at>> \in DOMAIN cp.admitted
    BY <1>1, <2>1 DEF CpOK, Mark, Admitted
  <2>2. CASE <<n, at>> \notin DOMAIN cp.admitted
    BY <1>1, <2>2 DEF Mark, Admitted
  <2> QED BY <2>1, <2>2
<1> DEFINE mark == Mark(n, at)
           pend == Pending(n, at)
           marker(i) == Branch(n, Append(at, i))
           failing == {i \in 0..mark - 1 : Failed(copy.branch, marker(i))}
           room == Max({0, Concurrency[n] - Cardinality(pend)})
           fresh == IF failing # {} THEN {} ELSE mark..Min({Count[n], mark + room}) - 1
<1>3. IsFiniteSet(pend) /\ Cardinality(pend) \in Nat
  <2>1. IsFiniteSet(0..mark - 1)
    BY <1>1, <1>2, FS_Interval
  <2>2. pend \in SUBSET (0..mark - 1)
    BY DEF Pending
  <2>3. IsFiniteSet(pend)
    BY <2>1, <2>2, FS_Subset
  <2> QED BY <2>3, FS_CardinalityType
<1>4. Min({Admitted(copy, <<n, at>>), Count[n]}) = mark
  <2>1. Admitted(copy, <<n, at>>) = mark
    BY DEF Agree, Admitted, Mark
  <2>2. {mark, Count[n]} \subseteq Nat /\ {mark, Count[n]} # {} /\ mark \in Nat /\ mark <= Count[n]
    BY <1>1, <1>2
  <2> HIDE DEF mark
  <2>3. Min({mark, Count[n]}) \in {mark, Count[n]} /\ Min({mark, Count[n]}) <= mark
    BY <2>2, MinIs
  <2> QED BY <1>1, <2>1, <2>2, <2>3
<1>5. Window(copy, n, at) = failing \cup pend \cup fresh
  BY <1>4 DEF Window, Pending
<1>6. room \in Nat /\ (room = 0 \/ room = Concurrency[n] - Cardinality(pend))
  <2> DEFINE c == Concurrency[n] - Cardinality(pend)
  <2>1. c \in Int
    BY <1>1, <1>3
  <2> HIDE DEF c
  <2>2. \E x \in {0, c} : \A y \in {0, c} : x >= y
    <3>1. CASE c >= 0
      BY <2>1, <3>1
    <3>2. CASE c < 0
      BY <2>1, <3>2
    <3> QED BY <2>1, <3>1, <3>2
  <2>3. Max({0, c}) \in {0, c} /\ Max({0, c}) >= 0
    BY <2>2 DEF Max
  <2> QED BY <2>1, <2>3 DEF c
<1>7. ASSUME NEW i \in fresh PROVE i \in 0..Count[n] - 1 /\ i >= mark /\ i < mark + room
  <2> DEFINE m == Min({Count[n], mark + room})
  <2>1. {Count[n], mark + room} \subseteq Nat /\ {Count[n], mark + room} # {} /\ mark \in Nat
    BY <1>1, <1>2, <1>6
  <2>2. m <= Count[n] /\ m <= mark + room /\ m \in Nat
    BY <2>1, MinIs
  <2>3. i \in mark..m - 1
    OBVIOUS
  <2> HIDE DEF m, mark, room, fresh
  <2> QED BY <1>1, <1>6, <2>1, <2>2, <2>3
<1>8. \A i \in failing \cup pend : i \in 0..Count[n] - 1 /\ i < mark
  BY <1>1, <1>2 DEF Pending
<1>9. ASSUME NEW i \in Window(copy, n, at)
      PROVE  i \in 0..Count[n] - 1 /\ (i >= mark => i < mark + Concurrency[n] - Cardinality(pend))
  <2> HIDE DEF failing, fresh, room, pend, mark
  <2>1. CASE i \in failing \cup pend
    <3>1. mark \in Nat
      BY <1>1, <1>2 DEF mark
    <3> QED BY <1>1, <1>8, <2>1, <3>1
  <2>2. CASE i \in fresh
    <3>1. mark \in Nat
      BY <1>1, <1>2 DEF mark
    <3> QED BY <1>1, <1>3, <1>6, <1>7, <2>2, <3>1
  <2> QED BY <1>5, <2>1, <2>2
<1> QED BY <1>1, <1>2, <1>3, <1>9

LEMMA WriteAdmitted ==
    ASSUME CpInv(cp), Agree, NEW n \in Steps, ConcurrentRepeat(n), NEW at,
           NEW top, top = Max({0} \cup {i + 1 : i \in Window(copy, n, at)}), top > Mark(n, at)
    PROVE  LET d == [cp EXCEPT !.admitted = With(@, <<n, at>>, top)]
           IN  /\ CpInv(d) /\ Grows(cp, d) /\ Admitted(d, <<n, at>>) = top
               /\ d.attempt = cp.attempt /\ d.branch = cp.branch /\ d.step = cp.step
<1> DEFINE key == <<n, at>>
           d == [cp EXCEPT !.admitted = With(@, key, top)]
           mark == Mark(n, at)
           pend == Pending(n, at)
<1>1. CpOK(cp)
  BY DEF CpInv
<1>2. /\ d = [step |-> d.step, attempt |-> d.attempt, branch |-> d.branch, admitted |-> d.admitted]
      /\ d.admitted = With(cp.admitted, key, top)
      /\ d.attempt = cp.attempt /\ d.branch = cp.branch /\ d.step = cp.step
  BY <1>1 DEF CpOK
<1>3. /\ mark \in 0..Count[n] /\ Count[n] \in Nat /\ IsFiniteSet(pend) /\ Cardinality(pend) \in Nat
      /\ \A i \in Window(copy, n, at) :
            i \in 0..Count[n] - 1 /\ (i >= mark => i < mark + Concurrency[n] - Cardinality(pend))
  BY <1>1, WindowIs
<1>4. key[1] = n /\ key[2] = at /\ Concurrency[n] \in Nat
  BY CountAssumption DEF ConcurrentRepeat
<1> HIDE DEF d, mark, pend, key
<1>5. /\ top \in 0..Count[n] /\ top >= 1
      /\ \E i \in Window(copy, n, at) : top = i + 1
  <2> DEFINE S == {0} \cup {i + 1 : i \in Window(copy, n, at)}
  <2>0. top = Max(S)
    OBVIOUS
  <2>1. S \subseteq 0..Count[n] /\ S # {}
    BY <1>3
  <2> HIDE DEF S
  <2>2. Max(S) \in S /\ Max(S) \in 0..Count[n]
    BY <1>3, <2>1, MaxIs
  <2>3. mark \in Nat /\ top > mark
    BY <1>3 DEF mark
  <2>4. top \in S /\ top # 0 /\ top \in 0..Count[n] /\ top >= 1
    BY <1>3, <2>0, <2>2, <2>3
  <2>5. \E i \in Window(copy, n, at) : top = i + 1
    BY <2>4 DEF S
  <2> QED BY <2>4, <2>5
<1>6. top <= mark + Concurrency[n] - Cardinality(pend) /\ top > mark
  BY <1>3, <1>4, <1>5 DEF mark
<1>7. /\ DOMAIN d.admitted = DOMAIN cp.admitted \cup {key} /\ d.admitted[key] = top
      /\ \A k \in DOMAIN cp.admitted : k # key => d.admitted[k] = cp.admitted[k]
  BY <1>2 DEF With
<1>8. CpOK(d)
  <2>1. top \in 1..Count[n]
    BY <1>3, <1>5
  <2>2. \A k \in DOMAIN d.admitted :
          /\ k = <<k[1], k[2]>> /\ k[1] \in Steps /\ Kind[k[1]] = "repeat" /\ Concurrent(k[1])
          /\ d.admitted[k] \in 1..Count[k[1]]
    BY <1>1, <1>4, <1>7, <2>1 DEF CpOK, ConcurrentRepeat, key
  <2> QED BY <1>1, <1>2, <2>2 DEF CpOK
<1>9. Admitted(d, key) = top /\ \A k : k # key => Admitted(d, k) = Admitted(cp, k)
  BY <1>7 DEF Admitted
<1>10. Grows(cp, d)
  <2>1. \A k : Admitted(cp, k) \in Nat
    BY <1>1, AdmittedIs
  <2>2. Admitted(cp, key) = mark
    BY DEF mark, Mark, key
  <2>3. \A k : Admitted(cp, k) <= Admitted(d, k)
    BY <1>3, <1>5, <1>6, <1>9, <2>1, <2>2
  <2> QED BY <1>2, <2>3 DEF Grows
<1>11. InWindow(d)
  <2> SUFFICES ASSUME NEW k \in DOMAIN d.admitted PROVE Cardinality(Open(d, k)) <= Concurrency[k[1]]
    BY DEF InWindow
  <2>1. CASE k # key
    <3>1. k \in DOMAIN cp.admitted /\ d.admitted[k] = cp.admitted[k]
      BY <1>7, <2>1
    <3>2. Open(d, k) = Open(cp, k)
      BY <1>2, <3>1 DEF Open
    <3> QED BY <3>1, <3>2 DEF CpInv, InWindow
  <2>2. CASE k = key
    <3> DEFINE new == mark..top - 1
    <3>1. Open(d, k) \subseteq pend \cup new
      <4> SUFFICES ASSUME NEW i \in Open(d, k), i \notin new PROVE i \in pend
        OBVIOUS
      <4>1. i \in 0..top - 1 /\ Branch(n, Append(at, i)) \notin DOMAIN cp.branch
        BY <1>2, <1>4, <1>7, <2>2 DEF Open
      <4>2. i \in 0..mark - 1
        BY <1>3, <1>5, <4>1
      <4> QED BY <4>1, <4>2 DEF pend, Pending, mark, Agree
    <3>2. IsFiniteSet(new) /\ Cardinality(new) = top - mark
      <4>1. mark \in Int /\ top - 1 \in Int /\ top > mark /\ top \in Int
        BY <1>3, <1>5, <1>6
      <4> QED BY <4>1, FS_Interval
    <3> HIDE DEF new
    <3>3. /\ IsFiniteSet(pend \cup new) /\ Cardinality(pend \cap new) \in Nat
          /\ Cardinality(pend \cup new) = Cardinality(pend) + Cardinality(new) - Cardinality(pend \cap new)
      <4>1. IsFiniteSet(pend \cap new)
        BY <1>3, FS_Subset
      <4> QED BY <1>3, <3>2, <4>1, FS_Union, FS_CardinalityType
    <3>4. Cardinality(Open(d, k)) <= Cardinality(pend \cup new) /\ Cardinality(Open(d, k)) \in Nat
      <4>1. IsFiniteSet(Open(d, k))
        BY <3>1, <3>3, FS_Subset
      <4> QED BY <3>1, <3>3, <4>1, FS_Subset, FS_CardinalityType
    <3> QED BY <1>3, <1>4, <1>5, <1>6, <2>2, <3>2, <3>3, <3>4
  <2> QED BY <2>1, <2>2
<1>12. Follow(d)
  BY <1>2 DEF CpInv, Follow
<1>13. \A r \in DOMAIN d.step : Recorded(r, d)
  BY <1>1, <1>2, <1>8, <1>10, RecordedGrows DEF CpInv, CpOK
<1> QED BY <1>2, <1>8, <1>9, <1>10, <1>11, <1>12, <1>13 DEF CpInv, d, key

-----------------------------------------------------------------------------
(* The moves of the stack.                                                 *)

LEMMA KnowsGrows ==
    ASSUME NEW c, NEW d, CpOK(c), CpOK(d), Grows(c, d), NEW f, FrameOK(f), Knows(f, c),
           Kind[f.node] = "retry" => Attempt(f.node, f.at, f.pass) \notin DOMAIN d.attempt
    PROVE  Knows(f, d)
<1>1. Kind[f.node] = "retry" => EarlierFailed(d, f.node, f.at, f.pass)
  BY DEF Knows, Grows, EarlierFailed
<1>2. ASSUME ConcurrentRepeat(f.node)
      PROVE  /\ f.pos >= 1 => f.pass < Admitted(d, <<f.node, f.at>>)
             /\ f.rest \subseteq 0..Admitted(d, <<f.node, f.at>>) - 1
  <2> DEFINE key == <<f.node, f.at>>
  <2>1. Admitted(c, key) \in Nat /\ Admitted(d, key) \in Nat /\ Admitted(c, key) <= Admitted(d, key)
    BY AdmittedIs DEF Grows
  <2>2. (f.pos >= 1 => f.pass < Admitted(c, key)) /\ f.rest \subseteq 0..Admitted(c, key) - 1
    BY <1>2 DEF Knows
  <2>3. f.pass \in Nat
    BY DEF FrameOK, Frames
  <2> HIDE DEF key
  <2>4. (f.pos >= 1 => f.pass < Admitted(d, key)) /\ f.rest \subseteq 0..Admitted(d, key) - 1
    BY <2>1, <2>2, <2>3
  <2> QED BY <2>4 DEF key
<1> QED BY <1>1, <1>2 DEF Knows

LEMMA KnownGrows ==
    ASSUME NEW c, NEW d, CpOK(c), CpOK(d), Grows(c, d), d.attempt = c.attempt,
           NEW stk, Nested(stk), Known(stk, c)
    PROVE  Known(stk, d)
<1> SUFFICES ASSUME NEW i \in DOMAIN stk PROVE Knows(stk[i], d)
  BY DEF Known
<1>1. FrameOK(stk[i]) /\ Knows(stk[i], c)
  BY DEF Nested, Level, Known
<1>2. Kind[stk[i].node] = "retry" => Attempt(stk[i].node, stk[i].at, stk[i].pass) \notin DOMAIN d.attempt
  BY <1>1 DEF Knows
<1> QED BY <1>1, <1>2, KnowsGrows

LEMMA TopIs ==
    ASSUME NEW stk, Nested(stk), stk # <<>>
    PROVE  /\ Len(stk) \in DOMAIN stk /\ DOMAIN stk = 1..Len(stk) /\ Len(stk) \in Nat \ {0}
           /\ Last(stk) = stk[Len(stk)] /\ FrameOK(Last(stk))
<1>1. Len(stk) \in DOMAIN stk /\ DOMAIN stk = 1..Len(stk) /\ Len(stk) \in Nat \ {0} /\ Last(stk) = stk[Len(stk)]
  BY DEF Nested, Last
<1> QED BY <1>1 DEF Nested, Level

LEMMA PushKnown ==
    ASSUME NEW stk, Nested(stk), NEW c, Known(stk, c), NEW f, Knows(f, c)
    PROVE  Known(Append(stk, f), c)
<1>1. stk \in Seq(Frames)
  BY DEF Nested
<1>2. \A i \in DOMAIN Append(stk, f) : Append(stk, f)[i] = f \/ (i \in DOMAIN stk /\ Append(stk, f)[i] = stk[i])
  BY <1>1
<1> QED BY <1>2 DEF Known

LEMMA TopKnown ==
    ASSUME NEW stk, NEW c, Known(stk, c), NEW f, Knows(f, c)
    PROVE  Known([stk EXCEPT ![Len(stk)] = f], c)
BY DEF Known

LEMMA PopKnown ==
    ASSUME NEW stk, Nested(stk), Len(stk) > 1, NEW c, Known(stk, c)
    PROVE  Known(Front(stk), c)
<1>1. Len(stk) \in Nat /\ DOMAIN stk = 1..Len(stk) /\ DOMAIN Front(stk) = 1..Len(stk) - 1
  BY DEF Nested, Front
<1> QED BY <1>1, PopNested DEF Known

(* Only the definition itself is walked with nothing around it.            *)
LEMMA RootAlone ==
    ASSUME NEW stk, Nested(stk), stk # <<>>, Kind[Last(stk).node] # "root"
    PROVE  Len(stk) > 1
<1>0. Len(stk) \in Nat \ {0} /\ Len(stk) \in DOMAIN stk /\ Last(stk) = stk[Len(stk)]
  BY TopIs
<1> SUFFICES ASSUME Len(stk) = 1 PROVE FALSE
  BY <1>0
<1>1. Level(stk, 1) /\ Last(stk) = stk[1]
  BY <1>0 DEF Nested
<1>2. Above[stk[1].node] = {}
  BY <1>1 DEF Level
<1>3. stk[1].node \in DOMAIN Kind /\ stk[1].node # Root
  BY <1>1, TreeAssumption DEF Level, FrameOK, Frames
<1> QED BY <1>2, <1>3, AboveIs

LEMMA AfterKeeps ==
    ASSUME NEW stk, Nested(stk), stk # <<>>, Last(stk).pos >= 1,
           NEW c, Known(stk, c), NEW r \in Results, After(stk, r)
    PROVE  Nested(stack') /\ Known(stack', c) /\ ret' \in Results \cup {"none"}
<1>1. ret' \in {r, "none"} /\ (stack' = stk \/ stack' = [stk EXCEPT ![Len(stk)].pos = @ + 1])
  BY DEF After
<1>2. CASE stack' = stk
  BY <1>1, <1>2
<1>3. CASE stack' = [stk EXCEPT ![Len(stk)].pos = @ + 1]
  <2> DEFINE f == [Last(stk) EXCEPT !.pos = @ + 1]
  <2>1. stack' = [stk EXCEPT ![Len(stk)] = f]
    BY <1>3, TopIs
  <2>2. FrameOK(Last(stk)) /\ Knows(Last(stk), c)
    BY TopIs DEF Known
  <2>3. /\ f \in Frames /\ f.node = Last(stk).node /\ f.at = Last(stk).at /\ f.pass = Last(stk).pass
        /\ f.rest = Last(stk).rest /\ f.pos >= 1
    BY <2>2 DEF FrameOK, Frames
  <2> HIDE DEF f
  <2>4. FrameOK(f)
    BY <2>2, <2>3 DEF FrameOK, Index
  <2>5. Knows(f, c)
    BY <2>2, <2>3 DEF Knows
  <2> QED BY <1>1, <2>1, <2>3, <2>4, <2>5, TopNested, TopKnown
<1> QED BY <1>1, <1>2, <1>3

LEMMA ReturnKeeps ==
    ASSUME Nested(stack), stack # <<>>, Kind[Top.node] # "root",
           NEW c, Known(Front(stack), c), NEW r \in Results, Return(r)
    PROVE  Nested(stack') /\ Known(stack', c) /\ ret' \in Results \cup {"none"}
<1>1. Len(stack) > 1
  BY RootAlone DEF Top
<1>2. Nested(Front(stack)) /\ Front(stack) # <<>> /\ Last(Front(stack)).pos >= 1
  BY <1>1, PopNested
<1> QED BY <1>2, AfterKeeps DEF Return

(* The step in hand.                                                       *)
LEMMA HereIs ==
    ASSUME Nested(stack), InBody
    PROVE  /\ stack # <<>> /\ FrameOK(Top) /\ Top.pos >= 1 /\ Leads(Top, Here, SuffixOf(Top))
           /\ Here \in Steps /\ SuffixOf(Top) \in Seq(Nat) /\ Len(SuffixOf(Top)) = Depth[Here]
           /\ \A j \in DOMAIN stack : stack[j].pos >= 1
<1>1. stack # <<>> /\ FrameOK(Top) /\ Top.pos \in DOMAIN BodyOf(Top)
  BY TopIs DEF InBody, Walking, Top
<1>2. Top.pos >= 1
  BY <1>1, BodyIs
<1>3. Leads(Top, Here, SuffixOf(Top))
  BY <1>1 DEF Leads, Here
<1>4. Here \in Steps /\ SuffixOf(Top) \in Seq(Nat) /\ Len(SuffixOf(Top)) = Depth[Here]
  BY <1>1, <1>3, LeadsIn
<1>5. \A j \in DOMAIN stack : stack[j].pos >= 1
  <2> SUFFICES ASSUME NEW j \in DOMAIN stack PROVE stack[j].pos >= 1
    OBVIOUS
  <2>1. CASE j = Len(stack)
    BY <1>1, <1>2, <2>1, TopIs DEF Top
  <2>2. CASE j + 1 \in DOMAIN stack
    <3>1. FrameOK(stack[j]) /\ Level(stack, j + 1)
      BY <2>2 DEF Nested, Level
    <3>2. j + 1 > 1 /\ (j + 1) - 1 = j
      BY <1>1, TopIs
    <3>3. Leads(stack[j], stack[j + 1].node, stack[j + 1].at)
      BY <3>1, <3>2 DEF Level
    <3>4. stack[j].pos \in DOMAIN BodyOf(stack[j])
      BY <3>3 DEF Leads
    <3> QED BY <3>1, <3>4, BodyIs
  <2> QED BY <1>1, <2>1, <2>2, TopIs
<1> QED BY <1>1, <1>2, <1>3, <1>4, <1>5

LEMMA EnterKeeps ==
    ASSUME Nested(stack), InBody, NEW f, FrameOK(f), f.node = Here, f.at = SuffixOf(Top),
           NEW c, Known(stack, c), Knows(f, c), stack' = Append(stack, f)
    PROVE  Nested(stack') /\ Known(stack', c)
<1>1. stack # <<>> /\ Leads(Last(stack), f.node, f.at)
  BY HereIs DEF Top
<1> QED BY <1>1, PushNested, PushKnown

LEMMA OnTopKeeps ==
    ASSUME Nested(stack), stack # <<>>, NEW f, FrameOK(f), f.node = Top.node, f.at = Top.at,
           NEW c, Known(stack, c), Knows(f, c), stack' = OnTop(f)
    PROVE  Nested(stack') /\ Known(stack', c)
BY TopNested, TopKnown DEF OnTop, Top

-----------------------------------------------------------------------------
(* The inductive invariant: the store, the walk and the run.               *)

StoreOK == CpInv(cp) /\ CpOK(copy) /\ Agree
WalkOK == Nested(stack) /\ Known(stack, cp) /\ ret \in Results \cup {"none"}
RunOK == status \in {"live", "succeeded", "failed"} /\ wanted \in BOOLEAN /\ lost \in BOOLEAN /\ crashes \in 0..MaxCrashes

BlockInv == StoreOK /\ WalkOK /\ RunOK

LEMMA StoreStays ==
    ASSUME StoreOK, UNCHANGED <<cp, copy>>
    PROVE  StoreOK'
<1>1. cp' = cp /\ copy' = copy
  OBVIOUS
<1>2. CpInv(cp)' /\ CpOK(copy)'
  BY <1>1 DEF StoreOK
<1>3. Agree'
  BY <1>1 DEF StoreOK, Agree
<1> QED BY <1>2, <1>3 DEF StoreOK

LEMMA StoreWritten ==
    ASSUME NEW c, CpInv(c), Write(c)
    PROVE  StoreOK'
<1>1. cp' = c /\ copy' = c
  BY DEF Write
<1>2. CpInv(cp)' /\ CpOK(copy)'
  BY <1>1 DEF CpInv
<1>3. Agree'
  BY <1>1 DEF Agree
<1> QED BY <1>2, <1>3 DEF StoreOK

LEMMA RoundKeeps ==
    ASSUME StoreOK, NEW stk, Nested(stk), stk # <<>>, Last(stk).pos >= 1, Known(stk, cp),
           NEW f, FrameOK(f), Leads(Last(stk), f.node, f.at), ConcurrentRepeat(f.node), f.node \in Steps,
           Round(stk, f, copy)
    PROVE  StoreOK' /\ WalkOK'
<1> DEFINE window == Window(copy, f.node, f.at)
           key == <<f.node, f.at>>
           top == Max({0} \cup {i + 1 : i \in window})
           next == [f EXCEPT !.pos = 0, !.rest = window, !.parked = FALSE]
           d == [cp EXCEPT !.admitted = With(@, key, top)]
<1>1. CpInv(cp) /\ CpOK(cp) /\ CpOK(copy) /\ Agree
  BY DEF StoreOK, CpInv
<1>2. CASE window = {}
  <2>1. After(stk, "done") /\ UNCHANGED <<cp, copy>>
    BY <1>2 DEF Round
  <2>2. Nested(stack') /\ Known(stack', cp) /\ ret' \in Results \cup {"none"}
    BY <2>1, AfterKeeps DEF Results
  <2> QED BY <2>1, <2>2, StoreStays DEF WalkOK
<1>3. CASE window # {}
  <2>1. /\ stack' = Append(stk, next) /\ ret' = "none"
        /\ IF top > Admitted(copy, key) THEN Write(d) ELSE UNCHANGED <<cp, copy>>
    BY <1>3 DEF Round
  <2>2. Admitted(copy, key) = Mark(f.node, f.at) /\ Mark(f.node, f.at) = Admitted(cp, key)
    BY <1>1 DEF Agree, Admitted, Mark
  <2>3. Mark(f.node, f.at) \in 0..Count[f.node] /\ Count[f.node] \in Nat /\ window \subseteq 0..Count[f.node] - 1
    BY <1>1, WindowIs
  <2>4. top \in Nat /\ \A i \in window : i < top
    <3> DEFINE S == {0} \cup {i + 1 : i \in window}
    <3>0. top = Max(S)
      OBVIOUS
    <3> HIDE DEF window, top
    <3> DEFINE k == Count[f.node]
    <3>1. S \subseteq 0..k /\ S # {} /\ k \in Nat
      BY <2>3
    <3>2. \A i \in window : i + 1 \in S /\ i \in Nat
      BY <2>3
    <3> HIDE DEF S, k
    <3>3. Max(S) \in S /\ \A u \in S : u <= Max(S)
      BY <3>1, MaxIs
    <3>4. Max(S) \in Nat
      <4>1. Max(S) \in 0..k
        BY <3>1, <3>3
      <4> QED BY <3>1, <4>1
    <3> QED BY <3>0, <3>2, <3>3, <3>4
  <2>5. /\ next \in Frames /\ next.node = f.node /\ next.at = f.at /\ next.pass = f.pass
        /\ next.pos = 0 /\ next.rest = window
    <3>1. window \subseteq Nat
      BY <2>3
    <3> HIDE DEF window
    <3> QED BY <3>1 DEF FrameOK, Frames
  <2> HIDE DEF next, d, top
  <2>6. FrameOK(next)
    BY <2>5 DEF FrameOK, Index, ConcurrentRepeat
  <2> HIDE DEF window
  <2>7. CpInv(cp') /\ Known(stk, cp') /\ StoreOK' /\ window \subseteq 0..Admitted(cp', key) - 1
    <3>1. CASE top > Mark(f.node, f.at)
      <4>1. /\ CpInv(d) /\ Grows(cp, d) /\ Admitted(d, key) = top /\ d.attempt = cp.attempt
        BY <1>1, <3>1, WriteAdmitted DEF d, top, window
      <4>2. Write(d) /\ cp' = d
        BY <2>1, <2>2, <3>1 DEF Write
      <4>3. Known(stk, d)
        BY <1>1, <4>1, KnownGrows DEF CpInv
      <4>4. \A i \in window : i \in 0..top - 1
        BY <2>3, <2>4
      <4>5. StoreOK'
        BY <4>1, <4>2, StoreWritten
      <4>6. CpInv(cp') /\ Known(stk, cp')
        BY <4>1, <4>2, <4>3
      <4>7. window \subseteq 0..Admitted(cp', key) - 1
        BY <4>1, <4>2, <4>4
      <4> QED BY <4>5, <4>6, <4>7
    <3>2. CASE ~(top > Mark(f.node, f.at))
      <4>1. UNCHANGED <<cp, copy>>
        BY <2>1, <2>2, <3>2
      <4>2. \A i \in window : i \in 0..Mark(f.node, f.at) - 1
        BY <2>3, <2>4, <3>2
      <4>3. StoreOK'
        BY <4>1, StoreStays
      <4>4. CpInv(cp') /\ Known(stk, cp')
        BY <1>1, <4>1
      <4>5. window \subseteq 0..Admitted(cp', key) - 1
        BY <2>2, <4>1, <4>2
      <4> QED BY <4>3, <4>4, <4>5
    <3> QED BY <3>1, <3>2
  <2>8. Knows(next, cp')
    BY <2>5, <2>7 DEF Knows, ConcurrentRepeat
  <2>9. Nested(stack')
    BY <2>1, <2>5, <2>6, PushNested
  <2>10. Known(stack', cp')
    BY <2>1, <2>7, <2>8, PushKnown
  <2> QED BY <2>1, <2>7, <2>9, <2>10 DEF WalkOK
<1> QED BY <1>2, <1>3

-----------------------------------------------------------------------------
(* The steps of the walk.                                                  *)

LEMMA Moved ==
    ASSUME BlockInv, UNCHANGED <<cp, copy>>, Nested(stack'), Known(stack', cp), ret' \in Results \cup {"none"}
    PROVE  StoreOK' /\ WalkOK'
BY StoreStays DEF BlockInv, WalkOK

LEMMA MovesOn ==
    ASSUME Nested(stack), InBody, NEW c, Known(stack, c), NEW r \in Results, After(stack, r)
    PROVE  Nested(stack') /\ Known(stack', c) /\ ret' \in Results \cup {"none"}
BY HereIs, AfterKeeps DEF Top

LEMMA LeavesKeep ==
    ASSUME BlockInv, Leaves
    PROVE  StoreOK' /\ WalkOK'
<1>1. /\ CpInv(cp) /\ CpOK(cp) /\ CpOK(copy) /\ Agree /\ Nested(stack) /\ Known(stack, cp)
  BY DEF BlockInv, StoreOK, WalkOK, CpInv
<1>2. \A r \in {"done", "failed", "parked", "broke"} : r \in Results
  BY DEF Results
<1>3. ASSUME InBody, UNCHANGED <<cp, copy>>, NEW r \in {"done", "parked", "broke"}, After(stack, r)
      PROVE  StoreOK' /\ WalkOK'
  BY <1>1, <1>2, <1>3, MovesOn, Moved
<1>4. ASSUME InBody, Leaf(Here), NEW entry, EntryOK(entry), NEW r \in {"done", "failed", "parked"},
             Write(StepSet(cp, Ref, entry)), After(stack, r)
      PROVE  StoreOK' /\ WalkOK'
  <2> DEFINE d == StepSet(cp, Ref, entry)
  <2>1. /\ stack # <<>> /\ Leads(Last(stack), Here, SuffixOf(Top)) /\ \A j \in DOMAIN stack : stack[j].pos >= 1
        /\ Here \in Steps /\ SuffixOf(Top) \in Seq(Nat) /\ Len(SuffixOf(Top)) = Depth[Here]
    BY <1>1, <1>4, HereIs DEF Top
  <2>2. Place(Ref) /\ Recorded(Ref, cp)
    <3>1. Recorded(<<Here, SuffixOf(Top)>>, cp)
      BY <1>1, <2>1, StepRecorded
    <3> QED BY <1>4, <2>1, <3>1 DEF Ref, Place
  <2>3. CpInv(d) /\ Grows(cp, d) /\ d.attempt = cp.attempt
    <3>1. EntryOK(entry)
      BY <1>4
    <3> QED BY <1>1, <2>2, <3>1, WriteStep
  <2> HIDE DEF d
  <2>4. Known(stack, d)
    BY <1>1, <2>3, KnownGrows DEF CpInv
  <2>5. cp' = d /\ Write(d)
    BY <1>4 DEF Write, d
  <2>6. Nested(stack') /\ Known(stack', d) /\ ret' \in Results \cup {"none"}
    BY <1>1, <1>2, <1>4, <2>4, MovesOn
  <2>7. StoreOK'
    BY <2>3, <2>5, StoreWritten
  <2> QED BY <2>5, <2>6, <2>7 DEF WalkOK
<1>5. CASE SkipSettled
  BY <1>3, <1>5 DEF SkipSettled
<1>6. CASE MeetWaiting
  BY <1>3, <1>6 DEF MeetWaiting
<1>7. CASE Break
  BY <1>3, <1>7 DEF Break
<1>8. CASE RunAction
  <2>1. InBody /\ Leaf(Here)
    BY <1>8 DEF RunAction, Leaf, LeafKinds
  <2>2. PICK entry \in Outcomes(Here) :
          /\ Write(StepSet(cp, Ref, entry))
          /\ After(stack, IF entry.status = "failed" THEN "failed" ELSE "done")
    BY <1>8 DEF RunAction, StepSet
  <2>3. EntryOK(entry)
    <3>1. CASE entry \in Successes(Here)
      <4>1. PICK out \in IF Here \in Range(Test) THEN BOOLEAN ELSE {FALSE} :
               entry = [status |-> "succeeded", out |-> out]
        BY <3>1 DEF Successes
      <4>2. out \in BOOLEAN
        BY <4>1
      <4> QED BY <4>1, <4>2 DEF EntryOK
    <3>2. CASE entry = Failure
      BY <3>2 DEF Failure, EntryOK
    <3> QED BY <3>1, <3>2 DEF Outcomes
  <2> DEFINE r == IF entry.status = "failed" THEN "failed" ELSE "done"
  <2>4. r \in {"done", "failed", "parked"} /\ After(stack, r)
    BY <2>2
  <2>5. Write(StepSet(cp, Ref, entry))
    BY <2>2
  <2> HIDE DEF r
  <2> QED BY <1>4, <2>1, <2>3, <2>4, <2>5
<1>9. CASE Suspend
  <2> DEFINE entry == [status |-> "waiting", out |-> FALSE]
  <2>1. InBody /\ Leaf(Here) /\ Write(StepSet(cp, Ref, entry)) /\ After(stack, "parked")
    BY <1>9 DEF Suspend, Leaf, LeafKinds, StepSet
  <2>2. EntryOK(entry)
    BY DEF EntryOK
  <2> HIDE DEF entry
  <2> QED BY <1>4, <2>1, <2>2
<1> QED BY <1>5, <1>6, <1>7, <1>8, <1>9 DEF Leaves

LEMMA FrameFits ==
    ASSUME Nested(stack), InBody, Kind[Here] \in {"if", "repeat", "loop", "retry"},
           NEW pass \in Nat, Kind[Here] = "if" => pass \in {1, 2}
    PROVE  LET f == Frame(Here, SuffixOf(Top), pass)
           IN  /\ FrameOK(f) /\ f.node = Here /\ f.at = SuffixOf(Top)
               /\ f.pass = pass /\ f.pos = 1 /\ f.rest = {}
<1> DEFINE f == Frame(Here, SuffixOf(Top), pass)
<1>1. Here \in Steps /\ SuffixOf(Top) \in Seq(Nat) /\ Len(SuffixOf(Top)) = Depth[Here]
  BY HereIs
<1>2. Here \in DOMAIN Body /\ Len(Body[Here]) = (IF Kind[Here] = "if" THEN 2 ELSE 1)
      /\ DOMAIN Body[Here] = 1..Len(Body[Here])
  <2>1. Here \in DOMAIN Body
    BY <1>1, TreeAssumption DEF Leaf, LeafKinds, Steps
  <2> QED BY <2>1, TreeAssumption
<1>3. f \in Frames /\ f.node = Here /\ f.at = SuffixOf(Top) /\ f.pass = pass /\ f.pos = 1 /\ f.rest = {}
  BY <1>1, <1>2 DEF Frame, Frames
<1> HIDE DEF f
<1>4. Index(f) \in DOMAIN Body[Here]
  <2>1. CASE Kind[Here] = "if"
    BY <1>2, <1>3, <2>1 DEF Index
  <2>2. CASE Kind[Here] # "if"
    BY <1>2, <1>3, <2>2 DEF Index
  <2> QED BY <2>1, <2>2
<1> QED BY <1>1, <1>3, <1>4 DEF FrameOK, f

LEMMA EntersKeep ==
    ASSUME BlockInv, Enters
    PROVE  StoreOK' /\ WalkOK'
<1>1. /\ CpInv(cp) /\ CpOK(cp) /\ CpOK(copy) /\ Agree /\ Nested(stack) /\ Known(stack, cp) /\ StoreOK
  BY DEF BlockInv, StoreOK, WalkOK, CpInv
<1>2. ASSUME InBody, UNCHANGED <<cp, copy>>, NEW r \in {"done", "failed"}, After(stack, r)
      PROVE  StoreOK' /\ WalkOK'
  BY <1>1, <1>2, MovesOn, Moved DEF Results
<1>3. ASSUME InBody, UNCHANGED <<cp, copy>>, Kind[Here] \in {"if", "repeat", "loop", "retry"}, ~ConcurrentRepeat(Here),
             NEW pass \in Nat, Kind[Here] = "if" => pass \in {1, 2},
             Kind[Here] = "retry" => /\ EarlierFailed(cp, Here, SuffixOf(Top), pass)
                                     /\ Attempt(Here, SuffixOf(Top), pass) \notin DOMAIN cp.attempt,
             Enter(pass)
      PROVE  StoreOK' /\ WalkOK'
  <2> DEFINE f == Frame(Here, SuffixOf(Top), pass)
  <2>1. /\ FrameOK(f) /\ f.node = Here /\ f.at = SuffixOf(Top)
        /\ f.pass = pass /\ f.pos = 1 /\ f.rest = {}
    BY <1>1, <1>3, FrameFits
  <2>2. stack' = Append(stack, f) /\ ret' = "none"
    BY <1>3 DEF Enter
  <2> HIDE DEF f
  <2>3. Knows(f, cp)
    BY <1>3, <2>1 DEF Knows
  <2>4. Nested(stack') /\ Known(stack', cp)
    BY <1>1, <1>3, <2>1, <2>2, <2>3, EnterKeeps
  <2> QED BY <1>3, <2>2, <2>4, Moved
<1>4. CASE EnterIf
  <2> DEFINE pass == IF Holds(copy, Here, SuffixOf(Top)) THEN 1 ELSE 2
  <2>1. InBody /\ Kind[Here] = "if" /\ Enter(pass) /\ UNCHANGED <<cp, copy>>
    BY <1>4 DEF EnterIf
  <2>2. pass \in Nat /\ pass \in {1, 2}
    OBVIOUS
  <2> HIDE DEF pass
  <2> QED BY <1>3, <2>1, <2>2 DEF ConcurrentRepeat
<1>5. CASE EnterRepeat
  <2>1. InBody /\ Kind[Here] = "repeat" /\ ~ConcurrentRepeat(Here) /\ UNCHANGED <<cp, copy>>
        /\ (After(stack, "failed") \/ After(stack, "done") \/ Enter(0))
    BY <1>5 DEF EnterRepeat, ConcurrentRepeat
  <2> QED BY <1>2, <1>3, <2>1
<1>6. CASE EnterLoop
  <2>1. InBody /\ Kind[Here] = "loop" /\ UNCHANGED <<cp, copy>> /\ (After(stack, "done") \/ Enter(0))
    BY <1>6 DEF EnterLoop
  <2> QED BY <1>2, <1>3, <2>1 DEF ConcurrentRepeat
<1>7. CASE EnterRetry
  <2> DEFINE at == SuffixOf(Top)
             key(a) == Attempt(Here, at, a)
             open == {a \in 0..Count[Here] - 1 : ~Failed(copy.attempt, key(a))}
  <2>1. InBody /\ Kind[Here] = "retry" /\ UNCHANGED <<cp, copy>>
        /\ \/ After(stack, "failed") \/ After(stack, "done")
           \/ open # {} /\ key(Min(open)) \notin DOMAIN copy.attempt /\ Enter(Min(open))
    BY <1>7 DEF EnterRetry
  <2>2. CASE open # {} /\ key(Min(open)) \notin DOMAIN copy.attempt /\ Enter(Min(open))
    <3> DEFINE pass == Min(open)
    <3>1. open \subseteq Nat /\ Count[Here] \in Nat
      BY <1>1, <2>1, HereIs, CountAssumption
    <3>2. pass \in open /\ \A a \in open : pass <= a
      BY <2>2, <3>1, MinIs
    <3>3. pass \in 0..Count[Here] - 1
      BY <3>2
    <3> HIDE DEF pass
    <3>4. EarlierFailed(cp, Here, at, pass)
      <4> SUFFICES ASSUME NEW a \in 0..pass - 1, ~Failed(copy.attempt, key(a)) PROVE FALSE
        BY <1>1 DEF Agree, EarlierFailed
      <4>1. a \in 0..Count[Here] - 1 /\ ~(pass <= a)
        BY <3>1, <3>3
      <4> QED BY <3>2, <4>1
    <3>5. key(pass) \notin DOMAIN cp.attempt
      BY <1>1, <2>2 DEF Agree, pass
    <3>6. Enter(pass) /\ pass \in Nat
      BY <2>2, <3>3 DEF pass
    <3> QED BY <1>3, <2>1, <3>4, <3>5, <3>6 DEF ConcurrentRepeat
  <2> QED BY <1>2, <2>1, <2>2
<1>8. CASE EnterParallel
  <2> DEFINE f == [Frame(Here, SuffixOf(Top), 0) EXCEPT !.pos = 0, !.rest = 0..Len(Body[Here]) - 1]
  <2>1. InBody /\ Kind[Here] = "parallel" /\ UNCHANGED <<cp, copy>> /\ ret' = "none" /\ stack' = Append(stack, f)
    BY <1>8 DEF EnterParallel
  <2>2. Here \in Steps /\ SuffixOf(Top) \in Seq(Nat) /\ Len(SuffixOf(Top)) = Depth[Here]
    BY <1>1, <2>1, HereIs
  <2>3. Here \in DOMAIN Body
    BY <2>1, <2>2, TreeAssumption DEF Leaf, LeafKinds, Steps
  <2>4. Len(Body[Here]) \in Nat /\ Len(Body[Here]) >= 2 /\ DOMAIN Body[Here] = 1..Len(Body[Here])
    BY <2>1, <2>3, TreeAssumption
  <2>5. /\ f \in Frames /\ f.node = Here /\ f.at = SuffixOf(Top) /\ f.pass = 0 /\ f.pos = 0
        /\ f.rest = 0..Len(Body[Here]) - 1
    <3>1. 0..Len(Body[Here]) - 1 \subseteq Nat
      BY <2>4
    <3> QED BY <2>2, <2>3, <3>1 DEF Frame, Frames
  <2> HIDE DEF f
  <2>6. FrameOK(f)
    <3>1. Index(f) = 1
      BY <2>1, <2>5 DEF Index
    <3> QED BY <2>1, <2>2, <2>4, <2>5, <3>1 DEF FrameOK, Concurrent
  <2>7. Knows(f, cp)
    BY <2>1, <2>5 DEF Knows, ConcurrentRepeat
  <2>8. Nested(stack') /\ Known(stack', cp)
    BY <1>1, <2>1, <2>5, <2>6, <2>7, EnterKeeps
  <2> QED BY <2>1, <2>8, Moved
<1>9. CASE EnterConcurrentRepeat
  <2> DEFINE f == Frame(Here, SuffixOf(Top), 0)
  <2>1. InBody /\ Kind[Here] = "repeat" /\ ConcurrentRepeat(Here)
        /\ \/ After(stack, "failed") /\ UNCHANGED <<cp, copy>>
           \/ Round(stack, f, copy)
    BY <1>9 DEF EnterConcurrentRepeat, ConcurrentRepeat
  <2>2. FrameOK(f) /\ f.node = Here /\ f.at = SuffixOf(Top)
    BY <1>1, <2>1, FrameFits
  <2> HIDE DEF f
  <2>3. stack # <<>> /\ Last(stack).pos >= 1 /\ Leads(Last(stack), f.node, f.at) /\ f.node \in Steps
    BY <1>1, <2>1, <2>2, HereIs DEF Top
  <2>4. CASE Round(stack, f, copy)
    BY <1>1, <2>1, <2>2, <2>3, <2>4, RoundKeeps
  <2> QED BY <1>2, <2>1, <2>4
<1> QED BY <1>4, <1>5, <1>6, <1>7, <1>8, <1>9 DEF Enters

LEMMA AgainFits ==
    ASSUME FrameOK(Top), Kind[Top.node] \in {"repeat", "loop", "retry"}, NEW pass \in Nat
    PROVE  LET f == [Top EXCEPT !.pass = pass, !.pos = 1]
           IN  /\ FrameOK(f) /\ f.node = Top.node /\ f.at = Top.at
               /\ f.pass = pass /\ f.pos = 1 /\ f.rest = Top.rest
<1> DEFINE f == [Top EXCEPT !.pass = pass, !.pos = 1]
<1>1. /\ f \in Frames /\ f.node = Top.node /\ f.at = Top.at
      /\ f.pass = pass /\ f.pos = 1 /\ f.rest = Top.rest
  BY DEF FrameOK, Frames
<1> HIDE DEF f
<1> QED BY <1>1 DEF FrameOK, Index, f

(* The markers of an attempt lie under its own retry: the blocks around it *)
(* know as much as before.                                                 *)
LEMMA AttemptKnown ==
    ASSUME NEW stk, Nested(stk), Len(stk) > 1, NEW c, CpOK(c), Known(stk, c), Kind[Last(stk).node] = "retry",
           NEW pass, NEW at, NEW d, CpOK(d), Grows(c, d),
           DOMAIN d.attempt = DOMAIN c.attempt \cup {Attempt(Last(stk).node, at, pass)}
    PROVE  Known(Front(stk), d)
<1>1. Len(stk) \in Nat /\ DOMAIN Front(stk) = 1..Len(stk) - 1 /\ DOMAIN stk = 1..Len(stk)
  BY DEF Nested, Front
<1> SUFFICES ASSUME NEW i \in 1..Len(stk) - 1 PROVE Knows(stk[i], d)
  BY <1>1, PopNested DEF Known
<1>2. /\ FrameOK(stk[i]) /\ Knows(stk[i], c) /\ FrameOK(Last(stk))
      /\ stk[i].node \in Above[Last(stk).node]
  <2>1. Level(stk, i) /\ Level(stk, Len(stk)) /\ Knows(stk[i], c) /\ Last(stk) = stk[Len(stk)]
    BY <1>1, TopIs DEF Nested, Known
  <2> QED BY <1>1, <2>1 DEF Level, Within
<1>3. Kind[stk[i].node] = "retry" => stk[i].node # Last(stk).node
  <2> SUFFICES ASSUME Kind[stk[i].node] = "retry", stk[i].node = Last(stk).node PROVE FALSE
    OBVIOUS
  <2> DEFINE n == Last(stk).node
  <2>1. n \in DOMAIN Kind /\ n \in Above[n]
    BY <1>2, TreeAssumption DEF FrameOK, Frames
  <2>2. Consumes(n)
    BY TreeAssumption DEF Consumes
  <2> HIDE DEF n
  <2>3. Depth[n] \in Nat /\ Depth[n] + 1 <= Depth[n]
    BY <2>1, <2>2, AboveDepth
  <2> QED BY <2>3
<1>4. Kind[stk[i].node] = "retry" => Attempt(stk[i].node, stk[i].at, stk[i].pass) \notin DOMAIN d.attempt
  BY <1>2, <1>3 DEF Knows, Attempt
<1> QED BY <1>2, <1>4, KnowsGrows

LEMMA LeavingKeeps ==
    ASSUME BlockInv, Leaving
    PROVE  StoreOK' /\ WalkOK'
<1>1. /\ CpInv(cp) /\ CpOK(cp) /\ CpOK(copy) /\ Agree /\ Nested(stack) /\ Known(stack, cp) /\ StoreOK
      /\ ret \in Results \cup {"none"}
  BY DEF BlockInv, StoreOK, WalkOK, CpInv
<1>2. Walking => stack # <<>> /\ FrameOK(Top) /\ Knows(Top, cp)
  BY <1>1, TopIs DEF Walking, Top, Known
<1>3. ASSUME Walking, Kind[Top.node] # "root", UNCHANGED <<cp, copy>>, NEW r \in Results, Return(r)
      PROVE  StoreOK' /\ WalkOK'
  <2>1. Known(Front(stack), cp)
    BY <1>1, <1>2, <1>3, RootAlone, PopKnown DEF Top
  <2> QED BY <1>1, <1>2, <1>3, <2>1, ReturnKeeps, Moved
<1>4. ASSUME Walking, Kind[Top.node] \in {"repeat", "loop"}, ~ConcurrentRepeat(Top.node), UNCHANGED <<cp, copy>>,
             NEW pass \in Nat, Again(pass)
      PROVE  StoreOK' /\ WalkOK'
  <2> DEFINE f == [Top EXCEPT !.pass = pass, !.pos = 1]
  <2>1. FrameOK(f) /\ f.node = Top.node /\ f.at = Top.at
    BY <1>2, <1>4, AgainFits
  <2>2. stack' = OnTop(f) /\ ret' = "none"
    BY <1>4 DEF Again
  <2> HIDE DEF f
  <2>3. Knows(f, cp)
    BY <1>4, <2>1 DEF Knows
  <2>4. Nested(stack') /\ Known(stack', cp)
    BY <1>1, <1>2, <1>4, <2>1, <2>2, <2>3, OnTopKeeps
  <2> QED BY <1>4, <2>2, <2>4, Moved
<1>5. CASE BodyEnds
  <2>1. UNCHANGED <<cp, copy, stack>> /\ ret' \in Results
    BY <1>5 DEF BodyEnds, Results
  <2> QED BY <1>1, <2>1, Moved
<1>6. CASE IfReturns
  <2>1. Walking /\ Kind[Top.node] # "root" /\ UNCHANGED <<cp, copy>> /\ ret \in Results /\ Return(ret)
    BY <1>1, <1>6 DEF IfReturns, Returned
  <2> QED BY <1>3, <2>1
<1>7. CASE RepeatReturns
  <2> DEFINE r == IF ret = "broke" THEN "done" ELSE ret
  <2>1. Walking /\ Kind[Top.node] = "repeat" /\ ~ConcurrentRepeat(Top.node) /\ UNCHANGED <<cp, copy>>
        /\ (Again(Top.pass + 1) \/ Return(r))
    BY <1>7 DEF RepeatReturns, Returned, ConcurrentRepeat
  <2>2. r \in Results /\ Top.pass + 1 \in Nat
    BY <1>1, <1>2, <1>7 DEF RepeatReturns, Returned, Results, FrameOK, Frames
  <2> HIDE DEF r
  <2> QED BY <1>3, <1>4, <2>1, <2>2
<1>8. CASE LoopReturns
  <2> DEFINE r == IF ret = "broke" THEN "done" ELSE ret
  <2>1. Walking /\ Kind[Top.node] = "loop" /\ ~ConcurrentRepeat(Top.node) /\ UNCHANGED <<cp, copy>>
        /\ (Again(Top.pass + 1) \/ Return(r) \/ Return("failed") \/ Return("done"))
    BY <1>8 DEF LoopReturns, Returned, ConcurrentRepeat
  <2>2. r \in Results /\ Top.pass + 1 \in Nat /\ {"failed", "done"} \subseteq Results
    BY <1>1, <1>2, <1>8 DEF LoopReturns, Returned, Results, FrameOK, Frames
  <2> HIDE DEF r
  <2> QED BY <1>3, <1>4, <2>1, <2>2
<1>9. CASE RetryReturns
  <2> DEFINE key == Attempt(Top.node, Top.at, Top.pass)
             d(s) == AttemptSet(cp, key, s)
  <2>1. /\ Walking /\ Kind[Top.node] = "retry"
        /\ \/ Write(d("succeeded")) /\ Return("done")
           \/ Write(d("failed")) /\ (Again(Top.pass + 1) \/ Return("failed"))
           \/ Return(ret) /\ ret \in Results /\ UNCHANGED <<cp, copy>>
    BY <1>1, <1>9 DEF RetryReturns, Returned, AttemptSet
  <2>2. Len(stack) > 1
    BY <1>1, <1>2, <2>1, RootAlone DEF Top
  <2>3. ASSUME NEW s \in Verdicts
        PROVE  /\ CpInv(d(s)) /\ CpOK(d(s)) /\ Grows(cp, d(s)) /\ Known(Front(stack), d(s))
               /\ d(s).attempt = With(cp.attempt, key, s)
               /\ Attempt(Top.node, Top.at, Top.pass + 1) \notin DOMAIN d(s).attempt
               /\ EarlierFailed(d(s), Top.node, Top.at, Top.pass)
    <3>1. /\ CpInv(d(s)) /\ Grows(cp, d(s)) /\ d(s).attempt = With(cp.attempt, key, s)
          /\ Attempt(Top.node, Top.at, Top.pass + 1) \notin DOMAIN d(s).attempt
          /\ EarlierFailed(d(s), Top.node, Top.at, Top.pass)
      BY <1>1, <1>2, <2>1, WriteAttempt
    <3> HIDE DEF d
    <3>2. DOMAIN d(s).attempt = DOMAIN cp.attempt \cup {key}
      BY <3>1 DEF With
    <3>3. Known(Front(stack), d(s))
      BY <1>1, <2>1, <2>2, <3>1, <3>2, AttemptKnown DEF Top, CpInv
    <3> QED BY <3>1, <3>3 DEF CpInv
  <2>4. ASSUME NEW s \in Verdicts, Write(d(s)), NEW r \in Results, Return(r)
        PROVE  StoreOK' /\ WalkOK'
    <3> HIDE DEF d
    <3>1. cp' = d(s)
      BY <2>4 DEF Write
    <3>2. StoreOK'
      BY <2>3, <2>4, StoreWritten
    <3>3. Nested(stack') /\ Known(stack', d(s)) /\ ret' \in Results \cup {"none"}
      BY <1>1, <1>2, <2>1, <2>3, <2>4, ReturnKeeps
    <3> QED BY <3>1, <3>2, <3>3 DEF WalkOK
  <2>5. ASSUME Write(d("failed")), Again(Top.pass + 1)
        PROVE  StoreOK' /\ WalkOK'
    <3> DEFINE pass == Top.pass + 1
               f == [Top EXCEPT !.pass = pass, !.pos = 1]
               e == d("failed")
    <3>1. pass \in Nat /\ Top.pass \in Nat
      BY <1>2, <2>1 DEF FrameOK, Frames
    <3>2. /\ CpInv(e) /\ CpOK(e) /\ Grows(cp, e) /\ Known(Front(stack), e)
          /\ e.attempt = With(cp.attempt, key, "failed")
          /\ Attempt(Top.node, Top.at, pass) \notin DOMAIN e.attempt
          /\ EarlierFailed(e, Top.node, Top.at, Top.pass)
      BY <2>3 DEF Verdicts
    <3>3. Write(e) /\ cp' = e
      BY <2>5 DEF Write
    <3>4. /\ FrameOK(f) /\ f.node = Top.node /\ f.at = Top.at /\ f.pass = pass
      BY <1>2, <2>1, <3>1, AgainFits
    <3>5. stack' = [stack EXCEPT ![Len(stack)] = f] /\ ret' = "none"
      BY <2>5 DEF Again, OnTop
    <3> HIDE DEF f, e, d
    <3>6. EarlierFailed(e, Top.node, Top.at, pass)
      <4>1. Failed(e.attempt, key)
        BY <3>2 DEF With, Failed
      <4>2. \A a \in 0..pass - 1 : a = Top.pass \/ a \in 0..Top.pass - 1
        BY <3>1
      <4> QED BY <3>2, <4>1, <4>2 DEF EarlierFailed
    <3>7. Knows(f, e)
      BY <2>1, <3>2, <3>4, <3>6 DEF Knows, ConcurrentRepeat
    <3>8. Nested(stack')
      BY <1>1, <1>2, <2>1, <3>4, <3>5, TopNested DEF Top
    <3>9. Known(stack', e)
      <4>1. DOMAIN stack = 1..Len(stack) /\ Len(stack) \in Nat /\ DOMAIN Front(stack) = 1..Len(stack) - 1
        BY <1>1 DEF Nested, Front
      <4>2. \A i \in 1..Len(stack) - 1 : Knows(stack[i], e)
        BY <1>1, <2>2, <3>2, <4>1, PopNested DEF Known
      <4> QED BY <3>5, <3>7, <4>1, <4>2 DEF Known
    <3> QED BY <3>2, <3>3, <3>5, <3>8, <3>9, StoreWritten DEF WalkOK
  <2> HIDE DEF d
  <2>6. {"succeeded", "failed"} \subseteq Verdicts /\ {"done", "failed"} \subseteq Results
    BY DEF Verdicts, Results
  <2>7. CASE Write(d("succeeded")) /\ Return("done")
    BY <2>4, <2>6, <2>7
  <2>8. CASE Write(d("failed")) /\ Return("failed")
    BY <2>4, <2>6, <2>8
  <2>9. CASE Write(d("failed")) /\ Again(Top.pass + 1)
    BY <2>5, <2>9
  <2>10. CASE Return(ret) /\ ret \in Results /\ UNCHANGED <<cp, copy>>
    BY <1>3, <2>1, <2>10
  <2> QED BY <2>1, <2>7, <2>8, <2>9, <2>10
<1>10. CASE BranchReturns
  <2> DEFINE key == Branch(Top.node, SuffixOf(Top))
             s == IF ret = "done" THEN "succeeded" ELSE "failed"
             f == [Top EXCEPT !.parked = @ \/ ret = "parked", !.pos = 0]
             d == BranchSet(cp, key, s)
  <2>1. /\ Walking /\ Concurrent(Top.node) /\ ret' = "none"
        /\ (UNCHANGED <<cp, copy>> \/ Write(d))
    BY <1>10 DEF BranchReturns, BranchSet
  <2>2. stack' = OnTop(f)
    <3>1. [[Top EXCEPT !.parked = @ \/ ret = "parked"] EXCEPT !.pos = 0] = f
      BY <1>2, <2>1 DEF FrameOK, Frames
    <3> QED BY <1>10, <3>1 DEF BranchReturns
  <2>3. /\ f \in Frames /\ f.node = Top.node /\ f.at = Top.at /\ f.pass = Top.pass
        /\ f.pos = 0 /\ f.rest = Top.rest
    <3>1. (Top.parked \/ ret = "parked") \in BOOLEAN
      OBVIOUS
    <3> QED BY <1>2, <2>1, <3>1 DEF FrameOK, Frames
  <2>4. key[1] = Top.node /\ s \in Verdicts
    BY DEF Branch, Verdicts
  <2> HIDE DEF f, d, s, key
  <2>5. FrameOK(f) /\ Knows(f, cp)
    <3>1. FrameOK(f)
      BY <1>2, <2>1, <2>3 DEF FrameOK, Index
    <3>2. Knows(f, cp)
      BY <1>2, <2>1, <2>3 DEF Knows
    <3> QED BY <3>1, <3>2
  <2>6. Nested(stack') /\ Known(stack', cp)
    BY <1>1, <1>2, <2>1, <2>2, <2>3, <2>5, OnTopKeeps
  <2>7. CASE UNCHANGED <<cp, copy>>
    BY <2>1, <2>6, <2>7, Moved
  <2>8. CASE Write(d)
    <3>1. CpInv(d) /\ Grows(cp, d) /\ d.attempt = cp.attempt
      BY <1>1, <2>1, <2>4, WriteBranch DEF d
    <3>2. cp' = d
      BY <2>8 DEF Write
    <3>3. Known(stack', d)
      BY <1>1, <2>6, <3>1, KnownGrows DEF CpInv
    <3>4. StoreOK'
      BY <2>8, <3>1, StoreWritten
    <3> QED BY <2>1, <2>6, <3>2, <3>3, <3>4 DEF WalkOK
  <2> QED BY <2>1, <2>7, <2>8
<1>11. CASE NextBranch
  <2> DEFINE i == Min(Top.rest)
             key == Branch(Top.node, Append(Top.at, i))
             pos == IF key \in DOMAIN copy.branch THEN 0 ELSE 1
             f == [Top EXCEPT !.pass = i, !.rest = @ \ {i}, !.pos = pos]
  <2>1. /\ Walking /\ Concurrent(Top.node) /\ Top.pos = 0 /\ Top.rest # {} /\ stack' = OnTop(f)
        /\ UNCHANGED <<cp, copy, ret>>
    BY <1>11 DEF NextBranch, BetweenBranches
  <2>2. Top.rest \subseteq Nat
    BY <1>2, <2>1 DEF FrameOK, Frames
  <2>3. i \in Top.rest /\ pos \in Nat
    BY <2>1, <2>2, MinIs
  <2> HIDE DEF i, key, pos
  <2>4. /\ f \in Frames /\ f.node = Top.node /\ f.at = Top.at /\ f.pass = i
        /\ f.pos = pos /\ f.rest = Top.rest \ {i}
    BY <1>2, <2>1, <2>2, <2>3 DEF FrameOK, Frames
  <2> HIDE DEF f
  <2>5. FrameOK(f)
    <3>1. CASE Kind[Top.node] = "parallel"
      <4>1. DOMAIN Body[Top.node] = 1..Len(Body[Top.node]) /\ Len(Body[Top.node]) \in Nat
        BY <1>2, <2>1, TreeAssumption DEF FrameOK, Frames
      <4>2. i \in 0..Len(Body[Top.node]) - 1 /\ Top.rest \subseteq 0..Len(Body[Top.node]) - 1
        BY <1>2, <2>1, <2>3, <3>1 DEF FrameOK
      <4>3. Index(f) = i + 1
        BY <2>4, <3>1 DEF Index
      <4>4. Index(f) \in DOMAIN Body[Top.node]
        BY <4>1, <4>2, <4>3
      <4> QED BY <1>2, <2>1, <2>4, <4>2, <4>4 DEF FrameOK
    <3>2. CASE Kind[Top.node] # "parallel"
      <4>1. Kind[Top.node] = "repeat"
        BY <2>1, <3>2 DEF Concurrent
      <4> QED BY <1>2, <2>1, <2>4, <4>1 DEF FrameOK, Index
    <3> QED BY <3>1, <3>2
  <2>6. Knows(f, cp)
    <3>1. CASE ConcurrentRepeat(Top.node)
      <4> DEFINE m == Admitted(cp, <<Top.node, Top.at>>)
      <4>1. Top.rest \subseteq 0..m - 1 /\ m \in Nat
        BY <1>1, <1>2, <2>1, <3>1, AdmittedIs DEF Knows
      <4> HIDE DEF m
      <4>2. i < m /\ Top.rest \ {i} \subseteq 0..m - 1
        BY <2>3, <4>1
      <4>3. Kind[Top.node] = "repeat"
        BY <3>1 DEF ConcurrentRepeat
      <4> QED BY <2>4, <4>2, <4>3 DEF Knows, m
    <3>2. CASE ~ConcurrentRepeat(Top.node)
      BY <2>1, <2>4, <3>2 DEF Knows, Concurrent, ConcurrentRepeat
    <3> QED BY <3>1, <3>2
  <2>7. Nested(stack') /\ Known(stack', cp)
    BY <1>1, <1>2, <2>1, <2>4, <2>5, <2>6, OnTopKeeps
  <2> QED BY <1>1, <2>1, <2>7, Moved
<1>12. CASE BranchesEnd
  <2>1. /\ Walking /\ Concurrent(Top.node)
        /\ \/ Return("parked") /\ UNCHANGED <<cp, copy>>
           \/ Return("failed") /\ UNCHANGED <<cp, copy>>
           \/ Return("done") /\ UNCHANGED <<cp, copy>>
           \/ Kind[Top.node] # "parallel" /\ Round(Front(stack), Top, copy)
    BY <1>12 DEF BranchesEnd, BetweenBranches
  <2>2. Kind[Top.node] # "root" /\ {"parked", "failed", "done"} \subseteq Results
    BY <2>1 DEF Concurrent, Results
  <2>3. CASE Kind[Top.node] # "parallel" /\ Round(Front(stack), Top, copy)
    <3>1. ConcurrentRepeat(Top.node) /\ Len(stack) > 1
      BY <1>1, <1>2, <2>1, <2>2, <2>3, RootAlone DEF ConcurrentRepeat, Concurrent, Top
    <3>2. /\ Nested(Front(stack)) /\ Front(stack) # <<>> /\ Last(Front(stack)).pos >= 1
          /\ Leads(Last(Front(stack)), Top.node, Top.at) /\ Known(Front(stack), cp)
      BY <1>1, <3>1, PopNested, PopKnown DEF Top
    <3>3. Top.node \in Steps
      BY <1>2, <2>1, <2>2, TreeAssumption DEF FrameOK, Frames, Steps
    <3> QED BY <1>1, <1>2, <2>1, <2>3, <3>1, <3>2, <3>3, RoundKeeps
  <2> QED BY <1>3, <2>1, <2>2, <2>3
<1> QED BY <1>5, <1>6, <1>7, <1>8, <1>9, <1>10, <1>11, <1>12 DEF Leaving

-----------------------------------------------------------------------------
(* The steps of the run around the walk.                                   *)

LEMMA NoWalk == Nested(<<>>) /\ \A c : Known(<<>>, c)
BY DEF Nested, Known

LEMMA WalkBegins ==
    ASSUME NEW c
    PROVE  Nested(<<Frame(Root, <<>>, 0)>>) /\ Known(<<Frame(Root, <<>>, 0)>>, c)
<1> DEFINE f == Frame(Root, <<>>, 0)
<1>1. Root \in DOMAIN Kind /\ Kind[Root] = "root"
  BY TreeAssumption
<1>2. Root \in DOMAIN Body
  BY <1>1, TreeAssumption DEF Leaf, LeafKinds
<1>3. Len(Body[Root]) = 1 /\ DOMAIN Body[Root] = 1..Len(Body[Root])
  BY <1>1, <1>2, TreeAssumption
<1>4. /\ f \in Frames /\ f.node = Root /\ f.at = <<>> /\ f.pass = 0 /\ f.pos = 1 /\ f.rest = {}
  BY <1>2 DEF Frame, Frames
<1>5. Depth[Root] = 0 /\ Above[Root] = {}
  BY <1>1, DepthIs, AboveIs
<1> HIDE DEF f
<1>6. FrameOK(f) /\ Knows(f, c)
  <2>1. Index(f) \in DOMAIN Body[f.node]
    BY <1>1, <1>3, <1>4 DEF Index
  <2>2. FrameOK(f)
    BY <1>1, <1>4, <1>5, <2>1 DEF FrameOK
  <2>3. Knows(f, c)
    BY <1>1, <1>4 DEF Knows, ConcurrentRepeat
  <2> QED BY <2>2, <2>3
<1>7. Level(<<f>>, 1)
  BY <1>4, <1>5, <1>6 DEF Level
<1>8. Nested(<<f>>)
  <2>1. <<f>> \in Seq(Frames) /\ DOMAIN <<f>> = {1}
    BY <1>4
  <2> QED BY <1>7, <2>1 DEF Nested
<1>9. Known(<<f>>, c)
  BY <1>6 DEF Known
<1> QED BY <1>8, <1>9 DEF f

LEMMA EmptyHolds == CpInv(EmptyCp)
BY DEF EmptyCp, CpInv, CpOK, Follow, InWindow

LEMMA SettledIs ==
    ASSUME NEW c, CpOK(c), NEW ref \in DOMAIN c.step, NEW entry
    PROVE  [c EXCEPT !.step[ref] = entry] = StepSet(c, ref, entry)
<1>1. [c.step EXCEPT ![ref] = entry] = With(c.step, ref, entry)
  BY DEF With
<1> QED BY <1>1 DEF StepSet, CpOK

(* What is written outside the walk leaves what the walk knows alone.      *)
LEMMA OutsideKeeps ==
    ASSUME BlockInv, NEW d, CpInv(d), Grows(cp, d), d.attempt = cp.attempt, d.admitted = cp.admitted,
           cp' = d, UNCHANGED <<copy, stack, ret>>
    PROVE  StoreOK' /\ WalkOK'
<1>1. CpOK(cp) /\ CpOK(d) /\ CpOK(copy) /\ Agree /\ Nested(stack) /\ Known(stack, cp) /\ ret \in Results \cup {"none"}
  BY DEF BlockInv, StoreOK, WalkOK, CpInv
<1>2. Known(stack, d)
  BY <1>1, KnownGrows
<1>3. Agree'
  BY <1>1 DEF Agree, Grows
<1>4. CpInv(cp') /\ CpOK(copy') /\ Nested(stack') /\ Known(stack', cp')
  BY <1>1, <1>2
<1> QED BY <1>1, <1>3, <1>4 DEF StoreOK, WalkOK

LEMMA RunKeeps ==
    ASSUME BlockInv, BeginWalk \/ EndWalk \/ DropWalk \/ Settle \/ FailOutOfBand \/ Crash
    PROVE  StoreOK' /\ WalkOK'
<1>1. CpInv(cp) /\ CpOK(cp) /\ StoreOK
  BY DEF BlockInv, StoreOK, CpInv
<1>2. CASE EndWalk \/ DropWalk \/ Crash
  <2>1. UNCHANGED <<cp, copy>> /\ stack' = <<>> /\ ret' = "none"
    BY <1>2 DEF EndWalk, DropWalk, Crash
  <2>2. Nested(stack') /\ Known(stack', cp)
    BY <2>1, NoWalk
  <2> QED BY <2>1, <2>2, Moved
<1>3. CASE BeginWalk
  <2>1. cp' = cp /\ copy' = cp /\ stack' = <<Frame(Root, <<>>, 0)>> /\ ret' = "none"
    BY <1>3 DEF BeginWalk
  <2>2. Write(cp)
    BY <2>1 DEF Write
  <2>3. Nested(stack') /\ Known(stack', cp)
    BY <2>1, WalkBegins
  <2>4. StoreOK'
    BY <1>1, <2>2, StoreWritten
  <2> QED BY <2>1, <2>3, <2>4 DEF WalkOK
<1>4. CASE Settle
  <2>1. PICK ref \in DOMAIN cp.step : \E entry \in Successes(ref[1]) : cp' = [cp EXCEPT !.step[ref] = entry]
    BY <1>4 DEF Settle
  <2>2. PICK entry \in Successes(ref[1]) : cp' = [cp EXCEPT !.step[ref] = entry]
    BY <2>1
  <2>3. EntryOK(entry)
    <3>1. PICK out \in IF ref[1] \in Range(Test) THEN BOOLEAN ELSE {FALSE} :
             entry = [status |-> "succeeded", out |-> out]
      BY DEF Successes
    <3>2. out \in BOOLEAN
      BY <3>1
    <3> QED BY <3>1, <3>2 DEF EntryOK
  <2>4. Place(ref) /\ Recorded(ref, cp)
    BY <1>1 DEF CpInv, CpOK
  <2> DEFINE d == StepSet(cp, ref, entry)
  <2>5. CpInv(d) /\ Grows(cp, d) /\ d.attempt = cp.attempt /\ d.admitted = cp.admitted
    BY <1>1, <2>3, <2>4, WriteStep
  <2>6. cp' = d
    BY <1>1, <2>2, SettledIs
  <2> HIDE DEF d
  <2>7. UNCHANGED <<copy, stack, ret>>
    BY <1>4 DEF Settle
  <2> QED BY <2>5, <2>6, <2>7, OutsideKeeps
<1>5. CASE FailOutOfBand
  <2>1. PICK ref \in DOMAIN cp.step :
           cp' = FailEnclosingBranch([cp EXCEPT !.step[ref] = Failure], ref)
    BY <1>5 DEF FailOutOfBand
  <2> DEFINE d == StepSet(cp, ref, Failure)
  <2>2. Place(ref) /\ Recorded(ref, cp) /\ EntryOK(Failure)
    BY <1>1 DEF CpInv, CpOK, EntryOK, Failure
  <2>3. CpInv(d) /\ Grows(cp, d) /\ d.attempt = cp.attempt /\ d.admitted = cp.admitted
    BY <1>1, <2>2, WriteStep
  <2>4. cp' = FailEnclosingBranch(d, ref)
    BY <1>1, <2>1, SettledIs
  <2>5. UNCHANGED <<copy, stack, ret>>
    BY <1>5 DEF FailOutOfBand
  <2> HIDE DEF d
  <2>6. CASE FailEnclosingBranch(d, ref) = d
    BY <2>3, <2>4, <2>5, <2>6, OutsideKeeps
  <2>7. CASE FailEnclosingBranch(d, ref) # d
    <3> DEFINE b == Around[ref[1]]
               key == Branch(b, SubSeq(ref[2], 1, Depth[b] + 1))
               e == BranchSet(d, key, "failed")
    <3>1. FailEnclosingBranch(d, ref) = e /\ b # Root
      BY <2>7 DEF FailEnclosingBranch, BranchSet
    <3>2. Concurrent(b)
      BY <2>2, <3>1, AroundIs DEF Place
    <3>3. key[1] = b /\ "failed" \in Verdicts
      BY DEF Branch, Verdicts
    <3> HIDE DEF b, key
    <3>4. CpInv(e) /\ Grows(d, e) /\ e.attempt = d.attempt /\ e.admitted = d.admitted
      BY <2>3, <3>2, <3>3, WriteBranch
    <3> HIDE DEF e
    <3>5. Grows(cp, e)
      <4>1. \A k : Admitted(cp, k) \in Nat /\ Admitted(d, k) \in Nat /\ Admitted(e, k) \in Nat
        BY <1>1, <2>3, <3>4, AdmittedIs DEF CpInv
      <4>2. \A k : Admitted(cp, k) <= Admitted(e, k)
        BY <2>3, <3>4, <4>1 DEF Grows
      <4> QED BY <2>3, <3>4, <4>2 DEF Grows
    <3> QED BY <2>3, <2>4, <2>5, <3>1, <3>4, <3>5, OutsideKeeps
  <2> QED BY <2>6, <2>7
<1> QED BY <1>2, <1>3, <1>4, <1>5

LEMMA RunStays ==
    ASSUME BlockInv, [Next]_blockVars
    PROVE  RunOK'
<1>1. RunOK
  BY DEF BlockInv
<1>2. CASE Next
  <2>1. CASE EndWalk
    BY <1>1, <2>1 DEF EndWalk, RunOK
  <2>2. CASE Settle \/ BeginWalk
    BY <1>1, <2>2 DEF Settle, BeginWalk, RunOK
  <2>3. CASE FailOutOfBand
    <3>1. PICK ref \in DOMAIN cp.step :
             LET c     == FailEnclosingBranch([cp EXCEPT !.step[ref] = Failure], ref)
                 moves == ref[1] \in KeepGoing \/ Waits(c)
             IN  /\ wanted' = (wanted \/ moves)
                 /\ status' = IF moves THEN "live" ELSE "failed"
                 /\ UNCHANGED <<crashes, lost>>
      BY <2>3 DEF FailOutOfBand
    <3>2. wanted' \in BOOLEAN /\ lost' \in BOOLEAN
      BY <1>1, <3>1, Zenon DEF RunOK
    <3>3. status' \in {"live", "failed"} /\ crashes' = crashes
      BY <3>1, Zenon
    <3> QED BY <1>1, <3>2, <3>3 DEF RunOK
  <2>4. CASE Crash
    <3>1. lost' \in BOOLEAN /\ wanted' \in BOOLEAN
      BY <1>1, <2>4, Zenon DEF Crash, RunOK
    <3>2. status' = status /\ crashes' \in 0..MaxCrashes
      BY <1>1, <2>4, CountAssumption DEF Crash, RunOK
    <3> QED BY <1>1, <3>1, <3>2 DEF RunOK
  <2>5. CASE Leaves \/ Enters \/ Leaving \/ DropWalk
    <3>1. UNCHANGED <<wanted, status, crashes, lost>>
      BY <2>5 DEF Leaves, SkipSettled, MeetWaiting, RunAction, Suspend, Break,
                  Enters, EnterIf, EnterRepeat, EnterLoop, EnterRetry, EnterParallel, EnterConcurrentRepeat,
                  Leaving, BodyEnds, IfReturns, RepeatReturns, LoopReturns, RetryReturns, BranchReturns,
                  NextBranch, BranchesEnd, DropWalk
    <3> QED BY <1>1, <3>1 DEF RunOK
  <2> QED BY <1>2, <2>1, <2>2, <2>3, <2>4, <2>5 DEF Next, Walk
<1>3. CASE UNCHANGED blockVars
  BY <1>1, <1>3 DEF RunOK, blockVars
<1> QED BY <1>2, <1>3

(* The store, the walk and the run keep in step in every run of every      *)
(* tree.                                                                   *)
THEOREM BlockInvHolds == Spec => []BlockInv
<1>1. Init => BlockInv
  <2> SUFFICES ASSUME Init PROVE BlockInv
    OBVIOUS
  <2>1. CpInv(cp) /\ CpOK(copy) /\ Agree
    BY EmptyHolds DEF Init, CpInv, Agree
  <2>2. Nested(stack) /\ Known(stack, cp) /\ ret \in Results \cup {"none"}
    BY NoWalk DEF Init
  <2>3. RunOK
    <3>1. wanted \in BOOLEAN /\ lost \in BOOLEAN
      BY Zenon DEF Init
    <3>2. status = "live" /\ crashes \in 0..MaxCrashes
      BY CountAssumption DEF Init
    <3> QED BY <3>1, <3>2 DEF RunOK
  <2> QED BY <2>1, <2>2, <2>3 DEF BlockInv, StoreOK, WalkOK
<1>2. BlockInv /\ [Next]_blockVars => BlockInv'
  <2> SUFFICES ASSUME BlockInv, [Next]_blockVars PROVE BlockInv'
    OBVIOUS
  <2>1. RunOK'
    BY RunStays
  <2>2. StoreOK' /\ WalkOK'
    <3>1. CASE Leaves
      BY <3>1, LeavesKeep
    <3>2. CASE Enters
      BY <3>2, EntersKeep
    <3>3. CASE Leaving
      BY <3>3, LeavingKeeps
    <3>4. CASE BeginWalk \/ EndWalk \/ DropWalk \/ Settle \/ FailOutOfBand \/ Crash
      BY <3>4, RunKeeps
    <3>5. CASE UNCHANGED blockVars
      <4>1. UNCHANGED <<cp, copy, stack, ret>>
        BY <3>5 DEF blockVars
      <4>2. StoreOK' /\ WalkOK
        BY <4>1, StoreStays DEF BlockInv
      <4> QED BY <4>1, <4>2 DEF WalkOK
    <3> QED BY <3>1, <3>2, <3>3, <3>4, <3>5 DEF Next, Walk
  <2> QED BY <2>1, <2>2 DEF BlockInv
<1> QED BY <1>1, <1>2, PTL DEF Spec

-----------------------------------------------------------------------------
(* What the checks state of every instance.                                *)

(* Every structure variable keeps its type, whatever the tree: markers lie *)
(* under the blocks that write them and no watermark passes the items.     *)
THEOREM TypeCorrect == Spec => []TypeOK
<1>1. BlockInv => TypeOK
  <2> SUFFICES ASSUME BlockInv PROVE TypeOK
    OBVIOUS
  <2>1. CpOK(cp) /\ CpOK(copy)
    BY DEF BlockInv, StoreOK, CpInv
  <2>2. ASSUME NEW c \in {cp, copy}
        PROVE  /\ \A ref \in DOMAIN c.step : Leaf(ref[1]) /\ c.step[ref].out \in BOOLEAN
                                             /\ c.step[ref].status \in {"waiting", "succeeded", "failed"}
               /\ \A key \in DOMAIN c.attempt : Kind[key[1]] = "retry" /\ c.attempt[key] \in {"succeeded", "failed"}
               /\ \A key \in DOMAIN c.branch : Concurrent(key[1]) /\ c.branch[key] \in {"succeeded", "failed"}
               /\ \A key \in DOMAIN c.admitted : Concurrent(key[1]) /\ c.admitted[key] \in 1..Count[key[1]]
    <3>1. CpOK(c)
      BY <2>1
    <3> QED BY <3>1 DEF CpOK, Place, EntryOK, Verdicts
  <2>3. \A i \in DOMAIN stack : stack[i].node \in DOMAIN Body /\ stack[i].pos \in Nat
    BY DEF BlockInv, WalkOK, Nested, Level, FrameOK, Frames
  <2>4. ret \in Results \cup {"none"} /\ RunOK
    BY DEF BlockInv, WalkOK
  <2> QED BY <2>2, <2>3, <2>4 DEF TypeOK, RunOK
<1> QED BY <1>1, BlockInvHolds, PTL

(* A leaf in a block, as the invariants speak of it.                       *)
LEMMA EnclosureIs ==
    ASSUME NEW e \in Enclosures
    PROVE  e.leaf \in Steps /\ e.block \in Above[e.leaf] \cup {e.leaf} /\ e.block \in DOMAIN Body \ {Root}
           /\ Leaf(e.leaf) /\ e.block \in Above[e.leaf] /\ Depths[e.block] = Depth[e.block]
<1>1. PICK b \in DOMAIN Body \ {Root} : \E n \in Below(b) : e = [leaf |-> n, block |-> b]
  BY DEF Enclosures
<1>2. PICK n \in Below(b) : e = [leaf |-> n, block |-> b]
  BY <1>1
<1>3. e.leaf = n /\ e.block = b /\ n \in Steps /\ Leaf(n) /\ (n = b \/ b \in Above[n])
  BY <1>2 DEF Below
<1>4. n # b
  BY <1>3, TreeAssumption
<1> QED BY <1>1, <1>3, <1>4 DEF Depths

(* For every tree and every interleaving of walks, settles and restarts, a *)
(* step on record lies in an attempt that all earlier attempts of its retry*)
(* have failed before (engine/blocks.rs:104-110).                          *)
THEOREM AttemptsKept == Spec => []AttemptsInOrder
<1>1. BlockInv => AttemptsInOrder
  <2> SUFFICES ASSUME BlockInv, NEW e \in Enclosures, NEW ref \in DOMAIN cp.step,
                      e.leaf = ref[1], Kind[e.block] = "retry"
               PROVE  \A a \in 0..ref[2][Depths[e.block] + 1] - 1 :
                         Failed(cp.attempt, Attempt(e.block, SubSeq(ref[2], 1, Depths[e.block]), a))
    BY DEF AttemptsInOrder
  <2>1. e.block \in Above[ref[1]] /\ Depths[e.block] = Depth[e.block]
    BY EnclosureIs
  <2>2. Recorded(ref, cp)
    BY DEF BlockInv, StoreOK, CpInv
  <2> QED BY <2>1, <2>2 DEF Recorded, EarlierFailed
<1> QED BY <1>1, BlockInvHolds, PTL

(* For every tree, a step of an item is on record only under the watermark *)
(* of its repeat, and no more items than the concurrency are without an    *)
(* outcome (engine/blocks_concurrent_repeat.rs:86-140).                    *)
THEOREM WindowHolds == Spec => []WindowKept
<1>1. BlockInv => WindowKept
  <2> SUFFICES ASSUME BlockInv PROVE WindowKept
    OBVIOUS
  <2>1. \A key \in DOMAIN cp.admitted :
          Cardinality({i \in 0..cp.admitted[key] - 1 : Branch(key[1], Append(key[2], i)) \notin DOMAIN cp.branch})
            <= Concurrency[key[1]]
    BY DEF BlockInv, StoreOK, CpInv, InWindow, Open
  <2>2. ASSUME NEW e \in Enclosures, NEW ref \in DOMAIN cp.step,
               e.leaf = ref[1], Kind[e.block] = "repeat", Concurrent(e.block)
        PROVE  ref[2][Depths[e.block] + 1] < Admitted(cp, <<e.block, SubSeq(ref[2], 1, Depths[e.block])>>)
    <3>1. e.block \in Above[ref[1]] /\ Depths[e.block] = Depth[e.block]
      BY <2>2, EnclosureIs
    <3>2. Recorded(ref, cp)
      BY DEF BlockInv, StoreOK, CpInv
    <3> QED BY <2>2, <3>1, <3>2 DEF Recorded, ConcurrentRepeat
  <2> QED BY <2>1, <2>2 DEF WindowKept
<1> QED BY <1>1, BlockInvHolds, PTL

-----------------------------------------------------------------------------
(* The tree once more: what lies above a step, and suffixes cut short.     *)

LEMMA StepIs ==
    ASSUME NEW n \in Steps
    PROVE  /\ n \in DOMAIN Kind /\ n # Root /\ Parent[n] \in DOMAIN Body /\ Parent[n] \in Steps \cup {Root}
           /\ Above[n] = {Parent[n]} \cup Above[Parent[n]] /\ Depth[n] = Inner(Parent[n])
           /\ Depth[n] \in Nat
<1>1. n \in DOMAIN Kind /\ n # Root
  BY DEF Steps
<1>2. Parent[n] \in DOMAIN Body /\ Parent[n] \in DOMAIN Kind /\ Parent[n] \in Steps \cup {Root}
  BY TreeAssumption DEF Steps
<1>3. Above[n] = {Parent[n]} \cup Above[Parent[n]]
  BY <1>1, AboveIs
<1>4. Depth[n] = Inner(Parent[n]) /\ Depth[n] \in Nat
  BY <1>1, <1>2, DepthIs DEF Inner
<1> QED BY <1>1, <1>2, <1>3, <1>4

LEMMA RootIs == Root \in DOMAIN Body /\ Above[Root] = {} /\ Depth[Root] = 0 /\ ~Consumes(Root) /\ Inner(Root) = 0
BY AboveIs, DepthIs, TreeAssumption DEF Consumes, Inner, Leaf, LeafKinds

(* What holds of a step that it holds of the parent of holds of all.       *)
LEMMA TreeInduction ==
    ASSUME NEW S \in SUBSET Steps, \A n \in Steps : (Parent[n] \in Steps => Parent[n] \in S) => n \in S
    PROVE  S = Steps
<1> DEFINE T == Steps \ S
<1>1. ASSUME T # {} PROVE FALSE
  <2>1. PICK n \in T : Parent[n] \notin T
    <3>1. T \in SUBSET Steps
      OBVIOUS
    <3> QED BY <1>1, <3>1, TreeAssumption
  <2> QED BY <2>1
<1> QED BY <1>1

LEMMA AboveIn == \A n \in Steps : Above[n] \subseteq Steps \cup {Root} /\ \A b \in Above[n] : b \in DOMAIN Body
<1> SUFFICES ASSUME NEW n \in Steps, NEW b \in Above[n] PROVE b \in Steps \cup {Root} /\ b \in DOMAIN Body
  OBVIOUS
<1>1. b \in DOMAIN Body
  BY AboveDepth, StepIs
<1> QED BY <1>1, TreeAssumption DEF Steps

LEMMA AboveTrans == \A n \in Steps : \A b \in Above[n] : Above[b] \subseteq Above[n]
<1> DEFINE S == {n \in Steps : \A b \in Above[n] : Above[b] \subseteq Above[n]}
<1>1. ASSUME NEW n \in Steps, Parent[n] \in Steps => Parent[n] \in S PROVE n \in S
  <2>1. Above[n] = {Parent[n]} \cup Above[Parent[n]] /\ Parent[n] \in Steps \cup {Root} /\ Above[Root] = {}
    BY StepIs, RootIs
  <2> QED BY <1>1, <2>1
<1>2. S = Steps
  <2>1. S \in SUBSET Steps
    OBVIOUS
  <2> HIDE DEF S
  <2> QED BY <1>1, <2>1, TreeInduction
<1> QED BY <1>2

LEMMA Acyclic == \A n \in Steps : n \notin Above[n] /\ \A b \in Above[n] : n \notin Above[b]
<1> DEFINE S == {n \in Steps : n \notin Above[n]}
<1>1. ASSUME NEW n \in Steps, Parent[n] \in Steps => Parent[n] \in S PROVE n \in S
  <2> SUFFICES ASSUME n \in Above[n] PROVE FALSE
    OBVIOUS
  <2>1. Above[n] = {Parent[n]} \cup Above[Parent[n]] /\ Parent[n] \in Steps \cup {Root} /\ Above[Root] = {}
        /\ n # Root
    BY StepIs, RootIs
  <2>2. Parent[n] \in Steps
    BY <2>1
  <2>3. Parent[n] \notin Above[Parent[n]]
    BY <1>1, <2>2
  <2>4. n \in Above[Parent[n]]
    BY <2>1, <2>3
  <2>5. Above[n] \subseteq Above[Parent[n]]
    BY <2>2, <2>4, AboveTrans
  <2> QED BY <2>1, <2>3, <2>5
<1>2. S = Steps
  <2>1. S \in SUBSET Steps
    OBVIOUS
  <2> HIDE DEF S
  <2> QED BY <1>1, <2>1, TreeInduction
<1>3. \A n \in Steps : n \notin Above[n]
  BY <1>2
<1>4. ASSUME NEW n \in Steps, NEW b \in Above[n], n \in Above[b] PROVE FALSE
  BY <1>3, <1>4, AboveTrans
<1> QED BY <1>3, <1>4

(* Every set of steps has one with no child in it.                         *)
LEMMA Deepest ==
    ASSUME NEW S \in SUBSET Steps, S # {}
    PROVE  \E n \in S : \A m \in S : Parent[m] # n
<1> DEFINE Size(n) == Cardinality({m \in Steps : n \in Above[m]})
<1>1. \A n : IsFiniteSet({m \in Steps : n \in Above[m]}) /\ Size(n) \in Nat
  <2> SUFFICES ASSUME NEW n PROVE IsFiniteSet({m \in Steps : n \in Above[m]}) /\ Size(n) \in Nat
    OBVIOUS
  <2>1. {m \in Steps : n \in Above[m]} \in SUBSET Steps
    OBVIOUS
  <2>2. IsFiniteSet({m \in Steps : n \in Above[m]})
    BY <2>1, TreeAssumption, FS_Subset
  <2> QED BY <2>2, FS_CardinalityType
<1>2. ASSUME NEW n \in Steps, NEW m \in Steps, Parent[m] = n PROVE Size(m) < Size(n)
  <2> DEFINE N == {k \in Steps : n \in Above[k]}
             M == {k \in Steps : m \in Above[k]}
  <2>1. n \in Above[m] /\ m \notin Above[m]
    BY <1>2, StepIs, Acyclic
  <2>2. M \subseteq N
    BY <2>1, AboveTrans
  <2>3. m \in N /\ m \notin M
    BY <2>1
  <2>4. IsFiniteSet(N) /\ IsFiniteSet(M)
    BY <1>1
  <2> HIDE DEF N, M
  <2>5. Cardinality(M) < Cardinality(N)
    <3>1. M # N
      BY <2>3
    <3>2. Cardinality(M) <= Cardinality(N)
      BY <2>2, <2>4, FS_Subset
    <3>3. Cardinality(M) = Cardinality(N) => M = N
      BY <2>2, <2>4, FS_Subset
    <3>4. Cardinality(M) \in Nat /\ Cardinality(N) \in Nat
      BY <2>4, FS_CardinalityType
    <3> QED BY <3>1, <3>2, <3>3, <3>4
  <2> QED BY <2>5 DEF M, N
<1> HIDE DEF Size
<1> DEFINE Sizes == {Size(n) : n \in S}
<1>3. Sizes \subseteq Nat /\ Sizes # {}
  <2>1. \A n \in S : Size(n) \in Nat
    BY <1>1
  <2>2. Sizes # {}
    OBVIOUS
  <2> QED BY <2>1, <2>2
<1>4. PICK n \in S : Size(n) = Min(Sizes)
  BY <1>3, MinIs
<1>5. ASSUME NEW m \in S, Parent[m] = n PROVE FALSE
  <2>1. Size(m) < Size(n)
    BY <1>2, <1>5
  <2>2. Min(Sizes) <= Size(m)
    <3>1. Size(m) \in Sizes
      OBVIOUS
    <3> HIDE DEF Sizes
    <3> QED BY <1>3, <3>1, MinIs
  <2>3. Size(m) \in Nat /\ Size(n) \in Nat
    BY <1>1
  <2> HIDE DEF Sizes
  <2> QED BY <1>4, <2>1, <2>2, <2>3
<1> QED BY <1>5

(* The step of a block that leads down to a step below it.                 *)
LEMMA Towards == \A n \in Steps : \A b \in Above[n] : \E z \in Chain(n) : z \in Steps /\ Parent[z] = b
<1> DEFINE S == {n \in Steps : \A b \in Above[n] : \E z \in Chain(n) : z \in Steps /\ Parent[z] = b}
<1>1. ASSUME NEW n \in Steps, Parent[n] \in Steps => Parent[n] \in S PROVE n \in S
  <2> SUFFICES ASSUME NEW b \in Above[n] PROVE \E z \in Chain(n) : z \in Steps /\ Parent[z] = b
    OBVIOUS
  <2>1. Above[n] = {Parent[n]} \cup Above[Parent[n]] /\ Parent[n] \in Steps \cup {Root} /\ Above[Root] = {}
        /\ n # Root
    BY StepIs, RootIs
  <2>2. CASE b = Parent[n]
    BY <2>1, <2>2 DEF Chain
  <2>3. CASE b \in Above[Parent[n]]
    <3>1. Parent[n] \in S
      BY <1>1, <2>1, <2>3
    <3>2. PICK z \in Chain(Parent[n]) : z \in Steps /\ Parent[z] = b
      BY <2>3, <3>1
    <3> QED BY <2>1, <3>2 DEF Chain
  <2> QED BY <2>1, <2>2, <2>3
<1>2. S = Steps
  <2>1. S \in SUBSET Steps
    OBVIOUS
  <2> HIDE DEF S
  <2> QED BY <1>1, <2>1, TreeInduction
<1> QED BY <1>2

(* A set of steps that holds the parents of its members holds their chains.*)
LEMMA ChainIn ==
    ASSUME NEW T, \A z \in T \cap Steps : Parent[z] \in T \cup {Root}
    PROVE  \A n \in T \cap Steps : Chain(n) \subseteq T
<1> DEFINE S == {n \in Steps : n \in T => Chain(n) \subseteq T}
<1>1. ASSUME NEW n \in Steps, Parent[n] \in Steps => Parent[n] \in S PROVE n \in S
  <2> SUFFICES ASSUME n \in T PROVE Chain(n) \subseteq T
    OBVIOUS
  <2>1. Above[n] = {Parent[n]} \cup Above[Parent[n]] /\ Parent[n] \in Steps \cup {Root} /\ Above[Root] = {}
    BY StepIs, RootIs
  <2>2. CASE Parent[n] = Root
    BY <2>1, <2>2 DEF Chain
  <2>3. CASE Parent[n] # Root
    <3>1. Chain(Parent[n]) \subseteq T
      BY <1>1, <2>1, <2>3
    <3> QED BY <2>1, <3>1 DEF Chain
  <2> QED BY <2>2, <2>3
<1>2. S = Steps
  <2>1. S \in SUBSET Steps
    OBVIOUS
  <2> HIDE DEF S
  <2> QED BY <1>1, <2>1, TreeInduction
<1> QED BY <1>2

LEMMA ChainIs ==
    ASSUME NEW n \in Steps
    PROVE  /\ n \in Chain(n) /\ Chain(n) \subseteq Steps
           /\ Chain(n) = {n} \cup (Above[n] \ {Root})
           /\ \A x \in Chain(n) : /\ Chain(x) \subseteq Chain(n) /\ Depth[x] \in Nat /\ Depth[x] <= Depth[n]
                                  /\ x = n \/ x \in Above[n]
           /\ Parent[n] # Root => Chain(n) = {n} \cup Chain(Parent[n])
           /\ Parent[n] = Root => Chain(n) = {n}
<1>1. n # Root /\ n \in Chain(n) /\ Chain(n) = {n} \cup (Above[n] \ {Root})
  BY StepIs DEF Chain
<1>2. Chain(n) \subseteq Steps
  BY <1>1, AboveIn
<1>3. ASSUME NEW x \in Chain(n)
      PROVE  Chain(x) \subseteq Chain(n) /\ Depth[x] \in Nat /\ Depth[x] <= Depth[n] /\ (x = n \/ x \in Above[n])
  <2>1. CASE x = n
    BY <2>1, StepIs
  <2>2. CASE x \in Above[n]
    <3>1. Depth[x] \in Nat /\ Depth[x] + (IF Consumes(x) THEN 1 ELSE 0) <= Depth[n]
      BY <2>2, AboveDepth, StepIs
    <3>2. Above[x] \subseteq Above[n]
      BY <2>2, AboveTrans
    <3> QED BY <2>2, <3>1, <3>2, StepIs DEF Chain
  <2> QED BY <1>1, <2>1, <2>2
<1>4. Above[n] = {Parent[n]} \cup Above[Parent[n]] /\ Above[Root] = {}
  BY StepIs, RootIs
<1>5. Parent[n] # Root => Chain(n) = {n} \cup Chain(Parent[n])
  BY <1>1, <1>4 DEF Chain
<1>6. Parent[n] = Root => Chain(n) = {n}
  BY <1>1, <1>4
<1> QED BY <1>1, <1>2, <1>3, <1>5, <1>6

LEMMA BlockIs ==
    ASSUME NEW b \in DOMAIN Body
    PROVE  /\ b = Root \/ b \in Steps
           /\ Depth[b] \in Nat /\ Inner(b) \in Nat /\ Depth[b] <= Inner(b)
           /\ Body[b] \in Seq(Seq(Steps))
           /\ \A k \in DOMAIN Body[b] : Body[b][k] \in Seq(Steps)
           /\ \A k \in DOMAIN Body[b] : \A j \in DOMAIN Body[b][k] : Body[b][k][j] \in Steps /\ Parent[Body[b][k][j]] = b
<1>1. b \in DOMAIN Kind
  BY TreeAssumption
<1>2. Depth[b] \in Nat /\ Inner(b) \in Nat /\ Depth[b] <= Inner(b)
  BY <1>1, DepthIs DEF Inner
<1>3. Body[b] \in Seq(Seq(Steps))
  BY TreeAssumption
<1>4. \A k \in DOMAIN Body[b] : Body[b][k] \in Seq(Steps)
  BY <1>3, ElementOfSeq
<1>5. ASSUME NEW k \in DOMAIN Body[b], NEW j \in DOMAIN Body[b][k]
      PROVE  Body[b][k][j] \in Steps /\ Parent[Body[b][k][j]] = b
  BY <1>4, <1>5, TreeAssumption
<1> QED BY <1>1, <1>2, <1>3, <1>4, <1>5 DEF Steps

(* The innermost concurrent block.                                         *)
LEMMA AroundInner ==
    \A n \in Steps :
       /\ Around[n] # Root => Around[n] \in Above[n] /\ Around[n] \in Steps /\ Concurrent(Around[n])
       /\ \A b \in Above[n] : Concurrent(b) => Around[n] # Root /\ (b = Around[n] \/ b \in Above[Around[n]])
<1>1. Around = [n \in DOMAIN Kind |-> IF n = Root \/ Parent[n] = Root THEN Root
                                     ELSE IF Concurrent(Parent[n]) THEN Parent[n] ELSE Around[Parent[n]]]
  BY AroundRecursion
<1> DEFINE S == {n \in Steps :
                   /\ Around[n] # Root => Around[n] \in Above[n]
                   /\ \A b \in Above[n] : Concurrent(b) => Around[n] # Root /\ (b = Around[n] \/ b \in Above[Around[n]])}
<1>2. ASSUME NEW n \in Steps, Parent[n] \in Steps => Parent[n] \in S PROVE n \in S
  <2>1. Above[n] = {Parent[n]} \cup Above[Parent[n]] /\ Parent[n] \in Steps \cup {Root} /\ Above[Root] = {}
        /\ n \in DOMAIN Kind /\ n # Root
    BY StepIs, RootIs
  <2>2. Around[n] = IF Parent[n] = Root THEN Root ELSE IF Concurrent(Parent[n]) THEN Parent[n] ELSE Around[Parent[n]]
    BY <1>1, <2>1
  <2>3. ~Concurrent(Root)
    BY TreeAssumption DEF Concurrent
  <2>4. CASE Parent[n] = Root
    BY <2>1, <2>2, <2>3, <2>4
  <2>5. CASE Parent[n] # Root /\ Concurrent(Parent[n])
    BY <2>1, <2>2, <2>5
  <2>6. CASE Parent[n] # Root /\ ~Concurrent(Parent[n])
    <3>1. Around[n] = Around[Parent[n]] /\ Parent[n] \in S
      BY <1>2, <2>1, <2>2, <2>6
    <3> QED BY <2>1, <2>6, <3>1
  <2> QED BY <2>4, <2>5, <2>6
<1>3. S = Steps
  <2>1. S \in SUBSET Steps
    OBVIOUS
  <2> HIDE DEF S
  <2> QED BY <1>2, <2>1, TreeInduction
<1> QED BY <1>3, AroundIs

LEMMA CutShort ==
    ASSUME NEW s \in Seq(Nat), NEW a \in Nat, a <= Len(s)
    PROVE  /\ SubSeq(s, 1, a) \in Seq(Nat) /\ Len(SubSeq(s, 1, a)) = a
           /\ \A k \in 1..a : SubSeq(s, 1, a)[k] = s[k]
           /\ \A b \in Nat : b <= a => SubSeq(SubSeq(s, 1, a), 1, b) = SubSeq(s, 1, b)
           /\ \A i \in Nat : SubSeq(Append(s, i), 1, a) = SubSeq(s, 1, a)
           /\ SubSeq(s, 1, Len(s)) = s
           /\ a < Len(s) => SubSeq(s, 1, a + 1) = Append(SubSeq(s, 1, a), s[a + 1]) /\ s[a + 1] \in Nat
<1>1. SubSeq(s, 1, a) \in Seq(Nat) /\ Len(SubSeq(s, 1, a)) = a /\ \A k \in 1..a : SubSeq(s, 1, a)[k] = s[k]
  OBVIOUS
<1>2. ASSUME NEW b \in Nat, b <= a PROVE SubSeq(SubSeq(s, 1, a), 1, b) = SubSeq(s, 1, b)
  BY <1>2
<1>3. ASSUME NEW i \in Nat PROVE SubSeq(Append(s, i), 1, a) = SubSeq(s, 1, a)
  OBVIOUS
<1>4. SubSeq(s, 1, Len(s)) = s
  OBVIOUS
<1>5. ASSUME a < Len(s) PROVE SubSeq(s, 1, a + 1) = Append(SubSeq(s, 1, a), s[a + 1]) /\ s[a + 1] \in Nat
  <2>1. s[a + 1] \in Nat /\ Len(s) \in Nat
    BY <1>5
  <2>2. Len(SubSeq(s, 1, a + 1)) = a + 1 /\ \A k \in 1..a + 1 : SubSeq(s, 1, a + 1)[k] = s[k]
    BY <1>5
  <2>3. Len(Append(SubSeq(s, 1, a), s[a + 1])) = a + 1
    BY <1>1, <2>1
  <2>4. \A k \in 1..a + 1 : Append(SubSeq(s, 1, a), s[a + 1])[k] = s[k]
    BY <1>1, <2>1
  <2> QED BY <2>1, <2>2, <2>3, <2>4, <1>1, <1>5
<1> QED BY <1>1, <1>2, <1>3, <1>4, <1>5

-----------------------------------------------------------------------------
(* Recursion over the tree from the leaves up.                             *)

LEMMA StopIs ==
    ASSUME NEW body \in Seq(Steps), NEW S, S \subseteq DOMAIN body, S # {}
    PROVE  Min(S) \in S /\ Min(S) \in DOMAIN body /\ \A u \in S : Min(S) <= u
<1>1. S \subseteq Nat
  OBVIOUS
<1> QED BY <1>1, MinIs

LEMMA BodyAgrees ==
    ASSUME NEW body \in Seq(Steps), NEW f, NEW g, NEW t, SameSteps(f, g, body, t)
    PROVE  BodyValue(f, body, t) = BodyValue(g, body, t)
<1> DEFINE F == {i \in DOMAIN body : ~Kept(f, body[i], t)}
           G == {i \in DOMAIN body : ~Kept(g, body[i], t)}
<1>1. \A i \in DOMAIN body : Kept(f, body[i], t) <=> Kept(g, body[i], t)
  BY DEF Kept, SameSteps
<1>2. F = G /\ F \subseteq DOMAIN body
  BY <1>1
<1>3. BodyValue(f, body, t) = IF F = {} THEN "done" ELSE f[<<body[Min(F)], t>>]
  BY DEF BodyValue
<1>4. BodyValue(g, body, t) = IF G = {} THEN "done" ELSE g[<<body[Min(G)], t>>]
  BY DEF BodyValue
<1> HIDE DEF F, G
<1>5. CASE F = {}
  BY <1>2, <1>3, <1>4, <1>5
<1>6. CASE F # {}
  <2>1. Min(F) \in DOMAIN body
    BY <1>2, <1>6, StopIs
  <2>2. f[<<body[Min(F)], t>>] = g[<<body[Min(F)], t>>]
    BY <2>1 DEF SameSteps
  <2> QED BY <1>2, <1>3, <1>4, <1>6, <2>2
<1> QED BY <1>5, <1>6

LEMMA PassesAgree ==
    ASSUME NEW n \in Steps, Kind[n] \in {"repeat", "loop", "retry"}, NEW s \in Seq(Nat),
           NEW f, NEW g, Agrees(f, g, n, s)
    PROVE  /\ PassValues(f, n, s) = PassValues(g, n, s)
           /\ \A i \in Nat : BodyValue(f, Body[n][1], Append(s, i)) = BodyValue(g, Body[n][1], Append(s, i))
<1>1. n \in DOMAIN Body /\ 1 \in DOMAIN Body[n] /\ Consumes(n) /\ Count[n] \in Nat
  <2>1. n \in DOMAIN Kind /\ n # Root
    BY StepIs
  <2>2. n \in DOMAIN Body
    BY <2>1, TreeAssumption DEF Leaf, LeafKinds
  <2>3. Len(Body[n]) = 1 /\ Body[n] \in Seq(Seq(Steps))
    BY <2>2, TreeAssumption
  <2> QED BY <2>1, <2>2, <2>3, CountAssumption DEF Consumes
<1>2. ASSUME NEW i \in Nat PROVE BodyValue(f, Body[n][1], Append(s, i)) = BodyValue(g, Body[n][1], Append(s, i))
  <2>1. SameSteps(f, g, Body[n][1], Append(s, i)) /\ Body[n][1] \in Seq(Steps)
    BY <1>1, BlockIs DEF Agrees, Ats, SameSteps
  <2> QED BY <2>1, BodyAgrees
<1>3. PassValues(f, n, s) = PassValues(g, n, s)
  BY <1>1, <1>2 DEF PassValues
<1> QED BY <1>2, <1>3

LEMMA Kinds ==
    ASSUME NEW n \in Steps
    PROVE  \/ Leaf(n) /\ Kind[n] \in LeafKinds
           \/ Kind[n] = "break" \/ Kind[n] = "if" \/ Kind[n] = "retry" \/ Kind[n] = "loop"
           \/ Concurrent(n) /\ Kind[n] \in {"parallel", "repeat"}
           \/ ~Concurrent(n) /\ Kind[n] = "repeat"
BY TreeAssumption DEF Leaf, LeafKinds, Concurrent

LEMMA StepValueIs ==
    ASSUME NEW n \in Steps, NEW s, NEW f, NEW c
    PROVE  /\ Leaf(n)            => StepValue(c, f, n, s) = LeafValue(c, n, s)
           /\ Kind[n] = "break"  => StepValue(c, f, n, s) = "broke"
           /\ Kind[n] = "if"     => StepValue(c, f, n, s) = BodyValue(f, Body[n][IF Holds(c, n, s) THEN 1 ELSE 2], s)
           /\ Kind[n] = "retry"  => StepValue(c, f, n, s) = RetryValue(f, n, s)
           /\ Kind[n] = "loop"   => StepValue(c, f, n, s) = LoopValue(c, f, n, s)
           /\ Concurrent(n)      => StepValue(c, f, n, s) = ConcurrentValue(f, n, s)
           /\ Kind[n] = "repeat" /\ ~Concurrent(n) => StepValue(c, f, n, s) = RepeatValue(f, n, s)
<1>1. Leaf(n) => StepValue(c, f, n, s) = LeafValue(c, n, s)
  BY SMT DEF StepValue, Leaf, LeafKinds, Concurrent
<1>2. Kind[n] = "break" => StepValue(c, f, n, s) = "broke"
  BY SMT DEF StepValue, Leaf, LeafKinds, Concurrent
<1>3. Kind[n] = "if" => StepValue(c, f, n, s) = BodyValue(f, Body[n][IF Holds(c, n, s) THEN 1 ELSE 2], s)
  BY SMT DEF StepValue, Leaf, LeafKinds, Concurrent
<1>4. Kind[n] = "retry" => StepValue(c, f, n, s) = RetryValue(f, n, s)
  BY SMT DEF StepValue, Leaf, LeafKinds, Concurrent
<1>5. Kind[n] = "loop" => StepValue(c, f, n, s) = LoopValue(c, f, n, s)
  BY SMT DEF StepValue, Leaf, LeafKinds, Concurrent
<1>6. Concurrent(n) => StepValue(c, f, n, s) = ConcurrentValue(f, n, s)
  BY SMT DEF StepValue, Leaf, LeafKinds, Concurrent
<1>7. Kind[n] = "repeat" /\ ~Concurrent(n) => StepValue(c, f, n, s) = RepeatValue(f, n, s)
  BY SMT DEF StepValue, Leaf, LeafKinds, Concurrent
<1> QED BY <1>1, <1>2, <1>3, <1>4, <1>5, <1>6, <1>7

LEMMA StepAgrees ==
    ASSUME NEW n \in Steps, NEW s \in Seq(Nat), NEW f, NEW g, Agrees(f, g, n, s),
           NEW c, NEW d, SameHere(c, d, n, s)
    PROVE  StepValue(c, f, n, s) = StepValue(d, g, n, s)
<1>1. CASE Leaf(n) /\ Kind[n] \in LeafKinds
  <2>1. LeafValue(c, n, s) = LeafValue(d, n, s)
    BY <1>1 DEF SameHere, LeafValue
  <2> QED BY <1>1, <2>1, StepValueIs
<1>2. CASE Kind[n] = "break"
  BY <1>2, StepValueIs
<1>3. CASE Kind[n] = "if"
  <2> DEFINE k == IF Holds(c, n, s) THEN 1 ELSE 2
  <2>1. n \in DOMAIN Body /\ k \in DOMAIN Body[n] /\ ~Consumes(n)
    <3>1. n \in DOMAIN Kind
      BY StepIs
    <3>2. n \in DOMAIN Body
      BY <1>3, <3>1, TreeAssumption DEF Leaf, LeafKinds
    <3>3. Len(Body[n]) = 2 /\ Body[n] \in Seq(Seq(Steps))
      BY <1>3, <3>2, TreeAssumption
    <3> QED BY <1>3, <3>2, <3>3 DEF Consumes
  <2>2. BodyValue(f, Body[n][k], s) = BodyValue(g, Body[n][k], s)
    <3>1. SameSteps(f, g, Body[n][k], s) /\ Body[n][k] \in Seq(Steps)
      BY <2>1, BlockIs DEF Agrees, Ats, SameSteps
    <3> QED BY <3>1, BodyAgrees
  <2>3. Holds(c, n, s) <=> Holds(d, n, s)
    BY <1>3 DEF SameHere
  <2>4. /\ StepValue(c, f, n, s) = BodyValue(f, Body[n][k], s)
        /\ StepValue(d, g, n, s) = BodyValue(g, Body[n][IF Holds(d, n, s) THEN 1 ELSE 2], s)
    BY <1>3, StepValueIs
  <2>5. k = IF Holds(d, n, s) THEN 1 ELSE 2
    BY <2>3
  <2> HIDE DEF k
  <2> QED BY <2>2, <2>4, <2>5
<1>4. CASE Kind[n] = "retry"
  <2>1. PassValues(f, n, s) = PassValues(g, n, s)
    BY <1>4, PassesAgree
  <2>2. RetryValue(f, n, s) = RetryValue(g, n, s)
    BY <2>1 DEF RetryValue
  <2> QED BY <1>4, <2>2, StepValueIs
<1>5. CASE Kind[n] = "loop"
  <2>1. PassValues(f, n, s) = PassValues(g, n, s)
    BY <1>5, PassesAgree
  <2> DEFINE v == PassValues(f, n, s)
             C == {i \in DOMAIN v : v[i] # "done" \/ (i + 1 < Count[n] /\ ~Continues(c, n, Append(s, i)))}
             D == {i \in DOMAIN v : v[i] # "done" \/ (i + 1 < Count[n] /\ ~Continues(d, n, Append(s, i)))}
  <2>2. C = D
    <3>1. \A i \in DOMAIN v : i \in Nat
      BY DEF PassValues
    <3> QED BY <1>5, <3>1 DEF SameHere
  <2>3. /\ (Visible(c, Test[n], s) = {}) <=> (Visible(d, Test[n], s) = {})
        /\ Continues(c, n, s) <=> Continues(d, n, s)
    BY <1>5 DEF SameHere
  <2>4. LoopValue(c, f, n, s) = IF Visible(c, Test[n], s) # {} /\ ~Continues(c, n, s) THEN "done"
                                ELSE IF C = {} THEN "failed" ELSE Outcome(v[Min(C)])
    BY DEF LoopValue
  <2>5. LoopValue(d, g, n, s) = IF Visible(d, Test[n], s) # {} /\ ~Continues(d, n, s) THEN "done"
                                ELSE IF D = {} THEN "failed" ELSE Outcome(v[Min(D)])
    BY <2>1 DEF LoopValue
  <2>6. LoopValue(c, f, n, s) = LoopValue(d, g, n, s)
    <3> HIDE DEF C, D, v
    <3> QED BY <2>2, <2>3, <2>4, <2>5
  <2>7. StepValue(c, f, n, s) = LoopValue(c, f, n, s)
    BY <1>5, StepValueIs
  <2>8. StepValue(d, g, n, s) = LoopValue(d, g, n, s)
    BY <1>5, StepValueIs
  <2> QED BY <2>6, <2>7, <2>8
<1>6. CASE Concurrent(n) /\ Kind[n] \in {"parallel", "repeat"}
  <2>1. BranchValues(f, n, s) = BranchValues(g, n, s)
    <3>1. CASE Kind[n] = "repeat"
      BY <3>1, PassesAgree DEF BranchValues
    <3>2. CASE Kind[n] = "parallel"
      <4>1. n \in DOMAIN Body /\ Body[n] \in Seq(Seq(Steps)) /\ Consumes(n)
        <5>1. n \in DOMAIN Kind
          BY StepIs
        <5> QED BY <3>2, <5>1, TreeAssumption DEF Leaf, LeafKinds, Consumes
      <4>2. ASSUME NEW i \in 0..Len(Body[n]) - 1
            PROVE  BodyValue(f, Body[n][i + 1], Append(s, i)) = BodyValue(g, Body[n][i + 1], Append(s, i))
        <5>1. i + 1 \in DOMAIN Body[n] /\ i \in Nat
          BY <4>1
        <5>2. SameSteps(f, g, Body[n][i + 1], Append(s, i)) /\ Body[n][i + 1] \in Seq(Steps)
          BY <4>1, <5>1, BlockIs DEF Agrees, Ats, SameSteps
        <5> QED BY <5>2, BodyAgrees
      <4> QED BY <3>2, <4>2 DEF BranchValues
    <3> QED BY <1>6, <3>1, <3>2
  <2>2. ConcurrentValue(f, n, s) = ConcurrentValue(g, n, s)
    BY <2>1 DEF ConcurrentValue
  <2> QED BY <1>6, <2>2, StepValueIs
<1>7. CASE ~Concurrent(n) /\ Kind[n] = "repeat"
  <2>1. PassValues(f, n, s) = PassValues(g, n, s)
    BY <1>7, PassesAgree
  <2>2. RepeatValue(f, n, s) = RepeatValue(g, n, s)
    BY <2>1 DEF RepeatValue
  <2> QED BY <1>7, <2>2, StepValueIs
<1> QED BY <1>1, <1>2, <1>3, <1>4, <1>5, <1>6, <1>7, Kinds

LEMMA ReplayAgrees ==
    ASSUME NEW n \in Steps, NEW s \in Seq(Nat), NEW f, NEW g, Agrees(f, g, n, s),
           NEW c, NEW d, SameHere(c, d, n, s)
    PROVE  ReplayValue(c, f, n, s) = ReplayValue(d, g, n, s)
<1>1. CASE Kind[n] = "retry"
  <2> DEFINE C == {a \in 0..Count[n] - 1 : ~Failed(c.attempt, Attempt(n, s, a))}
             D == {a \in 0..Count[n] - 1 : ~Failed(d.attempt, Attempt(n, s, a))}
  <2>1. C = D
    BY <1>1 DEF SameHere
  <2>2. C # {} => Min(C) \in Nat
    <3>1. C \subseteq Nat
      OBVIOUS
    <3> HIDE DEF C
    <3> QED BY <3>1, MinIs
  <2>3. C # {} => BodyValue(f, Body[n][1], Append(s, Min(C))) = BodyValue(g, Body[n][1], Append(s, Min(C)))
    BY <1>1, <2>2, PassesAgree
  <2>4. C # {} => (Attempt(n, s, Min(C)) \in DOMAIN c.attempt) = (Attempt(n, s, Min(C)) \in DOMAIN d.attempt)
    BY <1>1, <2>2 DEF SameHere
  <2>5. RetryReplay(c, f, n, s) = IF C = {} THEN "failed"
          ELSE IF Attempt(n, s, Min(C)) \in DOMAIN c.attempt THEN "done"
          ELSE IF BodyValue(f, Body[n][1], Append(s, Min(C))) = "broke" THEN "broke" ELSE "open"
    BY DEF RetryReplay
  <2>6. RetryReplay(d, g, n, s) = IF D = {} THEN "failed"
          ELSE IF Attempt(n, s, Min(D)) \in DOMAIN d.attempt THEN "done"
          ELSE IF BodyValue(g, Body[n][1], Append(s, Min(D))) = "broke" THEN "broke" ELSE "open"
    BY DEF RetryReplay
  <2>7. RetryReplay(c, f, n, s) = RetryReplay(d, g, n, s)
    <3> HIDE DEF C, D
    <3> QED BY <2>1, <2>3, <2>4, <2>5, <2>6
  <2> QED BY <1>1, <2>7 DEF ReplayValue, Concurrent
<1>2. CASE Kind[n] # "retry" /\ Concurrent(n)
  <2>1. ConcurrentReplay(c, n, s) = ConcurrentReplay(d, n, s)
    BY <1>2 DEF ConcurrentReplay, SameHere
  <2> QED BY <1>2, <2>1 DEF ReplayValue
<1>3. CASE Kind[n] # "retry" /\ ~Concurrent(n)
  BY <1>3, StepAgrees DEF ReplayValue
<1> QED BY <1>1, <1>2, <1>3

Rule(m, c, f, n, s) == IF m THEN ReplayValue(c, f, n, s) ELSE StepValue(c, f, n, s)
SolvesOn(X, m, c, f) == f = [p \in X \X Seq(Nat) |-> Rule(m, c, f, p[1], p[2])]

LEMMA SolvedMore ==
    ASSUME NEW m, NEW c, NEW X \in SUBSET Steps, \A n \in X : \A k \in Steps : Parent[k] = n => k \in X,
           NEW f, SolvesOn(X, m, c, f),
           NEW n \in Steps \ X, \A k \in Steps : Parent[k] = n => k \in X
    PROVE  \E g : SolvesOn(X \cup {n}, m, c, g)
<1> DEFINE Y == X \cup {n}
           g == [p \in Y \X Seq(Nat) |-> IF p[1] = n THEN Rule(m, c, f, n, p[2]) ELSE f[p]]
<1>1. \A p \in X \X Seq(Nat) : f[p] = Rule(m, c, f, p[1], p[2])
  BY DEF SolvesOn
<1>2. \A k \in X : \A t \in Seq(Nat) : g[<<k, t>>] = f[<<k, t>>]
  OBVIOUS
<1>3. \A t \in Seq(Nat) : g[<<n, t>>] = Rule(m, c, f, n, t)
  OBVIOUS
<1>4. DOMAIN g = Y \X Seq(Nat) /\ g = [p \in Y \X Seq(Nat) |-> g[p]]
  OBVIOUS
<1> HIDE DEF g
<1>5. ASSUME NEW k \in Y, NEW t \in Seq(Nat) PROVE Rule(m, c, f, k, t) = Rule(m, c, g, k, t)
  <2>1. k \in Steps /\ \A j \in Steps : Parent[j] = k => j \in X
    OBVIOUS
  <2>2. Agrees(f, g, k, t)
    <3> SUFFICES ASSUME NEW j \in Steps, Parent[j] = k, NEW u \in Ats(k, t) PROVE f[<<j, u>>] = g[<<j, u>>]
      BY DEF Agrees
    <3>1. j \in X
      BY <2>1
    <3>2. u \in Seq(Nat)
      BY DEF Ats
    <3> QED BY <1>2, <3>1, <3>2
  <2>3. SameHere(c, c, k, t)
    BY DEF SameHere
  <2> QED BY <2>1, <2>2, <2>3, StepAgrees, ReplayAgrees DEF Rule
<1>6. ASSUME NEW p \in Y \X Seq(Nat) PROVE g[p] = Rule(m, c, g, p[1], p[2])
  <2>1. p = <<p[1], p[2]>> /\ p[1] \in Y /\ p[2] \in Seq(Nat)
    OBVIOUS
  <2>2. CASE p[1] = n
    BY <1>3, <1>5, <2>1, <2>2
  <2>3. CASE p[1] \in X
    <3>1. g[p] = f[p] /\ f[p] = Rule(m, c, f, p[1], p[2])
      BY <1>1, <1>2, <2>1, <2>3
    <3> QED BY <1>5, <2>1, <3>1
  <2> QED BY <2>1, <2>2, <2>3
<1>7. g = [p \in Y \X Seq(Nat) |-> Rule(m, c, g, p[1], p[2])]
  BY <1>4, <1>6
<1> QED BY <1>7 DEF SolvesOn

LEMMA LeafRecursion == ASSUME NEW m, NEW c PROVE \E f : SolvesOn(Steps, m, c, f)
<1> DEFINE Closed(X) == \A n \in X : \A k \in Steps : Parent[k] = n => k \in X
           Solved == {X \in SUBSET Steps : Closed(X) /\ \E f : SolvesOn(X, m, c, f)}
           Sizes == {Cardinality(Steps \ X) : X \in Solved}
<1>1. {} \in Solved
  <2> DEFINE f == [p \in {} |-> {}]
  <2>1. f = [p \in {} \X Seq(Nat) |-> Rule(m, c, f, p[1], p[2])]
    <3>1. {} \X Seq(Nat) = {}
      OBVIOUS
    <3>2. \A v : [p \in {} |-> {}] = [p \in {} |-> Rule(m, c, v, p[1], p[2])]
      OBVIOUS
    <3> QED BY <3>1, <3>2
  <2>2. \E v : SolvesOn({}, m, c, v)
    BY <2>1 DEF SolvesOn
  <2> QED BY <2>2
<1>2. \A X \in SUBSET Steps : IsFiniteSet(X) /\ Cardinality(X) \in Nat
  BY TreeAssumption, FS_Subset, FS_CardinalityType
<1>3. Sizes \subseteq Nat /\ Sizes # {}
  <2>1. \A X \in Solved : Cardinality(Steps \ X) \in Nat
    <3>1. \A X \in Solved : Steps \ X \in SUBSET Steps
      OBVIOUS
    <3> HIDE DEF Solved
    <3> QED BY <1>2, <3>1
  <2> HIDE DEF Solved
  <2> QED BY <1>1, <2>1
<1>4. PICK X \in Solved : Min(Sizes) = Cardinality(Steps \ X)
  <2> HIDE DEF Solved
  <2> QED BY <1>3, MinIs
<1>5. X = Steps
  <2> SUFFICES ASSUME X # Steps PROVE FALSE
    OBVIOUS
  <2> DEFINE S == Steps \ X
  <2>1. S \in SUBSET Steps /\ S # {}
    OBVIOUS
  <2>2. PICK n \in S : \A k \in S : Parent[k] # n
    <3> HIDE DEF S
    <3> QED BY <2>1, Deepest
  <2>3. \A k \in Steps : Parent[k] = n => k \in X
    BY <2>2
  <2>4. \E g : SolvesOn(X \cup {n}, m, c, g)
    BY <2>2, <2>3, SolvedMore
  <2> DEFINE Y == X \cup {n}
  <2>5. Y \in Solved
    BY <2>2, <2>3, <2>4
  <2>6. Cardinality(Steps \ Y) < Cardinality(Steps \ X)
    <3> DEFINE A == Steps \ X
               B == Steps \ Y
    <3>1. B \subseteq A /\ B # A /\ A \in SUBSET Steps /\ B \in SUBSET Steps
      BY <2>2
    <3> HIDE DEF A, B
    <3>2. IsFiniteSet(A) /\ Cardinality(A) \in Nat /\ Cardinality(B) \in Nat
      BY <1>2, <3>1
    <3>3. Cardinality(B) <= Cardinality(A) /\ (Cardinality(B) = Cardinality(A) => A = B)
      BY <3>1, <3>2, FS_Subset
    <3>4. Cardinality(B) < Cardinality(A)
      BY <3>1, <3>2, <3>3
    <3> QED BY <3>4 DEF A, B
  <2>7. Cardinality(Steps \ Y) \in Sizes
    BY <2>5
  <2>8. Min(Sizes) <= Cardinality(Steps \ Y)
    <3> HIDE DEF Sizes
    <3> QED BY <1>3, <2>7, MinIs
  <2>9. Cardinality(Steps \ Y) \in Nat /\ Cardinality(Steps \ X) \in Nat
    BY <1>2
  <2> HIDE DEF Sizes, Y
  <2> QED BY <1>4, <2>6, <2>8, <2>9
<1> QED BY <1>4, <1>5

LEMMA ReplayIs ==
    ASSUME NEW c
    PROVE  \A n \in Steps, s \in Seq(Nat) : Replay(c)[<<n, s>>] = ReplayValue(c, Replay(c), n, s)
<1> DEFINE Is(f) == f = [p \in Steps \X Seq(Nat) |-> ReplayValue(c, f, p[1], p[2])]
<1>1. \E f : Is(f)
  <2>1. \E f : SolvesOn(Steps, TRUE, c, f)
    BY LeafRecursion
  <2> QED BY <2>1 DEF SolvesOn, Rule
<1>2. Replay(c) = CHOOSE f : Is(f)
  BY DEF Replay
<1>3. Is(Replay(c))
  <2> HIDE DEF Is
  <2> QED BY <1>1, <1>2
<1> QED BY <1>3

LEMMA MeansIs ==
    ASSUME NEW c
    PROVE  \A n \in Steps, s \in Seq(Nat) : Means(c)[<<n, s>>] = StepValue(c, Means(c), n, s)
<1> DEFINE Is(f) == f = [p \in Steps \X Seq(Nat) |-> StepValue(c, f, p[1], p[2])]
<1>1. \E f : Is(f)
  <2>1. \E f : SolvesOn(Steps, FALSE, c, f)
    BY LeafRecursion
  <2> QED BY <2>1 DEF SolvesOn, Rule
<1>2. Means(c) = CHOOSE f : Is(f)
  BY DEF Means
<1>3. Is(Means(c))
  <2> HIDE DEF Is
  <2> QED BY <1>1, <1>2
<1> QED BY <1>3

LEMMA ReplayCases ==
    ASSUME NEW c, NEW n \in Steps, NEW s \in Seq(Nat)
    PROVE  /\ Leaf(n)            => Replay(c)[<<n, s>>] = LeafValue(c, n, s)
           /\ Kind[n] = "break"  => Replay(c)[<<n, s>>] = "broke"
           /\ Kind[n] = "if"     => Replay(c)[<<n, s>>] = BodyValue(Replay(c), Body[n][IF Holds(c, n, s) THEN 1 ELSE 2], s)
           /\ Kind[n] = "retry"  => Replay(c)[<<n, s>>] = RetryReplay(c, Replay(c), n, s)
           /\ Kind[n] = "loop"   => Replay(c)[<<n, s>>] = LoopValue(c, Replay(c), n, s)
           /\ Concurrent(n)      => Replay(c)[<<n, s>>] = ConcurrentReplay(c, n, s)
           /\ Kind[n] = "repeat" /\ ~Concurrent(n) => Replay(c)[<<n, s>>] = RepeatValue(Replay(c), n, s)
<1>1. Replay(c)[<<n, s>>] = ReplayValue(c, Replay(c), n, s)
  BY ReplayIs
<1>2. Kind[n] = "retry" => Replay(c)[<<n, s>>] = RetryReplay(c, Replay(c), n, s)
  BY <1>1 DEF ReplayValue, Concurrent
<1>3. Concurrent(n) => Replay(c)[<<n, s>>] = ConcurrentReplay(c, n, s)
  BY <1>1 DEF ReplayValue, Concurrent
<1>4. Kind[n] # "retry" /\ ~Concurrent(n) => Replay(c)[<<n, s>>] = StepValue(c, Replay(c), n, s)
  BY <1>1 DEF ReplayValue
<1>5. Kind[n] \in LeafKinds \cup {"break", "if", "loop"} => ~Concurrent(n) /\ Kind[n] # "retry"
  BY DEF Concurrent, LeafKinds
<1>6. Leaf(n) => Kind[n] \in LeafKinds
  BY DEF Leaf
<1> QED BY <1>2, <1>3, <1>4, <1>5, <1>6, StepValueIs

LEMMA BodyFacts ==
    ASSUME NEW body \in Seq(Steps), NEW f, NEW s
    PROVE  /\ (\A i \in DOMAIN body : Kept(f, body[i], s)) => BodyValue(f, body, s) = "done"
           /\ BodyValue(f, body, s) = "done" => \A i \in DOMAIN body : Kept(f, body[i], s)
           /\ \A j \in DOMAIN body :
                 (\A i \in 1..j - 1 : Kept(f, body[i], s)) /\ ~Kept(f, body[j], s)
                    => BodyValue(f, body, s) = f[<<body[j], s>>]
           /\ BodyValue(f, body, s) # "done" =>
                 \E j \in DOMAIN body : /\ \A i \in 1..j - 1 : Kept(f, body[i], s)
                                        /\ ~Kept(f, body[j], s) /\ BodyValue(f, body, s) = f[<<body[j], s>>]
<1> DEFINE S == {i \in DOMAIN body : ~Kept(f, body[i], s)}
<1>1. BodyValue(f, body, s) = IF S = {} THEN "done" ELSE f[<<body[Min(S)], s>>]
  BY DEF BodyValue
<1>2. ASSUME S # {}
      PROVE  /\ Min(S) \in DOMAIN body /\ ~Kept(f, body[Min(S)], s) /\ \A u \in S : Min(S) <= u
             /\ \A i \in 1..Min(S) - 1 : Kept(f, body[i], s)
  <2>1. S \subseteq DOMAIN body
    OBVIOUS
  <2>2. Min(S) \in S /\ Min(S) \in DOMAIN body /\ \A u \in S : Min(S) <= u
    <3> HIDE DEF S
    <3> QED BY <1>2, <2>1, StopIs
  <2>3. ASSUME NEW i \in 1..Min(S) - 1, ~Kept(f, body[i], s) PROVE FALSE
    <3>1. i \in S
      BY <2>2, <2>3
    <3> HIDE DEF S
    <3> QED BY <2>2, <3>1
  <2> QED BY <2>2, <2>3
<1>3. (\A i \in DOMAIN body : Kept(f, body[i], s)) => S = {}
  OBVIOUS
<1>4. S = {} => \A i \in DOMAIN body : Kept(f, body[i], s)
  OBVIOUS
<1>5. ASSUME S # {} PROVE f[<<body[Min(S)], s>>] # "done"
  <2>1. ~Kept(f, body[Min(S)], s)
    BY <1>2, <1>5
  <2> HIDE DEF S
  <2> QED BY <2>1 DEF Kept
<1>6. ASSUME NEW j \in DOMAIN body, \A i \in 1..j - 1 : Kept(f, body[i], s), ~Kept(f, body[j], s)
      PROVE  S # {} /\ Min(S) = j
  <2>1. j \in S
    BY <1>6
  <2>2. Min(S) <= j /\ Min(S) \in DOMAIN body /\ ~Kept(f, body[Min(S)], s)
    BY <1>2, <2>1
  <2> HIDE DEF S
  <2> QED BY <1>6, <2>1, <2>2
<1> HIDE DEF S
<1>7. \A j \in DOMAIN body :
         (\A i \in 1..j - 1 : Kept(f, body[i], s)) /\ ~Kept(f, body[j], s)
            => BodyValue(f, body, s) = f[<<body[j], s>>]
  BY <1>1, <1>6
<1>8. BodyValue(f, body, s) # "done" =>
        \E j \in DOMAIN body : /\ \A i \in 1..j - 1 : Kept(f, body[i], s)
                               /\ ~Kept(f, body[j], s) /\ BodyValue(f, body, s) = f[<<body[j], s>>]
  BY <1>1, <1>2
<1> QED BY <1>1, <1>3, <1>4, <1>5, <1>7, <1>8

-----------------------------------------------------------------------------

LEMMA RootAbove == \A n \in Steps : Root \in Above[n]
<1> DEFINE S == {n \in Steps : Root \in Above[n]}
<1>1. ASSUME NEW n \in Steps, Parent[n] \in Steps => Parent[n] \in S PROVE n \in S
  BY <1>1, StepIs
<1>2. S = Steps
  <2>1. S \in SUBSET Steps
    OBVIOUS
  <2> HIDE DEF S
  <2> QED BY <1>1, <2>1, TreeInduction
<1> QED BY <1>2

(* The suffix of a body cut back to its block.                             *)
LEMMA BodyPlace ==
    ASSUME NEW b \in DOMAIN Body, NEW s \in Seq(Nat), Len(s) = Inner(b)
    PROVE  /\ Upto(s, b) \in Seq(Nat) /\ Len(Upto(s, b)) = Depth[b]
           /\ Consumes(b) => s = Append(Upto(s, b), PassIn(b, s)) /\ PassIn(b, s) \in Nat
           /\ ~Consumes(b) => s = Upto(s, b)
           /\ \A t \in Seq(Nat) : Len(t) = Inner(b) /\ Upto(t, b) = Upto(s, b)
                                  /\ (Consumes(b) => PassIn(b, t) = PassIn(b, s)) => t = s
           /\ \A i \in Nat : Consumes(b) => /\ Append(Upto(s, b), i) \in Seq(Nat)
                                            /\ Len(Append(Upto(s, b), i)) = Inner(b)
                                            /\ Upto(Append(Upto(s, b), i), b) = Upto(s, b)
                                            /\ PassIn(b, Append(Upto(s, b), i)) = i
<1>1. Depth[b] \in Nat /\ Depth[b] <= Len(s) /\ Len(s) = Depth[b] + IF Consumes(b) THEN 1 ELSE 0
  BY BlockIs DEF Inner
<1>2. Upto(s, b) \in Seq(Nat) /\ Len(Upto(s, b)) = Depth[b]
  BY <1>1, CutShort DEF Upto
<1>3. ASSUME NEW t \in Seq(Nat), Len(t) = Inner(b)
      PROVE  /\ Consumes(b) => t = Append(Upto(t, b), PassIn(b, t)) /\ PassIn(b, t) \in Nat
             /\ ~Consumes(b) => t = Upto(t, b)
  <2>1. Len(t) = Len(s)
    BY <1>3
  <2>2. SubSeq(t, 1, Len(t)) = t
    BY CutShort, <1>1, <2>1
  <2>3. CASE Consumes(b)
    <3>1. Depth[b] \in Nat /\ Depth[b] <= Len(t) /\ Depth[b] < Len(t) /\ Len(t) = Depth[b] + 1
      BY <1>1, <2>1, <2>3
    <3>2. SubSeq(t, 1, Depth[b] + 1) = Append(SubSeq(t, 1, Depth[b]), t[Depth[b] + 1]) /\ t[Depth[b] + 1] \in Nat
      BY <3>1, CutShort
    <3> QED BY <2>2, <2>3, <3>1, <3>2 DEF Upto, PassIn
  <2>4. CASE ~Consumes(b)
    BY <1>1, <2>1, <2>2, <2>4 DEF Upto
  <2> QED BY <2>3, <2>4
<1>4. \A t \in Seq(Nat) : Len(t) = Inner(b) /\ Upto(t, b) = Upto(s, b)
                          /\ (Consumes(b) => PassIn(b, t) = PassIn(b, s)) => t = s
  <2> SUFFICES ASSUME NEW t \in Seq(Nat), Len(t) = Inner(b), Upto(t, b) = Upto(s, b),
                      Consumes(b) => PassIn(b, t) = PassIn(b, s)
               PROVE t = s
    OBVIOUS
  <2>1. CASE Consumes(b)
    <3>1. t = Append(Upto(t, b), PassIn(b, t)) /\ s = Append(Upto(s, b), PassIn(b, s))
      BY <1>3, <2>1
    <3> QED BY <2>1, <3>1
  <2>2. CASE ~Consumes(b)
    BY <1>3, <2>2
  <2> QED BY <2>1, <2>2
<1>5. ASSUME NEW i \in Nat, Consumes(b)
      PROVE  /\ Append(Upto(s, b), i) \in Seq(Nat)
             /\ Len(Append(Upto(s, b), i)) = Inner(b)
             /\ Upto(Append(Upto(s, b), i), b) = Upto(s, b)
             /\ PassIn(b, Append(Upto(s, b), i)) = i
  <2> DEFINE u == Upto(s, b)
  <2>1. Append(u, i) \in Seq(Nat) /\ Len(Append(u, i)) = Depth[b] + 1 /\ Append(u, i)[Depth[b] + 1] = i
    BY <1>1, <1>2
  <2>2. SubSeq(Append(u, i), 1, Depth[b]) = SubSeq(u, 1, Depth[b]) /\ SubSeq(u, 1, Depth[b]) = u
    <3>1. u \in Seq(Nat) /\ Depth[b] \in Nat /\ Depth[b] <= Len(u) /\ Len(u) = Depth[b]
      BY <1>1, <1>2
    <3> HIDE DEF u
    <3> QED BY <3>1, CutShort
  <2> QED BY <1>1, <1>5, <2>1, <2>2 DEF Upto, PassIn, Inner
<1> QED BY <1>2, <1>3, <1>4, <1>5

LEMMA ChainPlace ==
    ASSUME NEW n, NEW s, PlaceOf(n, s), NEW x \in Chain(n)
    PROVE  /\ PlaceOf(x, Upto(s, x)) /\ Upto(s, n) = s
           /\ \A y \in Chain(x) : Upto(Upto(s, x), y) = Upto(s, y)
           /\ Len(Upto(s, x)) = Inner(Parent[x])
           /\ Parent[x] \in DOMAIN Body /\ Parent[x] \in Above[n]
           /\ Parent[x] # Root => Parent[x] \in Chain(n)
           /\ Upto(Upto(s, x), Parent[x]) = Upto(s, Parent[x])
           /\ Consumes(Parent[x]) => /\ PassIn(Parent[x], Upto(s, x)) = PassIn(Parent[x], s)
                                     /\ Upto(s, x) = SubSeq(s, 1, Depth[Parent[x]] + 1)
<1>1. n \in Steps /\ s \in Seq(Nat) /\ Len(s) = Depth[n] /\ Depth[n] \in Nat
  BY StepIs DEF PlaceOf
<1>2. x \in Steps /\ Depth[x] \in Nat /\ Depth[x] <= Len(s) /\ Chain(x) \subseteq Chain(n) /\ (x = n \/ x \in Above[n])
  BY <1>1, ChainIs
<1>3. Upto(s, x) \in Seq(Nat) /\ Len(Upto(s, x)) = Depth[x] /\ \A k \in 1..Depth[x] : Upto(s, x)[k] = s[k]
  BY <1>1, <1>2, CutShort DEF Upto
<1>4. Upto(s, n) = s
  BY <1>1, CutShort DEF Upto
<1>5. \A y \in Chain(x) : Upto(Upto(s, x), y) = Upto(s, y)
  <2>1. \A y \in Chain(x) : Depth[y] \in Nat /\ Depth[y] <= Depth[x]
    BY <1>2, ChainIs
  <2> QED BY <1>1, <1>2, <2>1, CutShort DEF Upto
<1>6. Parent[x] \in DOMAIN Body /\ Depth[x] = Inner(Parent[x]) /\ Parent[x] \in Above[x]
  BY <1>2, StepIs
<1>7. Parent[x] \in Above[n]
  BY <1>1, <1>2, <1>6, AboveTrans
<1>8. Depth[Parent[x]] \in Nat /\ Depth[Parent[x]] <= Depth[x]
  BY <1>6, BlockIs
<1>9. Upto(Upto(s, x), Parent[x]) = Upto(s, Parent[x])
  BY <1>1, <1>2, <1>8, CutShort DEF Upto
<1>10. ASSUME Consumes(Parent[x])
       PROVE  PassIn(Parent[x], Upto(s, x)) = PassIn(Parent[x], s) /\ Upto(s, x) = SubSeq(s, 1, Depth[Parent[x]] + 1)
  <2>1. Depth[x] = Depth[Parent[x]] + 1
    BY <1>6, <1>10 DEF Inner
  <2>2. Depth[Parent[x]] + 1 \in 1..Depth[x]
    BY <1>2, <1>8, <2>1
  <2> QED BY <1>3, <2>1, <2>2 DEF PassIn, Upto
<1>11. Parent[x] # Root => Parent[x] \in Chain(n)
  BY <1>7 DEF Chain
<1> QED BY <1>1, <1>2, <1>3, <1>4, <1>5, <1>6, <1>7, <1>9, <1>10, <1>11 DEF PlaceOf

(* The body a pass takes.                                                  *)
LEMMA TakenIs ==
    ASSUME NEW c, NEW b \in DOMAIN Body, NEW s \in Seq(Nat), Len(s) = Inner(b), PassOK(c, b, s)
    PROVE  /\ Taken(c, b, s) \in DOMAIN Body[b] /\ TakenBody(c, b, s) \in Seq(Steps)
           /\ \A j \in DOMAIN TakenBody(c, b, s) : TakenBody(c, b, s)[j] \in Steps /\ Parent[TakenBody(c, b, s)[j]] = b
<1>1. Body[b] \in Seq(Seq(Steps)) /\ IF Kind[b] = "parallel" THEN Len(Body[b]) >= 2
                                     ELSE Len(Body[b]) = IF Kind[b] = "if" THEN 2 ELSE 1
  BY TreeAssumption
<1>2. Taken(c, b, s) \in DOMAIN Body[b]
  <2>1. CASE Kind[b] = "if"
    BY <1>1, <2>1 DEF Taken
  <2>2. CASE Kind[b] = "parallel"
    <3>1. PassIn(b, s) \in 0..Len(Body[b]) - 1
      BY <2>2 DEF PassOK, Items, Concurrent
    <3> QED BY <1>1, <2>2, <3>1 DEF Taken
  <2>3. CASE Kind[b] \notin {"if", "parallel"}
    BY <1>1, <2>3 DEF Taken
  <2> QED BY <2>1, <2>2, <2>3
<1> QED BY <1>2, BlockIs DEF TakenBody

(* A step that is not kept decides the pass it stands in.                  *)
LEMMA StepDecides ==
    ASSUME NEW c, NEW x, NEW s, PlaceOf(x, s), InOrder(c, x, s), ~Kept(Replay(c), x, s)
    PROVE  BlockValue(c, Parent[x], s) = Replay(c)[<<x, s>>]
<1> DEFINE b == Parent[x]
<1>1. b \in DOMAIN Body /\ s \in Seq(Nat) /\ Len(s) = Inner(b)
  BY StepIs DEF PlaceOf
<1>2. PassOK(c, b, s)
  BY DEF InOrder
<1>3. PICK j \in DOMAIN TakenBody(c, b, s) : TakenBody(c, b, s)[j] = x /\ Clear(c, b, s, j)
  BY DEF InOrder
<1>4. TakenBody(c, b, s) \in Seq(Steps)
  BY <1>1, <1>2, TakenIs
<1> QED BY <1>3, <1>4, BodyFacts DEF BlockValue, Clear

(* The passes of a block that has one body.                                *)
LEMMA PassesAre ==
    ASSUME NEW b \in Steps, Kind[b] \in {"repeat", "loop", "retry"}
    PROVE  /\ b \in DOMAIN Body /\ Consumes(b) /\ Count[b] \in Nat /\ Body[b][1] \in Seq(Steps)
           /\ \A f, at : DOMAIN PassValues(f, b, at) = 0..Count[b] - 1
           /\ \A f, at : \A i \in 0..Count[b] - 1 : PassValues(f, b, at)[i] = BodyValue(f, Body[b][1], Append(at, i))
           /\ \A c, s : TakenBody(c, b, s) = Body[b][1] /\ BlockValue(c, b, s) = BodyValue(Replay(c), Body[b][1], s)
           /\ \A c, at : \A i \in 0..Count[b] - 1 : PassValues(Replay(c), b, at)[i] = BlockValue(c, b, Append(at, i))
<1>1. b \in DOMAIN Body /\ 1 \in DOMAIN Body[b] /\ Consumes(b) /\ Count[b] \in Nat
  <2>1. b \in DOMAIN Kind /\ b # Root
    BY StepIs
  <2>2. b \in DOMAIN Body
    BY <2>1, TreeAssumption DEF Leaf, LeafKinds
  <2>3. Len(Body[b]) = 1 /\ Body[b] \in Seq(Seq(Steps))
    BY <2>2, TreeAssumption
  <2> QED BY <2>1, <2>2, <2>3, CountAssumption DEF Consumes
<1>2. Body[b][1] \in Seq(Steps)
  BY <1>1, BlockIs
<1>3. \A f, at : /\ DOMAIN PassValues(f, b, at) = 0..Count[b] - 1
                 /\ \A i \in 0..Count[b] - 1 : PassValues(f, b, at)[i] = BodyValue(f, Body[b][1], Append(at, i))
  BY DEF PassValues
<1>4. \A c, s : TakenBody(c, b, s) = Body[b][1] /\ BlockValue(c, b, s) = BodyValue(Replay(c), Body[b][1], s)
  BY DEF TakenBody, Taken, BlockValue
<1> QED BY <1>1, <1>2, <1>3, <1>4

(* The first of the numbers under a count that has some property.          *)
LEMMA FirstIs ==
    ASSUME NEW k \in Nat, NEW S, S \subseteq 0..k - 1, NEW p \in 0..k - 1, p \in S, \A i \in 0..p - 1 : i \notin S
    PROVE  S # {} /\ Min(S) = p
<1>1. S \subseteq Nat /\ S # {}
  OBVIOUS
<1>2. Min(S) \in S /\ \A u \in S : Min(S) <= u
  BY <1>1, MinIs
<1> HIDE DEF Min
<1>3. Min(S) \in Nat /\ Min(S) <= p
  BY <1>1, <1>2
<1>4. Min(S) \notin 0..p - 1
  BY <1>2
<1> QED BY <1>1, <1>3, <1>4

(* What the pass that a sequential block stands in makes of it.            *)
LEMMA PassDecides ==
    ASSUME NEW c, NEW b \in Steps, b \in DOMAIN Body, NEW s \in Seq(Nat), Len(s) = Inner(b), PassOK(c, b, s)
    PROVE  /\ Kind[b] = "if" => Replay(c)[<<b, Upto(s, b)>>] = BlockValue(c, b, s)
           /\ Kind[b] = "repeat" /\ ~Concurrent(b) /\ BlockValue(c, b, s) # "done"
                => Replay(c)[<<b, Upto(s, b)>>] = Outcome(BlockValue(c, b, s))
           /\ Kind[b] = "loop" /\ BlockValue(c, b, s) # "done"
                => Replay(c)[<<b, Upto(s, b)>>] = Outcome(BlockValue(c, b, s))
<1> DEFINE at == Upto(s, b)
           p == PassIn(b, s)
<1>1. at \in Seq(Nat) /\ (Consumes(b) => s = Append(at, p) /\ p \in Nat) /\ (~Consumes(b) => s = at)
  BY BodyPlace
<1>2. CASE Kind[b] = "if"
  <2>1. s = at
    BY <1>1, <1>2 DEF Consumes
  <2>2. Replay(c)[<<b, at>>] = BodyValue(Replay(c), Body[b][IF Holds(c, b, at) THEN 1 ELSE 2], at)
    BY <1>1, <1>2, ReplayCases
  <2>3. Taken(c, b, s) = IF Holds(c, b, s) THEN 1 ELSE 2
    BY <1>2 DEF Taken
  <2> HIDE DEF at
  <2>4. Replay(c)[<<b, at>>] = BlockValue(c, b, s)
    BY <2>1, <2>2, <2>3 DEF BlockValue, TakenBody
  <2> QED BY <1>2, <2>4 DEF at
<1>3. ASSUME Kind[b] = "repeat", ~Concurrent(b), BlockValue(c, b, s) # "done"
      PROVE  Replay(c)[<<b, at>>] = Outcome(BlockValue(c, b, s))
  <2> DEFINE v == PassValues(Replay(c), b, at)
             ends == {i \in DOMAIN v : v[i] # "done"}
  <2>1. Count[b] \in Nat /\ DOMAIN v = 0..Count[b] - 1 /\ Consumes(b)
        /\ \A i \in 0..Count[b] - 1 : v[i] = BlockValue(c, b, Append(at, i))
    BY <1>3, PassesAre
  <2>2. Count[b] <= MaxItems /\ p < Count[b] /\ \A i \in 0..p - 1 : BlockValue(c, b, Append(at, i)) = "done"
    BY <1>3 DEF PassOK
  <2>3. s = Append(at, p) /\ p \in 0..Count[b] - 1 /\ at \in Seq(Nat)
    BY <1>1, <2>1, <2>2
  <2>4. Replay(c)[<<b, at>>] = RepeatValue(Replay(c), b, at)
    BY <1>1, <1>3, ReplayCases
  <2>5. RepeatValue(Replay(c), b, at) = IF Count[b] > MaxItems THEN "failed"
                                        ELSE IF ends = {} THEN "done"
                                        ELSE Outcome(v[Min(ends)])
    BY DEF RepeatValue
  <2> HIDE DEF v, at, p
  <2>6. v[p] = BlockValue(c, b, s) /\ p \in ends /\ ends \subseteq 0..Count[b] - 1
    BY <1>3, <2>1, <2>3
  <2>7. \A i \in 0..p - 1 : i \notin ends
    BY <2>1, <2>2, <2>3
  <2> HIDE DEF ends
  <2>8. ends # {} /\ Min(ends) = p
    BY <2>1, <2>3, <2>6, <2>7, FirstIs
  <2>9. ~(Count[b] > MaxItems)
    BY <2>1, <2>2, CountAssumption
  <2> QED BY <2>4, <2>5, <2>6, <2>8, <2>9
<1>4. ASSUME Kind[b] = "loop", BlockValue(c, b, s) # "done"
      PROVE  Replay(c)[<<b, at>>] = Outcome(BlockValue(c, b, s))
  <2> DEFINE v == PassValues(Replay(c), b, at)
             ends == {i \in DOMAIN v : v[i] # "done" \/ (i + 1 < Count[b] /\ ~Continues(c, b, Append(at, i)))}
  <2>1. Count[b] \in Nat /\ DOMAIN v = 0..Count[b] - 1 /\ Consumes(b)
        /\ \A i \in 0..Count[b] - 1 : v[i] = BlockValue(c, b, Append(at, i))
    BY <1>4, PassesAre
  <2>2. /\ p < Count[b] /\ (Visible(c, Test[b], at) = {} \/ Continues(c, b, at))
        /\ \A i \in 0..p - 1 : BlockValue(c, b, Append(at, i)) = "done" /\ Continues(c, b, Append(at, i))
    BY <1>4 DEF PassOK
  <2>3. s = Append(at, p) /\ p \in 0..Count[b] - 1 /\ at \in Seq(Nat)
    BY <1>1, <2>1, <2>2
  <2>4. Replay(c)[<<b, at>>] = LoopValue(c, Replay(c), b, at)
    BY <1>1, <1>4, ReplayCases
  <2>5. LoopValue(c, Replay(c), b, at) = IF Visible(c, Test[b], at) # {} /\ ~Continues(c, b, at) THEN "done"
                                         ELSE IF ends = {} THEN "failed"
                                         ELSE Outcome(v[Min(ends)])
    BY DEF LoopValue
  <2> HIDE DEF v, at, p
  <2>6. v[p] = BlockValue(c, b, s) /\ p \in ends /\ ends \subseteq 0..Count[b] - 1
    BY <1>4, <2>1, <2>3
  <2>7. \A i \in 0..p - 1 : i \notin ends
    BY <2>1, <2>2, <2>3
  <2> HIDE DEF ends
  <2>8. ends # {} /\ Min(ends) = p
    BY <2>1, <2>3, <2>6, <2>7, FirstIs
  <2> QED BY <2>2, <2>4, <2>5, <2>6, <2>8
<1> QED BY <1>2, <1>3, <1>4

(* The attempt a retry is at: the first without a failed marker.           *)
LEMMA AttemptDecides ==
    ASSUME NEW c, NEW b \in Steps, Kind[b] = "retry", NEW at \in Seq(Nat), NEW p \in 0..Count[b] - 1,
           \A a \in 0..p - 1 : Failed(c.attempt, Attempt(b, at, a)), ~Failed(c.attempt, Attempt(b, at, p))
    PROVE  Replay(c)[<<b, at>>] = IF Attempt(b, at, p) \in DOMAIN c.attempt THEN "done"
                              ELSE IF BodyValue(Replay(c), Body[b][1], Append(at, p)) = "broke" THEN "broke" ELSE "open"
<1> DEFINE open == {a \in 0..Count[b] - 1 : ~Failed(c.attempt, Attempt(b, at, a))}
<1>1. Count[b] \in Nat
  BY PassesAre
<1>2. open # {} /\ Min(open) = p
  <2>1. open \subseteq 0..Count[b] - 1 /\ p \in open /\ \A i \in 0..p - 1 : i \notin open
    OBVIOUS
  <2> HIDE DEF open
  <2> QED BY <1>1, <2>1, FirstIs
<1>3. Replay(c)[<<b, at>>] = RetryReplay(c, Replay(c), b, at)
  BY ReplayCases
<1>4. RetryReplay(c, Replay(c), b, at) =
        IF open = {} THEN "failed"
        ELSE IF Attempt(b, at, Min(open)) \in DOMAIN c.attempt THEN "done"
        ELSE IF BodyValue(Replay(c), Body[b][1], Append(at, Min(open))) = "broke" THEN "broke" ELSE "open"
  BY DEF RetryReplay
<1> HIDE DEF open
<1> QED BY <1>2, <1>3, <1>4

LEMMA AttemptsSpent ==
    ASSUME NEW c, NEW b \in Steps, Kind[b] = "retry", NEW at \in Seq(Nat),
           \A a \in 0..Count[b] - 1 : Failed(c.attempt, Attempt(b, at, a))
    PROVE  Replay(c)[<<b, at>>] = "failed"
<1> DEFINE open == {a \in 0..Count[b] - 1 : ~Failed(c.attempt, Attempt(b, at, a))}
<1>1. open = {}
  OBVIOUS
<1>2. Replay(c)[<<b, at>>] = RetryReplay(c, Replay(c), b, at)
  BY ReplayCases
<1> QED BY <1>1, <1>2 DEF RetryReplay

(* A block with an open body in hand is open.                              *)
LEMMA OpenBlock ==
    ASSUME NEW c, NEW b \in Steps, b \in DOMAIN Body, NEW s \in Seq(Nat), Len(s) = Inner(b), PassOK(c, b, s),
           NoMarker(c, b, s), ~Concurrent(b) => BlockValue(c, b, s) = "open"
    PROVE  Replay(c)[<<b, Upto(s, b)>>] = "open"
<1> DEFINE at == Upto(s, b)
           p == PassIn(b, s)
<1>1. at \in Seq(Nat) /\ (Consumes(b) => s = Append(at, p) /\ p \in Nat)
  BY BodyPlace
<1>2. CASE Kind[b] \in {"if", "repeat", "loop"} /\ ~Concurrent(b)
  BY <1>2, PassDecides DEF Outcome
<1>3. CASE Kind[b] = "retry"
  <2>1. Consumes(b) /\ Count[b] \in Nat /\ BlockValue(c, b, s) = BodyValue(Replay(c), Body[b][1], s)
    BY <1>3, PassesAre
  <2>2. ~Concurrent(b)
    BY <1>3 DEF Concurrent
  <2>3. p < Count[b] /\ \A a \in 0..p - 1 : Failed(c.attempt, Attempt(b, at, a))
    BY <1>3 DEF PassOK
  <2>4. s = Append(at, p) /\ p \in 0..Count[b] - 1 /\ Attempt(b, at, p) \notin DOMAIN c.attempt
    BY <1>1, <1>3, <2>1, <2>3 DEF NoMarker
  <2>5. ~Failed(c.attempt, Attempt(b, at, p))
    BY <2>4 DEF Failed
  <2> HIDE DEF at, p
  <2>6. Replay(c)[<<b, at>>] = "open"
    BY <1>1, <1>3, <2>1, <2>2, <2>3, <2>4, <2>5, AttemptDecides
  <2> QED BY <2>6 DEF at
<1>4. CASE Concurrent(b)
  <2>1. Consumes(b)
    BY <1>4, StepIs DEF Consumes, Concurrent
  <2>2. s = Append(at, p) /\ p \in Items(c, b, at) /\ Branch(b, Append(at, p)) \notin DOMAIN c.branch
    BY <1>1, <1>4, <2>1 DEF PassOK, NoMarker
  <2>3. ~(Kind[b] = "repeat" /\ Count[b] > MaxItems)
    BY <1>4, CountAssumption DEF PassOK
  <2>4. Replay(c)[<<b, at>>] = ConcurrentReplay(c, b, at)
    BY <1>1, <1>4, ReplayCases
  <2> HIDE DEF at, p
  <2>5. \E i \in Items(c, b, at) : Branch(b, Append(at, i)) \notin DOMAIN c.branch
    BY <2>2
  <2>6. ConcurrentReplay(c, b, at) = "open"
    BY <2>3, <2>5 DEF ConcurrentReplay
  <2> QED BY <2>4, <2>6 DEF at
<1>5. Kind[b] \notin LeafKinds \cup {"break"}
  BY TreeAssumption DEF Leaf
<1> QED BY <1>2, <1>3, <1>4, <1>5, Kinds

-----------------------------------------------------------------------------

LEMMA ReachedUp ==
    ASSUME NEW c, NEW n, NEW s, PlaceOf(n, s), Reached(c, n, s), NEW x \in Chain(n)
    PROVE  /\ Reached(c, x, Upto(s, x)) /\ InOrder(c, x, Upto(s, x)) /\ PassOK(c, Parent[x], Upto(s, x))
           /\ Ready(c, Parent[x], Upto(s, x))
<1>1. n \in Steps /\ Chain(x) \subseteq Chain(n) /\ x \in Steps
  BY ChainIs DEF PlaceOf
<1>2. \A y \in Chain(n) : InOrder(c, y, Upto(s, y))
  BY DEF Reached
<1>3. Reached(c, x, Upto(s, x))
  <2> SUFFICES ASSUME NEW y \in Chain(x) PROVE InOrder(c, y, Upto(Upto(s, x), y))
    BY DEF Reached
  <2> QED BY <1>1, <1>2, ChainPlace
<1>4. PassOK(c, Parent[x], Upto(s, x))
  BY <1>2 DEF InOrder
<1>5. CASE Parent[x] = Root
  BY <1>2, <1>3, <1>4, <1>5 DEF Ready
<1>6. CASE Parent[x] # Root
  <2> DEFINE b == Parent[x]
  <2>1. b \in Chain(n) /\ b \in Steps /\ Chain(b) \subseteq Chain(n) /\ Upto(Upto(s, x), b) = Upto(s, b)
    <3>1. b \in Chain(n) /\ Upto(Upto(s, x), b) = Upto(s, b)
      BY <1>6, ChainPlace
    <3> QED BY <1>1, <3>1, ChainIs
  <2> HIDE DEF b
  <2>2. Reached(c, b, Upto(s, b))
    <3> SUFFICES ASSUME NEW y \in Chain(b) PROVE InOrder(c, y, Upto(Upto(s, b), y))
      BY DEF Reached
    <3> QED BY <1>2, <2>1, ChainPlace
  <2> QED BY <1>2, <1>3, <1>4, <2>1, <2>2 DEF Ready, b
<1> QED BY <1>5, <1>6

(* Around a step that is live, every block is.                             *)
LEMMA NotOverUp ==
    ASSUME NEW c, NEW n, NEW s, PlaceOf(n, s), ~Over(c, n, s), NEW x \in Chain(n)
    PROVE  /\ ~Over(c, x, Upto(s, x))
           /\ NoMarker(c, Parent[x], Upto(s, x))
<1>1. n \in Steps /\ x \in Steps /\ s \in Seq(Nat) /\ Len(s) = Depth[n] /\ Depth[n] \in Nat
      /\ Depth[x] \in Nat /\ Depth[x] <= Depth[n] /\ (x = n \/ x \in Above[n])
  BY ChainIs, StepIs DEF PlaceOf
<1>2. Above[x] \subseteq Above[n]
  BY <1>1, AboveTrans
<1>3. ASSUME NEW b \in Above[x], Consumes(b)
      PROVE  /\ Upto(Upto(s, x), b) = Upto(s, b) /\ PassIn(b, Upto(s, x)) = PassIn(b, s)
             /\ SubSeq(Upto(s, x), 1, Depth[b] + 1) = SubSeq(s, 1, Depth[b] + 1)
  <2>1. Depth[b] \in Nat /\ Depth[b] + 1 <= Depth[x]
    BY <1>1, <1>3, AboveDepth, StepIs
  <2>2. Depth[b] + 1 \in Nat /\ Depth[b] <= Depth[x] /\ Depth[b] + 1 \in 1..Depth[x]
    BY <1>1, <2>1
  <2>3. Depth[x] <= Len(s)
    BY <1>1
  <2> DEFINE e == Depth[x]
             d == Depth[b]
  <2>4. /\ \A k \in 1..e : SubSeq(s, 1, e)[k] = s[k]
        /\ \A k \in Nat : k <= e => SubSeq(SubSeq(s, 1, e), 1, k) = SubSeq(s, 1, k)
    BY <1>1, <2>3, CutShort
  <2> HIDE DEF e, d
  <2>5. d \in Nat /\ d <= e /\ d + 1 \in Nat /\ d + 1 <= e /\ d + 1 \in 1..e
    BY <2>1, <2>2 DEF d, e
  <2>6. /\ SubSeq(SubSeq(s, 1, e), 1, d) = SubSeq(s, 1, d)
        /\ SubSeq(SubSeq(s, 1, e), 1, d + 1) = SubSeq(s, 1, d + 1)
        /\ SubSeq(s, 1, e)[d + 1] = s[d + 1]
    BY <2>4, <2>5
  <2> QED BY <2>6 DEF Upto, PassIn, d, e
<1>4. \A b \in Above[x] : Kind[b] = "retry" \/ Concurrent(b) => Consumes(b)
  BY <1>1, TreeAssumption DEF Consumes, Concurrent
<1>5. ~Over(c, x, Upto(s, x))
  BY <1>2, <1>3, <1>4 DEF Over
<1>6. Parent[x] \in Above[x] /\ Len(Upto(s, x)) = Inner(Parent[x]) /\ Upto(s, x) \in Seq(Nat)
  <2>1. PlaceOf(x, Upto(s, x)) /\ Len(Upto(s, x)) = Inner(Parent[x])
    BY ChainPlace
  <2> QED BY <1>1, <2>1, StepIs DEF PlaceOf
<1>7. Consumes(Parent[x]) => SubSeq(Upto(s, x), 1, Depth[Parent[x]] + 1) = Upto(s, x)
  BY <1>6, CutShort DEF Inner
<1>8. NoMarker(c, Parent[x], Upto(s, x))
  BY <1>4, <1>5, <1>6, <1>7 DEF NoMarker, Over
<1> QED BY <1>5, <1>8

LEMMA LiveUp ==
    ASSUME NEW c, NEW n, NEW s, Live(c, n, s), NEW x \in Chain(n)
    PROVE  Live(c, x, Upto(s, x))
<1>1. n \in Steps /\ PlaceOf(n, s) /\ Reached(c, n, s) /\ ~Over(c, n, s) /\ Replay(c)[<<n, s>>] = "open"
  BY DEF Live, PlaceOf
<1> DEFINE T == {z \in Chain(n) : Replay(c)[<<z, Upto(s, z)>>] = "open"}
<1>2. n \in Chain(n) /\ Chain(n) \subseteq Steps /\ Upto(s, n) = s
  BY <1>1, ChainIs, ChainPlace
<1>3. n \in T
  BY <1>1, <1>2
<1>4. ASSUME NEW z \in Chain(n), Replay(c)[<<z, Upto(s, z)>>] = "open", Parent[z] # Root
      PROVE  Parent[z] \in Chain(n) /\ Replay(c)[<<Parent[z], Upto(s, Parent[z])>>] = "open"
  <2> DEFINE b == Parent[z]
             u == Upto(s, z)
  <2>1. /\ PlaceOf(z, u) /\ b \in Chain(n) /\ b \in DOMAIN Body /\ b \in Steps /\ u \in Seq(Nat)
        /\ Len(u) = Inner(b) /\ Upto(u, b) = Upto(s, b)
    <3>2. /\ PlaceOf(z, u) /\ b \in Chain(n) /\ b \in DOMAIN Body /\ Len(u) = Inner(b) /\ Upto(u, b) = Upto(s, b)
      <4>1. PlaceOf(n, s)
        BY <1>1
      <4>2. PlaceOf(z, u) /\ Len(u) = Inner(b)
        BY <4>1, ChainPlace
      <4>3. Upto(u, b) = Upto(s, b) /\ b \in DOMAIN Body
        BY <4>1, ChainPlace
      <4>4. b \in Chain(n)
        BY <1>4, <4>1, ChainPlace
      <4> QED BY <4>2, <4>3, <4>4
    <3>3. u \in Seq(Nat)
      BY <3>2 DEF PlaceOf
    <3> QED BY <1>2, <3>2, <3>3
  <2>2. InOrder(c, z, u) /\ PassOK(c, b, u)
    BY <1>1, <1>4, ReachedUp
  <2>3. NoMarker(c, b, u)
    BY <1>1, <1>4, NotOverUp
  <2>4. Replay(c)[<<z, u>>] = "open"
    BY <1>4
  <2> HIDE DEF b, u
  <2>5. BlockValue(c, b, u) = "open"
    BY <2>1, <2>2, <2>4, StepDecides DEF Kept, b
  <2>6. Replay(c)[<<b, Upto(u, b)>>] = "open"
    BY <2>1, <2>2, <2>3, <2>5, OpenBlock
  <2> QED BY <2>1, <2>6 DEF b
<1>5. \A z \in T \cap Steps : Parent[z] \in T \cup {Root}
  BY <1>4
<1> HIDE DEF T
<1>6. Chain(n) \subseteq T
  BY <1>1, <1>3, <1>5, ChainIn
<1>7. Replay(c)[<<x, Upto(s, x)>>] = "open"
  BY <1>6 DEF T
<1> QED BY <1>1, <1>7, ReachedUp, NotOverUp, ChainPlace DEF Live

LEMMA RootPlace == \A s \in Seq(Nat) : Upto(s, Root) = <<>>
BY RootIs DEF Upto

LEMMA ChainUp ==
    ASSUME NEW n \in Steps, NEW z \in Chain(n)
    PROVE  z \in Steps /\ Parent[z] \in Above[n] /\ (Parent[z] = Root \/ Parent[z] \in Chain(n))
<1>1. z \in Steps /\ (z = n \/ z \in Above[n])
  BY ChainIs
<1>2. Parent[z] \in Above[z]
  BY <1>1, StepIs
<1>3. Parent[z] \in Above[n]
  BY <1>1, <1>2, AboveTrans
<1> QED BY <1>1, <1>3 DEF Chain

LEMMA ChainStep ==
    ASSUME NEW n, NEW s, PlaceOf(n, s), NEW x \in Chain(n)
    PROVE  /\ n \in Steps /\ s \in Seq(Nat) /\ x \in Steps /\ Depth[x] \in Nat /\ Depth[x] <= Len(s) /\ Len(s) \in Nat
           /\ Chain(x) \subseteq Chain(n) /\ Parent[x] \in DOMAIN Body /\ Above[x] \subseteq Above[n]
           /\ Depth[x] = Inner(Parent[x]) /\ (x = n \/ x \in Above[n]) /\ PlaceOf(x, Upto(s, x))
<1>1. n \in Steps /\ s \in Seq(Nat) /\ Len(s) = Depth[n] /\ Depth[n] \in Nat
  BY StepIs DEF PlaceOf
<1>2. x \in Steps /\ Depth[x] \in Nat /\ Depth[x] <= Depth[n] /\ Chain(x) \subseteq Chain(n) /\ (x = n \/ x \in Above[n])
  BY <1>1, ChainIs
<1>3. Parent[x] \in DOMAIN Body /\ Depth[x] = Inner(Parent[x])
  BY <1>2, StepIs
<1>4. Above[x] \subseteq Above[n]
  BY <1>1, <1>2, AboveTrans
<1> QED BY <1>1, <1>2, <1>3, <1>4, ChainPlace

LEMMA ChainCut ==
    ASSUME NEW n, NEW s, PlaceOf(n, s), NEW x \in Chain(n), NEW y \in Chain(x)
    PROVE  Upto(Upto(s, x), y) = Upto(s, y)
<1>1. \A z \in Chain(x) : Upto(Upto(s, x), z) = Upto(s, z)
  BY ChainPlace
<1> QED BY <1>1

LEMMA PlaceIs ==
    ASSUME NEW n, NEW s, PlaceOf(n, s)
    PROVE  /\ n \in Steps /\ s \in Seq(Nat) /\ Len(s) = Depth[n] /\ Len(s) = Inner(Parent[n]) /\ Len(s) \in Nat
           /\ Parent[n] \in DOMAIN Body /\ Parent[n] \in Above[n] /\ n \in Chain(n) /\ Upto(s, n) = s
<1>1. n \in Steps /\ s \in Seq(Nat) /\ Len(s) = Depth[n]
  BY DEF PlaceOf
<1>2. Parent[n] \in DOMAIN Body /\ Parent[n] \in Above[n] /\ Depth[n] = Inner(Parent[n]) /\ Depth[n] \in Nat
  BY <1>1, StepIs
<1>3. n \in Chain(n)
  BY <1>1, ChainIs
<1> QED BY <1>1, <1>2, <1>3, ChainPlace

LEMMA LiveIs ==
    ASSUME NEW c, NEW n, NEW s, Live(c, n, s)
    PROVE  /\ PlaceOf(n, s) /\ Reached(c, n, s) /\ ~Over(c, n, s) /\ Replay(c)[<<n, s>>] = "open"
           /\ InOrder(c, n, s) /\ PassOK(c, Parent[n], s) /\ NoMarker(c, Parent[n], s)
           /\ ~Kept(Replay(c), n, s) /\ BlockValue(c, Parent[n], s) = "open"
<1>1. PlaceOf(n, s) /\ Reached(c, n, s) /\ ~Over(c, n, s) /\ Replay(c)[<<n, s>>] = "open"
  BY DEF Live
<1>2. n \in Chain(n) /\ Upto(s, n) = s
  BY <1>1, PlaceIs
<1>3. InOrder(c, n, s) /\ PassOK(c, Parent[n], s)
  BY <1>1, <1>2, ReachedUp
<1>4. NoMarker(c, Parent[n], s)
  BY <1>1, <1>2, NotOverUp
<1>5. ~Kept(Replay(c), n, s)
  BY <1>1 DEF Kept
<1>6. BlockValue(c, Parent[n], s) = "open"
  BY <1>1, <1>3, <1>5, StepDecides
<1> QED BY <1>1, <1>3, <1>4, <1>5, <1>6

(* Of two steps in hand in one frame neither comes first.                  *)
LEMMA SameFrame ==
    ASSUME NEW c, NEW s, NEW y, NEW z, PlaceOf(y, s), PlaceOf(z, s), InOrder(c, y, s), InOrder(c, z, s),
           Parent[y] = Parent[z], ~Kept(Replay(c), y, s), ~Kept(Replay(c), z, s)
    PROVE  y = z
<1> DEFINE b == Parent[y]
           body == TakenBody(c, b, s)
<1>1. PICK j \in DOMAIN body : body[j] = y /\ Clear(c, b, s, j)
  BY DEF InOrder
<1>2. PICK k \in DOMAIN body : body[k] = z /\ Clear(c, b, s, k)
  BY DEF InOrder
<1>3. body \in Seq(Steps)
  <2>1. b \in DOMAIN Body /\ s \in Seq(Nat) /\ Len(s) = Inner(b) /\ PassOK(c, b, s)
    BY StepIs DEF PlaceOf, InOrder
  <2> QED BY <2>1, TakenIs
<1>4. DOMAIN body = 1..Len(body) /\ Len(body) \in Nat
  BY <1>3
<1>5. /\ \A i \in 1..j - 1 : Kept(Replay(c), body[i], s)
      /\ \A i \in 1..k - 1 : Kept(Replay(c), body[i], s)
  BY <1>1, <1>2 DEF Clear
<1> HIDE DEF body, b
<1>6. ~(j < k) /\ ~(k < j)
  BY <1>1, <1>2, <1>4, <1>5
<1> QED BY <1>1, <1>2, <1>4, <1>6

(* Nor in two passes of one block, unless it is a concurrent one.          *)
LEMMA EarlierPass ==
    ASSUME NEW c, NEW y, NEW t, Live(c, y, t), NEW z, NEW u, Live(c, z, u), Parent[y] = Parent[z],
           Consumes(Parent[y]), ~Concurrent(Parent[y]), Upto(t, Parent[y]) = Upto(u, Parent[y])
    PROVE  ~(PassIn(Parent[y], t) < PassIn(Parent[y], u))
<1> DEFINE b == Parent[y]
           at == Upto(t, b)
           p == PassIn(b, t)
           q == PassIn(b, u)
<1> SUFFICES ASSUME p < q PROVE FALSE
  OBVIOUS
<1>1. /\ y \in Steps /\ t \in Seq(Nat) /\ Len(t) = Inner(b) /\ z \in Steps /\ u \in Seq(Nat) /\ Len(u) = Inner(b)
      /\ b \in DOMAIN Body /\ b \in Above[y]
  <2>1. PlaceOf(y, t) /\ PlaceOf(z, u)
    BY LiveIs
  <2> QED BY <2>1, PlaceIs
<1>2. t = Append(at, p) /\ u = Append(at, q) /\ p \in Nat /\ q \in Nat
  BY <1>1, BodyPlace
<1>3. PassOK(c, b, t) /\ PassOK(c, b, u) /\ NoMarker(c, b, t)
  BY LiveIs
<1>5. BlockValue(c, b, t) = "open"
  BY LiveIs
<1>6. p \in 0..q - 1
  BY <1>2
<1>7. b \in Steps /\ Kind[b] \in {"retry", "loop", "repeat"}
  <2>1. b \in Steps
    BY <1>1, BlockIs DEF Consumes
  <2>2. ~Leaf(b) /\ Kind[b] # "break"
    BY <1>1, TreeAssumption
  <2> QED BY <2>1, <2>2, Kinds DEF Consumes, Concurrent, Leaf
<1>8. CASE Kind[b] = "retry"
  <2>1. Failed(c.attempt, Attempt(b, at, p))
    BY <1>3, <1>6, <1>8 DEF PassOK
  <2>2. Attempt(b, at, p) \notin DOMAIN c.attempt
    BY <1>3, <1>8 DEF NoMarker
  <2> QED BY <2>1, <2>2 DEF Failed
<1>9. CASE Kind[b] \in {"loop", "repeat"}
  <2>1. BlockValue(c, b, Append(at, p)) = "done"
    BY <1>3, <1>6, <1>9 DEF PassOK
  <2> QED BY <1>2, <1>5, <2>1
<1> QED BY <1>7, <1>8, <1>9

(* Two live steps, neither around the other: they are in two branches of a *)
(* concurrent block around both.                                           *)
LEMMA Diverge ==
    ASSUME NEW c, NEW m, NEW s, Live(c, m, s), NEW n, NEW t, Live(c, n, t),
           ~(m \in Chain(n) /\ Upto(t, m) = s), ~(n \in Chain(m) /\ Upto(s, n) = t)
    PROVE  \E b \in Above[m] \cap Above[n] :
              Concurrent(b) /\ Upto(s, b) = Upto(t, b) /\ PassIn(b, s) # PassIn(b, t)
<1>1. /\ m \in Steps /\ n \in Steps /\ PlaceOf(m, s) /\ PlaceOf(n, t) /\ s \in Seq(Nat) /\ t \in Seq(Nat)
      /\ m \in Chain(m) /\ n \in Chain(n) /\ Chain(m) \subseteq Steps /\ Chain(n) \subseteq Steps
      /\ Upto(s, m) = s /\ Upto(t, n) = t
  <2>1. m \in Steps /\ n \in Steps /\ PlaceOf(m, s) /\ PlaceOf(n, t) /\ s \in Seq(Nat) /\ t \in Seq(Nat)
    BY DEF Live, PlaceOf
  <2>2. m \in Chain(m) /\ n \in Chain(n) /\ Chain(m) \subseteq Steps /\ Chain(n) \subseteq Steps
    BY <2>1, ChainIs
  <2> QED BY <2>1, <2>2, ChainPlace
<1> DEFINE T == {z \in Chain(m) : ~(z \in Chain(n) /\ Upto(s, z) = Upto(t, z))}
<1>2. m \in T /\ T \in SUBSET Steps
  BY <1>1
<1>3. PICK y \in T : Parent[y] \notin T
  <2> HIDE DEF T
  <2> QED BY <1>2, TreeAssumption
<1>4. y \in Chain(m) /\ ~(y \in Chain(n) /\ Upto(s, y) = Upto(t, y))
  BY <1>3
<1> DEFINE b == Parent[y]
<1>5. b \in Above[m] /\ (b = Root \/ b \in Chain(m)) /\ y \in Steps
  BY <1>1, <1>4, ChainUp
<1>6. b = Root \/ (b \in Chain(n) /\ Upto(s, b) = Upto(t, b))
  BY <1>3, <1>5
<1> HIDE DEF T
<1>7. b \in Above[n] /\ Upto(s, b) = Upto(t, b)
  <2>1. CASE b = Root
    BY <1>1, <2>1, RootAbove, RootPlace
  <2>2. CASE b # Root
    <3>1. b \in Chain(n) /\ b \in Chain(m) /\ Upto(s, b) = Upto(t, b)
      BY <1>5, <1>6, <2>2
    <3>2. b # n
      BY <1>1, <3>1
    <3> QED BY <1>1, <3>1, <3>2, ChainIs
  <2> QED BY <2>1, <2>2
<1>8. PICK z \in Chain(n) : z \in Steps /\ Parent[z] = b
  BY <1>1, <1>7, Towards
<1> DEFINE u == Upto(s, y)
           v == Upto(t, z)
<1>9. Live(c, y, u) /\ Live(c, z, v)
  BY <1>4, <1>8, LiveUp
<1>10. /\ Upto(u, b) = Upto(s, b) /\ Upto(v, b) = Upto(t, b)
       /\ Consumes(b) => PassIn(b, u) = PassIn(b, s) /\ PassIn(b, v) = PassIn(b, t)
  BY <1>1, <1>4, <1>8, ChainPlace
<1>11. /\ b \in DOMAIN Body /\ u \in Seq(Nat) /\ v \in Seq(Nat) /\ Len(u) = Inner(b) /\ Len(v) = Inner(b)
       /\ PlaceOf(y, u) /\ PlaceOf(z, v)
  BY <1>8, <1>9, StepIs DEF Live, PlaceOf
<1>12. ASSUME u = v PROVE FALSE
  <2>1. InOrder(c, y, u) /\ ~Kept(Replay(c), y, u)
    BY <1>9, LiveIs
  <2>2. InOrder(c, z, u) /\ ~Kept(Replay(c), z, u)
    BY <1>9, <1>12, LiveIs
  <2> HIDE DEF u, v
  <2>3. y = z
    BY <1>8, <1>11, <1>12, <2>1, <2>2, SameFrame
  <2> QED BY <1>4, <1>8, <1>12, <2>3 DEF u, v
<1>13. Consumes(b) /\ PassIn(b, u) # PassIn(b, v)
  <2> HIDE DEF u, v, b
  <2> QED BY <1>7, <1>10, <1>11, <1>12, BodyPlace
<1>14. Concurrent(b)
  <2> SUFFICES ASSUME ~Concurrent(b) PROVE FALSE
    OBVIOUS
  <2>1. PassIn(b, u) \in Nat /\ PassIn(b, v) \in Nat
    BY <1>11, <1>13, BodyPlace
  <2> HIDE DEF u, v
  <2>2. ~(PassIn(b, u) < PassIn(b, v))
    BY <1>7, <1>8, <1>9, <1>10, <1>13, EarlierPass
  <2>3. ~(PassIn(b, v) < PassIn(b, u))
    BY <1>7, <1>8, <1>9, <1>10, <1>13, EarlierPass
  <2> QED BY <1>13, <2>1, <2>2, <2>3
<1> QED BY <1>5, <1>7, <1>10, <1>13, <1>14

(* A body with a live step in it is open.                                  *)
LEMMA OpenBody ==
    ASSUME NEW c, NEW n, NEW s, Live(c, n, s), NEW b \in Above[n], NEW u \in Seq(Nat), Len(u) = Inner(b),
           SubSeq(s, 1, Inner(b)) = u
    PROVE  BlockValue(c, b, u) = "open"
<1>1. n \in Steps /\ PlaceOf(n, s)
  BY DEF Live, PlaceOf
<1>2. PICK z \in Chain(n) : z \in Steps /\ Parent[z] = b
  BY <1>1, Towards
<1>3. Live(c, z, Upto(s, z)) /\ Depth[z] = Inner(b)
  BY <1>2, LiveUp, StepIs
<1>4. Upto(s, z) = u
  BY <1>3 DEF Upto
<1>5. InOrder(c, z, u) /\ PlaceOf(z, u) /\ Replay(c)[<<z, u>>] = "open"
  BY <1>1, <1>2, <1>3, <1>4, ReachedUp DEF Live
<1> QED BY <1>2, <1>5, StepDecides DEF Kept

LEMMA ChainLinear == \A m \in Steps : \A n, x \in Chain(m) : x \in Chain(n) \/ n \in Above[x]
<1> DEFINE S == {m \in Steps : \A n, x \in Chain(m) : x \in Chain(n) \/ n \in Above[x]}
<1>1. ASSUME NEW m \in Steps, Parent[m] \in Steps => Parent[m] \in S PROVE m \in S
  <2> SUFFICES ASSUME NEW n \in Chain(m), NEW x \in Chain(m) PROVE x \in Chain(n) \/ n \in Above[x]
    OBVIOUS
  <2>1. CASE n = m
    BY <2>1
  <2>2. CASE n # m /\ x = m
    BY <2>2, ChainIs
  <2>3. CASE n # m /\ x # m
    <3>1. Parent[m] # Root /\ n \in Chain(Parent[m]) /\ x \in Chain(Parent[m])
      BY <2>3, ChainIs
    <3>2. Parent[m] \in Steps
      BY <3>1, StepIs
    <3> QED BY <1>1, <3>1, <3>2
  <2> QED BY <2>1, <2>2, <2>3
<1>2. S = Steps
  <2>1. S \in SUBSET Steps
    OBVIOUS
  <2> HIDE DEF S
  <2> QED BY <1>1, <2>1, TreeInduction
<1> QED BY <1>2

(* Of a step that was reached, everything before it and before the blocks  *)
(* around it is kept.                                                      *)
LEMMA EarlierKept ==
    ASSUME NEW c, NEW n, NEW s, PlaceOf(n, s), Reached(c, n, s), NEW x \in Chain(n),
           NEW k \in DOMAIN Body[Parent[x]], NEW i \in DOMAIN Body[Parent[x]][k], NEW j \in DOMAIN Body[Parent[x]][k],
           i < j, Body[Parent[x]][k][j] = x
    PROVE  Kept(Replay(c), Body[Parent[x]][k][i], Upto(s, x))
<1> DEFINE b == Parent[x]
           w == Upto(s, x)
<1>1. InOrder(c, x, w)
  BY ReachedUp
<1>2. PassOK(c, b, w) /\ \E l \in DOMAIN TakenBody(c, b, w) : TakenBody(c, b, w)[l] = x /\ Clear(c, b, w, l)
  BY <1>1 DEF InOrder
<1>3. PICK l \in DOMAIN TakenBody(c, b, w) : TakenBody(c, b, w)[l] = x /\ Clear(c, b, w, l)
  BY <1>2
<1>4. b \in DOMAIN Body /\ w \in Seq(Nat) /\ Len(w) = Inner(b)
  <2>1. PlaceOf(x, w)
    BY ChainPlace
  <2> QED BY <2>1, PlaceIs
<1>5. Taken(c, b, w) \in DOMAIN Body[b] /\ TakenBody(c, b, w) = Body[b][Taken(c, b, w)]
  BY <1>2, <1>4, TakenIs DEF TakenBody
<1> HIDE DEF b, w
<1>6. Taken(c, b, w) = k /\ l = j
  BY <1>3, <1>4, <1>5, TreeAssumption DEF b
<1>7. Body[b][k] \in Seq(Steps)
  BY <1>4, BlockIs DEF b
<1>8. i \in 1..j - 1
  BY <1>7 DEF b
<1> QED BY <1>3, <1>5, <1>6, <1>8 DEF Clear, b, w

-----------------------------------------------------------------------------

LEMMA SeesIs ==
    ASSUME NEW c, NEW d, NEW n, NEW t, SeesSame(c, d, n, t)
    PROVE  /\ Visible(c, Test[n], t) = Visible(d, Test[n], t)
           /\ (Holds(c, n, t) <=> Holds(d, n, t)) /\ (Continues(c, n, t) <=> Continues(d, n, t))
<1>1. \A ref \in {<<Test[n], t>>, <<Test[n], <<>>>>} :
         StatusAt(c, ref) = StatusAt(d, ref) /\ (StatusAt(c, ref) = "succeeded" => c.step[ref] = d.step[ref])
  BY DEF SeesSame, SameEntry, StatusAt
<1>2. Visible(c, Test[n], t) = Visible(d, Test[n], t)
  BY <1>1 DEF Visible
<1>3. \A ref \in Visible(c, Test[n], t) : c.step[ref].out = d.step[ref].out
  BY <1>1 DEF Visible
<1>4. Holds(c, n, t) <=> Holds(d, n, t)
  BY <1>2, <1>3 DEF Holds
<1>5. Continues(c, n, t) <=> Continues(d, n, t)
  <2>1. Holds(c, n, t) \in BOOLEAN /\ Holds(d, n, t) \in BOOLEAN
    BY DEF Holds
  <2> QED BY <1>4, <2>1 DEF Continues
<1> QED BY <1>2, <1>4, <1>5

LEMMA SightCut ==
    ASSUME NEW t \in Seq(Nat), NEW u \in Sights(t), NEW k \in Nat, k <= Len(t), k <= Len(u)
    PROVE  SubSeq(u, 1, k) = SubSeq(t, 1, k)
<1>1. CASE u = t
  BY <1>1
<1>2. CASE u = <<>>
  <2>1. k = 0
    BY <1>2
  <2> QED BY <2>1
<1>3. ASSUME NEW i \in Nat, u = Append(t, i) PROVE SubSeq(u, 1, k) = SubSeq(t, 1, k)
  BY <1>3, CutShort
<1> QED BY <1>1, <1>2, <1>3 DEF Sights

(* What a condition reads is settled when its block is reached, and where  *)
(* what is around the block is settled.                                    *)
LEMMA TestEarlier ==
    ASSUME NEW c, NEW n, NEW s, PlaceOf(n, s), Reached(c, n, s), NEW t \in Seq(Nat), NEW x \in Chain(n),
           Upto(s, x) = Upto(t, x), Depth[x] <= Len(t), NEW g, NEW u \in Sights(t), Live(c, g, u),
           NEW k \in DOMAIN Body[Parent[x]], NEW i \in DOMAIN Body[Parent[x]][k], NEW j \in DOMAIN Body[Parent[x]][k],
           i < j, Body[Parent[x]][k][j] = x, Body[Parent[x]][k][i] \in Chain(g)
    PROVE  FALSE
<1> DEFINE e == Body[Parent[x]][k][i]
<1>1. Live(c, e, Upto(u, e))
  BY LiveUp
<1>2. x \in Steps /\ Parent[x] \in DOMAIN Body /\ g \in Steps /\ u \in Seq(Nat) /\ Len(u) = Depth[g]
  <2>1. PlaceOf(g, u) /\ PlaceOf(x, Upto(s, x))
    BY LiveIs, ChainPlace
  <2> QED BY <2>1, PlaceIs
<1>3. Parent[e] = Parent[x] /\ e \in Steps
  BY <1>2, BlockIs
<1>4. Depth[e] = Depth[x] /\ Depth[x] \in Nat /\ Depth[e] <= Depth[g]
  BY <1>2, <1>3, StepIs, ChainIs
<1>5. Upto(u, e) = Upto(t, x)
  BY <1>2, <1>4, SightCut DEF Upto
<1>6. Kept(Replay(c), e, Upto(s, x))
  BY EarlierKept
<1> QED BY <1>1, <1>5, <1>6, LiveIs

LEMMA TestSettled ==
    ASSUME ConditionsSettled, NEW c, NEW m, NEW t, PlaceOf(m, t), Kind[m] \in {"if", "loop"},
           NEW n \in Chain(m), Reached(c, n, Upto(t, n)), Replay(c)[<<n, Upto(t, n)>>] # "open",
           NEW u \in Sights(t), Live(c, Test[m], u)
    PROVE  FALSE
<1> DEFINE s == Upto(t, n)
           g == Test[m]
<1>1. m \in Steps /\ t \in Seq(Nat) /\ Len(t) = Depth[m] /\ g \in Steps /\ u \in Seq(Nat) /\ Len(u) = Depth[g]
  <2>1. PlaceOf(g, u)
    BY LiveIs
  <2> QED BY <2>1, PlaceIs
<1>2. n \in Steps /\ Depth[n] \in Nat /\ Depth[n] <= Len(t) /\ PlaceOf(n, s)
  BY ChainStep
<1>0. \A y \in Chain(n) : Upto(s, y) = Upto(t, y)
  BY ChainCut
<1>3. n \notin Chain(g)
  <2> SUFFICES ASSUME n \in Chain(g) PROVE FALSE
    OBVIOUS
  <2>1. Live(c, n, Upto(u, n)) /\ Depth[n] <= Len(u)
    <3>1. PlaceOf(g, u)
      BY LiveIs
    <3> QED BY <3>1, LiveUp, ChainStep
  <2>2. Upto(u, n) = s
    BY <1>1, <1>2, <2>1, SightCut DEF Upto
  <2> QED BY <2>1, <2>2, LiveIs
<1>4. ReadsBefore(m)
  <2> SUFFICES ASSUME m \in Above[g] PROVE FALSE
    BY <1>1 DEF ConditionsSettled
  <2>1. m \in Chain(g)
    BY <1>1, StepIs DEF Chain
  <2>2. Chain(m) \subseteq Chain(g)
    BY <1>1, <2>1, ChainIs
  <2> QED BY <1>3, <2>2
<1>5. PICK x \in Chain(m) : \E k \in DOMAIN Body[Parent[x]] : \E i, j \in DOMAIN Body[Parent[x]][k] :
             i < j /\ Body[Parent[x]][k][j] = x /\ Body[Parent[x]][k][i] \in Chain(g)
  BY <1>4 DEF ReadsBefore
<1>6. PICK k \in DOMAIN Body[Parent[x]] : \E i, j \in DOMAIN Body[Parent[x]][k] :
             i < j /\ Body[Parent[x]][k][j] = x /\ Body[Parent[x]][k][i] \in Chain(g)
  BY <1>5
<1>7. PICK i \in DOMAIN Body[Parent[x]][k], j \in DOMAIN Body[Parent[x]][k] :
             i < j /\ Body[Parent[x]][k][j] = x /\ Body[Parent[x]][k][i] \in Chain(g)
  BY <1>6
<1>8. x \in Steps /\ Parent[x] \in DOMAIN Body /\ Depth[x] <= Len(t)
  BY ChainStep
<1>9. x \in Chain(n)
  <2> SUFFICES ASSUME n \in Above[x] PROVE FALSE
    BY <1>1, ChainLinear
  <2> DEFINE e == Body[Parent[x]][k][i]
  <2>1. e \in Steps /\ Parent[e] = Parent[x] /\ e \in Chain(g)
    <3>1. \A l \in DOMAIN Body[Parent[x]][k] : Body[Parent[x]][k][l] \in Steps /\ Parent[Body[Parent[x]][k][l]] = Parent[x]
      BY <1>8, BlockIs
    <3> QED BY <1>7, <3>1
  <2> HIDE DEF e
  <2>2. Above[e] = Above[x]
    BY <1>8, <2>1, StepIs
  <2>3. n \in Chain(e)
    BY <1>2, <2>1, <2>2, StepIs DEF Chain
  <2>4. Chain(e) \subseteq Chain(g)
    <3>1. PlaceOf(g, u)
      BY LiveIs
    <3> QED BY <2>1, <3>1, ChainStep
  <2> QED BY <1>3, <2>3, <2>4
<1>10. Upto(s, x) = Upto(t, x)
  BY <1>0, <1>9
<1> QED BY <1>1, <1>2, <1>7, <1>8, <1>9, <1>10, TestEarlier

LEMMA ReplaySame ==
    ASSUME NEW c, NEW d, NEW n \in Steps, NEW s \in Seq(Nat), Agrees(Replay(c), Replay(d), n, s), SameHere(c, d, n, s)
    PROVE  Replay(c)[<<n, s>>] = Replay(d)[<<n, s>>]
<1>1. Replay(c)[<<n, s>>] = ReplayValue(c, Replay(c), n, s)
  BY ReplayIs
<1>2. Replay(d)[<<n, s>>] = ReplayValue(d, Replay(d), n, s)
  BY ReplayIs
<1>3. ASSUME NEW f, NEW g, Agrees(f, g, n, s) PROVE ReplayValue(c, f, n, s) = ReplayValue(d, g, n, s)
  BY <1>3, ReplayAgrees
<1>4. ReplayValue(c, Replay(c), n, s) = ReplayValue(d, Replay(d), n, s)
  BY <1>3, Zenon
<1> QED BY <1>1, <1>2, <1>4

LEMMA MeansSame ==
    ASSUME NEW c, NEW d, NEW n \in Steps, NEW s \in Seq(Nat), Agrees(Means(c), Means(d), n, s), SameHere(c, d, n, s)
    PROVE  Means(c)[<<n, s>>] = Means(d)[<<n, s>>]
<1>1. Means(c)[<<n, s>>] = StepValue(c, Means(c), n, s)
  BY MeansIs
<1>2. Means(d)[<<n, s>>] = StepValue(d, Means(d), n, s)
  BY MeansIs
<1>3. ASSUME NEW f, NEW g, Agrees(f, g, n, s) PROVE StepValue(c, f, n, s) = StepValue(d, g, n, s)
  BY <1>3, StepAgrees
<1>4. StepValue(c, Means(c), n, s) = StepValue(d, Means(d), n, s)
  BY <1>3, Zenon
<1> QED BY <1>1, <1>2, <1>4

LEMMA SameBelow ==
    ASSUME ConditionsSettled, NEW c, NEW d, Later(c, d), NEW m, NEW t, PlaceOf(m, t),
           NEW n \in Chain(m), Reached(c, n, Upto(t, n)), Replay(c)[<<n, Upto(t, n)>>] # "open"
    PROVE  SameHere(c, d, m, t)
<1>1. m \in Steps /\ t \in Seq(Nat)
  BY PlaceIs
<1>2. ~Live(c, m, t)
  BY LiveUp, LiveIs
<1>3. Leaf(m) => StatusAt(c, <<m, t>>) = StatusAt(d, <<m, t>>)
  BY <1>2 DEF Later, SameEntry, StatusAt
<1>4. ASSUME Kind[m] \in {"if", "loop"}, NEW u \in Sights(t) PROVE SameEntry(c, d, <<Test[m], u>>)
  <2> SUFFICES ASSUME ~SameEntry(c, d, <<Test[m], u>>) PROVE FALSE
    OBVIOUS
  <2>1. Live(c, Test[m], u)
    BY DEF Later
  <2> QED BY <1>4, <2>1, TestSettled
<1>5. t \in Sights(t) /\ <<>> \in Sights(t) /\ \A i \in Nat : Append(t, i) \in Sights(t)
  BY DEF Sights
<1>6. ASSUME Kind[m] \in {"if", "loop"}
      PROVE  SeesSame(c, d, m, t) /\ \A i \in Nat : SeesSame(c, d, m, Append(t, i))
  BY <1>4, <1>5, <1>6 DEF SeesSame
<1>7. Kind[m] = "if" => (Holds(c, m, t) <=> Holds(d, m, t))
  BY <1>6, SeesIs
<1>8. Kind[m] = "loop" => /\ (Visible(c, Test[m], t) = {}) <=> (Visible(d, Test[m], t) = {})
                          /\ (Continues(c, m, t) <=> Continues(d, m, t))
                          /\ \A i \in Nat : Continues(c, m, Append(t, i)) <=> Continues(d, m, Append(t, i))
  <2> SUFFICES ASSUME Kind[m] = "loop"
               PROVE  /\ (Visible(c, Test[m], t) = {}) <=> (Visible(d, Test[m], t) = {})
                      /\ (Continues(c, m, t) <=> Continues(d, m, t))
                      /\ \A i \in Nat : Continues(c, m, Append(t, i)) <=> Continues(d, m, Append(t, i))
    OBVIOUS
  <2>1. SeesSame(c, d, m, t) /\ \A i \in Nat : SeesSame(c, d, m, Append(t, i))
    BY <1>6
  <2>2. Visible(c, Test[m], t) = Visible(d, Test[m], t)
    BY <2>1, SeesIs
  <2>4. Continues(c, m, t) <=> Continues(d, m, t)
    BY <2>1, SeesIs
  <2>3. \A i \in Nat : Continues(c, m, Append(t, i)) <=> Continues(d, m, Append(t, i))
    BY <2>1, SeesIs
  <2> QED BY <2>2, <2>3, <2>4
<1>9. \A a : /\ Attempt(m, t, a) \in DOMAIN c.attempt <=> Attempt(m, t, a) \in DOMAIN d.attempt
             /\ Failed(c.attempt, Attempt(m, t, a)) <=> Failed(d.attempt, Attempt(m, t, a))
  BY <1>2 DEF Later, Failed
<1>10. \A i : /\ Branch(m, Append(t, i)) \in DOMAIN c.branch <=> Branch(m, Append(t, i)) \in DOMAIN d.branch
              /\ Failed(c.branch, Branch(m, Append(t, i))) <=> Failed(d.branch, Branch(m, Append(t, i)))
  BY <1>2 DEF Later, Failed
<1>11. Admitted(c, <<m, t>>) = Admitted(d, <<m, t>>)
  BY <1>2 DEF Later
<1>12. Items(c, m, t) = Items(d, m, t)
  BY <1>11 DEF Items
<1> QED BY <1>3, <1>7, <1>8, <1>9, <1>10, <1>11, <1>12 DEF SameHere

LEMMA PlaceBelow ==
    ASSUME NEW m, NEW t, PlaceOf(m, t), NEW k \in Steps, Parent[k] = m, NEW u \in Ats(m, t)
    PROVE  /\ PlaceOf(k, u) /\ m \in Chain(k) /\ Upto(u, m) = t
           /\ \A x \in Chain(m) : x \in Chain(k) /\ Upto(u, x) = Upto(t, x)
<1>1. m \in Steps /\ t \in Seq(Nat) /\ Len(t) = Depth[m] /\ Depth[m] \in Nat /\ m # Root /\ Depth[k] = Inner(m)
  BY PlaceIs, StepIs
<1>2. u \in Seq(Nat) /\ Len(u) = Inner(m) /\ SubSeq(u, 1, Depth[m]) = t
  <2>1. CASE Consumes(m)
    <3>1. PICK i \in Nat : u = Append(t, i)
      BY <2>1 DEF Ats
    <3>2. SubSeq(u, 1, Len(t)) = SubSeq(t, 1, Len(t)) /\ SubSeq(t, 1, Len(t)) = t
      BY <1>1, <3>1, CutShort
    <3> QED BY <1>1, <2>1, <3>1, <3>2 DEF Inner
  <2>2. CASE ~Consumes(m)
    <3>1. SubSeq(t, 1, Len(t)) = t
      BY <1>1, CutShort
    <3> QED BY <1>1, <2>2, <3>1 DEF Inner, Ats
  <2> QED BY <2>1, <2>2
<1>3. PlaceOf(k, u)
  BY <1>1, <1>2 DEF PlaceOf
<1>4. Chain(k) = {k} \cup Chain(m) /\ m \in Chain(m)
  BY <1>1, ChainIs
<1>5. Upto(u, m) = t
  BY <1>2 DEF Upto
<1>6. \A x \in Chain(m) : x \in Chain(k) /\ Upto(u, x) = Upto(t, x)
  <2> SUFFICES ASSUME NEW x \in Chain(m) PROVE x \in Chain(k) /\ Upto(u, x) = Upto(t, x)
    OBVIOUS
  <2>1. Upto(Upto(u, m), x) = Upto(u, x)
    BY <1>3, <1>4, ChainCut
  <2> QED BY <1>4, <1>5, <2>1
<1> QED BY <1>3, <1>4, <1>5, <1>6

(* A step that was reached and has a value keeps it, in both readings.     *)
LEMMA ValueStays ==
    ASSUME ConditionsSettled, NEW c, NEW d, Later(c, d), NEW n, NEW s, PlaceOf(n, s),
           Reached(c, n, s), Replay(c)[<<n, s>>] # "open"
    PROVE  Replay(d)[<<n, s>>] = Replay(c)[<<n, s>>] /\ Means(d)[<<n, s>>] = Means(c)[<<n, s>>]
<1> DEFINE Same(m, t) == Replay(c)[<<m, t>>] = Replay(d)[<<m, t>>] /\ Means(c)[<<m, t>>] = Means(d)[<<m, t>>]
           Fine(m) == \A t : PlaceOf(m, t) /\ n \in Chain(m) /\ Upto(t, n) = s => Same(m, t)
           S == {m \in Steps : ~Fine(m)}
<1>1. ASSUME NEW m \in Steps, \A k \in Steps : Parent[k] = m => Fine(k) PROVE Fine(m)
  <2> SUFFICES ASSUME NEW t, PlaceOf(m, t), n \in Chain(m), Upto(t, n) = s PROVE Same(m, t)
    OBVIOUS
  <2>1. t \in Seq(Nat)
    BY PlaceIs
  <2>2. ASSUME NEW k \in Steps, Parent[k] = m, NEW u \in Ats(m, t) PROVE Same(k, u)
    <3>1. PlaceOf(k, u) /\ n \in Chain(k) /\ Upto(u, n) = s
      <4>1. PlaceOf(k, u)
        BY <2>2, PlaceBelow
      <4>2. \A x \in Chain(m) : x \in Chain(k) /\ Upto(u, x) = Upto(t, x)
        BY <2>2, PlaceBelow
      <4> QED BY <4>1, <4>2
    <3> HIDE DEF Same
    <3> QED BY <1>1, <2>2, <3>1
  <2>3. Agrees(Replay(c), Replay(d), m, t) /\ Agrees(Means(c), Means(d), m, t)
    BY <2>2 DEF Agrees
  <2>4. SameHere(c, d, m, t)
    BY SameBelow
  <2>5. Replay(c)[<<m, t>>] = Replay(d)[<<m, t>>]
    BY <2>1, <2>3, <2>4, ReplaySame
  <2>6. Means(c)[<<m, t>>] = Means(d)[<<m, t>>]
    BY <2>1, <2>3, <2>4, MeansSame
  <2> QED BY <2>5, <2>6
<1> HIDE DEF Fine
<1>2. S = {}
  <2> SUFFICES ASSUME S # {} PROVE FALSE
    OBVIOUS
  <2>1. S \in SUBSET Steps
    OBVIOUS
  <2>2. PICK m \in S : \A k \in S : Parent[k] # m
    <3> HIDE DEF S
    <3> QED BY <2>1, Deepest
  <2>3. \A k \in Steps : Parent[k] = m => Fine(k)
    BY <2>2
  <2> QED BY <1>1, <2>2, <2>3
<1>3. n \in Steps /\ n \in Chain(n) /\ Upto(s, n) = s
  BY PlaceIs
<1>4. Fine(n)
  BY <1>2, <1>3
<1> QED BY <1>3, <1>4 DEF Fine

(* A step whose earlier ones are kept is reached.                          *)
LEMMA ReachedIn ==
    ASSUME NEW c, NEW b \in DOMAIN Body, NEW s \in Seq(Nat), Len(s) = Inner(b), Ready(c, b, s),
           NEW j \in DOMAIN TakenBody(c, b, s), Clear(c, b, s, j)
    PROVE  /\ PlaceOf(TakenBody(c, b, s)[j], s) /\ Parent[TakenBody(c, b, s)[j]] = b
           /\ InOrder(c, TakenBody(c, b, s)[j], s) /\ Reached(c, TakenBody(c, b, s)[j], s)
<1> DEFINE x == TakenBody(c, b, s)[j]
<1>1. PassOK(c, b, s)
  BY DEF Ready
<1>2. x \in Steps /\ Parent[x] = b
  BY <1>1, TakenIs
<1>3. InOrder(c, x, s)
  BY <1>1, <1>2 DEF InOrder
<1>4. PlaceOf(x, s)
  BY <1>2, StepIs DEF PlaceOf
<1>5. Upto(s, x) = s /\ Upto(s, b) \in Seq(Nat) /\ Len(Upto(s, b)) = Depth[b]
  BY <1>4, PlaceIs, BodyPlace
<1> HIDE DEF x
<1>6. \A y \in Chain(x) : InOrder(c, y, Upto(s, y))
  <2>1. CASE b = Root
    BY <1>2, <1>3, <1>5, <2>1, ChainIs
  <2>2. CASE b # Root
    <3>1. Chain(x) = {x} \cup Chain(b) /\ b \in Chain(x)
      BY <1>2, <2>2, ChainIs, BlockIs
    <3>2. \A y \in Chain(b) : InOrder(c, y, Upto(Upto(s, b), y))
      BY <2>2 DEF Ready, Reached
    <3>3. \A y \in Chain(b) : Upto(Upto(s, b), y) = Upto(s, y)
      BY <1>4, <3>1, ChainCut
    <3>4. \A y \in Chain(b) : InOrder(c, y, Upto(s, y))
      BY <3>2, <3>3
    <3> QED BY <1>3, <1>5, <3>1, <3>4
  <2> QED BY <2>1, <2>2
<1>7. Reached(c, x, s)
  BY <1>6 DEF Reached
<1> QED BY <1>2, <1>3, <1>4, <1>7 DEF x

LEMMA ClearKept ==
    ASSUME NEW c, NEW b, NEW s, NEW f, Settled(c, b, s, f), TakenBody(c, b, s) \in Seq(Steps),
           NEW j \in Nat, j <= Len(TakenBody(c, b, s)) + 1, Clear(c, b, s, j)
    PROVE  \A i \in 1..j - 1 : Kept(f, TakenBody(c, b, s)[i], s)
<1> DEFINE body == TakenBody(c, b, s)
<1> SUFFICES ASSUME NEW i \in 1..j - 1 PROVE Kept(f, body[i], s)
  OBVIOUS
<1>1. i \in DOMAIN body /\ i \in Nat
  OBVIOUS
<1>2. Kept(Replay(c), body[i], s) /\ Clear(c, b, s, i)
  BY <1>1 DEF Clear
<1>3. Replay(c)[<<body[i], s>>] # "open"
  BY <1>2 DEF Kept
<1>4. f[<<body[i], s>>] = Replay(c)[<<body[i], s>>]
  BY <1>1, <1>2, <1>3 DEF Settled
<1> QED BY <1>2, <1>4 DEF Kept

LEMMA BodySettled ==
    ASSUME NEW c, NEW b, NEW s, NEW f, Settled(c, b, s, f), TakenBody(c, b, s) \in Seq(Steps),
           BlockValue(c, b, s) # "open"
    PROVE  BodyValue(f, TakenBody(c, b, s), s) = BlockValue(c, b, s)
<1> DEFINE body == TakenBody(c, b, s)
<1>1. CASE BlockValue(c, b, s) = "done"
  <2>1. \A i \in DOMAIN body : Kept(Replay(c), body[i], s)
    BY <1>1, BodyFacts DEF BlockValue
  <2>2. Clear(c, b, s, Len(body) + 1)
    BY <2>1 DEF Clear
  <2>3. \A i \in DOMAIN body : Kept(f, body[i], s)
    BY <2>2, ClearKept
  <2> QED BY <1>1, <2>3, BodyFacts
<1>2. CASE BlockValue(c, b, s) # "done"
  <2>1. PICK j \in DOMAIN body : /\ \A i \in 1..j - 1 : Kept(Replay(c), body[i], s)
                                 /\ ~Kept(Replay(c), body[j], s)
                                 /\ BodyValue(Replay(c), body, s) = Replay(c)[<<body[j], s>>]
    BY <1>2, BodyFacts DEF BlockValue
  <2>2. Clear(c, b, s, j)
    BY <2>1 DEF Clear
  <2>3. BlockValue(c, b, s) = Replay(c)[<<body[j], s>>]
    BY <2>1 DEF BlockValue
  <2>4. f[<<body[j], s>>] = Replay(c)[<<body[j], s>>]
    BY <2>2, <2>3 DEF Settled
  <2>5. j \in Nat /\ j <= Len(body) + 1
    OBVIOUS
  <2>6. \A i \in 1..j - 1 : Kept(f, body[i], s)
    BY <2>2, <2>5, ClearKept
  <2>7. ~Kept(f, body[j], s)
    BY <2>1, <2>4 DEF Kept
  <2> HIDE DEF body
  <2>8. BodyValue(f, body, s) = f[<<body[j], s>>]
    BY <2>6, <2>7, BodyFacts DEF body
  <2> QED BY <2>3, <2>4, <2>8 DEF body
<1> QED BY <1>1, <1>2

LEMMA SettledLater ==
    ASSUME ConditionsSettled, NEW c, NEW d, Later(c, d), NEW b \in DOMAIN Body, NEW s \in Seq(Nat), Len(s) = Inner(b),
           Ready(c, b, s)
    PROVE  Settled(c, b, s, Replay(d))
<1> SUFFICES ASSUME NEW j \in DOMAIN TakenBody(c, b, s), Clear(c, b, s, j),
                    Replay(c)[<<TakenBody(c, b, s)[j], s>>] # "open"
             PROVE  Replay(d)[<<TakenBody(c, b, s)[j], s>>] = Replay(c)[<<TakenBody(c, b, s)[j], s>>]
  BY DEF Settled
<1>1. PlaceOf(TakenBody(c, b, s)[j], s) /\ Reached(c, TakenBody(c, b, s)[j], s)
  BY ReachedIn
<1> QED BY <1>1, ValueStays

(* Passes before the one the walk is in.                                   *)
LEMMA EarlierReady ==
    ASSUME NEW c, NEW b \in Steps, Kind[b] \in {"repeat", "loop"}, ~Concurrent(b), NEW s \in Seq(Nat), Len(s) = Inner(b),
           Ready(c, b, s), NEW i \in 0..PassIn(b, s) - 1
    PROVE  /\ Append(Upto(s, b), i) \in Seq(Nat) /\ Len(Append(Upto(s, b), i)) = Inner(b)
           /\ Ready(c, b, Append(Upto(s, b), i)) /\ BlockValue(c, b, Append(Upto(s, b), i)) = "done"
<1> DEFINE at == Upto(s, b)
           u == Append(at, i)
<1>0. Consumes(b) /\ b \in DOMAIN Body /\ b # Root
  BY PassesAre, StepIs
<1>1. PassIn(b, s) \in Nat /\ i \in Nat /\ i < PassIn(b, s)
  BY <1>0, BodyPlace
<1>2. u \in Seq(Nat) /\ Len(u) = Inner(b) /\ Upto(u, b) = at /\ PassIn(b, u) = i
  BY <1>0, <1>1, BodyPlace
<1>3. PassOK(c, b, s)
  BY DEF Ready
<1> HIDE DEF u, at
<1>4. BlockValue(c, b, u) = "done"
  <2>1. CASE Kind[b] = "repeat"
    BY <1>3, <2>1 DEF PassOK, u, at
  <2>2. CASE Kind[b] = "loop"
    BY <1>3, <2>2 DEF PassOK, u, at
  <2> QED BY <2>1, <2>2
<1>5. PassOK(c, b, u)
  <2>1. CASE Kind[b] = "repeat"
    <3>1. Count[b] <= MaxItems /\ PassIn(b, s) < Count[b] /\ \A k \in 0..PassIn(b, s) - 1 : BlockValue(c, b, Append(at, k)) = "done"
      BY <1>3, <2>1 DEF PassOK, at
    <3>2. Count[b] \in Nat
      BY <2>1, CountAssumption
    <3>3. i < Count[b] /\ \A k \in 0..i - 1 : BlockValue(c, b, Append(at, k)) = "done"
      BY <1>1, <3>1, <3>2
    <3> QED BY <1>2, <2>1, <3>1, <3>3 DEF PassOK
  <2>2. CASE Kind[b] = "loop"
    <3>1. PassIn(b, s) < Count[b] /\ (Visible(c, Test[b], at) = {} \/ Continues(c, b, at))
          /\ \A k \in 0..PassIn(b, s) - 1 : BlockValue(c, b, Append(at, k)) = "done" /\ Continues(c, b, Append(at, k))
      BY <1>3, <2>2 DEF PassOK, at
    <3>2. Count[b] \in Nat
      BY <2>2, CountAssumption
    <3>3. i < Count[b] /\ \A k \in 0..i - 1 : BlockValue(c, b, Append(at, k)) = "done" /\ Continues(c, b, Append(at, k))
      BY <1>1, <3>1, <3>2
    <3> QED BY <1>2, <2>2, <3>1, <3>3 DEF PassOK
  <2> QED BY <2>1, <2>2
<1>6. Ready(c, b, u)
  BY <1>2, <1>5 DEF Ready, at
<1> QED BY <1>2, <1>4, <1>6 DEF u, at

(* The condition of a block that was reached reads the same later on.      *)
LEMMA SeenStays ==
    ASSUME ConditionsSettled, NEW c, NEW d, Later(c, d), NEW b \in Steps, Kind[b] \in {"if", "loop"},
           NEW at, PlaceOf(b, at), Reached(c, b, at), NEW u,
           u = at \/ (Kind[b] = "loop" /\ \E i \in Nat : u = Append(at, i) /\ BlockValue(c, b, u) = "done")
    PROVE  SeesSame(c, d, b, u)
<1> DEFINE g == Test[b]
<1>1. SUFFICES ASSUME NEW v \in {u, <<>>}, Live(c, g, v) PROVE FALSE
  BY DEF SeesSame, Later
<1>2. at \in Seq(Nat) /\ Len(at) = Depth[b] /\ Upto(at, b) = at /\ b \in Chain(b)
  BY PlaceIs
<1>3. v \in Sights(at)
  BY <1>1 DEF Sights
<1>4. PlaceOf(g, v)
  BY <1>1, LiveIs
<1>5. g \in Steps /\ v \in Seq(Nat) /\ Len(v) = Depth[g]
  BY <1>4, PlaceIs
<1>6. CASE ReadsBefore(b)
  <2>1. PICK x \in Chain(b) : \E k \in DOMAIN Body[Parent[x]] : \E i, j \in DOMAIN Body[Parent[x]][k] :
             i < j /\ Body[Parent[x]][k][j] = x /\ Body[Parent[x]][k][i] \in Chain(g)
    BY <1>6 DEF ReadsBefore
  <2>2. PICK k \in DOMAIN Body[Parent[x]] : \E i, j \in DOMAIN Body[Parent[x]][k] :
             i < j /\ Body[Parent[x]][k][j] = x /\ Body[Parent[x]][k][i] \in Chain(g)
    BY <2>1
  <2>3. PICK i \in DOMAIN Body[Parent[x]][k], j \in DOMAIN Body[Parent[x]][k] :
             i < j /\ Body[Parent[x]][k][j] = x /\ Body[Parent[x]][k][i] \in Chain(g)
    BY <2>2
  <2>4. Depth[x] <= Len(at)
    BY ChainStep
  <2> QED BY <1>1, <1>2, <1>3, <2>3, <2>4, TestEarlier
<1>7. CASE Kind[b] = "loop" /\ b \in Above[g]
  <2>1. Consumes(b) /\ b \in DOMAIN Body /\ Inner(b) = Depth[b] + 1 /\ Depth[b] \in Nat /\ Inner(b) <= Depth[g]
    <3>1. Consumes(b) /\ b \in DOMAIN Body
      BY <1>7, PassesAre
    <3>2. g \in DOMAIN Kind
      BY <1>5, StepIs
    <3> QED BY <1>7, <3>1, <3>2, AboveDepth DEF Inner
  <2>2. v # <<>> /\ v # at
    BY <1>2, <1>5, <2>1
  <2>3. PICK i \in Nat : v = Append(at, i) /\ BlockValue(c, b, v) = "done"
    BY <1>1, <2>2
  <2>4. Len(v) = Inner(b) /\ SubSeq(v, 1, Inner(b)) = v
    <3>1. Len(v) = Inner(b)
      BY <1>2, <2>1, <2>3
    <3> QED BY <1>5, <2>1, <3>1, CutShort
  <2>5. BlockValue(c, b, v) = "open"
    BY <1>1, <1>5, <1>7, <2>4, OpenBody
  <2> QED BY <2>3, <2>5
<1> QED BY <1>6, <1>7 DEF ConditionsSettled

(* A pass the walk may be in stays one, with the same body.                *)
LEMMA PassStays ==
    ASSUME ConditionsSettled, NEW c, NEW d, Later(c, d), NEW b \in DOMAIN Body, NEW s \in Seq(Nat), Len(s) = Inner(b),
           Ready(c, b, s)
    PROVE  PassOK(d, b, s) /\ TakenBody(d, b, s) = TakenBody(c, b, s)
<1> DEFINE at == Upto(s, b)
           p == PassIn(b, s)
<1>1. PassOK(c, b, s)
  BY DEF Ready
<1>2. b # Root => b \in Steps /\ PlaceOf(b, at) /\ Reached(c, b, at)
  BY BlockIs, BodyPlace DEF PlaceOf, Ready
<1>3. Kind[b] # "root" => b # Root
  BY TreeAssumption
<1>4. ASSUME Kind[b] = "if" PROVE TakenBody(d, b, s) = TakenBody(c, b, s)
  <2>1. b # Root /\ s = at
    BY <1>3, <1>4, BodyPlace DEF Consumes
  <2>2. SeesSame(c, d, b, s)
    BY <1>2, <1>4, <2>1, SeenStays
  <2>3. Holds(c, b, s) <=> Holds(d, b, s)
    BY <2>2, SeesIs
  <2> QED BY <1>4, <2>3 DEF TakenBody, Taken
<1>5. Kind[b] # "if" => TakenBody(d, b, s) = TakenBody(c, b, s)
  BY DEF TakenBody, Taken
<1>6. Kind[b] = "retry" => p < Count[b] /\ \A a \in 0..p - 1 : Failed(d.attempt, Attempt(b, at, a))
  BY <1>1 DEF PassOK, Later, Failed
<1>7. ASSUME Concurrent(b) PROVE p \in Items(d, b, at)
  <2>1. p \in Items(c, b, at)
    BY <1>1, <1>7 DEF PassOK
  <2>2. Admitted(c, <<b, at>>) <= Admitted(d, <<b, at>>) /\ Admitted(c, <<b, at>>) \in Nat /\ Admitted(d, <<b, at>>) \in Nat
    BY DEF Later
  <2> QED BY <2>1, <2>2 DEF Items
<1>8. Kind[b] = "repeat" => Count[b] <= MaxItems
  BY <1>1 DEF PassOK
<1> HIDE DEF at, p
<1>9. ASSUME Kind[b] \in {"repeat", "loop"}, ~Concurrent(b), NEW i \in 0..p - 1
      PROVE  BlockValue(d, b, Append(at, i)) = "done"
  <2> DEFINE u == Append(at, i)
  <2>1. b \in Steps
    BY <1>2, <1>3, <1>9
  <2>2. u \in Seq(Nat) /\ Len(u) = Inner(b) /\ Ready(c, b, u) /\ BlockValue(c, b, u) = "done"
    BY <1>9, <2>1, EarlierReady DEF at, p
  <2> HIDE DEF u
  <2>3. Settled(c, b, u, Replay(d))
    BY <2>2, SettledLater
  <2>4. TakenBody(c, b, u) = Body[b][1] /\ TakenBody(d, b, u) = Body[b][1] /\ Body[b][1] \in Seq(Steps)
    BY <1>9, <2>1, PassesAre
  <2>5. BodyValue(Replay(d), TakenBody(c, b, u), u) = "done"
    BY <2>2, <2>3, <2>4, BodySettled
  <2> QED BY <2>4, <2>5 DEF BlockValue, u
<1>10. Kind[b] = "repeat" /\ ~Concurrent(b) => p < Count[b] /\ \A i \in 0..p - 1 : BlockValue(d, b, Append(at, i)) = "done"
  BY <1>1, <1>9 DEF PassOK, at, p
<1>11. ASSUME Kind[b] = "loop"
       PROVE  /\ p < Count[b]
              /\ Visible(d, Test[b], at) = {} \/ Continues(d, b, at)
              /\ \A i \in 0..p - 1 : BlockValue(d, b, Append(at, i)) = "done" /\ Continues(d, b, Append(at, i))
  <2>1. /\ p < Count[b]
        /\ Visible(c, Test[b], at) = {} \/ Continues(c, b, at)
        /\ \A i \in 0..p - 1 : BlockValue(c, b, Append(at, i)) = "done" /\ Continues(c, b, Append(at, i))
    BY <1>1, <1>11 DEF PassOK, at, p
  <2>2. ~Concurrent(b) /\ b \in Steps /\ PlaceOf(b, at) /\ Reached(c, b, at)
    BY <1>2, <1>3, <1>11 DEF Concurrent
  <2>3. Visible(d, Test[b], at) = {} \/ Continues(d, b, at)
    <3>1. SeesSame(c, d, b, at)
      BY <1>11, <2>2, SeenStays
    <3> QED BY <2>1, <3>1, SeesIs
  <2>4. ASSUME NEW i \in 0..p - 1 PROVE BlockValue(d, b, Append(at, i)) = "done" /\ Continues(d, b, Append(at, i))
    <3>0. i \in Nat
      <4>1. p \in Nat
        BY <1>3, <1>11, BodyPlace DEF Consumes, p
      <4> QED BY <2>4, <4>1
    <3>3. BlockValue(c, b, Append(at, i)) = "done"
      BY <2>1, <2>4
    <3>1. SeesSame(c, d, b, Append(at, i))
      BY <1>11, <2>2, <3>0, <3>3, SeenStays
    <3>2. Continues(d, b, Append(at, i))
      BY <2>1, <2>4, <3>1, SeesIs
    <3> QED BY <1>9, <1>11, <2>2, <2>4, <3>2
  <2> QED BY <2>1, <2>3, <2>4
<1>12. PassOK(d, b, s)
  BY <1>6, <1>7, <1>8, <1>10, <1>11 DEF PassOK, at, p
<1> QED BY <1>4, <1>5, <1>12

LEMMA BodyStays ==
    ASSUME ConditionsSettled, NEW c, NEW d, Later(c, d), NEW b \in DOMAIN Body, NEW s \in Seq(Nat), Len(s) = Inner(b),
           Ready(c, b, s)
    PROVE  /\ \A j \in Nat : j <= Len(TakenBody(c, b, s)) + 1 /\ Clear(c, b, s, j) => Clear(d, b, s, j)
           /\ BlockValue(c, b, s) # "open" => BlockValue(d, b, s) = BlockValue(c, b, s)
<1>1. Settled(c, b, s, Replay(d)) /\ TakenBody(d, b, s) = TakenBody(c, b, s)
  BY SettledLater, PassStays
<1>2. TakenBody(c, b, s) \in Seq(Steps)
  BY TakenIs DEF Ready
<1>3. ASSUME NEW j \in Nat, j <= Len(TakenBody(c, b, s)) + 1, Clear(c, b, s, j) PROVE Clear(d, b, s, j)
  <2>1. \A i \in 1..j - 1 : Kept(Replay(d), TakenBody(c, b, s)[i], s)
    BY <1>1, <1>2, <1>3, ClearKept
  <2> QED BY <1>1, <2>1 DEF Clear
<1>4. BlockValue(c, b, s) # "open" => BlockValue(d, b, s) = BlockValue(c, b, s)
  BY <1>1, <1>2, BodySettled DEF BlockValue
<1> QED BY <1>3, <1>4

(* A step that was reached stays so.                                       *)
LEMMA ReachedStays ==
    ASSUME ConditionsSettled, NEW c, NEW d, Later(c, d), NEW n, NEW s, PlaceOf(n, s), Reached(c, n, s)
    PROVE  Reached(d, n, s)
<1> SUFFICES ASSUME NEW x \in Chain(n) PROVE InOrder(d, x, Upto(s, x))
  BY DEF Reached
<1> DEFINE u == Upto(s, x)
           b == Parent[x]
<1>1. Ready(c, b, u) /\ InOrder(c, x, u)
  BY ReachedUp
<1>2. b \in DOMAIN Body /\ u \in Seq(Nat) /\ Len(u) = Inner(b)
  <2>1. PlaceOf(x, u)
    BY ChainStep
  <2> QED BY <2>1, PlaceIs
<1> HIDE DEF b, u
<1>3. PICK j \in DOMAIN TakenBody(c, b, u) : TakenBody(c, b, u)[j] = x /\ Clear(c, b, u, j)
  BY <1>1 DEF InOrder, b
<1>4. PassOK(d, b, u) /\ TakenBody(d, b, u) = TakenBody(c, b, u)
  BY <1>1, <1>2, PassStays
<1>5. j \in Nat /\ j <= Len(TakenBody(c, b, u)) + 1
  <2>1. TakenBody(c, b, u) \in Seq(Steps)
    BY <1>1, <1>2, TakenIs DEF Ready
  <2> QED BY <2>1
<1>6. Clear(d, b, u, j)
  BY <1>1, <1>2, <1>3, <1>5, BodyStays
<1> QED BY <1>3, <1>4, <1>6 DEF InOrder, b, u

LEMMA ReadyStays ==
    ASSUME ConditionsSettled, NEW c, NEW d, Later(c, d), NEW b \in DOMAIN Body, NEW s \in Seq(Nat), Len(s) = Inner(b),
           Ready(c, b, s)
    PROVE  Ready(d, b, s)
<1>1. PassOK(d, b, s)
  BY PassStays
<1>2. b = Root \/ Reached(d, b, Upto(s, b))
  <2> SUFFICES ASSUME b # Root PROVE Reached(d, b, Upto(s, b))
    OBVIOUS
  <2>1. PlaceOf(b, Upto(s, b)) /\ Reached(c, b, Upto(s, b))
    BY BlockIs, BodyPlace DEF PlaceOf, Ready
  <2> QED BY <2>1, ReachedStays
<1> QED BY <1>1, <1>2 DEF Ready

LEMMA MeansCases ==
    ASSUME NEW c, NEW n \in Steps, NEW s \in Seq(Nat)
    PROVE  /\ Leaf(n)            => Means(c)[<<n, s>>] = LeafValue(c, n, s)
           /\ Kind[n] = "break"  => Means(c)[<<n, s>>] = "broke"
           /\ Kind[n] = "if"     => Means(c)[<<n, s>>] = BodyValue(Means(c), Body[n][IF Holds(c, n, s) THEN 1 ELSE 2], s)
           /\ Kind[n] = "retry"  => Means(c)[<<n, s>>] = RetryValue(Means(c), n, s)
           /\ Kind[n] = "loop"   => Means(c)[<<n, s>>] = LoopValue(c, Means(c), n, s)
           /\ Concurrent(n)      => Means(c)[<<n, s>>] = ConcurrentValue(Means(c), n, s)
           /\ Kind[n] = "repeat" /\ ~Concurrent(n) => Means(c)[<<n, s>>] = RepeatValue(Means(c), n, s)
<1>1. Means(c)[<<n, s>>] = StepValue(c, Means(c), n, s)
  BY MeansIs
<1> QED BY <1>1, StepValueIs

(* The first pass that ends a repeat or a loop is the same in two readings *)
(* that agree on every pass before it and on it.                           *)
Ends(k, v, go) == {i \in 0..k - 1 : v[i] # "done" \/ i \notin go}
Follows(k, v, w, go) ==
    \A p \in 0..k - 1 : (\A i \in 0..p - 1 : v[i] = "done" /\ i \in go) /\ v[p] # "open" => w[p] = v[p]

LEMMA EndsSame ==
    ASSUME NEW k \in Nat, NEW v, NEW w, NEW go, Follows(k, v, w, go),
           Ends(k, v, go) = {} \/ v[Min(Ends(k, v, go))] # "open"
    PROVE  /\ Ends(k, v, go) = {} <=> Ends(k, w, go) = {}
           /\ Ends(k, v, go) # {} => Min(Ends(k, w, go)) = Min(Ends(k, v, go))
                                    /\ w[Min(Ends(k, v, go))] = v[Min(Ends(k, v, go))]
<1> DEFINE ev == {i \in 0..k - 1 : v[i] # "done" \/ i \notin go}
           ew == {i \in 0..k - 1 : w[i] # "done" \/ i \notin go}
<1>0. /\ Ends(k, v, go) = ev /\ Ends(k, w, go) = ew
      /\ \A p \in 0..k - 1 : (\A i \in 0..p - 1 : v[i] = "done" /\ i \in go) /\ v[p] # "open" => w[p] = v[p]
  BY DEF Ends, Follows
<1>1. ASSUME ev = {} PROVE ew = {}
  <2>1. \A i \in 0..k - 1 : v[i] = "done" /\ i \in go
    BY <1>1
  <2>2. \A i \in 0..k - 1 : w[i] = "done"
    <3> SUFFICES ASSUME NEW p \in 0..k - 1 PROVE w[p] = v[p]
      BY <2>1
    <3>1. \A i \in 0..p - 1 : i \in 0..k - 1
      OBVIOUS
    <3> QED BY <1>0, <2>1, <3>1
  <2> QED BY <2>1, <2>2
<1>2. ASSUME ev # {} PROVE ew # {} /\ Min(ew) = Min(ev) /\ w[Min(ev)] = v[Min(ev)]
  <2> DEFINE p == Min(ev)
  <2>1. p \in ev /\ \A u \in ev : p <= u
    BY <1>2, MinIs
  <2> HIDE DEF p
  <2>2. p \in 0..k - 1
    BY <2>1
  <2>3. \A i \in 0..p - 1 : i \in 0..k - 1 /\ i \notin ev
    BY <2>1, <2>2
  <2>4. \A i \in 0..p - 1 : v[i] = "done" /\ i \in go
    BY <2>3
  <2>5. w[p] = v[p]
    BY <1>0, <1>2, <2>2, <2>4 DEF p
  <2>6. \A i \in 0..p - 1 : w[i] = "done"
    <3> SUFFICES ASSUME NEW q \in 0..p - 1 PROVE w[q] = v[q]
      BY <2>4
    <3>1. q \in 0..k - 1 /\ \A i \in 0..q - 1 : i \in 0..p - 1
      BY <2>2
    <3> QED BY <1>0, <2>4, <3>1
  <2>7. p \in ew
    BY <2>1, <2>5
  <2>8. \A i \in 0..p - 1 : i \notin ew
    BY <2>4, <2>6
  <2>9. ew \subseteq 0..k - 1
    OBVIOUS
  <2>10. ew # {} /\ Min(ew) = p
    BY <2>2, <2>7, <2>8, <2>9, FirstIs
  <2> QED BY <2>5, <2>10 DEF p
<1> HIDE DEF ev, ew
<1> QED BY <1>0, <1>1, <1>2

-----------------------------------------------------------------------------
(* The walk's reading of a checkpoint (Replay) against its meaning         *)
(* (Means).                                                                *)

LEMMA MeansSettled ==
    ASSUME NEW c, NEW b \in DOMAIN Body, \A k \in Steps : Parent[k] = b => Faithful(c, k),
           NEW s \in Seq(Nat), Len(s) = Inner(b), Ready(c, b, s)
    PROVE  TakenBody(c, b, s) \in Seq(Steps) /\ Settled(c, b, s, Means(c))
<1>1. TakenBody(c, b, s) \in Seq(Steps)
  BY TakenIs DEF Ready
<1>2. ASSUME NEW j \in DOMAIN TakenBody(c, b, s), Clear(c, b, s, j),
             Replay(c)[<<TakenBody(c, b, s)[j], s>>] # "open"
      PROVE  Means(c)[<<TakenBody(c, b, s)[j], s>>] = Replay(c)[<<TakenBody(c, b, s)[j], s>>]
  <2>1. PlaceOf(TakenBody(c, b, s)[j], s) /\ Parent[TakenBody(c, b, s)[j]] = b /\ Reached(c, TakenBody(c, b, s)[j], s)
    BY <1>2, ReachedIn
  <2>2. Faithful(c, TakenBody(c, b, s)[j])
    BY <2>1, PlaceIs
  <2> QED BY <1>2, <2>1, <2>2 DEF Faithful
<1> QED BY <1>1, <1>2 DEF Settled

LEMMA BodyMeans ==
    ASSUME NEW c, NEW b \in DOMAIN Body, \A k \in Steps : Parent[k] = b => Faithful(c, k),
           NEW s \in Seq(Nat), Len(s) = Inner(b), Ready(c, b, s), BlockValue(c, b, s) # "open"
    PROVE  BodyValue(Means(c), TakenBody(c, b, s), s) = BlockValue(c, b, s)
  BY MeansSettled, BodySettled

(* The pass with number i of a block that was reached.                     *)
LEMMA PassAt ==
    ASSUME NEW c, NEW b, NEW at, PlaceOf(b, at), Reached(c, b, at), b \in DOMAIN Body, Consumes(b), NEW i \in Nat
    PROVE  /\ Append(at, i) \in Seq(Nat) /\ Len(Append(at, i)) = Inner(b)
           /\ Upto(Append(at, i), b) = at /\ PassIn(b, Append(at, i)) = i
           /\ PassOK(c, b, Append(at, i)) => Ready(c, b, Append(at, i))
<1>1. at \in Seq(Nat) /\ Len(at) = Depth[b] /\ Depth[b] \in Nat /\ Inner(b) = Depth[b] + 1
  BY PlaceIs, BlockIs DEF Inner
<1> DEFINE u == Append(at, i)
<1>2. u \in Seq(Nat) /\ Len(u) = Depth[b] + 1 /\ u[Depth[b] + 1] = i
  BY <1>1
<1>3. SubSeq(u, 1, Depth[b]) = at
  BY <1>1, CutShort
<1>4. Upto(u, b) = at /\ PassIn(b, u) = i
  BY <1>2, <1>3 DEF Upto, PassIn
<1> HIDE DEF u
<1>5. PassOK(c, b, u) => Ready(c, b, u)
  BY <1>4 DEF Ready
<1> QED BY <1>1, <1>2, <1>4, <1>5 DEF u

LEMMA RepeatMeans ==
    ASSUME NEW c, NEW b, \A k \in Steps : Parent[k] = b => Faithful(c, k),
           NEW at, PlaceOf(b, at), Reached(c, b, at), Kind[b] = "repeat", ~Concurrent(b),
           Replay(c)[<<b, at>>] # "open"
    PROVE  Means(c)[<<b, at>>] = Replay(c)[<<b, at>>]
<1> DEFINE k == Count[b]
           v == PassValues(Replay(c), b, at)
           w == PassValues(Means(c), b, at)
           ev == {i \in 0..k - 1 : v[i] # "done"}
           ew == {i \in 0..k - 1 : w[i] # "done"}
<1>1. b \in Steps /\ at \in Seq(Nat) /\ MaxItems \in Nat
  BY PlaceIs, CountAssumption
<1>2. b \in DOMAIN Body /\ Consumes(b) /\ k \in Nat /\ DOMAIN v = 0..k - 1 /\ DOMAIN w = 0..k - 1
      /\ \A i \in 0..k - 1 : v[i] = BlockValue(c, b, Append(at, i)) /\ w[i] = BodyValue(Means(c), Body[b][1], Append(at, i))
  BY <1>1, PassesAre
<1>3. Replay(c)[<<b, at>>] = IF k > MaxItems THEN "failed" ELSE IF ev = {} THEN "done" ELSE Outcome(v[Min(ev)])
  <2>1. Replay(c)[<<b, at>>] = RepeatValue(Replay(c), b, at)
    BY <1>1, ReplayCases
  <2> QED BY <1>2, <2>1 DEF RepeatValue
<1>4. Means(c)[<<b, at>>] = IF k > MaxItems THEN "failed" ELSE IF ew = {} THEN "done" ELSE Outcome(w[Min(ew)])
  <2>1. Means(c)[<<b, at>>] = RepeatValue(Means(c), b, at)
    BY <1>1, MeansCases
  <2> QED BY <1>2, <2>1 DEF RepeatValue
<1> HIDE DEF v, w
<1>5. CASE k > MaxItems
  BY <1>3, <1>4, <1>5
<1>6. CASE ~(k > MaxItems)
  <2>1. ev = {} \/ v[Min(ev)] # "open"
    BY <1>3, <1>6 DEF Outcome
  <2>2. ASSUME NEW p \in 0..k - 1, \A i \in 0..p - 1 : v[i] = "done", v[p] # "open" PROVE w[p] = v[p]
    <3>1. p \in Nat
      BY <1>2
    <3>2. PassIn(b, Append(at, p)) = p /\ Upto(Append(at, p), b) = at
      BY <1>2, <3>1, PassAt
    <3>3. \A i \in 0..p - 1 : BlockValue(c, b, Append(at, i)) = "done"
      BY <1>2, <2>2
    <3>4. PassOK(c, b, Append(at, p))
      BY <1>1, <1>2, <1>6, <3>2, <3>3 DEF PassOK
    <3>5. Append(at, p) \in Seq(Nat) /\ Len(Append(at, p)) = Inner(b) /\ Ready(c, b, Append(at, p))
      BY <1>2, <3>1, <3>4, PassAt
    <3>6. BlockValue(c, b, Append(at, p)) # "open" /\ TakenBody(c, b, Append(at, p)) = Body[b][1]
      BY <1>1, <1>2, <2>2, PassesAre
    <3>7. BodyValue(Means(c), TakenBody(c, b, Append(at, p)), Append(at, p)) = BlockValue(c, b, Append(at, p))
      BY <1>2, <3>5, <3>6, BodyMeans
    <3> QED BY <1>2, <3>6, <3>7
  <2>3. /\ ev = {} <=> ew = {}
        /\ ev # {} => Min(ew) = Min(ev) /\ w[Min(ev)] = v[Min(ev)]
    <3>1. ev = Ends(k, v, 0..k - 1) /\ ew = Ends(k, w, 0..k - 1)
      BY DEF Ends
    <3>2. Follows(k, v, w, 0..k - 1)
      BY <2>2 DEF Follows
    <3> HIDE DEF ev, ew, k
    <3> QED BY <1>2, <2>1, <3>1, <3>2, EndsSame
  <2> HIDE DEF ev, ew, k
  <2> QED BY <1>3, <1>4, <2>3
<1> QED BY <1>5, <1>6

LEMMA LoopMeans ==
    ASSUME NEW c, NEW b, \A k \in Steps : Parent[k] = b => Faithful(c, k),
           NEW at, PlaceOf(b, at), Reached(c, b, at), Kind[b] = "loop",
           Replay(c)[<<b, at>>] # "open"
    PROVE  Means(c)[<<b, at>>] = Replay(c)[<<b, at>>]
<1> DEFINE k == Count[b]
           v == PassValues(Replay(c), b, at)
           w == PassValues(Means(c), b, at)
           stop == Visible(c, Test[b], at) # {} /\ ~Continues(c, b, at)
           go == {i \in Nat : ~(i + 1 < k /\ ~Continues(c, b, Append(at, i)))}
           ev == {i \in 0..k - 1 : v[i] # "done" \/ i \notin go}
           ew == {i \in 0..k - 1 : w[i] # "done" \/ i \notin go}
<1>1. b \in Steps /\ at \in Seq(Nat)
  BY PlaceIs
<1>2. b \in DOMAIN Body /\ Consumes(b) /\ k \in Nat /\ DOMAIN v = 0..k - 1 /\ DOMAIN w = 0..k - 1
      /\ \A i \in 0..k - 1 : v[i] = BlockValue(c, b, Append(at, i)) /\ w[i] = BodyValue(Means(c), Body[b][1], Append(at, i))
  BY <1>1, PassesAre
<1>0. ev = {i \in DOMAIN v : v[i] # "done" \/ (i + 1 < Count[b] /\ ~Continues(c, b, Append(at, i)))}
      /\ ew = {i \in DOMAIN w : w[i] # "done" \/ (i + 1 < Count[b] /\ ~Continues(c, b, Append(at, i)))}
  <2>1. 0..k - 1 \subseteq Nat
    BY <1>2
  <2> HIDE DEF v, w
  <2> QED BY <1>2, <2>1
<1>3. Replay(c)[<<b, at>>] = IF stop THEN "done" ELSE IF ev = {} THEN "failed" ELSE Outcome(v[Min(ev)])
  <2>1. Replay(c)[<<b, at>>] = LoopValue(c, Replay(c), b, at)
    BY <1>1, ReplayCases
  <2>2. LoopValue(c, Replay(c), b, at) = IF stop THEN "done" ELSE
          LET ends == {i \in DOMAIN v : v[i] # "done" \/ (i + 1 < Count[b] /\ ~Continues(c, b, Append(at, i)))}
          IN IF ends = {} THEN "failed" ELSE Outcome(v[Min(ends)])
    BY DEF LoopValue
  <2> HIDE DEF v, w, stop, ev, ew
  <2> QED BY <1>0, <2>1, <2>2
<1>4. Means(c)[<<b, at>>] = IF stop THEN "done" ELSE IF ew = {} THEN "failed" ELSE Outcome(w[Min(ew)])
  <2>1. Means(c)[<<b, at>>] = LoopValue(c, Means(c), b, at)
    BY <1>1, MeansCases
  <2>2. LoopValue(c, Means(c), b, at) = IF stop THEN "done" ELSE
          LET ends == {i \in DOMAIN w : w[i] # "done" \/ (i + 1 < Count[b] /\ ~Continues(c, b, Append(at, i)))}
          IN IF ends = {} THEN "failed" ELSE Outcome(w[Min(ends)])
    BY DEF LoopValue
  <2> HIDE DEF v, w, stop, ev, ew
  <2> QED BY <1>0, <2>1, <2>2
<1> HIDE DEF v, w
<1>5. CASE stop
  BY <1>3, <1>4, <1>5
<1>6. CASE ~stop
  <2>1. ev = {} \/ v[Min(ev)] # "open"
    <3> HIDE DEF ev, stop
    <3> QED BY <1>3, <1>6 DEF Outcome
  <2>2. ASSUME NEW p \in 0..k - 1, \A i \in 0..p - 1 : v[i] = "done" /\ i \in go, v[p] # "open" PROVE w[p] = v[p]
    <3>1. p \in Nat /\ p < k
      BY <1>2
    <3>2. PassIn(b, Append(at, p)) = p /\ Upto(Append(at, p), b) = at
      BY <1>2, <3>1, PassAt
    <3>3. \A i \in 0..p - 1 : BlockValue(c, b, Append(at, i)) = "done"
      BY <1>2, <2>2
    <3>4. \A i \in 0..p - 1 : Continues(c, b, Append(at, i))
      BY <1>2, <2>2, <3>1
    <3>8. Visible(c, Test[b], at) = {} \/ Continues(c, b, at)
      BY <1>6
    <3>9. PassOK(c, b, Append(at, p))
      BY <1>1, <1>2, <3>1, <3>2, <3>3, <3>4, <3>8 DEF PassOK, Concurrent
    <3>5. Append(at, p) \in Seq(Nat) /\ Len(Append(at, p)) = Inner(b) /\ Ready(c, b, Append(at, p))
      BY <1>2, <3>1, <3>9, PassAt
    <3>6. BlockValue(c, b, Append(at, p)) # "open" /\ TakenBody(c, b, Append(at, p)) = Body[b][1]
      BY <1>1, <1>2, <2>2, PassesAre
    <3>7. BodyValue(Means(c), TakenBody(c, b, Append(at, p)), Append(at, p)) = BlockValue(c, b, Append(at, p))
      BY <1>2, <3>5, <3>6, BodyMeans
    <3> QED BY <1>2, <3>6, <3>7
  <2>3. /\ ev = {} <=> ew = {}
        /\ ev # {} => Min(ew) = Min(ev) /\ w[Min(ev)] = v[Min(ev)]
    <3>1. ev = Ends(k, v, go) /\ ew = Ends(k, w, go)
      BY DEF Ends
    <3>2. Follows(k, v, w, go)
      BY <2>2 DEF Follows
    <3> HIDE DEF ev, ew, k, go
    <3> QED BY <1>2, <2>1, <3>1, <3>2, EndsSame
  <2> HIDE DEF ev, ew, k, go, stop
  <2> QED BY <1>3, <1>4, <2>3
<1> QED BY <1>5, <1>6

(* What an attempt's marker or a branch's marker says of its body.         *)
LEMMA AttemptTrue ==
    ASSUME NEW c, AttemptsTrue(c), NEW b, NEW at, NEW a, Attempt(b, at, a) \in DOMAIN c.attempt
    PROVE  /\ Ready(c, b, Append(at, a))
           /\ BlockValue(c, b, Append(at, a)) = IF Failed(c.attempt, Attempt(b, at, a)) THEN "failed"
                                                ELSE Verdict(c.attempt[Attempt(b, at, a)])
<1> DEFINE key == Attempt(b, at, a)
<1>1. key[1] = b /\ key[2] = a /\ key[3] = at
  BY DEF Attempt
<1>2. True(c, key[1], Append(key[3], key[2]), c.attempt[key])
  BY DEF AttemptsTrue
<1> HIDE DEF key
<1>3. True(c, b, Append(at, a), c.attempt[key])
  BY <1>1, <1>2
<1>4. Failed(c.attempt, key) => Verdict(c.attempt[key]) = "failed"
  BY DEF Failed, Verdict
<1> QED BY <1>3, <1>4 DEF True, key

LEMMA BranchTrue ==
    ASSUME NEW c, BranchesTrue(c), NEW b, NEW s, Branch(b, s) \in DOMAIN c.branch
    PROVE  /\ Ready(c, b, s)
           /\ BlockValue(c, b, s) = IF Failed(c.branch, Branch(b, s)) THEN "failed" ELSE Verdict(c.branch[Branch(b, s)])
<1> DEFINE key == Branch(b, s)
<1>1. key[1] = b /\ key[2] = s
  BY DEF Branch
<1>2. True(c, key[1], key[2], c.branch[key])
  BY DEF BranchesTrue
<1> HIDE DEF key
<1>3. True(c, b, s, c.branch[key])
  BY <1>1, <1>2
<1>4. Failed(c.branch, key) => Verdict(c.branch[key]) = "failed"
  BY DEF Failed, Verdict
<1> QED BY <1>3, <1>4 DEF True, key

LEMMA RetryMeans ==
    ASSUME NEW c, CpOK(c), AttemptsTrue(c), NEW b, \A k \in Steps : Parent[k] = b => Faithful(c, k),
           NEW at, PlaceOf(b, at), Reached(c, b, at), Kind[b] = "retry",
           Replay(c)[<<b, at>>] # "open"
    PROVE  Means(c)[<<b, at>>] = Replay(c)[<<b, at>>]
<1> DEFINE k == Count[b]
           w == PassValues(Means(c), b, at)
           tried == {a \in 0..k - 1 : w[a] # "failed"}
           open == {a \in 0..k - 1 : ~Failed(c.attempt, Attempt(b, at, a))}
<1>1. b \in Steps /\ at \in Seq(Nat)
  BY PlaceIs
<1>2. b \in DOMAIN Body /\ Consumes(b) /\ k \in Nat /\ DOMAIN w = 0..k - 1
      /\ \A i \in 0..k - 1 : w[i] = BodyValue(Means(c), Body[b][1], Append(at, i))
      /\ \A u : TakenBody(c, b, u) = Body[b][1] /\ BlockValue(c, b, u) = BodyValue(Replay(c), Body[b][1], u)
  <2>1. b \in DOMAIN Body /\ Consumes(b) /\ k \in Nat /\ DOMAIN w = 0..k - 1
    BY <1>1, PassesAre
  <2>2. \A i \in 0..k - 1 : w[i] = BodyValue(Means(c), Body[b][1], Append(at, i))
    BY <1>1, PassesAre
  <2>3. \A u : TakenBody(c, b, u) = Body[b][1] /\ BlockValue(c, b, u) = BodyValue(Replay(c), Body[b][1], u)
    BY <1>1, PassesAre
  <2> QED BY <2>1, <2>2, <2>3
<1>3. Means(c)[<<b, at>>] = IF tried = {} THEN "failed" ELSE w[Min(tried)]
  <2>1. Means(c)[<<b, at>>] = RetryValue(Means(c), b, at)
    BY <1>1, MeansCases
  <2> QED BY <1>2, <2>1 DEF RetryValue
<1> HIDE DEF w, k
<1>4. ASSUME NEW a \in 0..k - 1, Ready(c, b, Append(at, a)), BlockValue(c, b, Append(at, a)) # "open"
      PROVE  w[a] = BlockValue(c, b, Append(at, a))
  <2>1. a \in Nat
    BY <1>2
  <2>2. Append(at, a) \in Seq(Nat) /\ Len(Append(at, a)) = Inner(b)
    BY <1>2, <2>1, PassAt
  <2>3. BodyValue(Means(c), TakenBody(c, b, Append(at, a)), Append(at, a)) = BlockValue(c, b, Append(at, a))
    BY <1>2, <1>4, <2>2, BodyMeans
  <2> QED BY <1>2, <2>3
<1>5. ASSUME NEW a \in 0..k - 1, Failed(c.attempt, Attempt(b, at, a)) PROVE w[a] = "failed"
  <2>1. Ready(c, b, Append(at, a)) /\ BlockValue(c, b, Append(at, a)) = "failed"
    BY <1>5, AttemptTrue DEF Failed
  <2> QED BY <1>4, <2>1
<1>6. CASE open = {}
  <2>1. \A a \in 0..k - 1 : Failed(c.attempt, Attempt(b, at, a))
    BY <1>6
  <2>2. Replay(c)[<<b, at>>] = "failed"
    BY <1>1, <2>1, AttemptsSpent DEF k
  <2>3. tried = {}
    BY <1>5, <2>1
  <2> HIDE DEF tried
  <2> QED BY <1>3, <2>2, <2>3
<1>7. CASE open # {}
  <2>1. PICK p \in 0..k - 1 : ~Failed(c.attempt, Attempt(b, at, p)) /\ \A a \in 0..p - 1 : Failed(c.attempt, Attempt(b, at, a))
    <3> DEFINE p == Min(open)
    <3>1. open \subseteq Nat
      BY <1>2
    <3>2. p \in open /\ \A u \in open : p <= u
      BY <1>7, <3>1, MinIs
    <3> HIDE DEF p
    <3>3. \A a \in 0..p - 1 : a \in 0..k - 1 /\ a \notin open
      BY <1>2, <3>2
    <3> QED BY <3>2, <3>3
  <2>2. p \in Nat /\ p < k /\ \A a \in 0..p - 1 : a \in 0..k - 1
    BY <1>2
  <2>3. Replay(c)[<<b, at>>] = IF Attempt(b, at, p) \in DOMAIN c.attempt THEN "done"
                               ELSE IF BodyValue(Replay(c), Body[b][1], Append(at, p)) = "broke" THEN "broke" ELSE "open"
    BY <1>1, <2>1, AttemptDecides DEF k
  <2>4. ASSUME Attempt(b, at, p) \in DOMAIN c.attempt PROVE w[p] = "done"
    <3>1. c.attempt[Attempt(b, at, p)] = "succeeded"
      BY <2>1, <2>4 DEF CpOK, Failed, Verdicts
    <3>2. Ready(c, b, Append(at, p)) /\ BlockValue(c, b, Append(at, p)) = "done"
      BY <2>1, <2>4, <3>1, AttemptTrue DEF Verdict
    <3> QED BY <1>4, <3>2
  <2>5. ASSUME BodyValue(Replay(c), Body[b][1], Append(at, p)) = "broke" PROVE w[p] = "broke"
    <3>1. PassIn(b, Append(at, p)) = p /\ Upto(Append(at, p), b) = at
      BY <1>2, <2>2, PassAt
    <3>2. PassOK(c, b, Append(at, p))
      BY <2>1, <2>2, <3>1 DEF PassOK, Concurrent, k
    <3>3. Ready(c, b, Append(at, p)) /\ BlockValue(c, b, Append(at, p)) = "broke"
      BY <1>2, <2>2, <2>5, <3>2, PassAt
    <3> QED BY <1>4, <3>3
  <2>6. w[p] = Replay(c)[<<b, at>>] /\ w[p] # "failed"
    BY <2>3, <2>4, <2>5
  <2>7. p \in tried /\ tried \subseteq 0..k - 1 /\ \A i \in 0..p - 1 : i \notin tried
    BY <1>5, <2>1, <2>2, <2>6
  <2> HIDE DEF tried
  <2>8. tried # {} /\ Min(tried) = p
    BY <1>2, <2>7, FirstIs
  <2> QED BY <1>3, <2>6, <2>8
<1> QED BY <1>6, <1>7

LEMMA ItemsAre ==
    ASSUME NEW c, CpOK(c), NEW b \in Steps, Concurrent(b), NEW at
    PROVE  /\ b \in DOMAIN Body /\ Consumes(b) /\ Items(c, b, at) \subseteq Nat
           /\ Kind[b] = "parallel" => Items(c, b, at) = 0..Len(Body[b]) - 1 /\ Len(Body[b]) \in Nat
           /\ Kind[b] = "repeat" => Items(c, b, at) \subseteq 0..Count[b] - 1 /\ Count[b] \in Nat
           /\ \A u : TakenBody(c, b, u) = Body[b][IF Kind[b] = "parallel" THEN PassIn(b, u) + 1 ELSE 1]
<1>1. b \in DOMAIN Kind /\ b # Root
  BY StepIs
<1>2. b \in DOMAIN Body /\ Consumes(b)
  BY <1>1, TreeAssumption DEF Concurrent, Leaf, LeafKinds, Consumes
<1>3. Body[b] \in Seq(Seq(Steps))
  BY <1>2, TreeAssumption
<1>4. Kind[b] = "parallel" \/ Kind[b] = "repeat"
  BY DEF Concurrent
<1>5. Kind[b] = "repeat" => Count[b] \in Nat
  BY CountAssumption
<1>6. Admitted(c, <<b, at>>) \in Nat
  BY AdmittedIs
<1>7. Kind[b] = "repeat" => Admitted(c, <<b, at>>) <= Count[b]
  <2> SUFFICES ASSUME Kind[b] = "repeat" PROVE Admitted(c, <<b, at>>) <= Count[b]
    OBVIOUS
  <2>1. CASE <<b, at>> \in DOMAIN c.admitted
    <3>1. c.admitted[<<b, at>>] \in 1..Count[<<b, at>>[1]]
      BY <2>1 DEF CpOK
    <3> QED BY <1>5, <2>1, <3>1 DEF Admitted
  <2>2. CASE <<b, at>> \notin DOMAIN c.admitted
    BY <1>5, <2>2 DEF Admitted
  <2> QED BY <2>1, <2>2
<1>8. Kind[b] = "parallel" => Items(c, b, at) = 0..Len(Body[b]) - 1 /\ Len(Body[b]) \in Nat
  BY <1>3 DEF Items
<1>9. Kind[b] = "repeat" => Items(c, b, at) \subseteq 0..Count[b] - 1 /\ Count[b] \in Nat
  BY <1>5, <1>6, <1>7 DEF Items
<1>10. \A u : TakenBody(c, b, u) = Body[b][IF Kind[b] = "parallel" THEN PassIn(b, u) + 1 ELSE 1]
  BY <1>4 DEF TakenBody, Taken
<1> QED BY <1>2, <1>4, <1>8, <1>9, <1>10

LEMMA ConcurrentMeans ==
    ASSUME NEW c, CpOK(c), BranchesTrue(c), NEW b, \A k \in Steps : Parent[k] = b => Faithful(c, k),
           NEW at, PlaceOf(b, at), Reached(c, b, at), Concurrent(b),
           Replay(c)[<<b, at>>] # "open"
    PROVE  Means(c)[<<b, at>>] = Replay(c)[<<b, at>>]
<1> DEFINE over == Kind[b] = "repeat" /\ Count[b] > MaxItems
           items == Items(c, b, at)
           w == BranchValues(Means(c), b, at)
<1>1. b \in Steps /\ at \in Seq(Nat)
  BY PlaceIs
<1>2. /\ b \in DOMAIN Body /\ Consumes(b) /\ items \subseteq Nat
      /\ Kind[b] = "parallel" => items = 0..Len(Body[b]) - 1 /\ Len(Body[b]) \in Nat
      /\ Kind[b] = "repeat" => items \subseteq 0..Count[b] - 1 /\ Count[b] \in Nat
      /\ \A u : TakenBody(c, b, u) = Body[b][IF Kind[b] = "parallel" THEN PassIn(b, u) + 1 ELSE 1]
  BY <1>1, ItemsAre
<1>3. Replay(c)[<<b, at>>] =
        IF over THEN "failed"
        ELSE IF \E i \in items : Branch(b, Append(at, i)) \notin DOMAIN c.branch THEN "open"
        ELSE IF \E i \in items : Failed(c.branch, Branch(b, Append(at, i))) THEN "failed"
        ELSE IF Kind[b] = "parallel" \/ Admitted(c, <<b, at>>) = Count[b] THEN "done"
        ELSE "open"
  <2>1. Replay(c)[<<b, at>>] = ConcurrentReplay(c, b, at)
    BY <1>1, ReplayCases
  <2> QED BY <2>1 DEF ConcurrentReplay
<1>4. Means(c)[<<b, at>>] = IF over \/ "failed" \in Range(w) THEN "failed"
                            ELSE IF Range(w) \subseteq {"done"} THEN "done" ELSE "open"
  <2>1. Means(c)[<<b, at>>] = ConcurrentValue(Means(c), b, at)
    BY <1>1, MeansCases
  <2> QED BY <2>1 DEF ConcurrentValue
<1>5. Kind[b] = "parallel" \/ Kind[b] = "repeat"
  BY DEF Concurrent
<1>6. ASSUME NEW i \in items, Branch(b, Append(at, i)) \in DOMAIN c.branch
      PROVE  /\ i \in DOMAIN w
             /\ w[i] = IF Failed(c.branch, Branch(b, Append(at, i))) THEN "failed" ELSE "done"
  <2>1. i \in Nat
    BY <1>2
  <2>2. Append(at, i) \in Seq(Nat) /\ Len(Append(at, i)) = Inner(b) /\ PassIn(b, Append(at, i)) = i
    BY <1>2, <2>1, PassAt
  <2>3. Ready(c, b, Append(at, i))
        /\ BlockValue(c, b, Append(at, i)) = IF Failed(c.branch, Branch(b, Append(at, i))) THEN "failed" ELSE "done"
    <3>1. c.branch[Branch(b, Append(at, i))] \in Verdicts
      BY <1>6 DEF CpOK
    <3> QED BY <1>6, <3>1, BranchTrue DEF Verdicts, Verdict, Failed
  <2>4. BodyValue(Means(c), TakenBody(c, b, Append(at, i)), Append(at, i)) = BlockValue(c, b, Append(at, i))
    BY <1>2, <2>2, <2>3, BodyMeans
  <2>5. CASE Kind[b] = "parallel"
    <3>1. w = [j \in 0..Len(Body[b]) - 1 |-> BodyValue(Means(c), Body[b][j + 1], Append(at, j))]
      BY <2>5 DEF BranchValues
    <3>2. i \in DOMAIN w /\ w[i] = BodyValue(Means(c), Body[b][i + 1], Append(at, i))
      BY <1>2, <1>6, <2>5, <3>1
    <3>3. TakenBody(c, b, Append(at, i)) = Body[b][i + 1]
      BY <1>2, <2>2, <2>5
    <3> HIDE DEF w
    <3> QED BY <2>3, <2>4, <3>2, <3>3
  <2>6. CASE Kind[b] = "repeat"
    <3>1. w = PassValues(Means(c), b, at)
      BY <2>6 DEF BranchValues
    <3>2. i \in 0..Count[b] - 1
      BY <1>2, <1>6, <2>6
    <3>3. i \in DOMAIN w /\ w[i] = BodyValue(Means(c), Body[b][1], Append(at, i))
      BY <1>1, <2>6, <3>1, <3>2, PassesAre
    <3>4. TakenBody(c, b, Append(at, i)) = Body[b][1]
      BY <1>2, <2>6
    <3> HIDE DEF w
    <3> QED BY <2>3, <2>4, <3>3, <3>4
  <2> QED BY <1>5, <2>5, <2>6
<1> HIDE DEF w
<1>7. CASE over
  BY <1>3, <1>4, <1>7
<1>8. CASE ~over
  <2>1. \A i \in items : Branch(b, Append(at, i)) \in DOMAIN c.branch
    BY <1>3, <1>8
  <2>2. CASE \E i \in items : Failed(c.branch, Branch(b, Append(at, i)))
    <3>1. "failed" \in Range(w)
      BY <1>6, <2>1, <2>2 DEF Range
    <3> QED BY <1>3, <1>4, <1>8, <2>1, <2>2, <3>1
  <2>3. CASE ~\E i \in items : Failed(c.branch, Branch(b, Append(at, i)))
    <3>1. Replay(c)[<<b, at>>] = "done" /\ (Kind[b] = "parallel" \/ Admitted(c, <<b, at>>) = Count[b])
      BY <1>3, <1>8, <2>1, <2>3
    <3>2. DOMAIN w = items
      <4>1. CASE Kind[b] = "parallel"
        BY <1>2, <4>1 DEF BranchValues, w
      <4>2. CASE Kind[b] = "repeat"
        <5>1. items = 0..Count[b] - 1
          BY <3>1, <4>2 DEF Items
        <5>2. w = PassValues(Means(c), b, at)
          BY <4>2 DEF BranchValues, w
        <5> QED BY <1>1, <4>2, <5>1, <5>2, PassesAre
      <4> QED BY <1>5, <4>1, <4>2
    <3>3. \A i \in items : w[i] = "done"
      BY <1>6, <2>1, <2>3
    <3>4. Range(w) \subseteq {"done"}
      BY <3>2, <3>3 DEF Range
    <3> HIDE DEF over
    <3> QED BY <1>4, <1>8, <3>1, <3>4
  <2> QED BY <2>2, <2>3
<1> QED BY <1>7, <1>8

(* What a walk finds settled is what it means.                             *)
LEMMA ReplayMeans ==
    ASSUME NEW c, CpOK(c), Sound(c)
    PROVE  \A n \in Steps : Faithful(c, n)
<1> DEFINE S == {n \in Steps : ~Faithful(c, n)}
<1>1. ASSUME NEW n \in Steps, \A k \in Steps : Parent[k] = n => Faithful(c, k) PROVE Faithful(c, n)
  <2> SUFFICES ASSUME NEW s, PlaceOf(n, s), Reached(c, n, s), Replay(c)[<<n, s>>] # "open"
               PROVE  Means(c)[<<n, s>>] = Replay(c)[<<n, s>>]
    BY DEF Faithful
  <2>1. s \in Seq(Nat) /\ Len(s) = Depth[n] /\ Depth[n] \in Nat /\ Upto(s, n) = s
    BY PlaceIs, StepIs
  <2>2. CASE Leaf(n) \/ Kind[n] = "break"
    BY <2>1, <2>2, ReplayCases, MeansCases
  <2>3. CASE Kind[n] = "if"
    <3>1. n \in DOMAIN Body /\ n # Root /\ Inner(n) = Depth[n]
      <4>1. n \in DOMAIN Kind /\ n # Root
        BY StepIs
      <4> QED BY <2>3, <4>1, TreeAssumption DEF Leaf, LeafKinds, Inner, Consumes
    <3>2. Ready(c, n, s)
      <4>1. PassOK(c, n, s)
        BY <2>3 DEF PassOK, Concurrent
      <4> QED BY <2>1, <4>1 DEF Ready
    <3>3. TakenBody(c, n, s) = Body[n][IF Holds(c, n, s) THEN 1 ELSE 2]
      BY <2>3 DEF TakenBody, Taken
    <3>4. Replay(c)[<<n, s>>] = BlockValue(c, n, s)
      BY <2>1, <2>3, <3>3, ReplayCases DEF BlockValue
    <3>5. BodyValue(Means(c), TakenBody(c, n, s), s) = BlockValue(c, n, s)
      BY <1>1, <2>1, <3>1, <3>2, <3>4, BodyMeans
    <3>6. Means(c)[<<n, s>>] = BodyValue(Means(c), TakenBody(c, n, s), s)
      BY <2>1, <2>3, <3>3, MeansCases
    <3> QED BY <3>4, <3>5, <3>6
  <2>4. CASE Kind[n] = "retry"
    BY <1>1, <2>4, RetryMeans DEF Sound
  <2>5. CASE Kind[n] = "loop"
    BY <1>1, <2>5, LoopMeans
  <2>6. CASE Concurrent(n)
    BY <1>1, <2>6, ConcurrentMeans DEF Sound
  <2>7. CASE Kind[n] = "repeat" /\ ~Concurrent(n)
    BY <1>1, <2>7, RepeatMeans
  <2> QED BY <2>2, <2>3, <2>4, <2>5, <2>6, <2>7, Kinds
<1>2. S = {}
  <2> SUFFICES ASSUME S # {} PROVE FALSE
    OBVIOUS
  <2>1. S \in SUBSET Steps
    OBVIOUS
  <2>2. PICK m \in S : \A k \in S : Parent[k] # m
    <3> HIDE DEF S
    <3> QED BY <2>1, Deepest
  <2>3. \A k \in Steps : Parent[k] = m => Faithful(c, k)
    BY <2>2
  <2> QED BY <1>1, <2>2, <2>3
<1> QED BY <1>2

-----------------------------------------------------------------------------
(* Failed agents, and the stores that may come of a checkpoint.            *)

(* A leaf that waits is a live place.                                      *)
LEMMA WaitIsLive ==
    ASSUME NEW c, CpOK(c), Sound(c), NEW ref \in DOMAIN c.step, c.step[ref].status = "waiting"
    PROVE  Live(c, ref[1], ref[2]) /\ ref = <<ref[1], ref[2]>> /\ Leaf(ref[1]) /\ ref[1] \in Steps
<1>1. ref = <<ref[1], ref[2]>> /\ Leaf(ref[1]) /\ PlaceOf(ref[1], ref[2]) /\ ref[1] \in Steps /\ ref[2] \in Seq(Nat)
  BY DEF CpOK, Place, PlaceOf
<1>2. Reached(c, ref[1], ref[2]) /\ ~Over(c, ref[1], ref[2])
  BY DEF Sound, StepsReached, NoWaitBehind
<1>3. LeafValue(c, ref[1], ref[2]) = "open"
  BY <1>1 DEF LeafValue, StatusAt
<1>4. Replay(c)[<<ref[1], ref[2]>>] = "open"
  BY <1>1, <1>3, ReplayCases
<1> QED BY <1>1, <1>2, <1>4 DEF Live

LEMMA LeafAlone ==
    ASSUME NEW g \in Steps, Leaf(g), NEW n \in Steps, g \in Chain(n)
    PROVE  g = n
<1>1. g = n \/ g \in Above[n]
  BY DEF Chain
<1>2. g \notin DOMAIN Body
  BY TreeAssumption
<1> QED BY <1>1, <1>2, AboveIn

(* Two live places in one branch of the innermost concurrent block around  *)
(* a leaf: one is around the other.                                        *)
LEMMA SameBranch ==
    ASSUME NEW c, NEW g, NEW u, Live(c, g, u), Leaf(g), NEW b, b = Around[g], b # Root,
           NEW w, NEW t, Live(c, w, t), b \in Above[w], SubSeq(t, 1, Depth[b] + 1) = SubSeq(u, 1, Depth[b] + 1)
    PROVE  w \in Chain(g) /\ Upto(u, w) = t
<1>1. g \in Steps /\ u \in Seq(Nat) /\ w \in Steps /\ t \in Seq(Nat) /\ Upto(t, w) = t /\ Len(t) = Depth[w] /\ Len(u) = Depth[g]
  <2>1. PlaceOf(g, u) /\ PlaceOf(w, t)
    BY LiveIs
  <2> QED BY <2>1, PlaceIs
<1>2. b \in Above[g] /\ b \in Steps /\ Concurrent(b) /\ \A x \in Above[g] : Concurrent(x) => x = b \/ x \in Above[b]
  BY <1>1, AroundInner
<1>3. SUFFICES ASSUME ~(w \in Chain(g) /\ Upto(u, w) = t) PROVE FALSE
  OBVIOUS
<1>4. ~(g \in Chain(w) /\ Upto(t, g) = u)
  <2> SUFFICES ASSUME g \in Chain(w), Upto(t, g) = u PROVE FALSE
    OBVIOUS
  <2>1. g = w
    BY <1>1, LeafAlone
  <2>2. g \in Chain(g) /\ u = t
    BY <1>1, <2>1, ChainIs
  <2> QED BY <1>1, <1>3, <2>1, <2>2
<1>5. PICK x \in Above[g] \cap Above[w] : Concurrent(x) /\ Upto(u, x) = Upto(t, x) /\ PassIn(x, u) # PassIn(x, t)
  BY <1>3, <1>4, Diverge
<1>6. Consumes(b) /\ Consumes(x) /\ Depth[b] \in Nat /\ Depth[x] \in Nat
  <2>1. x \in DOMAIN Body /\ Kind[Root] = "root"
    BY <1>1, AboveIn, TreeAssumption
  <2>2. Kind[x] # "root" /\ Kind[x] # "if" /\ Kind[b] # "root" /\ Kind[b] # "if"
    BY <1>2, <1>5 DEF Concurrent
  <2> QED BY <1>2, <2>1, <2>2, StepIs, BlockIs DEF Consumes
<1>7. Depth[x] + 1 <= Depth[b] + 1
  <2>1. x = b \/ x \in Above[b]
    BY <1>2, <1>5
  <2>2. CASE x = b
    BY <1>6, <2>2
  <2>3. CASE x \in Above[b]
    <3>1. b \in DOMAIN Kind
      BY <1>2, StepIs
    <3>2. Depth[x] + 1 <= Depth[b]
      BY <1>6, <2>3, <3>1, AboveDepth
    <3> QED BY <1>6, <3>2
  <2> QED BY <2>1, <2>2, <2>3
<1>8. Depth[b] + 1 <= Len(t) /\ Depth[b] + 1 <= Len(u)
  <2>1. g \in DOMAIN Kind /\ w \in DOMAIN Kind
    BY <1>1, StepIs
  <2>2. Depth[b] + 1 <= Depth[w] /\ Depth[b] + 1 <= Depth[g]
    BY <1>2, <1>6, <2>1, AboveDepth
  <2> QED BY <1>1, <2>2
<1>9. SubSeq(t, 1, Depth[b] + 1)[Depth[x] + 1] = t[Depth[x] + 1] /\ SubSeq(u, 1, Depth[b] + 1)[Depth[x] + 1] = u[Depth[x] + 1]
  <2>1. Depth[x] + 1 \in 1..Depth[b] + 1 /\ Depth[b] + 1 \in Nat
    BY <1>6, <1>7
  <2> QED BY <1>1, <1>8, <2>1, CutShort
<1> QED BY <1>5, <1>9 DEF PassIn

LEMMA FailsUp ==
    ASSUME FailuresStay, NEW c
    PROVE  \A n \in Steps : FailsTo(c, n)
<1> DEFINE S == {n \in Steps : FailsTo(c, n)}
<1>1. ASSUME NEW n \in Steps, Parent[n] \in Steps => FailsTo(c, Parent[n]) PROVE FailsTo(c, n)
  <2> SUFFICES ASSUME NEW s, PlaceOf(n, s), Reached(c, n, s), Replay(c)[<<n, s>>] = "failed", n \notin KeepGoing,
                      Around[n] # Root, \A a \in Above[n] : Kind[a] = "retry" => a \in Above[Around[n]]
               PROVE  BlockValue(c, Around[n], SubSeq(s, 1, Inner(Around[n]))) = "failed"
    BY DEF FailsTo
  <2> DEFINE p == Parent[n]
             b == Around[n]
  <2>1. s \in Seq(Nat) /\ Len(s) = Depth[n] /\ Len(s) = Inner(p) /\ n \in Chain(n) /\ Upto(s, n) = s /\ p \in DOMAIN Body
    BY PlaceIs
  <2>2. InOrder(c, n, s) /\ PassOK(c, p, s)
    <3>1. InOrder(c, n, Upto(s, n)) /\ PassOK(c, Parent[n], Upto(s, n))
      BY <2>1, ReachedUp
    <3> QED BY <2>1, <3>1
  <2>3. ~Kept(Replay(c), n, s)
    BY DEF Kept
  <2>4. BlockValue(c, p, s) = "failed"
    BY <2>2, <2>3, StepDecides
  <2>5. b \in Above[n] /\ b \in Steps /\ Concurrent(b) /\ \A x \in Above[n] : Concurrent(x) => x = b \/ x \in Above[b]
    BY AroundInner
  <2>6. Above[n] = {p} \cup Above[p] /\ n \in DOMAIN Kind
    BY StepIs
  <2>7. CASE p = b
    <3>1. SubSeq(s, 1, Inner(b)) = s
      BY <2>1, <2>7, CutShort
    <3> QED BY <2>4, <2>7, <3>1
  <2>8. CASE p # b
    <3>1. b \in Above[p] /\ p \in Steps /\ p \in DOMAIN Kind
      BY <2>1, <2>5, <2>6, <2>8, RootIs, BlockIs, StepIs
    <3>2. ~Concurrent(p) /\ Kind[p] # "retry"
      <4>1. p \notin Above[b]
        BY <3>1, Acyclic
      <4> QED BY <2>5, <2>6, <2>8, <4>1
    <3>3. Around[p] = b
      BY <2>6, <2>8, <3>1, <3>2, AroundRecursion, StepIs
    <3>4. Kind[p] \in {"if", "repeat", "loop"}
      BY <2>1, <3>1, <3>2, TreeAssumption DEF Leaf, Concurrent
    <3>5. Replay(c)[<<p, Upto(s, p)>>] = "failed"
      BY <2>1, <2>2, <2>4, <3>1, <3>2, <3>4, PassDecides DEF Outcome
    <3>6. p \notin KeepGoing
      BY <3>1, <3>2, <3>4 DEF FailuresStay, Leaf, LeafKinds
    <3>7. PlaceOf(p, Upto(s, p)) /\ Reached(c, p, Upto(s, p))
      <4>1. p \in Chain(n)
        BY <2>6, <3>1, StepIs DEF Chain
      <4> QED BY <4>1, ReachedUp, ChainStep
    <3>8. \A a \in Above[p] : Kind[a] = "retry" => a \in Above[Around[p]]
      BY <2>6, <3>3
    <3>9. BlockValue(c, b, SubSeq(Upto(s, p), 1, Inner(b))) = "failed"
      BY <1>1, <3>1, <3>3, <3>5, <3>6, <3>7, <3>8 DEF FailsTo
    <3>10. SubSeq(Upto(s, p), 1, Inner(b)) = SubSeq(s, 1, Inner(b))
      <4>1. Inner(b) \in Nat /\ Depth[p] \in Nat /\ Inner(b) <= Depth[p] /\ Depth[p] <= Len(s)
        <5>1. Depth[b] + (IF Consumes(b) THEN 1 ELSE 0) <= Depth[p] /\ Depth[b] \in Nat
          BY <3>1, AboveDepth
        <5>2. Depth[p] \in Nat /\ Depth[p] <= Len(s)
          BY <2>1, BlockIs
        <5> QED BY <5>1, <5>2 DEF Inner
      <4> QED BY <2>1, <4>1, CutShort DEF Upto
    <3> QED BY <3>9, <3>10
  <2> QED BY <2>7, <2>8
<1>2. S = Steps
  <2>1. S \in SUBSET Steps
    OBVIOUS
  <2>2. \A n \in Steps : (Parent[n] \in Steps => Parent[n] \in S) => n \in S
    BY <1>1
  <2> HIDE DEF S
  <2> QED BY <2>1, <2>2, TreeInduction
<1> QED BY <1>2

(* A failed agent, seen in the store.                                      *)
LEMMA AgentFails ==
    ASSUME Plain, NEW c, NEW g, NEW s, PlaceOf(g, s), Reached(c, g, s), Kind[g] = "agent", g \notin KeepGoing,
           Around[g] # Root, StatusAt(c, <<g, s>>) = "failed"
    PROVE  /\ Ready(c, Around[g], SubSeq(s, 1, Depth[Around[g]] + 1))
           /\ BlockValue(c, Around[g], SubSeq(s, 1, Depth[Around[g]] + 1)) = "failed"
<1> DEFINE b == Around[g]
<1>1. g \in Steps /\ s \in Seq(Nat) /\ g \in DOMAIN Kind /\ Leaf(g)
  BY PlaceIs, StepIs DEF Leaf, LeafKinds
<1>2. b \in Above[g] /\ b \in Steps /\ Concurrent(b) /\ b # Root /\ Inner(b) = Depth[b] + 1
  <2>1. b \in Above[g] /\ b \in Steps /\ Concurrent(b)
    BY <1>1, AroundInner
  <2> QED BY <2>1, StepIs DEF Concurrent, Inner, Consumes
<1>3. Replay(c)[<<g, s>>] = "failed"
  BY <1>1, ReplayCases DEF LeafValue
<1>4. FailsTo(c, g)
  BY <1>1, FailsUp DEF Plain
<1>5. \A a \in Above[g] : Kind[a] = "retry" => a \in Above[Around[g]]
  BY <1>1 DEF Plain, AgentsUnretried
<1>6. BlockValue(c, b, SubSeq(s, 1, Inner(b))) = "failed"
  BY <1>3, <1>4, <1>5 DEF FailsTo
<1>7. PICK z \in Chain(g) : z \in Steps /\ Parent[z] = b
  BY <1>1, <1>2, Towards
<1>8. Ready(c, b, Upto(s, z))
  BY <1>7, ReachedUp
<1>9. Upto(s, z) = SubSeq(s, 1, Depth[b] + 1)
  BY <1>2, <1>7, StepIs DEF Upto
<1> QED BY <1>2, <1>6, <1>8, <1>9

LEMMA PairIs == \A x, a, s : x = <<a, s>> => x[1] = a /\ x[2] = s
  OBVIOUS

(* Where a failed agent's branch is, the agent lives.                      *)
LEMMA AgentPlace ==
    ASSUME NEW c, CpOK(c), Sound(c), NEW d, NEW ref \in DOMAIN c.step, AgentFailed(c, d, ref)
    PROVE  LET b == Around[ref[1]]
           IN  /\ Live(c, ref[1], ref[2]) /\ b \in Above[ref[1]] /\ b \in Steps /\ Concurrent(b) /\ Leaf(ref[1])
               /\ AgentKey(ref) = <<b, SubSeq(ref[2], 1, Depth[b] + 1)>>
               /\ Live(c, b, Upto(ref[2], b)) /\ PlaceOf(b, Upto(ref[2], b))
               /\ SubSeq(ref[2], 1, Depth[b] + 1) \in Seq(Nat) /\ Len(SubSeq(ref[2], 1, Depth[b] + 1)) = Depth[b] + 1
               /\ Upto(SubSeq(ref[2], 1, Depth[b] + 1), b) = Upto(ref[2], b)
<1> DEFINE g == ref[1]
           u == ref[2]
           b == Around[ref[1]]
<1>1. Live(c, g, u) /\ Leaf(g) /\ g \in Steps
  BY WaitIsLive DEF AgentFailed
<1>2. b \in Above[g] /\ b \in Steps /\ Concurrent(b)
  BY <1>1, AroundInner DEF AgentFailed
<1>3. PlaceOf(g, u) /\ u \in Seq(Nat) /\ Len(u) = Depth[g]
  <2>1. PlaceOf(g, u)
    BY <1>1, LiveIs
  <2> QED BY <2>1, PlaceIs
<1>4. b \in Chain(g)
  BY <1>2, StepIs DEF Chain
<1>5. Live(c, b, Upto(u, b)) /\ PlaceOf(b, Upto(u, b))
  BY <1>1, <1>3, <1>4, LiveUp, ChainStep
<1>6. Depth[b] \in Nat /\ Depth[b] + 1 <= Len(u)
  <2>1. g \in DOMAIN Kind /\ b # Root /\ Kind[b] # "if"
    BY <1>1, <1>2, StepIs DEF Concurrent
  <2> QED BY <1>2, <1>3, <2>1, AboveDepth DEF Consumes
<1>7. SubSeq(u, 1, Depth[b] + 1) \in Seq(Nat) /\ Len(SubSeq(u, 1, Depth[b] + 1)) = Depth[b] + 1
      /\ Upto(SubSeq(u, 1, Depth[b] + 1), b) = Upto(u, b)
  <2> DEFINE d1 == Depth[b] + 1
  <2>1. d1 \in Nat /\ d1 <= Len(u) /\ Depth[b] <= d1 /\ Depth[b] \in Nat
    BY <1>6
  <2> HIDE DEF d1
  <2>2. /\ SubSeq(u, 1, d1) \in Seq(Nat) /\ Len(SubSeq(u, 1, d1)) = d1
        /\ \A e \in Nat : e <= d1 => SubSeq(SubSeq(u, 1, d1), 1, e) = SubSeq(u, 1, e)
    BY <1>3, <2>1, CutShort
  <2>3. SubSeq(SubSeq(u, 1, d1), 1, Depth[b]) = SubSeq(u, 1, Depth[b])
    BY <2>1, <2>2
  <2> QED BY <2>2, <2>3 DEF d1, Upto
<1>8. AgentKey(ref) = <<b, SubSeq(u, 1, Depth[b] + 1)>>
  BY DEF AgentKey, Branch
<1> QED BY <1>1, <1>2, <1>5, <1>7, <1>8

LEMMA EarnsIs ==
    ASSUME NEW c, NEW b, NEW at, NEW s, NEW marker, Earns(c, b, at, s, marker)
    PROVE  /\ PlaceOf(b, at) /\ Live(c, b, at) /\ Ready(c, b, s) /\ BlockValue(c, b, s) = Verdict(marker)
           /\ BlockValue(c, b, s) # "open"
<1>1. Verdict(marker) # "open"
  BY DEF Verdict
<1> QED BY <1>1 DEF Earns, True

LEMMA OnwardLater ==
    ASSUME NEW c, CpOK(c), Sound(c), NEW d, CpOK(d), Onward(c, d)
    PROVE  Later(c, d)
<1>1. ASSUME NEW n, NEW s, ~SameEntry(c, d, <<n, s>>) PROVE Live(c, n, s)
  <2> DEFINE ref == <<n, s>>
  <2>1. CASE ref \in DOMAIN c.step
    <3>1. ref \in DOMAIN d.step /\ c.step[ref].status = "waiting"
      BY <1>1, <2>1 DEF Onward, SameEntry
    <3> QED BY <2>1, <3>1, WaitIsLive
  <2>2. CASE ref \notin DOMAIN c.step
    <3>1. ref \in DOMAIN d.step \ DOMAIN c.step
      BY <1>1, <2>2 DEF SameEntry
    <3>2. Live(c, ref[1], ref[2])
      BY <3>1 DEF Onward
    <3> QED BY <3>2
  <2> QED BY <2>1, <2>2
<1>2. ASSUME NEW n, NEW s, NEW a, Attempt(n, s, a) \in DOMAIN d.attempt \ DOMAIN c.attempt PROVE Live(c, n, s)
  <2> DEFINE key == Attempt(n, s, a)
  <2>1. key[1] = n /\ key[3] = s
    BY DEF Attempt
  <2>2. Earns(c, key[1], key[3], Append(key[3], key[2]), d.attempt[key])
    BY <1>2 DEF Onward
  <2> HIDE DEF key
  <2>3. Live(c, key[1], key[3])
    BY <2>2, EarnsIs
  <2> QED BY <2>1, <2>3
<1>3. ASSUME NEW n, NEW s, NEW i, Branch(n, Append(s, i)) \in DOMAIN d.branch \ DOMAIN c.branch PROVE Live(c, n, s)
  <2> DEFINE key == Branch(n, Append(s, i))
  <2>1. key[1] = n /\ key[2] = Append(s, i)
    BY DEF Branch
  <2>2. /\ key[2] \in Seq(Nat) /\ Len(key[2]) = Depth[key[1]] + 1
        /\ \/ Earns(c, key[1], Upto(key[2], key[1]), key[2], d.branch[key])
           \/ d.branch[key] = "failed" /\ \E ref \in DOMAIN c.step : AgentFailed(c, d, ref) /\ key = AgentKey(ref)
    BY <1>3 DEF Onward
  <2> HIDE DEF key
  <2>3. Live(c, n, Upto(key[2], n)) /\ Depth[n] \in Nat
    <3>1. CASE Earns(c, key[1], Upto(key[2], key[1]), key[2], d.branch[key])
      <4>1. Live(c, n, Upto(key[2], n)) /\ PlaceOf(n, Upto(key[2], n))
        BY <2>1, <3>1, EarnsIs
      <4> QED BY <4>1, PlaceIs
    <3>2. ASSUME NEW ref \in DOMAIN c.step, AgentFailed(c, d, ref), key = AgentKey(ref)
          PROVE  Live(c, n, Upto(key[2], n)) /\ Depth[n] \in Nat
      <4> DEFINE b == Around[ref[1]]
      <4>1. AgentKey(ref) = <<b, SubSeq(ref[2], 1, Depth[b] + 1)>> /\ Live(c, b, Upto(ref[2], b)) /\ b \in Steps
            /\ Upto(SubSeq(ref[2], 1, Depth[b] + 1), b) = Upto(ref[2], b)
        BY <3>2, AgentPlace
      <4> HIDE DEF b
      <4>2. n = b /\ key[2] = SubSeq(ref[2], 1, Depth[b] + 1)
        <5>1. key = <<b, SubSeq(ref[2], 1, Depth[b] + 1)>>
          BY <3>2, <4>1
        <5>2. key[1] = b /\ key[2] = SubSeq(ref[2], 1, Depth[b] + 1)
          BY <5>1, PairIs
        <5> QED BY <2>1, <5>2
      <4> QED BY <4>1, <4>2, StepIs
    <3> QED BY <2>2, <3>1, <3>2
  <2>4. Append(s, i) \in Seq(Nat) /\ Len(Append(s, i)) = Depth[n] + 1
    BY <2>1, <2>2
  <2>5. Upto(Append(s, i), n) = s
    BY <2>3, <2>4 DEF Upto
  <2> QED BY <2>1, <2>3, <2>5
<1>4. \A key : Admitted(c, key) \in Nat /\ Admitted(d, key) \in Nat
  BY AdmittedIs
<1>5. \A n, s : Admitted(c, <<n, s>>) <= Admitted(d, <<n, s>>)
  BY DEF Onward
<1>6. \A n, s : Admitted(c, <<n, s>>) # Admitted(d, <<n, s>>) => Live(c, n, s)
  BY DEF Onward
<1>7. /\ \A key \in DOMAIN c.attempt : key \in DOMAIN d.attempt /\ d.attempt[key] = c.attempt[key]
      /\ \A key \in DOMAIN c.branch : key \in DOMAIN d.branch /\ d.branch[key] = c.branch[key]
  BY DEF Onward
<1> QED BY <1>1, <1>2, <1>3, <1>4, <1>5, <1>6, <1>7 DEF Later

(* A live place stays outside every attempt and branch that has ended,     *)
(* unless it is around an agent that failed.                               *)
LEMMA StillOpen ==
    ASSUME NEW c, CpOK(c), Sound(c), NEW d, Onward(c, d), NEW n, NEW s, Live(c, n, s),
           \A ref \in DOMAIN c.step : AgentFailed(c, d, ref) /\ Around[ref[1]] \in Above[n]
                                        => ~(n \in Chain(ref[1]) /\ Upto(ref[2], n) = s)
    PROVE  ~Over(d, n, s)
<1> SUFFICES ASSUME NEW b \in Above[n],
                    \/ Kind[b] = "retry" /\ Attempt(b, Upto(s, b), PassIn(b, s)) \in DOMAIN d.attempt
                    \/ Concurrent(b) /\ Branch(b, SubSeq(s, 1, Depth[b] + 1)) \in DOMAIN d.branch
             PROVE  FALSE
  BY DEF Over
<1>1. n \in Steps /\ s \in Seq(Nat) /\ Len(s) = Depth[n] /\ n \in DOMAIN Kind /\ ~Over(c, n, s)
  <2>1. PlaceOf(n, s) /\ ~Over(c, n, s)
    BY LiveIs
  <2> QED BY <2>1, PlaceIs, StepIs
<1>2. b \in DOMAIN Body /\ Depth[b] \in Nat /\ Consumes(b) /\ Inner(b) = Depth[b] + 1 /\ Depth[b] + 1 <= Len(s)
  <2>1. b \in DOMAIN Body /\ Kind[Root] = "root"
    BY <1>1, AboveIn, TreeAssumption
  <2>2. Kind[b] # "root" /\ Kind[b] # "if"
    BY DEF Concurrent
  <2>3. Consumes(b)
    BY <2>1, <2>2 DEF Consumes
  <2> QED BY <1>1, <2>1, <2>3, AboveDepth DEF Inner
<1> DEFINE u == SubSeq(s, 1, Depth[b] + 1)
<1>3. u \in Seq(Nat) /\ Len(u) = Inner(b) /\ u = Append(Upto(s, b), PassIn(b, s))
  <2>1. Depth[b] < Len(s) /\ Depth[b] <= Len(s) /\ Depth[b] + 1 \in Nat
    BY <1>1, <1>2
  <2>2. SubSeq(s, 1, Depth[b] + 1) = Append(SubSeq(s, 1, Depth[b]), s[Depth[b] + 1])
    BY <1>1, <1>2, <2>1, CutShort
  <2>3. u \in Seq(Nat) /\ Len(u) = Depth[b] + 1
    BY <1>1, <1>2, <2>1, CutShort
  <2> HIDE DEF u
  <2> QED BY <1>2, <2>2, <2>3 DEF Upto, PassIn, u
<1>4. BlockValue(c, b, u) = "open"
  BY <1>2, <1>3, OpenBody
<1> HIDE DEF u
<1>5. CASE Kind[b] = "retry" /\ Attempt(b, Upto(s, b), PassIn(b, s)) \in DOMAIN d.attempt
  <2> DEFINE key == Attempt(b, Upto(s, b), PassIn(b, s))
  <2>1. key[1] = b /\ key[2] = PassIn(b, s) /\ key[3] = Upto(s, b)
    BY DEF Attempt
  <2>2. key \in DOMAIN d.attempt \ DOMAIN c.attempt
    BY <1>1, <1>5 DEF Over
  <2> HIDE DEF key
  <2>3. Earns(c, key[1], key[3], Append(key[3], key[2]), d.attempt[key])
    BY <2>2 DEF Onward
  <2>4. BlockValue(c, key[1], Append(key[3], key[2])) # "open"
    BY <2>3, EarnsIs
  <2> QED BY <1>3, <1>4, <2>1, <2>4
<1>6. CASE Concurrent(b) /\ Branch(b, u) \in DOMAIN d.branch
  <2> DEFINE key == Branch(b, u)
  <2>1. key[1] = b /\ key[2] = u /\ key = <<b, u>>
    BY DEF Branch
  <2>2. key \in DOMAIN d.branch \ DOMAIN c.branch
    BY <1>1, <1>6 DEF Over, u
  <2> HIDE DEF key
  <2>3. \/ Earns(c, key[1], Upto(key[2], key[1]), key[2], d.branch[key])
        \/ \E ref \in DOMAIN c.step : AgentFailed(c, d, ref) /\ key = AgentKey(ref)
    BY <2>2 DEF Onward
  <2>4. CASE Earns(c, key[1], Upto(key[2], key[1]), key[2], d.branch[key])
    <3>1. BlockValue(c, key[1], key[2]) # "open"
      BY <2>4, EarnsIs
    <3> QED BY <1>4, <2>1, <3>1
  <2>5. ASSUME NEW ref \in DOMAIN c.step, AgentFailed(c, d, ref), key = AgentKey(ref) PROVE FALSE
    <3>1. /\ Live(c, ref[1], ref[2]) /\ Leaf(ref[1]) /\ Around[ref[1]] \in Steps
          /\ AgentKey(ref) = <<Around[ref[1]], SubSeq(ref[2], 1, Depth[Around[ref[1]]] + 1)>>
      BY <2>5, AgentPlace
    <3>2. Around[ref[1]] = b /\ SubSeq(ref[2], 1, Depth[b] + 1) = SubSeq(s, 1, Depth[b] + 1)
      <4>1. key = <<Around[ref[1]], SubSeq(ref[2], 1, Depth[Around[ref[1]]] + 1)>>
        BY <2>5, <3>1
      <4>2. key[1] = Around[ref[1]] /\ key[2] = SubSeq(ref[2], 1, Depth[Around[ref[1]]] + 1)
        BY <4>1, PairIs
      <4> QED BY <2>1, <4>2 DEF u
    <3>3. b # Root
      BY <3>1, <3>2, StepIs
    <3>4. n \in Chain(ref[1]) /\ Upto(ref[2], n) = s
      BY <3>1, <3>2, <3>3, SameBranch
    <3> QED BY <2>5, <3>2, <3>4
  <2> QED BY <2>3, <2>4, <2>5
<1> QED BY <1>5, <1>6 DEF u

LEMMA TrueStays ==
    ASSUME ConditionsSettled, NEW c, NEW d, Later(c, d), NEW b \in DOMAIN Body, NEW s \in Seq(Nat), Len(s) = Inner(b),
           NEW marker, True(c, b, s, marker)
    PROVE  True(d, b, s, marker)
<1>1. Ready(c, b, s) /\ BlockValue(c, b, s) = Verdict(marker) /\ Verdict(marker) # "open"
  BY DEF True, Verdict
<1>2. Ready(d, b, s) /\ BlockValue(d, b, s) = BlockValue(c, b, s)
  BY <1>1, ReadyStays, BodyStays
<1> QED BY <1>1, <1>2 DEF True

LEMMA OnwardSound ==
    ASSUME Plain, NEW c, CpOK(c), Sound(c), NEW d, CpOK(d), Onward(c, d)
    PROVE  Sound(d)
<1>1. Later(c, d) /\ ConditionsSettled
  BY OnwardLater DEF Plain
<1>2. KeysShaped(d)
  <2>1. ASSUME NEW key \in DOMAIN d.attempt PROVE key[1] \in Steps /\ key[3] \in Seq(Nat) /\ Len(key[3]) = Depth[key[1]]
    <3>1. CASE key \in DOMAIN c.attempt
      BY <3>1 DEF Sound, KeysShaped
    <3>2. CASE key \notin DOMAIN c.attempt
      <4>1. Earns(c, key[1], key[3], Append(key[3], key[2]), d.attempt[key])
        BY <2>1, <3>2 DEF Onward
      <4>2. PlaceOf(key[1], key[3])
        BY <4>1, EarnsIs
      <4> QED BY <4>2, PlaceIs
    <3> QED BY <3>1, <3>2
  <2>2. ASSUME NEW key \in DOMAIN d.branch
        PROVE  key = <<key[1], key[2]>> /\ key[1] \in Steps /\ key[2] \in Seq(Nat) /\ Len(key[2]) = Depth[key[1]] + 1
    <3>1. CASE key \in DOMAIN c.branch
      BY <3>1 DEF Sound, KeysShaped
    <3>2. CASE key \notin DOMAIN c.branch
      <4>1. /\ key = <<key[1], key[2]>> /\ key[2] \in Seq(Nat) /\ Len(key[2]) = Depth[key[1]] + 1
            /\ \/ Earns(c, key[1], Upto(key[2], key[1]), key[2], d.branch[key])
               \/ \E ref \in DOMAIN c.step : AgentFailed(c, d, ref) /\ key = AgentKey(ref)
        BY <2>2, <3>2 DEF Onward
      <4>2. CASE Earns(c, key[1], Upto(key[2], key[1]), key[2], d.branch[key])
        <5>1. PlaceOf(key[1], Upto(key[2], key[1]))
          BY <4>2, EarnsIs
        <5> QED BY <4>1, <5>1, PlaceIs
      <4>3. ASSUME NEW ref \in DOMAIN c.step, AgentFailed(c, d, ref), key = AgentKey(ref) PROVE key[1] \in Steps
        <5>1. Around[ref[1]] \in Steps /\ AgentKey(ref) = <<Around[ref[1]], SubSeq(ref[2], 1, Depth[Around[ref[1]]] + 1)>>
          BY <4>3, AgentPlace
        <5> QED BY <4>3, <5>1
      <4> QED BY <4>1, <4>2, <4>3
    <3> QED BY <3>1, <3>2
  <2>3. \A key \in DOMAIN d.admitted : key[2] \in Seq(Nat) /\ Len(key[2]) = Depth[key[1]]
    BY DEF Onward
  <2> QED BY <2>1, <2>2, <2>3 DEF KeysShaped
<1>3. ASSUME NEW ref \in DOMAIN d.step PROVE PlaceOf(ref[1], ref[2]) /\ Reached(d, ref[1], ref[2]) /\ ref = <<ref[1], ref[2]>>
  <2>1. PlaceOf(ref[1], ref[2]) /\ ref = <<ref[1], ref[2]>>
    BY DEF CpOK, Place, PlaceOf
  <2>2. Reached(c, ref[1], ref[2])
    <3>1. CASE ref \in DOMAIN c.step
      BY <3>1 DEF Sound, StepsReached
    <3>2. CASE ref \notin DOMAIN c.step
      <4>1. Live(c, ref[1], ref[2])
        BY <3>2 DEF Onward
      <4> QED BY <4>1, LiveIs
    <3> QED BY <3>1, <3>2
  <2> QED BY <1>1, <2>1, <2>2, ReachedStays
<1>4. AttemptsTrue(d)
  <2> SUFFICES ASSUME NEW key \in DOMAIN d.attempt PROVE True(d, key[1], Append(key[3], key[2]), d.attempt[key])
    BY DEF AttemptsTrue
  <2>1. True(c, key[1], Append(key[3], key[2]), d.attempt[key])
    <3>1. CASE key \in DOMAIN c.attempt
      <4>1. True(c, key[1], Append(key[3], key[2]), c.attempt[key])
        BY <3>1 DEF Sound, AttemptsTrue
      <4> QED BY <3>1, <4>1 DEF Onward
    <3>2. CASE key \notin DOMAIN c.attempt
      <4>1. Earns(c, key[1], key[3], Append(key[3], key[2]), d.attempt[key])
        BY <3>2 DEF Onward
      <4> QED BY <4>1 DEF Earns
    <3> QED BY <3>1, <3>2
  <2>2. key[1] \in Steps /\ key[3] \in Seq(Nat) /\ Len(key[3]) = Depth[key[1]] /\ key[2] \in Nat /\ Kind[key[1]] = "retry"
    BY <1>2 DEF KeysShaped, CpOK
  <2>3. key[1] \in DOMAIN Body /\ Inner(key[1]) = Depth[key[1]] + 1
    <3>1. Consumes(key[1]) /\ key[1] \in DOMAIN Body
      BY <2>2, PassesAre
    <3> QED BY <3>1 DEF Inner
  <2>4. Append(key[3], key[2]) \in Seq(Nat) /\ Len(Append(key[3], key[2])) = Inner(key[1])
    BY <2>2, <2>3
  <2> QED BY <1>1, <2>1, <2>3, <2>4, TrueStays
<1>5. BranchesTrue(d)
  <2> SUFFICES ASSUME NEW key \in DOMAIN d.branch PROVE True(d, key[1], key[2], d.branch[key])
    BY DEF BranchesTrue
  <2>1. key[1] \in Steps /\ key[2] \in Seq(Nat) /\ Len(key[2]) = Depth[key[1]] + 1 /\ Concurrent(key[1])
    BY <1>2 DEF KeysShaped, CpOK
  <2>2. key[1] \in DOMAIN Body /\ Len(key[2]) = Inner(key[1])
    <3>1. Consumes(key[1]) /\ key[1] \in DOMAIN Body
      BY <2>1, ItemsAre
    <3> QED BY <2>1, <3>1 DEF Inner
  <2>3. ASSUME True(c, key[1], key[2], d.branch[key]) PROVE True(d, key[1], key[2], d.branch[key])
    BY <1>1, <2>1, <2>2, <2>3, TrueStays
  <2>4. CASE key \in DOMAIN c.branch
    <3>1. True(c, key[1], key[2], c.branch[key])
      BY <2>4 DEF Sound, BranchesTrue
    <3> QED BY <2>3, <2>4, <3>1 DEF Onward
  <2>5. CASE key \notin DOMAIN c.branch
    <3>1. \/ Earns(c, key[1], Upto(key[2], key[1]), key[2], d.branch[key])
          \/ d.branch[key] = "failed" /\ \E ref \in DOMAIN c.step : AgentFailed(c, d, ref) /\ key = AgentKey(ref)
      BY <2>5 DEF Onward
    <3>2. CASE Earns(c, key[1], Upto(key[2], key[1]), key[2], d.branch[key])
      BY <2>3, <3>2 DEF Earns
    <3>3. ASSUME NEW ref \in DOMAIN c.step, AgentFailed(c, d, ref), key = AgentKey(ref), d.branch[key] = "failed"
          PROVE  True(d, key[1], key[2], d.branch[key])
      <4>1. ref \in DOMAIN d.step
        BY DEF Onward
      <4>2. PlaceOf(ref[1], ref[2]) /\ Reached(d, ref[1], ref[2]) /\ ref = <<ref[1], ref[2]>>
        BY <1>3, <4>1
      <4>3. StatusAt(d, <<ref[1], ref[2]>>) = "failed"
        BY <3>3, <4>1, <4>2 DEF AgentFailed, StatusAt
      <4>4. Kind[ref[1]] = "agent" /\ ref[1] \notin KeepGoing /\ Around[ref[1]] # Root
        BY <3>3 DEF AgentFailed
      <4>5. /\ Ready(d, Around[ref[1]], SubSeq(ref[2], 1, Depth[Around[ref[1]]] + 1))
            /\ BlockValue(d, Around[ref[1]], SubSeq(ref[2], 1, Depth[Around[ref[1]]] + 1)) = "failed"
        BY <4>2, <4>3, <4>4, AgentFails
      <4>6. key = <<Around[ref[1]], SubSeq(ref[2], 1, Depth[Around[ref[1]]] + 1)>>
        BY <3>3, AgentPlace
      <4>7. Ready(d, key[1], key[2]) /\ BlockValue(d, key[1], key[2]) = "failed"
        BY <4>5, <4>6
      <4> QED BY <3>3, <4>7 DEF True, Verdict
    <3> QED BY <3>1, <3>2, <3>3
  <2> QED BY <2>4, <2>5
<1>6. NoWaitBehind(d)
  <2> SUFFICES ASSUME NEW ref \in DOMAIN d.step, d.step[ref].status = "waiting" PROVE ~Over(d, ref[1], ref[2])
    BY DEF NoWaitBehind
  <2>1. ref = <<ref[1], ref[2]>> /\ Leaf(ref[1]) /\ ref[1] \in Steps
    BY DEF CpOK, Place
  <2>2. Live(c, ref[1], ref[2])
    <3>1. CASE ref \in DOMAIN c.step
      <4>1. c.step[ref].status = "waiting"
        BY <3>1 DEF Onward
      <4> QED BY <3>1, <4>1, WaitIsLive
    <3>2. CASE ref \notin DOMAIN c.step
      BY <3>2 DEF Onward
    <3> QED BY <3>1, <3>2
  <2>3. ASSUME NEW g \in DOMAIN c.step, AgentFailed(c, d, g), ref[1] \in Chain(g[1]), Upto(g[2], ref[1]) = ref[2] PROVE FALSE
    <3>1. g = <<g[1], g[2]>> /\ g[1] \in Steps /\ PlaceOf(g[1], g[2])
      BY DEF CpOK, Place, PlaceOf
    <3>2. ref[1] = g[1]
      BY <2>1, <2>3, <3>1, LeafAlone
    <3>3. Upto(g[2], g[1]) = g[2]
      BY <3>1, PlaceIs
    <3>4. ref = g
      BY <2>1, <2>3, <3>1, <3>2, <3>3
    <3> QED BY <2>3, <3>4 DEF AgentFailed
  <2> QED BY <2>2, <2>3, StillOpen
<1>7. StepsReached(d)
  BY <1>3 DEF StepsReached
<1> QED BY <1>2, <1>4, <1>5, <1>6, <1>7 DEF Sound

Changed(g, f, key, value) ==
    /\ DOMAIN g = DOMAIN f \cup {key} /\ g[key] = value
    /\ \A k \in DOMAIN f : k # key => g[k] = f[k]

LEMMA ChangedIs ==
    ASSUME NEW f, NEW key, NEW value
    PROVE  Changed(With(f, key, value), f, key, value)
  BY DEF With, Changed

LEMMA SetsAre ==
    ASSUME NEW c, CpOK(c), NEW key, NEW value
    PROVE  /\ LET d == StepSet(c, key, value)
              IN  /\ d.step = With(c.step, key, value) /\ d.attempt = c.attempt
                  /\ d.branch = c.branch /\ d.admitted = c.admitted
           /\ LET d == BranchSet(c, key, value)
              IN  /\ d.step = c.step /\ d.attempt = c.attempt
                  /\ d.branch = With(c.branch, key, value) /\ d.admitted = c.admitted
           /\ LET d == AttemptSet(c, key, value)
              IN  /\ d.step = c.step /\ d.attempt = With(c.attempt, key, value)
                  /\ d.branch = c.branch /\ d.admitted = c.admitted
           /\ LET d == [c EXCEPT !.admitted = With(@, key, value)]
              IN  /\ d.step = c.step /\ d.attempt = c.attempt
                  /\ d.branch = c.branch /\ d.admitted = With(c.admitted, key, value)
<1>1. c = [step |-> c.step, attempt |-> c.attempt, branch |-> c.branch, admitted |-> c.admitted]
  BY DEF CpOK
<1> QED BY <1>1 DEF StepSet, BranchSet, AttemptSet

LEMMA StoreIs ==
    ASSUME BlockInv
    PROVE  CpOK(cp) /\ CpOK(copy) /\ CpInv(cp)
  BY DEF BlockInv, StoreOK, CpInv

(* The store has come of the walk's checkpoint.                            *)
LEMMA LinkedOnward ==
    ASSUME BlockInv, Sound(copy), Linked
    PROVE  Onward(copy, cp)
<1>1. \A ref \in DOMAIN copy.step : ref \in DOMAIN cp.step /\ (copy.step[ref].status # "waiting" => cp.step[ref] = copy.step[ref])
  BY DEF Linked
<1>2. \A ref \in DOMAIN cp.step \ DOMAIN copy.step : Live(copy, ref[1], ref[2])
  BY DEF Linked
<1>3. /\ \A key \in DOMAIN copy.attempt : key \in DOMAIN cp.attempt /\ cp.attempt[key] = copy.attempt[key]
      /\ \A key \in DOMAIN cp.attempt \ DOMAIN copy.attempt :
            Earns(copy, key[1], key[3], Append(key[3], key[2]), cp.attempt[key])
  BY DEF Linked
<1>4. \A key \in DOMAIN copy.branch : key \in DOMAIN cp.branch /\ cp.branch[key] = copy.branch[key]
  BY DEF Linked
<1>5. ASSUME NEW key \in DOMAIN cp.branch \ DOMAIN copy.branch
      PROVE  /\ key = <<key[1], key[2]>> /\ key[2] \in Seq(Nat) /\ Len(key[2]) = Depth[key[1]] + 1
             /\ cp.branch[key] = "failed" /\ \E ref \in DOMAIN copy.step : AgentFailed(copy, cp, ref) /\ key = AgentKey(ref)
  <2>1. cp.branch[key] = "failed" /\ \E ref \in DOMAIN copy.step :
              FailedSince(ref) /\ Kind[ref[1]] = "agent" /\ Around[ref[1]] # Root /\ key = AgentKey(ref)
    BY <1>5 DEF Linked
  <2>2. PICK ref \in DOMAIN copy.step :
              FailedSince(ref) /\ Kind[ref[1]] = "agent" /\ Around[ref[1]] # Root /\ key = AgentKey(ref)
    BY <2>1
  <2>3. AgentFailed(copy, cp, ref)
    BY <2>2 DEF AgentFailed, FailedSince
  <2> DEFINE s == SubSeq(ref[2], 1, Depth[Around[ref[1]]] + 1)
  <2>4. AgentKey(ref) = <<Around[ref[1]], s>> /\ s \in Seq(Nat) /\ Len(s) = Depth[Around[ref[1]]] + 1
    BY <2>3, StoreIs, AgentPlace
  <2> HIDE DEF s
  <2>5. key = <<Around[ref[1]], s>>
    BY <2>2, <2>4
  <2>6. key[1] = Around[ref[1]] /\ key[2] = s
    BY <2>5, PairIs
  <2> QED BY <2>1, <2>2, <2>3, <2>4, <2>5, <2>6
<1>6. /\ \A key : Admitted(copy, key) = Admitted(cp, key)
      /\ \A key \in DOMAIN cp.admitted : key[2] \in Seq(Nat) /\ Len(key[2]) = Depth[key[1]]
  BY DEF Linked, Admitted, Sound, KeysShaped
<1>7. \A key : Admitted(copy, key) <= Admitted(cp, key)
  <2>1. \A key : Admitted(cp, key) \in Nat
    BY StoreIs, AdmittedIs
  <2> QED BY <1>6, <2>1
<1> QED BY <1>1, <1>2, <1>3, <1>4, <1>5, <1>6, <1>7 DEF Onward

LEMMA StoreFollows ==
    ASSUME Plain, BlockInv, Sound(copy), Linked
    PROVE  Onward(copy, cp) /\ Later(copy, cp) /\ Sound(cp)
<1>1. Onward(copy, cp)
  BY LinkedOnward
<1> QED BY <1>1, StoreIs, OnwardLater, OnwardSound

(* One more write of the walk.                                             *)
LEMMA OnwardMore ==
    ASSUME NEW c, NEW e, Onward(c, e), NEW d, CpOK(d), CpOK(e), CpOK(c),
           \A ref \in DOMAIN e.step : ref \in DOMAIN d.step /\ d.step[ref] = e.step[ref],
           \A ref \in DOMAIN d.step \ DOMAIN e.step : Live(c, ref[1], ref[2]),
           \A key \in DOMAIN e.attempt : key \in DOMAIN d.attempt /\ d.attempt[key] = e.attempt[key],
           \A key \in DOMAIN d.attempt \ DOMAIN e.attempt : Earns(c, key[1], key[3], Append(key[3], key[2]), d.attempt[key]),
           \A key \in DOMAIN e.branch : key \in DOMAIN d.branch /\ d.branch[key] = e.branch[key],
           \A key \in DOMAIN d.branch \ DOMAIN e.branch :
              /\ key = <<key[1], key[2]>> /\ key[2] \in Seq(Nat) /\ Len(key[2]) = Depth[key[1]] + 1
              /\ Earns(c, key[1], Upto(key[2], key[1]), key[2], d.branch[key]),
           \A key : Admitted(e, key) <= Admitted(d, key),
           \A n, s : Admitted(e, <<n, s>>) # Admitted(d, <<n, s>>) => Live(c, n, s),
           \A key \in DOMAIN d.admitted : key[2] \in Seq(Nat) /\ Len(key[2]) = Depth[key[1]]
    PROVE  Onward(c, d)
<1>1. \A ref \in DOMAIN c.step : /\ ref \in DOMAIN e.step /\ ref \in DOMAIN d.step /\ d.step[ref] = e.step[ref]
                                 /\ c.step[ref].status # "waiting" => d.step[ref] = c.step[ref]
  BY DEF Onward
<1>2. \A ref \in DOMAIN d.step \ DOMAIN c.step : Live(c, ref[1], ref[2])
  BY DEF Onward
<1>3. /\ \A key \in DOMAIN c.attempt : key \in DOMAIN d.attempt /\ d.attempt[key] = c.attempt[key]
      /\ \A key \in DOMAIN c.branch : key \in DOMAIN d.branch /\ d.branch[key] = c.branch[key]
  BY DEF Onward
<1>4. ASSUME NEW key \in DOMAIN d.attempt \ DOMAIN c.attempt
      PROVE  Earns(c, key[1], key[3], Append(key[3], key[2]), d.attempt[key])
  <2>1. CASE key \in DOMAIN e.attempt
    <3>1. Earns(c, key[1], key[3], Append(key[3], key[2]), e.attempt[key]) /\ d.attempt[key] = e.attempt[key]
      BY <1>4, <2>1 DEF Onward
    <3> QED BY <3>1
  <2>2. CASE key \notin DOMAIN e.attempt
    BY <1>4, <2>2
  <2> QED BY <2>1, <2>2
<1>5. \A ref \in DOMAIN c.step : AgentFailed(c, e, ref) => AgentFailed(c, d, ref)
  BY <1>1 DEF AgentFailed
<1>6. ASSUME NEW key \in DOMAIN d.branch \ DOMAIN c.branch
      PROVE  /\ key = <<key[1], key[2]>> /\ key[2] \in Seq(Nat) /\ Len(key[2]) = Depth[key[1]] + 1
             /\ \/ Earns(c, key[1], Upto(key[2], key[1]), key[2], d.branch[key])
                \/ d.branch[key] = "failed" /\ \E ref \in DOMAIN c.step : AgentFailed(c, d, ref) /\ key = AgentKey(ref)
  <2>1. CASE key \in DOMAIN e.branch
    <3>1. d.branch[key] = e.branch[key]
      BY <2>1
    <3>2. /\ key = <<key[1], key[2]>> /\ key[2] \in Seq(Nat) /\ Len(key[2]) = Depth[key[1]] + 1
          /\ \/ Earns(c, key[1], Upto(key[2], key[1]), key[2], e.branch[key])
             \/ e.branch[key] = "failed" /\ \E ref \in DOMAIN c.step : AgentFailed(c, e, ref) /\ key = AgentKey(ref)
      BY <1>6, <2>1 DEF Onward
    <3> QED BY <1>5, <3>1, <3>2
  <2>2. CASE key \notin DOMAIN e.branch
    BY <1>6, <2>2
  <2> QED BY <2>1, <2>2
<1>7. \A key : Admitted(c, key) <= Admitted(d, key)
  <2> SUFFICES ASSUME NEW key PROVE Admitted(c, key) <= Admitted(d, key)
    OBVIOUS
  <2>1. Admitted(c, key) \in Nat /\ Admitted(d, key) \in Nat /\ Admitted(e, key) \in Nat
    BY AdmittedIs
  <2>2. Admitted(c, key) <= Admitted(e, key) /\ Admitted(e, key) <= Admitted(d, key)
    BY DEF Onward
  <2> QED BY <2>1, <2>2
<1>8. \A n, s : Admitted(c, <<n, s>>) # Admitted(d, <<n, s>>) => Live(c, n, s)
  BY DEF Onward
<1> QED BY <1>1, <1>2, <1>3, <1>4, <1>6, <1>7, <1>8 DEF Onward

LEMMA LinkedSame ==
    ASSUME copy' = cp'
    PROVE  Linked'
<1>1. \A ref : ~FailedSince(ref)'
  BY DEF FailedSince
<1> QED BY <1>1 DEF Linked

-----------------------------------------------------------------------------
(* What happens outside the walk.                                          *)

LEMMA OutsideStood ==
    ASSUME Stood, UNCHANGED <<copy, stack, ret>>, status = "live", status' \in {"live", "failed"}, Linked'
    PROVE  Stood'
<1>1. Sound(copy)'
  BY DEF Stood
<1>2. FailuresMarked'
  BY DEF Stood, FailuresMarked, Unwinding, Top
<1>3. Walking' => StackStands'
  BY DEF Stood, Walking, StackStands
<1> QED BY <1>1, <1>2, <1>3 DEF Stood

LEMMA SettleStood ==
    ASSUME BlockInv, Stood, Settle
    PROVE  Stood'
<1>1. PICK ref \in DOMAIN cp.step : /\ status = "live" /\ cp.step[ref].status = "waiting"
                                    /\ \E entry \in Successes(ref[1]) : cp' = [cp EXCEPT !.step[ref] = entry]
                                    /\ UNCHANGED <<copy, stack, ret, status>>
  BY DEF Settle
<1>2. PICK entry \in Successes(ref[1]) : cp' = [cp EXCEPT !.step[ref] = entry]
  BY <1>1
<1>3. entry.status = "succeeded"
  <2>1. PICK out \in IF ref[1] \in Range(Test) THEN BOOLEAN ELSE {FALSE} : entry = [status |-> "succeeded", out |-> out]
    BY DEF Successes
  <2> QED BY <2>1
<1>4. cp' = StepSet(cp, ref, entry)
  BY <1>2, StoreIs, SettledIs
<1>5. /\ cp'.step = With(cp.step, ref, entry) /\ cp'.attempt = cp.attempt /\ cp'.branch = cp.branch /\ cp'.admitted = cp.admitted
  BY <1>4, StoreIs, SetsAre
<1>6. /\ DOMAIN cp'.step = DOMAIN cp.step /\ cp'.step[ref].status = "succeeded"
      /\ \A r \in DOMAIN cp.step : r # ref => cp'.step[r] = cp.step[r]
  <2>1. Changed(cp'.step, cp.step, ref, entry)
    BY <1>5, ChangedIs
  <2> QED BY <1>3, <2>1 DEF Changed
<1>7. Linked
  BY DEF Stood
<1>8. copy.step[ref].status = "waiting" /\ DOMAIN copy.step = DOMAIN cp.step
  BY <1>1, <1>7 DEF Linked
<1>9. \A r \in DOMAIN copy.step : FailedSince(r)' <=> FailedSince(r)
  BY <1>1, <1>6, <1>8 DEF FailedSince
<1>10. Linked'
  BY <1>1, <1>5, <1>6, <1>7, <1>8, <1>9 DEF Linked, AgentKey
<1> QED BY <1>1, <1>10, OutsideStood

LEMMA FailStood ==
    ASSUME BlockInv, Stood, FailOutOfBand
    PROVE  Stood' /\ (status' = "failed" => AgentDown')
<1>1. PICK ref \in DOMAIN cp.step :
        /\ status = "live" /\ cp.step[ref].status = "waiting" /\ Kind[ref[1]] = "agent"
        /\ cp' = FailEnclosingBranch([cp EXCEPT !.step[ref] = Failure], ref)
        /\ status' = IF ref[1] \in KeepGoing \/ Waits(cp') THEN "live" ELSE "failed"
        /\ UNCHANGED <<copy, stack, ret>>
  BY DEF FailOutOfBand
<1> DEFINE e == [cp EXCEPT !.step[ref] = Failure]
           b == Around[ref[1]]
           key == AgentKey(ref)
<1>2. e = StepSet(cp, ref, Failure)
  BY <1>1, StoreIs, SettledIs
<1>3. e.step = With(cp.step, ref, Failure) /\ e.attempt = cp.attempt /\ e.branch = cp.branch /\ e.admitted = cp.admitted
      /\ e = [step |-> e.step, attempt |-> e.attempt, branch |-> e.branch, admitted |-> e.admitted]
  <2>2. cp = [step |-> cp.step, attempt |-> cp.attempt, branch |-> cp.branch, admitted |-> cp.admitted]
    BY StoreIs DEF CpOK
  <2>3. StepSet(cp, ref, Failure) = [step |-> With(cp.step, ref, Failure), attempt |-> cp.attempt, branch |-> cp.branch, admitted |-> cp.admitted]
    BY <2>2 DEF StepSet
  <2>4. e = [step |-> With(cp.step, ref, Failure), attempt |-> cp.attempt, branch |-> cp.branch, admitted |-> cp.admitted]
    BY <1>2, <2>3
  <2> HIDE DEF e
  <2> QED BY <2>4
<1> HIDE DEF e
<1>4. /\ cp'.step = With(cp.step, ref, Failure) /\ cp'.attempt = cp.attempt /\ cp'.admitted = cp.admitted
      /\ b = Root \/ ref[1] \in KeepGoing => cp'.branch = cp.branch
      /\ ~(b = Root \/ ref[1] \in KeepGoing) => cp'.branch = With(cp.branch, key, "failed")
  <2>1. CASE b = Root \/ ref[1] \in KeepGoing
    <3>1. cp' = e
      BY <1>1, <2>1 DEF FailEnclosingBranch, e
    <3> QED BY <1>3, <2>1, <3>1
  <2>2. CASE ~(b = Root \/ ref[1] \in KeepGoing)
    <3>1. cp' = [e EXCEPT !.branch = With(@, key, "failed")]
      BY <1>1, <2>2 DEF FailEnclosingBranch, e, AgentKey
    <3>2. cp'.step = e.step /\ cp'.attempt = e.attempt /\ cp'.admitted = e.admitted /\ cp'.branch = With(e.branch, key, "failed")
      <4> HIDE DEF key
      <4> QED BY <1>3, <3>1
    <3> QED BY <1>3, <2>2, <3>2
  <2> QED BY <2>1, <2>2
<1>5. /\ DOMAIN cp'.step = DOMAIN cp.step /\ cp'.step[ref].status = "failed"
      /\ \A r \in DOMAIN cp.step : r # ref => cp'.step[r] = cp.step[r]
  <2>1. Failure.status = "failed"
    BY DEF Failure
  <2>2. Changed(cp'.step, cp.step, ref, Failure)
    BY <1>4, ChangedIs
  <2> QED BY <2>1, <2>2 DEF Changed
<1>6. Linked /\ Sound(copy)
  BY DEF Stood
<1>7. copy.step[ref].status = "waiting" /\ DOMAIN copy.step = DOMAIN cp.step
  BY <1>1, <1>6 DEF Linked
<1>8. Live(copy, ref[1], ref[2]) /\ ref = <<ref[1], ref[2]>> /\ Leaf(ref[1]) /\ ref[1] \in Steps
  BY <1>6, <1>7, StoreIs, WaitIsLive
<1>9. b # Root => key \notin DOMAIN copy.branch
  <2> SUFFICES ASSUME b # Root PROVE key \notin DOMAIN copy.branch
    OBVIOUS
  <2>1. b \in Above[ref[1]] /\ Concurrent(b)
    BY <1>8, AroundInner
  <2>2. ~Over(copy, ref[1], ref[2])
    BY <1>8, LiveIs
  <2> QED BY <2>1, <2>2 DEF Over, AgentKey
<1>10. \A r \in DOMAIN copy.step : r # ref => (FailedSince(r)' <=> FailedSince(r))
  BY <1>1, <1>5, <1>7 DEF FailedSince
<1>11. FailedSince(ref)' <=> ref[1] \notin KeepGoing
  BY <1>1, <1>5, <1>7 DEF FailedSince
<1>12. ~FailedSince(ref)
  BY <1>1 DEF FailedSince
<1>13. \A k \in DOMAIN copy.branch : k \in DOMAIN cp'.branch /\ cp'.branch[k] = copy.branch[k]
  <2>1. \A k \in DOMAIN copy.branch : k \in DOMAIN cp.branch /\ cp.branch[k] = copy.branch[k]
    BY <1>6 DEF Linked
  <2>2. CASE b = Root \/ ref[1] \in KeepGoing
    BY <1>4, <2>1, <2>2
  <2>3. CASE ~(b = Root \/ ref[1] \in KeepGoing)
    <3> HIDE DEF key
    <3>1. Changed(cp'.branch, cp.branch, key, "failed")
      BY <1>4, <2>3, ChangedIs
    <3>2. key \notin DOMAIN copy.branch
      BY <1>9, <2>3
    <3> QED BY <2>1, <3>1, <3>2 DEF Changed
  <2> QED BY <2>2, <2>3
<1>14. ASSUME NEW k \in DOMAIN cp'.branch \ DOMAIN copy.branch
       PROVE  cp'.branch[k] = "failed" /\ \E r \in DOMAIN copy.step :
                 FailedSince(r)' /\ Kind[r[1]] = "agent" /\ Around[r[1]] # Root /\ k = AgentKey(r)
  <2>1. ASSUME k \in DOMAIN cp.branch, cp'.branch[k] = cp.branch[k]
        PROVE  cp'.branch[k] = "failed" /\ \E r \in DOMAIN copy.step :
                 FailedSince(r)' /\ Kind[r[1]] = "agent" /\ Around[r[1]] # Root /\ k = AgentKey(r)
    <3>1. cp.branch[k] = "failed" /\ \E r \in DOMAIN copy.step :
              FailedSince(r) /\ Kind[r[1]] = "agent" /\ Around[r[1]] # Root /\ k = AgentKey(r)
      BY <1>6, <1>14, <2>1 DEF Linked
    <3> QED BY <1>10, <1>12, <2>1, <3>1
  <2>2. CASE b = Root \/ ref[1] \in KeepGoing
    BY <1>4, <1>14, <2>1, <2>2
  <2>3. CASE ~(b = Root \/ ref[1] \in KeepGoing)
    <3>1. cp'.branch = With(cp.branch, key, "failed")
      BY <1>4, <2>3
    <3>5. Changed(cp'.branch, cp.branch, key, "failed")
      <4> HIDE DEF key
      <4> QED BY <3>1, ChangedIs
    <3>2. k = key \/ (k # key /\ k \in DOMAIN cp.branch /\ cp'.branch[k] = cp.branch[k])
      <4> HIDE DEF key
      <4> QED BY <1>14, <3>5 DEF Changed
    <3>3. CASE k = key
      <4>1. cp'.branch[k] = "failed"
        <5> HIDE DEF key
        <5> QED BY <3>3, <3>5 DEF Changed
      <4> QED BY <1>1, <1>7, <1>11, <2>3, <3>3, <4>1
    <3> QED BY <2>1, <3>2, <3>3
  <2> QED BY <2>2, <2>3
<1>15. ASSUME status' = "live", NEW r \in DOMAIN copy.step, FailedSince(r)'
       PROVE  Around[r[1]] # Root /\ AgentKey(r) \in DOMAIN cp'.branch
  <2>1. CASE r # ref
    <3>1. FailedSince(r)
      BY <1>10, <1>15, <2>1
    <3>2. Around[r[1]] # Root /\ AgentKey(r) \in DOMAIN cp.branch
      BY <1>1, <1>6, <3>1 DEF Linked
    <3>3. DOMAIN cp.branch \subseteq DOMAIN cp'.branch
      <4> HIDE DEF key
      <4>1. b = Root \/ ref[1] \in KeepGoing \/ Changed(cp'.branch, cp.branch, key, "failed")
        BY <1>4, ChangedIs
      <4> QED BY <1>4, <4>1 DEF Changed
    <3> QED BY <3>2, <3>3
  <2>2. CASE r = ref
    <3>1. ref[1] \notin KeepGoing
      BY <1>11, <1>15, <2>2
    <3>2. PICK other \in DOMAIN cp'.step : cp'.step[other].status = "waiting"
      BY <1>1, <1>15, <3>1 DEF Waits
    <3>3. other # ref /\ other \in DOMAIN copy.step /\ cp.step[other].status = "waiting"
      BY <1>5, <1>7, <3>2
    <3>4. copy.step[other].status = "waiting"
      BY <1>6, <3>3 DEF Linked
    <3>5. Live(copy, other[1], other[2]) /\ other = <<other[1], other[2]>> /\ Leaf(other[1]) /\ other[1] \in Steps
      BY <1>6, <3>3, <3>4, StoreIs, WaitIsLive
    <3>6. b # Root
      <4> SUFFICES ASSUME b = Root PROVE FALSE
        OBVIOUS
      <4>1. ASSUME NEW x, NEW y, x = <<x[1], x[2]>>, y = <<y[1], y[2]>>, Live(copy, x[1], x[2]), Live(copy, y[1], y[2]),
                   Leaf(x[1]), x[1] \in Chain(y[1]), Upto(y[2], x[1]) = x[2]
            PROVE  x = y
        <5>1. PlaceOf(x[1], x[2]) /\ PlaceOf(y[1], y[2])
          BY <4>1, LiveIs
        <5>2. x[1] \in Steps /\ y[1] \in Steps /\ Upto(y[2], y[1]) = y[2]
          BY <5>1, PlaceIs
        <5>3. x[1] = y[1]
          BY <4>1, <5>2, LeafAlone
        <5> QED BY <4>1, <5>2, <5>3
      <4>2. ~(ref[1] \in Chain(other[1]) /\ Upto(other[2], ref[1]) = ref[2])
        BY <1>8, <3>3, <3>5, <4>1
      <4>3. ~(other[1] \in Chain(ref[1]) /\ Upto(ref[2], other[1]) = other[2])
        BY <1>8, <3>3, <3>5, <4>1
      <4>4. \E x \in Above[ref[1]] : Concurrent(x)
        BY <1>8, <3>5, <4>2, <4>3, Diverge
      <4> QED BY <1>8, <4>4, AroundInner
    <3>7. key \in DOMAIN cp'.branch
      <4> HIDE DEF key
      <4>1. Changed(cp'.branch, cp.branch, key, "failed")
        BY <1>4, <3>1, <3>6, ChangedIs
      <4> QED BY <4>1 DEF Changed
    <3> QED BY <2>2, <3>6, <3>7
  <2> QED BY <2>1, <2>2
<1>16. Linked'
  <2>1. DOMAIN cp'.step = DOMAIN copy'.step
    BY <1>1, <1>5, <1>7
  <2>2. \A r \in DOMAIN copy'.step : copy'.step[r].status # "waiting" => cp'.step[r] = copy'.step[r]
    BY <1>1, <1>5, <1>6, <1>7 DEF Linked
  <2>3. cp'.attempt = copy'.attempt /\ cp'.admitted = copy'.admitted
    BY <1>1, <1>4, <1>6 DEF Linked
  <2> QED BY <1>1, <1>13, <1>14, <1>15, <2>1, <2>2, <2>3 DEF Linked, AgentKey
<1>17. status' = "failed" => AgentDown'
  BY <1>1, <1>5 DEF AgentDown
<1> QED BY <1>1, <1>16, <1>17, OutsideStood

LEMMA OverStays ==
    ASSUME NEW c, NEW d, Later(c, d), NEW n, NEW s, Over(c, n, s)
    PROVE  Over(d, n, s)
<1>1. DOMAIN c.attempt \subseteq DOMAIN d.attempt /\ DOMAIN c.branch \subseteq DOMAIN d.branch
  BY DEF Later
<1> QED BY <1>1 DEF Over

(* The run outside the walk.                                               *)
LEMMA InitStood ==
    ASSUME Init
    PROVE  Stood
<1>1. Sound(copy)
  BY DEF Init, EmptyCp, Sound, KeysShaped, StepsReached, AttemptsTrue, BranchesTrue, NoWaitBehind
<1>2. Linked
  BY DEF Init, EmptyCp, Linked, FailedSince
<1>3. FailuresMarked
  BY DEF Init, EmptyCp, FailuresMarked
<1> QED BY <1>1, <1>2, <1>3 DEF Stood, Init, Walking

LEMMA CrashStood ==
    ASSUME Stood, Crash
    PROVE  lost' \/ Stood'
<1>1. UNCHANGED <<cp, copy, status>> /\ stack' = <<>> /\ (lost' \/ status # "live" \/ ret # "failed")
  BY DEF Crash
<1>2. Sound(copy)' /\ Linked' /\ (status = "succeeded" => Meaning = "done")'
  BY <1>1 DEF Stood, Linked, FailedSince, AgentKey, Meaning
<1>3. CASE lost'
  BY <1>3
<1>4. CASE ~lost'
  <2>1. (status = "live" => FailuresMarked)'
    BY <1>1, <1>4 DEF Stood, FailuresMarked, Unwinding
  <2> QED BY <1>1, <1>2, <2>1 DEF Stood, Walking
<1> QED BY <1>3, <1>4

LEMMA DropStood ==
    ASSUME Stood, DropWalk
    PROVE  Stood'
<1>1. UNCHANGED <<cp, copy, status>> /\ stack' = <<>> /\ status # "live"
  BY DEF DropWalk
<1>2. Sound(copy)' /\ Linked' /\ (status = "succeeded" => Meaning = "done")'
  BY <1>1 DEF Stood, Linked, FailedSince, AgentKey, Meaning
<1> QED BY <1>1, <1>2 DEF Stood, Walking

LEMMA RootBody ==
    ASSUME NEW c
    PROVE  /\ <<>> \in Seq(Nat) /\ Len(<<>>) = Inner(Root) /\ Ready(c, Root, <<>>)
           /\ TakenBody(c, Root, <<>>) = Body[Root][1]
<1>1. Root \in DOMAIN Body /\ Inner(Root) = 0 /\ Kind[Root] = "root" /\ ~Concurrent(Root)
  BY RootIs, TreeAssumption DEF Concurrent
<1>2. <<>> \in Seq(Nat) /\ Len(<<>>) = Inner(Root)
  BY <1>1
<1>3. PassOK(c, Root, <<>>)
  BY <1>1 DEF PassOK
<1> QED BY <1>1, <1>2, <1>3 DEF Ready, TakenBody, Taken

LEMMA BeginStood ==
    ASSUME Plain, BlockInv, Stood, BeginWalk
    PROVE  Stood'
<1> DEFINE f == Frame(Root, <<>>, 0)
<1>1. copy' = cp /\ cp' = cp /\ stack' = <<f>> /\ ret' = "none" /\ stack = <<>> /\ status' = "live" /\ status = "live"
  BY DEF BeginWalk
<1>2. Later(copy, cp) /\ Sound(cp) /\ Linked /\ Sound(copy) /\ FailuresMarked
  BY <1>1, StoreFollows DEF Stood
<1>3. ASSUME NEW ref \in DOMAIN cp.step, cp.step[ref].status = "failed", ref[1] \notin KeepGoing
      PROVE  Over(cp, ref[1], ref[2])
  <2>1. ref \in DOMAIN copy.step
    BY <1>2 DEF Linked
  <2>2. CASE copy.step[ref].status = "waiting"
    <3>1. Around[ref[1]] # Root /\ AgentKey(ref) \in DOMAIN cp.branch
      BY <1>1, <1>2, <1>3, <2>1, <2>2 DEF Linked, FailedSince
    <3>2. ref[1] \in Steps
      BY <2>1, <1>2, StoreIs, WaitIsLive, <2>2
    <3>3. Around[ref[1]] \in Above[ref[1]] /\ Concurrent(Around[ref[1]])
      BY <3>1, <3>2, AroundInner
    <3> QED BY <3>1, <3>3 DEF Over, AgentKey
  <2>3. CASE copy.step[ref].status # "waiting"
    <3>1. copy.step[ref].status = "failed"
      BY <1>2, <1>3, <2>1, <2>3 DEF Linked
    <3>2. Over(copy, ref[1], ref[2])
      BY <1>1, <1>2, <1>3, <2>1, <3>1 DEF FailuresMarked, Unwinding
    <3> QED BY <1>2, <3>2, OverStays
  <2> QED BY <2>2, <2>3
<1>4. FailuresMarked'
  BY <1>1, <1>3 DEF FailuresMarked
<1>5. Stands(cp, f)
  <2>1. f.node = Root /\ f.pos = 1 /\ f.at = <<>> /\ SuffixOf(f) = <<>>
    BY RootIs DEF Frame, SuffixOf
  <2>2. Kind[Root] = "root" /\ ~Concurrent(Root)
    BY TreeAssumption DEF Concurrent
  <2>3. BodyOf(f) = Body[Root][1]
    BY <2>1, <2>2 DEF BodyOf
  <2>4. Clear(cp, Root, <<>>, 1)
    BY DEF Clear
  <2> HIDE DEF f
  <2>5. InPass(cp, f)
    BY <2>1, <2>2, <2>3, <2>4, RootBody DEF InPass, Unmarked
  <2> QED BY <2>1, <2>2, <2>5 DEF Stands
<1>6. StackStands'
  <2> HIDE DEF f
  <2>1. DOMAIN stack' = {1} /\ stack'[1] = f
    BY <1>1
  <2>2. \A i \in DOMAIN stack' : Stands(copy', stack'[i])
    BY <1>1, <1>5, <2>1
  <2>3. Returns(copy', stack', ret')
    BY <1>1 DEF Returns
  <2> QED BY <2>2, <2>3 DEF StackStands
<1>7. Linked'
  BY <1>1, LinkedSame
<1> QED BY <1>1, <1>2, <1>4, <1>6, <1>7 DEF Stood

(* The verdict of a walk is what the leaves on record mean.                *)
LEMMA EndMeans ==
    ASSUME Plain, BlockInv, Stood, EndWalk, ret \in {"done", "failed"}
    PROVE  Meaning = ret
<1>1. Walking /\ Len(stack) = 1
  BY DEF EndWalk
<1>2. Sound(copy) /\ Linked /\ StackStands
  BY <1>1 DEF Stood
<1>3. Later(copy, cp) /\ Sound(cp)
  BY <1>2, StoreFollows
<1>4. Nested(stack) /\ stack # <<>>
  BY <1>1 DEF BlockInv, WalkOK, Walking
<1>5. Last(stack) = stack[1] /\ FrameOK(stack[1]) /\ DOMAIN stack = 1..1
  BY <1>1, <1>4, TopIs
<1>6. stack[1].node = Root
  <2>1. \A b \in Above[stack[1].node] : \E j \in 1..1 - 1 : stack[j].node = b
    BY <1>4, <1>5 DEF Nested, Level
  <2>2. stack[1].node \in DOMAIN Body
    BY <1>5 DEF FrameOK, Frames
  <2>3. Above[stack[1].node] = {}
    BY <2>1
  <2>4. stack[1].node = Root \/ stack[1].node \in Steps
    BY <2>2, BlockIs
  <2> QED BY <2>3, <2>4, RootAbove
<1>7. SuffixOf(stack[1]) = <<>>
  <2>1. stack[1].at \in Seq(Nat) /\ Len(stack[1].at) = 0
    BY <1>5, <1>6, RootIs DEF FrameOK, Frames
  <2>2. stack[1].at = <<>>
    BY <2>1
  <2> QED BY <1>6, <2>2, RootIs DEF SuffixOf
<1>8. BodyOf(stack[1]) = Body[Root][1]
  <2>1. Kind[Root] = "root"
    BY TreeAssumption
  <2> QED BY <1>6, <2>1 DEF BodyOf
<1>9. BlockValue(copy, Root, <<>>) = ret
  <2>1. BodyValue(Replay(copy), BodyOf(stack[1]), SuffixOf(stack[1])) = ret
    BY <1>2, <1>3, <1>5 DEF StackStands, Returns
  <2> QED BY <1>7, <1>8, <2>1, RootBody DEF BlockValue
<1>10. BlockValue(cp, Root, <<>>) = ret
  <2>1. /\ Ready(copy, Root, <<>>) /\ <<>> \in Seq(Nat) /\ Len(<<>>) = Inner(Root) /\ Root \in DOMAIN Body
    BY RootBody, RootIs
  <2>2. ConditionsSettled /\ Later(copy, cp)
    BY <1>3 DEF Plain
  <2>3. BlockValue(copy, Root, <<>>) # "open" => BlockValue(cp, Root, <<>>) = BlockValue(copy, Root, <<>>)
    BY <2>1, <2>2, BodyStays
  <2> QED BY <1>9, <2>3
<1>11. \A k \in Steps : Faithful(cp, k)
  BY <1>3, StoreIs, ReplayMeans
<1>12. BodyValue(Means(cp), TakenBody(cp, Root, <<>>), <<>>) = ret
  BY <1>10, <1>11, RootBody, RootIs, BodyMeans
<1> QED BY <1>12, RootBody DEF Meaning

LEMMA EndStood ==
    ASSUME Plain, BlockInv, Stood, EndWalk
    PROVE  Stood'
<1>1. /\ Walking /\ ret # "none" /\ Len(stack) = 1 /\ stack' = <<>> /\ UNCHANGED <<cp, copy>> /\ status = "live"
      /\ status' = CASE ret = "done" -> "succeeded" [] ret = "failed" -> "failed" [] OTHER -> "live"
  BY DEF EndWalk, Walking
<1>2. Sound(copy) /\ Linked /\ FailuresMarked /\ StackStands
  BY <1>1 DEF Stood
<1>4. Linked'
  BY <1>1, <1>2 DEF Linked, FailedSince, AgentKey
<1>5. (status = "live" => FailuresMarked)'
  <2>1. SUFFICES ASSUME status' = "live" PROVE FailuresMarked'
    OBVIOUS
  <2>2. ret # "failed"
    BY <1>1, <2>1
  <2> QED BY <1>1, <1>2, <2>2 DEF FailuresMarked, Unwinding
<1>6. ASSUME status' = "succeeded" PROVE Meaning = "done"
  <2>1. ret = "done"
    BY <1>1, <1>6
  <2> QED BY <2>1, EndMeans
<1>7. (status = "succeeded" => Meaning = "done")'
  BY <1>1, <1>6 DEF Meaning
<1> QED BY <1>1, <1>2, <1>4, <1>5, <1>7 DEF Stood, Walking

-----------------------------------------------------------------------------
(* The frames of the walk and the places they stand for.                   *)

LEMMA FrameCut ==
    ASSUME NEW f, FrameOK(f), NEW n, NEW s, PlaceOf(n, s), Within(f, n, s)
    PROVE  /\ f.node \in Above[n] /\ Upto(s, f.node) = f.at
           /\ SubSeq(s, 1, Inner(f.node)) = SuffixOf(f)
           /\ Consumes(f.node) => PassIn(f.node, s) = f.pass
<1>1. /\ n \in Steps /\ s \in Seq(Nat) /\ Len(s) \in Nat /\ f.node \in Above[n] /\ Begins(s, SuffixOf(f))
      /\ f.node \in DOMAIN Body /\ f.at \in Seq(Nat) /\ Len(f.at) = Depth[f.node]
  BY PlaceIs DEF Within, FrameOK, Frames
<1>2. Depth[f.node] \in Nat /\ Inner(f.node) \in Nat /\ Depth[f.node] <= Inner(f.node)
  BY <1>1, BlockIs
<1>3. /\ SuffixOf(f) \in Seq(Nat) /\ Begins(SuffixOf(f), f.at) /\ Len(SuffixOf(f)) = Inner(f.node)
      /\ Consumes(f.node) => SuffixOf(f)[Depth[f.node] + 1] = f.pass
  BY SuffixIs, <1>2 DEF Inner
<1> DEFINE u == SuffixOf(f)
           k == Inner(f.node)
           h == Depth[f.node]
<1>4. k <= Len(s) /\ \A i \in 1..k : s[i] = u[i]
  BY <1>1, <1>3 DEF Begins
<1>5. \A i \in 1..h : u[i] = f.at[i]
  BY <1>1, <1>3 DEF Begins
<1>6. h <= Len(s)
  BY <1>1, <1>2, <1>4
<1>7. Consumes(f.node) => k = h + 1
  BY DEF Inner
<1>8. SubSeq(s, 1, k) \in Seq(Nat) /\ Len(SubSeq(s, 1, k)) = k /\ \A i \in 1..k : SubSeq(s, 1, k)[i] = s[i]
  BY <1>1, <1>2, <1>4, CutShort
<1>9. SubSeq(s, 1, h) \in Seq(Nat) /\ Len(SubSeq(s, 1, h)) = h /\ \A i \in 1..h : SubSeq(s, 1, h)[i] = s[i]
  BY <1>1, <1>2, <1>6, CutShort
<1>10. ASSUME NEW x \in Seq(Nat), NEW y \in Seq(Nat), Len(x) = Len(y), \A i \in 1..Len(x) : x[i] = y[i]
       PROVE  x = y
  BY <1>10, SeqEqual
<1> HIDE DEF u, k, h
<1>11. SubSeq(s, 1, k) = u
  BY <1>3, <1>4, <1>8, <1>10 DEF u, k
<1>12. \A i \in 1..h : s[i] = f.at[i]
  BY <1>2, <1>4, <1>5 DEF h, k
<1>13. SubSeq(s, 1, h) = f.at
  BY <1>1, <1>9, <1>10, <1>12 DEF h
<1>14. Consumes(f.node) => s[h + 1] = f.pass
  BY <1>2, <1>3, <1>4, <1>7 DEF h, k, u
<1> QED BY <1>1, <1>11, <1>13, <1>14 DEF h, k, u, Upto, PassIn

(* What a frame is, put as a place.                                        *)
LEMMA FramePlace ==
    ASSUME NEW f, FrameOK(f)
    PROVE  /\ f.node \in DOMAIN Body /\ f.at \in Seq(Nat) /\ f.pass \in Nat /\ f.pos \in Nat
           /\ SuffixOf(f) \in Seq(Nat) /\ Len(SuffixOf(f)) = Inner(f.node)
           /\ Upto(SuffixOf(f), f.node) = f.at
           /\ Consumes(f.node) => PassIn(f.node, SuffixOf(f)) = f.pass /\ SuffixOf(f) = Append(f.at, f.pass)
           /\ ~Consumes(f.node) => SuffixOf(f) = f.at
           /\ f.node # Root => PlaceOf(f.node, f.at)
<1>1. f.node \in DOMAIN Body /\ f.at \in Seq(Nat) /\ f.pass \in Nat /\ f.pos \in Nat /\ Len(f.at) = Depth[f.node]
  BY DEF FrameOK, Frames
<1>2. Depth[f.node] \in Nat /\ Inner(f.node) \in Nat
  BY <1>1, BlockIs
<1>3. SuffixOf(f) \in Seq(Nat) /\ Len(SuffixOf(f)) = Inner(f.node)
      /\ (Consumes(f.node) => SuffixOf(f)[Depth[f.node] + 1] = f.pass)
  BY SuffixIs, <1>2 DEF Inner
<1>4. f.node # Root => PlaceOf(f.node, f.at)
  BY <1>1, BlockIs DEF PlaceOf
<1>5. Upto(SuffixOf(f), f.node) = f.at
  <2>1. CASE Consumes(f.node)
    <3>1. SuffixOf(f) = Append(f.at, f.pass)
      BY <2>1 DEF SuffixOf
    <3>2. SubSeq(Append(f.at, f.pass), 1, Depth[f.node]) = SubSeq(f.at, 1, Depth[f.node])
      BY <1>1, <1>2, CutShort
    <3>3. SubSeq(f.at, 1, Len(f.at)) = f.at
      BY <1>1, <1>2, CutShort
    <3> QED BY <1>1, <3>1, <3>2, <3>3 DEF Upto
  <2>2. CASE ~Consumes(f.node)
    <3>1. SuffixOf(f) = f.at
      BY <2>2 DEF SuffixOf
    <3>2. SubSeq(f.at, 1, Len(f.at)) = f.at
      BY <1>1, <1>2, CutShort
    <3> QED BY <1>1, <3>1, <3>2 DEF Upto
  <2> QED BY <2>1, <2>2
<1> QED BY <1>1, <1>3, <1>4, <1>5 DEF SuffixOf, PassIn

AllStand(c, stk) == \A i \in DOMAIN stk : Stands(c, stk[i])

(* A frame that covers a step has no marker of its own just when the step  *)
(* is not over by it.                                                      *)
LEMMA MarkedByFrame ==
    ASSUME NEW f, FrameOK(f), NEW n, NEW s, PlaceOf(n, s), Within(f, n, s), NEW c
    PROVE  /\ ~Over(c, n, s) => Unmarked(c, f)
           /\ Unmarked(c, f) => /\ ~(Kind[f.node] = "retry" /\ Attempt(f.node, Upto(s, f.node), PassIn(f.node, s)) \in DOMAIN c.attempt)
                                /\ ~(Concurrent(f.node) /\ Branch(f.node, SubSeq(s, 1, Depth[f.node] + 1)) \in DOMAIN c.branch)
<1>1. /\ f.node \in Above[n] /\ Upto(s, f.node) = f.at /\ SubSeq(s, 1, Inner(f.node)) = SuffixOf(f)
      /\ Consumes(f.node) => PassIn(f.node, s) = f.pass
  BY FrameCut
<1>2. Kind[f.node] = "retry" \/ Concurrent(f.node) => Consumes(f.node) /\ Inner(f.node) = Depth[f.node] + 1
  <2>1. Kind[Root] = "root"
    BY TreeAssumption
  <2> QED BY <2>1 DEF Consumes, Concurrent, Inner
<1>3. Kind[f.node] = "retry" => Attempt(f.node, Upto(s, f.node), PassIn(f.node, s)) = Attempt(f.node, f.at, f.pass)
  BY <1>1, <1>2
<1>4. Concurrent(f.node) => Branch(f.node, SubSeq(s, 1, Depth[f.node] + 1)) = Branch(f.node, SuffixOf(f))
  BY <1>1, <1>2
<1>5. ~Over(c, n, s) => Unmarked(c, f)
  BY <1>1, <1>3, <1>4 DEF Over, Unmarked
<1> QED BY <1>3, <1>4, <1>5 DEF Unmarked

(* The place the innermost frame leads to.                                 *)
LEMMA PlaceStands ==
    ASSUME NEW stk, Nested(stk), stk # <<>>, NEW c, AllStand(c, stk), NEW n, NEW s, Leads(Last(stk), n, s)
    PROVE  /\ PlaceOf(n, s) /\ Parent[n] = Last(stk).node
           /\ Reached(c, n, s) /\ ~Over(c, n, s)
           /\ \A i \in DOMAIN stk : stk[i].pos \in DOMAIN BodyOf(stk[i]) /\ stk[i].pos > 0 /\ FrameOK(stk[i])
                                    /\ Within(stk[i], n, s)
<1> DEFINE f == Last(stk)
<1>1. /\ Len(stk) \in DOMAIN stk /\ DOMAIN stk = 1..Len(stk) /\ Len(stk) \in Nat \ {0}
      /\ f = stk[Len(stk)] /\ FrameOK(f)
  BY TopIs
<1>2. /\ n \in Steps /\ Parent[n] = f.node /\ s \in Seq(Nat) /\ Len(s) = Depth[n] /\ s = SuffixOf(f)
      /\ f.pos \in DOMAIN BodyOf(f) /\ BodyOf(f)[f.pos] = n
  BY <1>1, LeadsIn DEF Leads
<1>3. PlaceOf(n, s)
  BY <1>2 DEF PlaceOf
<1>4. /\ \A b \in Above[n] : \E j \in DOMAIN stk : stk[j].node = b
      /\ \A j \in DOMAIN stk : Within(stk[j], n, s)
  BY Covered
<1>5. ASSUME NEW i \in DOMAIN stk
      PROVE  stk[i].pos \in DOMAIN BodyOf(stk[i]) /\ stk[i].pos > 0 /\ FrameOK(stk[i])
  <2>1. FrameOK(stk[i])
    BY DEF Nested, Level
  <2>2. stk[i].pos \in DOMAIN BodyOf(stk[i])
    <3>1. CASE i = Len(stk)
      BY <1>1, <1>2, <3>1
    <3>2. CASE i # Len(stk)
      <4>1. i + 1 \in DOMAIN stk /\ i + 1 > 1 /\ (i + 1) - 1 = i
        BY <1>1, <3>2
      <4>2. Leads(stk[(i + 1) - 1], stk[i + 1].node, stk[i + 1].at)
        BY <4>1 DEF Nested, Level
      <4> QED BY <4>1, <4>2 DEF Leads
    <3> QED BY <3>1, <3>2
  <2>3. BodyOf(stk[i]) \in Seq(Steps)
    BY <2>1, BodyIs
  <2> QED BY <2>1, <2>2, <2>3
<1>6. ~Over(c, n, s)
  <2> SUFFICES ASSUME NEW b \in Above[n],
                      \/ Kind[b] = "retry" /\ Attempt(b, Upto(s, b), PassIn(b, s)) \in DOMAIN c.attempt
                      \/ Concurrent(b) /\ Branch(b, SubSeq(s, 1, Depth[b] + 1)) \in DOMAIN c.branch
               PROVE  FALSE
    BY DEF Over
  <2>1. PICK j \in DOMAIN stk : stk[j].node = b
    BY <1>4
  <2>2. Unmarked(c, stk[j])
    BY <1>5 DEF AllStand, Stands, InPass
  <2> QED BY <1>3, <1>4, <1>5, <2>1, <2>2, MarkedByFrame
<1>7. Reached(c, n, s)
  <2>1. InPass(c, f)
    BY <1>1, <1>5 DEF AllStand, Stands
  <2>2. /\ Ready(c, f.node, s) /\ BodyOf(f) = TakenBody(c, f.node, s) /\ Clear(c, f.node, s, f.pos)
    BY <1>2, <2>1 DEF InPass
  <2>3. f.node \in DOMAIN Body /\ Len(s) = Inner(f.node)
    BY <1>1, <1>2, FramePlace
  <2> HIDE DEF f
  <2> QED BY <1>2, <2>2, <2>3, ReachedIn
<1> QED BY <1>2, <1>3, <1>4, <1>5, <1>6, <1>7

(* The walk comes out of a step with what the step is worth.               *)
LEMMA AfterStands ==
    ASSUME NEW stk, Nested(stk), stk # <<>>, NEW c, AllStand(c, stk), NEW n, NEW s, Leads(Last(stk), n, s),
           NEW r \in Results, After(stk, r),
           r = "done" => Kept(Replay(c), n, s),
           r \in {"failed", "broke"} => Replay(c)[<<n, s>>] = r
    PROVE  AllStand(c, stack') /\ Returns(c, stack', ret')
<1> DEFINE f == Last(stk)
           ends == r \in {"parked", "broke"} \/ (r = "failed" /\ BodyOf(f)[f.pos] \notin KeepGoing)
           g == [f EXCEPT !.pos = @ + 1]
<1>1. /\ Len(stk) \in DOMAIN stk /\ f = stk[Len(stk)] /\ FrameOK(f) /\ stk \in Seq(Frames)
  BY TopIs DEF Nested
<1>2. f.pos \in DOMAIN BodyOf(f) /\ BodyOf(f)[f.pos] = n /\ s = SuffixOf(f) /\ f.pos > 0 /\ f.pos \in Nat
  BY <1>1, PlaceStands, FramePlace DEF Leads
<1>3. Stands(c, f) /\ InPass(c, f)
  BY <1>1, <1>2 DEF AllStand, Stands
<1>4. /\ ret' = IF ends THEN r ELSE "none"
      /\ stack' = IF ends THEN stk ELSE [stk EXCEPT ![Len(stk)] = g]
  BY <1>1 DEF After
<1>5. CASE ends
  <2>1. ret' = r /\ stack' = stk
    BY <1>4, <1>5
  <2>2. ASSUME r \in {"done", "failed", "broke"}
        PROVE  BodyValue(Replay(c), BodyOf(f), SuffixOf(f)) = r
    <3>1. r \in {"failed", "broke"} /\ (r = "failed" => n \notin KeepGoing)
      BY <1>2, <1>5, <2>2
    <3>2. Replay(c)[<<n, s>>] = r /\ ~Kept(Replay(c), n, s)
      BY <3>1 DEF Kept
    <3>3. \A i \in 1..f.pos - 1 : Kept(Replay(c), BodyOf(f)[i], s)
      BY <1>2, <1>3 DEF InPass, Clear
    <3>4. BodyOf(f) \in Seq(Steps)
      BY <1>1, BodyIs
    <3> HIDE DEF f
    <3> QED BY <1>2, <3>2, <3>3, <3>4, BodyFacts
  <2>3. Returns(c, stk, r)
    BY <1>2, <2>2 DEF Returns
  <2> QED BY <2>1, <2>3
<1>6. CASE ~ends
  <2>1. ret' = "none" /\ stack' = [stk EXCEPT ![Len(stk)] = g]
    BY <1>4, <1>6
  <2>2. Kept(Replay(c), n, s)
    BY <1>2, <1>6 DEF Results, Kept
  <2>3. /\ g.node = f.node /\ g.at = f.at /\ g.pass = f.pass /\ g.pos = f.pos + 1 /\ g.rest = f.rest /\ g.parked = f.parked
    BY <1>1 DEF FrameOK, Frames
  <2>4. SuffixOf(g) = SuffixOf(f) /\ BodyOf(g) = BodyOf(f)
    BY <2>3 DEF SuffixOf, BodyOf
  <2>5. BodyOf(f) = TakenBody(c, f.node, s) /\ Clear(c, f.node, s, f.pos)
    BY <1>2, <1>3 DEF InPass
  <2>6. Clear(c, f.node, s, f.pos + 1)
    <3> SUFFICES ASSUME NEW i \in 1..f.pos PROVE Kept(Replay(c), TakenBody(c, f.node, s)[i], s)
      BY <1>2 DEF Clear
    <3>1. CASE i = f.pos
      BY <1>2, <2>2, <2>5, <3>1
    <3>2. CASE i # f.pos
      <4>1. i \in 1..f.pos - 1
        BY <1>2, <3>2
      <4> QED BY <2>5, <4>1 DEF Clear
    <3> QED BY <3>1, <3>2
  <2> HIDE DEF g, f
  <2>7. InPass(c, g)
    BY <1>2, <1>3, <2>3, <2>4, <2>6 DEF InPass, Unmarked
  <2>8. Concurrent(g.node) => Progress(c, g)
    <3>1. Concurrent(f.node) => Progress(c, f)
      BY <1>3 DEF Stands
    <3> QED BY <1>2, <2>3, <3>1 DEF Progress
  <2>9. Stands(c, g)
    BY <1>3, <2>3, <2>7, <2>8 DEF Stands
  <2>10. ASSUME NEW i \in DOMAIN stack' PROVE Stands(c, stack'[i])
    <3>1. i \in DOMAIN stk /\ (i = Len(stk) => stack'[i] = g) /\ (i # Len(stk) => stack'[i] = stk[i])
      BY <1>1, <2>1
    <3> QED BY <2>9, <3>1 DEF AllStand
  <2>11. Returns(c, stack', ret')
    BY <2>1 DEF Returns
  <2> QED BY <2>10, <2>11 DEF AllStand
<1> QED BY <1>5, <1>6

LEMMA WalkIs ==
    ASSUME BlockInv, Stood, Walking
    PROVE  /\ Sound(copy) /\ Linked /\ FailuresMarked /\ AllStand(copy, stack) /\ Returns(copy, stack, ret)
           /\ Nested(stack) /\ stack # <<>> /\ status = "live" /\ ret \in Results \cup {"none"}
           /\ CpOK(cp) /\ CpOK(copy) /\ CpInv(cp) /\ Known(stack, cp)
           /\ Len(stack) \in DOMAIN stack /\ Top = stack[Len(stack)] /\ FrameOK(Top) /\ Stands(copy, Top)
<1>1. Sound(copy) /\ Linked /\ FailuresMarked /\ AllStand(copy, stack) /\ Returns(copy, stack, ret)
  BY DEF Stood, Walking, StackStands, AllStand
<1>2. Nested(stack) /\ stack # <<>> /\ status = "live" /\ ret \in Results \cup {"none"} /\ Known(stack, cp)
  BY DEF BlockInv, WalkOK, Walking
<1>3. Len(stack) \in DOMAIN stack /\ Top = stack[Len(stack)] /\ FrameOK(Top)
  BY <1>2, TopIs DEF Top
<1> QED BY <1>1, <1>2, <1>3, StoreIs DEF AllStand

-----------------------------------------------------------------------------
(* Steps that leave the store alone, and steps that write to it.           *)

(* A step of the walk that writes nothing.                                 *)
LEMMA ReadStood ==
    ASSUME BlockInv, Stood, Walking, UNCHANGED <<cp, copy, status>>,
           \A ref \in DOMAIN copy.step : Unwinding(ref) => Unwinding(ref)',
           AllStand(copy, stack'), Returns(copy, stack', ret')
    PROVE  Stood'
<1>1. Sound(copy) /\ Linked /\ FailuresMarked /\ status = "live"
  BY WalkIs
<1>2. Linked'
  BY <1>1 DEF Linked, FailedSince, AgentKey
<1>3. FailuresMarked'
  BY <1>1 DEF FailuresMarked
<1>4. StackStands'
  BY DEF StackStands, AllStand
<1> QED BY <1>1, <1>2, <1>3, <1>4 DEF Stood

(* A failure on record is behind a marker of the store, or on its way.     *)
LEMMA StoreMarked ==
    ASSUME BlockInv, Stood, status = "live", Later(copy, cp), NEW ref \in DOMAIN cp.step,
           cp.step[ref].status = "failed", ref[1] \notin KeepGoing
    PROVE  ref \in DOMAIN copy.step /\ (Over(cp, ref[1], ref[2]) \/ Unwinding(ref))
<1>1. Sound(copy) /\ Linked /\ FailuresMarked
  BY DEF Stood
<1>2. ref \in DOMAIN copy.step
  BY <1>1 DEF Linked
<1>3. CASE copy.step[ref].status = "waiting"
  <2>1. Around[ref[1]] # Root /\ AgentKey(ref) \in DOMAIN cp.branch
    BY <1>1, <1>2, <1>3 DEF Linked, FailedSince
  <2>2. ref[1] \in Steps
    BY <1>1, <1>2, <1>3, StoreIs, WaitIsLive
  <2>3. Around[ref[1]] \in Above[ref[1]] /\ Concurrent(Around[ref[1]])
    BY <2>1, <2>2, AroundInner
  <2> QED BY <1>2, <2>1, <2>3 DEF Over, AgentKey
<1>4. CASE copy.step[ref].status # "waiting"
  <2>1. copy.step[ref].status = "failed"
    BY <1>1, <1>2, <1>4 DEF Linked
  <2>2. Over(copy, ref[1], ref[2]) \/ Unwinding(ref)
    BY <1>1, <1>2, <2>1 DEF FailuresMarked
  <2> QED BY <1>2, <2>2, OverStays
<1> QED BY <1>3, <1>4

(* A step of the walk that writes.                                         *)
LEMMA WriteStood ==
    ASSUME Plain, BlockInv, Stood, Walking, NEW d, CpOK(d), Onward(copy, d), Write(d), status' = status,
           DOMAIN cp.attempt \subseteq DOMAIN d.attempt, DOMAIN cp.branch \subseteq DOMAIN d.branch,
           \A ref \in DOMAIN cp.step : d.step[ref] = cp.step[ref],
           \A ref \in DOMAIN d.step \ DOMAIN cp.step :
              d.step[ref].status = "failed" /\ ref[1] \notin KeepGoing => Unwinding(ref)',
           \A ref \in DOMAIN copy.step : Unwinding(ref) => Over(d, ref[1], ref[2]),
           AllStand(d, stack'), Returns(d, stack', ret')
    PROVE  Stood'
<1>1. Sound(copy) /\ Linked /\ FailuresMarked /\ status = "live" /\ CpOK(cp) /\ CpOK(copy)
  BY WalkIs
<1>2. cp' = d /\ copy' = d
  BY DEF Write
<1>3. Sound(d)
  BY <1>1, OnwardSound
<1>4. Linked'
  BY <1>2, LinkedSame
<1>5. Later(copy, cp)
  BY <1>1, StoreFollows
<1>6. ASSUME NEW ref \in DOMAIN d.step, d.step[ref].status = "failed", ref[1] \notin KeepGoing
      PROVE  Over(d, ref[1], ref[2]) \/ Unwinding(ref)'
  <2>1. CASE ref \in DOMAIN cp.step
    <3>1. cp.step[ref].status = "failed"
      BY <1>6, <2>1
    <3>2. ref \in DOMAIN copy.step /\ (Over(cp, ref[1], ref[2]) \/ Unwinding(ref))
      BY <1>1, <1>5, <1>6, <2>1, <3>1, StoreMarked
    <3>3. Over(cp, ref[1], ref[2]) => Over(d, ref[1], ref[2])
      BY DEF Over
    <3> QED BY <3>2, <3>3
  <2>2. CASE ref \notin DOMAIN cp.step
    BY <1>6, <2>2
  <2> QED BY <2>1, <2>2
<1>7. FailuresMarked'
  BY <1>2, <1>6 DEF FailuresMarked
<1>8. StackStands'
  BY <1>2 DEF StackStands, AllStand
<1> QED BY <1>1, <1>2, <1>3, <1>4, <1>7, <1>8 DEF Stood

(* An agent that failed meanwhile fails no branch around the place the walk*)
(* writes to.                                                              *)
Writable(n, s) == (Leaf(n) /\ <<n, s>> \notin DOMAIN copy.step) \/ Kind[n] = "retry" \/ Concurrent(n)

LEMMA AgentsElsewhere ==
    ASSUME Plain, CpOK(copy), Sound(copy), NEW d, NEW n, NEW s, PlaceOf(n, s), Writable(n, s),
           NEW ref \in DOMAIN copy.step, AgentFailed(copy, d, ref), Around[ref[1]] \in Above[n],
           n \in Chain(ref[1]), Upto(ref[2], n) = s
    PROVE  FALSE
<1> DEFINE g == ref[1]
           b == Around[ref[1]]
<1>1. PlaceOf(g, ref[2]) /\ Leaf(g) /\ Kind[g] = "agent" /\ g \notin KeepGoing /\ b # Root /\ ref = <<g, ref[2]>>
  <2>1. Live(copy, ref[1], ref[2]) /\ Leaf(ref[1])
    BY AgentPlace
  <2>2. PlaceOf(ref[1], ref[2])
    BY <2>1, LiveIs
  <2> QED BY <2>1, <2>2 DEF AgentFailed, CpOK, Place
<1>2. g \in Steps /\ n \in Steps /\ Upto(ref[2], g) = ref[2]
  BY <1>1, PlaceIs
<1>3. n = g \/ n \in Above[g]
  BY <1>2, ChainIs
<1>4. CASE Leaf(n)
  <2>1. n = g
    BY <1>2, <1>4, LeafAlone
  <2>2. ref = <<n, s>>
    BY <1>1, <1>2, <2>1
  <2>3. <<n, s>> \notin DOMAIN copy.step
    BY <1>4 DEF Writable, Leaf, LeafKinds, Concurrent
  <2> QED BY <2>2, <2>3
<1>5. CASE ~Leaf(n)
  <2>1. n \in Above[g]
    BY <1>1, <1>3, <1>5
  <2>2. n \notin Above[n] /\ n \notin Above[b]
    BY <1>2, Acyclic
  <2>3. CASE Kind[n] = "retry"
    BY <1>1, <1>2, <2>1, <2>2, <2>3 DEF Plain, AgentsUnretried
  <2>4. CASE Concurrent(n)
    <3>1. n = b \/ n \in Above[b]
      BY <1>2, <2>1, <2>4, AroundInner
    <3> QED BY <2>2, <3>1
  <2> QED BY <1>5, <2>3, <2>4 DEF Writable
<1> QED BY <1>4, <1>5

LEMMA FrameStays ==
    ASSUME ConditionsSettled, NEW c, NEW d, Later(c, d), NEW f, FrameOK(f), f.pos \in DOMAIN BodyOf(f), f.pos > 0,
           Stands(c, f), Unmarked(d, f), Admitted(d, <<f.node, f.at>>) = Admitted(c, <<f.node, f.at>>)
    PROVE  Stands(d, f)
<1> DEFINE s == SuffixOf(f)
           b == f.node
<1>1. /\ b \in DOMAIN Body /\ s \in Seq(Nat) /\ Len(s) = Inner(b) /\ f.pos \in Nat
      /\ (b # Root => PlaceOf(b, f.at))
  BY FramePlace
<1>2. /\ Ready(c, b, s) /\ BodyOf(f) = TakenBody(c, b, s) /\ Clear(c, b, s, f.pos)
      /\ (b = Root \/ Reached(c, b, f.at)) /\ (Concurrent(b) => Progress(c, f))
  BY DEF Stands, InPass
<1> HIDE DEF s, b
<1>3. Ready(d, b, s) /\ PassOK(d, b, s) /\ TakenBody(d, b, s) = TakenBody(c, b, s)
  BY <1>1, <1>2, ReadyStays, PassStays
<1>4. f.pos <= Len(TakenBody(c, b, s)) + 1
  <2>1. BodyOf(f) \in Seq(Steps)
    BY BodyIs
  <2> QED BY <1>1, <1>2, <2>1
<1>5. Clear(d, b, s, f.pos)
  BY <1>1, <1>2, <1>4, BodyStays
<1>6. InPass(d, f)
  BY <1>2, <1>3, <1>5 DEF InPass, s, b
<1>7. b = Root \/ Reached(d, b, f.at)
  BY <1>1, <1>2, ReachedStays
<1>8. Concurrent(b) => Progress(d, f)
  <2>1. Items(d, f.node, f.at) = Items(c, f.node, f.at)
    BY DEF Items
  <2>2. DOMAIN c.branch \subseteq DOMAIN d.branch
    BY DEF Later
  <2> QED BY <1>2, <2>1, <2>2 DEF Progress, b
<1> QED BY <1>6, <1>7, <1>8 DEF Stands, b

(* The frames around the place of a write.                                 *)
LEMMA BelowStands ==
    ASSUME Plain, CpOK(copy), Sound(copy), NEW stk, Nested(stk), stk # <<>>, AllStand(copy, stk),
           NEW n, NEW s, Leads(Last(stk), n, s), Live(copy, n, s), Writable(n, s),
           NEW d, CpOK(d), Onward(copy, d),
           \A m, t : m # n => Admitted(d, <<m, t>>) = Admitted(copy, <<m, t>>)
    PROVE  AllStand(d, stk) /\ ~Over(d, n, s)
<1>1. Later(copy, d)
  BY OnwardLater
<1>2. PlaceOf(n, s) /\ n \in Steps
  BY LiveIs, PlaceIs
<1>3. ~Over(d, n, s)
  <2>1. \A ref \in DOMAIN copy.step : AgentFailed(copy, d, ref) /\ Around[ref[1]] \in Above[n]
                                        => ~(n \in Chain(ref[1]) /\ Upto(ref[2], n) = s)
    BY <1>2, AgentsElsewhere
  <2> QED BY <2>1, StillOpen
<1>4. ASSUME NEW i \in DOMAIN stk PROVE Stands(d, stk[i])
  <2>1. stk[i].pos \in DOMAIN BodyOf(stk[i]) /\ stk[i].pos > 0 /\ FrameOK(stk[i]) /\ Within(stk[i], n, s)
    BY PlaceStands
  <2>2. Unmarked(d, stk[i])
    BY <1>2, <1>3, <2>1, MarkedByFrame
  <2>3. stk[i].node # n
    BY <1>2, <2>1, Acyclic DEF Within
  <2> QED BY <1>1, <2>1, <2>2, <2>3, FrameStays DEF AllStand, Plain
<1> QED BY <1>3, <1>4 DEF AllStand

LEMMA StoreAgrees ==
    ASSUME Plain, BlockInv, Sound(copy), Linked
    PROVE  /\ Onward(copy, cp) /\ Later(copy, cp) /\ Sound(cp) /\ CpOK(cp) /\ CpOK(copy) /\ CpInv(cp)
           /\ DOMAIN cp.step = DOMAIN copy.step
           /\ \A key : Admitted(cp, key) = Admitted(copy, key) /\ Admitted(cp, key) \in Nat
           /\ \A key \in DOMAIN cp.admitted : key[2] \in Seq(Nat) /\ Len(key[2]) = Depth[key[1]]
<1>1. Onward(copy, cp) /\ Later(copy, cp) /\ Sound(cp) /\ CpOK(cp) /\ CpOK(copy) /\ CpInv(cp)
  BY StoreFollows, StoreIs
<1>2. DOMAIN cp.step = DOMAIN copy.step /\ cp.admitted = copy.admitted
  BY DEF Linked
<1>3. \A key : Admitted(cp, key) = Admitted(copy, key)
  BY <1>2 DEF Admitted
<1>4. \A key : Admitted(cp, key) \in Nat
  BY <1>1, AdmittedIs
<1>5. \A key \in DOMAIN cp.admitted : key[2] \in Seq(Nat) /\ Len(key[2]) = Depth[key[1]]
  BY <1>1 DEF Onward
<1> QED BY <1>1, <1>2, <1>3, <1>4, <1>5

LEMMA StepOnward ==
    ASSUME Plain, BlockInv, Sound(copy), Linked, NEW ref, NEW entry, NEW d, d = StepSet(cp, ref, entry), CpOK(d),
           Live(copy, ref[1], ref[2]), ref \notin DOMAIN copy.step
    PROVE  /\ Onward(copy, d) /\ \A key : Admitted(d, key) = Admitted(copy, key)
           /\ d.attempt = cp.attempt /\ d.branch = cp.branch
           /\ Changed(d.step, cp.step, ref, entry)
<1>1. /\ Onward(copy, cp) /\ CpOK(cp) /\ CpOK(copy) /\ DOMAIN cp.step = DOMAIN copy.step
      /\ \A key : Admitted(cp, key) = Admitted(copy, key) /\ Admitted(cp, key) \in Nat
      /\ \A key \in DOMAIN cp.admitted : key[2] \in Seq(Nat) /\ Len(key[2]) = Depth[key[1]]
  BY StoreAgrees
<1>2. d.step = With(cp.step, ref, entry) /\ d.attempt = cp.attempt /\ d.branch = cp.branch /\ d.admitted = cp.admitted
  BY <1>1, SetsAre
<1>3. Changed(d.step, cp.step, ref, entry)
  BY <1>2, ChangedIs
<1>4. \A key : Admitted(d, key) = Admitted(cp, key)
  BY <1>2 DEF Admitted
<1>5. \A r \in DOMAIN cp.step : r \in DOMAIN d.step /\ d.step[r] = cp.step[r]
  BY <1>1, <1>3 DEF Changed
<1>6. \A r \in DOMAIN d.step \ DOMAIN cp.step : Live(copy, r[1], r[2])
  BY <1>3 DEF Changed
<1>7. Onward(copy, d)
  <2>1. \A key : Admitted(cp, key) <= Admitted(d, key)
    BY <1>1, <1>4
  <2> QED BY <1>1, <1>2, <1>4, <1>5, <1>6, <2>1, OnwardMore
<1> QED BY <1>1, <1>2, <1>3, <1>4, <1>7

-----------------------------------------------------------------------------
(* Leaves, breaks and steps passed over.                                   *)

(* The step the walk is at.                                                *)
LEMMA HereStands ==
    ASSUME BlockInv, Stood, InBody
    PROVE  /\ Walking /\ ret = "none" /\ Nested(stack) /\ stack # <<>> /\ AllStand(copy, stack)
           /\ Leads(Last(stack), Here, SuffixOf(Top)) /\ PlaceOf(Here, SuffixOf(Top)) /\ Here \in Steps
           /\ SuffixOf(Top) \in Seq(Nat)
           /\ Reached(copy, Here, SuffixOf(Top)) /\ ~Over(copy, Here, SuffixOf(Top))
           /\ \A ref : ~Unwinding(ref)
           /\ Sound(copy) /\ Linked /\ CpOK(copy) /\ FailuresMarked
<1>1. Walking /\ ret = "none"
  BY DEF InBody
<1>2. Nested(stack) /\ stack # <<>> /\ AllStand(copy, stack) /\ Sound(copy) /\ Linked /\ CpOK(copy) /\ FailuresMarked
  BY <1>1, WalkIs
<1>3. Leads(Last(stack), Here, SuffixOf(Top))
  BY <1>2, HereIs DEF Top
<1>4. PlaceOf(Here, SuffixOf(Top)) /\ Reached(copy, Here, SuffixOf(Top)) /\ ~Over(copy, Here, SuffixOf(Top))
  BY <1>2, <1>3, PlaceStands
<1>5. \A ref : ~Unwinding(ref)
  BY <1>1 DEF Unwinding
<1> QED BY <1>1, <1>2, <1>3, <1>4, <1>5, PlaceIs

(* It is passed over with what it is worth on the walk's checkpoint.       *)
LEMMA PassedStood ==
    ASSUME BlockInv, Stood, InBody, UNCHANGED <<cp, copy, status>>, NEW r \in Results, After(stack, r),
           r = "done" => Kept(Replay(copy), Here, SuffixOf(Top)),
           r \in {"failed", "broke"} => Replay(copy)[<<Here, SuffixOf(Top)>>] = r
    PROVE  Stood'
<1>1. /\ Walking /\ Nested(stack) /\ stack # <<>> /\ AllStand(copy, stack)
      /\ Leads(Last(stack), Here, SuffixOf(Top)) /\ \A ref : ~Unwinding(ref)
  BY HereStands
<1>2. AllStand(copy, stack') /\ Returns(copy, stack', ret')
  BY <1>1, AfterStands
<1> QED BY <1>1, <1>2, ReadStood

LEMMA SkipStood ==
    ASSUME Plain, BlockInv, Stood, SkipSettled
    PROVE  Stood'
<1>1. /\ InBody /\ Leaf(Here) /\ StatusAt(copy, Ref) \in {"succeeded", "failed"} /\ After(stack, "done")
      /\ UNCHANGED <<cp, copy, status>>
  BY DEF SkipSettled
<1> DEFINE s == SuffixOf(Top)
<1>2. /\ Here \in Steps /\ s \in Seq(Nat) /\ ~Over(copy, Here, s) /\ FailuresMarked /\ \A ref : ~Unwinding(ref)
  BY <1>1, HereStands
<1>3. Replay(copy)[<<Here, s>>] = LeafValue(copy, Here, s)
  BY <1>1, <1>2, ReplayCases
<1>4. Ref = <<Here, s>> /\ Ref[1] = Here /\ Ref[2] = s
  BY DEF Ref
<1>5. CASE StatusAt(copy, Ref) = "succeeded"
  <2>1. Kept(Replay(copy), Here, s)
    BY <1>3, <1>4, <1>5 DEF Kept, LeafValue
  <2> QED BY <1>1, <2>1, PassedStood DEF Results
<1>6. CASE StatusAt(copy, Ref) = "failed"
  <2>1. Ref \in DOMAIN copy.step /\ copy.step[Ref].status = "failed"
    BY <1>6 DEF StatusAt
  <2>2. Here \in KeepGoing
    BY <1>2, <1>4, <2>1 DEF FailuresMarked
  <2>3. Kept(Replay(copy), Here, s)
    BY <1>3, <1>4, <1>6, <2>2 DEF Kept, LeafValue
  <2> QED BY <1>1, <2>3, PassedStood DEF Results
<1> QED BY <1>1, <1>5, <1>6

LEMMA MeetStood ==
    ASSUME BlockInv, Stood, MeetWaiting
    PROVE  Stood'
  BY PassedStood DEF MeetWaiting, Results

LEMMA BreakStood ==
    ASSUME BlockInv, Stood, Break
    PROVE  Stood'
<1>1. InBody /\ Kind[Here] = "break" /\ After(stack, "broke") /\ UNCHANGED <<cp, copy, status>>
  BY DEF Break
<1>2. Here \in Steps /\ SuffixOf(Top) \in Seq(Nat)
  BY <1>1, HereStands
<1>3. Replay(copy)[<<Here, SuffixOf(Top)>>] = "broke"
  BY <1>1, <1>2, ReplayCases
<1> QED BY <1>1, <1>3, PassedStood DEF Results

(* A leaf runs, or starts to wait.                                         *)
Result(entry) == CASE entry.status = "succeeded" -> "done" [] entry.status = "failed" -> "failed" [] OTHER -> "parked"

LEMMA LeafStood ==
    ASSUME Plain, BlockInv, Stood, InBody, Leaf(Here), StatusAt(copy, Ref) = "none", status' = status,
           NEW entry, EntryOK(entry), Write(StepSet(cp, Ref, entry)), After(stack, Result(entry))
    PROVE  Stood'
<1> DEFINE s == SuffixOf(Top)
           d == StepSet(cp, Ref, entry)
<1>1. /\ Walking /\ Nested(stack) /\ stack # <<>> /\ AllStand(copy, stack)
      /\ Leads(Last(stack), Here, s) /\ PlaceOf(Here, s) /\ Here \in Steps /\ s \in Seq(Nat)
      /\ Reached(copy, Here, s) /\ ~Over(copy, Here, s) /\ (\A ref : ~Unwinding(ref))
      /\ Sound(copy) /\ Linked /\ CpOK(copy)
  BY HereStands
<1>2. Ref = <<Here, s>> /\ Ref[1] = Here /\ Ref[2] = s
  BY DEF Ref
<1>3. Ref \notin DOMAIN copy.step
  BY <1>1 DEF StatusAt, CpOK, EntryOK
<1>4. Replay(copy)[<<Here, s>>] = "open"
  <2>1. Replay(copy)[<<Here, s>>] = LeafValue(copy, Here, s)
    BY <1>1, ReplayCases
  <2> QED BY <1>2, <2>1 DEF LeafValue
<1>5. Live(copy, Here, s)
  BY <1>1, <1>4 DEF Live
<1>6. CpOK(d)
  <2>1. Recorded(<<Here, s>>, cp)
    <3>1. \A j \in DOMAIN stack : stack[j].pos >= 1
      BY <1>1, HereIs
    <3>2. Known(stack, cp)
      BY DEF BlockInv, WalkOK
    <3> QED BY <1>1, <3>1, <3>2, StepRecorded
  <2>2. Place(Ref)
    BY <1>1, <1>2, PlaceIs DEF Place
  <2>3. CpInv(cp)
    BY StoreIs
  <2> QED BY <1>2, <2>1, <2>2, <2>3, WriteStep DEF CpInv
<1> HIDE DEF d, s
<1>7. d = StepSet(cp, Ref, entry) /\ Write(d)
  BY DEF d
<1>8. /\ Onward(copy, d) /\ (\A key : Admitted(d, key) = Admitted(copy, key))
      /\ d.attempt = cp.attempt /\ d.branch = cp.branch /\ Changed(d.step, cp.step, Ref, entry)
  BY <1>1, <1>2, <1>3, <1>5, <1>6, <1>7, StepOnward
<1>9. AllStand(d, stack)
  <2>1. Writable(Here, s)
    BY <1>2, <1>3 DEF Writable
  <2> QED BY <1>1, <1>5, <1>6, <1>8, <2>1, BelowStands
<1>10. Replay(d)[<<Here, s>>] = LeafValue(d, Here, s) /\ StatusAt(d, <<Here, s>>) = entry.status
  <2>1. Replay(d)[<<Here, s>>] = LeafValue(d, Here, s)
    BY <1>1, ReplayCases
  <2> QED BY <1>2, <1>8, <2>1 DEF StatusAt, Changed
<1>11. AllStand(d, stack') /\ Returns(d, stack', ret')
  <2>1. Result(entry) \in Results
    BY DEF Result, Results
  <2>2. Result(entry) = "done" => Kept(Replay(d), Here, s)
    BY <1>10 DEF Result, LeafValue, Kept, EntryOK
  <2>3. Result(entry) \in {"failed", "broke"} => Replay(d)[<<Here, s>>] = Result(entry)
    BY <1>10 DEF Result, LeafValue, EntryOK
  <2> QED BY <1>1, <1>9, <2>1, <2>2, <2>3, AfterStands
<1>12. ASSUME NEW ref \in DOMAIN d.step \ DOMAIN cp.step, d.step[ref].status = "failed", ref[1] \notin KeepGoing
       PROVE  Unwinding(ref)'
  <2>1. ref = Ref /\ entry.status = "failed"
    BY <1>8, <1>12 DEF Changed
  <2>2. ref[1] = Here /\ ref[2] = s /\ Here \notin KeepGoing
    BY <1>2, <1>12, <2>1
  <2>3. ret' = "failed" /\ stack' = stack
    BY <2>1, <2>2 DEF After, Result, Here, Top
  <2>4. Top' = Top /\ SuffixOf(Top)' = SuffixOf(Top)
    BY <2>3 DEF Top, SuffixOf
  <2>5. Top.node \in Above[Here]
    BY <1>1, TopIs, LeadsIn DEF Within, Top
  <2>6. SubSeq(s, 1, Len(SuffixOf(Top))) = SuffixOf(Top)
    BY <1>1, CutShort DEF s
  <2> QED BY <1>1, <2>2, <2>3, <2>4, <2>5, <2>6 DEF Unwinding
<1>13. \A ref \in DOMAIN cp.step : d.step[ref] = cp.step[ref]
  <2>1. DOMAIN cp.step = DOMAIN copy.step
    BY <1>1 DEF Linked
  <2> QED BY <1>3, <1>8, <2>1 DEF Changed
<1> QED BY <1>1, <1>6, <1>7, <1>8, <1>11, <1>12, <1>13, WriteStood

LEMMA RunStood ==
    ASSUME Plain, BlockInv, Stood, RunAction
    PROVE  Stood'
<1>1. PICK entry \in Outcomes(Here) :
        /\ InBody /\ Kind[Here] = "act" /\ StatusAt(copy, Ref) = "none" /\ status' = status
        /\ Write([cp EXCEPT !.step = With(@, Ref, entry)])
        /\ After(stack, IF entry.status = "failed" THEN "failed" ELSE "done")
  BY DEF RunAction
<1>2. Leaf(Here)
  BY <1>1 DEF Leaf, LeafKinds
<1>3. EntryOK(entry) /\ entry.status \in {"succeeded", "failed"}
  <2>1. CASE entry = Failure
    BY <2>1 DEF Failure, EntryOK
  <2>2. CASE entry \in Successes(Here)
    <3>1. PICK out \in IF Here \in Range(Test) THEN BOOLEAN ELSE {FALSE} : entry = [status |-> "succeeded", out |-> out]
      BY <2>2 DEF Successes
    <3> QED BY <3>1 DEF EntryOK
  <2> QED BY <2>1, <2>2 DEF Outcomes
<1>4. Result(entry) = IF entry.status = "failed" THEN "failed" ELSE "done"
  BY <1>3 DEF Result
<1>5. Write(StepSet(cp, Ref, entry))
  BY <1>1 DEF StepSet
<1> QED BY <1>1, <1>2, <1>3, <1>4, <1>5, LeafStood

LEMMA SuspendStood ==
    ASSUME Plain, BlockInv, Stood, Suspend
    PROVE  Stood'
<1> DEFINE entry == [status |-> "waiting", out |-> FALSE]
<1>1. /\ InBody /\ Kind[Here] \in {"ask", "agent"} /\ StatusAt(copy, Ref) = "none" /\ status' = status
      /\ Write(StepSet(cp, Ref, entry)) /\ After(stack, "parked")
  BY DEF Suspend, StepSet
<1>2. Leaf(Here)
  BY <1>1 DEF Leaf, LeafKinds
<1>3. EntryOK(entry) /\ Result(entry) = "parked"
  BY DEF EntryOK, Result
<1> QED BY <1>1, <1>2, <1>3, LeafStood

-----------------------------------------------------------------------------
(* Blocks entered.                                                         *)

(* A frame at the start of a pass.                                         *)
LEMMA FrameStarts ==
    ASSUME NEW c, NEW f, FrameOK(f), f.node \in Steps, Reached(c, f.node, f.at), f.pos = 1,
           Kind[f.node] \in {"if", "repeat", "loop", "retry"}, ~Concurrent(f.node),
           Kind[f.node] = "if" => f.pass = IF Holds(c, f.node, f.at) THEN 1 ELSE 2,
           Kind[f.node] = "retry" =>
              /\ f.pass < Count[f.node] /\ Attempt(f.node, f.at, f.pass) \notin DOMAIN c.attempt
              /\ \A a \in 0..f.pass - 1 : Failed(c.attempt, Attempt(f.node, f.at, a)),
           Kind[f.node] = "repeat" =>
              /\ Count[f.node] <= MaxItems /\ f.pass < Count[f.node]
              /\ \A i \in 0..f.pass - 1 : BlockValue(c, f.node, Append(f.at, i)) = "done",
           Kind[f.node] = "loop" =>
              /\ f.pass < Count[f.node]
              /\ Visible(c, Test[f.node], f.at) = {} \/ Continues(c, f.node, f.at)
              /\ \A i \in 0..f.pass - 1 : BlockValue(c, f.node, Append(f.at, i)) = "done"
                                          /\ Continues(c, f.node, Append(f.at, i))
    PROVE  Stands(c, f)
<1> DEFINE s == SuffixOf(f)
           b == f.node
<1>1. /\ Upto(s, b) = f.at /\ (Consumes(b) => PassIn(b, s) = f.pass) /\ (~Consumes(b) => s = f.at)
  BY FramePlace
<1>2. b # Root /\ Kind[b] # "parallel" /\ Kind[b] # "root"
  BY StepIs
<1>3. Consumes(b) <=> Kind[b] # "if"
  BY <1>2 DEF Consumes
<1> HIDE DEF s, b
<1>4. PassOK(c, b, s)
  BY <1>1, <1>2, <1>3 DEF PassOK, b
<1>5. BodyOf(f) = TakenBody(c, b, s)
  <2>1. CASE Kind[b] = "if"
    <3>1. s = f.at /\ BodyOf(f) = Body[b][f.pass]
      BY <1>1, <1>3, <2>1 DEF BodyOf, b
    <3>2. TakenBody(c, b, s) = Body[b][IF Holds(c, b, s) THEN 1 ELSE 2]
      BY <2>1 DEF TakenBody, Taken
    <3> QED BY <2>1, <3>1, <3>2 DEF b
  <2>2. CASE Kind[b] # "if"
    BY <1>2, <2>2 DEF BodyOf, TakenBody, Taken, b
  <2> QED BY <2>1, <2>2
<1>6. Clear(c, b, s, 1)
  BY DEF Clear
<1>7. Ready(c, b, s)
  BY <1>1, <1>4 DEF Ready, b
<1>8. Unmarked(c, f)
  BY DEF Unmarked
<1> QED BY <1>5, <1>6, <1>7, <1>8 DEF Stands, InPass, s, b

LEMMA EnterStood ==
    ASSUME BlockInv, Stood, InBody, UNCHANGED <<cp, copy, status>>, NEW f, Stands(copy, f),
           stack' = Append(stack, f), ret' = "none"
    PROVE  Stood'
<1>1. Walking /\ Nested(stack) /\ AllStand(copy, stack) /\ \A ref : ~Unwinding(ref)
  BY HereStands
<1>2. stack \in Seq(Frames)
  BY <1>1 DEF Nested
<1>3. AllStand(copy, stack')
  <2> SUFFICES ASSUME NEW i \in DOMAIN stack' PROVE Stands(copy, stack'[i])
    BY DEF AllStand
  <2>1. \/ i \in DOMAIN stack /\ stack'[i] = stack[i]
        \/ stack'[i] = f
    BY <1>2
  <2> QED BY <1>1, <2>1 DEF AllStand
<1>4. Returns(copy, stack', ret')
  BY DEF Returns
<1> QED BY <1>1, <1>3, <1>4, ReadStood

LEMMA EnterPass ==
    ASSUME BlockInv, Stood, InBody, UNCHANGED <<cp, copy, status>>,
           Kind[Here] \in {"if", "repeat", "loop", "retry"}, ~Concurrent(Here), NEW pass \in Nat, Enter(pass),
           Kind[Here] = "if" => pass = IF Holds(copy, Here, SuffixOf(Top)) THEN 1 ELSE 2,
           Kind[Here] = "retry" =>
              /\ pass < Count[Here] /\ Attempt(Here, SuffixOf(Top), pass) \notin DOMAIN copy.attempt
              /\ \A a \in 0..pass - 1 : Failed(copy.attempt, Attempt(Here, SuffixOf(Top), a)),
           Kind[Here] = "repeat" => Count[Here] <= MaxItems /\ pass < Count[Here] /\ pass = 0,
           Kind[Here] = "loop" =>
              /\ pass < Count[Here] /\ pass = 0
              /\ Visible(copy, Test[Here], SuffixOf(Top)) = {} \/ Continues(copy, Here, SuffixOf(Top))
    PROVE  Stood'
<1> DEFINE f == Frame(Here, SuffixOf(Top), pass)
<1>1. Nested(stack) /\ Reached(copy, Here, SuffixOf(Top)) /\ Here \in Steps
  BY HereStands
<1>2. Kind[Here] = "if" => pass \in {1, 2}
  OBVIOUS
<1>3. FrameOK(f) /\ f.node = Here /\ f.at = SuffixOf(Top) /\ f.pass = pass /\ f.pos = 1
  BY <1>1, <1>2, FrameFits
<1>4. stack' = Append(stack, f) /\ ret' = "none"
  BY DEF Enter
<1>5. \A i : pass = 0 => i \notin 0..pass - 1
  OBVIOUS
<1> HIDE DEF f
<1>6. Stands(copy, f)
  BY <1>1, <1>3, <1>5, FrameStarts
<1> QED BY <1>4, <1>6, EnterStood

LEMMA EnterIfStood ==
    ASSUME BlockInv, Stood, EnterIf
    PROVE  Stood'
<1>1. Kind[Here] = "if" => ~Concurrent(Here)
  BY DEF Concurrent
<1> QED BY <1>1, EnterPass DEF EnterIf

LEMMA EnterRepeatStood ==
    ASSUME BlockInv, Stood, EnterRepeat
    PROVE  Stood'
<1>1. /\ InBody /\ Kind[Here] = "repeat" /\ ~Concurrent(Here) /\ UNCHANGED <<cp, copy, status>>
      /\ CASE Count[Here] > MaxItems -> After(stack, "failed")
           [] Count[Here] = 0        -> After(stack, "done")
           [] OTHER                  -> Enter(0)
  BY DEF EnterRepeat
<1>2. Here \in Steps /\ SuffixOf(Top) \in Seq(Nat)
  BY <1>1, HereStands
<1>3. Count[Here] \in Nat /\ MaxItems \in Nat
  BY <1>1, <1>2, CountAssumption
<1>4. Replay(copy)[<<Here, SuffixOf(Top)>>] = RepeatValue(Replay(copy), Here, SuffixOf(Top))
  BY <1>1, <1>2, ReplayCases
<1>5. CASE Count[Here] > MaxItems
  <2>1. Replay(copy)[<<Here, SuffixOf(Top)>>] = "failed"
    BY <1>4, <1>5 DEF RepeatValue
  <2>2. After(stack, "failed")
    BY <1>1, <1>3, <1>5
  <2> QED BY <1>1, <2>1, <2>2, PassedStood DEF Results
<1>6. CASE Count[Here] <= MaxItems /\ Count[Here] = 0
  <2>1. DOMAIN PassValues(Replay(copy), Here, SuffixOf(Top)) = {}
    BY <1>6 DEF PassValues
  <2>2. Replay(copy)[<<Here, SuffixOf(Top)>>] = "done"
    BY <1>3, <1>4, <1>6, <2>1 DEF RepeatValue
  <2>3. After(stack, "done")
    BY <1>1, <1>3, <1>6
  <2> QED BY <1>1, <2>2, <2>3, PassedStood DEF Results, Kept
<1>7. CASE Count[Here] <= MaxItems /\ Count[Here] # 0
  <2>1. Enter(0)
    BY <1>1, <1>3, <1>7
  <2> QED BY <1>1, <1>3, <1>7, <2>1, EnterPass
<1> QED BY <1>3, <1>5, <1>6, <1>7

LEMMA EnterLoopStood ==
    ASSUME BlockInv, Stood, EnterLoop
    PROVE  Stood'
<1>1. /\ InBody /\ Kind[Here] = "loop" /\ UNCHANGED <<cp, copy, status>>
      /\ IF Visible(copy, Test[Here], SuffixOf(Top)) = {} \/ Continues(copy, Here, SuffixOf(Top))
         THEN Enter(0) ELSE After(stack, "done")
  BY DEF EnterLoop
<1>2. Here \in Steps /\ SuffixOf(Top) \in Seq(Nat) /\ ~Concurrent(Here)
  BY <1>1, HereStands DEF Concurrent
<1>3. Count[Here] \in Nat /\ Count[Here] > 0
  BY <1>1, <1>2, CountAssumption
<1>4. CASE Visible(copy, Test[Here], SuffixOf(Top)) = {} \/ Continues(copy, Here, SuffixOf(Top))
  BY <1>1, <1>2, <1>3, <1>4, EnterPass
<1>5. CASE ~(Visible(copy, Test[Here], SuffixOf(Top)) = {} \/ Continues(copy, Here, SuffixOf(Top)))
  <2>1. Replay(copy)[<<Here, SuffixOf(Top)>>] = LoopValue(copy, Replay(copy), Here, SuffixOf(Top))
    BY <1>1, <1>2, ReplayCases
  <2>2. Kept(Replay(copy), Here, SuffixOf(Top))
    BY <1>5, <2>1 DEF LoopValue, Kept
  <2>3. After(stack, "done")
    BY <1>1, <1>5
  <2> QED BY <1>1, <2>2, <2>3, PassedStood DEF Results
<1> QED BY <1>4, <1>5

LEMMA EnterRetryStood ==
    ASSUME BlockInv, Stood, EnterRetry
    PROVE  Stood'
<1> DEFINE at == SuffixOf(Top)
           key(a) == Attempt(Here, at, a)
           open == {a \in 0..Count[Here] - 1 : ~Failed(copy.attempt, key(a))}
<1>1. /\ InBody /\ Kind[Here] = "retry" /\ UNCHANGED <<cp, copy, status>>
      /\ IF open = {} THEN After(stack, "failed")
         ELSE IF key(Min(open)) \in DOMAIN copy.attempt THEN After(stack, "done")
         ELSE Enter(Min(open))
  BY DEF EnterRetry
<1>2. Here \in Steps /\ at \in Seq(Nat) /\ ~Concurrent(Here)
  BY <1>1, HereStands DEF Concurrent
<1>3. Count[Here] \in Nat /\ open \subseteq Nat
  BY <1>1, <1>2, CountAssumption
<1>4. CASE open = {}
  <2>1. \A a \in 0..Count[Here] - 1 : Failed(copy.attempt, Attempt(Here, at, a))
    BY <1>4
  <2>2. Replay(copy)[<<Here, at>>] = "failed"
    <3> HIDE DEF at
    <3> QED BY <1>1, <1>2, <2>1, AttemptsSpent
  <2>3. After(stack, "failed")
    BY <1>1, <1>4
  <2> QED BY <1>1, <2>2, <2>3, PassedStood DEF Results
<1>5. CASE open # {}
  <2> DEFINE p == Min(open)
  <2>1. p \in open /\ \A a \in open : p <= a
    <3> HIDE DEF open
    <3> QED BY <1>3, <1>5, MinIs
  <2>2. p \in 0..Count[Here] - 1 /\ ~Failed(copy.attempt, Attempt(Here, at, p)) /\ p \in Nat /\ p < Count[Here]
    <3>1. p \in 0..Count[Here] - 1 /\ ~Failed(copy.attempt, key(p))
      <4>1. \A a \in open : a \in 0..Count[Here] - 1 /\ ~Failed(copy.attempt, key(a))
        OBVIOUS
      <4> HIDE DEF open, key
      <4> QED BY <2>1, <4>1
    <3> HIDE DEF p, at
    <3> QED BY <1>3, <3>1
  <2>3. \A a \in 0..p - 1 : Failed(copy.attempt, Attempt(Here, at, a))
    <3> SUFFICES ASSUME NEW a \in 0..p - 1, ~Failed(copy.attempt, Attempt(Here, at, a)) PROVE FALSE
      OBVIOUS
    <3>1. a \in 0..Count[Here] - 1 /\ ~(p <= a)
      <4> HIDE DEF p
      <4> QED BY <1>3, <2>2
    <3>2. a \in open
      BY <3>1
    <3> HIDE DEF p, open
    <3> QED BY <2>1, <3>1, <3>2
  <2>4. /\ key(p) \in DOMAIN copy.attempt => After(stack, "done")
        /\ key(p) \notin DOMAIN copy.attempt => Enter(p)
    <3> HIDE DEF open, key
    <3> QED BY <1>1, <1>5
  <2> HIDE DEF p, at, open
  <2>5. CASE key(p) \in DOMAIN copy.attempt
    <3>1. Replay(copy)[<<Here, at>>] = "done"
      BY <1>1, <1>2, <2>2, <2>3, <2>5, AttemptDecides
    <3> QED BY <1>1, <2>4, <2>5, <3>1, PassedStood DEF Results, Kept, at
  <2>6. CASE key(p) \notin DOMAIN copy.attempt
    BY <1>1, <1>2, <2>2, <2>3, <2>4, <2>6, EnterPass DEF at
  <2> QED BY <2>5, <2>6
<1> QED BY <1>4, <1>5

LEMMA EnterParallelStood ==
    ASSUME BlockInv, Stood, EnterParallel
    PROVE  Stood'
<1> DEFINE f == [Frame(Here, SuffixOf(Top), 0) EXCEPT !.pos = 0, !.rest = 0..Len(Body[Here]) - 1]
<1>1. InBody /\ Kind[Here] = "parallel" /\ UNCHANGED <<cp, copy, status>> /\ stack' = Append(stack, f) /\ ret' = "none"
  BY DEF EnterParallel
<1>2. f.node = Here /\ f.at = SuffixOf(Top) /\ f.pos = 0 /\ f.rest = 0..Len(Body[Here]) - 1
  BY DEF Frame
<1>3. Reached(copy, Here, SuffixOf(Top))
  BY <1>1, HereStands
<1> HIDE DEF f
<1>4. Items(copy, f.node, f.at) = f.rest
  BY <1>1, <1>2 DEF Items
<1>5. Progress(copy, f)
  BY <1>1, <1>2, <1>4 DEF Progress
<1>6. Stands(copy, f)
  BY <1>2, <1>3, <1>5 DEF Stands
<1> QED BY <1>1, <1>6, EnterStood

LEMMA BodyEndsStood ==
    ASSUME BlockInv, Stood, BodyEnds
    PROVE  Stood'
<1>1. Walking /\ ret = "none" /\ Top.pos > Len(BodyOf(Top)) /\ ret' = "done" /\ UNCHANGED <<cp, copy, stack, status>>
  BY DEF BodyEnds
<1>2. /\ AllStand(copy, stack) /\ Stands(copy, Top) /\ FrameOK(Top) /\ Last(stack) = Top
  BY <1>1, WalkIs DEF Top
<1>3. BodyOf(Top) \in Seq(Steps) /\ Top.pos \in Nat
  BY <1>2, BodyIs, FramePlace
<1>4. Top.pos > 0
  BY <1>1, <1>3
<1>5. /\ BodyOf(Top) = TakenBody(copy, Top.node, SuffixOf(Top)) /\ Clear(copy, Top.node, SuffixOf(Top), Top.pos)
  BY <1>2, <1>4 DEF Stands, InPass
<1>6. \A i \in DOMAIN BodyOf(Top) : Kept(Replay(copy), BodyOf(Top)[i], SuffixOf(Top))
  <2>1. DOMAIN BodyOf(Top) \subseteq 1..Top.pos - 1
    BY <1>1, <1>3
  <2> QED BY <1>5, <2>1 DEF Clear
<1>7. BodyValue(Replay(copy), BodyOf(Top), SuffixOf(Top)) = "done"
  BY <1>3, <1>6, BodyFacts
<1>8. AllStand(copy, stack') /\ Returns(copy, stack', ret')
  BY <1>1, <1>2, <1>4, <1>7 DEF Returns
<1>9. \A ref : ~Unwinding(ref)
  BY <1>1 DEF Unwinding
<1> QED BY <1>1, <1>8, <1>9, ReadStood

-----------------------------------------------------------------------------
(* Blocks that a body returns to.                                          *)

(* The block whose body has come back.                                     *)
LEMMA TopStands ==
    ASSUME BlockInv, Stood, Walking, Top.node # Root
    PROVE  LET b == Top.node
               s == SuffixOf(Top)
           IN  /\ b \in Steps /\ b \in DOMAIN Body /\ Top.at \in Seq(Nat) /\ Top.pass \in Nat
               /\ s \in Seq(Nat) /\ Len(s) = Inner(b) /\ Upto(s, b) = Top.at
               /\ Consumes(b) => s = Append(Top.at, Top.pass) /\ PassIn(b, s) = Top.pass
               /\ Nested(Front(stack)) /\ Front(stack) # <<>> /\ AllStand(copy, Front(stack))
               /\ Leads(Last(Front(stack)), b, Top.at)
               /\ PlaceOf(b, Top.at) /\ Reached(copy, b, Top.at) /\ ~Over(copy, b, Top.at)
               /\ Len(stack) > 1 /\ FrameOK(Top)
               /\ Concurrent(b) => Progress(copy, Top)
<1>1. /\ Nested(stack) /\ stack # <<>> /\ AllStand(copy, stack) /\ FrameOK(Top) /\ Stands(copy, Top) /\ Last(stack) = Top
  BY WalkIs DEF Top
<1>2. Top.node \in Steps /\ Top.node \in DOMAIN Body /\ Kind[Top.node] # "root"
  <2>1. Top.node \in DOMAIN Body
    BY <1>1, FramePlace
  <2>2. Top.node \in Steps
    BY <2>1, BlockIs
  <2> QED BY <2>1, <2>2, Kinds DEF LeafKinds, Leaf, Concurrent
<1>3. Len(stack) > 1
  BY <1>1, <1>2, RootAlone
<1>4. /\ Nested(Front(stack)) /\ Front(stack) # <<>> /\ Leads(Last(Front(stack)), Top.node, Top.at)
      /\ Len(Front(stack)) = Len(stack) - 1 /\ \A i \in 1..Len(stack) - 1 : Front(stack)[i] = stack[i]
  BY <1>1, <1>3, PopNested
<1>5. AllStand(copy, Front(stack))
  <2>1. DOMAIN Front(stack) = 1..Len(stack) - 1 /\ 1..Len(stack) - 1 \subseteq DOMAIN stack
    BY <1>1, <1>4 DEF Nested
  <2> QED BY <1>1, <1>4, <2>1 DEF AllStand
<1>6. PlaceOf(Top.node, Top.at) /\ Reached(copy, Top.node, Top.at) /\ ~Over(copy, Top.node, Top.at)
  BY <1>4, <1>5, PlaceStands
<1>7. Concurrent(Top.node) => Progress(copy, Top)
  BY <1>1 DEF Stands
<1> QED BY <1>1, <1>2, <1>3, <1>4, <1>5, <1>6, <1>7, FramePlace

LEMMA TopBody ==
    ASSUME BlockInv, Stood, Walking, Top.node # Root, ret # "none"
    PROVE  LET b == Top.node
               s == SuffixOf(Top)
           IN  /\ Ready(copy, b, s) /\ PassOK(copy, b, s) /\ Unmarked(copy, Top)
               /\ BodyOf(Top) = TakenBody(copy, b, s)
               /\ ret \in Results
               /\ ret \in {"done", "failed", "broke"} => BlockValue(copy, b, s) = ret
<1>1. Stands(copy, Top) /\ Returns(copy, stack, ret) /\ Last(stack) = Top /\ ret \in Results
  BY WalkIs DEF Top
<1>2. InPass(copy, Top)
  BY <1>1 DEF Returns, Stands
<1>3. ret \in {"done", "failed", "broke"} => BodyValue(Replay(copy), BodyOf(Top), SuffixOf(Top)) = ret
  BY <1>1 DEF Returns
<1> QED BY <1>1, <1>2, <1>3 DEF InPass, Ready, BlockValue

(* A failure goes up with the walk.                                        *)
LEMMA UnwindsUp ==
    ASSUME BlockInv, Stood, Walking, Top.node # Root, Top.node \notin KeepGoing, Return("failed"),
           NEW ref \in DOMAIN copy.step, Unwinding(ref)
    PROVE  Unwinding(ref)'
<1> DEFINE f == Last(Front(stack))
           b == Top.node
           h == Depth[b]
<1>1. /\ b \in Steps /\ Top.at \in Seq(Nat) /\ Leads(f, b, Top.at) /\ PlaceOf(b, Top.at)
      /\ SuffixOf(Top) \in Seq(Nat) /\ Len(SuffixOf(Top)) = Inner(b) /\ Upto(SuffixOf(Top), b) = Top.at
      /\ Nested(Front(stack)) /\ Front(stack) # <<>> /\ b \in DOMAIN Body
  BY TopStands
<1>2. BodyOf(f)[f.pos] = b /\ SuffixOf(f) = Top.at
  BY <1>1 DEF Leads
<1>3. ret' = "failed" /\ stack' = Front(stack)
  BY <1>2 DEF Return, After
<1>4. Top' = f /\ SuffixOf(Top)' = Top.at
  <2>1. Top' = f
    BY <1>3 DEF Top
  <2> QED BY <1>2, <2>1 DEF SuffixOf
<1>5. Place(ref) /\ b \in Above[ref[1]] /\ SubSeq(ref[2], 1, Inner(b)) = SuffixOf(Top)
  <2>1. CpOK(copy)
    BY StoreIs
  <2> QED BY <1>1, <2>1 DEF CpOK, Unwinding
<1>6. f.node \in Above[ref[1]]
  <2>1. FrameOK(f)
    BY <1>1, TopIs
  <2>2. f.node \in Above[b]
    BY <1>1, <2>1, LeadsIn
  <2> QED BY <1>5, <2>2, AboveTrans DEF Place
<1>7. SubSeq(ref[2], 1, Len(Top.at)) = Top.at
  <2>1. Len(Top.at) = h /\ h \in Nat /\ Inner(b) \in Nat /\ h <= Inner(b)
    BY <1>1, BlockIs DEF PlaceOf
  <2>2. Inner(b) <= Len(ref[2]) /\ ref[2] \in Seq(Nat)
    <3>1. Depth[b] + (IF Consumes(b) THEN 1 ELSE 0) <= Depth[ref[1]] /\ Depth[b] \in Nat
      BY <1>5, AboveDepth DEF Place, Steps
    <3> QED BY <1>5, <3>1 DEF Place, Inner
  <2>3. SubSeq(SubSeq(ref[2], 1, Inner(b)), 1, h) = SubSeq(ref[2], 1, h)
    <3> HIDE DEF b, h
    <3> QED BY <2>1, <2>2, CutShort
  <2>4. SubSeq(SuffixOf(Top), 1, h) = Top.at
    BY <1>1 DEF Upto
  <2> QED BY <1>5, <2>1, <2>3, <2>4
<1> QED BY <1>1, <1>3, <1>4, <1>6, <1>7 DEF Unwinding

LEMMA ReturnStood ==
    ASSUME BlockInv, Stood, Walking, Top.node # Root, UNCHANGED <<cp, copy, status>>, NEW r \in Results, Return(r),
           r = "done" => Kept(Replay(copy), Top.node, Top.at),
           r \in {"failed", "broke"} => Replay(copy)[<<Top.node, Top.at>>] = r,
           ret = "failed" => r = "failed" /\ Top.node \notin KeepGoing
    PROVE  Stood'
<1>1. /\ Nested(Front(stack)) /\ Front(stack) # <<>> /\ AllStand(copy, Front(stack))
      /\ Leads(Last(Front(stack)), Top.node, Top.at)
  BY TopStands
<1>2. AllStand(copy, stack') /\ Returns(copy, stack', ret')
  BY <1>1, AfterStands DEF Return
<1>3. \A ref \in DOMAIN copy.step : Unwinding(ref) => Unwinding(ref)'
  <2> SUFFICES ASSUME NEW ref \in DOMAIN copy.step, Unwinding(ref) PROVE Unwinding(ref)'
    OBVIOUS
  <2>1. ret = "failed"
    BY DEF Unwinding
  <2> QED BY <2>1, UnwindsUp
<1> QED BY <1>2, <1>3, ReadStood

(* The innermost frame is put anew.                                        *)
LEMMA TopSet ==
    ASSUME BlockInv, Stood, Walking, NEW c, Top.node # Root, AllStand(c, Front(stack)), NEW g, Stands(c, g),
           stack' = OnTop(g), ret' = "none"
    PROVE  AllStand(c, stack') /\ Returns(c, stack', ret')
<1>1. stack \in Seq(Frames) /\ Len(stack) \in DOMAIN stack
  BY WalkIs DEF Nested
<1>2. Len(stack) > 1 /\ Len(Front(stack)) = Len(stack) - 1 /\ \A i \in 1..Len(stack) - 1 : Front(stack)[i] = stack[i]
  <2>1. Nested(stack) /\ Len(stack) > 1
    BY WalkIs, TopStands
  <2> QED BY <2>1, PopNested
<1>3. ASSUME NEW i \in DOMAIN stack' PROVE Stands(c, stack'[i])
  <2>1. \/ stack'[i] = g
        \/ i \in 1..Len(stack) - 1 /\ stack'[i] = stack[i]
    BY <1>1 DEF OnTop
  <2>2. DOMAIN Front(stack) = 1..Len(stack) - 1
    <3>1. Front(stack) \in Seq(Frames)
      BY TopStands DEF Nested
    <3> QED BY <1>1, <1>2, <3>1
  <2> QED BY <1>2, <2>1, <2>2 DEF AllStand
<1> QED BY <1>3 DEF AllStand, Returns

LEMMA AgainStood ==
    ASSUME BlockInv, Stood, Walking, Top.node # Root, UNCHANGED <<cp, copy, status>>, NEW g, Stands(copy, g),
           stack' = OnTop(g), ret' = "none", ret # "failed"
    PROVE  Stood'
<1>1. AllStand(copy, stack') /\ Returns(copy, stack', ret')
  BY TopStands, TopSet
<1>2. \A ref : ~Unwinding(ref)
  BY DEF Unwinding
<1> QED BY <1>1, <1>2, ReadStood

LEMMA IfStood ==
    ASSUME Plain, BlockInv, Stood, IfReturns
    PROVE  Stood'
<1> DEFINE b == Top.node
           s == SuffixOf(Top)
<1>1. Walking /\ ret # "none" /\ Kind[b] = "if" /\ Return(ret) /\ UNCHANGED <<cp, copy, status>>
  BY DEF IfReturns, Returned
<1>2. b # Root
  BY <1>1, TreeAssumption
<1>3. /\ b \in Steps /\ b \in DOMAIN Body /\ s \in Seq(Nat) /\ Len(s) = Inner(b) /\ Upto(s, b) = Top.at
  BY <1>1, <1>2, TopStands
<1>4. PassOK(copy, b, s) /\ ret \in Results /\ (ret \in {"done", "failed", "broke"} => BlockValue(copy, b, s) = ret)
  BY <1>1, <1>2, TopBody
<1>5. Replay(copy)[<<b, Top.at>>] = BlockValue(copy, b, s)
  BY <1>1, <1>3, <1>4, PassDecides
<1>6. b \notin KeepGoing
  BY <1>1, <1>3 DEF Plain, FailuresStay, Leaf, LeafKinds, Concurrent
<1> QED BY <1>1, <1>2, <1>4, <1>5, <1>6, ReturnStood DEF Kept

NextPass(pass) == [Top EXCEPT !.pass = pass, !.pos = 1]

LEMMA NextPassIs ==
    ASSUME FrameOK(Top), Kind[Top.node] \in {"repeat", "loop", "retry"}, NEW pass \in Nat
    PROVE  LET f == NextPass(pass)
           IN  FrameOK(f) /\ f.node = Top.node /\ f.at = Top.at /\ f.pass = pass /\ f.pos = 1
  BY AgainFits DEF NextPass

LEMMA PassesEnd ==
    ASSUME NEW c, NEW b \in Steps, Kind[b] \in {"repeat", "loop"}, ~Concurrent(b), NEW at \in Seq(Nat),
           Count[b] > 0, \A i \in 0..Count[b] - 1 : BlockValue(c, b, Append(at, i)) = "done"
    PROVE  /\ Kind[b] = "repeat" /\ Count[b] <= MaxItems => Replay(c)[<<b, at>>] = "done"
           /\ Kind[b] = "loop" /\ (Visible(c, Test[b], at) = {} \/ Continues(c, b, at))
                /\ (\A i \in 0..Count[b] - 2 : Continues(c, b, Append(at, i)))
                => Replay(c)[<<b, at>>] = "failed"
<1> DEFINE v == PassValues(Replay(c), b, at)
<1>1. DOMAIN v = 0..Count[b] - 1 /\ \A i \in 0..Count[b] - 1 : v[i] = "done"
  BY PassesAre
<1>2. Count[b] \in Nat /\ MaxItems \in Nat
  BY CountAssumption
<1>3. ASSUME Kind[b] = "repeat", Count[b] <= MaxItems PROVE Replay(c)[<<b, at>>] = "done"
  <2>1. Replay(c)[<<b, at>>] = RepeatValue(Replay(c), b, at)
    BY <1>3, ReplayCases
  <2>2. {i \in DOMAIN v : v[i] # "done"} = {}
    BY <1>1
  <2> HIDE DEF v
  <2>3. RepeatValue(Replay(c), b, at) = "done"
    BY <1>2, <1>3, <2>2 DEF RepeatValue, v
  <2> QED BY <2>1, <2>3
<1>4. ASSUME Kind[b] = "loop", Visible(c, Test[b], at) = {} \/ Continues(c, b, at),
             \A i \in 0..Count[b] - 2 : Continues(c, b, Append(at, i))
      PROVE  Replay(c)[<<b, at>>] = "failed"
  <2>1. Replay(c)[<<b, at>>] = LoopValue(c, Replay(c), b, at)
    BY <1>4, ReplayCases
  <2>2. {i \in DOMAIN v : v[i] # "done" \/ (i + 1 < Count[b] /\ ~Continues(c, b, Append(at, i)))} = {}
    BY <1>1, <1>2, <1>4
  <2> HIDE DEF v
  <2>3. LoopValue(c, Replay(c), b, at) = "failed"
    BY <1>4, <2>2 DEF LoopValue, v
  <2> QED BY <2>1, <2>3
<1> QED BY <1>3, <1>4

LEMMA RepeatStood ==
    ASSUME Plain, BlockInv, Stood, RepeatReturns
    PROVE  Stood'
<1> DEFINE b == Top.node
           s == SuffixOf(Top)
           p == Top.pass
           g == NextPass(p + 1)
<1>1. /\ Walking /\ ret # "none" /\ Kind[b] = "repeat" /\ ~Concurrent(b) /\ UNCHANGED <<cp, copy, status>>
      /\ IF ret = "done" /\ p + 1 < Count[b]
         THEN ret' = "none" /\ stack' = OnTop(g)
         ELSE Return(IF ret = "broke" THEN "done" ELSE ret)
  BY DEF RepeatReturns, Returned, Again, NextPass
<1>2. b # Root /\ Consumes(b)
  BY <1>1, TreeAssumption DEF Consumes
<1>3. /\ b \in Steps /\ b \in DOMAIN Body /\ s \in Seq(Nat) /\ Len(s) = Inner(b) /\ Upto(s, b) = Top.at
      /\ s = Append(Top.at, p) /\ PassIn(b, s) = p /\ p \in Nat /\ Top.at \in Seq(Nat) /\ Reached(copy, b, Top.at)
      /\ FrameOK(Top)
  BY <1>1, <1>2, TopStands
<1>4. PassOK(copy, b, s) /\ ret \in Results /\ (ret \in {"done", "failed", "broke"} => BlockValue(copy, b, s) = ret)
  BY <1>1, <1>2, TopBody
<1>5. Count[b] \in Nat /\ MaxItems \in Nat
  BY <1>1, <1>3, CountAssumption
<1>6. Count[b] <= MaxItems /\ p < Count[b] /\ \A i \in 0..p - 1 : BlockValue(copy, b, Append(Top.at, i)) = "done"
  BY <1>1, <1>3, <1>4 DEF PassOK
<1>7. ret = "done" => \A i \in 0..p : BlockValue(copy, b, Append(Top.at, i)) = "done"
  <2> SUFFICES ASSUME ret = "done", NEW i \in 0..p PROVE BlockValue(copy, b, Append(Top.at, i)) = "done"
    OBVIOUS
  <2>1. CASE i = p
    BY <1>3, <1>4, <2>1
  <2>2. CASE i # p
    <3>1. i \in 0..p - 1
      BY <1>3, <2>2
    <3> QED BY <1>6, <3>1
  <2> QED BY <2>1, <2>2
<1>8. b \notin KeepGoing
  BY <1>1, <1>3 DEF Plain, FailuresStay, Leaf, LeafKinds
<1> HIDE DEF g, p, b, s
<1>9. CASE ret = "done" /\ p + 1 < Count[b]
  <2>1. FrameOK(g) /\ g.node = b /\ g.at = Top.at /\ g.pass = p + 1 /\ g.pos = 1
    <3>1. p + 1 \in Nat
      BY <1>3
    <3> QED BY <1>1, <1>3, <3>1, NextPassIs DEF g, b
  <2>2. \A i \in 0..g.pass - 1 : BlockValue(copy, b, Append(Top.at, i)) = "done"
    BY <1>3, <1>7, <1>9, <2>1
  <2>3. Stands(copy, g)
    BY <1>1, <1>3, <1>6, <1>9, <2>1, <2>2, FrameStarts
  <2> QED BY <1>1, <1>2, <1>9, <2>3, AgainStood DEF b
<1>10. CASE ret = "done" /\ ~(p + 1 < Count[b])
  <2>1. Count[b] > 0 /\ \A i \in 0..Count[b] - 1 : BlockValue(copy, b, Append(Top.at, i)) = "done"
    <3>1. Count[b] - 1 = p
      <4>1. p \in Nat /\ p < Count[b] /\ ~(p + 1 < Count[b])
        BY <1>3, <1>6, <1>10
      <4> QED BY <1>5, <4>1
    <3> QED BY <1>3, <1>5, <1>7, <1>10, <3>1
  <2>2. Replay(copy)[<<b, Top.at>>] = "done"
    BY <1>1, <1>3, <1>6, <2>1, PassesEnd
  <2>3. Return("done")
    BY <1>1, <1>10
  <2> QED BY <1>1, <1>2, <1>10, <2>2, <2>3, ReturnStood DEF Kept, Results, b
<1>11. CASE ret # "done"
  <2> DEFINE r == IF ret = "broke" THEN "done" ELSE ret
  <2>1. Return(r) /\ r \in Results
    BY <1>1, <1>4, <1>11 DEF Results
  <2>2. ret \in {"failed", "broke"} => Replay(copy)[<<b, Top.at>>] = r
    BY <1>1, <1>3, <1>4, <1>11, PassDecides DEF Outcome
  <2>3. r = "done" => ret = "broke"
    BY <1>11
  <2>4. r \in {"failed", "broke"} => ret = "failed" /\ r = "failed"
    BY <1>11
  <2>5. ret = "failed" => r = "failed"
    OBVIOUS
  <2>6. r = "done" => Kept(Replay(copy), b, Top.at)
    BY <2>2, <2>3 DEF Kept
  <2>7. r \in {"failed", "broke"} => Replay(copy)[<<b, Top.at>>] = r
    BY <2>2, <2>4
  <2> HIDE DEF r
  <2> QED BY <1>1, <1>2, <1>8, <2>1, <2>5, <2>6, <2>7, ReturnStood DEF b
<1> QED BY <1>9, <1>10, <1>11

LEMMA LoopStood ==
    ASSUME Plain, BlockInv, Stood, LoopReturns
    PROVE  Stood'
<1> DEFINE b == Top.node
           s == SuffixOf(Top)
           p == Top.pass
           g == NextPass(p + 1)
<1>1. /\ Walking /\ ret # "none" /\ Kind[b] = "loop" /\ UNCHANGED <<cp, copy, status>>
      /\ IF ret # "done" THEN Return(IF ret = "broke" THEN "done" ELSE ret)
         ELSE IF p + 1 = Count[b] THEN Return("failed")
         ELSE IF Continues(copy, b, s) THEN ret' = "none" /\ stack' = OnTop(g)
         ELSE Return("done")
  BY DEF LoopReturns, Returned, Again, NextPass
<1>2. b # Root /\ Consumes(b) /\ ~Concurrent(b)
  BY <1>1, TreeAssumption DEF Consumes, Concurrent
<1>3. /\ b \in Steps /\ b \in DOMAIN Body /\ s \in Seq(Nat) /\ Len(s) = Inner(b) /\ Upto(s, b) = Top.at
      /\ s = Append(Top.at, p) /\ PassIn(b, s) = p /\ p \in Nat /\ Top.at \in Seq(Nat) /\ Reached(copy, b, Top.at)
      /\ FrameOK(Top)
  BY <1>1, <1>2, TopStands
<1>4. PassOK(copy, b, s) /\ ret \in Results /\ (ret \in {"done", "failed", "broke"} => BlockValue(copy, b, s) = ret)
  BY <1>1, <1>2, TopBody
<1>5. Count[b] \in Nat
  BY <1>1, <1>3, CountAssumption
<1>7. /\ p < Count[b]
      /\ \A i \in 0..p - 1 : BlockValue(copy, b, Append(Top.at, i)) = "done" /\ Continues(copy, b, Append(Top.at, i))
  BY <1>1, <1>3, <1>4 DEF PassOK
<1>8. Visible(copy, Test[b], Top.at) = {} \/ Continues(copy, b, Top.at)
  BY <1>1, <1>3, <1>4 DEF PassOK
<1>9. ret = "done" => \A i \in 0..p : BlockValue(copy, b, Append(Top.at, i)) = "done"
  <2> SUFFICES ASSUME ret = "done", NEW i \in 0..p PROVE BlockValue(copy, b, Append(Top.at, i)) = "done"
    OBVIOUS
  <2>1. CASE i = p
    BY <1>3, <1>4, <2>1
  <2>2. CASE i # p
    <3>1. p \in Nat
      BY <1>3
    <3> HIDE DEF p
    <3>2. i \in 0..p - 1
      BY <2>2, <3>1
    <3> QED BY <1>7, <3>2
  <2> QED BY <2>1, <2>2
<1>10. b \notin KeepGoing
  BY <1>1, <1>2, <1>3 DEF Plain, FailuresStay, Leaf, LeafKinds
<1> HIDE DEF g, p, b, s
<1>11. CASE ret = "done" /\ p + 1 = Count[b]
  <2>1. Count[b] > 0 /\ \A i \in 0..Count[b] - 1 : BlockValue(copy, b, Append(Top.at, i)) = "done"
    <3>1. Count[b] - 1 = p
      <4>1. p \in Nat
        BY <1>3
      <4> QED BY <1>5, <1>11, <4>1
    <3> QED BY <1>3, <1>5, <1>9, <1>11, <3>1
  <2>2. \A i \in 0..Count[b] - 2 : Continues(copy, b, Append(Top.at, i))
    <3>1. Count[b] - 2 = p - 1
      BY <1>3, <1>5, <1>11
    <3> QED BY <1>7, <3>1
  <2>3. Replay(copy)[<<b, Top.at>>] = "failed"
    BY <1>1, <1>2, <1>3, <1>8, <2>1, <2>2, PassesEnd
  <2>4. Return("failed")
    BY <1>1, <1>11
  <2> QED BY <1>1, <1>2, <1>11, <2>3, <2>4, ReturnStood DEF Results, b
<1>12. CASE ret = "done" /\ p + 1 # Count[b] /\ Continues(copy, b, s)
  <2>1. FrameOK(g) /\ g.node = b /\ g.at = Top.at /\ g.pass = p + 1 /\ g.pos = 1
    <3>1. p + 1 \in Nat
      BY <1>3
    <3> QED BY <1>1, <1>3, <3>1, NextPassIs DEF g, b
  <2>2. \A i \in 0..g.pass - 1 : BlockValue(copy, b, Append(Top.at, i)) = "done"
    BY <1>3, <1>9, <1>12, <2>1
  <2>3. \A i \in 0..g.pass - 1 : Continues(copy, b, Append(Top.at, i))
    <3> SUFFICES ASSUME NEW i \in 0..g.pass - 1 PROVE Continues(copy, b, Append(Top.at, i))
      OBVIOUS
    <3>1. i = p \/ i \in 0..p - 1
      BY <1>3, <2>1
    <3> QED BY <1>3, <1>7, <1>12, <3>1
  <2>4. g.pass < Count[b]
    BY <1>3, <1>5, <1>7, <1>12, <2>1
  <2>5. Stands(copy, g)
    BY <1>1, <1>2, <1>3, <1>8, <2>1, <2>2, <2>3, <2>4, FrameStarts
  <2> QED BY <1>1, <1>2, <1>12, <2>5, AgainStood DEF b
<1>13. CASE ret = "done" /\ p + 1 # Count[b] /\ ~Continues(copy, b, s)
  <2>1. Return("done")
    BY <1>1, <1>13
  <2> DEFINE v == PassValues(Replay(copy), b, Top.at)
             ends == {i \in DOMAIN v : v[i] # "done" \/ (i + 1 < Count[b] /\ ~Continues(copy, b, Append(Top.at, i)))}
  <2>2. DOMAIN v = 0..Count[b] - 1 /\ \A i \in 0..Count[b] - 1 : v[i] = BlockValue(copy, b, Append(Top.at, i))
    BY <1>1, <1>3, PassesAre
  <2>3. p \in 0..Count[b] - 1 /\ p \in ends /\ \A i \in 0..p - 1 : i \notin ends
    <3> HIDE DEF v
    <3>1. p \in 0..Count[b] - 1 /\ p + 1 < Count[b]
      BY <1>3, <1>5, <1>7, <1>13
    <3>2. p \in ends
      BY <1>3, <1>13, <2>2, <3>1
    <3>3. \A i \in 0..p - 1 : i \notin ends
      BY <1>3, <1>5, <1>7, <2>2
    <3> QED BY <3>1, <3>2, <3>3
  <2>4. v[p] = "done"
    BY <1>9, <1>3, <1>13, <2>2, <2>3
  <2>5. ends # {} /\ Min(ends) = p
    <3>1. ends \subseteq 0..Count[b] - 1
      BY <2>2
    <3> HIDE DEF ends, v
    <3> QED BY <1>5, <2>3, <3>1, FirstIs
  <2>6. LoopValue(copy, Replay(copy), b, Top.at) = "done"
    <3>1. LoopValue(copy, Replay(copy), b, Top.at) =
            IF Visible(copy, Test[b], Top.at) # {} /\ ~Continues(copy, b, Top.at) THEN "done"
            ELSE IF ends = {} THEN "failed"
            ELSE Outcome(v[Min(ends)])
      BY DEF LoopValue
    <3> HIDE DEF ends, v
    <3> QED BY <2>4, <2>5, <3>1 DEF Outcome
  <2>7. Replay(copy)[<<b, Top.at>>] = "done"
    BY <1>1, <1>3, <2>6, ReplayCases
  <2> QED BY <1>1, <1>2, <1>13, <2>1, <2>7, ReturnStood DEF Kept, Results, b
<1>14. CASE ret # "done"
  <2> DEFINE r == IF ret = "broke" THEN "done" ELSE ret
  <2>1. Return(r) /\ r \in Results
    BY <1>1, <1>4, <1>14 DEF Results
  <2>2. ret \in {"failed", "broke"} => Replay(copy)[<<b, Top.at>>] = r
    BY <1>1, <1>3, <1>4, <1>14, PassDecides DEF Outcome
  <2>3. r = "done" => ret = "broke"
    BY <1>14
  <2>4. r \in {"failed", "broke"} => ret = "failed" /\ r = "failed"
    BY <1>14
  <2>5. ret = "failed" => r = "failed"
    OBVIOUS
  <2>6. r = "done" => Kept(Replay(copy), b, Top.at)
    BY <2>2, <2>3 DEF Kept
  <2>7. r \in {"failed", "broke"} => Replay(copy)[<<b, Top.at>>] = r
    BY <2>2, <2>4
  <2> HIDE DEF r
  <2> QED BY <1>1, <1>2, <1>10, <2>1, <2>5, <2>6, <2>7, ReturnStood DEF b
<1> QED BY <1>11, <1>12, <1>13, <1>14

(* The marker the walk writes over its innermost frame takes the failures  *)
(* on their way.                                                           *)
LEMMA MarkTakes ==
    ASSUME BlockInv, Stood, Walking, Top.node # Root, NEW d, ~Unmarked(d, Top),
           NEW ref \in DOMAIN copy.step, Unwinding(ref)
    PROVE  Over(d, ref[1], ref[2])
<1> DEFINE b == Top.node
           u == SuffixOf(Top)
           s == ref[2]
<1>1. b \in Steps /\ b \in DOMAIN Body /\ u \in Seq(Nat) /\ Len(u) = Inner(b) /\ FrameOK(Top)
  BY TopStands
<1>2. Place(ref) /\ b \in Above[ref[1]] /\ SubSeq(s, 1, Len(u)) = u
  BY StoreIs DEF CpOK, Unwinding
<1>3. PlaceOf(ref[1], s) /\ s \in Seq(Nat) /\ Len(s) = Depth[ref[1]] /\ ref[1] \in DOMAIN Kind
  BY <1>2 DEF Place, PlaceOf, Steps
<1>4. Len(u) <= Len(s) /\ Len(u) \in Nat
  <2>1. Depth[b] + (IF Consumes(b) THEN 1 ELSE 0) <= Depth[ref[1]] /\ Depth[b] \in Nat
    BY <1>2, <1>3, AboveDepth
  <2> QED BY <1>1, <1>3, <2>1, BlockIs DEF Inner
<1>5. \A k \in 1..Len(u) : s[k] = u[k]
  <2> HIDE DEF u, s
  <2>1. \A k \in 1..Len(u) : SubSeq(s, 1, Len(u))[k] = s[k]
    BY <1>3, <1>4, CutShort
  <2> QED BY <1>2, <2>1
<1>6. Within(Top, ref[1], s)
  BY <1>2, <1>4, <1>5 DEF Within, Begins
<1> QED BY <1>1, <1>3, <1>6, MarkedByFrame

(* A retry marks its attempt.                                              *)
AttemptKey(f) == Attempt(f.node, f.at, f.pass)
Told(r) == IF r = "done" THEN "succeeded" ELSE "failed"

LEMMA RetryOpen ==
    ASSUME BlockInv, Stood, Walking, Kind[Top.node] = "retry", ret # "none"
    PROVE  /\ Top.node \in Steps /\ Top.at \in Seq(Nat) /\ Top.pass \in 0..Count[Top.node] - 1 /\ Count[Top.node] \in Nat
           /\ Top.node # Root /\ ~Concurrent(Top.node)
           /\ AttemptKey(Top) \notin DOMAIN copy.attempt
           /\ \A a \in 0..Top.pass - 1 : Failed(copy.attempt, Attempt(Top.node, Top.at, a))
           /\ ret = "broke" => Replay(copy)[<<Top.node, Top.at>>] = "broke"
           /\ ret \in {"done", "failed"} =>
                 /\ Earns(copy, Top.node, Top.at, Append(Top.at, Top.pass), Told(ret))
                 /\ Live(copy, Top.node, Top.at)
<1> DEFINE b == Top.node
           s == SuffixOf(Top)
           p == Top.pass
           at == Top.at
<1>1. b # Root /\ Consumes(b) /\ ~Concurrent(b)
  BY TreeAssumption DEF Consumes, Concurrent
<1>2. /\ b \in Steps /\ b \in DOMAIN Body /\ s \in Seq(Nat) /\ Len(s) = Inner(b) /\ Upto(s, b) = at
      /\ s = Append(at, p) /\ PassIn(b, s) = p /\ p \in Nat /\ at \in Seq(Nat) /\ PlaceOf(b, at) /\ Reached(copy, b, at)
      /\ ~Over(copy, b, at) /\ FrameOK(Top)
  BY <1>1, TopStands
<1>3. /\ Ready(copy, b, s) /\ PassOK(copy, b, s) /\ Unmarked(copy, Top) /\ ret \in Results
      /\ (ret \in {"done", "failed", "broke"} => BlockValue(copy, b, s) = ret)
  BY <1>1, TopBody
<1>4. Count[b] \in Nat
  BY <1>2, CountAssumption
<1>5. p < Count[b] /\ \A a \in 0..p - 1 : Failed(copy.attempt, Attempt(b, at, a))
  BY <1>2, <1>3 DEF PassOK
<1>6. Attempt(b, at, p) \notin DOMAIN copy.attempt
  BY <1>3 DEF Unmarked
<1>7. p \in 0..Count[b] - 1
  BY <1>2, <1>4, <1>5
<1>8. BlockValue(copy, b, s) = BodyValue(Replay(copy), Body[b][1], s)
  BY <1>2, PassesAre
<1> HIDE DEF b, s, p, at
<1>9. Replay(copy)[<<b, at>>] = IF BlockValue(copy, b, s) = "broke" THEN "broke" ELSE "open"
  <2>1. ~Failed(copy.attempt, Attempt(b, at, p))
    BY <1>6 DEF Failed
  <2>2. Kind[b] = "retry"
    BY DEF b
  <2>3. Replay(copy)[<<b, at>>] = IF Attempt(b, at, p) \in DOMAIN copy.attempt THEN "done"
                                  ELSE IF BodyValue(Replay(copy), Body[b][1], Append(at, p)) = "broke" THEN "broke" ELSE "open"
    BY <1>2, <1>5, <1>7, <2>1, <2>2, AttemptDecides
  <2> QED BY <1>2, <1>6, <1>8, <2>3
<1>10. ASSUME ret \in {"done", "failed"} PROVE Earns(copy, b, at, s, Told(ret)) /\ Live(copy, b, at)
  <2>1. Replay(copy)[<<b, at>>] = "open"
    BY <1>3, <1>9, <1>10
  <2>2. Live(copy, b, at)
    BY <1>2, <2>1 DEF Live
  <2>3. True(copy, b, s, Told(ret))
    BY <1>3, <1>10 DEF True, Verdict, Told
  <2> QED BY <1>2, <2>2, <2>3 DEF Earns
<1>11. ret = "broke" => Replay(copy)[<<b, at>>] = "broke"
  BY <1>3, <1>9
<1> QED BY <1>1, <1>2, <1>4, <1>5, <1>6, <1>7, <1>10, <1>11 DEF b, s, p, at, AttemptKey

LEMMA AttemptOnward ==
    ASSUME Plain, BlockInv, Stood, Walking, Kind[Top.node] = "retry", ret \in {"done", "failed"},
           NEW d, d = AttemptSet(cp, AttemptKey(Top), Told(ret))
    PROVE  /\ CpOK(d) /\ Onward(copy, d) /\ Later(copy, d) /\ d.step = cp.step /\ d.branch = cp.branch
           /\ DOMAIN cp.attempt \subseteq DOMAIN d.attempt
           /\ AttemptKey(Top) \in DOMAIN d.attempt /\ d.attempt[AttemptKey(Top)] = Told(ret)
           /\ \A a \in 0..Top.pass - 1 : Failed(d.attempt, Attempt(Top.node, Top.at, a))
           /\ Attempt(Top.node, Top.at, Top.pass + 1) \notin DOMAIN d.attempt
           /\ AllStand(d, Front(stack))
           /\ \A ref \in DOMAIN copy.step : Unwinding(ref) => Over(d, ref[1], ref[2])
<1> DEFINE key == AttemptKey(Top)
           b == Top.node
           at == Top.at
           p == Top.pass
<1>1. /\ Sound(copy) /\ Linked /\ Nested(stack) /\ Known(stack, cp) /\ FrameOK(Top)
      /\ Len(stack) \in DOMAIN stack /\ Top = stack[Len(stack)] /\ CpOK(copy)
  BY WalkIs
<1>2. /\ b \in Steps /\ b # Root /\ key \notin DOMAIN copy.attempt
      /\ Earns(copy, b, at, Append(at, p), Told(ret)) /\ Live(copy, b, at)
      /\ \A a \in 0..p - 1 : Failed(copy.attempt, Attempt(b, at, a))
  BY RetryOpen
<1>3. /\ Onward(copy, cp) /\ CpOK(cp) /\ CpInv(cp)
      /\ \A k : Admitted(cp, k) = Admitted(copy, k) /\ Admitted(cp, k) \in Nat
      /\ \A k \in DOMAIN cp.admitted : k[2] \in Seq(Nat) /\ Len(k[2]) = Depth[k[1]]
  BY <1>1, StoreAgrees
<1>4. cp.attempt = copy.attempt
  BY <1>1 DEF Linked
<1>5. Knows(Top, cp)
  BY <1>1 DEF Known
<1>6. Told(ret) \in Verdicts
  BY DEF Told, Verdicts
<1>7. /\ CpInv(d) /\ d.admitted = cp.admitted /\ d.branch = cp.branch /\ d.step = cp.step
      /\ d.attempt = With(cp.attempt, key, Told(ret))
      /\ Attempt(b, at, p + 1) \notin DOMAIN d.attempt
      /\ EarlierFailed(d, b, at, p)
  BY <1>1, <1>3, <1>5, <1>6, WriteAttempt DEF AttemptKey
<1>8. Changed(d.attempt, cp.attempt, key, Told(ret))
  BY <1>7, ChangedIs
<1>9. key[1] = b /\ key[2] = p /\ key[3] = at
  BY DEF AttemptKey, Attempt
<1> HIDE DEF key, b, at, p
<1>10. /\ \A k \in DOMAIN cp.attempt : k \in DOMAIN d.attempt /\ d.attempt[k] = cp.attempt[k]
       /\ DOMAIN d.attempt = DOMAIN cp.attempt \cup {key} /\ d.attempt[key] = Told(ret)
  BY <1>2, <1>4, <1>8 DEF Changed
<1>11. \A k \in DOMAIN d.attempt \ DOMAIN cp.attempt : Earns(copy, k[1], k[3], Append(k[3], k[2]), d.attempt[k])
  BY <1>2, <1>9, <1>10
<1>12. \A k : Admitted(d, k) = Admitted(cp, k)
  BY <1>7 DEF Admitted
<1>13. CpOK(d)
  BY <1>7 DEF CpInv
<1>14. Onward(copy, d)
  <2>1. \A k : Admitted(cp, k) <= Admitted(d, k)
    BY <1>3, <1>12
  <2> QED BY <1>1, <1>3, <1>7, <1>10, <1>11, <1>12, <1>13, <2>1, OnwardMore
<1>15. Later(copy, d)
  BY <1>1, <1>13, <1>14, OnwardLater
<1>16. \A a \in 0..p - 1 : Failed(d.attempt, Attempt(b, at, a))
  BY <1>7 DEF EarlierFailed
<1>17. AllStand(d, Front(stack))
  <2>1. /\ Nested(Front(stack)) /\ Front(stack) # <<>> /\ AllStand(copy, Front(stack))
        /\ Leads(Last(Front(stack)), b, at)
    BY <1>2, TopStands DEF b, at
  <2>2. Writable(b, at)
    BY DEF Writable, b
  <2> QED BY <1>1, <1>2, <1>3, <1>12, <1>13, <1>14, <2>1, <2>2, BelowStands
<1>18. ~Unmarked(d, Top)
  BY <1>10 DEF Unmarked, key, AttemptKey
<1>19. \A ref \in DOMAIN copy.step : Unwinding(ref) => Over(d, ref[1], ref[2])
  BY <1>2, <1>18, MarkTakes DEF b
<1> QED BY <1>7, <1>10, <1>13, <1>14, <1>15, <1>16, <1>17, <1>19 DEF key, b, at, p

LEMMA RetryStood ==
    ASSUME Plain, BlockInv, Stood, RetryReturns
    PROVE  Stood'
<1> DEFINE b == Top.node
           at == Top.at
           p == Top.pass
           key == AttemptKey(Top)
           d == AttemptSet(cp, key, Told(ret))
<1>1. /\ Walking /\ ret # "none" /\ Kind[b] = "retry" /\ status' = status
      /\ ret = "done" => Write(d) /\ Return("done")
      /\ ret = "failed" => Write(d) /\ IF p + 1 < Count[b] THEN Again(p + 1) ELSE Return("failed")
      /\ ret \notin {"done", "failed"} => Return(ret) /\ UNCHANGED <<cp, copy>>
  BY DEF RetryReturns, Returned, AttemptSet, AttemptKey, Told
<1>2. /\ b \in Steps /\ at \in Seq(Nat) /\ p \in 0..Count[b] - 1 /\ Count[b] \in Nat /\ b # Root /\ ~Concurrent(b)
      /\ ret = "broke" => Replay(copy)[<<b, at>>] = "broke"
  BY <1>1, RetryOpen
<1>3. /\ Nested(Front(stack)) /\ Front(stack) # <<>> /\ Leads(Last(Front(stack)), b, at) /\ FrameOK(Top)
      /\ PlaceOf(b, at) /\ Reached(copy, b, at)
  BY <1>1, <1>2, TopStands
<1>4. CASE ret \notin {"done", "failed"}
  <2>1. ret \in Results
    BY <1>1, <1>2, TopBody
  <2>2. ret \in {"broke", "parked"}
    BY <1>4, <2>1 DEF Results
  <2> QED BY <1>1, <1>2, <1>4, <2>2, ReturnStood DEF Results
<1>5. CASE ret \in {"done", "failed"}
  <2> HIDE DEF d
  <2>1. d = AttemptSet(cp, key, Told(ret)) /\ Write(d)
    BY <1>1, <1>5 DEF d
  <2> HIDE DEF key, b, at, p
  <2>2. /\ CpOK(d) /\ Onward(copy, d) /\ Later(copy, d) /\ d.step = cp.step /\ d.branch = cp.branch
        /\ DOMAIN cp.attempt \subseteq DOMAIN d.attempt
        /\ key \in DOMAIN d.attempt /\ d.attempt[key] = Told(ret)
        /\ \A a \in 0..p - 1 : Failed(d.attempt, Attempt(b, at, a))
        /\ Attempt(b, at, p + 1) \notin DOMAIN d.attempt
        /\ AllStand(d, Front(stack))
        /\ \A ref \in DOMAIN copy.step : Unwinding(ref) => Over(d, ref[1], ref[2])
    BY <1>1, <1>5, <2>1, AttemptOnward DEF key, b, at, p
  <2>3. ASSUME AllStand(d, stack') /\ Returns(d, stack', ret') PROVE Stood'
    <3>1. \A ref \in DOMAIN cp.step : d.step[ref] = cp.step[ref]
      BY <2>2
    <3>2. DOMAIN d.step \ DOMAIN cp.step = {}
      BY <2>2
    <3>3. DOMAIN cp.branch \subseteq DOMAIN d.branch
      BY <2>2
    <3> QED BY <1>1, <2>1, <2>2, <2>3, <3>1, <3>2, <3>3, WriteStood
  <2>4. ret = "failed" => \A a \in 0..p : Failed(d.attempt, Attempt(b, at, a))
    <3> SUFFICES ASSUME ret = "failed", NEW a \in 0..p PROVE Failed(d.attempt, Attempt(b, at, a))
      OBVIOUS
    <3>1. CASE a = p
      BY <2>2, <3>1 DEF Failed, Told, key, AttemptKey, b, at, p
    <3>2. CASE a # p
      <4>1. a \in 0..p - 1
        BY <1>2, <3>2
      <4> QED BY <2>2, <4>1
    <3> QED BY <3>1, <3>2
  <2>5. CASE ret = "done"
    <3>1. ~Failed(d.attempt, Attempt(b, at, p)) /\ Attempt(b, at, p) \in DOMAIN d.attempt
      BY <2>2, <2>5 DEF Failed, Told, key, AttemptKey, b, at, p
    <3>2. Replay(d)[<<b, at>>] = "done"
      BY <1>1, <1>2, <2>2, <3>1, AttemptDecides
    <3>3. Kept(Replay(d), b, at)
      BY <3>2 DEF Kept
    <3>4. After(Front(stack), "done")
      BY <1>1, <2>5 DEF Return
    <3>5. AllStand(d, stack') /\ Returns(d, stack', ret')
      BY <1>3, <2>2, <3>3, <3>4, AfterStands DEF Results
    <3> QED BY <2>3, <3>5
  <2>6. CASE ret = "failed" /\ ~(p + 1 < Count[b])
    <3>1. \A a \in 0..Count[b] - 1 : Failed(d.attempt, Attempt(b, at, a))
      <4>1. p \in Nat /\ p < Count[b] /\ ~(p + 1 < Count[b])
        BY <1>2, <2>6
      <4>2. Count[b] - 1 = p
        BY <1>2, <4>1
      <4> QED BY <2>4, <2>6, <4>2
    <3>2. Replay(d)[<<b, at>>] = "failed"
      BY <1>1, <1>2, <3>1, AttemptsSpent
    <3>3. After(Front(stack), "failed")
      BY <1>1, <2>6 DEF Return
    <3>4. AllStand(d, stack') /\ Returns(d, stack', ret')
      BY <1>3, <2>2, <3>2, <3>3, AfterStands DEF Results
    <3> QED BY <2>3, <3>4
  <2>7. CASE ret = "failed" /\ p + 1 < Count[b]
    <3> DEFINE g == NextPass(p + 1)
    <3>1. stack' = OnTop(g) /\ ret' = "none"
      BY <1>1, <2>7 DEF Again, NextPass
    <3>2. p + 1 \in Nat
      BY <1>2
    <3>3. FrameOK(g) /\ g.node = b /\ g.at = at /\ g.pass = p + 1 /\ g.pos = 1
      BY <1>1, <1>3, <3>2, NextPassIs DEF b, at
    <3> HIDE DEF g
    <3>4. Reached(d, b, at)
      BY <1>3, <2>2, ReachedStays DEF Plain
    <3>5. \A a \in 0..g.pass - 1 : Failed(d.attempt, Attempt(b, at, a))
      BY <1>2, <2>4, <2>7, <3>3
    <3>6. Stands(d, g)
      BY <1>1, <1>2, <2>2, <2>7, <3>3, <3>4, <3>5, FrameStarts
    <3>7. AllStand(d, stack') /\ Returns(d, stack', ret')
      BY <1>1, <1>2, <2>2, <3>1, <3>6, TopSet DEF b
    <3> QED BY <2>3, <3>7
  <2> QED BY <1>5, <2>5, <2>6, <2>7
<1> QED BY <1>4, <1>5

(* What a concurrent block is worth, marker by marker.                     *)
LEMMA ConcurrentIs ==
    ASSUME NEW b \in DOMAIN Body, Concurrent(b)
    PROVE  b # Root /\ b \in Steps /\ Consumes(b) /\ Kind[b] \in {"parallel", "repeat"} /\ Inner(b) = Depth[b] + 1
<1>1. Kind[b] \in {"parallel", "repeat"}
  BY DEF Concurrent
<1>2. b # Root
  BY <1>1, TreeAssumption
<1>3. b \in Steps
  BY <1>2, BlockIs
<1>4. Consumes(b)
  BY <1>1, <1>2 DEF Consumes
<1> QED BY <1>1, <1>2, <1>3, <1>4 DEF Inner

-----------------------------------------------------------------------------
(* Branches that end, and the next one.                                    *)

(* The branch the walk has just come out of.                               *)
BranchKey(f) == Branch(f.node, SuffixOf(f))

LEMMA BranchTop ==
    ASSUME BlockInv, Stood, Walking, Concurrent(Top.node)
    PROVE  /\ Top.node \in Steps /\ Top.node # Root /\ Top.node \in DOMAIN Body /\ Top.at \in Seq(Nat)
           /\ Consumes(Top.node) /\ Inner(Top.node) = Depth[Top.node] + 1
           /\ SuffixOf(Top) = Append(Top.at, Top.pass) /\ SuffixOf(Top) \in Seq(Nat)
           /\ Len(SuffixOf(Top)) = Inner(Top.node) /\ Upto(SuffixOf(Top), Top.node) = Top.at
           /\ PassIn(Top.node, SuffixOf(Top)) = Top.pass
           /\ PlaceOf(Top.node, Top.at) /\ Reached(copy, Top.node, Top.at) /\ ~Over(copy, Top.node, Top.at)
           /\ Progress(copy, Top) /\ FrameOK(Top) /\ Writable(Top.node, Top.at)
           /\ Nested(Front(stack)) /\ Front(stack) # <<>> /\ AllStand(copy, Front(stack))
           /\ Leads(Last(Front(stack)), Top.node, Top.at)
<1>1. Top.node \in DOMAIN Body
  BY WalkIs, FramePlace
<1>2. Top.node \in Steps /\ Top.node # Root /\ Consumes(Top.node) /\ Inner(Top.node) = Depth[Top.node] + 1
  BY <1>1, ConcurrentIs
<1> QED BY <1>1, <1>2, TopStands DEF Writable

LEMMA BranchOpen ==
    ASSUME BlockInv, Stood, Walking, Concurrent(Top.node), ret # "none"
    PROVE  /\ Live(copy, Top.node, Top.at) /\ PassOK(copy, Top.node, SuffixOf(Top))
           /\ BranchKey(Top) \notin DOMAIN copy.branch
           /\ ret \in {"done", "failed"} =>
                 /\ Earns(copy, Top.node, Top.at, SuffixOf(Top), Told(ret))
                 /\ BranchKey(Top) \notin DOMAIN cp.branch
<1> DEFINE b == Top.node
           s == SuffixOf(Top)
           at == Top.at
           key == BranchKey(Top)
<1>1. /\ b \in Steps /\ b # Root /\ b \in DOMAIN Body /\ Inner(b) = Depth[b] + 1
      /\ s \in Seq(Nat) /\ Len(s) = Inner(b) /\ Upto(s, b) = at
      /\ PlaceOf(b, at) /\ Reached(copy, b, at) /\ ~Over(copy, b, at)
  BY BranchTop
<1>2. /\ Ready(copy, b, s) /\ PassOK(copy, b, s) /\ Unmarked(copy, Top)
      /\ (ret \in {"done", "failed", "broke"} => BlockValue(copy, b, s) = ret)
  BY <1>1, TopBody
<1>3. key \notin DOMAIN copy.branch /\ key = <<b, s>>
  BY <1>2 DEF Unmarked, BranchKey, Branch
<1>4. NoMarker(copy, b, s)
  <2>1. Kind[b] # "retry"
    BY DEF Concurrent
  <2> QED BY <1>3, <2>1 DEF NoMarker, Branch
<1>5. Concurrent(b) /\ Sound(copy) /\ CpOK(copy) /\ Linked
  BY WalkIs
<1> HIDE DEF b, s, at, key
<1>6. Replay(copy)[<<b, at>>] = "open"
  BY <1>1, <1>2, <1>4, <1>5, OpenBlock
<1>7. Live(copy, b, at)
  BY <1>1, <1>6 DEF Live
<1>8. ASSUME ret \in {"done", "failed"} PROVE Earns(copy, b, at, s, Told(ret))
  <2>1. BlockValue(copy, b, s) = Verdict(Told(ret))
    BY <1>2, <1>8 DEF Verdict, Told
  <2>2. True(copy, b, s, Told(ret))
    BY <1>2, <2>1 DEF True
  <2> QED BY <1>1, <1>7, <2>2 DEF Earns
<1>9. ASSUME ret \in {"done", "failed"}, key \in DOMAIN cp.branch PROVE FALSE
  <2>1. key \in DOMAIN cp.branch \ DOMAIN copy.branch
    BY <1>3, <1>9
  <2>2. PICK ref \in DOMAIN copy.step :
            FailedSince(ref) /\ Kind[ref[1]] = "agent" /\ Around[ref[1]] # Root /\ key = AgentKey(ref)
    BY <1>5, <2>1 DEF Linked
  <2>3. AgentFailed(copy, cp, ref)
    BY <2>2 DEF AgentFailed, FailedSince
  <2> DEFINE a == Around[ref[1]]
  <2>4. /\ Live(copy, ref[1], ref[2]) /\ a \in Above[ref[1]]
        /\ AgentKey(ref) = <<a, SubSeq(ref[2], 1, Depth[a] + 1)>>
    BY <1>5, <2>3, AgentPlace
  <2> HIDE DEF a
  <2>5. a = b /\ SubSeq(ref[2], 1, Depth[a] + 1) = s
    BY <1>3, <2>2, <2>4
  <2>6. SubSeq(ref[2], 1, Inner(b)) = s /\ b \in Above[ref[1]]
    BY <1>1, <2>4, <2>5
  <2>7. BlockValue(copy, b, s) = "open"
    BY <1>1, <2>4, <2>6, OpenBody
  <2> QED BY <1>2, <1>9, <2>7
<1> QED BY <1>2, <1>3, <1>7, <1>8, <1>9 DEF b, s, at, key

LEMMA BranchOnward ==
    ASSUME Plain, BlockInv, Stood, Walking, Concurrent(Top.node), ret \in {"done", "failed"},
           NEW d, d = BranchSet(cp, BranchKey(Top), Told(ret))
    PROVE  /\ CpOK(d) /\ Onward(copy, d) /\ Later(copy, d) /\ d.step = cp.step /\ d.attempt = cp.attempt
           /\ DOMAIN d.branch = DOMAIN cp.branch \cup {BranchKey(Top)}
           /\ \A key : Admitted(d, key) = Admitted(copy, key)
           /\ AllStand(d, Front(stack))
           /\ \A ref \in DOMAIN copy.step : Unwinding(ref) => Over(d, ref[1], ref[2])
<1> DEFINE key == BranchKey(Top)
           b == Top.node
           at == Top.at
           s == SuffixOf(Top)
<1>1. Sound(copy) /\ Linked /\ CpOK(copy)
  BY WalkIs
<1>2. /\ b \in Steps /\ b # Root /\ b \in DOMAIN Body /\ Inner(b) = Depth[b] + 1
      /\ s \in Seq(Nat) /\ Len(s) = Inner(b) /\ Upto(s, b) = at
      /\ Nested(Front(stack)) /\ Front(stack) # <<>> /\ AllStand(copy, Front(stack))
      /\ Leads(Last(Front(stack)), b, at) /\ Writable(b, at)
  BY BranchTop
<1>3. /\ Earns(copy, b, at, s, Told(ret)) /\ Live(copy, b, at)
      /\ key \notin DOMAIN copy.branch /\ key \notin DOMAIN cp.branch
  BY BranchOpen
<1>4. /\ Onward(copy, cp) /\ CpOK(cp) /\ CpInv(cp)
      /\ \A k : Admitted(cp, k) = Admitted(copy, k) /\ Admitted(cp, k) \in Nat
      /\ \A k \in DOMAIN cp.admitted : k[2] \in Seq(Nat) /\ Len(k[2]) = Depth[k[1]]
  BY <1>1, StoreAgrees
<1>5. key = <<b, s>> /\ key[1] = b /\ key[2] = s
  BY DEF BranchKey, Branch
<1>6. Told(ret) \in Verdicts
  BY DEF Told, Verdicts
<1>7. Concurrent(b)
  OBVIOUS
<1> HIDE DEF key, b, at, s
<1>8. /\ CpInv(d) /\ d.attempt = cp.attempt /\ d.admitted = cp.admitted /\ d.step = cp.step
      /\ DOMAIN d.branch = DOMAIN cp.branch \cup {key}
  BY <1>4, <1>5, <1>6, <1>7, WriteBranch DEF key
<1>9. d.branch = With(cp.branch, key, Told(ret))
  BY <1>4, SetsAre DEF key
<1>10. Changed(d.branch, cp.branch, key, Told(ret))
  BY <1>9, ChangedIs
<1>11. /\ \A k \in DOMAIN cp.branch : k \in DOMAIN d.branch /\ d.branch[k] = cp.branch[k]
       /\ d.branch[key] = Told(ret)
  BY <1>3, <1>10 DEF Changed
<1>12. \A k \in DOMAIN d.branch \ DOMAIN cp.branch :
         /\ k = <<k[1], k[2]>> /\ k[2] \in Seq(Nat) /\ Len(k[2]) = Depth[k[1]] + 1
         /\ Earns(copy, k[1], Upto(k[2], k[1]), k[2], d.branch[k])
  <2>1. \A k \in DOMAIN d.branch \ DOMAIN cp.branch : k = key
    BY <1>8
  <2> QED BY <1>2, <1>3, <1>5, <1>11, <2>1
<1>13. \A k : Admitted(d, k) = Admitted(cp, k)
  BY <1>8 DEF Admitted
<1>14. CpOK(d)
  BY <1>8 DEF CpInv
<1>15. Onward(copy, d)
  <2>1. \A k : Admitted(cp, k) <= Admitted(d, k)
    BY <1>4, <1>13
  <2> QED BY <1>1, <1>4, <1>8, <1>11, <1>12, <1>13, <1>14, <2>1, OnwardMore
<1>16. Later(copy, d)
  BY <1>1, <1>14, <1>15, OnwardLater
<1>17. AllStand(d, Front(stack))
  BY <1>1, <1>2, <1>3, <1>4, <1>13, <1>14, <1>15, BelowStands
<1>18. ~Unmarked(d, Top)
  BY <1>7, <1>8 DEF Unmarked, key, BranchKey, b
<1>19. \A ref \in DOMAIN copy.step : Unwinding(ref) => Over(d, ref[1], ref[2])
  BY <1>2, <1>18, MarkTakes DEF b
<1> QED BY <1>4, <1>8, <1>13, <1>14, <1>15, <1>16, <1>17, <1>19 DEF key

(* Between two branches.                                                   *)
BranchDone == [[Top EXCEPT !.parked = @ \/ ret = "parked"] EXCEPT !.pos = 0]

LEMMA BranchDoneIs ==
    ASSUME FrameOK(Top)
    PROVE  LET g == BranchDone
           IN  /\ g.node = Top.node /\ g.at = Top.at /\ g.pass = Top.pass /\ g.rest = Top.rest /\ g.pos = 0
               /\ g.parked <=> Top.parked \/ ret = "parked"
  BY DEF BranchDone, FrameOK, Frames

LEMMA ProgressOn ==
    ASSUME NEW c, NEW f, Progress(c, f), NEW d, NEW g, g.node = f.node, g.at = f.at, g.rest = f.rest, g.pos = 0,
           \A key : Admitted(d, key) = Admitted(c, key),
           \A i \in Nat : Branch(f.node, Append(f.at, i)) \in DOMAIN c.branch => Branch(f.node, Append(f.at, i)) \in DOMAIN d.branch,
           Items(c, f.node, f.at) \subseteq Nat,
           f.parked => g.parked,
           g.parked \/ Branch(f.node, Append(f.at, f.pass)) \in DOMAIN d.branch
    PROVE  Progress(d, g)
<1>1. Items(d, f.node, f.at) = Items(c, f.node, f.at)
  BY DEF Items
<1>2. ASSUME NEW i \in Items(d, g.node, g.at), ~g.parked, i \notin g.rest
      PROVE  Branch(g.node, Append(g.at, i)) \in DOMAIN d.branch
  <2>1. i \in Items(c, f.node, f.at) /\ i \in Nat
    BY <1>1, <1>2
  <2>2. i = f.pass \/ Branch(f.node, Append(f.at, i)) \in DOMAIN c.branch
    BY <1>2, <2>1 DEF Progress
  <2> QED BY <1>2, <2>1, <2>2
<1> QED BY <1>1, <1>2 DEF Progress

LEMMA BranchReturnsStood ==
    ASSUME Plain, BlockInv, Stood, BranchReturns
    PROVE  Stood'
<1> DEFINE b == Top.node
           at == Top.at
           key == BranchKey(Top)
           d == BranchSet(cp, key, Told(ret))
           g == BranchDone
<1>1. /\ Walking /\ ret \in {"done", "failed", "parked"} /\ Concurrent(b) /\ status' = status
      /\ ret = "parked" => UNCHANGED <<cp, copy>>
      /\ ret # "parked" => Write(d)
      /\ stack' = OnTop(g) /\ ret' = "none"
  BY DEF BranchReturns, BranchSet, BranchKey, BranchDone, Told
<1>2. /\ b \in Steps /\ b # Root /\ SuffixOf(Top) = Append(at, Top.pass) /\ Reached(copy, b, at) /\ PlaceOf(b, at)
      /\ Progress(copy, Top) /\ FrameOK(Top) /\ AllStand(copy, Front(stack))
  BY <1>1, BranchTop
<1>3. CpOK(copy) /\ Sound(copy) /\ Linked
  BY <1>1, WalkIs
<1>4. Items(copy, b, at) \subseteq Nat
  BY <1>1, <1>2, <1>3, ItemsAre
<1>5. /\ g.node = b /\ g.at = at /\ g.pass = Top.pass /\ g.rest = Top.rest /\ g.pos = 0
      /\ g.parked <=> Top.parked \/ ret = "parked"
  BY <1>2, BranchDoneIs
<1>6. key = Branch(b, Append(at, Top.pass))
  BY <1>2 DEF BranchKey
<1>7. d = BranchSet(cp, key, Told(ret))
  OBVIOUS
<1> HIDE DEF g, d
<1>8. CASE ret = "parked"
  <2>1. Progress(copy, g)
    BY <1>2, <1>4, <1>5, <1>8, ProgressOn
  <2>2. Stands(copy, g)
    BY <1>2, <1>5, <2>1 DEF Stands
  <2> QED BY <1>1, <1>2, <1>8, <2>2, AgainStood
<1>9. CASE ret \in {"done", "failed"}
  <2>1. /\ CpOK(d) /\ Onward(copy, d) /\ Later(copy, d) /\ d.step = cp.step /\ d.attempt = cp.attempt
        /\ DOMAIN d.branch = DOMAIN cp.branch \cup {key}
        /\ \A k : Admitted(d, k) = Admitted(copy, k)
        /\ AllStand(d, Front(stack))
        /\ \A ref \in DOMAIN copy.step : Unwinding(ref) => Over(d, ref[1], ref[2])
    BY <1>1, <1>7, <1>9, BranchOnward
  <2>2. DOMAIN copy.branch \subseteq DOMAIN d.branch /\ key \in DOMAIN d.branch
    BY <1>3, <2>1 DEF Linked
  <2>3. Progress(d, g)
    <3> HIDE DEF b, at, key
    <3> USE DEF b, at
    <3>1. \A i \in Nat : Branch(Top.node, Append(Top.at, i)) \in DOMAIN copy.branch
                           => Branch(Top.node, Append(Top.at, i)) \in DOMAIN d.branch
      BY <2>2
    <3>2. Branch(Top.node, Append(Top.at, Top.pass)) \in DOMAIN d.branch
      BY <1>6, <2>2
    <3>3. Top.parked => g.parked
      BY <1>5
    <3> QED BY <1>2, <1>4, <1>5, <2>1, <3>1, <3>2, <3>3, ProgressOn
  <2>4. Reached(d, b, at)
    BY <1>2, <2>1, ReachedStays DEF Plain
  <2>5. Stands(d, g)
    BY <1>5, <2>3, <2>4 DEF Stands
  <2>6. AllStand(d, stack') /\ Returns(d, stack', ret')
    BY <1>1, <1>2, <2>1, <2>5, TopSet
  <2>7. Write(d)
    BY <1>1, <1>9
  <2>8. \A ref \in DOMAIN cp.step : d.step[ref] = cp.step[ref]
    BY <2>1
  <2>9. DOMAIN d.step \ DOMAIN cp.step = {}
    BY <2>1
  <2>10. DOMAIN cp.branch \subseteq DOMAIN d.branch /\ DOMAIN cp.attempt \subseteq DOMAIN d.attempt
    BY <2>1
  <2> QED BY <1>1, <2>1, <2>6, <2>7, <2>8, <2>9, <2>10, WriteStood
<1> QED BY <1>1, <1>8, <1>9

(* The next branch.                                                        *)
NextFrame(i, pos) == [Top EXCEPT !.pass = i, !.rest = @ \ {i}, !.pos = pos]

LEMMA NextFrameIs ==
    ASSUME FrameOK(Top), NEW i, NEW pos
    PROVE  LET g == NextFrame(i, pos)
           IN  /\ g.node = Top.node /\ g.at = Top.at /\ g.pass = i /\ g.rest = Top.rest \ {i} /\ g.pos = pos
               /\ g.parked <=> Top.parked
  BY DEF NextFrame, FrameOK, Frames

LEMMA NextBranchStood ==
    ASSUME BlockInv, Stood, NextBranch
    PROVE  Stood'
<1> DEFINE b == Top.node
           at == Top.at
           i == Min(Top.rest)
           key == Branch(b, Append(at, i))
           pos == IF key \in DOMAIN copy.branch THEN 0 ELSE 1
           g == NextFrame(i, pos)
<1>1. /\ Walking /\ ret = "none" /\ Concurrent(b) /\ Top.pos = 0 /\ Top.rest # {} /\ stack' = OnTop(g) /\ ret' = "none"
      /\ UNCHANGED <<cp, copy, status>>
  BY DEF NextBranch, BetweenBranches, NextFrame
<1>2. /\ b \in Steps /\ b # Root /\ Reached(copy, b, at) /\ PlaceOf(b, at) /\ b \in DOMAIN Body /\ Consumes(b)
      /\ at \in Seq(Nat) /\ Progress(copy, Top) /\ FrameOK(Top) /\ AllStand(copy, Front(stack))
  BY <1>1, BranchTop
<1>3. CpOK(copy) /\ Sound(copy)
  BY <1>1, WalkIs
<1>4. /\ Items(copy, b, at) \subseteq Nat
      /\ \A u : TakenBody(copy, b, u) = Body[b][IF Kind[b] = "parallel" THEN PassIn(b, u) + 1 ELSE 1]
  BY <1>1, <1>2, <1>3, ItemsAre
<1>5. i \in Top.rest /\ i \in Items(copy, b, at) /\ i \in Nat
  <2>1. Top.rest \subseteq Items(copy, b, at)
    BY <1>2 DEF Progress
  <2>2. Min(Top.rest) \in Top.rest
    BY <1>1, <1>4, <2>1, MinIs
  <2> QED BY <1>4, <2>1, <2>2
<1>6. g.node = b /\ g.at = at /\ g.pass = i /\ g.rest = Top.rest \ {i} /\ g.pos = pos /\ (g.parked <=> Top.parked)
  BY <1>2, NextFrameIs
<1>7. Kind[b] \in {"parallel", "repeat"}
  BY <1>1 DEF Concurrent
<1> HIDE DEF g, i
<1>8. Progress(copy, g)
  <2>1. ASSUME NEW k \in Items(copy, b, at)
        PROVE  g.parked \/ k \in g.rest \/ (g.pos > 0 /\ k = g.pass) \/ Branch(b, Append(at, k)) \in DOMAIN copy.branch
    <3>1. Top.parked \/ k \in Top.rest \/ Branch(b, Append(at, k)) \in DOMAIN copy.branch
      BY <1>1, <1>2 DEF Progress
    <3>2. CASE k = i
      BY <1>6, <3>2
    <3>3. CASE k # i
      BY <1>6, <3>1, <3>3
    <3> QED BY <3>2, <3>3
  <2>2. g.rest \subseteq Items(copy, b, at) /\ (Kind[b] = "repeat" => Count[b] <= MaxItems)
    BY <1>2, <1>6 DEF Progress
  <2> QED BY <1>6, <2>1, <2>2 DEF Progress
<1>9. ASSUME g.pos > 0 PROVE InPass(copy, g)
  <2> DEFINE s == SuffixOf(g)
  <2>1. pos = 1 /\ key \notin DOMAIN copy.branch
    BY <1>6, <1>9
  <2>2. s = Append(at, i) /\ s \in Seq(Nat) /\ Len(s) = Inner(b) /\ Upto(s, b) = at /\ PassIn(b, s) = i
    <3>1. s = Append(at, i)
      BY <1>2, <1>6 DEF SuffixOf
    <3> QED BY <1>2, <1>5, <3>1, PassAt
  <2> HIDE DEF s
  <2>3. PassOK(copy, b, s)
    <3>1. i \in Items(copy, b, Upto(s, b))
      BY <1>5, <2>2
    <3>2. Kind[b] = "repeat" => Count[b] <= MaxItems
      BY <1>2 DEF Progress
    <3> QED BY <1>1, <1>7, <2>2, <3>1, <3>2 DEF PassOK
  <2>4. Ready(copy, b, s)
    BY <1>2, <2>2, <2>3 DEF Ready
  <2>5. BodyOf(g) = TakenBody(copy, b, s)
    <3>1. BodyOf(g) = Body[b][IF Kind[b] = "parallel" THEN i + 1 ELSE 1]
      BY <1>6, <1>7 DEF BodyOf
    <3> QED BY <1>4, <2>2, <3>1
  <2>6. Unmarked(copy, g)
    <3>1. Kind[g.node] # "retry"
      BY <1>6, <1>7
    <3>2. Branch(g.node, SuffixOf(g)) = key
      BY <1>6, <2>2 DEF s
    <3> QED BY <2>1, <3>1, <3>2 DEF Unmarked
  <2>7. Clear(copy, b, s, g.pos)
    BY <1>6, <2>1 DEF Clear
  <2> QED BY <1>6, <2>4, <2>5, <2>6, <2>7 DEF InPass, s
<1>10. Stands(copy, g)
  BY <1>2, <1>6, <1>8, <1>9 DEF Stands
<1> QED BY <1>1, <1>2, <1>10, AgainStood

-----------------------------------------------------------------------------
(* Rounds of a concurrent repeat.                                          *)

(* What a window holds.                                                    *)
LEMMA WindowParts ==
    ASSUME BlockInv, NEW n \in Steps, ConcurrentRepeat(n), NEW at
    PROVE  LET m == Admitted(copy, <<n, at>>)
               w == Window(copy, n, at)
           IN  /\ m \in 0..Count[n] /\ Count[n] \in Nat /\ w \subseteq 0..Count[n] - 1
               /\ \A i \in 0..m - 1 : \/ Branch(n, Append(at, i)) \notin DOMAIN copy.branch
                                      \/ Failed(copy.branch, Branch(n, Append(at, i)))
                                      => i \in w
               /\ w = {} => m = Count[n]
               /\ \A i \in w : i >= m => /\ m < Count[n] /\ m..i \subseteq w
                                         /\ \A k \in 0..m - 1 : ~Failed(copy.branch, Branch(n, Append(at, k)))
<1> DEFINE m == Admitted(copy, <<n, at>>)
           w == Window(copy, n, at)
           k == Concurrency[n]
           pend == Pending(n, at)
           marker(i) == Branch(n, Append(at, i))
           failing == {i \in 0..m - 1 : Failed(copy.branch, marker(i))}
           room == Max({0, k - Cardinality(pend)})
           top == Min({Count[n], m + room})
           fresh == IF failing # {} THEN {} ELSE m..top - 1
<1>1. CpOK(cp) /\ Agree
  BY DEF BlockInv, StoreOK, CpInv
<1>2. m = Mark(n, at)
  BY <1>1 DEF Agree, Admitted, Mark
<1>3. /\ m \in 0..Count[n] /\ Count[n] \in Nat /\ IsFiniteSet(pend) /\ Cardinality(pend) \in Nat
      /\ \A i \in w : i \in 0..Count[n] - 1
  BY <1>1, <1>2, WindowIs
<1>4. k \in Nat /\ k > 1
  BY CountAssumption DEF ConcurrentRepeat, Concurrent
<1>5. Min({m, Count[n]}) = m
  <2>1. {m, Count[n]} \subseteq Nat /\ {m, Count[n]} # {} /\ m \in Nat /\ m <= Count[n]
    BY <1>3
  <2> HIDE DEF m
  <2>2. Min({m, Count[n]}) \in {m, Count[n]} /\ Min({m, Count[n]}) <= m
    BY <2>1, MinIs
  <2> QED BY <1>3, <2>1, <2>2
<1>6. pend = {i \in 0..m - 1 : marker(i) \notin DOMAIN copy.branch}
  BY <1>2 DEF Pending
<1>7. w = failing \cup pend \cup fresh
  BY <1>5, <1>6 DEF Window
<1>8. room \in Nat /\ (Cardinality(pend) = 0 => room > 0)
  <2> DEFINE c == k - Cardinality(pend)
  <2>1. c \in Int /\ (Cardinality(pend) = 0 => c > 0)
    BY <1>3, <1>4
  <2> HIDE DEF c, pend, k
  <2>2. \E x \in {0, c} : \A y \in {0, c} : x >= y
    <3>1. CASE c >= 0
      BY <2>1, <3>1
    <3>2. CASE c < 0
      BY <2>1, <3>2
    <3> QED BY <2>1, <3>1, <3>2
  <2>3. Max({0, c}) \in {0, c} /\ \A y \in {0, c} : Max({0, c}) >= y
    BY <2>2 DEF Max
  <2>4. Max({0, c}) \in Nat /\ Max({0, c}) >= c
    BY <2>1, <2>3
  <2>5. room = Max({0, c})
    BY DEF c
  <2> HIDE DEF room
  <2> QED BY <2>1, <2>4, <2>5
<1>9. top \in Nat /\ top <= Count[n] /\ top \in {Count[n], m + room} /\ m \in Nat
  <2>1. {Count[n], m + room} \subseteq Nat /\ {Count[n], m + room} # {} /\ m \in Nat
    BY <1>3, <1>8
  <2> HIDE DEF m, room
  <2> QED BY <2>1, MinIs
<1>10. \A i \in 0..m - 1 : marker(i) \notin DOMAIN copy.branch \/ Failed(copy.branch, marker(i)) => i \in w
  BY <1>6, <1>7
<1>11. ASSUME w = {} PROVE m = Count[n]
  <2>1. failing = {} /\ pend = {} /\ fresh = {}
    BY <1>7, <1>11
  <2>2. Cardinality(pend) = 0
    BY <2>1, FS_EmptySet
  <2>3. m..top - 1 = {}
    BY <2>1
  <2>4. room > 0
    BY <1>8, <2>2
  <2> HIDE DEF m, top, room, pend
  <2>5. ~(m <= top - 1)
    BY <1>9, <2>3
  <2> QED BY <1>3, <1>8, <1>9, <2>4, <2>5
<1>12. ASSUME NEW i \in w, i >= m
       PROVE  m < Count[n] /\ m..i \subseteq w /\ \A j \in 0..m - 1 : ~Failed(copy.branch, marker(j))
  <2>1. i \notin failing /\ i \notin pend
    <3> HIDE DEF m
    <3> QED BY <1>6, <1>9, <1>12
  <2>2. i \in fresh
    BY <1>7, <2>1
  <2>3. failing = {} /\ i \in m..top - 1
    BY <2>2
  <2>4. \A j \in 0..m - 1 : ~Failed(copy.branch, marker(j))
    BY <2>3
  <2>5. fresh = m..top - 1
    BY <2>3
  <2> HIDE DEF m, top, fresh, failing, w
  <2>6. m < Count[n]
    BY <1>3, <1>9, <2>3
  <2>7. m..i \subseteq fresh
    BY <1>9, <2>3, <2>5
  <2>8. m..i \subseteq w
    BY <1>7, <2>7
  <2> QED BY <2>4, <2>6, <2>8
<1>13. w \subseteq 0..Count[n] - 1
  BY <1>3
<1> QED BY <1>3, <1>10, <1>11, <1>12, <1>13

(* A round puts down a frame over the whole window.                        *)
RoundTop(f) == Max({0} \cup {i + 1 : i \in Window(copy, f.node, f.at)})
RoundFrame(f) == [f EXCEPT !.pos = 0, !.rest = Window(copy, f.node, f.at), !.parked = FALSE]
AdmitSet(f) == [cp EXCEPT !.admitted = With(@, <<f.node, f.at>>, RoundTop(f))]

LEMMA RoundIs ==
    ASSUME NEW stk, NEW f, Round(stk, f, copy), FrameOK(f)
    PROVE  /\ Window(copy, f.node, f.at) = {} => After(stk, "done") /\ UNCHANGED <<cp, copy>>
           /\ Window(copy, f.node, f.at) # {} =>
                 /\ stack' = Append(stk, RoundFrame(f)) /\ ret' = "none"
                 /\ IF RoundTop(f) > Admitted(copy, <<f.node, f.at>>)
                    THEN Write(AdmitSet(f)) ELSE UNCHANGED <<cp, copy>>
           /\ RoundFrame(f).node = f.node /\ RoundFrame(f).at = f.at /\ RoundFrame(f).pos = 0
           /\ RoundFrame(f).rest = Window(copy, f.node, f.at) /\ RoundFrame(f).parked = FALSE
<1>1. /\ Window(copy, f.node, f.at) = {} => After(stk, "done") /\ UNCHANGED <<cp, copy>>
      /\ Window(copy, f.node, f.at) # {} =>
                 /\ stack' = Append(stk, RoundFrame(f)) /\ ret' = "none"
                 /\ IF RoundTop(f) > Admitted(copy, <<f.node, f.at>>)
                    THEN Write(AdmitSet(f)) ELSE UNCHANGED <<cp, copy>>
  BY DEF Round, RoundFrame, AdmitSet, RoundTop
<1>2. /\ RoundFrame(f).node = f.node /\ RoundFrame(f).at = f.at /\ RoundFrame(f).pos = 0
      /\ RoundFrame(f).rest = Window(copy, f.node, f.at) /\ RoundFrame(f).parked = FALSE
  BY DEF RoundFrame, FrameOK, Frames
<1> QED BY <1>1, <1>2

LEMMA RoundTopIs ==
    ASSUME BlockInv, NEW f, f.node \in Steps, ConcurrentRepeat(f.node), Window(copy, f.node, f.at) # {}
    PROVE  LET w == Window(copy, f.node, f.at)
           IN  RoundTop(f) \in Nat /\ RoundTop(f) - 1 \in w /\ \A i \in w : i < RoundTop(f)
<1> DEFINE w == Window(copy, f.node, f.at)
           k == Count[f.node]
           S == {0} \cup {i + 1 : i \in w}
<1>1. w \subseteq 0..k - 1 /\ k \in Nat /\ w # {}
  BY WindowParts
<1>2. RoundTop(f) = Max(S)
  BY DEF RoundTop
<1> HIDE DEF w, k
<1>3. S \subseteq 0..k /\ S # {}
  BY <1>1
<1>4. \A i \in w : i + 1 \in S /\ i \in Nat
  BY <1>1
<1>5. \A u \in S : u = 0 \/ \E i \in w : u = i + 1
  OBVIOUS
<1> HIDE DEF S
<1>6. Max(S) \in S /\ \A u \in S : u <= Max(S)
  BY <1>1, <1>3, MaxIs
<1>7. Max(S) \in Nat
  <2>1. Max(S) \in 0..k
    BY <1>3, <1>6
  <2> QED BY <1>1, <2>1
<1>8. \A i \in w : i < Max(S)
  BY <1>4, <1>6, <1>7
<1>9. Max(S) # 0
  <2>1. PICK i \in w : TRUE
    BY <1>1
  <2>2. i \in Nat /\ i < Max(S)
    BY <1>4, <1>8, <2>1
  <2> QED BY <1>7, <2>2
<1>10. PICK i \in w : Max(S) = i + 1
  BY <1>5, <1>6, <1>9
<1>11. Max(S) - 1 = i
  BY <1>4, <1>10
<1> QED BY <1>2, <1>7, <1>8, <1>11 DEF w

LEMMA ItemsDecide ==
    ASSUME NEW c, NEW b \in Steps, Concurrent(b), NEW at \in Seq(Nat)
    PROVE  /\ Kind[b] = "repeat" /\ Count[b] > MaxItems => Replay(c)[<<b, at>>] = "failed"
           /\ ~(Kind[b] = "repeat" /\ Count[b] > MaxItems) =>
                /\ (\E i \in Items(c, b, at) : Branch(b, Append(at, i)) \notin DOMAIN c.branch)
                     => Replay(c)[<<b, at>>] = "open"
                /\ (\A i \in Items(c, b, at) : Branch(b, Append(at, i)) \in DOMAIN c.branch) =>
                     /\ (\E i \in Items(c, b, at) : Failed(c.branch, Branch(b, Append(at, i))))
                          => Replay(c)[<<b, at>>] = "failed"
                     /\ (\A i \in Items(c, b, at) : ~Failed(c.branch, Branch(b, Append(at, i))))
                          => Replay(c)[<<b, at>>] = IF Kind[b] = "parallel" \/ Admitted(c, <<b, at>>) = Count[b]
                                                    THEN "done" ELSE "open"
<1>1. Replay(c)[<<b, at>>] = ConcurrentReplay(c, b, at)
  BY ReplayCases
<1> QED BY <1>1 DEF ConcurrentReplay

(* Nothing more to admit, or a round that admits more.                     *)
LEMMA RoundDecides ==
    ASSUME BlockInv, NEW b \in Steps, ConcurrentRepeat(b), NEW at \in Seq(Nat), Count[b] <= MaxItems
    PROVE  LET w == Window(copy, b, at)
           IN  /\ w = {} => Replay(copy)[<<b, at>>] = "done"
               /\ (\E i \in w : i >= Admitted(copy, <<b, at>>)) => Replay(copy)[<<b, at>>] = "open"
<1> DEFINE w == Window(copy, b, at)
           m == Admitted(copy, <<b, at>>)
           marker(i) == Branch(b, Append(at, i))
<1>1. Concurrent(b) /\ Kind[b] = "repeat" /\ Items(copy, b, at) = 0..m - 1
  BY DEF ConcurrentRepeat, Items
<1>2. ~(Kind[b] = "repeat" /\ Count[b] > MaxItems)
  BY CountAssumption DEF ConcurrentRepeat
<1>3. /\ m \in 0..Count[b] /\ Count[b] \in Nat
      /\ \A i \in 0..m - 1 : marker(i) \notin DOMAIN copy.branch \/ Failed(copy.branch, marker(i)) => i \in w
      /\ w = {} => m = Count[b]
      /\ \A i \in w : i >= m => m < Count[b] /\ \A k \in 0..m - 1 : ~Failed(copy.branch, marker(k))
  BY WindowParts
<1> HIDE DEF w
<1>4. ASSUME w = {} PROVE Replay(copy)[<<b, at>>] = "done"
  <2>1. \A i \in Items(copy, b, at) : marker(i) \in DOMAIN copy.branch /\ ~Failed(copy.branch, marker(i))
    BY <1>1, <1>3, <1>4
  <2>2. m = Count[b]
    BY <1>3, <1>4
  <2> QED BY <1>1, <1>2, <2>1, <2>2, ItemsDecide
<1>5. ASSUME NEW i \in w, i >= m PROVE Replay(copy)[<<b, at>>] = "open"
  <2>1. m < Count[b] /\ \A k \in Items(copy, b, at) : ~Failed(copy.branch, marker(k))
    BY <1>1, <1>3, <1>5
  <2>2. m # Count[b]
    BY <1>3, <2>1
  <2>3. Kind[b] # "parallel"
    BY <1>1
  <2>4. CASE \A k \in Items(copy, b, at) : marker(k) \in DOMAIN copy.branch
    BY <1>1, <1>2, <2>1, <2>2, <2>3, <2>4, ItemsDecide
  <2>5. CASE ~\A k \in Items(copy, b, at) : marker(k) \in DOMAIN copy.branch
    BY <1>1, <1>2, <2>5, ItemsDecide
  <2> QED BY <2>4, <2>5
<1> QED BY <1>4, <1>5 DEF w

(* The window is the frame's work whatever the watermark has become.       *)
LEMMA WindowCovers ==
    ASSUME BlockInv, NEW f, f.node \in Steps, ConcurrentRepeat(f.node), Count[f.node] <= MaxItems,
           Window(copy, f.node, f.at) # {}, NEW g, g.node = f.node, g.at = f.at, g.pos = 0,
           g.rest = Window(copy, f.node, f.at), NEW d,
           \A key \in DOMAIN copy.branch : key \in DOMAIN d.branch,
           IF RoundTop(f) > Admitted(copy, <<f.node, f.at>>)
           THEN Admitted(d, <<f.node, f.at>>) = RoundTop(f)
           ELSE Admitted(d, <<f.node, f.at>>) = Admitted(copy, <<f.node, f.at>>)
    PROVE  Progress(d, g)
<1> DEFINE b == f.node
           at == f.at
           w == Window(copy, b, at)
           m == Admitted(copy, <<b, at>>)
           x == Admitted(d, <<b, at>>)
           top == RoundTop(f)
           marker(i) == Branch(b, Append(at, i))
<1>1. Items(d, b, at) = 0..x - 1
  BY DEF ConcurrentRepeat, Items
<1>2. /\ m \in 0..Count[b] /\ Count[b] \in Nat /\ w \subseteq 0..Count[b] - 1
      /\ \A i \in 0..m - 1 : marker(i) \notin DOMAIN copy.branch => i \in w
      /\ \A i \in w : i >= m => m..i \subseteq w
  BY WindowParts
<1>3. top \in Nat /\ top - 1 \in w /\ \A i \in w : i < top
  BY RoundTopIs
<1>4. IF top > m THEN x = top ELSE x = m
  OBVIOUS
<1> HIDE DEF w, m, x, top
<1>5. w \subseteq 0..x - 1
  <2> SUFFICES ASSUME NEW i \in w PROVE i \in 0..x - 1
    OBVIOUS
  <2>1. i \in Nat /\ i < top /\ m \in Nat
    BY <1>2, <1>3
  <2> QED BY <1>3, <1>4, <2>1
<1>6. ASSUME NEW i \in 0..x - 1, i \notin w PROVE marker(i) \in DOMAIN d.branch
  <2>1. m \in Nat /\ i \in Nat
    BY <1>2, <1>6
  <2>2. i < m
    <3> SUFFICES ASSUME ~(i < m) PROVE FALSE
      OBVIOUS
    <3>1. top > m /\ x = top
      BY <1>4, <1>3, <1>6, <2>1
    <3>2. top - 1 >= m /\ i \in m..top - 1
      BY <1>3, <1>6, <2>1, <3>1
    <3>3. m..top - 1 \subseteq w
      BY <1>2, <1>3, <3>2
    <3> QED BY <1>6, <3>2, <3>3
  <2>3. i \in 0..m - 1
    BY <2>1, <2>2
  <2> QED BY <1>2, <1>6, <2>3
<1>7. g.rest = w
  BY DEF w
<1>8. \A i \in Items(d, g.node, g.at) : i \in g.rest \/ Branch(g.node, Append(g.at, i)) \in DOMAIN d.branch
  BY <1>1, <1>6, <1>7
<1> QED BY <1>1, <1>5, <1>7, <1>8 DEF Progress

LEMMA AdmitOnward ==
    ASSUME Plain, BlockInv, Stood, Walking, NEW f, f.node \in Steps, ConcurrentRepeat(f.node),
           PlaceOf(f.node, f.at), Live(copy, f.node, f.at), RoundTop(f) > Admitted(copy, <<f.node, f.at>>),
           NEW d, d = AdmitSet(f)
    PROVE  /\ CpOK(d) /\ Onward(copy, d) /\ Later(copy, d) /\ d.step = cp.step /\ d.attempt = cp.attempt
           /\ d.branch = cp.branch
           /\ Admitted(d, <<f.node, f.at>>) = RoundTop(f)
           /\ \A m, t : m # f.node => Admitted(d, <<m, t>>) = Admitted(copy, <<m, t>>)
<1> DEFINE key == <<f.node, f.at>>
           top == RoundTop(f)
<1>1. Sound(copy) /\ Linked /\ CpOK(copy) /\ Agree
  BY WalkIs DEF BlockInv, StoreOK
<1>2. /\ Onward(copy, cp) /\ CpOK(cp) /\ CpInv(cp)
      /\ \A k : Admitted(cp, k) = Admitted(copy, k) /\ Admitted(cp, k) \in Nat
      /\ \A k \in DOMAIN cp.admitted : k[2] \in Seq(Nat) /\ Len(k[2]) = Depth[k[1]]
  BY <1>1, StoreAgrees
<1>3. f.at \in Seq(Nat) /\ Len(f.at) = Depth[f.node] /\ key[1] = f.node /\ key[2] = f.at
  BY PlaceIs
<1>4. top = Max({0} \cup {i + 1 : i \in Window(copy, f.node, f.at)}) /\ top > Mark(f.node, f.at)
  BY <1>2 DEF RoundTop, Mark
<1>5. d = [cp EXCEPT !.admitted = With(@, key, top)]
  BY DEF AdmitSet
<1> HIDE DEF top
<1>6. /\ CpInv(d) /\ Admitted(d, key) = top
      /\ d.attempt = cp.attempt /\ d.branch = cp.branch /\ d.step = cp.step
  BY <1>1, <1>2, <1>4, <1>5, WriteAdmitted
<1>7. d.admitted = With(cp.admitted, key, top)
  BY <1>2, <1>5, SetsAre
<1> HIDE DEF key
<1>8. Changed(d.admitted, cp.admitted, key, top)
  BY <1>7, ChangedIs
<1>9. \A k : k # key => Admitted(d, k) = Admitted(cp, k)
  BY <1>8 DEF Changed, Admitted
<1>10. \A k \in DOMAIN d.admitted : k[2] \in Seq(Nat) /\ Len(k[2]) = Depth[k[1]]
  BY <1>2, <1>3, <1>8 DEF Changed
<1>11. \A k : Admitted(cp, k) <= Admitted(d, k)
  <2> SUFFICES ASSUME NEW k PROVE Admitted(cp, k) <= Admitted(d, k)
    OBVIOUS
  <2>1. CASE k = key
    <3>1. Admitted(cp, key) = Mark(f.node, f.at) /\ Admitted(cp, key) \in Nat
      BY <1>2 DEF Mark, key
    <3>2. top \in Nat
      <4>1. Window(copy, f.node, f.at) # {}
        <5> SUFFICES ASSUME Window(copy, f.node, f.at) = {} PROVE FALSE
          OBVIOUS
        <5>1. {0} \cup {i + 1 : i \in Window(copy, f.node, f.at)} = {0}
          OBVIOUS
        <5>2. {0} \subseteq 0..0 /\ {0} # {}
          OBVIOUS
        <5>3. Max({0}) \in {0}
          BY <5>2, MaxIs
        <5>4. top = 0
          BY <1>4, <5>1, <5>3
        <5> QED BY <1>4, <3>1, <5>4
      <4> QED BY <4>1, RoundTopIs DEF top
    <3> QED BY <1>4, <1>6, <2>1, <3>1, <3>2
  <2>2. CASE k # key
    <3>1. Admitted(d, k) = Admitted(cp, k) /\ Admitted(cp, k) \in Nat
      BY <1>2, <1>9, <2>2
    <3> QED BY <3>1
  <2> QED BY <2>1, <2>2
<1>12. \A m, t : Admitted(cp, <<m, t>>) # Admitted(d, <<m, t>>) => Live(copy, m, t)
  <2> SUFFICES ASSUME NEW m, NEW t, Admitted(cp, <<m, t>>) # Admitted(d, <<m, t>>) PROVE Live(copy, m, t)
    OBVIOUS
  <2>1. <<m, t>> = key
    BY <1>9
  <2>2. m = f.node /\ t = f.at
    BY <2>1 DEF key
  <2> QED BY <2>2
<1>13. CpOK(d)
  BY <1>6 DEF CpInv
<1>14. Onward(copy, d)
  <2>1. DOMAIN d.step \ DOMAIN cp.step = {} /\ DOMAIN d.attempt \ DOMAIN cp.attempt = {} /\ DOMAIN d.branch \ DOMAIN cp.branch = {}
    BY <1>6
  <2>2. /\ \A ref \in DOMAIN cp.step : ref \in DOMAIN d.step /\ d.step[ref] = cp.step[ref]
        /\ \A k \in DOMAIN cp.attempt : k \in DOMAIN d.attempt /\ d.attempt[k] = cp.attempt[k]
        /\ \A k \in DOMAIN cp.branch : k \in DOMAIN d.branch /\ d.branch[k] = cp.branch[k]
    BY <1>6
  <2> QED BY <1>1, <1>2, <1>10, <1>11, <1>12, <1>13, <2>1, <2>2, OnwardMore
<1>15. Later(copy, d)
  BY <1>1, <1>13, <1>14, OnwardLater
<1>16. \A m, t : m # f.node => Admitted(d, <<m, t>>) = Admitted(copy, <<m, t>>)
  <2> SUFFICES ASSUME NEW m, NEW t, m # f.node PROVE Admitted(d, <<m, t>>) = Admitted(copy, <<m, t>>)
    OBVIOUS
  <2>1. <<m, t>> # key
    BY DEF key
  <2> QED BY <1>2, <1>9, <2>1
<1> QED BY <1>6, <1>13, <1>14, <1>15, <1>16 DEF key, top

LEMMA PushStands ==
    ASSUME NEW stk, Nested(stk), NEW c, AllStand(c, stk), NEW g, Stands(c, g), stack' = Append(stk, g), ret' = "none"
    PROVE  AllStand(c, stack') /\ Returns(c, stack', ret')
<1>1. stk \in Seq(Frames)
  BY DEF Nested
<1>2. ASSUME NEW i \in DOMAIN stack' PROVE Stands(c, stack'[i])
  <2>1. \/ i \in DOMAIN stk /\ stack'[i] = stk[i]
        \/ stack'[i] = g
    BY <1>1
  <2> QED BY <2>1 DEF AllStand
<1> QED BY <1>2 DEF AllStand, Returns

LEMMA RoundStood ==
    ASSUME Plain, BlockInv, Stood, Walking, ret # "failed", status' = status,
           NEW stk, Nested(stk), stk # <<>>, AllStand(copy, stk),
           NEW f, FrameOK(f), f.node \in Steps, Leads(Last(stk), f.node, f.at), ConcurrentRepeat(f.node),
           Count[f.node] <= MaxItems, Round(stk, f, copy)
    PROVE  Stood'
<1> DEFINE b == f.node
           at == f.at
           g == RoundFrame(f)
           m == Admitted(copy, <<b, at>>)
<1>1. PlaceOf(b, at) /\ Reached(copy, b, at) /\ ~Over(copy, b, at)
  BY PlaceStands
<1>2. at \in Seq(Nat)
  BY <1>1, PlaceIs
<1>3. \A ref : ~Unwinding(ref)
  BY DEF Unwinding
<1>4. CASE Window(copy, b, at) = {}
  <2>1. After(stk, "done") /\ UNCHANGED <<cp, copy>>
    BY <1>4, RoundIs
  <2>2. Kept(Replay(copy), b, at)
    BY <1>2, <1>4, RoundDecides DEF Kept
  <2>3. AllStand(copy, stack') /\ Returns(copy, stack', ret')
    BY <2>1, <2>2, AfterStands DEF Results
  <2> QED BY <1>3, <2>1, <2>3, ReadStood
<1>5. CASE Window(copy, b, at) # {}
  <2>1. /\ stack' = Append(stk, g) /\ ret' = "none"
        /\ IF RoundTop(f) > m THEN Write(AdmitSet(f)) ELSE UNCHANGED <<cp, copy>>
        /\ g.node = b /\ g.at = at /\ g.pos = 0 /\ g.rest = Window(copy, b, at)
    BY <1>5, RoundIs
  <2> HIDE DEF g
  <2>2. CASE ~(RoundTop(f) > m)
    <3>1. Progress(copy, g)
      BY <1>5, <2>1, <2>2, WindowCovers
    <3>2. Stands(copy, g)
      BY <1>1, <2>1, <3>1 DEF Stands
    <3>3. AllStand(copy, stack') /\ Returns(copy, stack', ret')
      BY <2>1, <3>2, PushStands
    <3> QED BY <1>3, <2>1, <2>2, <3>3, ReadStood
  <2>3. CASE RoundTop(f) > m
    <3> DEFINE d == AdmitSet(f)
    <3>1. Write(d)
      BY <2>1, <2>3
    <3>2. Live(copy, b, at)
      <4>1. RoundTop(f) \in Nat /\ RoundTop(f) - 1 \in Window(copy, b, at)
        BY <1>5, RoundTopIs
      <4>2. m \in Nat
        <5>1. m \in 0..Count[b] /\ Count[b] \in Nat
          BY WindowParts
        <5> QED BY <5>1
      <4>3. RoundTop(f) - 1 >= m
        <5> HIDE DEF m
        <5> QED BY <2>3, <4>1, <4>2
      <4>4. Replay(copy)[<<b, at>>] = "open"
        BY <1>2, <4>1, <4>3, RoundDecides
      <4> QED BY <1>1, <4>4 DEF Live
    <3>3. d = AdmitSet(f)
      OBVIOUS
    <3> HIDE DEF d
    <3>4. /\ CpOK(d) /\ Onward(copy, d) /\ Later(copy, d) /\ d.step = cp.step /\ d.attempt = cp.attempt
          /\ d.branch = cp.branch /\ Admitted(d, <<b, at>>) = RoundTop(f)
          /\ \A n, t : n # b => Admitted(d, <<n, t>>) = Admitted(copy, <<n, t>>)
      BY <1>1, <2>3, <3>2, <3>3, AdmitOnward
    <3>5. CpOK(copy) /\ Sound(copy) /\ Linked
      BY WalkIs
    <3>6. Writable(b, at)
      BY DEF Writable, ConcurrentRepeat
    <3>7. AllStand(d, stk)
      BY <3>2, <3>4, <3>5, <3>6, BelowStands
    <3>8. Progress(d, g)
      <4>1. \A key \in DOMAIN copy.branch : key \in DOMAIN d.branch
        BY <3>4, <3>5 DEF Linked
      <4> QED BY <1>5, <2>1, <2>3, <3>4, <4>1, WindowCovers
    <3>9. Reached(d, b, at)
      BY <1>1, <3>4, ReachedStays DEF Plain
    <3>10. Stands(d, g)
      BY <2>1, <3>8, <3>9 DEF Stands
    <3>11. AllStand(d, stack') /\ Returns(d, stack', ret')
      BY <2>1, <3>7, <3>10, PushStands
    <3>12. DOMAIN d.step \ DOMAIN cp.step = {}
      BY <3>4
    <3>13. DOMAIN cp.attempt \subseteq DOMAIN d.attempt /\ DOMAIN cp.branch \subseteq DOMAIN d.branch
      BY <3>4
    <3>14. \A ref \in DOMAIN cp.step : d.step[ref] = cp.step[ref]
      BY <3>4
    <3> QED BY <1>3, <3>1, <3>4, <3>11, <3>12, <3>13, <3>14, WriteStood
  <2> QED BY <2>2, <2>3
<1> QED BY <1>4, <1>5

LEMMA EnterConcurrentRepeatStood ==
    ASSUME Plain, BlockInv, Stood, EnterConcurrentRepeat
    PROVE  Stood'
<1> DEFINE at == SuffixOf(Top)
           f == Frame(Here, at, 0)
<1>1. /\ InBody /\ Kind[Here] = "repeat" /\ Concurrent(Here) /\ status' = status
      /\ Count[Here] > MaxItems => After(stack, "failed") /\ UNCHANGED <<cp, copy>>
      /\ ~(Count[Here] > MaxItems) => Round(stack, f, copy)
  BY DEF EnterConcurrentRepeat
<1>2. /\ Walking /\ ret = "none" /\ Nested(stack) /\ stack # <<>> /\ AllStand(copy, stack)
      /\ Leads(Last(stack), Here, at) /\ Here \in Steps /\ at \in Seq(Nat)
  BY <1>1, HereStands
<1>3. CASE Count[Here] > MaxItems
  <2>1. Replay(copy)[<<Here, at>>] = "failed"
    BY <1>1, <1>2, <1>3, ItemsDecide
  <2> QED BY <1>1, <1>3, <2>1, PassedStood DEF Results
<1>4. CASE ~(Count[Here] > MaxItems)
  <2>1. FrameOK(f) /\ f.node = Here /\ f.at = at
    BY <1>1, <1>2, FrameFits
  <2>2. Count[Here] <= MaxItems
    BY <1>1, <1>2, <1>4, CountAssumption
  <2>3. Round(stack, f, copy)
    BY <1>1, <1>4
  <2> HIDE DEF f, at
  <2> QED BY <1>1, <1>2, <2>1, <2>2, <2>3, RoundStood DEF ConcurrentRepeat
<1> QED BY <1>3, <1>4

LEMMA BranchItem ==
    ASSUME BlockInv, Stood, Walking, Concurrent(Top.node), NEW i \in Nat,
           Branch(Top.node, Append(Top.at, i)) \in DOMAIN copy.branch
    PROVE  i \in Items(copy, Top.node, Top.at)
<1> DEFINE b == Top.node
           at == Top.at
           s == Append(at, i)
<1>1. b \in DOMAIN Body /\ Consumes(b) /\ PlaceOf(b, at) /\ Reached(copy, b, at)
  BY BranchTop
<1>2. Upto(s, b) = at /\ PassIn(b, s) = i
  BY <1>1, PassAt
<1>3. BranchesTrue(copy)
  BY WalkIs DEF Sound
<1> HIDE DEF s
<1>4. Branch(b, s) \in DOMAIN copy.branch
  BY DEF s
<1>5. PassOK(copy, b, s)
  BY <1>3, <1>4, BranchTrue DEF Ready
<1> QED BY <1>2, <1>5 DEF PassOK

(* The block ends: on its failures, its parks or its last item.            *)
LEMMA BranchesEndStood ==
    ASSUME Plain, BlockInv, Stood, BranchesEnd
    PROVE  Stood'
<1> DEFINE b == Top.node
           at == Top.at
           marker(i) == Branch(b, Append(at, i))
           broken == \E key \in BranchesOf(Top) : Failed(copy.branch, key)
<1>1. /\ Walking /\ ret = "none" /\ Concurrent(b) /\ Top.pos = 0 /\ Top.rest = {} /\ status' = status
      /\ Top.parked => Return("parked") /\ UNCHANGED <<cp, copy>>
      /\ ~Top.parked /\ broken => Return("failed") /\ UNCHANGED <<cp, copy>>
      /\ ~Top.parked /\ ~broken /\ Kind[b] = "parallel" => Return("done") /\ UNCHANGED <<cp, copy>>
      /\ ~Top.parked /\ ~broken /\ Kind[b] # "parallel" => Round(Front(stack), Top, copy)
  BY DEF BranchesEnd, BetweenBranches
<1>2. /\ b \in Steps /\ b # Root /\ b \in DOMAIN Body /\ at \in Seq(Nat)
      /\ Progress(copy, Top) /\ FrameOK(Top)
      /\ Nested(Front(stack)) /\ Front(stack) # <<>> /\ AllStand(copy, Front(stack))
      /\ Leads(Last(Front(stack)), b, at)
  BY <1>1, BranchTop
<1>3. CpOK(copy)
  BY <1>1, WalkIs
<1>4. /\ Items(copy, b, at) \subseteq Nat
      /\ Kind[b] = "parallel" => Items(copy, b, at) = 0..Len(Body[b]) - 1
  BY <1>1, <1>2, <1>3, ItemsAre
<1>5. Kind[b] \in {"parallel", "repeat"}
  BY <1>1 DEF Concurrent
<1>6. Kind[b] = "repeat" => Count[b] <= MaxItems
  BY <1>2 DEF Progress
<1>7. ~(Kind[b] = "repeat" /\ Count[b] > MaxItems)
  BY <1>2, <1>6, CountAssumption
<1>8. BranchesOf(Top) = {marker(i) : i \in 0..(IF Kind[b] = "parallel" THEN Len(Body[b]) ELSE Count[b]) - 1}
  BY DEF BranchesOf
<1>9. ASSUME ~Top.parked PROVE \A i \in Items(copy, b, at) : marker(i) \in DOMAIN copy.branch
  BY <1>1, <1>2, <1>9 DEF Progress
<1>10. CASE Top.parked
  BY <1>1, <1>2, <1>10, ReturnStood DEF Results
<1>11. CASE ~Top.parked /\ broken
  <2>1. PICK i \in 0..(IF Kind[b] = "parallel" THEN Len(Body[b]) ELSE Count[b]) - 1 : Failed(copy.branch, marker(i))
    BY <1>8, <1>11
  <2>2. i \in Nat
    OBVIOUS
  <2>3. i \in Items(copy, b, at)
    BY <1>1, <2>1, <2>2, BranchItem DEF Failed
  <2>4. Replay(copy)[<<b, at>>] = "failed"
    BY <1>1, <1>2, <1>7, <1>9, <1>11, <2>1, <2>3, ItemsDecide
  <2> QED BY <1>1, <1>2, <1>11, <2>4, ReturnStood DEF Results
<1>12. CASE ~Top.parked /\ ~broken /\ Kind[b] = "parallel"
  <2>1. \A i \in Items(copy, b, at) : ~Failed(copy.branch, marker(i))
    BY <1>4, <1>8, <1>12
  <2>2. Replay(copy)[<<b, at>>] = "done"
    BY <1>1, <1>2, <1>7, <1>9, <1>12, <2>1, ItemsDecide
  <2>3. Kept(Replay(copy), b, at)
    BY <2>2 DEF Kept
  <2> QED BY <1>1, <1>2, <1>12, <2>3, ReturnStood DEF Results
<1>13. CASE ~Top.parked /\ ~broken /\ Kind[b] # "parallel"
  <2>1. ConcurrentRepeat(b) /\ Count[b] <= MaxItems
    BY <1>1, <1>5, <1>6, <1>13 DEF ConcurrentRepeat
  <2>2. Round(Front(stack), Top, copy)
    BY <1>1, <1>13
  <2> QED BY <1>1, <1>2, <2>1, <2>2, RoundStood
<1> QED BY <1>10, <1>11, <1>12, <1>13

-----------------------------------------------------------------------------
(* The theorems.                                                           *)

(* Every step of the walk and around it.                                   *)
LEMMA StepStood ==
    ASSUME Plain, BlockInv, Stood, [Next]_blockVars
    PROVE  lost' \/ Stood'
<1>1. CASE Leaves
  BY <1>1, SkipStood, MeetStood, RunStood, SuspendStood, BreakStood DEF Leaves
<1>2. CASE Enters
  BY <1>2, EnterIfStood, EnterRepeatStood, EnterLoopStood, EnterRetryStood, EnterParallelStood,
     EnterConcurrentRepeatStood DEF Enters
<1>3. CASE Leaving
  BY <1>3, BodyEndsStood, IfStood, RepeatStood, LoopStood, RetryStood, BranchReturnsStood, NextBranchStood,
     BranchesEndStood DEF Leaving
<1>4. CASE BeginWalk \/ EndWalk \/ DropWalk
  BY <1>4, BeginStood, EndStood, DropStood
<1>5. CASE Settle \/ FailOutOfBand
  BY <1>5, SettleStood, FailStood
<1>6. CASE Crash
  BY <1>6, CrashStood
<1>7. CASE UNCHANGED blockVars
  <2>1. UNCHANGED <<copy, stack, ret>> /\ UNCHANGED <<cp, status>>
    BY <1>7 DEF blockVars
  <2>2. Stood <=> Stood'
    BY <2>1 DEF Stood, Sound, Linked, FailuresMarked, Walking, StackStands, Meaning, KeysShaped, StepsReached,
       AttemptsTrue, BranchesTrue, NoWaitBehind, FailedSince, Unwinding, Top, Last
  <2> QED BY <2>2
<1> QED BY <1>1, <1>2, <1>3, <1>4, <1>5, <1>6, <1>7 DEF Next, Walk

LEMMA LostStays ==
    ASSUME [Next]_blockVars, lost
    PROVE  lost'
<1> USE DEF Leaves, Enters, Leaving
<1>1. CASE Leaves
  BY <1>1 DEF SkipSettled, MeetWaiting, RunAction, Suspend, Break
<1>2. CASE Enters
  BY <1>2 DEF EnterIf, EnterRepeat, EnterLoop, EnterRetry, EnterParallel, EnterConcurrentRepeat
<1>3. CASE Leaving
  BY <1>3 DEF BodyEnds, IfReturns, RepeatReturns, LoopReturns, RetryReturns, BranchReturns, NextBranch, BranchesEnd
<1>4. CASE BeginWalk \/ EndWalk \/ DropWalk
  BY <1>4 DEF BeginWalk, EndWalk, DropWalk
<1>5. CASE Settle \/ FailOutOfBand
  BY <1>5 DEF Settle, FailOutOfBand
<1>6. CASE Crash
  BY <1>6 DEF Crash
<1>7. CASE UNCHANGED blockVars
  BY <1>7 DEF blockVars
<1> QED BY <1>1, <1>2, <1>3, <1>4, <1>5, <1>6, <1>7 DEF Next, Walk

(* For every plain tree, until a restart loses a verdict: the checkpoints  *)
(* can be trusted, every failure is behind a marker or on its way to one,  *)
(* and the frames of the walk stand where the record says.                 *)
THEOREM EarnedHolds == Plain => (Spec => []Earned)
<1> SUFFICES ASSUME Plain PROVE Spec => []Earned
  OBVIOUS
<1>1. Init => Earned
  BY InitStood DEF Earned
<1>2. BlockInv /\ Earned /\ [Next]_blockVars => Earned'
  <2> SUFFICES ASSUME BlockInv, Earned, [Next]_blockVars PROVE Earned'
    OBVIOUS
  <2>1. CASE lost
    <3>1. lost'
      BY <2>1, LostStays
    <3> QED BY <3>1 DEF Earned
  <2>2. CASE Stood
    <3>1. lost' \/ Stood'
      BY <2>2, StepStood
    <3> QED BY <3>1 DEF Earned
  <2> QED BY <2>1, <2>2 DEF Earned
<1> QED BY <1>1, <1>2, BlockInvHolds, PTL DEF Spec

LEMMA AppendIs ==
    ASSUME NEW t \in Seq(Nat), NEW x \in Nat
    PROVE  /\ Len(Append(t, x)) = Len(t) + 1 /\ Append(t, x)[Len(t) + 1] = x
           /\ \A k \in 1..Len(t) : Append(t, x)[k] = t[k]
  OBVIOUS

LEMMA AppendSame ==
    ASSUME NEW t \in Seq(Nat), NEW v \in Seq(Nat), NEW x \in Nat, NEW y \in Nat, Append(t, x) = Append(v, y)
    PROVE  t = v /\ x = y
<1> DEFINE u == Append(t, x)
<1>1. Len(u) = Len(t) + 1 /\ u[Len(t) + 1] = x /\ \A k \in 1..Len(t) : u[k] = t[k]
  BY AppendIs
<1>2. Len(u) = Len(v) + 1 /\ u[Len(v) + 1] = y /\ \A k \in 1..Len(v) : u[k] = v[k]
  <2>1. u = Append(v, y)
    OBVIOUS
  <2> HIDE DEF u
  <2> QED BY <2>1, AppendIs
<1> HIDE DEF u
<1>3. Len(t) \in Nat /\ Len(v) \in Nat
  OBVIOUS
<1>4. Len(t) = Len(v)
  BY <1>1, <1>2, <1>3
<1>5. x = y
  BY <1>1, <1>2, <1>4
<1>6. \A k \in 1..Len(t) : t[k] = v[k]
  BY <1>1, <1>2, <1>4
<1>7. t = v
  <2>1. DOMAIN t = 1..Len(t) /\ DOMAIN v = 1..Len(v)
    OBVIOUS
  <2> QED BY <1>4, <1>6, <2>1
<1> QED BY <1>5, <1>7

(* No step of a failed attempt waits.                                      *)
LEMMA AttemptOver ==
    ASSUME NEW c, CpOK(c), Sound(c), NEW key \in DOMAIN c.attempt, NEW ref \in DOMAIN c.step,
           c.step[ref].status = "waiting", key[1] \in Above[ref[1]]
    PROVE  SubSeq(ref[2], 1, Depth[key[1]] + 1) # Append(key[3], key[2])
<1> DEFINE b == key[1]
           s == ref[2]
           h == Depth[b]
<1>1. ~Over(c, ref[1], s)
  BY DEF Sound, NoWaitBehind
<1>2. Kind[b] = "retry" /\ key = <<b, key[2], key[3]>> /\ key[2] \in Nat
  BY DEF CpOK
<1>3. key[3] \in Seq(Nat) /\ Len(key[3]) = h /\ b \in Steps
  BY DEF Sound, KeysShaped
<1>4. Place(ref) /\ s \in Seq(Nat) /\ Len(s) \in Nat /\ h \in Nat /\ h + 1 <= Len(s)
  <2>1. Place(ref)
    BY DEF CpOK
  <2>2. ref[1] \in DOMAIN Kind /\ s \in Seq(Nat) /\ Len(s) = Depth[ref[1]]
    BY <2>1 DEF Place, Steps
  <2>3. Consumes(b)
    BY <1>2, <1>3 DEF Consumes, Steps
  <2>4. h \in Nat /\ h + 1 <= Depth[ref[1]]
    BY <2>2, <2>3, AboveDepth
  <2> QED BY <2>1, <2>2, <2>4
<1> SUFFICES ASSUME SubSeq(s, 1, h + 1) = Append(key[3], key[2]) PROVE FALSE
  OBVIOUS
<1> HIDE DEF s, h
<1>5. SubSeq(s, 1, h + 1) = Append(SubSeq(s, 1, h), s[h + 1]) /\ Len(SubSeq(s, 1, h)) = h /\ SubSeq(s, 1, h) \in Seq(Nat)
  <2>1. h < Len(s) /\ h <= Len(s)
    BY <1>4
  <2> QED BY <1>4, <2>1, CutShort
<1>6. SubSeq(s, 1, h) = key[3] /\ s[h + 1] = key[2]
  <2> DEFINE t == SubSeq(s, 1, h)
             v == key[3]
             x == s[h + 1]
             y == key[2]
  <2>1. t \in Seq(Nat) /\ v \in Seq(Nat) /\ x \in Nat /\ y \in Nat
    BY <1>2, <1>3, <1>4, <1>5
  <2>2. Append(t, x) = Append(v, y)
    BY <1>5
  <2> HIDE DEF t, v, x, y
  <2>3. t = v /\ x = y
    BY <2>1, <2>2, AppendSame
  <2> QED BY <2>3 DEF t, v, x, y
<1>7. Attempt(b, Upto(s, b), PassIn(b, s)) = key
  BY <1>2, <1>6 DEF Attempt, Upto, PassIn, h
<1> QED BY <1>1, <1>2, <1>7 DEF Over, s

LEMMA PlacesAre ==
    ASSUME NEW p \in Places
    PROVE  /\ p.block \in DOMAIN Body /\ p.body \in DOMAIN Body[p.block] /\ p.at \in DOMAIN Body[p.block][p.body]
           /\ p.leaf \in Steps /\ Body[p.block][p.body][p.at] \in Chain(p.leaf)
           /\ Parent[Body[p.block][p.body][p.at]] = p.block
           /\ p.depth = Depth[Body[p.block][p.body][p.at]]
<1>1. PICK q \in Bodies : \E j \in DOMAIN Body[q[1]][q[2]] : \E n \in Below(Body[q[1]][q[2]][j]) :
         p = [block |-> q[1], body |-> q[2], at |-> j, leaf |-> n, depth |-> Inner(q[1])]
  BY DEF Places
<1>2. PICK j \in DOMAIN Body[q[1]][q[2]] : \E n \in Below(Body[q[1]][q[2]][j]) :
         p = [block |-> q[1], body |-> q[2], at |-> j, leaf |-> n, depth |-> Inner(q[1])]
  BY <1>1
<1>3. PICK n \in Below(Body[q[1]][q[2]][j]) :
         p = [block |-> q[1], body |-> q[2], at |-> j, leaf |-> n, depth |-> Inner(q[1])]
  BY <1>2
<1>4. p.block = q[1] /\ p.body = q[2] /\ p.at = j /\ p.leaf = n /\ p.depth = Inner(q[1])
  BY <1>3
<1>5. q[1] \in DOMAIN Body /\ q[2] \in DOMAIN Body[q[1]]
  BY DEF Bodies
<1> DEFINE x == Body[q[1]][q[2]][j]
<1>6. x \in Steps /\ Parent[x] = q[1]
  BY <1>5, BlockIs
<1> HIDE DEF x
<1>7. n \in Steps /\ (n = x \/ x \in Above[n])
  BY <1>3 DEF Below, x
<1>8. x \in Chain(n)
  BY <1>6, <1>7 DEF Chain, Steps
<1>9. Depth[x] = Inner(q[1])
  BY <1>6, StepIs
<1> QED BY <1>4, <1>5, <1>6, <1>7, <1>8, <1>9 DEF x

(* What comes before a step on record means kept.                          *)
LEMMA EarlierMeans ==
    ASSUME NEW c, CpOK(c), Sound(c), NEW n, NEW s, PlaceOf(n, s), Reached(c, n, s), NEW x \in Chain(n),
           NEW k \in DOMAIN Body[Parent[x]], NEW i \in DOMAIN Body[Parent[x]][k], NEW j \in DOMAIN Body[Parent[x]][k],
           i < j, Body[Parent[x]][k][j] = x
    PROVE  Kept(Means(c), Body[Parent[x]][k][i], Upto(s, x))
<1> DEFINE b == Parent[x]
           w == Upto(s, x)
           y == Body[b][k][i]
<1>1. InOrder(c, x, w) /\ Ready(c, b, w)
  BY ReachedUp
<1>2. PassOK(c, b, w) /\ \E l \in DOMAIN TakenBody(c, b, w) : TakenBody(c, b, w)[l] = x /\ Clear(c, b, w, l)
  BY <1>1 DEF InOrder
<1>3. PICK l \in DOMAIN TakenBody(c, b, w) : TakenBody(c, b, w)[l] = x /\ Clear(c, b, w, l)
  BY <1>2
<1>4. b \in DOMAIN Body /\ w \in Seq(Nat) /\ Len(w) = Inner(b)
  <2>1. PlaceOf(x, w)
    BY ChainPlace
  <2> QED BY <2>1, PlaceIs
<1>5. Taken(c, b, w) \in DOMAIN Body[b] /\ TakenBody(c, b, w) = Body[b][Taken(c, b, w)]
  BY <1>2, <1>4, TakenIs DEF TakenBody
<1>6. Kept(Replay(c), y, w)
  BY EarlierKept
<1> HIDE DEF b, w
<1>7. Taken(c, b, w) = k /\ l = j
  BY <1>3, <1>4, <1>5, TreeAssumption DEF b
<1>8. Body[b][k] \in Seq(Steps) /\ y \in Steps
  BY <1>4, BlockIs DEF b
<1>9. Clear(c, b, w, i)
  <2>1. \A m \in 1..i - 1 : m \in 1..j - 1
    BY <1>8 DEF b
  <2> QED BY <1>3, <1>7, <2>1 DEF Clear
<1>10. TakenBody(c, b, w)[i] = y /\ i \in DOMAIN TakenBody(c, b, w)
  BY <1>5, <1>7 DEF b
<1> HIDE DEF y
<1>11. PlaceOf(y, w) /\ Reached(c, y, w)
  BY <1>1, <1>4, <1>9, <1>10, ReachedIn
<1>12. Replay(c)[<<y, w>>] # "open"
  BY <1>6 DEF Kept
<1>13. Means(c)[<<y, w>>] = Replay(c)[<<y, w>>]
  BY <1>8, <1>11, <1>12, ReplayMeans DEF Faithful
<1> QED BY <1>6, <1>13 DEF Kept, y, b, w

LEMMA StoodOrder ==
    ASSUME Plain, BlockInv, Stood
    PROVE  StartsInOrder
<1>1. CpOK(cp) /\ Sound(cp)
  BY StoreAgrees DEF Stood
<1>2. FailedAttemptIsOver
  <2> SUFFICES ASSUME NEW key \in DOMAIN cp.attempt, NEW ref \in DOMAIN cp.step, cp.step[ref].status = "waiting",
                      [leaf |-> ref[1], block |-> key[1]] \in Enclosures
               PROVE  SubSeq(ref[2], 1, Depths[key[1]] + 1) # Append(key[3], key[2])
    BY DEF FailedAttemptIsOver
  <2>1. key[1] \in Above[ref[1]] /\ Depths[key[1]] = Depth[key[1]]
    BY EnclosureIs
  <2> QED BY <1>1, <2>1, AttemptOver
<1>3. ASSUME NEW p \in Places, NEW ref \in DOMAIN cp.step, p.leaf = ref[1], NEW i \in 1..p.at - 1
      PROVE  Kept(Means(cp), Body[p.block][p.body][i], SubSeq(ref[2], 1, p.depth))
  <2> DEFINE x == Body[p.block][p.body][p.at]
  <2>1. /\ p.block \in DOMAIN Body /\ p.body \in DOMAIN Body[p.block] /\ p.at \in DOMAIN Body[p.block][p.body]
        /\ x \in Chain(p.leaf) /\ Parent[x] = p.block /\ p.depth = Depth[x]
    BY PlacesAre
  <2>2. PlaceOf(ref[1], ref[2]) /\ Reached(cp, ref[1], ref[2])
    BY <1>1 DEF CpOK, Sound, StepsReached, Place, PlaceOf
  <2>3. i \in DOMAIN Body[p.block][p.body] /\ i < p.at
    <3>1. Body[p.block][p.body] \in Seq(Steps)
      BY <2>1, BlockIs
    <3> QED BY <2>1, <3>1
  <2> HIDE DEF x
  <2>4. Kept(Means(cp), Body[p.block][p.body][i], Upto(ref[2], x))
    BY <1>1, <1>3, <2>1, <2>2, <2>3, EarlierMeans DEF x
  <2> QED BY <2>1, <2>4 DEF Upto
<1> QED BY <1>2, <1>3 DEF StartsInOrder

(* For every plain tree and every interleaving of walks, settles and       *)
(* restarts, a run that succeeded means done on the leaves alone, unless   *)
(* a restart hit the instant between a failed entry and its marker         *)
(* (engine/walk.rs:42-81).                                                 *)
THEOREM SuccessEarned == Plain => (Spec => []SuccessIsEarned)
<1> SUFFICES ASSUME Plain PROVE Spec => []SuccessIsEarned
  OBVIOUS
<1>1. Earned => SuccessIsEarned
  BY DEF Earned, Stood, SuccessIsEarned
<1> QED BY <1>1, EarnedHolds, PTL

(* For every plain tree, with the same exception: a step on record has     *)
(* everything before it in each body around it over, and no step of a      *)
(* failed attempt still waits (engine/walk.rs:63-72,                       *)
(* engine/blocks_concurrent.rs:126-131).                                   *)
THEOREM OrderKept == Plain => (Spec => [](lost \/ StartsInOrder))
<1> SUFFICES ASSUME Plain PROVE Spec => [](lost \/ StartsInOrder)
  OBVIOUS
<1>1. BlockInv /\ Earned => lost \/ StartsInOrder
  BY StoodOrder DEF Earned
<1> QED BY <1>1, BlockInvHolds, EarnedHolds, PTL
-----------------------------------------------------------------------------
(* Runs that failed have earned it too.                                     *)

LEMMA FailsBody ==
    ASSUME NEW c, CpOK(c), Sound(c), NEW n, NEW s, PlaceOf(n, s), Reached(c, n, s),
           Means(c)[<<n, s>>] = "failed", n \notin KeepGoing
    PROVE  BodyValue(Means(c), TakenBody(c, Parent[n], s), s) = "failed"
<1> DEFINE p == Parent[n]
           body == TakenBody(c, p, s)
<1>1. s \in Seq(Nat) /\ Len(s) = Inner(p) /\ p \in DOMAIN Body /\ n \in Chain(n) /\ Upto(s, n) = s
  BY PlaceIs
<1>2. Ready(c, p, s) /\ InOrder(c, n, s)
  BY <1>1, ReachedUp
<1>3. PICK j \in DOMAIN body : body[j] = n /\ Clear(c, p, s, j)
  BY <1>2 DEF InOrder
<1>4. body \in Seq(Steps) /\ Settled(c, p, s, Means(c))
  BY <1>1, <1>2, MeansSettled, ReplayMeans
<1>5. \A i \in 1..j - 1 : Kept(Means(c), body[i], s)
  <2>1. j \in Nat /\ j <= Len(body) + 1
    BY <1>4
  <2> QED BY <1>3, <1>4, <2>1, ClearKept
<1>6. ~Kept(Means(c), body[j], s)
  BY <1>3 DEF Kept
<1> HIDE DEF body
<1>7. BodyValue(Means(c), body, s) = Means(c)[<<body[j], s>>]
  BY <1>3, <1>4, <1>5, <1>6, BodyFacts
<1> QED BY <1>3, <1>7 DEF body

LEMMA FailsBlock ==
    ASSUME NEW c, CpOK(c), Sound(c), NEW b \in Steps, NEW s \in Seq(Nat), Len(s) = Inner(b), b \in DOMAIN Body,
           Ready(c, b, s), Kind[b] # "retry", BodyValue(Means(c), TakenBody(c, b, s), s) = "failed"
    PROVE  Means(c)[<<b, Upto(s, b)>>] = "failed"
<1> DEFINE at == Upto(s, b)
           p == PassIn(b, s)
           v == PassValues(Means(c), b, at)
           w == BranchValues(Means(c), b, at)
<1>1. /\ at \in Seq(Nat) /\ b # Root
      /\ Consumes(b) => s = Append(at, p) /\ p \in Nat
      /\ ~Consumes(b) => s = at
      /\ PassOK(c, b, s)
  BY BodyPlace, StepIs DEF Ready
<1>2. CASE Kind[b] = "if"
  <2>1. TakenBody(c, b, s) = Body[b][IF Holds(c, b, at) THEN 1 ELSE 2] /\ s = at
    BY <1>1, <1>2 DEF TakenBody, Taken, Consumes
  <2> QED BY <1>1, <1>2, <2>1, MeansCases
<1>3. CASE Concurrent(b)
  <2>1. Items(c, b, at) \subseteq Nat /\ p \in Items(c, b, at) /\ s = Append(at, p)
    BY <1>1, <1>3, ItemsAre DEF PassOK
  <2>2. p \in DOMAIN w /\ w[p] = "failed"
    <3>1. CASE Kind[b] = "parallel"
      <4>1. p \in 0..Len(Body[b]) - 1 /\ TakenBody(c, b, s) = Body[b][p + 1]
        BY <1>3, <2>1, <3>1, ItemsAre
      <4> QED BY <2>1, <3>1, <4>1 DEF BranchValues
    <3>2. CASE Kind[b] = "repeat"
      <4>1. p \in 0..Count[b] - 1 /\ TakenBody(c, b, s) = Body[b][1]
        BY <1>3, <2>1, <3>2, ItemsAre
      <4> QED BY <2>1, <3>2, <4>1 DEF BranchValues, PassValues
    <3> QED BY <1>3, <3>1, <3>2 DEF Concurrent
  <2> HIDE DEF w
  <2>3. "failed" \in Range(w)
    BY <2>2 DEF Range
  <2>4. Means(c)[<<b, at>>] = ConcurrentValue(Means(c), b, at)
    BY <1>1, <1>3, MeansCases
  <2> QED BY <2>3, <2>4 DEF ConcurrentValue, w
<1>4. CASE Kind[b] \in {"repeat", "loop"} /\ ~Concurrent(b)
  <2>1. Consumes(b) /\ Count[b] \in Nat /\ DOMAIN v = 0..Count[b] - 1
        /\ \A i \in 0..Count[b] - 1 : v[i] = BodyValue(Means(c), Body[b][1], Append(at, i))
        /\ \A u : TakenBody(c, b, u) = Body[b][1]
    BY <1>4, PassesAre
  <2>2. p \in 0..Count[b] - 1 /\ s = Append(at, p)
    BY <1>1, <1>4, <2>1 DEF PassOK
  <2>3. v[p] = "failed"
    BY <2>1, <2>2
  <2>4. ASSUME NEW i \in 0..p - 1 PROVE v[i] = "done"
    <3>1. /\ Append(at, i) \in Seq(Nat) /\ Len(Append(at, i)) = Inner(b)
          /\ Ready(c, b, Append(at, i)) /\ BlockValue(c, b, Append(at, i)) = "done"
      BY <1>4, EarlierReady
    <3>2. BodyValue(Means(c), TakenBody(c, b, Append(at, i)), Append(at, i)) = "done"
      BY <3>1, BodyMeans, ReplayMeans
    <3>3. i \in 0..Count[b] - 1
      BY <2>1, <2>2
    <3> QED BY <2>1, <3>2, <3>3
  <2> HIDE DEF v, p
  <2>5. CASE Kind[b] = "repeat"
    <3> DEFINE S == {i \in DOMAIN v : v[i] # "done"}
    <3>1. S # {} /\ Min(S) = p
      <4>1. S \subseteq 0..Count[b] - 1 /\ p \in S /\ \A i \in 0..p - 1 : i \notin S
        BY <2>1, <2>2, <2>3, <2>4
      <4> HIDE DEF S
      <4> QED BY <2>1, <2>2, <4>1, FirstIs
    <3>2. Means(c)[<<b, at>>] = RepeatValue(Means(c), b, at)
      BY <1>1, <1>4, <2>5, MeansCases
    <3> QED BY <2>3, <3>1, <3>2 DEF RepeatValue, Outcome, v
  <2>6. CASE Kind[b] = "loop"
    <3> DEFINE S == {i \in DOMAIN v : v[i] # "done" \/ (i + 1 < Count[b] /\ ~Continues(c, b, Append(at, i)))}
    <3>0. /\ Visible(c, Test[b], at) = {} \/ Continues(c, b, at)
          /\ \A i \in 0..p - 1 : Continues(c, b, Append(at, i))
      BY <1>1, <2>6 DEF PassOK, p
    <3>1. S # {} /\ Min(S) = p
      <4>1. S \subseteq 0..Count[b] - 1 /\ p \in S /\ \A i \in 0..p - 1 : i \notin S
        BY <2>1, <2>2, <2>3, <2>4, <3>0
      <4> HIDE DEF S
      <4> QED BY <2>1, <2>2, <4>1, FirstIs
    <3>2. Means(c)[<<b, at>>] = LoopValue(c, Means(c), b, at)
      BY <1>1, <2>6, MeansCases
    <3> QED BY <2>3, <3>0, <3>1, <3>2 DEF LoopValue, Outcome, v
  <2> QED BY <1>4, <2>5, <2>6
<1> QED BY <1>2, <1>3, <1>4, TreeAssumption DEF Leaf, Concurrent

LEMMA FatalUp ==
    ASSUME NEW c, CpOK(c), Sound(c)
    PROVE  \A n \in Steps : FatalTo(c, n)
<1> DEFINE S == {n \in Steps : FatalTo(c, n)}
<1>1. ASSUME NEW n \in Steps, Parent[n] \in Steps => FatalTo(c, Parent[n]) PROVE FatalTo(c, n)
  <2> SUFFICES ASSUME NEW s, PlaceOf(n, s), Reached(c, n, s), Means(c)[<<n, s>>] = "failed", n \notin KeepGoing,
                      \A a \in Above[n] : Kind[a] # "retry" /\ a \notin KeepGoing
               PROVE  BodyValue(Means(c), Body[Root][1], <<>>) = "failed"
    BY DEF FatalTo
  <2> DEFINE p == Parent[n]
  <2>1. s \in Seq(Nat) /\ Len(s) = Inner(p) /\ p \in DOMAIN Body /\ n \in Chain(n) /\ Upto(s, n) = s /\ p \in Above[n]
    BY PlaceIs
  <2>2. Ready(c, p, s) /\ BodyValue(Means(c), TakenBody(c, p, s), s) = "failed"
    BY <2>1, FailsBody, ReachedUp
  <2>3. CASE p = Root
    <3>1. s = <<>>
      BY <2>1, <2>3, RootIs
    <3> QED BY <2>2, <2>3, <3>1, RootBody
  <2>4. CASE p # Root
    <3>1. p \in Steps /\ Above[n] = {p} \cup Above[p] /\ p \in Chain(n)
      BY <2>1, <2>4, StepIs DEF Chain
    <3>2. Means(c)[<<p, Upto(s, p)>>] = "failed"
      BY <2>1, <2>2, <3>1, FailsBlock
    <3>3. PlaceOf(p, Upto(s, p)) /\ Reached(c, p, Upto(s, p))
      BY <3>1, ReachedUp, ChainStep
    <3> QED BY <1>1, <3>1, <3>2, <3>3 DEF FatalTo
  <2> QED BY <2>3, <2>4
<1>2. S = Steps
  <2>1. S \in SUBSET Steps
    OBVIOUS
  <2>2. \A n \in Steps : (Parent[n] \in Steps => Parent[n] \in S) => n \in S
    BY <1>1
  <2> HIDE DEF S
  <2> QED BY <2>1, <2>2, TreeInduction
<1> QED BY <1>2

LEMMA DownMeans ==
    ASSUME Plain, AgentsFatal, BlockInv, Stood, AgentDown
    PROVE  Meaning = "failed"
<1>1. CpOK(cp) /\ Sound(cp)
  BY StoreAgrees DEF Stood
<1>2. PICK ref \in DOMAIN cp.step : /\ Kind[ref[1]] = "agent" /\ ref[1] \notin KeepGoing
                                   /\ cp.step[ref].status = "failed"
  BY DEF AgentDown
<1>3. PlaceOf(ref[1], ref[2]) /\ Reached(cp, ref[1], ref[2]) /\ ref = <<ref[1], ref[2]>>
  BY <1>1 DEF CpOK, Sound, StepsReached, Place, PlaceOf
<1>4. ref[1] \in Steps /\ ref[2] \in Seq(Nat) /\ Leaf(ref[1])
  BY <1>2, <1>3, PlaceIs DEF Leaf, LeafKinds
<1>5. Means(cp)[<<ref[1], ref[2]>>] = "failed"
  <2>1. Means(cp)[<<ref[1], ref[2]>>] = LeafValue(cp, ref[1], ref[2])
    BY <1>4, MeansCases
  <2>2. StatusAt(cp, <<ref[1], ref[2]>>) = "failed"
    BY <1>2, <1>3 DEF StatusAt
  <2> QED BY <2>1, <2>2 DEF LeafValue
<1>6. \A a \in Above[ref[1]] : Kind[a] # "retry" /\ a \notin KeepGoing
  BY <1>2, <1>4 DEF AgentsFatal
<1>7. FatalTo(cp, ref[1])
  BY <1>1, <1>4, FatalUp
<1> QED BY <1>2, <1>3, <1>5, <1>6, <1>7 DEF FatalTo, Meaning

LEMMA VerdictStays ==
    ASSUME [Next]_blockVars, status' = "failed"
    PROVE  EndWalk \/ FailOutOfBand \/ (status = "failed" /\ cp' = cp)
<1> USE DEF Walking, InBody, BetweenBranches, Returned
<1>1. CASE Leaves
  BY <1>1 DEF Leaves, SkipSettled, MeetWaiting, RunAction, Suspend, Break
<1>2. CASE Enters
  BY <1>2 DEF Enters, EnterIf, EnterRepeat, EnterLoop, EnterRetry, EnterParallel, EnterConcurrentRepeat
<1>3. CASE Leaving
  BY <1>3 DEF Leaving, BodyEnds, IfReturns, RepeatReturns, LoopReturns, RetryReturns, BranchReturns, NextBranch, BranchesEnd
<1>4. CASE BeginWalk \/ DropWalk \/ Crash \/ UNCHANGED blockVars
  BY <1>4 DEF BeginWalk, DropWalk, Crash, blockVars
<1>5. CASE Settle
  BY <1>5 DEF Settle
<1> QED BY <1>1, <1>2, <1>3, <1>4, <1>5 DEF Next, Walk

(* For every plain tree whose agents stand under no retry and no keepGoing *)
(* block: a run that failed, beside the walk or at its end, means failed   *)
(* on the leaves alone, and one that succeeded means done, with the same   *)
(* exception (engine/agent_settle.rs:205-216, engine/walk.rs:42-81).       *)
THEOREM VerdictEarned == Plain /\ AgentsFatal => (Spec => []VerdictIsEarned)
<1> SUFFICES ASSUME Plain, AgentsFatal PROVE Spec => []VerdictIsEarned
  OBVIOUS
<1> DEFINE J == lost \/ (status = "failed" => Meaning = "failed" \/ AgentDown)
<1>1. Init => J
  BY DEF Init
<1>2. BlockInv /\ Earned /\ J /\ [Next]_blockVars => J'
  <2> SUFFICES ASSUME BlockInv, Earned, J, [Next]_blockVars, ~lost', status' = "failed"
               PROVE  (Meaning = "failed" \/ AgentDown)'
    OBVIOUS
  <2>1. ~lost /\ Stood
    BY LostStays DEF Earned
  <2>2. CASE EndWalk
    <3>1. ret = "failed" /\ cp' = cp
      BY <2>2 DEF EndWalk
    <3> QED BY <2>1, <2>2, <3>1, EndMeans DEF Meaning
  <2>3. CASE FailOutOfBand
    BY <2>1, <2>3, FailStood
  <2>4. CASE status = "failed" /\ cp' = cp
    BY <2>1, <2>4 DEF Meaning, AgentDown
  <2> QED BY <2>2, <2>3, <2>4, VerdictStays
<1>3. BlockInv /\ Earned /\ J => VerdictIsEarned
  <2> SUFFICES ASSUME BlockInv, Earned, J PROVE VerdictIsEarned
    OBVIOUS
  <2>1. SuccessIsEarned
    BY DEF Earned, Stood, SuccessIsEarned
  <2>2. FailureIsEarned
    BY DownMeans DEF Earned, FailureIsEarned
  <2> QED BY <2>1, <2>2 DEF VerdictIsEarned
<1> QED BY <1>1, <1>2, <1>3, BlockInvHolds, EarnedHolds, PTL DEF Spec
=============================================================================
