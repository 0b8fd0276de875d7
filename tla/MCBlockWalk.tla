---------------------------- MODULE MCBlockWalk ----------------------------
(* Instances of BlockWalk for TLC.                                         *)
EXTENDS BlockReplay

NoStep == [n \in {} |-> n]

ParentIn(body) ==
    [n \in UNION {UNION {Range(body[b][k]) : k \in DOMAIN body[b]} : b \in DOMAIN body} |->
       CHOOSE b \in DOMAIN body : \E k \in DOMAIN body[b] : n \in Range(body[b][k])]

(* root: parallel {retry {f, x}, g}; until loop {p, if p {break} else z};  *)
(* concurrent repeat of three {k, w}; repeat of two {y}                    *)
NestBody ==
    [root |-> << <<"par", "loop", "con", "rep">> >>,
     par  |-> << <<"try">>, <<"g">> >>,
     try  |-> << <<"f", "x">> >>,
     loop |-> << <<"p", "cond">> >>,
     cond |-> << <<"brk">>, <<"z">> >>,
     con  |-> << <<"k", "w">> >>,
     rep  |-> << <<"y">> >>]
NestKind ==
    [root |-> "root", par |-> "parallel", try |-> "retry", f |-> "ask", x |-> "act", g |-> "agent",
     loop |-> "loop", p |-> "act", cond |-> "if", brk |-> "break", z |-> "ask",
     con |-> "repeat", k |-> "agent", w |-> "act", rep |-> "repeat", y |-> "act"]
NestCount == [try |-> 2, loop |-> 2, con |-> 3, rep |-> 2]
NestTest == [loop |-> "z", cond |-> "p"]
NestConcurrency == [con |-> 2, rep |-> 1]
NestParent == ParentIn(NestBody)
NestKeepGoing == {"w"}

(* The tree is one the theorems are about.                                 *)
ASSUME NestIsPlain == Kind = NestKind => Plain /\ AgentsFatal

(* A keepGoing if before a wait.                                           *)
TolerantBody == [root |-> << <<"t", "cond", "g">> >>, cond |-> << <<"a", "b">>, <<>> >>]
TolerantKind == [root |-> "root", t |-> "act", cond |-> "if", a |-> "act", b |-> "act", g |-> "agent"]
TolerantParent == ParentIn(TolerantBody)
TolerantKeepGoing == {"cond"}
TolerantTest == [cond |-> "t"]

(* A loop until its probe says so.                                         *)
PollBody == [root |-> << <<"loop">> >>, loop |-> << <<"p", "z">> >>]
PollKind == [root |-> "root", loop |-> "loop", p |-> "act", z |-> "ask"]
PollParent == ParentIn(PollBody)
PollCount == [loop |-> 3]
PollTest == [loop |-> "p"]

(* A retry around an agent.                                                *)
AgainBody == [root |-> << <<"try">> >>, try |-> << <<"g">> >>]
AgainKind == [root |-> "root", try |-> "retry", g |-> "agent"]
AgainCount == [try |-> 2]
AgainParent == ParentIn(AgainBody)

(* The same in a branch, under a parallel that may fail.                   *)
BesideBody == [root |-> << <<"par">> >>, par |-> << <<"try">>, <<"h">> >>, try |-> << <<"g">> >>]
BesideKind == [root |-> "root", par |-> "parallel", try |-> "retry", g |-> "agent", h |-> "ask"]
BesideParent == ParentIn(BesideBody)
BesideKeepGoing == {"par"}

Loops == {"loop"}
None == {}

=============================================================================
