---------------------- MODULE DynamicNodesAloneProofs -----------------------
(***************************************************************************)
(* Proofs about the dynamic nodes of a Run that one runtime orchestrates,  *)
(* for any number of intents, Slaves and faults and any limits of the      *)
(* orchestration.                                                          *)
(***************************************************************************)
EXTENDS DynamicNodesProofs, FiniteSetTheorems

---------------------------------------------------------------------------
\* One runtime
\*
\* A second runtime asks for nodes that calls of the first are still working
\* on.  As long as there is one, a task has at most one call in progress and
\* waits for it, and what a call has checked about its node stays true.

\* The node i has no attempts.
Fresh(x, i) == \A k \in 1 .. Size(x) : x.run.attempts[k].node # i

\* Attempt k of node i has the result of the node.
ResultOf(x, i, k) ==
  x.run.attempts[k].node = i /\ x.run.attempts[k].state = "completed"

\* Attempt k is a live one of node i.
LiveOf(x, i, k) ==
  x.run.attempts[k].node = i /\ x.run.attempts[k].state = "created"

LiveNodes(x) == {i \in Intents : LiveNode(x.nodes[i])}

\* A node that was not dispatched has no attempt, one that has completed has
\* a result, and none has two live attempts.
SaneNode(x, i) ==
  /\ x.nodes[i] \in {"none", "accepted"} => Fresh(x, i)
  /\ x.nodes[i] = "completed" => \E k \in 1 .. Size(x) : ResultOf(x, i, k)
  /\ \A j, k \in 1 .. Size(x) : LiveOf(x, i, j) /\ LiveOf(x, i, k) => j = k

FewAreLive(x) == Cardinality(LiveNodes(x)) <= MaxLiveNodes

Sane(x) == FewAreLive(x) /\ \A i \in Intents : SaneNode(x, i)

Settled(x) == \A i \in Intents : x.nodes[i] \in {"none", "completed"}

Run(s) == s[Len(s)]

\* What a call has checked, and nobody changes while it is in progress; s are
\* the objects and cs the calls.
Holds(c, s, cs) ==
  /\ c.runtime = 1
  /\ c.op = "accept" => c.object = Len(s) /\ Run(s).nodes[c.intent] = "none"
  /\ c.op = "dispatch" => s[c.object].nodes[c.intent] = "accepted"
  /\ c.op = "reassign" =>
       /\ Run(s).nodes[c.intent] = "dispatched"
       /\ \A k \in 1 .. Size(Run(s)) : LiveOf(Run(s), c.intent, k) => k = c.attempt
  /\ c.op = "swap" => Sane(c.copy) /\ c.copy.run.state # "completed"
  /\ c.op = "complete" => c.object = Len(s) /\ Settled(Run(s)) /\ cs = {c}

\* The task that asked waits for the answer; t are the tasks.
Awaits(c, t) ==
  \/ c.op = "accept" /\ t[c.intent].stage = "accepting"
  \/ c.op = "dispatch" /\ t[c.intent].stage = "dispatching"
  \/ c.op = "report" /\ t[c.intent].stage = "reporting"
  \/ c.op \in {"reassign", "swap"} /\ t[c.intent].stage = "reassigning"
  \/ c.op = "complete" /\ \A i \in Intents : t[i].stage = "done"

SoundData(s, cs) ==
  /\ \A o \in 1 .. Len(s) : Sane(s[o])
  /\ \A c \in cs : Holds(c, s, cs)
  /\ \A b, c \in cs :
       b.op # "complete" /\ c.op # "complete" /\ b.intent = c.intent => b = c

SoundTasks(s, cs, t, runtime) ==
  /\ runtime = 0 => \A i \in Intents : t[i].stage = "none"
  /\ runtime # 0 => \A c \in cs : Awaits(c, t)
  /\ Run(s).run.state = "completed" => Settled(Run(s)) /\ cs = {} /\ runtime = 0

Alone ==
  SoundData(objects, calls) /\ SoundTasks(objects, calls, tasks, driver.runtime)

AloneInv == driver.started # 0 /\ (driver.started = 1 => Alone)

---------------------------------------------------------------------------
\* Objects stay sane

\* Whether an object is sane depends on its nodes and its attempts.
LEMMA SameIsSane ==
  ASSUME NEW x, NEW y, y.nodes = x.nodes, y.run.attempts = x.run.attempts, Sane(x)
  PROVE  Sane(y)
BY SMTT(20) DEF Sane, SaneNode, FewAreLive, Fresh, ResultOf, LiveOf, LiveNodes,
   Size

\* The intents are finitely many.
LEMMA LiveNodesAreFinite ==
  ASSUME NEW x
  PROVE  /\ IsFiniteSet(LiveNodes(x)) /\ Cardinality(LiveNodes(x)) \in Nat
<1>1. IsFiniteSet(Intents)
  BY SMTT(20), NodeConstantsAreSound, FS_Interval DEF Intents
<1>2. LiveNodes(x) \subseteq Intents
  BY Zenon DEF LiveNodes
<1>3. IsFiniteSet(LiveNodes(x))
  BY ZenonT(30), <1>1, <1>2, FS_Subset
<1> QED
  BY Zenon, <1>3, FS_CardinalityType

\* Live nodes may end.
LEMMA FewerLiveNodes ==
  ASSUME NEW x, NEW y, LiveNodes(y) \subseteq LiveNodes(x), FewAreLive(x)
  PROVE  FewAreLive(y)
<1>1. /\ IsFiniteSet(LiveNodes(x)) /\ Cardinality(LiveNodes(x)) \in Nat
      /\ Cardinality(LiveNodes(y)) \in Nat
  BY Zenon, LiveNodesAreFinite
<1>2. Cardinality(LiveNodes(y)) <= Cardinality(LiveNodes(x))
  BY ZenonT(30), <1>1, FS_Subset
<1> QED
  BY SMTT(20), <1>1, <1>2, NodeConstantsAreSound DEF FewAreLive

\* accept_node_intent compares max_live_nodes before it adds a live node.
LEMMA OneMoreLiveNode ==
  ASSUME NEW x, NEW y, NEW i, LiveNodes(y) \subseteq LiveNodes(x) \cup {i},
         Cardinality(LiveNodes(x)) < MaxLiveNodes
  PROVE  FewAreLive(y)
<1> DEFINE S == LiveNodes(x)
<1>1. /\ IsFiniteSet(S) /\ Cardinality(S) \in Nat
      /\ Cardinality(LiveNodes(y)) \in Nat
  BY Zenon, LiveNodesAreFinite
<1> HIDE DEF S
<1>2. /\ IsFiniteSet(S \cup {i})
      /\ Cardinality(S \cup {i}) \in {Cardinality(S), Cardinality(S) + 1}
  BY ZenonT(30), <1>1, FS_AddElement
<1>3. Cardinality(LiveNodes(y)) <= Cardinality(S \cup {i})
  BY ZenonT(30), <1>2, FS_Subset DEF S
<1> QED
  BY SMTT(20), <1>1, <1>2, <1>3, NodeConstantsAreSound DEF S, FewAreLive

\* What an edit for node i leaves of the others.
LEMMA OthersStaySane ==
  ASSUME NEW x, Good(x), Sane(x), NEW i, NEW y, Edit(i, x, y),
         NEW j \in Intents, j # i
  PROVE  /\ SaneNode(y, j)
         /\ \A k \in 1 .. Size(y) :
              LiveOf(y, j, k) => k \in 1 .. Size(x) /\ LiveOf(x, j, k)
<1>1. Size(x) \in Nat /\ Size(y) \in Nat
  BY ZenonT(30), GoodParts DEF Edit
<1>2. y.nodes[j] = x.nodes[j]
  BY Zenon DEF Edit
<1>3. \A k \in 1 .. Size(x) : Kept(i, x.run.attempts[k], y.run.attempts[k])
  BY Zenon DEF Edit
<1>4. \A k \in 1 .. Size(y) :
        y.run.attempts[k].node = j =>
          k \in 1 .. Size(x) /\ x.run.attempts[k].node = j
  <2> SUFFICES ASSUME NEW k \in 1 .. Size(y), y.run.attempts[k].node = j
               PROVE  k \in 1 .. Size(x) /\ x.run.attempts[k].node = j
    BY Zenon
  <2>1. k \in 1 .. Size(x)
    BY SMTT(20), <1>1 DEF Edit
  <2> QED
    BY ZenonT(30), <1>3, <2>1 DEF Kept
<1>5. 1 .. Size(x) \subseteq 1 .. Size(y)
  BY SMTT(20), <1>1 DEF Edit
<1>6. \A k \in 1 .. Size(y) :
        LiveOf(y, j, k) => k \in 1 .. Size(x) /\ LiveOf(x, j, k)
  BY ZenonT(30), <1>3, <1>4 DEF LiveOf, Kept
<1>7. \A k \in 1 .. Size(x) : ResultOf(x, j, k) => ResultOf(y, j, k)
  BY ZenonT(30), <1>3 DEF ResultOf, Kept
<1>0. SaneNode(x, j)
  BY Zenon DEF Sane
<1>8. y.nodes[j] \in {"none", "accepted"} => Fresh(y, j)
  BY ZenonT(30), <1>0, <1>2, <1>4 DEF SaneNode, Fresh
<1>9. y.nodes[j] = "completed" => \E k \in 1 .. Size(y) : ResultOf(y, j, k)
  BY ZenonT(30), <1>0, <1>2, <1>5, <1>7 DEF SaneNode
<1>10. \A l, k \in 1 .. Size(y) : LiveOf(y, j, l) /\ LiveOf(y, j, k) => l = k
  BY ZenonT(30), <1>0, <1>6 DEF SaneNode
<1> QED
  BY ZenonT(30), <1>6, <1>8, <1>9, <1>10 DEF SaneNode

\* An accepted node has no attempts yet.
LEMMA AcceptIsSane ==
  ASSUME NEW x, Good(x), Sane(x), NEW i \in Intents, NEW y, Edit(i, x, y),
         x.nodes[i] = "none", WithinLimits(x), y.run = x.run,
         y.nodes = [x.nodes EXCEPT ![i] = "accepted"]
  PROVE  Sane(y)
<1>1. x.nodes \in [Intents -> NodeStates]
  BY ZenonT(30), GoodParts
<1>2. y.nodes[i] = "accepted" /\ \A j \in Intents \ {i} : y.nodes[j] = x.nodes[j]
  BY ZenonT(30), <1>1
<1>3. Fresh(y, i)
  BY Zenon DEF Sane, SaneNode, Fresh, Size
<1>4. LiveNodes(y) \subseteq LiveNodes(x) \cup {i}
  BY ZenonT(30), <1>2 DEF LiveNodes
<1>5. FewAreLive(y)
  BY ZenonT(30), <1>4, OneMoreLiveNode DEF WithinLimits, LiveNodes
<1>6. SaneNode(y, i)
  BY Zenon, <1>2, <1>3 DEF SaneNode, Fresh, LiveOf
<1>7. \A j \in Intents : SaneNode(y, j)
  BY ZenonT(30), <1>6, OthersStaySane
<1> QED
  BY ZenonT(30), <1>5, <1>7 DEF Sane

\* The first attempt of a node is its only one.
LEMMA DispatchIsSane ==
  ASSUME NEW x, Good(x), Sane(x), NEW i \in Intents, NEW y, Edit(i, x, y),
         x.nodes[i] = "accepted", Size(y) = Size(x) + 1,
         y.nodes = [x.nodes EXCEPT ![i] = "dispatched"]
  PROVE  Sane(y)
<1>1. x.nodes \in [Intents -> NodeStates] /\ Size(x) \in Nat
  BY ZenonT(30), GoodParts
<1>2. y.nodes[i] = "dispatched" /\ \A j \in Intents \ {i} : y.nodes[j] = x.nodes[j]
  BY ZenonT(30), <1>1
<1>3. Fresh(x, i)
  BY Zenon DEF Sane, SaneNode
<1>4. \A k \in 1 .. Size(y) : LiveOf(y, i, k) => k = Size(y)
  <2> SUFFICES ASSUME NEW k \in 1 .. Size(y), LiveOf(y, i, k), k # Size(y)
               PROVE  FALSE
    BY Zenon
  <2>1. k \in 1 .. Size(x)
    BY SMTT(20), <1>1
  <2>2. Kept(i, x.run.attempts[k], y.run.attempts[k])
    BY Zenon, <2>1 DEF Edit
  <2> QED
    BY ZenonT(30), <1>3, <2>1, <2>2 DEF Kept, Fresh, LiveOf
<1>5. SaneNode(y, i)
  BY Zenon, <1>2, <1>4 DEF SaneNode
<1>6. LiveNodes(y) \subseteq LiveNodes(x)
  BY Zenon, <1>2 DEF LiveNodes, LiveNode
<1>7. FewAreLive(y)
  BY Zenon, <1>6, FewerLiveNodes DEF Sane
<1>8. \A j \in Intents : SaneNode(y, j)
  BY Zenon, <1>5, OthersStaySane
<1> QED
  BY ZenonT(30), <1>7, <1>8 DEF Sane

\* A node that ends has no more live attempts than before.
LEMMA EndIsSane ==
  ASSUME NEW x, Good(x), Sane(x), NEW i \in Intents, NEW y, Edit(i, x, y),
         NEW state \in ResultStates, Size(y) = Size(x),
         state = "completed" => \E k \in 1 .. Size(y) : ResultOf(y, i, k),
         y.nodes = [x.nodes EXCEPT ![i] = state]
  PROVE  Sane(y)
<1>1. x.nodes \in [Intents -> NodeStates] /\ Size(x) \in Nat
  BY Zenon, GoodParts
<1>2. y.nodes[i] = state /\ \A j \in Intents \ {i} : y.nodes[j] = x.nodes[j]
  BY Zenon, <1>1
<1>3. \A k \in 1 .. Size(y) : LiveOf(y, i, k) => LiveOf(x, i, k)
  BY ZenonT(30) DEF Edit, Kept, LiveOf
<1>4. SaneNode(x, i)
  BY ZenonT(30) DEF Sane
<1>5. SaneNode(y, i)
  BY ZenonT(30), <1>2, <1>3, <1>4 DEF SaneNode, ResultStates
<1>6. LiveNodes(y) \subseteq LiveNodes(x)
  BY ZenonT(30), <1>2 DEF LiveNodes, LiveNode, ResultStates
<1>7. FewAreLive(y)
  BY ZenonT(30), <1>6, FewerLiveNodes DEF Sane
<1>8. \A j \in Intents : SaneNode(y, j)
  BY ZenonT(30), <1>5, OthersStaySane
<1> QED
  BY Zenon, <1>7, <1>8 DEF Sane

\* The replacement is the only live attempt of the node in the copy.
LEMMA CopyIsSane ==
  ASSUME NEW x, Good(x), Sane(x), NEW i \in Intents, NEW k \in 1 .. Size(x),
         NEW s, NEW y, Replaced(x, i, k, s, y),
         x.run.attempts[k].node = i, x.nodes[i] = "dispatched",
         \A j \in 1 .. Size(x) : LiveOf(x, i, j) => j = k
  PROVE  Sane(y)
<1> DEFINE n == Size(x) + 1
<1>1. /\ y.nodes = [x.nodes EXCEPT ![i] = "dispatched"]
      /\ Size(y) = n
      /\ \A j \in 1 .. Size(x) : j # k => y.run.attempts[j] = x.run.attempts[j]
      /\ y.run.attempts[k].state = "lost" /\ y.run.attempts[k].node = i
      /\ y.run.attempts[n].node = i
  BY ZenonT(30) DEF Replaced
<1>2. x.nodes \in [Intents -> NodeStates] /\ Size(x) \in Nat
  BY ZenonT(30), GoodParts
<1>3. y.nodes = x.nodes
  BY ZenonT(30), <1>1, <1>2
<1>4. \A j \in 1 .. Size(y) : j \in 1 .. Size(x) \/ j = n
  BY SMTT(20), <1>1, <1>2
<1>5. 1 .. Size(x) \subseteq 1 .. Size(y)
  BY SMTT(20), <1>1, <1>2
<1>6. FewAreLive(y)
  BY Zenon, <1>3 DEF Sane, FewAreLive, LiveNodes
<1>7. ASSUME NEW h \in Intents, h # i
      PROVE  SaneNode(y, h)
  <2>1. SaneNode(x, h)
    BY Zenon DEF Sane
  <2>2. \A j \in 1 .. Size(y) :
          y.run.attempts[j].node = h =>
            j \in 1 .. Size(x) /\ y.run.attempts[j] = x.run.attempts[j]
    BY ZenonT(30), <1>1, <1>4, <1>7
  <2>3. \A j \in 1 .. Size(x) :
          x.run.attempts[j].node = h => y.run.attempts[j] = x.run.attempts[j]
    BY ZenonT(30), <1>1, <1>7
  <2>4. y.nodes[h] \in {"none", "accepted"} => Fresh(y, h)
    BY ZenonT(30), <1>3, <2>1, <2>2 DEF SaneNode, Fresh
  <2>5. y.nodes[h] = "completed" => \E j \in 1 .. Size(y) : ResultOf(y, h, j)
    BY ZenonT(30), <1>3, <1>5, <2>1, <2>3 DEF SaneNode, ResultOf
  <2>6. \A j, l \in 1 .. Size(y) : LiveOf(y, h, j) /\ LiveOf(y, h, l) => j = l
    BY ZenonT(30), <2>1, <2>2 DEF SaneNode, LiveOf
  <2> QED
    BY ZenonT(30), <2>4, <2>5, <2>6 DEF SaneNode
<1>8. SaneNode(y, i)
  <2>1. \A j \in 1 .. Size(y) : LiveOf(y, i, j) => j = n
    BY ZenonT(30), <1>1, <1>4 DEF LiveOf
  <2> QED
    BY ZenonT(30), <1>3, <2>1 DEF SaneNode
<1> QED
  BY ZenonT(30), <1>6, <1>7, <1>8 DEF Sane

---------------------------------------------------------------------------
\* What a call has checked stays true

\* A step that changes only the record of an object: the nodes and the
\* attempts stay, and no call begins.
LEMMA RunIsSound ==
  ASSUME NEW s, NEW cs, SoundData(s, cs), Len(s) \in Nat \ {0},
         NEW t, Len(t) = Len(s),
         \A o \in 1 .. Len(s) : t[o].nodes = s[o].nodes
                                  /\ t[o].run.attempts = s[o].run.attempts,
         \A c \in cs : c.op = "dispatch" => c.object \in 1 .. Len(s),
         NEW ds, ds \subseteq cs
  PROVE  SoundData(t, ds)
<1>1. \A o \in 1 .. Len(s) : Sane(s[o])
  BY Zenon DEF SoundData
<1>2. \A o \in 1 .. Len(t) : Sane(t[o])
  BY ZenonT(30), <1>1, SameIsSane
<1>3. /\ Run(t).nodes = Run(s).nodes
      /\ Run(t).run.attempts = Run(s).run.attempts
  BY SMTT(20) DEF Run
<1>4. ASSUME NEW c \in ds
      PROVE  Holds(c, t, ds)
  <2>1. Holds(c, s, cs)
    BY Zenon, <1>4 DEF SoundData
  <2>2. c.op = "dispatch" => t[c.object].nodes = s[c.object].nodes
    BY Zenon, <1>4
  <2>3. c.op = "complete" => ds = {c}
    BY Zenon, <2>1, <1>4 DEF Holds
  <2> QED
    BY ZenonT(30), <1>3, <2>1, <2>2, <2>3 DEF Holds, Size, LiveOf, Settled
<1> QED
  BY ZenonT(30), <1>2, <1>4 DEF SoundData

\* The objects t are s with another one at o.
Differs(s, o, y, t) ==
  Len(t) = Len(s) /\ t[o] = y /\ \A p \in 1 .. Len(s) : p # o => t[p] = s[p]

\* The calls are for other nodes than i.
FreeOf(cs, i, s) ==
  \A c \in cs : /\ c.op # "complete" /\ c.intent # i /\ c.intent \in Intents
                /\ c.op = "dispatch" => c.object \in 1 .. Len(s)

AllGood(s) == Len(s) \in Nat \ {0} /\ \A o \in 1 .. Len(s) : Good(s[o])

\* An edit for one node leaves alone what the calls for the others have
\* checked.
LEMMA EditIsSound ==
  ASSUME NEW s, NEW cs, SoundData(s, cs), AllGood(s),
         NEW o \in 1 .. Len(s), NEW i, NEW y, Edit(i, s[o], y), Sane(y),
         NEW t, Differs(s, o, y, t),
         NEW ds, ds \subseteq cs, FreeOf(ds, i, s)
  PROVE  SoundData(t, ds)
<1>0. /\ Len(s) \in Nat \ {0} /\ \A p \in 1 .. Len(s) : Good(s[p])
      /\ Len(t) = Len(s) /\ t[o] = y
      /\ \A p \in 1 .. Len(s) : p # o => t[p] = s[p]
      /\ \A c \in ds : /\ c.op # "complete" /\ c.intent # i /\ c.intent \in Intents
                       /\ c.op = "dispatch" => c.object \in 1 .. Len(s)
  BY Zenon DEF AllGood, Differs, FreeOf
<1>1. \A p \in 1 .. Len(t) : Sane(t[p])
  BY ZenonT(30), <1>0 DEF SoundData
<1>2. \A p \in 1 .. Len(s), j \in Intents : j # i => t[p].nodes[j] = s[p].nodes[j]
  BY ZenonT(30), <1>0 DEF Edit
<1>3. Len(s) \in 1 .. Len(s)
  BY SMTT(20), <1>0
<1>4. ASSUME NEW c \in ds
      PROVE  Holds(c, t, ds)
  <2>1. /\ Holds(c, s, cs) /\ c.op # "complete" /\ c.intent # i
        /\ c.intent \in Intents
        /\ c.op = "dispatch" => c.object \in 1 .. Len(s)
    BY ZenonT(30), <1>0, <1>4 DEF SoundData
  <2>2. Run(t).nodes[c.intent] = Run(s).nodes[c.intent]
    BY SMTT(30), <1>0, <1>2, <1>3, <2>1 DEF Run
  <2>3. c.op = "dispatch" => t[c.object].nodes[c.intent] = s[c.object].nodes[c.intent]
    BY Zenon, <1>2, <2>1
  <2>4. \A k \in 1 .. Size(Run(t)) :
          LiveOf(Run(t), c.intent, k) =>
            k \in 1 .. Size(Run(s)) /\ LiveOf(Run(s), c.intent, k)
    <3>1. CASE o = Len(s)
      <4>1. Run(t) = y /\ Run(s) = s[o] /\ Good(s[o]) /\ Sane(s[o])
        BY ZenonT(30), <1>0, <3>1 DEF Run, SoundData
      <4> QED
        BY ZenonT(30), <2>1, <4>1, OthersStaySane
    <3>2. CASE o # Len(s)
      BY ZenonT(30), <1>0, <3>2, <1>3 DEF Run
    <3> QED
      BY ZenonT(30), <3>1, <3>2
  <2> QED
    BY ZenonT(30), <1>0, <2>1, <2>2, <2>3, <2>4 DEF Holds
<1> QED
  BY Zenon, <1>1, <1>4 DEF SoundData

\* A call begins for a node that no other call is for.
LEMMA AskIsSound ==
  ASSUME NEW s, NEW cs, SoundData(s, cs), NEW c, Holds(c, s, cs \cup {c}),
         \A b \in cs : b.op # "complete" /\ b.intent # c.intent
  PROVE  SoundData(s, cs \cup {c})
<1>1. \A b \in cs : Holds(b, s, cs \cup {c})
  BY ZenonT(30) DEF SoundData, Holds
<1> QED
  BY ZenonT(30), <1>1 DEF SoundData

\* complete_orchestration begins when there is nothing else in progress.
LEMMA LastAskIsSound ==
  ASSUME NEW s, SoundData(s, {}), NEW c, Holds(c, s, {c})
  PROVE  SoundData(s, {c})
BY ZenonT(30) DEF SoundData

\* The copy takes the place of the request.
LEMMA CopyIsSound ==
  ASSUME NEW s, NEW cs, SoundData(s, cs), NEW b \in cs, b.op = "reassign",
         NEW c, c.op = "swap", c.intent = b.intent, c.runtime = b.runtime,
         Sane(c.copy), c.copy.run.state # "completed",
         \A d \in cs : d.op # "complete"
  PROVE  SoundData(s, (cs \ {b}) \cup {c})
<1> DEFINE ds == (cs \ {b}) \cup {c}
<1>1. Holds(b, s, cs)
  BY Zenon DEF SoundData
<1>2. Holds(c, s, ds)
  BY ZenonT(30), <1>1 DEF Holds
<1>3. \A d \in cs \ {b} : Holds(d, s, ds)
  BY ZenonT(30) DEF SoundData, Holds
<1>4. \A d \in cs \ {b} : d.intent # c.intent
  BY ZenonT(30) DEF SoundData
<1>5. \A o \in 1 .. Len(s) : Sane(s[o])
  BY Zenon DEF SoundData
<1>6. \A d, e \in cs : d.intent = e.intent => d = e
  BY ZenonT(30) DEF SoundData
<1>7. \A d, e \in ds : d.intent = e.intent => d = e
  BY ZenonT(30), <1>4, <1>6
<1> QED
  BY ZenonT(30), <1>2, <1>3, <1>5, <1>7 DEF SoundData

\* The copy becomes the Run.  What is still in progress has no lock, and is no
\* completion: it has loaded its object before.
LEMMA SwapIsSound ==
  ASSUME NEW s \in Seq(Object), NEW cs, SoundData(s, cs), NEW b \in cs, b.op = "swap",
         \A d \in cs \ {b} :
           /\ d.op # "accept" /\ d.op # "reassign" /\ d.op # "swap"
           /\ d.op = "dispatch" => d.object \in 1 .. Len(s)
  PROVE  SoundData(Append(s, b.copy), cs \ {b})
<1> DEFINE t == Append(s, b.copy)
<1>1. /\ Len(s) \in Nat /\ Len(t) = Len(s) + 1 /\ t[Len(s) + 1] = b.copy
      /\ \A o \in 1 .. Len(s) : t[o] = s[o]
  BY SMTT(20)
<1> HIDE DEF t
<1>2. Holds(b, s, cs)
  BY Zenon DEF SoundData
<1>3. Sane(b.copy)
  BY ZenonT(30), <1>2 DEF Holds
<1>4. \A o \in 1 .. Len(t) : Sane(t[o])
  BY SMTT(20), <1>1, <1>3 DEF SoundData
<1>5. ASSUME NEW d \in cs \ {b}
      PROVE  Holds(d, t, cs \ {b})
  <2>1. Holds(d, s, cs)
    BY Zenon DEF SoundData
  <2>2. d.op # "complete"
    BY ZenonT(30), <2>1, <1>5 DEF Holds
  <2> QED
    BY ZenonT(30), <1>1, <2>1, <2>2, <1>5 DEF Holds
<1>6. SoundData(t, cs \ {b})
  BY ZenonT(30), <1>4, <1>5 DEF SoundData
<1> QED
  BY ZenonT(30), <1>6 DEF t

---------------------------------------------------------------------------
\* The tasks wait for their calls

\* A task that takes a step waits for no call, and no call is for its node.
LEMMA TaskIsFree ==
  ASSUME Alone, NEW i \in Intents, TaskStep(i)
  PROVE  /\ driver.runtime # 0
         /\ \A c \in calls : c.op # "complete" /\ c.intent # i
<1>1. /\ tasks[i].stage = "none" => driver.runtime # 0
      /\ tasks[i].stage \notin {"accepting", "dispatching", "reporting",
                                "reassigning", "done"}
  BY Zenon DEF TaskStep, EmitNode, BeginAccept, ContinueNode, BeginDispatch, WorkFails,
         BeginReport, ConfirmResult, GiveUp, BeginReassign, FailNode
<1>2. driver.runtime # 0
  BY ZenonT(30), <1>1 DEF Alone, SoundTasks
<1>3. \A c \in calls : Awaits(c, tasks)
  BY ZenonT(30), <1>2 DEF Alone, SoundTasks
<1> QED
  BY Zenon, <1>1, <1>2, <1>3 DEF Awaits

\* What the other tasks wait for they still wait for.
LEMMA OthersWait ==
  ASSUME Alone, driver.runtime # 0, NEW i \in Intents, driver'.runtime = driver.runtime,
         \A j \in Intents \ {i} : tasks'[j] = tasks[j],
         NEW c \in calls, c.op # "complete", c.intent # i, c.intent \in Intents
  PROVE  Awaits(c, tasks')
<1>1. Awaits(c, tasks)
  BY ZenonT(30) DEF Alone, SoundTasks
<1>2. tasks'[c.intent] = tasks[c.intent]
  BY ZenonT(30)
<1> QED
  BY ZenonT(30), <1>1, <1>2 DEF Awaits

\* A step of a task is a step of no other one.
LEMMA TaskStepIsOwn ==
  ASSUME NEW i \in Intents, TaskStep(i), tasks \in [Intents -> Task]
  PROVE  driver' = driver /\ \A j \in Intents \ {i} : tasks'[j] = tasks[j]
<1>1. \A stage : GoTo(i, stage) => \A j \in Intents \ {i} : tasks'[j] = tasks[j]
  BY Zenon DEF GoTo
<1>2. \A op, target, stage :
        Begin(op, i, target, stage) => \A j \in Intents \ {i} : tasks'[j] = tasks[j]
  BY ZenonT(30), <1>1 DEF Begin
<1>3. CASE EmitNode(i)
  BY ZenonT(30), <1>1, <1>3 DEF EmitNode
<1>4. CASE BeginAccept(i)
  BY ZenonT(30), <1>1, <1>2, <1>4 DEF BeginAccept, Refuse
<1>5. CASE ContinueNode(i)
  BY ZenonT(30), <1>1, <1>5 DEF ContinueNode
<1>6. CASE BeginDispatch(i) \/ BeginReport(i)
  BY ZenonT(30), <1>1, <1>2, <1>6 DEF BeginDispatch, BeginReport, Refuse
<1>7. CASE WorkFails(i) \/ ConfirmResult(i) \/ GiveUp(i)
  BY ZenonT(30), <1>1, <1>7 DEF WorkFails, ConfirmResult, GiveUp
<1>8. CASE \E s \in Slaves : BeginReassign(i, s)
  BY ZenonT(30), <1>1, <1>2, <1>8 DEF BeginReassign, Refuse
<1>9. CASE FailNode(i)
  BY ZenonT(30), <1>1, <1>9 DEF FailNode
<1> QED
  BY ZenonT(30), <1>3, <1>4, <1>5, <1>6, <1>7, <1>8, <1>9 DEF TaskStep

\* The two halves of the next state.
LEMMA AloneNext ==
  ASSUME SoundData(objects', calls'),
         SoundTasks(objects', calls', tasks', driver'.runtime)
  PROVE  Alone'
BY ZenonT(30) DEF Alone

\* The calls are for intents, and their objects are there.
LEMMA CallParts ==
  ASSUME RecordsInv, NEW c \in calls
  PROVE  /\ c.op # "complete" => c.intent \in Intents
         /\ c.op # "swap" => c.object \in 1 .. Len(objects)
BY ZenonT(30) DEF RecordsInv, CallOK

\* While a runtime executes its program, the Run has not completed.
LEMMA RunIsOpen ==
  ASSUME Alone, driver.runtime # 0 \/ calls # {}
  PROVE  Run(objects).run.state # "completed"
BY ZenonT(30) DEF Alone, SoundTasks

\* The tasks wait as long as the runtime goes on and the Run is open.
LEMMA TasksAreSound ==
  ASSUME NEW s, NEW cs, NEW t, NEW runtime, runtime # 0,
         \A c \in cs : Awaits(c, t), Run(s).run.state # "completed"
  PROVE  SoundTasks(s, cs, t, runtime)
BY ZenonT(30) DEF SoundTasks

\* A step of a task that asks for nothing.
LEMMA QuietTask ==
  ASSUME NodesInv, Alone, NEW i \in Intents, TaskStep(i),
         objects' = objects, calls' = calls
  PROVE  Alone'
<1>0. RecordsInv /\ tasks \in [Intents -> Task]
  BY Zenon DEF NodesInv, OthersInv
<1>1. /\ driver.runtime # 0
      /\ \A c \in calls : c.op # "complete" /\ c.intent # i
  BY ZenonT(30), TaskIsFree
<1>2. driver' = driver /\ \A j \in Intents \ {i} : tasks'[j] = tasks[j]
  BY ZenonT(30), <1>0, TaskStepIsOwn
<1>3. \A c \in calls : c.intent \in Intents
  BY ZenonT(30), <1>0, <1>1, CallParts
<1>4. driver'.runtime = driver.runtime
  BY ZenonT(30), <1>2
<1>5. \A c \in calls' : Awaits(c, tasks')
  BY ZenonT(30), <1>1, <1>2, <1>3, <1>4, OthersWait
<1>6. Run(objects').run.state # "completed"
  BY ZenonT(30), <1>1, RunIsOpen
<1>7. SoundTasks(objects', calls', tasks', driver'.runtime)
  BY ZenonT(30), <1>1, <1>4, <1>5, <1>6, TasksAreSound
<1>8. SoundData(objects', calls')
  BY Zenon DEF Alone
<1> QED
  BY ZenonT(30), <1>7, <1>8, AloneNext

\* A step of a task that asks for something.
LEMMA AskTask ==
  ASSUME NodesInv, Alone, NEW i \in Intents, TaskStep(i), objects' = objects,
         NEW c, calls' = calls \cup {c}, c.op # "complete", c.intent = i,
         Holds(c, objects, calls'), Awaits(c, tasks')
  PROVE  Alone'
<1>0. RecordsInv /\ tasks \in [Intents -> Task]
  BY Zenon DEF NodesInv, OthersInv
<1>1. /\ driver.runtime # 0
      /\ \A b \in calls : b.op # "complete" /\ b.intent # i
  BY ZenonT(30), TaskIsFree
<1>2. driver' = driver /\ \A j \in Intents \ {i} : tasks'[j] = tasks[j]
  BY ZenonT(30), <1>0, TaskStepIsOwn
<1>3. \A b \in calls : b.intent \in Intents
  BY ZenonT(30), <1>0, <1>1, CallParts
<1>4. driver'.runtime = driver.runtime
  BY ZenonT(30), <1>2
<1>5. \A b \in calls : Awaits(b, tasks')
  BY ZenonT(30), <1>1, <1>2, <1>3, <1>4, OthersWait
<1>6. \A b \in calls' : Awaits(b, tasks')
  BY ZenonT(30), <1>5
<1>7. Run(objects').run.state # "completed"
  BY ZenonT(30), <1>1, RunIsOpen
<1>8. SoundTasks(objects', calls', tasks', driver'.runtime)
  BY ZenonT(30), <1>1, <1>4, <1>6, <1>7, TasksAreSound
<1>9. SoundData(objects, calls)
  BY ZenonT(30) DEF Alone
<1>10. SoundData(objects, calls \cup {c})
  BY ZenonT(30), <1>1, <1>9, AskIsSound
<1> QED
  BY ZenonT(30), <1>8, <1>10, AloneNext

\* An object of the sequence is replaced.
LEMMA OneObjectChanges ==
  ASSUME NEW s \in Seq(Object), NEW o \in 1 .. Len(s), NEW y
  PROVE  Differs(s, o, y, [s EXCEPT ![o] = y])
BY SMTT(20) DEF Differs

\* The Run is the last object.
LEMMA RunChanges ==
  ASSUME NEW s, NEW o, NEW y, NEW t, Differs(s, o, y, t), Len(s) \in Nat \ {0}
  PROVE  /\ o = Len(s) => Run(t) = y
         /\ o # Len(s) => Run(t) = Run(s)
BY SMTT(20) DEF Differs, Run

\* The objects, as an edit finds them.
LEMMA ObjectsAreGood ==
  ASSUME RecordsInv
  PROVE  AllGood(objects) /\ objects \in Seq(Object) /\ Len(objects) \in Nat \ {0}
BY ZenonT(30) DEF RecordsInv, AllGood

\* The calls that are left, as an edit for node i finds them.
LEMMA CallsAreFree ==
  ASSUME RecordsInv, NEW i, NEW cs \in SUBSET calls,
         \A c \in cs : c.op # "complete" /\ c.intent # i
  PROVE  FreeOf(cs, i, objects)
BY ZenonT(30), CallParts DEF FreeOf

\* fail_dynamic_node is for a node that no call is for.
LEMMA FailTask ==
  ASSUME NodesInv, Alone, NEW i \in Intents, FailNode(i)
  PROVE  Alone'
<1>0. RecordsInv /\ tasks \in [Intents -> Task] /\ TaskStep(i) /\ calls' = calls
  BY ZenonT(30) DEF NodesInv, OthersInv, TaskStep, FailNode
<1>1. /\ driver.runtime # 0
      /\ \A c \in calls : c.op # "complete" /\ c.intent # i
  BY ZenonT(30), <1>0, TaskIsFree
<1>2. driver' = driver /\ \A j \in Intents \ {i} : tasks'[j] = tasks[j]
  BY ZenonT(30), <1>0, TaskStepIsOwn
<1>3. \A c \in calls : /\ c.intent \in Intents
                       /\ c.op = "dispatch" => c.object \in 1 .. Len(objects)
  BY ZenonT(30), <1>0, <1>1, CallParts
<1>4. driver'.runtime = driver.runtime
  BY ZenonT(30), <1>2
<1>5. \A c \in calls' : Awaits(c, tasks')
  BY ZenonT(30), <1>0, <1>1, <1>2, <1>3, <1>4, OthersWait
<1>6. Run(objects).run.state # "completed"
  BY ZenonT(30), <1>1, RunIsOpen
<1>7. CASE objects' = objects
  BY ZenonT(30), <1>0, <1>7, QuietTask
<1>8. CASE objects' # objects
  <2>1. PICK y : /\ objects' = [objects EXCEPT ![Len(objects)] = y]
                 /\ Edit(i, Current, y) /\ Size(y) = Size(Current)
                 /\ y.nodes = [Current.nodes EXCEPT ![i] = "failed"]
                 /\ y.run.state = "completed" => Current.run.state = "completed"
    BY ZenonT(30), <1>0, <1>8, FailNodeEdits
  <2>2. /\ Len(objects) \in 1 .. Len(objects) /\ Good(objects[Len(objects)])
        /\ Current = objects[Len(objects)]
    BY ZenonT(30), <1>0, CurrentIsGood DEF Current
  <2>5. SoundData(objects, calls)
    BY ZenonT(30) DEF Alone
  <2>6. Sane(objects[Len(objects)])
    BY ZenonT(30), <2>2, <2>5 DEF SoundData
  <2>7. "failed" \in ResultStates
    BY Zenon DEF ResultStates
  <2>8. "failed" = "completed" => \E k \in 1 .. Size(y) : ResultOf(y, i, k)
    BY ZenonT(30)
  <2>9. Sane(y)
    BY ZenonT(30), <2>1, <2>2, <2>6, <2>7, <2>8, EndIsSane
  <2>10. SoundData(objects', calls') /\ Run(objects') = y
    <3>1. AllGood(objects) /\ objects \in Seq(Object) /\ Len(objects) \in Nat \ {0}
      BY Zenon, <1>0, ObjectsAreGood
    <3>2. Differs(objects, Len(objects), y, objects')
      BY ZenonT(30), <2>1, <2>2, <3>1, OneObjectChanges
    <3>3. FreeOf(calls, i, objects)
      BY Zenon, <1>0, <1>1, CallsAreFree
    <3>4. Edit(i, objects[Len(objects)], y)
      BY ZenonT(30), <2>1, <2>2
    <3>5. SoundData(objects', calls)
      BY ZenonT(30), <2>2, <2>5, <2>9, <3>1, <3>2, <3>3, <3>4, EditIsSound
    <3> QED
      BY SMTT(20), <1>0, <3>1, <3>2, <3>5, RunChanges
  <2>11. Run(objects').run.state # "completed"
    BY ZenonT(30), <1>6, <2>1, <2>2, <2>10 DEF Run
  <2>12. SoundTasks(objects', calls', tasks', driver'.runtime)
    BY ZenonT(30), <1>1, <1>4, <1>5, <2>11, TasksAreSound
  <2> QED
    BY ZenonT(30), <2>10, <2>12, AloneNext
<1> QED
  BY ZenonT(30), <1>7, <1>8

\* The task that asks waits for the answer.
LEMMA BeginWaits ==
  ASSUME NEW op, NEW i \in Intents, NEW target, NEW stage,
         tasks \in [Intents -> Task], Begin(op, i, target, stage)
  PROVE  tasks'[i].stage = stage
BY ZenonT(30) DEF Begin, GoTo, Task

\* The steps of the tasks.
LEMMA AloneTask ==
  ASSUME NodesInv, Alone, driver.started = 1, NEW i \in Intents, TaskStep(i)
  PROVE  Alone'
<1>0. RecordsInv /\ tasks \in [Intents -> Task]
  BY Zenon DEF NodesInv, OthersInv
<1>1. driver.runtime = 1
  <2>1. driver.runtime # 0
    BY ZenonT(30), TaskIsFree
  <2>2. driver.runtime \in Nat /\ driver.runtime <= driver.started
    BY ZenonT(30) DEF NodesInv, OthersInv, Driver
  <2> QED
    BY SMTT(20), <2>1, <2>2
<1>2. Current = Run(objects) /\ Good(Current)
  BY ZenonT(30), <1>0, CurrentIsGood DEF Current, Run
<1>3. ASSUME NEW op, NEW target, NEW stage, Begin(op, i, target, stage),
             objects' = objects,
             \/ op = "accept" /\ stage = "accepting" /\ Current.nodes[i] = "none"
             \/ op = "dispatch" /\ stage = "dispatching" /\ Current.nodes[i] = "accepted"
             \/ op = "report" /\ stage = "reporting"
             \/ /\ op = "reassign" /\ stage = "reassigning"
                /\ Current.nodes[i] = "dispatched"
                /\ LiveAttempts(Current, i) = {tasks[i].attempt}
      PROVE  Alone'
  <2>1. PICK c : /\ calls' = calls \cup {c}
                 /\ c.op = op /\ c.intent = i /\ c.target = target
                 /\ c.object = Len(objects) /\ c.attempt = tasks[i].attempt
                 /\ c.runtime = driver.runtime
    BY SMTT(30), <1>3, BeginAsks
  <2>2. tasks'[i].stage = stage
    BY Zenon, <1>0, <1>3, BeginWaits
  <2>3. Awaits(c, tasks') /\ c.op # "complete"
    BY ZenonT(30), <1>3, <2>1, <2>2 DEF Awaits
  <2>4. op = "reassign" =>
          \A k \in 1 .. Size(Current) : LiveOf(Current, i, k) => k = tasks[i].attempt
    <3>1. DOMAIN Current.run.attempts = 1 .. Size(Current)
      BY ZenonT(30), <1>2, GoodParts
    <3> QED
      BY ZenonT(30), <1>3, <3>1 DEF LiveAttempts, NodeAttempts, Live, LiveOf
  <2>5. Holds(c, objects, calls')
    BY ZenonT(30), <1>1, <1>2, <1>3, <2>1, <2>4 DEF Holds, Run
  <2> QED
    BY ZenonT(30), <1>3, <2>1, <2>3, <2>5, AskTask
<1>4. CASE EmitNode(i) \/ ContinueNode(i) \/ WorkFails(i) \/ ConfirmResult(i) \/ GiveUp(i)
  <2>1. objects' = objects /\ calls' = calls
    BY Zenon, <1>4 DEF EmitNode, ContinueNode, WorkFails, ConfirmResult, GiveUp
  <2> QED
    BY ZenonT(30), <2>1, QuietTask
<1>5. CASE BeginAccept(i)
  <2>1. /\ objects' = objects
        /\ \/ calls' = calls
           \/ /\ Begin("accept", i, tasks[i].target, "accepting")
              /\ Current.nodes[i] = "none"
    BY Zenon, <1>5 DEF BeginAccept, Refuse
  <2> QED
    BY ZenonT(30), <1>3, <2>1, QuietTask
<1>6. CASE BeginDispatch(i)
  <2>1. /\ objects' = objects
        /\ \/ calls' = calls
           \/ /\ Begin("dispatch", i, tasks[i].target, "dispatching")
              /\ Current.nodes[i] = "accepted"
    BY Zenon, <1>6 DEF BeginDispatch, Refuse
  <2> QED
    BY ZenonT(30), <1>3, <2>1, QuietTask
<1>7. CASE BeginReport(i)
  <2>1. /\ objects' = objects
        /\ calls' = calls \/ Begin("report", i, tasks[i].target, "reporting")
    BY Zenon, <1>7 DEF BeginReport, Refuse
  <2> QED
    BY ZenonT(30), <1>3, <2>1, QuietTask
<1>8. ASSUME NEW s \in Slaves, BeginReassign(i, s)
      PROVE  Alone'
  <2>1. /\ objects' = objects
        /\ \/ calls' = calls
           \/ /\ Begin("reassign", i, s, "reassigning")
              /\ Current.nodes[i] = "dispatched"
              /\ LiveAttempts(Current, i) = {tasks[i].attempt}
    BY Zenon, <1>8 DEF BeginReassign, Refuse, MayReassign
  <2> QED
    BY ZenonT(30), <1>3, <2>1, QuietTask
<1>9. CASE FailNode(i)
  BY ZenonT(30), <1>9, FailTask
<1> QED
  BY ZenonT(30), <1>4, <1>5, <1>6, <1>7, <1>8, <1>9 DEF TaskStep

---------------------------------------------------------------------------
\* The answers

\* At most the task that waits for call c goes on.
Answered(c) ==
  \/ tasks' = tasks
  \/ driver.runtime # 0 /\ \A j \in Intents \ {c.intent} : tasks'[j] = tasks[j]

\* An answer reaches the runtime that has asked.
LEMMA AnswersReach ==
  ASSUME NEW c, NEW u, Answer(c, u), c.runtime = 1, tasks \in [Intents -> Task]
  PROVE  calls' = calls \ {c} /\ Answered(c)
BY SMTT(20) DEF Answer, Answered

\* The same for an answer that only gives a stage.
LEMMA AnswerStagesReach ==
  ASSUME NEW c, NEW stage, AnswerStage(c, stage), c.runtime = 1,
         tasks \in [Intents -> Task]
  PROVE  calls' = calls \ {c} /\ Answered(c)
BY ZenonT(30), AnswersReach DEF AnswerStage

\* A call of a task is alone with its node, and there is no completion.
LEMMA CallIsAlone ==
  ASSUME RecordsInv, Alone, NEW c \in calls, c.op # "complete"
  PROVE  /\ SoundData(objects, calls) /\ Holds(c, objects, calls) /\ c.runtime = 1
         /\ \A b \in calls : b.op # "complete"
         /\ \A b \in calls \ {c} : b.intent # c.intent /\ b.intent \in Intents
<1>1. SoundData(objects, calls) /\ Holds(c, objects, calls)
  BY Zenon DEF Alone, SoundData
<1>2. \A b \in calls : b.op # "complete"
  <2> SUFFICES ASSUME NEW b \in calls, b.op = "complete"
               PROVE  FALSE
    BY Zenon
  <2>1. calls = {b}
    BY ZenonT(30), <1>1 DEF SoundData, Holds
  <2> QED
    BY ZenonT(30), <2>1
<1>3. \A b \in calls \ {c} : b.intent # c.intent /\ b.intent \in Intents
  BY ZenonT(30), <1>1, <1>2, CallParts DEF SoundData
<1> QED
  BY ZenonT(30), <1>1, <1>2, <1>3 DEF Holds

\* The other tasks go on waiting.
LEMMA OthersGoOnWaiting ==
  ASSUME RecordsInv, Alone, NEW c \in calls, c.op # "complete", c.intent \in Intents,
         Answered(c), driver' = driver, Run(objects').run.state # "completed",
         NEW ds, \A d \in ds : d \in calls \ {c} \/ (driver.runtime # 0 => Awaits(d, tasks'))
  PROVE  SoundTasks(objects', ds, tasks', driver'.runtime)
<1>1. \A b \in calls \ {c} :
        b.op # "complete" /\ b.intent # c.intent /\ b.intent \in Intents
  BY ZenonT(30), CallIsAlone
<1>2. /\ driver.runtime = 0 => \A i \in Intents : tasks[i].stage = "none"
      /\ driver.runtime # 0 => \A b \in calls : Awaits(b, tasks)
  BY ZenonT(30) DEF Alone, SoundTasks
<1>3. driver.runtime = 0 => \A i \in Intents : tasks'[i].stage = "none"
  BY ZenonT(30), <1>2 DEF Answered
<1>4. driver.runtime # 0 => \A b \in calls \ {c} : Awaits(b, tasks')
  <2>1. ASSUME NEW b \in calls \ {c}, driver.runtime # 0
        PROVE  Awaits(b, tasks')
    <3>1. tasks'[b.intent] = tasks[b.intent] /\ Awaits(b, tasks) /\ b.op # "complete"
      BY ZenonT(30), <1>1, <1>2, <2>1 DEF Answered
    <3> QED
      BY ZenonT(30), <3>1 DEF Awaits
  <2> QED
    BY ZenonT(30), <2>1
<1> QED
  BY ZenonT(30), <1>3, <1>4 DEF SoundTasks

\* A call ends without an effect.
LEMMA LeaveStep ==
  ASSUME RecordsInv, Alone, NEW c \in calls, c.op # "complete", Answered(c),
         driver' = driver, objects' = objects, calls' = calls \ {c}
  PROVE  Alone'
<1>1. c.intent \in Intents
  BY ZenonT(30), CallParts
<1>2. Run(objects').run.state # "completed"
  BY ZenonT(30), RunIsOpen
<1>3. SoundTasks(objects', calls', tasks', driver'.runtime)
  BY ZenonT(30), <1>1, <1>2, OthersGoOnWaiting
<1>4. SoundData(objects, calls) /\ \A b \in calls : b.op # "complete"
  BY ZenonT(30), CallIsAlone
<1>5. SoundData(objects, calls \ {c})
  BY ZenonT(30), <1>4 DEF SoundData, Holds
<1> QED
  BY ZenonT(30), <1>3, <1>5, AloneNext

\* A call ends with an edit for its node.
LEMMA EditStep ==
  ASSUME RecordsInv, Alone, NEW c \in calls, c.op # "complete", c.op # "swap",
         Answered(c), driver' = driver, calls' = calls \ {c},
         NEW y, objects' = [objects EXCEPT ![c.object] = y],
         Edit(c.intent, objects[c.object], y), Sane(y),
         y.run.state = "completed" => objects[c.object].run.state = "completed"
  PROVE  Alone'
<1>1. c.intent \in Intents /\ c.object \in 1 .. Len(objects)
  BY ZenonT(30), CallParts
<1>2. AllGood(objects) /\ objects \in Seq(Object) /\ Len(objects) \in Nat \ {0}
  BY ZenonT(30), ObjectsAreGood
<1>3. Differs(objects, c.object, y, objects')
  BY ZenonT(30), <1>1, <1>2, OneObjectChanges
<1>4. Run(objects).run.state # "completed"
  BY Zenon, RunIsOpen
<1>5. Run(objects').run.state # "completed"
  <2>1. CASE c.object = Len(objects)
    BY SMTT(20), <1>2, <1>3, <1>4, <2>1, RunChanges DEF Run
  <2>2. CASE c.object # Len(objects)
    BY SMTT(20), <1>2, <1>3, <1>4, <2>2, RunChanges
  <2> QED
    BY ZenonT(30), <2>1, <2>2
<1>6. SoundTasks(objects', calls', tasks', driver'.runtime)
  BY ZenonT(30), <1>1, <1>5, OthersGoOnWaiting
<1>7. /\ SoundData(objects, calls) /\ \A b \in calls : b.op # "complete"
      /\ \A b \in calls \ {c} : b.intent # c.intent
  BY ZenonT(30), CallIsAlone
<1>8. FreeOf(calls \ {c}, c.intent, objects)
  BY ZenonT(30), <1>7, CallsAreFree
<1>9. SoundData(objects', calls \ {c})
  BY ZenonT(30), <1>1, <1>2, <1>3, <1>7, <1>8, EditIsSound
<1> QED
  BY ZenonT(30), <1>6, <1>9, AloneNext

\* The object a call has loaded is good and sane.
LEMMA LoadedObject ==
  ASSUME RecordsInv, Alone, NEW o \in 1 .. Len(objects)
  PROVE  Good(objects[o]) /\ Sane(objects[o])
BY ZenonT(30) DEF RecordsInv, Alone, SoundData

\* accept_node_intent ends: the node still has no state.
LEMMA AloneAccept ==
  ASSUME NodesInv, Alone, NEW c \in calls, EndAccept(c)
  PROVE  Alone'
<1> DEFINE x == objects[c.object]
<1>0. /\ RecordsInv /\ tasks \in [Intents -> Task] /\ c.op = "accept"
      /\ driver' = driver
  BY ZenonT(30) DEF NodesInv, OthersInv, EndAccept
<1>1. /\ Holds(c, objects, calls) /\ c.runtime = 1
  BY ZenonT(30), <1>0, CallIsAlone
<1>2. c.intent \in Intents /\ c.object \in 1 .. Len(objects)
  BY ZenonT(30), <1>0, CallParts
<1>3. Good(x) /\ Sane(x)
  BY ZenonT(30), <1>0, <1>2, LoadedObject
<1>4. x.nodes[c.intent] = "none"
  BY ZenonT(30), <1>0, <1>1 DEF Holds, Run
<1>5. calls' = calls \ {c} /\ Answered(c)
  <2>1. PICK stage : AnswerStage(c, stage)
    BY ZenonT(30) DEF EndAccept
  <2> QED
    BY ZenonT(30), <1>0, <1>1, <2>1, AnswerStagesReach
<1>6. CASE objects' = objects
  BY ZenonT(30), <1>0, <1>5, <1>6, LeaveStep
<1>7. CASE objects' # objects
  <2>1. PICK y : /\ objects' = [objects EXCEPT ![c.object] = y]
                 /\ WithinLimits(x)
                 /\ Edit(c.intent, x, y)
                 /\ Size(y) = Size(x)
                 /\ y.run = x.run
                 /\ y.nodes = [x.nodes EXCEPT ![c.intent] = "accepted"]
    BY ZenonT(30), <1>0, <1>7, EndAcceptEdits
  <2> HIDE DEF x
  <2>2. Sane(y)
    BY ZenonT(30), <1>2, <1>3, <1>4, <2>1, AcceptIsSane
  <2>3. y.run.state = "completed" => x.run.state = "completed"
    BY ZenonT(30), <2>1
  <2> QED
    BY ZenonT(30), <1>0, <1>5, <2>1, <2>2, <2>3, EditStep DEF x
<1> QED
  BY ZenonT(30), <1>6, <1>7

\* dispatch_dynamic_node ends: the node still has no attempt.
LEMMA AloneDispatch ==
  ASSUME NodesInv, Alone, NEW c \in calls, EndDispatch(c)
  PROVE  Alone'
<1> DEFINE x == objects[c.object]
<1>0. /\ RecordsInv /\ tasks \in [Intents -> Task] /\ c.op = "dispatch"
      /\ driver' = driver
  BY ZenonT(30) DEF NodesInv, OthersInv, EndDispatch
<1>1. /\ Holds(c, objects, calls) /\ c.runtime = 1
  BY ZenonT(30), <1>0, CallIsAlone
<1>2. c.intent \in Intents /\ c.object \in 1 .. Len(objects)
  BY ZenonT(30), <1>0, CallParts
<1>3. Good(x) /\ Sane(x)
  BY ZenonT(30), <1>0, <1>2, LoadedObject
<1>4. x.nodes[c.intent] = "accepted"
  BY ZenonT(30), <1>0, <1>1 DEF Holds
<1>5. calls' = calls \ {c} /\ Answered(c)
  <2>1. PICK u : Answer(c, u)
    BY ZenonT(30) DEF EndDispatch, AnswerStage
  <2> QED
    BY ZenonT(30), <1>0, <1>1, <2>1, AnswersReach
<1>6. CASE objects' = objects
  BY ZenonT(30), <1>0, <1>5, <1>6, LeaveStep
<1>7. CASE objects' # objects
  <2>1. PICK y : /\ objects' = [objects EXCEPT ![c.object] = y]
                 /\ Edit(c.intent, x, y)
                 /\ Size(y) = Size(x) + 1
                 /\ y.run.state = x.run.state
                 /\ y.nodes = [x.nodes EXCEPT ![c.intent] = "dispatched"]
    BY ZenonT(30), <1>7, EndDispatchEdits
  <2> HIDE DEF x
  <2>2. Sane(y)
    BY ZenonT(30), <1>2, <1>3, <1>4, <2>1, DispatchIsSane
  <2>3. y.run.state = "completed" => x.run.state = "completed"
    BY Zenon, <2>1
  <2> QED
    BY ZenonT(30), <1>0, <1>5, <2>1, <2>2, <2>3, EditStep DEF x
<1> QED
  BY Zenon, <1>6, <1>7

\* record_dynamic_node_result ends.
LEMMA AloneReport ==
  ASSUME NodesInv, Alone, NEW c \in calls, EndReport(c)
  PROVE  Alone'
<1> DEFINE x == objects[c.object]
<1>0. /\ RecordsInv /\ tasks \in [Intents -> Task] /\ c.op = "report"
      /\ driver' = driver
  BY ZenonT(30) DEF NodesInv, OthersInv, EndReport
<1>1. c.runtime = 1
  BY ZenonT(30), <1>0, CallIsAlone
<1>2. /\ c.intent \in Intents /\ c.object \in 1 .. Len(objects)
      /\ c.attempt \in 1 .. Size(x) /\ x.run.attempts[c.attempt].node = c.intent
  BY ZenonT(30), <1>0 DEF RecordsInv, CallOK
<1>3. Good(x) /\ Sane(x)
  BY ZenonT(30), <1>0, <1>2, LoadedObject
<1>5. calls' = calls \ {c} /\ Answered(c)
  <2>1. PICK stage : AnswerStage(c, stage)
    BY ZenonT(30) DEF EndReport
  <2> QED
    BY ZenonT(30), <1>0, <1>1, <2>1, AnswerStagesReach
<1>6. CASE objects' = objects
  BY ZenonT(30), <1>0, <1>5, <1>6, LeaveStep
<1>7. CASE objects' # objects
  <2>1. PICK y, state : /\ objects' = [objects EXCEPT ![c.object] = y]
                        /\ ReportOf(x, c.intent, c.attempt, state, y)
    BY ZenonT(30), <1>0, <1>7, EndReportEdits
  <2> HIDE DEF x
  <2>2. /\ Edit(c.intent, x, y) /\ Size(y) = Size(x) /\ state \in ResultStates
        /\ y.nodes = [x.nodes EXCEPT ![c.intent] = state]
        /\ y.run.attempts[c.attempt].state = state
        /\ y.run.state = "completed" => x.run.state = "completed"
    BY ZenonT(30), <2>1 DEF ReportOf
  <2>3. y.run.attempts[c.attempt].node = c.intent
    BY ZenonT(30), <1>2, <2>2 DEF Edit, Kept
  <2>4. state = "completed" => \E k \in 1 .. Size(y) : ResultOf(y, c.intent, k)
    BY ZenonT(30), <1>2, <2>2, <2>3 DEF ResultOf
  <2>5. Sane(y)
    BY SMTT(30), <1>2, <1>3, <2>2, <2>4, EndIsSane
  <2> QED
    BY ZenonT(30), <1>0, <1>5, <2>1, <2>2, <2>5, EditStep DEF x
<1> QED
  BY Zenon, <1>6, <1>7

\* reassign_dynamic_node makes its copy.
LEMMA AloneCopy ==
  ASSUME NodesInv, Alone, NEW b \in calls, CopyRecord(b)
  PROVE  Alone'
<1> DEFINE x == Current
<1>0. /\ RecordsInv /\ tasks \in [Intents -> Task] /\ b.op = "reassign"
      /\ driver' = driver /\ objects' = objects /\ CallOK(b)
  BY ZenonT(30) DEF NodesInv, OthersInv, CopyRecord, RecordsInv
<1>1. /\ Holds(b, objects, calls) /\ b.runtime = 1 /\ SoundData(objects, calls)
      /\ \A d \in calls : d.op # "complete"
  BY ZenonT(30), <1>0, CallIsAlone
<1>2. /\ b.intent \in Intents /\ b.target \in Slaves
      /\ b.attempt \in 1 .. Size(x) /\ x.run.attempts[b.attempt].node = b.intent
      /\ x = Run(objects) /\ Len(objects) \in 1 .. Len(objects)
  BY ZenonT(30), <1>0, CurrentIsGood DEF CallOK, HoldsLock, Current, Run
<1>3. Good(x) /\ Sane(x)
  BY ZenonT(30), <1>0, <1>2, LoadedObject DEF Run
<1>4. leases[b.target].instance \in Nat
  BY ZenonT(30), <1>2 DEF NodesInv, OthersInv
<1>5. /\ x.nodes[b.intent] = "dispatched"
      /\ \A k \in 1 .. Size(x) : LiveOf(x, b.intent, k) => k = b.attempt
  BY ZenonT(30), <1>0, <1>1, <1>2 DEF Holds
<1>6. x.run.state # "completed"
  BY ZenonT(30), <1>2, RunIsOpen
<1> HIDE DEF x
<1>7. CASE calls' = calls \ {b}
  <2>1. tasks' = tasks \/ \E stage : AnswerStage(b, stage)
    BY ZenonT(30) DEF CopyRecord
  <2>2. Answered(b)
    BY ZenonT(30), <1>0, <1>1, <2>1, AnswerStagesReach DEF Answered
  <2> QED
    BY ZenonT(30), <1>0, <1>7, <2>2, LeaveStep
<1>8. ASSUME NEW c, Copies(b, c), c.intent = b.intent, c.runtime = b.runtime,
             c.copy = Reassigned(x, b.intent, b.attempt, b.target), tasks' = tasks
      PROVE  Alone'
  <2>1. Replaced(x, b.intent, b.attempt, b.target, c.copy)
    BY ZenonT(30), <1>2, <1>3, <1>4, <1>8, ReassignedParts
  <2>2. Sane(c.copy)
    BY ZenonT(30), <1>2, <1>3, <1>5, <2>1, CopyIsSane
  <2>3. c.copy.run.state # "completed"
    BY ZenonT(30), <1>6, <2>1 DEF Replaced
  <2>4. c.op = "swap" /\ calls' = (calls \ {b}) \cup {c}
    BY ZenonT(30), <1>8 DEF Copies
  <2>5. SoundData(objects, (calls \ {b}) \cup {c})
    BY ZenonT(30), <1>0, <1>1, <1>8, <2>2, <2>3, <2>4, CopyIsSound
  <2>6. driver.runtime # 0 => Awaits(c, tasks')
    <3>1. driver.runtime # 0 => Awaits(b, tasks)
      BY ZenonT(30) DEF Alone, SoundTasks
    <3> QED
      BY ZenonT(30), <1>0, <1>8, <2>4, <3>1 DEF Awaits
  <2>7. Answered(b)
    BY ZenonT(30), <1>8 DEF Answered
  <2>8. Run(objects').run.state # "completed"
    BY ZenonT(30), <1>0, <1>2, <1>6
  <2>9. SoundTasks(objects', calls', tasks', driver'.runtime)
    BY ZenonT(30), <1>0, <1>2, <2>4, <2>6, <2>7, <2>8, OthersGoOnWaiting
  <2> QED
    BY ZenonT(30), <1>0, <2>4, <2>5, <2>9, AloneNext
<1> QED
  BY Zenon, <1>7, <1>8, CopyKinds DEF Quiet, x

\* The copy becomes the Run.
LEMMA AloneSwap ==
  ASSUME NodesInv, Alone, NEW b \in calls, SwapRecord(b)
  PROVE  Alone'
<1>0. /\ RecordsInv /\ tasks \in [Intents -> Task] /\ b.op = "swap"
      /\ driver' = driver /\ objects' = Append(objects, b.copy)
      /\ objects \in Seq(Object)
  BY ZenonT(30) DEF NodesInv, OthersInv, SwapRecord, RecordsInv
<1>1. /\ Holds(b, objects, calls) /\ b.runtime = 1 /\ SoundData(objects, calls)
  BY ZenonT(30), <1>0, CallIsAlone
<1>2. calls' = calls \ {b} /\ Answered(b)
  <2>1. PICK u : Answer(b, u)
    BY ZenonT(30) DEF SwapRecord
  <2> QED
    BY ZenonT(30), <1>0, <1>1, <2>1, AnswersReach
<1>3. \A d \in calls \ {b} :
        /\ d.op # "accept" /\ d.op # "reassign" /\ d.op # "swap"
        /\ d.op = "dispatch" => d.object \in 1 .. Len(objects)
  <2>1. HoldsLock(b) /\ \A d \in calls : HoldsLock(d) => d = b
    BY ZenonT(30), <1>0 DEF RecordsInv, HoldsLock
  <2>2. \A d \in calls \ {b} : d.op # "accept" /\ d.op # "reassign" /\ d.op # "swap"
    BY ZenonT(30), <2>1 DEF HoldsLock
  <2> QED
    BY ZenonT(30), <1>0, <2>2, CallParts
<1>4. SoundData(Append(objects, b.copy), calls \ {b})
  BY ZenonT(30), <1>0, <1>1, <1>3, SwapIsSound
<1>5. b.copy.run.state # "completed"
  BY Zenon, <1>0, <1>1 DEF Holds
<1>6. Run(objects') = b.copy
  BY SMTT(20), <1>0 DEF Run
<1>7. b.intent \in Intents
  BY ZenonT(30), <1>0, CallParts
<1>8. SoundTasks(objects', calls', tasks', driver'.runtime)
  BY ZenonT(30), <1>0, <1>2, <1>5, <1>6, <1>7, OthersGoOnWaiting
<1> QED
  BY ZenonT(30), <1>0, <1>2, <1>4, <1>8, AloneNext

\* What a Run that takes another state leaves of the objects.
LEMMA RunStep ==
  ASSUME RecordsInv, SoundData(objects, calls), NEW o \in 1 .. Len(objects),
         NEW r, Keeps(objects[o].run, r),
         objects' = [objects EXCEPT ![o] = [objects[o] EXCEPT !.run = r]],
         NEW ds \in SUBSET calls
  PROVE  /\ SoundData(objects', ds)
         /\ Run(objects').nodes = Run(objects).nodes
         /\ o = Len(objects) => Run(objects').run = r
         /\ o # Len(objects) => Run(objects') = Run(objects)
<1> DEFINE y == [objects[o] EXCEPT !.run = r]
<1>1. AllGood(objects) /\ objects \in Seq(Object) /\ Len(objects) \in Nat \ {0}
  BY Zenon, ObjectsAreGood
<1>2. Differs(objects, o, y, objects')
  BY ZenonT(30), <1>1, OneObjectChanges
<1>3. y.nodes = objects[o].nodes /\ y.run = r
  <2>1. Good(objects[o])
    BY Zenon, <1>1 DEF AllGood
  <2> QED
    BY Zenon, <2>1, RunEdit
<1>4. y.run.attempts = objects[o].run.attempts
  BY Zenon, <1>3 DEF Keeps
<1> HIDE DEF y
<1>5. /\ Len(objects') = Len(objects)
      /\ \A p \in 1 .. Len(objects) :
           /\ objects'[p].nodes = objects[p].nodes
           /\ objects'[p].run.attempts = objects[p].run.attempts
  BY ZenonT(30), <1>2, <1>3, <1>4 DEF Differs
<1>6. \A c \in calls : c.op = "dispatch" => c.object \in 1 .. Len(objects)
  BY ZenonT(30), CallParts
<1>7. SoundData(objects', ds)
  BY ZenonT(30), <1>1, <1>5, <1>6, RunIsSound
<1>8. Run(objects').nodes = Run(objects).nodes
  BY SMTT(20), <1>1, <1>5 DEF Run
<1> QED
  BY SMTT(20), <1>1, <1>2, <1>3, <1>7, <1>8, RunChanges

\* complete_orchestration ends: its runtime is over, and nothing is in
\* progress.
LEMMA AloneComplete ==
  ASSUME NodesInv, Alone, NEW c \in calls, EndComplete(c), driver.started = 1
  PROVE  Alone'
<1>0. /\ RecordsInv /\ c.op = "complete" /\ SoundData(objects, calls)
      /\ driver \in Driver /\ driver.runtime <= 1
      /\ calls' = calls \ {c}
  BY ZenonT(30) DEF NodesInv, OthersInv, EndComplete, Alone
<1>1. /\ Holds(c, objects, calls) /\ c.object \in 1 .. Len(objects)
  BY ZenonT(30), <1>0, CallParts DEF SoundData
<1>2. calls' = {} /\ Settled(Run(objects)) /\ c.runtime = 1 /\ c.object = Len(objects)
  BY ZenonT(30), <1>0, <1>1 DEF Holds
<1>3. PICK r : /\ Keeps(objects[c.object].run, r)
               /\ objects' = [objects EXCEPT ![c.object] =
                                [objects[c.object] EXCEPT !.run = r]]
  BY ZenonT(30), <1>0, EndCompleteEdits
<1>4. SoundData(objects', {}) /\ Run(objects').nodes = Run(objects).nodes
  <2>1. {} \in SUBSET calls
    BY Zenon
  <2> QED
    BY ZenonT(30), <1>0, <1>1, <1>3, <2>1, RunStep
<1>5. driver'.runtime = 0 /\ \A i \in Intents : tasks'[i].stage = "none"
  <2>1. CASE driver.runtime = 1
    BY SMTT(20), <1>0, <1>2, <2>1 DEF EndComplete, DriverOff, NoTask, Driver
  <2>2. CASE driver.runtime # 1
    <3>1. driver.runtime = 0
      BY SMTT(20), <1>0, <2>2 DEF Driver
    <3>2. driver' = driver /\ tasks' = tasks
      BY Zenon, <1>2, <2>2 DEF EndComplete
    <3> QED
      BY Zenon, <3>1, <3>2 DEF Alone, SoundTasks
  <2> QED
    BY Zenon, <2>1, <2>2
<1>6. Settled(Run(objects'))
  BY Zenon, <1>2, <1>4 DEF Settled
<1>7. SoundTasks(objects', calls', tasks', driver'.runtime)
  BY ZenonT(30), <1>2, <1>5, <1>6 DEF SoundTasks
<1> QED
  BY Zenon, <1>2, <1>4, <1>7, AloneNext

\* The runtime ends and the Run fails or stays as it is.
LEMMA AloneEnds ==
  ASSUME NodesInv, Alone, DriverOff, calls' = calls, EndProgram \/ objects' = objects
  PROVE  Alone'
<1>0. RecordsInv /\ SoundData(objects, calls) /\ driver \in Driver
  BY ZenonT(30) DEF NodesInv, OthersInv, Alone
<1>1. driver'.runtime = 0 /\ \A i \in Intents : tasks'[i].stage = "none"
  BY ZenonT(30), <1>0 DEF DriverOff, NoTask, Driver
<1>2. Run(objects).run.state = "completed" => Settled(Run(objects)) /\ calls = {}
  BY ZenonT(30) DEF Alone, SoundTasks
<1>3. /\ SoundData(objects', calls)
      /\ Run(objects').nodes = Run(objects).nodes
      /\ Run(objects').run.state = "completed" => Run(objects).run.state = "completed"
  <2>1. CASE objects' = objects
    BY ZenonT(30), <1>0, <2>1
  <2>2. CASE EndProgram
    <3>1. PICK r : /\ Keeps(Current.run, r)
                   /\ r.state = "completed" => Current.run.state = "completed"
                   /\ objects' = [objects EXCEPT ![Len(objects)] =
                                    [objects[Len(objects)] EXCEPT !.run = r]]
      BY ZenonT(30), <1>0, <2>2, EndProgramEdits
    <3>2. /\ Len(objects) \in 1 .. Len(objects) /\ Current = objects[Len(objects)]
          /\ Current = Run(objects)
      BY ZenonT(30), <1>0, CurrentIsGood DEF Current, Run
    <3>3. calls \in SUBSET calls /\ Keeps(objects[Len(objects)].run, r)
      BY ZenonT(30), <3>1, <3>2
    <3>4. /\ SoundData(objects', calls) /\ Run(objects').nodes = Run(objects).nodes
          /\ Run(objects').run = r
      BY ZenonT(30), <1>0, <3>1, <3>2, <3>3, RunStep
    <3> QED
      BY ZenonT(30), <3>1, <3>2, <3>4
  <2> QED
    BY ZenonT(30), <2>1, <2>2
<1>4. SoundTasks(objects', calls', tasks', driver'.runtime)
  BY Zenon, <1>1, <1>2, <1>3 DEF SoundTasks, Settled
<1> QED
  BY ZenonT(30), <1>3, <1>4, AloneNext

\* The user cancels the Run.
LEMMA AloneCancel ==
  ASSUME NodesInv, Alone, CancelRun
  PROVE  Alone'
<1>0. /\ RecordsInv /\ SoundData(objects, calls) /\ calls' = calls
      /\ tasks' = tasks /\ driver' = driver
  BY ZenonT(30) DEF NodesInv, Alone, CancelRun
<1>1. PICK r : /\ Keeps(Current.run, r)
               /\ r.state = "completed" => Current.run.state = "completed"
               /\ objects' = [objects EXCEPT ![Len(objects)] =
                                [objects[Len(objects)] EXCEPT !.run = r]]
  BY ZenonT(30), <1>0, EndProgramEdits
<1>2. /\ Len(objects) \in 1 .. Len(objects) /\ Current = objects[Len(objects)]
      /\ Current = Run(objects)
  BY ZenonT(30), <1>0, CurrentIsGood DEF Current, Run
<1>3. calls \in SUBSET calls /\ Keeps(objects[Len(objects)].run, r)
  BY ZenonT(30), <1>1, <1>2
<1>4. /\ SoundData(objects', calls) /\ Run(objects').nodes = Run(objects).nodes
      /\ Run(objects').run = r
  BY ZenonT(30), <1>0, <1>1, <1>2, <1>3, RunStep
<1>5. SoundTasks(objects, calls, tasks, driver.runtime)
  BY Zenon DEF Alone
<1>6. SoundTasks(objects', calls', tasks', driver'.runtime)
  BY ZenonT(30), <1>0, <1>1, <1>2, <1>4, <1>5 DEF SoundTasks, Settled
<1> QED
  BY ZenonT(30), <1>0, <1>4, <1>6, AloneNext

\* complete_orchestration begins: every task is done, so none waits.
LEMMA AloneBeginsComplete ==
  ASSUME NodesInv, Alone, BeginComplete, driver.started = 1
  PROVE  Alone'
<1>0. /\ RecordsInv /\ SoundData(objects, calls) /\ driver \in Driver
      /\ driver.runtime # 0 /\ AllDone /\ driver.runtime <= 1
  BY ZenonT(30) DEF NodesInv, OthersInv, Alone, BeginComplete
<1>1. driver.runtime = 1
  BY SMTT(20), <1>0 DEF Driver
<1>2. CASE EndProgram
  BY Zenon, <1>2, AloneEnds DEF EndProgram
<1>3. CASE ~EndProgram
  <2> DEFINE c == [op |-> "complete", runtime |-> driver.runtime,
                   object |-> Len(objects)]
  <2>1. /\ calls' = calls \cup {c} /\ objects' = objects /\ tasks' = tasks
        /\ driver' = driver
        /\ \A i \in Intents : Current.nodes[i] \in {"none", "completed"}
        /\ \A b \in calls : ~(b.op = "complete" /\ b.runtime = driver.runtime)
    BY ZenonT(30), <1>3 DEF BeginComplete
  <2>2. c.op = "complete" /\ c.runtime = 1 /\ c.object = Len(objects)
    BY ZenonT(30), <1>1
  <2> HIDE DEF c
  <2>3. calls = {}
    <3> SUFFICES ASSUME NEW b \in calls PROVE FALSE
      BY ZenonT(30)
    <3>1. Awaits(b, tasks) /\ b.runtime = 1
      BY ZenonT(30), <1>0 DEF Alone, SoundTasks, SoundData, Holds
    <3>2. b.op # "complete"
      BY ZenonT(30), <1>1, <2>1, <3>1
    <3>3. b.intent \in Intents
      BY ZenonT(30), <1>0, <3>2, CallParts
    <3> QED
      BY ZenonT(30), <1>0, <3>1, <3>2, <3>3 DEF Awaits, AllDone
  <2>4. Settled(Run(objects))
    BY ZenonT(30), <2>1 DEF Settled, Run, Current
  <2>5. Holds(c, objects, {c})
    BY ZenonT(30), <2>2, <2>4 DEF Holds
  <2>6. SoundData(objects, {c})
    BY ZenonT(30), <1>0, <2>3, <2>5, LastAskIsSound
  <2>7. Run(objects').run.state # "completed"
    BY ZenonT(30), <1>0, <2>1, RunIsOpen
  <2>8. Awaits(c, tasks')
    BY ZenonT(30), <1>0, <2>1, <2>2 DEF Awaits, AllDone
  <2>9. \A b \in calls' : Awaits(b, tasks')
    BY ZenonT(30), <2>1, <2>3, <2>8
  <2>10. SoundTasks(objects', calls', tasks', driver'.runtime)
    BY SMTT(20), <1>1, <2>1, <2>7, <2>9, TasksAreSound
  <2> QED
    BY Zenon, <2>1, <2>3, <2>6, <2>10, AloneNext
<1> QED
  BY Zenon, <1>2, <1>3

\* A runtime that is started is one more.
LEMMA RuntimesAreCounted ==
  ASSUME NodesInv, [NodesNext]_nodeVars
  PROVE  driver'.started = driver.started \/ driver'.started = driver.started + 1
<1>0. driver \in Driver
  BY ZenonT(30) DEF NodesInv, OthersInv
<1>1. CASE Resume
  BY ZenonT(30), <1>0, <1>1 DEF Resume, Driver
<1>2. CASE DriverOff
  BY ZenonT(30), <1>0, <1>2, DriverEnds DEF DriverOff
<1>3. CASE driver' = driver
  BY ZenonT(30), <1>3
<1>4. driver' = driver \/ DriverOff \/ Resume
  <2>1. ASSUME NEW i \in Intents, TaskStep(i) PROVE driver' = driver
    BY ZenonT(30), <2>1, TaskStepIsOwn DEF NodesInv, OthersInv
  <2>2. ASSUME CallStep PROVE driver' = driver \/ DriverOff
    BY ZenonT(30), <2>2 DEF CallStep, EndAccept, EndDispatch, EndReport, CopyRecord, SwapRecord,
                EndComplete
  <2>3. ASSUME \E s \in Slaves : LoseLease(s) \/ RegisterSlave(s)
        PROVE  driver' = driver
    BY ZenonT(30), <2>3 DEF LoseLease, RegisterSlave
  <2>4. ASSUME NodeFailed \/ ProgramFailed \/ BeginComplete \/ CancelRun
                 \/ NoticeCancel \/ Crash
        PROVE  driver' = driver \/ DriverOff
    BY ZenonT(30), <2>4 DEF NodeFailed, ProgramFailed, BeginComplete, CancelRun, NoticeCancel,
                Crash, EndProgram
  <2>5. ASSUME UNCHANGED nodeVars PROVE driver' = driver
    BY ZenonT(30), <2>5 DEF nodeVars
  <2> QED
    BY ZenonT(30), <2>1, <2>2, <2>3, <2>4, <2>5 DEF NodesNext
<1> QED
  BY ZenonT(30), <1>1, <1>2, <1>3, <1>4

\* The state of the objects, the calls and the tasks after any step.
LEMMA AloneStep ==
  ASSUME NodesInv, AloneInv, [NodesNext]_nodeVars
  PROVE  AloneInv'
<1>0. driver.started \in Nat /\ driver.started # 0 /\ RecordsInv
  BY ZenonT(30) DEF NodesInv, OthersInv, Driver, AloneInv
<1>1. driver'.started = driver.started \/ driver'.started = driver.started + 1
  BY ZenonT(30), RuntimesAreCounted
<1>2. driver'.started # 0
  BY SMTT(20), <1>0, <1>1
<1>3. ASSUME driver'.started = 1
      PROVE  Alone'
  <2>1. driver.started = 1 /\ Alone
    BY SMTT(20), <1>0, <1>1, <1>3 DEF AloneInv
  <2>2. CASE \E i \in Intents : TaskStep(i)
    BY ZenonT(30), <2>1, <2>2, AloneTask
  <2>3. CASE CallStep
    BY ZenonT(30), <2>1, <2>3, AloneAccept, AloneDispatch, AloneReport, AloneCopy, AloneSwap,
       AloneComplete DEF CallStep
  <2>4. CASE NodeFailed \/ ProgramFailed
    BY ZenonT(30), <2>1, <2>4, AloneEnds DEF NodeFailed, ProgramFailed, EndProgram
  <2>5. CASE BeginComplete
    BY ZenonT(30), <2>1, <2>5, AloneBeginsComplete
  <2>6. CASE CancelRun
    BY ZenonT(30), <2>1, <2>6, AloneCancel
  <2>7. CASE NoticeCancel \/ Crash
    BY ZenonT(30), <2>1, <2>7, AloneEnds DEF NoticeCancel, Crash
  <2>8. CASE Resume
    <3>1. driver'.started = 2
      BY SMTT(20), <2>1, <2>8 DEF Resume
    <3> QED
      BY SMTT(20), <1>3, <3>1
  <2>9. ASSUME UNCHANGED <<objects, calls, tasks, driver>>
        PROVE  Alone'
    BY ZenonT(30), <2>1, <2>9, AloneNext DEF Alone
  <2>10. CASE \E s \in Slaves : LoseLease(s) \/ RegisterSlave(s)
    BY ZenonT(30), <2>9, <2>10 DEF LoseLease, RegisterSlave
  <2>11. CASE UNCHANGED nodeVars
    BY ZenonT(30), <2>9, <2>11 DEF nodeVars
  <2> QED
    BY ZenonT(30), <2>2, <2>3, <2>4, <2>5, <2>6, <2>7, <2>8, <2>10, <2>11 DEF NodesNext
<1> QED
  BY ZenonT(30), <1>2, <1>3 DEF AloneInv

\* The first runtime starts with a Run that has no nodes.
LEMMA AloneStarts == NodesInit => AloneInv
<1> SUFFICES ASSUME NodesInit
             PROVE  AloneInv
  BY Zenon
<1>1. /\ objects = <<NewObject>> /\ calls = {}
      /\ driver.started = 1 /\ driver.runtime = 1
  BY ZenonT(30) DEF NodesInit
<1>2. /\ Size(NewObject) = 0 /\ NewObject.run.state = "running"
      /\ NewObject.nodes = [i \in Intents |-> "none"]
  BY ZenonT(30), NewObjectIsGood
<1>3. LiveNodes(NewObject) = {}
  BY ZenonT(30), <1>2 DEF LiveNodes, LiveNode
<1>4. FewAreLive(NewObject)
  BY SMTT(20), <1>3, FS_EmptySet, NodeConstantsAreSound DEF FewAreLive
<1>5. Sane(NewObject)
  BY SMTT(20), <1>2, <1>4 DEF Sane, SaneNode, Fresh
<1>6. SoundData(objects, calls)
  BY SMTT(20), <1>1, <1>5 DEF SoundData
<1>7. SoundTasks(objects, calls, tasks, driver.runtime)
  BY SMTT(30), <1>1, <1>2 DEF SoundTasks, Run
<1> QED
  BY SMTT(20), <1>1, <1>6, <1>7 DEF AloneInv, Alone

\* As long as there is one runtime, a task has one call in progress at most and
\* waits for it, what the call has checked stays true, and the objects are
\* sane.
THEOREM OneRuntimeIsAlone == NodesSpec => []AloneInv
<1>1. NodesInv /\ AloneInv /\ [NodesNext]_nodeVars => AloneInv'
  BY Zenon, AloneStep
<1> QED
  BY <1>1, AloneStarts, NodesInvariant, PTL DEF NodesSpec

\* Under one runtime reassign_dynamic_node fences the attempt it replaces, and
\* dispatch_dynamic_node finds no other one: a node has one live attempt at
\* most.
THEOREM LiveAttemptsAreUnique == NodesSpec => []OneLiveAttempt
<1>1. NodesInv /\ AloneInv => OneLiveAttempt
  <2> SUFFICES ASSUME NodesInv, AloneInv, driver.started = 1, NEW i \in Intents
               PROVE  Cardinality(LiveAttempts(Current, i)) <= 1
    BY ZenonT(30) DEF OneLiveAttempt
  <2> DEFINE S == LiveAttempts(Current, i)
  <2>1. RecordsInv /\ Len(objects) \in 1 .. Len(objects) /\ Alone
    BY ZenonT(30), CurrentIsGood DEF NodesInv, AloneInv
  <2>2. Good(Current) /\ Sane(Current)
    BY ZenonT(30), <2>1, LoadedObject DEF Current
  <2>3. \A j, k \in S : j = k
    <3>1. DOMAIN Current.run.attempts = 1 .. Size(Current)
      BY ZenonT(30), <2>2, GoodParts
    <3> QED
      BY ZenonT(30), <2>2, <3>1 DEF Sane, SaneNode, LiveAttempts, NodeAttempts, Live, LiveOf
  <2> HIDE DEF S
  <2>4. S = {} \/ \E k : S = {k}
    BY SMTT(20), <2>3
  <2>5. Cardinality(S) \in {0, 1}
    BY ZenonT(30), <2>4, FS_EmptySet, FS_Singleton
  <2> QED
    BY SMTT(20), <2>5 DEF S
<1> QED
  BY <1>1, NodesInvariant, OneRuntimeIsAlone, PTL

\* Under one runtime a Run that complete_orchestration has completed has a
\* result of each of its nodes.
THEOREM CompletedRunsHaveResults == NodesSpec => []CompletedRunHasResults
<1>1. NodesInv /\ AloneInv => CompletedRunHasResults
  <2> SUFFICES ASSUME NodesInv, AloneInv, driver.started = 1,
                      Current.run.state = "completed",
                      NEW i \in Intents, Current.nodes[i] # "none"
               PROVE  \E k \in NodeAttempts(Current, i) :
                        Current.run.attempts[k].state = "completed"
    BY Zenon DEF CompletedRunHasResults
  <2>1. RecordsInv /\ Len(objects) \in 1 .. Len(objects) /\ Alone
    BY ZenonT(30), CurrentIsGood DEF NodesInv, AloneInv
  <2>2. Good(Current) /\ Sane(Current)
    BY ZenonT(30), <2>1, LoadedObject DEF Current
  <2>3. Settled(Current)
    BY ZenonT(30), <2>1 DEF Alone, SoundTasks, Run, Current
  <2>4. Current.nodes[i] = "completed" /\ SaneNode(Current, i)
    BY ZenonT(30), <2>2, <2>3 DEF Settled, Sane
  <2>5. PICK k \in 1 .. Size(Current) : ResultOf(Current, i, k)
    BY ZenonT(30), <2>4 DEF SaneNode
  <2>6. DOMAIN Current.run.attempts = 1 .. Size(Current)
    BY ZenonT(30), <2>2, GoodParts
  <2> QED
    BY Zenon, <2>5, <2>6 DEF ResultOf, NodeAttempts
<1> QED
  BY <1>1, NodesInvariant, OneRuntimeIsAlone, PTL

\* Under one runtime accept_node_intent keeps the live nodes of the Run within
\* max_live_nodes: what it counts under its lock is what the Run has.
THEOREM FewNodesAreLive == NodesSpec => []LiveNodesAreLimited
<1>1. NodesInv /\ AloneInv => LiveNodesAreLimited
  <2> SUFFICES ASSUME NodesInv, AloneInv, driver.started = 1
               PROVE  Cardinality({i \in Intents : LiveNode(Current.nodes[i])})
                        <= MaxLiveNodes
    BY ZenonT(30) DEF LiveNodesAreLimited
  <2>1. RecordsInv /\ Len(objects) \in 1 .. Len(objects) /\ Alone
    BY ZenonT(30), CurrentIsGood DEF NodesInv, AloneInv
  <2>2. FewAreLive(Current)
    BY ZenonT(30), <2>1, LoadedObject DEF Current, Sane
  <2> QED
    BY ZenonT(30), <2>2 DEF FewAreLive, LiveNodes
<1> QED
  BY <1>1, NodesInvariant, OneRuntimeIsAlone, PTL
=============================================================================
