-------------------------- MODULE StreamGraph_proofs --------------------------
(***************************************************************************)
(* Proofs about StreamGraph, for every graph, capacity and number of       *)
(* items: no edge outgrows its capacity, a worker leaves its loop only at  *)
(* the end of its input, and what comes out of the graph is every item, in *)
(* order, once on every path.                                              *)
(***************************************************************************)
EXTENDS StreamGraph, SequenceTheorems, FiniteSetTheorems, WellFoundedInduction, TLAPS

(* A worker that is pushing has an item and an output of its node left.    *)
Pushing ==
  \A e \in Workers : at[e] = "push" =>
    /\ held[e] \in Items
    /\ left[e] # <<>>
    /\ \A i \in 1..Len(left[e]) : left[e][i] \in ToSet(Outputs[Consumer[e]])

GraphInv == GraphTypeOK /\ Pushing

-----------------------------------------------------------------------------
(* What the constants say about a worker's node and its outputs.           *)
LEMMA NodeOfWorker ==
  ASSUME NEW e \in Workers
  PROVE  /\ e \in Edges /\ Consumer[e] \in Nodes
         /\ Outputs[Consumer[e]] \in Seq(Edges) /\ Outputs[Consumer[e]] # <<>>
BY GraphAssumptions DEF GraphAssumptions, Workers

(* A sequence of more than one element has a tail.                         *)
LEMMA LongTail ==
  ASSUME NEW S, NEW s \in Seq(S), s # <<>>, Len(s) # 1
  PROVE  Len(s) \in Nat /\ Tail(s) # <<>>
<1>1. PICK k \in Nat \ {0} : k = Len(s)
  BY EmptySeq
<1>2. Len(Tail(s)) = k - 1
  BY <1>1, HeadTailProperties
<1>3. k - 1 # 0
  <2>1. k # 1
    BY <1>1
  <2> QED BY <2>1
<1>4. Len(Tail(s)) # 0
  BY <1>2, <1>3
<1>5. Tail(s) # <<>>
  BY <1>4, EmptySeq
<1> QED BY <1>1, <1>5

(* Popping and closing keep the edges well formed.                         *)
LEMMA PopKeepsEdges ==
  ASSUME GraphTypeOK, NEW e \in Workers, Take(e)
  PROVE  /\ queue' \in [Edges -> Seq(Items)]
         /\ \A f \in Edges : Len(queue'[f]) <= Capacity[f]
         /\ Head(queue[e]) \in Items
<1>1. e \in Edges /\ queue[e] \in Seq(Items) /\ queue[e] # <<>>
  BY NodeOfWorker DEF GraphTypeOK, Take
<1>2. /\ Tail(queue[e]) \in Seq(Items) /\ Head(queue[e]) \in Items
      /\ Len(Tail(queue[e])) = Len(queue[e]) - 1
  BY <1>1
<1>3. \A f \in Edges : queue'[f] = IF f = e THEN Tail(queue[e]) ELSE queue[f]
  BY <1>1 DEF Take, GraphTypeOK
<1>4. queue' \in [Edges -> Seq(Items)]
  BY <1>1, <1>2 DEF Take, GraphTypeOK
<1>5. \A f \in Edges : Len(queue'[f]) <= Capacity[f]
  <2>1. Capacity[e] \in Nat /\ Len(queue[e]) \in Nat /\ Len(queue[e]) <= Capacity[e]
    BY <1>1, GraphAssumptions DEF GraphTypeOK, GraphAssumptions
  <2>2. Len(Tail(queue[e])) <= Capacity[e]
    BY <1>2, <2>1
  <2>3. \A f \in Edges : Len(queue[f]) <= Capacity[f]
    BY DEF GraphTypeOK
  <2> QED BY <1>3, <2>2, <2>3
<1> QED BY <1>2, <1>4, <1>5

(* So does pushing: a full edge takes an item only after it dropped one.   *)
LEMMA PushKeepsEdges ==
  ASSUME GraphTypeOK, NEW o \in Edges, NEW item \in Items, NEW b \in BOOLEAN,
         Push(o, item, b)
  PROVE  /\ queue' \in [Edges -> Seq(Items)]
         /\ \A f \in Edges : Len(queue'[f]) <= Capacity[f]
<1> DEFINE q == queue[o]
<1>1. q \in Seq(Items) /\ Len(q) <= Capacity[o] /\ Capacity[o] \in Nat \ {0}
  BY GraphAssumptions DEF GraphTypeOK, GraphAssumptions
<1>2. /\ Trimmed(o) \in Seq(Items) /\ Len(Trimmed(o)) <= Capacity[o]
      /\ ~Rejects(o, b) => Len(Trimmed(o)) < Capacity[o]
  <2>1. CASE policy[o] = "dropOldest" /\ Full(o) /\ ~closed[o]
    <3>1. q # <<>> /\ Trimmed(o) = Tail(q)
      BY <1>1, <2>1 DEF Full, Trimmed
    <3>2. Tail(q) \in Seq(Items) /\ Len(Tail(q)) = Len(q) - 1
      BY <1>1, <3>1
    <3> QED BY <1>1, <3>1, <3>2
  <2>2. CASE ~(policy[o] = "dropOldest" /\ Full(o) /\ ~closed[o])
    <3>1. Trimmed(o) = q
      BY <2>2 DEF Trimmed
    <3>2. ~Rejects(o, b) => ~Full(o)
      BY <2>2 DEF Rejects
    <3>3. ~Full(o) => Len(q) < Capacity[o]
      BY <1>1 DEF Full
    <3> QED BY <1>1, <3>1, <3>2, <3>3
  <2> QED BY <2>1, <2>2
<1> DEFINE r == IF Rejects(o, b) THEN Trimmed(o) ELSE Append(Trimmed(o), item)
<1>3. r \in Seq(Items) /\ Len(r) <= Capacity[o]
  <2>1. CASE Rejects(o, b)
    BY <1>2, <2>1
  <2>2. CASE ~Rejects(o, b)
    <3>1. Append(Trimmed(o), item) \in Seq(Items)
          /\ Len(Append(Trimmed(o), item)) = Len(Trimmed(o)) + 1
      BY <1>2
    <3> QED BY <1>1, <1>2, <2>2, <3>1
  <2> QED BY <2>1, <2>2
<1>4. queue' = [queue EXCEPT ![o] = r]
  BY DEF Push
<1> HIDE DEF r
<1>5. queue' \in [Edges -> Seq(Items)]
  BY <1>3, <1>4 DEF GraphTypeOK
<1>6. \A f \in Edges : queue'[f] = IF f = o THEN r ELSE queue[f]
  BY <1>4 DEF GraphTypeOK
<1> QED BY <1>3, <1>5, <1>6 DEF GraphTypeOK

(* The type invariant and Pushing, one step per action.                    *)
LEMMA InitGraphInv == GraphInit => GraphInv
<1> SUFFICES ASSUME GraphInit PROVE GraphInv
  OBVIOUS
<1>1. /\ queue \in [Edges -> Seq(Items)] /\ left \in [Workers -> Seq(Edges)]
      /\ todo \in [Callers -> Seq(Nodes)]
  BY DEF GraphInit
<1>2. \A e \in Edges : Len(queue[e]) <= Capacity[e]
  <2> TAKE e \in Edges
  <2>1. queue[e] = <<>> /\ Capacity[e] \in Nat
    BY GraphAssumptions DEF GraphInit, GraphAssumptions
  <2> QED BY <2>1
<1>3. fed \in 0..MaxItems
  BY GraphAssumptions DEF GraphInit, GraphAssumptions
<1>4. [kind |-> kind, policy |-> policy] \in Builds
  <2>1. PICK b \in Builds : kind = b.kind /\ policy = b.policy
    BY DEF GraphInit
  <2>2. b = [kind |-> b.kind, policy |-> b.policy]
    BY GraphAssumptions DEF GraphAssumptions
  <2> QED BY <2>1, <2>2
<1>5. GraphTypeOK
  BY <1>1, <1>2, <1>3, <1>4 DEF GraphInit, GraphTypeOK
<1>6. Pushing
  BY DEF GraphInit, Pushing
<1> QED BY <1>5, <1>6 DEF GraphInv

LEMMA NextGraphInv == GraphInv /\ [GraphNext]_vars => GraphInv'
<1> SUFFICES ASSUME GraphInv, [GraphNext]_vars PROVE GraphInv'
  OBVIOUS
<1> USE DEF GraphInv, buildVars
<1>1. ASSUME NEW e \in Workers, PopToPush(e) PROVE GraphInv'
  <2> DEFINE n == Consumer[e]
  <2>1. Take(e)
    BY <1>1 DEF PopToPush
  <2>2. /\ queue' \in [Edges -> Seq(Items)]
        /\ \A f \in Edges : Len(queue'[f]) <= Capacity[f]
        /\ Head(queue[e]) \in Items
    BY <2>1, PopKeepsEdges
  <2>3. Outputs[n] \in Seq(Edges) /\ Outputs[n] # <<>>
    BY NodeOfWorker
  <2>4. GraphTypeOK'
    BY <1>1, <2>2, <2>3
    DEF PopToPush, Goto, GraphTypeOK, tokenVars, runnerVars
  <2>5. \A i \in 1..Len(Outputs[n]) : Outputs[n][i] \in ToSet(Outputs[n])
    BY <2>3 DEF ToSet
  <2>6. Pushing'
    BY <1>1, <2>2, <2>3, <2>5 DEF PopToPush, Goto, GraphTypeOK, Pushing
  <2> QED BY <2>4, <2>6
<1>2. ASSUME NEW e \in Workers, PopViolation(e) PROVE GraphInv'
  <2>1. /\ queue' \in [Edges -> Seq(Items)]
        /\ \A f \in Edges : Len(queue'[f]) <= Capacity[f]
    BY <1>2, PopKeepsEdges DEF PopViolation
  <2>2. GraphTypeOK'
    BY <1>2, <2>1 DEF PopViolation, Goto, GraphTypeOK, runnerVars
  <2>3. Pushing'
    BY <1>2 DEF PopViolation, Goto, GraphTypeOK, Pushing
  <2> QED BY <2>2, <2>3
<1>3. ASSUME NEW e \in Workers, OperatorFails(e) \/ OperatorAbsorbs(e) PROVE GraphInv'
  <2>1. /\ queue' \in [Edges -> Seq(Items)]
        /\ \A f \in Edges : Len(queue'[f]) <= Capacity[f]
    BY <1>3, PopKeepsEdges DEF OperatorFails, OperatorAbsorbs
  <2>2. CASE OperatorFails(e)
    BY <2>1, <2>2 DEF OperatorFails, Goto, GraphTypeOK, Pushing, runnerVars
  <2>3. CASE OperatorAbsorbs(e)
    BY <2>1, <2>3 DEF OperatorAbsorbs, Goto, NextRound, GraphTypeOK, Pushing, tokenVars,
                      runnerVars
  <2> QED BY <1>3, <2>2, <2>3
<1>4. ASSUME NEW e \in Workers, PushOne(e) PROVE GraphInv'
  <2> DEFINE n == Consumer[e]
             o == Head(left[e])
  <2>1. /\ at[e] = "push" /\ Push(o, held[e], cancelled[n])
        /\ left' = [left EXCEPT ![e] = Tail(@)]
        /\ held' = [held EXCEPT ![e] = IF Len(left[e]) = 1 THEN NoItem ELSE @]
        /\ at' = [at EXCEPT ![e] =
              IF kind[n] = "guard" /\ Rejects(o, cancelled[n]) THEN "exit"
              ELSE IF Len(left[e]) = 1 THEN NextRound(n) ELSE "push"]
        /\ UNCHANGED <<buildVars, closed, tokenVars, runnerVars, fed>>
    BY <1>4 DEF PushOne, Goto
  <2>2. held[e] \in Items /\ left[e] # <<>> /\ left[e] \in Seq(Edges)
        /\ \A i \in 1..Len(left[e]) : left[e][i] \in ToSet(Outputs[n])
    BY <2>1 DEF Pushing, GraphTypeOK
  <2>3. /\ o \in Edges /\ Tail(left[e]) \in Seq(Edges)
        /\ Len(Tail(left[e])) = Len(left[e]) - 1
        /\ \A i \in 1..Len(Tail(left[e])) : Tail(left[e])[i] = left[e][i + 1]
    BY <2>2
  <2>4. n \in Nodes /\ cancelled[n] \in BOOLEAN
    BY NodeOfWorker DEF GraphTypeOK
  <2>5. /\ queue' \in [Edges -> Seq(Items)]
        /\ \A f \in Edges : Len(queue'[f]) <= Capacity[f]
    BY <2>1, <2>2, <2>3, <2>4, PushKeepsEdges
  <2>6. GraphTypeOK'
    <3>1. at' \in [Workers -> {"loop", "push", "exit", "done"}]
      BY <2>1 DEF GraphTypeOK, NextRound
    <3>2. held' \in [Workers -> Items \cup {NoItem}] /\ left' \in [Workers -> Seq(Edges)]
      BY <2>1, <2>3 DEF GraphTypeOK
    <3> QED BY <2>1, <2>5, <3>1, <3>2 DEF GraphTypeOK, tokenVars, runnerVars
  <2>7. Pushing'
    <3> SUFFICES ASSUME NEW f \in Workers, at'[f] = "push"
                 PROVE  /\ held'[f] \in Items /\ left'[f] # <<>>
                        /\ \A i \in 1..Len(left'[f]) :
                             left'[f][i] \in ToSet(Outputs[Consumer[f]])
      BY DEF Pushing
    <3>1. CASE f # e
      BY <2>1, <3>1 DEF GraphTypeOK, Pushing
    <3>2. CASE f = e
      <4>1. Len(left[e]) # 1
        BY <2>1, <3>2 DEF GraphTypeOK, NextRound
      <4>2. held'[e] = held[e] /\ left'[e] = Tail(left[e])
        BY <2>1, <4>1 DEF GraphTypeOK
      <4>3. Len(left[e]) \in Nat /\ Tail(left[e]) # <<>>
        BY <2>2, <4>1, LongTail
      <4>5. \A i \in 1..Len(Tail(left[e])) : Tail(left[e])[i] \in ToSet(Outputs[n])
        <5> SUFFICES ASSUME NEW i \in 1..Len(Tail(left[e]))
                     PROVE  Tail(left[e])[i] \in ToSet(Outputs[n])
          OBVIOUS
        <5>1. i + 1 \in 1..Len(left[e])
          BY <2>3, <4>3
        <5> QED BY <2>2, <2>3, <5>1
      <4> QED BY <2>2, <3>2, <4>2, <4>3, <4>5
    <3> QED BY <3>1, <3>2
  <2> QED BY <2>6, <2>7
<1>5. ASSUME NEW e \in Workers, Exit(e) PROVE GraphInv'
  BY <1>5 DEF Exit, Goto, ClosedAnd, GraphTypeOK, Pushing, tokenVars, runnerVars
<1>6. ASSUME NEW n \in Nodes, Cascade(n) PROVE GraphInv'
  BY <1>6 DEF Cascade, GraphTypeOK, Pushing, edgeVars, workerVars, runnerVars
<1>7. ASSUME NEW c \in Callers, CallerContinues(c) \/ CallerStarts(c) PROVE GraphInv'
  <2>1. CASE FeedPush(c)
    <3>1. fed + 1 \in Items
      BY <2>1, GraphAssumptions DEF FeedPush, GraphTypeOK, GraphAssumptions, Items
    <3>2. /\ queue' \in [Edges -> Seq(Items)]
          /\ \A f \in Edges : Len(queue'[f]) <= Capacity[f]
      BY <2>1, <3>1, GraphAssumptions, PushKeepsEdges
      DEF FeedPush, GraphTypeOK, GraphAssumptions
    <3>3. fed' \in 0..MaxItems
      BY <2>1, <3>1, GraphAssumptions DEF FeedPush, GraphTypeOK, GraphAssumptions, Items
    <3> QED BY <2>1, <3>2, <3>3 DEF FeedPush, GraphTypeOK, Pushing, tokenVars, workerVars
  <2>2. CASE FeedBegin(c)
    BY <2>2 DEF FeedBegin, Begin, GraphTypeOK, Pushing, edgeVars, tokenVars, workerVars
  <2>3. CASE CloseInput(c)
    BY <2>3 DEF CloseInput, ClosedAnd, GraphTypeOK, Pushing, tokenVars, workerVars, runnerVars
  <2>4. JoinOrder \in Seq(Nodes)
    BY GraphAssumptions DEF GraphAssumptions
  <2>5. CASE StopRunner(c)
    BY <2>4, <2>5 DEF StopRunner, SchedulerStop, Begin, ClosedAnd, GraphTypeOK, Pushing,
                      tokenVars, workerVars
  <2>6. CASE CancelRunner(c)
    BY <2>4, <2>6 DEF CancelRunner, SchedulerStop, Begin, GraphTypeOK, Pushing,
                      edgeVars, workerVars
  <2>7. CASE StopNode(c)
    <3>1. Tail(todo[c]) \in Seq(Nodes) /\ Head(todo[c]) \in Nodes
      BY <2>7 DEF StopNode, GraphTypeOK
    <3> QED BY <2>7, <3>1 DEF StopNode, ClosedAnd, GraphTypeOK, Pushing, workerVars
  <2>8. CASE StopReturns(c)
    BY <2>8 DEF StopReturns, GraphTypeOK, Pushing, edgeVars, tokenVars, workerVars
  <2>9. CASE WaitBegin(c)
    BY <2>4, <2>9 DEF WaitBegin, Begin, ClosedAnd, GraphTypeOK, Pushing, tokenVars, workerVars
  <2>10. CASE JoinNode(c)
    <3>1. Tail(todo[c]) \in Seq(Nodes)
      BY <2>10 DEF JoinNode, GraphTypeOK
    <3> QED BY <2>10, <3>1 DEF JoinNode, ClosedAnd, GraphTypeOK, Pushing, tokenVars, workerVars
  <2>11. CASE WaitReturns(c)
    <3>1. queue' = [queue EXCEPT ![RootOut] = <<>>]
      BY <2>11 DEF WaitReturns
    <3>2. queue' \in [Edges -> Seq(Items)]
      <4>1. <<>> \in Seq(Items)
        OBVIOUS
      <4> QED BY <3>1, <4>1 DEF GraphTypeOK
    <3>3. \A f \in Edges : Len(queue'[f]) <= Capacity[f]
      <4> TAKE f \in Edges
      <4>1. CASE f = RootOut
        <5>1. queue'[f] = <<>> /\ Capacity[f] \in Nat
          BY <3>1, <4>1, GraphAssumptions DEF GraphTypeOK, GraphAssumptions
        <5> QED BY <5>1
      <4>2. CASE f # RootOut
        BY <3>1, <4>2 DEF GraphTypeOK
      <4> QED BY <4>1, <4>2
    <3> QED BY <2>11, <3>2, <3>3 DEF WaitReturns, GraphTypeOK, Pushing, workerVars
  <2> QED BY <1>7, <2>1, <2>2, <2>3, <2>5, <2>6, <2>7, <2>8, <2>9, <2>10, <2>11
          DEF CallerContinues, CallerStarts
<1>8. CASE UNCHANGED vars
  BY <1>8 DEF vars, edgeVars, tokenVars, workerVars, runnerVars, GraphTypeOK, Pushing
<1> QED BY <1>1, <1>2, <1>4, <1>5, <1>6, <1>7, <1>8, <1>3
        DEF GraphNext, GraphProgress, WorkerStep

(* The edges of a graph never outgrow their capacity, whatever their       *)
(* policies, and every worker that pushes has an output left to push to.   *)
THEOREM GraphTypeCorrect == GraphSpec => []GraphTypeOK
<1>1. GraphInv => GraphTypeOK
  BY DEF GraphInv
<1> QED BY InitGraphInv, NextGraphInv, <1>1, PTL DEF GraphSpec

-----------------------------------------------------------------------------
(* Why a worker leaves its loop only at the end of its input: in a graph   *)
(* that is neither stopped nor cancelled only a failing operator has its   *)
(* token cancelled, and nobody closes the outputs of a node that still has *)
(* a worker running, so that the push of a guard is not turned away.       *)
Quiet == ~rootCancelled /\ ~stopped
StopMarked == \A c \in Callers : call[c] = "stopping" => stopped
TokensQuiet == Quiet => \A n \in Nodes : cancelled[n] => kind[n] = "operator"
OutputsOpen ==
  Quiet => \A n \in Nodes : \A o \in ToSet(Outputs[n]) : closed[o] => Done(n)
LoopGoesOn ==
  Quiet /\ GuardsNeverDrop =>
    \A e \in Workers : at[e] = "exit" => cancelled[Consumer[e]]

StreamInv ==
  /\ GraphInv /\ StopMarked /\ TokensQuiet /\ OutputsOpen /\ LoopGoesOn
  /\ NoEarlyEndUndropped

(* A push changes no closed edge.                                          *)
LEMMA PushSparesClosed ==
  ASSUME GraphTypeOK, NEW o \in Edges, NEW item, NEW b, Push(o, item, b),
         NEW f \in Edges, closed[f]
  PROVE  queue'[f] = queue[f]
<1>1. CASE f = o
  <2>1. Rejects(o, b) /\ Trimmed(o) = queue[o]
    BY <1>1 DEF Rejects, Trimmed
  <2> QED BY <1>1, <2>1 DEF Push, GraphTypeOK
<1>2. CASE f # o
  BY <1>2 DEF Push, GraphTypeOK
<1> QED BY <1>1, <1>2

(* A push of a running guard in a quiet graph is not turned away.          *)
LEMMA GuardPushSucceeds ==
  ASSUME StreamInv, Quiet, GuardsNeverDrop, NEW e \in Workers,
         kind[Consumer[e]] = "guard", at[e] = "push",
         ~Blocks(Head(left[e]), cancelled[Consumer[e]])
  PROVE  ~Rejects(Head(left[e]), cancelled[Consumer[e]])
<1> DEFINE n == Consumer[e]
           o == Head(left[e])
<1>1. n \in Nodes /\ ~cancelled[n]
  BY NodeOfWorker DEF StreamInv, TokensQuiet
<1>2. o \in ToSet(Outputs[n]) /\ o \in Edges
  <2>1. left[e] \in Seq(Edges) /\ left[e] # <<>>
        /\ \A i \in 1..Len(left[e]) : left[e][i] \in ToSet(Outputs[n])
    BY DEF StreamInv, GraphInv, GraphTypeOK, Pushing
  <2>2. 1 \in 1..Len(left[e]) /\ o = left[e][1]
    <3>1. Len(left[e]) \in Nat \ {0}
      BY <2>1, EmptySeq
    <3> QED BY <2>1, <3>1
  <2> QED BY <2>1, <2>2
<1>3. ~Done(n)
  BY DEF Done, WorkersOf
<1>4. ~closed[o]
  BY <1>1, <1>2, <1>3 DEF StreamInv, OutputsOpen
<1>5. policy[o] # "dropNewest"
  BY <1>1, <1>2 DEF GuardsNeverDrop
<1>6. policy[o] \in {"block", "dropNewest", "dropOldest"}
  <2>1. policy \in [Edges -> {"block", "dropNewest", "dropOldest"}]
    BY GraphAssumptions DEF StreamInv, GraphInv, GraphTypeOK, GraphAssumptions
  <2> QED BY <1>2, <2>1
<1> QED BY <1>1, <1>4, <1>5, <1>6 DEF Blocks, Rejects

LEMMA InitStreamInv == GraphInit => StreamInv
<1> SUFFICES ASSUME GraphInit PROVE StreamInv
  OBVIOUS
<1>1. GraphInv
  BY InitGraphInv
<1>2. OutputsOpen
  <2>1. \A n \in Nodes : ToSet(Outputs[n]) \subseteq Edges
    BY GraphAssumptions DEF GraphAssumptions, ToSet
  <2> QED BY <2>1 DEF GraphInit, OutputsOpen
<1>3. StopMarked /\ TokensQuiet /\ LoopGoesOn /\ NoEarlyEndUndropped
  BY DEF GraphInit, StopMarked, TokensQuiet, LoopGoesOn, NoEarlyEndUndropped, NoEarlyEnd
<1> QED BY <1>1, <1>2, <1>3 DEF StreamInv

LEMMA NextStreamInv == StreamInv /\ [GraphNext]_vars => StreamInv'
<1> SUFFICES ASSUME StreamInv, [GraphNext]_vars PROVE StreamInv'
  OBVIOUS
<1> USE DEF buildVars
<1> DEFINE Rest == StopMarked /\ TokensQuiet /\ OutputsOpen /\ LoopGoesOn
                   /\ NoEarlyEndUndropped
<1>0. GraphInv' /\ GraphTypeOK
  BY NextGraphInv DEF StreamInv, GraphInv
<1>1. ASSUME NEW e \in Workers, PopToPush(e) PROVE Rest'
  <2>1. at[e] = "loop" /\ at' = [at EXCEPT ![e] = "push"]
        /\ queue' = [queue EXCEPT ![e] = Tail(@)]
        /\ UNCHANGED <<buildVars, closed, tokenVars, runnerVars>>
    BY <1>1 DEF PopToPush, Take, Goto
  <2>2. /\ \A f \in Workers : at'[f] = "done" <=> at[f] = "done"
        /\ \A f \in Workers : at'[f] = "exit" <=> at[f] = "exit"
        /\ \A f \in Edges : f # e => queue'[f] = queue[f]
    BY <1>0, <2>1 DEF GraphTypeOK
  <2>3. \A f \in Workers : at[f] = "done" => queue'[f] = queue[f]
    BY <2>1, <2>2 DEF Workers
  <2> QED BY <2>1, <2>2, <2>3
          DEF StreamInv, Quiet, StopMarked, TokensQuiet, OutputsOpen, LoopGoesOn, Done,
              WorkersOf, NoEarlyEndUndropped, NoEarlyEnd, GuardsNeverDrop,
              tokenVars, runnerVars
<1>2. ASSUME NEW e \in Workers, PopViolation(e) PROVE Rest'
  BY <1>2 DEF PopViolation, StreamInv, Quiet, StopMarked, TokensQuiet, OutputsOpen,
              LoopGoesOn, NoEarlyEndUndropped, NoEarlyEnd, runnerVars
<1>3. ASSUME NEW e \in Workers, OperatorFails(e) \/ OperatorAbsorbs(e) PROVE Rest'
  <2> DEFINE n == Consumer[e]
             to == IF OperatorFails(e) THEN "exit" ELSE NextRound(n)
  <2>1. /\ at[e] = "loop" /\ at' = [at EXCEPT ![e] = to]
        /\ queue' = [queue EXCEPT ![e] = Tail(@)]
        /\ kind[n] = "operator"
        /\ cancelled' = cancelled \/ cancelled' = [cancelled EXCEPT ![n] = TRUE]
        /\ UNCHANGED <<buildVars, closed, rootCancelled, runnerVars>>
    BY <1>3 DEF OperatorFails, OperatorAbsorbs, Take, Goto, tokenVars
  <2>2. /\ n \in Nodes
        /\ \A m \in Nodes : m # n => (cancelled'[m] <=> cancelled[m])
        /\ cancelled[n] => cancelled'[n]
        /\ to # "done" /\ (to = "exit" => cancelled'[n])
    BY <1>0, <1>3, NodeOfWorker DEF GraphTypeOK, OperatorFails, OperatorAbsorbs, NextRound, tokenVars
  <2> HIDE DEF to
  <2>3. /\ \A f \in Workers : at'[f] = "done" <=> at[f] = "done"
        /\ \A f \in Workers : f # e => at'[f] = at[f]
        /\ at'[e] = to
        /\ \A f \in Workers : f # e => queue'[f] = queue[f]
    BY <1>0, <2>1, <2>2, NodeOfWorker DEF GraphTypeOK
  <2>4. StopMarked' /\ TokensQuiet'
    BY <2>1, <2>2 DEF StreamInv, StopMarked, TokensQuiet, Quiet, runnerVars
  <2>5. OutputsOpen'
    BY <2>1, <2>3 DEF StreamInv, OutputsOpen, Quiet, Done, WorkersOf, runnerVars
  <2>6. LoopGoesOn'
    <3> SUFFICES ASSUME Quiet', GuardsNeverDrop', NEW f \in Workers, at'[f] = "exit"
                 PROVE  cancelled'[Consumer[f]]
      BY DEF LoopGoesOn
    <3>1. CASE f = e
      BY <2>2, <2>3, <3>1
    <3>2. CASE f # e
      <4>1. cancelled[Consumer[f]]
        BY <2>1, <2>3, <3>2 DEF StreamInv, LoopGoesOn, Quiet, GuardsNeverDrop, runnerVars
      <4> QED BY <2>2, <4>1, NodeOfWorker
    <3> QED BY <3>1, <3>2
  <2>7. NoEarlyEndUndropped'
    <3> SUFFICES ASSUME GuardsNeverDrop', Quiet', NEW f \in Workers, at'[f] = "done",
                        ~cancelled'[Consumer[f]]
                 PROVE  closed'[f] /\ queue'[f] = <<>>
      BY DEF NoEarlyEndUndropped, NoEarlyEnd, Quiet
    <3>1. f # e /\ at[f] = "done"
      BY <2>1, <2>3
    <3>2. ~cancelled[Consumer[f]]
      BY <2>2, NodeOfWorker
    <3> QED BY <2>1, <2>3, <3>1, <3>2
            DEF StreamInv, NoEarlyEndUndropped, NoEarlyEnd, GuardsNeverDrop, Quiet, runnerVars
  <2> QED BY <2>4, <2>5, <2>6, <2>7
<1>4. ASSUME NEW e \in Workers, PushOne(e) PROVE Rest'
  <2> DEFINE n == Consumer[e]
             o == Head(left[e])
             to == IF kind[n] = "guard" /\ Rejects(o, cancelled[n]) THEN "exit"
                   ELSE IF Len(left[e]) = 1 THEN NextRound(n) ELSE "push"
  <2>1. at[e] = "push" /\ Push(o, held[e], cancelled[n]) /\ at' = [at EXCEPT ![e] = to]
        /\ UNCHANGED <<buildVars, closed, tokenVars, runnerVars>>
    BY <1>4 DEF PushOne, Goto
  <2>2. n \in Nodes /\ o \in Edges
    <3>1. left[e] \in Seq(Edges) /\ left[e] # <<>>
      BY <2>1 DEF StreamInv, GraphInv, GraphTypeOK, Pushing
    <3> QED BY <3>1, NodeOfWorker
  <2>3. to # "done" /\ (Quiet /\ GuardsNeverDrop /\ to = "exit" => cancelled[n])
    <3>1. Quiet /\ GuardsNeverDrop /\ kind[n] = "guard" => ~Rejects(o, cancelled[n])
      BY <2>1, GuardPushSucceeds DEF Push
    <3> QED BY <3>1 DEF NextRound
  <2> HIDE DEF to
  <2>4. /\ \A f \in Workers : at'[f] = "done" <=> at[f] = "done"
        /\ \A f \in Workers : f # e => at'[f] = at[f]
        /\ at'[e] = to
    BY <1>0, <2>1, <2>3 DEF GraphTypeOK
  <2>5. \A f \in Edges : closed[f] => queue'[f] = queue[f]
    BY <1>0, <2>1, <2>2, PushSparesClosed
  <2>6. LoopGoesOn'
    BY <2>1, <2>3, <2>4 DEF StreamInv, LoopGoesOn, Quiet, GuardsNeverDrop, tokenVars, runnerVars
  <2>7. NoEarlyEndUndropped'
    <3>1. \A f \in Workers : f \in Edges
      BY DEF Workers
    <3> QED BY <2>1, <2>4, <2>5, <3>1
            DEF StreamInv, NoEarlyEndUndropped, NoEarlyEnd, GuardsNeverDrop, tokenVars,
                runnerVars
  <2>8. StopMarked' /\ TokensQuiet' /\ OutputsOpen'
    BY <2>1, <2>4
    DEF StreamInv, Quiet, StopMarked, TokensQuiet, OutputsOpen, Done, WorkersOf,
        tokenVars, runnerVars
  <2> QED BY <2>6, <2>7, <2>8
<1>5. ASSUME NEW e \in Workers, Exit(e) PROVE Rest'
  <2> DEFINE n == Consumer[e]
  <2>1. /\ at' = [at EXCEPT ![e] = "done"]
        /\ closed' = ClosedAnd(ExitCloses(e))
        /\ UNCHANGED <<buildVars, queue, tokenVars, runnerVars>>
    BY <1>5 DEF Exit, Goto
  <2>2. e \in Edges /\ n \in Nodes
    BY NodeOfWorker
  <2>3. /\ at'[e] = "done"
        /\ \A f \in Workers : f # e => at'[f] = at[f]
        /\ \A f \in Edges : closed'[f] <=> closed[f] \/ f \in ExitCloses(e)
    BY <1>0, <2>1 DEF GraphTypeOK, ClosedAnd
  <2>4. \A m \in Nodes : Done(m) => Done(m)'
    BY <2>3 DEF Done, WorkersOf
  <2>5. ExitCloses(e) # {} => ExitCloses(e) = ToSet(Outputs[n]) /\ Done(n)'
    BY <2>3 DEF ExitCloses, Done, WorkersOf
  <2>6. OutputsOpen'
    <3> SUFFICES ASSUME Quiet', NEW m \in Nodes, NEW o \in ToSet(Outputs[m]), closed'[o]
                 PROVE  Done(m)'
      BY DEF OutputsOpen
    <3>1. Quiet /\ o \in Edges
      BY <2>1, GraphAssumptions DEF Quiet, tokenVars, runnerVars, GraphAssumptions, ToSet
    <3>2. CASE closed[o]
      BY <2>4, <3>1, <3>2 DEF StreamInv, OutputsOpen
    <3>3. CASE o \in ExitCloses(e)
      <4>1. m = n
        BY <2>2, <2>5, <3>3, GraphAssumptions DEF GraphAssumptions
      <4> QED BY <2>5, <3>3, <4>1
    <3> QED BY <2>3, <3>1, <3>2, <3>3
  <2>7. LoopGoesOn'
    BY <2>1, <2>3 DEF StreamInv, LoopGoesOn, Quiet, GuardsNeverDrop, tokenVars, runnerVars
  <2>8. NoEarlyEndUndropped'
    <3> SUFFICES ASSUME GuardsNeverDrop, Quiet, NEW f \in Workers, at'[f] = "done",
                        ~cancelled[Consumer[f]]
                 PROVE  closed'[f] /\ queue'[f] = <<>>
      BY <2>1 DEF NoEarlyEndUndropped, NoEarlyEnd, GuardsNeverDrop, Quiet, tokenVars, runnerVars
    <3>1. f \in Edges
      BY DEF Workers
    <3>2. CASE f = e
      <4>1. at[e] # "exit" /\ ~cancelled[n]
        BY <3>2 DEF StreamInv, LoopGoesOn
      <4>2. closed[e] /\ queue[e] = <<>>
        BY <1>5, <4>1 DEF Exit
      <4> QED BY <2>1, <2>3, <3>1, <3>2, <4>2
    <3>3. CASE f # e
      BY <2>1, <2>3, <3>1, <3>3 DEF StreamInv, NoEarlyEndUndropped, NoEarlyEnd, Quiet
    <3> QED BY <3>2, <3>3
  <2>9. StopMarked' /\ TokensQuiet'
    BY <2>1 DEF StreamInv, StopMarked, TokensQuiet, Quiet, tokenVars, runnerVars
  <2> QED BY <2>6, <2>7, <2>8, <2>9
<1>6. ASSUME NEW n \in Nodes, Cascade(n) PROVE Rest'
  BY <1>6 DEF Cascade, StreamInv, Quiet, StopMarked, TokensQuiet, OutputsOpen, LoopGoesOn,
              NoEarlyEndUndropped, NoEarlyEnd, GuardsNeverDrop, Done, WorkersOf,
              edgeVars, workerVars, runnerVars
<1>7. ASSUME NEW c \in Callers, CallerContinues(c) \/ CallerStarts(c) PROVE Rest'
  <2>1. at' = at /\ policy' = policy /\ kind' = kind
    BY <1>7 DEF CallerContinues, CallerStarts, FeedPush, FeedBegin, CloseInput, StopRunner,
                CancelRunner, StopNode, StopReturns, WaitBegin, JoinNode, WaitReturns,
                edgeVars, workerVars
  <2>2. (\A m \in Nodes : Done(m)' <=> Done(m)) /\ (GuardsNeverDrop' <=> GuardsNeverDrop)
    BY <2>1 DEF Done, WorkersOf, GuardsNeverDrop
  <2>3. Quiet' => Quiet
    BY <1>7 DEF Quiet, CallerContinues, CallerStarts, FeedPush, FeedBegin, CloseInput,
                StopRunner, CancelRunner, SchedulerStop, StopNode, StopReturns, WaitBegin,
                JoinNode, WaitReturns, tokenVars, runnerVars
  <2>4. StopMarked'
    BY <1>7 DEF StreamInv, StopMarked, CallerContinues, CallerStarts, FeedPush, FeedBegin,
                CloseInput, StopRunner, CancelRunner, SchedulerStop, StopNode, StopReturns,
                WaitBegin, JoinNode, WaitReturns, Begin, runnerVars,
                GraphInv, GraphTypeOK
  <2>5. Quiet' => ~StopNode(c)
    BY <1>0 DEF StreamInv, StopMarked, Quiet, StopNode
  <2>6. Quiet' => cancelled' = cancelled
    BY <1>7, <2>5 DEF CallerContinues, CallerStarts, FeedPush, FeedBegin, CloseInput,
                StopRunner, CancelRunner, StopReturns, WaitBegin, JoinNode, WaitReturns,
                tokenVars
  <2>7. TokensQuiet' /\ LoopGoesOn'
    BY <2>1, <2>2, <2>3, <2>6 DEF StreamInv, TokensQuiet, LoopGoesOn
  <2>8. /\ \A f \in Edges : closed[f] => closed'[f]
        /\ Quiet' => \A f \in Edges : closed'[f] =>
             \/ closed[f] \/ f = RootIn
             \/ \E m \in Nodes : f \in ToSet(Outputs[m]) /\ Done(m)
    <3>1. CASE closed' = closed
      BY <3>1
    <3>2. CASE closed' = ClosedAnd({RootIn})
      BY <3>2 DEF ClosedAnd
    <3>3. CASE JoinNode(c)
      <4>1. Head(todo[c]) \in Nodes
        BY <1>0, <3>3 DEF JoinNode, GraphTypeOK
      <4> QED BY <3>3, <4>1 DEF JoinNode, JoinCloses, ClosedAnd
    <3>4. CASE StopNode(c)
      BY <2>5, <3>4 DEF StopNode, ClosedAnd
    <3> QED BY <1>7, <3>1, <3>2, <3>3, <3>4
            DEF CallerContinues, CallerStarts, FeedPush, FeedBegin, CloseInput, StopRunner,
                CancelRunner, StopReturns, WaitBegin, WaitReturns, edgeVars
  <2>9. OutputsOpen'
    <3> SUFFICES ASSUME Quiet', NEW m \in Nodes, NEW o \in ToSet(Outputs[m]), closed'[o]
                 PROVE  Done(m)'
      BY DEF OutputsOpen
    <3>1. o \in Edges /\ o # RootIn
      BY GraphAssumptions DEF GraphAssumptions, ToSet
    <3>2. CASE closed[o]
      BY <2>2, <2>3, <3>2 DEF StreamInv, OutputsOpen
    <3>3. CASE \E k \in Nodes : o \in ToSet(Outputs[k]) /\ Done(k)
      BY <2>2, <3>3, GraphAssumptions DEF GraphAssumptions
    <3> QED BY <2>8, <3>1, <3>2, <3>3
  <2>10. Quiet' => \A f \in Workers : closed[f] => queue'[f] = queue[f]
    <3> SUFFICES ASSUME Quiet', NEW f \in Workers, closed[f] PROVE queue'[f] = queue[f]
      OBVIOUS
    <3>1. CASE FeedPush(c)
      BY <1>0, <3>1, GraphAssumptions, PushSparesClosed
      DEF FeedPush, Workers, GraphAssumptions
    <3>2. CASE WaitReturns(c)
      BY <3>2 DEF WaitReturns, Quiet
    <3> QED BY <1>7, <3>1, <3>2
            DEF CallerContinues, CallerStarts, FeedBegin, CloseInput, StopRunner,
                CancelRunner, StopNode, StopReturns, WaitBegin, JoinNode, edgeVars
  <2>11. NoEarlyEndUndropped'
    <3>1. \A f \in Workers : f \in Edges
      BY DEF Workers
    <3> QED BY <2>1, <2>2, <2>3, <2>6, <2>8, <2>10, <3>1
            DEF StreamInv, NoEarlyEndUndropped, NoEarlyEnd, Quiet
  <2> QED BY <2>4, <2>7, <2>9, <2>11
<1>8. ASSUME UNCHANGED vars PROVE Rest'
  <2>1. UNCHANGED <<kind, policy, queue, closed, rootCancelled, cancelled, at, stopped, call>>
    BY <1>8 DEF vars, edgeVars, tokenVars, workerVars, runnerVars
  <2>2. StopMarked' /\ TokensQuiet' /\ LoopGoesOn'
    BY <2>1 DEF StreamInv, Quiet, StopMarked, TokensQuiet, LoopGoesOn, GuardsNeverDrop
  <2>3. OutputsOpen'
    BY <2>1 DEF StreamInv, Quiet, OutputsOpen, Done, WorkersOf
  <2>4. NoEarlyEndUndropped'
    BY <2>1 DEF StreamInv, NoEarlyEndUndropped, NoEarlyEnd, GuardsNeverDrop
  <2> QED BY <2>2, <2>3, <2>4
<1> HIDE DEF Rest
<1>9. Rest'
  BY <1>1, <1>2, <1>4, <1>5, <1>6, <1>7, <1>8, <1>3
  DEF GraphNext, GraphProgress, WorkerStep
<1> QED BY <1>0, <1>9 DEF StreamInv, Rest

(* Every worker of every graph whose guards push to no DropNewest edge     *)
(* leaves its loop only when its edge is closed and empty, unless somebody *)
(* stopped or cancelled the graph.                                         *)
THEOREM StreamRunsToItsEnd == GraphSpec => []NoEarlyEndUndropped
<1>1. StreamInv => NoEarlyEndUndropped
  BY DEF StreamInv
<1> QED BY InitStreamInv, NextStreamInv, <1>1, PTL DEF GraphSpec
-----------------------------------------------------------------------------
(* Why nothing is delivered twice, out of turn, or not at all.  An item    *)
(* fans out into copies, one for each way it can go: a copy is an item and *)
(* the route it has taken so far.  A history of the graph gives            *)
(*   when[p][m]  the number under which the last edge of route p accepted  *)
(*               item m by that route, counting from 1; 0 if it did not    *)
(*   gone[e]     how many copies have left edge e again                    *)
(*   cur[w]      the number, on its edge, of the copy worker w last took   *)
(* and the invariant says that the state has such a history.               *)
Routes == {p \in Seq(Edges) : IsRoute(p)}

RootPaths == {p \in Routes : Last(p) = RootOut}

(* Paths counts the routes from the root input to the root output.         *)
PathsCounted == IsFiniteSet(RootPaths) /\ Cardinality(RootPaths) = Paths

(* Queue q holds the copies accepted after the first gone[e], in order,    *)
(* and no edge accepted a copy twice.                                      *)
Numbered(q, when, gone) ==
  /\ when \in [Routes -> [Items -> Nat]] /\ gone \in [Edges -> Nat]
  /\ \A p \in Routes, m \in Items : when[p][m] <= gone[Last(p)] + Len(q[Last(p)])
  /\ \A p, r \in Routes : \A m, l \in Items :
       Last(p) = Last(r) /\ when[p][m] = when[r][l] /\ when[p][m] # 0 => p = r /\ m = l
  /\ \A e \in Edges : \A j \in 1..Len(q[e]) :
       \E p \in Routes : Last(p) = e /\ when[p][q[e][j]] = gone[e] + j

(* A copy on the output of a worker is one the worker has taken, and the   *)
(* one it is pushing is on none of the outputs it has left.                *)
Followed(when, cur) ==
  \A p \in Routes, o \in Edges, m \in Items :
    Append(p, o) \in Routes /\ when[Append(p, o)][m] # 0 =>
      /\ when[p][m] \in 1..cur[Last(p)]
      /\ at[Last(p)] = "push" /\ when[p][m] = cur[Last(p)] => o \notin ToSet(left[Last(p)])

Holding(when, gone, cur) ==
  /\ cur \in [Workers -> Nat] /\ \A w \in Workers : cur[w] <= gone[w]
  /\ \A w \in Workers : at[w] = "push" =>
       cur[w] # 0 /\ \E p \in Routes : Last(p) = w /\ when[p][held[w]] = cur[w]

FedInTurn(when, gone) ==
  /\ \A m \in Items : when[<<RootIn>>][m] = IF m <= fed THEN m ELSE 0
  /\ gone[RootIn] + Len(queue[RootIn]) = fed

(* No copy overtakes the one before it.                                    *)
InTurn(when) ==
  \A p \in Routes, m \in Items :
    m > 1 /\ when[p][m] # 0 => m - 1 \in Items /\ when[p][m - 1] \in 1..(when[p][m] - 1)

(* A worker has passed on all it took to an output that still takes it.    *)
StillTakes(w, o) ==
  Quiet \/ (at[w] \in {"loop", "push"} /\ ~closed[o] /\ ~cancelled[Consumer[w]])

Owes(w, o, n, cur) == at[w] = "push" /\ n = cur[w] /\ o \in ToSet(left[w])

PassedOn(when, gone, cur) ==
  \A p \in Routes, o \in Edges, m \in Items :
    /\ Append(p, o) \in Routes
    /\ StillTakes(Last(p), o)
    /\ when[p][m] \in 1..gone[Last(p)]
    /\ ~Owes(Last(p), o, when[p][m], cur)
    => when[Append(p, o)][m] # 0

(* The output is emptied once, when nothing can follow.                    *)
Collected(gone) ==
  \/ gone[RootOut] = 0
  \/ stopped /\ queue[RootOut] = <<>> /\ AllDone /\ closed[RootIn]

History(when, gone, cur) ==
  /\ Numbered(queue, when, gone)
  /\ Followed(when, cur)
  /\ Holding(when, gone, cur)
  /\ FedInTurn(when, gone)
  /\ Lossless => InTurn(when) /\ PassedOn(when, gone, cur) /\ Collected(gone)

(* A waiter has closed the input, and the nodes it has joined are done.    *)
WaitersJoined ==
  \A c \in Callers : call[c] = "waiting" =>
    closed[RootIn] /\ \A n \in Nodes : n \in ToSet(todo[c]) \/ Done(n)

NoRepeats ==
  \A w \in Workers : at[w] = "push" =>
    \A i, j \in 1..Len(left[w]) : left[w][i] = left[w][j] => i = j

HistoryInv ==
  /\ StreamInv /\ WaitersJoined /\ NoRepeats
  /\ \E when, gone, cur : History(when, gone, cur)

-----------------------------------------------------------------------------
(* Routes.                                                                 *)
(* A set of numbers has a least one.                                       *)
LEMMA LeastOf ==
  ASSUME NEW T, T \subseteq Nat, T # {}
  PROVE  \E x \in T : \A y \in T : x <= y
<1>1. PICK R : IsWellFoundedOn(R, Nat) /\ \A x, y \in Nat : x < y => <<x, y>> \in R
  <2>1. IsWellFoundedOn(OpToRel(<, Nat), Nat)
    BY NatLessThanWellFounded
  <2>2. \A x, y \in Nat : x < y => <<x, y>> \in OpToRel(<, Nat)
    BY DEF OpToRel
  <2> QED BY <2>1, <2>2
<1>2. IsWellFoundedOn(R, Nat)
  BY <1>1
<1>3. \E x \in T : \A y \in T : ~ (<<y, x>> \in R)
  BY <1>2, WFMin, Zenon
<1>4. PICK x \in T : \A y \in T : ~ (<<y, x>> \in R)
  BY <1>3
<1>5. \A y \in T : x \in Nat /\ y \in Nat /\ ~(y < x)
  BY <1>1, <1>4
<1>6. \A y \in T : x <= y
  BY <1>5
<1> QED BY <1>6

LEMMA OneLess ==
  ASSUME NEW k \in Nat \ {0}, k # 1
  PROVE  /\ k - 1 \in Nat \ {0} /\ k - 1 \in 1..(k - 1) /\ k - 1 \in 1..k
         /\ (k - 1) + 1 = k
OBVIOUS

LEMMA BelowTop ==
  ASSUME NEW k \in Nat, NEW n \in 1..(k + 1), n # k + 1
  PROVE  n \in 1..k
OBVIOUS

LEMMA OneBelow ==
  ASSUME NEW k \in Nat \ {0}, NEW i \in 1..k, i # 1
  PROVE  i - 1 \in 1..(k - 1) /\ (i - 1) + 1 = i /\ k # 1
OBVIOUS

LEMMA InToSet ==
  ASSUME NEW S, NEW s \in Seq(S)
  PROVE  /\ \A i \in 1..Len(s) : s[i] \in ToSet(s)
         /\ \A x \in ToSet(s) : \E i \in 1..Len(s) : x = s[i]
BY DEF ToSet

LEMMA RouteTyped ==
  ASSUME NEW p \in Routes
  PROVE  /\ p \in Seq(Edges) /\ Len(p) \in Nat \ {0} /\ Last(p) = p[Len(p)]
         /\ Last(p) \in Edges /\ p[1] = RootIn
<1>1. p \in Seq(Edges) /\ p # <<>> /\ p[1] = RootIn
  BY DEF Routes, IsRoute
<1>2. Len(p) \in Nat \ {0}
  BY <1>1, EmptySeq
<1>3. p[Len(p)] \in Edges
  BY <1>1, <1>2, ElementOfSeq
<1> QED BY <1>1, <1>2, <1>3 DEF Last

(* The root input is the end of one route only.                            *)
LEMMA RootRoute ==
  /\ <<RootIn>> \in Routes /\ Last(<<RootIn>>) = RootIn
  /\ \A p \in Routes : Last(p) = RootIn => p = <<RootIn>>
<1>1. RootIn \in Edges /\ \A n \in Nodes : RootIn \notin ToSet(Outputs[n])
  BY GraphAssumptions DEF GraphAssumptions
<1>2. <<RootIn>> \in Seq(Edges) /\ Len(<<RootIn>>) = 1 /\ <<RootIn>>[1] = RootIn
  BY <1>1
<1>3. <<RootIn>> \in Routes /\ Last(<<RootIn>>) = RootIn
  BY <1>2 DEF Routes, IsRoute, Last
<1>4. ASSUME NEW p \in Routes, Last(p) = RootIn PROVE p = <<RootIn>>
  <2>1. /\ p \in Seq(Edges) /\ Len(p) \in Nat \ {0} /\ p[Len(p)] = RootIn /\ p[1] = RootIn
        /\ \A i \in 1..(Len(p) - 1) :
             p[i] \in Workers /\ p[i + 1] \in ToSet(Outputs[Consumer[p[i]]])
    BY <1>4, RouteTyped DEF Routes, IsRoute
  <2>2. CASE Len(p) = 1
    BY <2>1, <2>2, <1>2, SeqEqual
  <2>3. CASE Len(p) # 1
    <3>1. Len(p) - 1 \in 1..(Len(p) - 1) /\ (Len(p) - 1) + 1 = Len(p)
      BY <2>1, <2>3, OneLess
    <3>2. p[Len(p) - 1] \in Workers /\ p[Len(p)] \in ToSet(Outputs[Consumer[p[Len(p) - 1]]])
      BY <2>1, <3>1
    <3> QED BY <1>1, <2>1, <3>2, NodeOfWorker
  <2> QED BY <2>2, <2>3
<1> QED BY <1>3, <1>4

(* A route goes on from a worker to an output of its node, and only there. *)
LEMMA RouteStep ==
  ASSUME NEW p \in Routes, NEW o \in Edges
  PROVE  /\ Last(Append(p, o)) = o
         /\ Append(p, o) \in Routes
              <=> Last(p) \in Workers /\ o \in ToSet(Outputs[Consumer[Last(p)]])
<1>1. p \in Seq(Edges) /\ Len(p) \in Nat \ {0} /\ Last(p) = p[Len(p)] /\ p[1] = RootIn
  BY RouteTyped
<1> DEFINE r == Append(p, o)
<1>2. /\ r \in Seq(Edges) /\ r # <<>> /\ Len(r) = Len(p) + 1 /\ r[Len(p) + 1] = o
      /\ \A i \in 1..Len(p) : r[i] = p[i]
  BY <1>1, AppendProperties
<1>3. Last(r) = o
  BY <1>2 DEF Last
<1>4. r[1] = RootIn /\ Len(r) - 1 = Len(p) /\ r[Len(p)] = Last(p)
  BY <1>1, <1>2
<1>5. ASSUME r \in Routes
      PROVE  Last(p) \in Workers /\ o \in ToSet(Outputs[Consumer[Last(p)]])
  <2>1. \A i \in 1..Len(p) : r[i] \in Workers /\ r[i + 1] \in ToSet(Outputs[Consumer[r[i]]])
    BY <1>4, <1>5 DEF Routes, IsRoute
  <2>2. Len(p) \in 1..Len(p)
    BY <1>1
  <2> QED BY <1>2, <1>4, <2>1, <2>2
<1>6. ASSUME Last(p) \in Workers, o \in ToSet(Outputs[Consumer[Last(p)]])
      PROVE  r \in Routes
  <2>1. ASSUME NEW i \in 1..Len(p)
        PROVE  r[i] \in Workers /\ r[i + 1] \in ToSet(Outputs[Consumer[r[i]]])
    <3>1. CASE i = Len(p)
      BY <1>2, <1>4, <1>6, <3>1
    <3>2. CASE i # Len(p)
      <4>1. i \in 1..(Len(p) - 1) /\ i + 1 \in 1..Len(p)
        BY <1>1, <3>2
      <4>2. p[i] \in Workers /\ p[i + 1] \in ToSet(Outputs[Consumer[p[i]]])
        BY <4>1 DEF Routes, IsRoute
      <4> QED BY <1>2, <4>1, <4>2
    <3> QED BY <3>1, <3>2
  <2> QED BY <1>2, <1>4, <2>1 DEF Routes, IsRoute
<1> QED BY <1>3, <1>5, <1>6

LEMMA RouteSplit ==
  ASSUME NEW r \in Routes, r # <<RootIn>>
  PROVE  \E p \in Routes, o \in Edges : r = Append(p, o) /\ Len(r) = Len(p) + 1
<1>1. r \in Seq(Edges) /\ Len(r) \in Nat \ {0} /\ Last(r) \in Edges
  BY RouteTyped
<1>2. Len(r) # 1
  <2> SUFFICES ASSUME Len(r) = 1 PROVE FALSE
    OBVIOUS
  <2>1. r[1] = RootIn /\ RootIn \in Edges
    BY RouteTyped, GraphAssumptions DEF GraphAssumptions
  <2>2. <<RootIn>> \in Seq(Edges) /\ Len(<<RootIn>>) = 1 /\ <<RootIn>>[1] = RootIn
    BY <2>1
  <2> QED BY <1>1, <2>1, <2>2, SeqEqual
<1> DEFINE p == SubSeq(r, 1, Len(r) - 1)
<1>3. /\ Len(r) - 1 \in Nat \ {0} /\ Len(r) - 1 \in 1..Len(r) /\ 1 \in 1..(Len(r) - 1)
      /\ (Len(r) - 1) + 1 = Len(r)
  <2>1. Len(r) - 1 \in Nat \ {0} /\ Len(r) - 1 \in 1..Len(r) /\ (Len(r) - 1) + 1 = Len(r)
    BY <1>1, <1>2, OneLess
  <2> QED BY <2>1
<1>4. /\ p \in Seq(Edges) /\ Len(p) = Len(r) - 1
      /\ \A i \in 1..(Len(r) - 1) : p[i] = r[i]
  BY <1>1, <1>3
<1>5. p \in Routes
  <2>1. p # <<>> /\ p[1] = RootIn
    <3>1. p # <<>>
      BY <1>3, <1>4, EmptySeq
    <3> QED BY <1>3, <1>4, <3>1, RouteTyped
  <2>2. ASSUME NEW i \in 1..(Len(p) - 1)
        PROVE  p[i] \in Workers /\ p[i + 1] \in ToSet(Outputs[Consumer[p[i]]])
    <3>1. i \in 1..(Len(r) - 1) /\ i + 1 \in 1..(Len(r) - 1)
      BY <1>3, <1>4
    <3>2. r[i] \in Workers /\ r[i + 1] \in ToSet(Outputs[Consumer[r[i]]])
      BY <3>1 DEF Routes, IsRoute
    <3> QED BY <1>4, <3>1, <3>2
  <2> QED BY <1>4, <2>1, <2>2 DEF Routes, IsRoute
<1>6. r = Append(p, r[Len(r)])
  <2>1. r[Len(r)] \in Edges
    BY <1>1, RouteTyped
  <2>2. /\ Append(p, r[Len(r)]) \in Seq(Edges) /\ Len(Append(p, r[Len(r)])) = Len(r)
        /\ \A i \in 1..Len(p) : Append(p, r[Len(r)])[i] = p[i]
        /\ Append(p, r[Len(r)])[Len(p) + 1] = r[Len(r)]
    BY <1>1, <1>3, <1>4, <2>1, AppendProperties
  <2>3. ASSUME NEW i \in 1..Len(r) PROVE Append(p, r[Len(r)])[i] = r[i]
    <3>1. CASE i = Len(r)
      BY <1>3, <1>4, <2>2, <3>1
    <3>2. CASE i # Len(r)
      <4>1. i \in 1..(Len(r) - 1)
        BY <1>1, <3>2
      <4> QED BY <1>4, <2>2, <4>1
    <3> QED BY <3>1, <3>2
  <2> QED BY <1>1, <2>2, <2>3, SeqEqual
<1>7. r[Len(r)] \in Edges /\ Len(r) = Len(p) + 1
  BY <1>1, <1>3, <1>4, RouteTyped
<1> QED BY <1>5, <1>6, <1>7

LEMMA RouteUnique ==
  ASSUME NEW p \in Routes, NEW r \in Routes, NEW o \in Edges, NEW u \in Edges,
         Append(p, o) = Append(r, u)
  PROVE  p = r /\ o = u
BY RouteTyped, AppendInjective

(* The root output has no worker, and an edge is the output of one node.   *)
LEMMA EndsOfGraph ==
  /\ RootIn \in Edges /\ RootOut \in Edges /\ RootOut \notin Workers
  /\ \A w \in Workers : \A o \in ToSet(Outputs[Consumer[w]]) : o \in Edges /\ o # RootIn
BY GraphAssumptions, NodeOfWorker DEF GraphAssumptions, Workers, ToSet

-----------------------------------------------------------------------------
(* What the edges do to the numbers.                                       *)
Put(when, r, m, n) ==
  [p \in Routes |-> [x \in Items |-> IF p = r /\ x = m THEN n ELSE when[p][x]]]

LEMMA PutTyped ==
  ASSUME NEW when \in [Routes -> [Items -> Nat]], NEW r \in Routes, NEW m \in Items, NEW n \in Nat
  PROVE  /\ Put(when, r, m, n) \in [Routes -> [Items -> Nat]]
         /\ Put(when, r, m, n)[r][m] = n
         /\ \A p \in Routes, x \in Items :
              Put(when, r, m, n)[p][x] = IF p = r /\ x = m THEN n ELSE when[p][x]
BY DEF Put

(* Copies leave a queue at its front.                                      *)
LEMMA DropNumbered ==
  ASSUME NEW q \in [Edges -> Seq(Items)], NEW when, NEW gone, Numbered(q, when, gone),
         NEW o \in Edges, NEW s \in Seq(Items), NEW d \in Nat,
         Len(q[o]) = d + Len(s), \A j \in 1..Len(s) : s[j] = q[o][d + j]
  PROVE  Numbered([q EXCEPT ![o] = s], when, [gone EXCEPT ![o] = gone[o] + d])
<1> DEFINE t == [q EXCEPT ![o] = s]
           g == [gone EXCEPT ![o] = gone[o] + d]
<1>1. when \in [Routes -> [Items -> Nat]] /\ gone \in [Edges -> Nat]
  BY DEF Numbered
<1>2. /\ g \in [Edges -> Nat] /\ t[o] = s /\ g[o] = gone[o] + d /\ gone[o] \in Nat
      /\ \A e \in Edges : e # o => t[e] = q[e] /\ g[e] = gone[e]
  BY <1>1
<1>3. Len(s) \in Nat /\ Len(q[o]) \in Nat
  OBVIOUS
<1> HIDE DEF t, g
<1>4. ASSUME NEW e \in Edges PROVE g[e] + Len(t[e]) = gone[e] + Len(q[e])
  <2>1. CASE e = o
    <3>1. g[e] = gone[o] + d /\ Len(t[e]) = Len(s)
      BY <1>2, <2>1
    <3>2. (gone[o] + d) + Len(s) = gone[o] + (d + Len(s))
      BY <1>2, <1>3
    <3>3. Len(q[e]) = d + Len(s)
      BY <2>1
    <3> QED BY <2>1, <3>1, <3>2, <3>3
  <2>2. CASE e # o
    BY <1>2, <2>2
  <2> QED BY <2>1, <2>2
<1>5. ASSUME NEW p \in Routes, NEW m \in Items
      PROVE  when[p][m] <= g[Last(p)] + Len(t[Last(p)])
  <2>1. Last(p) \in Edges
    BY RouteTyped
  <2>2. when[p][m] <= gone[Last(p)] + Len(q[Last(p)])
    BY DEF Numbered
  <2> QED BY <1>4, <2>1, <2>2
<1>6. ASSUME NEW e \in Edges, NEW j \in 1..Len(t[e])
      PROVE  \E p \in Routes : Last(p) = e /\ when[p][t[e][j]] = g[e] + j
  <2>1. CASE e = o
    <3>1. d + j \in 1..Len(q[o]) /\ s[j] = q[o][d + j]
      BY <1>2, <1>3, <1>6, <2>1
    <3>2. PICK p \in Routes : Last(p) = o /\ when[p][q[o][d + j]] = gone[o] + (d + j)
      BY <3>1 DEF Numbered
    <3>3. gone[o] + (d + j) = g[o] + j
      BY <1>2, <1>6
    <3> QED BY <1>2, <2>1, <3>1, <3>2, <3>3
  <2>2. CASE e # o
    <3>1. t[e] = q[e] /\ g[e] = gone[e]
      BY <1>2, <2>2
    <3>2. j \in 1..Len(q[e])
      BY <1>6, <3>1
    <3>3. PICK p \in Routes : Last(p) = e /\ when[p][q[e][j]] = gone[e] + j
      BY <3>2 DEF Numbered
    <3> QED BY <3>1, <3>3
  <2> QED BY <2>1, <2>2
<1>7. \A p, r \in Routes : \A m, l \in Items :
        Last(p) = Last(r) /\ when[p][m] = when[r][l] /\ when[p][m] # 0 => p = r /\ m = l
  BY DEF Numbered
<1>8. Numbered(t, when, g)
  BY <1>1, <1>2, <1>5, <1>6, <1>7 DEF Numbered
<1> QED BY <1>8 DEF t, g

(* A copy no edge has seen is accepted at the end of its queue.            *)
LEMMA PutNumbered ==
  ASSUME NEW q \in [Edges -> Seq(Items)], NEW when, NEW gone, Numbered(q, when, gone),
         NEW r \in Routes, NEW o \in Edges, Last(r) = o, NEW m \in Items, when[r][m] = 0
  PROVE  Numbered([q EXCEPT ![o] = Append(q[o], m)],
                  Put(when, r, m, gone[o] + Len(q[o]) + 1), gone)
<1> DEFINE t == [q EXCEPT ![o] = Append(q[o], m)]
           n == gone[o] + Len(q[o]) + 1
           w == Put(when, r, m, n)
<1>1. /\ when \in [Routes -> [Items -> Nat]] /\ gone \in [Edges -> Nat] /\ gone[o] \in Nat
      /\ q[o] \in Seq(Items) /\ Len(q[o]) \in Nat /\ n \in Nat /\ n # 0
      /\ n = gone[o] + Len(q[o]) + 1
  BY DEF Numbered
<1> HIDE DEF n
<1>2. /\ Append(q[o], m) \in Seq(Items) /\ Len(Append(q[o], m)) = Len(q[o]) + 1
      /\ \A j \in 1..Len(q[o]) : Append(q[o], m)[j] = q[o][j]
      /\ Append(q[o], m)[Len(q[o]) + 1] = m
  BY <1>1, AppendProperties
<1>3. t[o] = Append(q[o], m) /\ \A e \in Edges : e # o => t[e] = q[e]
  OBVIOUS
<1> HIDE DEF t
<1>4. /\ w \in [Routes -> [Items -> Nat]] /\ w[r][m] = n
      /\ \A p \in Routes, x \in Items : w[p][x] = IF p = r /\ x = m THEN n ELSE when[p][x]
  BY <1>1 DEF Put
<1> HIDE DEF w
<1>5. ASSUME NEW p \in Routes, NEW x \in Items
      PROVE  /\ w[p][x] <= gone[Last(p)] + Len(t[Last(p)])
             /\ Last(p) = o /\ ~(p = r /\ x = m) => w[p][x] < n
  <2>1. /\ Last(p) \in Edges /\ when[p][x] <= gone[Last(p)] + Len(q[Last(p)])
        /\ when[p][x] \in Nat /\ gone[Last(p)] \in Nat /\ Len(q[Last(p)]) \in Nat
    BY <1>1, RouteTyped DEF Numbered
  <2>2. Last(p) = o => gone[Last(p)] + Len(t[Last(p)]) = n
    BY <1>1, <1>2, <1>3
  <2>3. CASE p = r /\ x = m
    BY <1>1, <1>4, <2>2, <2>3
  <2>4. CASE ~(p = r /\ x = m)
    <3>1. w[p][x] = when[p][x]
      BY <1>4, <2>4
    <3>2. CASE Last(p) = o
      BY <1>1, <2>1, <2>2, <3>1, <3>2
    <3>3. CASE Last(p) # o
      BY <1>3, <2>1, <3>1, <3>3
    <3> QED BY <3>2, <3>3
  <2> QED BY <2>3, <2>4
<1>6. ASSUME NEW p \in Routes, NEW u \in Routes, NEW x \in Items, NEW y \in Items,
             Last(p) = Last(u), w[p][x] = w[u][y], w[p][x] # 0
      PROVE  p = u /\ x = y
  <2>1. CASE p = r /\ x = m
    <3>1. Last(u) = o /\ w[u][y] = n
      BY <1>4, <1>6, <2>1
    <3> QED BY <1>1, <1>5, <2>1, <3>1
  <2>2. CASE u = r /\ y = m
    <3>1. Last(p) = o /\ w[p][x] = n
      BY <1>4, <1>6, <2>2
    <3> QED BY <1>1, <1>5, <2>2, <3>1
  <2>3. CASE ~(p = r /\ x = m) /\ ~(u = r /\ y = m)
    <3>1. w[p][x] = when[p][x] /\ w[u][y] = when[u][y]
      BY <1>4, <2>3
    <3>2. Last(p) = Last(u) /\ when[p][x] = when[u][y] /\ when[p][x] # 0
      BY <1>6, <3>1
    <3>3. \A a, c \in Routes : \A f, h \in Items :
            Last(a) = Last(c) /\ when[a][f] = when[c][h] /\ when[a][f] # 0 => a = c /\ f = h
      BY DEF Numbered
    <3> QED BY <3>2, <3>3
  <2> QED BY <2>1, <2>2, <2>3
<1>7. ASSUME NEW e \in Edges, NEW j \in 1..Len(t[e])
      PROVE  \E p \in Routes : Last(p) = e /\ w[p][t[e][j]] = gone[e] + j
  <2>1. CASE e = o /\ j = Len(q[o]) + 1
    <3>1. t[e][j] = m /\ gone[e] + j = n
      <4>1. t[e][j] = m
        BY <1>2, <1>3, <2>1
      <4>2. gone[o] + (Len(q[o]) + 1) = gone[o] + Len(q[o]) + 1
        BY <1>1
      <4> QED BY <1>1, <2>1, <4>1, <4>2
    <3> QED BY <1>4, <2>1, <3>1
  <2>2. CASE ~(e = o /\ j = Len(q[o]) + 1)
    <3>1. j \in 1..Len(q[e]) /\ t[e][j] = q[e][j]
      <4>1. CASE e = o
        <5>1. j \in 1..(Len(q[o]) + 1) /\ j # Len(q[o]) + 1
          BY <1>2, <1>3, <1>7, <2>2, <4>1
        <5>2. j \in 1..Len(q[o])
          BY <1>1, <5>1
        <5> QED BY <1>2, <1>3, <4>1, <5>2
      <4>2. CASE e # o
        BY <1>3, <1>7, <4>2
      <4> QED BY <4>1, <4>2
    <3>2. q[e][j] \in Items
      BY <3>1, ElementOfSeq
    <3>3. PICK p \in Routes : Last(p) = e /\ when[p][q[e][j]] = gone[e] + j
      BY <3>1 DEF Numbered
    <3>4. ~(p = r /\ q[e][j] = m)
      <4>1. gone[e] \in Nat /\ j \in Nat \ {0}
        BY <1>1, <1>7
      <4> QED BY <3>3, <4>1
    <3>5. w[p][q[e][j]] = when[p][q[e][j]]
      BY <1>4, <3>2, <3>4
    <3> QED BY <3>1, <3>3, <3>5
  <2> QED BY <2>1, <2>2
<1>8. Numbered(t, w, gone)
  BY <1>1, <1>4, <1>5, <1>6, <1>7 DEF Numbered
<1> QED BY <1>8 DEF t, w, n

(* A push drops at most one copy, and that from a DropOldest edge, before  *)
(* it adds its own, if it adds it.                                         *)
LEMMA PushNumbered ==
  ASSUME GraphTypeOK, NEW when, NEW gone, Numbered(queue, when, gone),
         NEW r \in Routes, NEW o \in Edges, Last(r) = o, NEW item \in Items, NEW b \in BOOLEAN,
         Push(o, item, b), when[r][item] = 0
  PROVE  \E w, g :
           /\ Numbered(queue', w, g)
           /\ g \in [Edges -> Nat]
           /\ \A e \in Edges : gone[e] <= g[e]
           /\ \A e \in Edges : e # o \/ policy[o] # "dropOldest" => g[e] = gone[e]
           /\ \A e \in Edges : e # o => queue'[e] = queue[e]
           /\ Rejects(o, b) =>
                w = when /\ g[o] + Len(queue'[o]) = gone[o] + Len(queue[o])
           /\ ~Rejects(o, b) =>
                /\ w = Put(when, r, item, gone[o] + Len(queue[o]) + 1)
                /\ g[o] + Len(queue'[o]) = gone[o] + Len(queue[o]) + 1
<1>1. /\ queue \in [Edges -> Seq(Items)] /\ queue[o] \in Seq(Items) /\ Len(queue[o]) \in Nat
      /\ gone \in [Edges -> Nat] /\ gone[o] \in Nat /\ Capacity[o] \in Nat \ {0}
  BY GraphAssumptions DEF GraphTypeOK, Numbered, GraphAssumptions
<1>2. PICK d \in {0, 1} :
        /\ Trimmed(o) \in Seq(Items) /\ Len(queue[o]) = d + Len(Trimmed(o))
        /\ \A j \in 1..Len(Trimmed(o)) : Trimmed(o)[j] = queue[o][d + j]
        /\ policy[o] # "dropOldest" => d = 0
  <2>1. CASE policy[o] = "dropOldest" /\ Full(o) /\ ~closed[o]
    <3>1. queue[o] # <<>> /\ Trimmed(o) = Tail(queue[o])
      BY <1>1, <2>1 DEF Full, Trimmed
    <3>2. /\ Tail(queue[o]) \in Seq(Items) /\ Len(Tail(queue[o])) = Len(queue[o]) - 1
          /\ \A j \in 1..Len(Tail(queue[o])) : Tail(queue[o])[j] = queue[o][j + 1]
      BY <1>1, <3>1, HeadTailProperties
    <3>3. /\ Len(queue[o]) = 1 + Len(Tail(queue[o]))
          /\ \A j \in 1..Len(Tail(queue[o])) : Tail(queue[o])[j] = queue[o][1 + j]
      BY <1>1, <3>2
    <3> QED BY <2>1, <3>1, <3>2, <3>3
  <2>2. CASE ~(policy[o] = "dropOldest" /\ Full(o) /\ ~closed[o])
    <3>1. Trimmed(o) = queue[o]
      BY <2>2 DEF Trimmed
    <3>2. Len(queue[o]) = 0 + Len(queue[o]) /\ \A j \in 1..Len(queue[o]) : j = 0 + j
      BY <1>1
    <3> QED BY <1>1, <3>1, <3>2
  <2> QED BY <2>1, <2>2
<1> DEFINE q == [queue EXCEPT ![o] = Trimmed(o)]
           g == [gone EXCEPT ![o] = gone[o] + d]
<1>3. Numbered(q, when, g)
  <2>1. d \in Nat
    OBVIOUS
  <2> QED BY <1>1, <1>2, <2>1, DropNumbered
<1>4. /\ q \in [Edges -> Seq(Items)] /\ q[o] = Trimmed(o) /\ g[o] = gone[o] + d
      /\ g \in [Edges -> Nat] /\ \A e \in Edges : e # o => g[e] = gone[e] /\ q[e] = queue[e]
  BY <1>1, <1>2
<1>5. /\ \A e \in Edges : gone[e] <= g[e]
      /\ \A e \in Edges : e # o \/ policy[o] # "dropOldest" => g[e] = gone[e]
      /\ g[o] + Len(q[o]) = gone[o] + Len(queue[o])
  <2>1. \A e \in Edges : gone[e] \in Nat
    BY <1>1
  <2>2. gone[o] <= g[o] /\ (policy[o] # "dropOldest" => g[o] = gone[o])
    BY <1>1, <1>2, <1>4
  <2>3. Len(Trimmed(o)) \in Nat
    BY <1>2
  <2>4. g[o] + Len(q[o]) = gone[o] + Len(queue[o])
    BY <1>1, <1>2, <1>4, <2>3
  <2> QED BY <1>4, <2>1, <2>2, <2>4
<1>6. CASE Rejects(o, b)
  <2>1. queue' = q
    BY <1>6 DEF Push
  <2> QED BY <1>3, <1>4, <1>5, <1>6, <2>1
<1>7. CASE ~Rejects(o, b)
  <2> DEFINE t == [q EXCEPT ![o] = Append(q[o], item)]
             w == Put(when, r, item, g[o] + Len(q[o]) + 1)
  <2>1. Numbered(t, w, g)
    BY <1>3, <1>4, PutNumbered
  <2>2. queue' = t
    <3>1. queue' = [queue EXCEPT ![o] = Append(Trimmed(o), item)]
      BY <1>7 DEF Push
    <3>2. t = [queue EXCEPT ![o] = Append(Trimmed(o), item)]
      BY <1>1, <1>4
    <3> QED BY <3>1, <3>2
  <2>3. /\ t[o] = Append(q[o], item) /\ Len(t[o]) = Len(q[o]) + 1
        /\ \A e \in Edges : e # o => t[e] = queue[e]
    BY <1>4, AppendProperties
  <2>4. /\ w = Put(when, r, item, gone[o] + Len(queue[o]) + 1)
        /\ g[o] + Len(queue'[o]) = gone[o] + Len(queue[o]) + 1
    <3>1. Len(q[o]) \in Nat /\ g[o] \in Nat
      BY <1>4
    <3>2. g[o] + Len(t[o]) = gone[o] + Len(queue[o]) + 1
      BY <1>1, <1>5, <2>3, <3>1
    <3> QED BY <1>5, <2>2, <3>2
  <2> QED BY <1>4, <1>5, <1>7, <2>1, <2>2, <2>3, <2>4
<1> QED BY <1>6, <1>7

-----------------------------------------------------------------------------
(* The steps that move no item.                                            *)
LEMMA HistoryStill ==
  ASSUME NEW when, NEW gone, NEW cur, History(when, gone, cur),
         UNCHANGED <<queue, held, left, fed, kind, policy>>,
         \A w \in Workers : at'[w] = at[w] \/ (at'[w] = "done" /\ at[w] # "push"),
         \A w \in Workers : at[w] = "done" => at'[w] = "done",
         \A e \in Edges : closed[e] => closed'[e],
         \A n \in Nodes : cancelled[n] => cancelled'[n],
         Quiet' => Quiet, stopped => stopped'
  PROVE  History(when, gone, cur)'
<1>1. Numbered(queue', when, gone)
  BY DEF History
<1>2. \A w \in Workers : at'[w] = "push" => at[w] = "push"
  OBVIOUS
<1>3. Followed(when, cur)'
  <2> SUFFICES ASSUME NEW p \in Routes, NEW o \in Edges, NEW m \in Items,
                      Append(p, o) \in Routes, when[Append(p, o)][m] # 0
               PROVE  /\ when[p][m] \in 1..cur[Last(p)]
                      /\ at'[Last(p)] = "push" /\ when[p][m] = cur[Last(p)] =>
                           o \notin ToSet(left'[Last(p)])
    BY DEF Followed
  <2>1. Last(p) \in Workers
    BY RouteStep
  <2>2. /\ when[p][m] \in 1..cur[Last(p)]
        /\ at[Last(p)] = "push" /\ when[p][m] = cur[Last(p)] => o \notin ToSet(left[Last(p)])
    BY DEF History, Followed
  <2> QED BY <1>2, <2>1, <2>2
<1>4. Holding(when, gone, cur)'
  BY <1>2 DEF History, Holding
<1>5. FedInTurn(when, gone)'
  BY DEF History, FedInTurn
<1>6. ASSUME Lossless' PROVE InTurn(when)' /\ PassedOn(when, gone, cur)' /\ Collected(gone)'
  <2>1. Lossless
    BY <1>6 DEF Lossless
  <2>2. InTurn(when)'
    BY <2>1 DEF History, InTurn
  <2>3. PassedOn(when, gone, cur)'
    <3> SUFFICES ASSUME NEW p \in Routes, NEW o \in Edges, NEW m \in Items,
                        Append(p, o) \in Routes, StillTakes(Last(p), o)',
                        when[p][m] \in 1..gone[Last(p)],
                        ~Owes(Last(p), o, when[p][m], cur)'
                 PROVE  when[Append(p, o)][m] # 0
      BY DEF PassedOn
    <3>1. Last(p) \in Workers /\ Consumer[Last(p)] \in Nodes
      BY RouteStep, NodeOfWorker
    <3>2. StillTakes(Last(p), o)
      BY <3>1 DEF StillTakes
    <3>3. ~Owes(Last(p), o, when[p][m], cur)
      BY <3>1 DEF Owes
    <3> QED BY <2>1, <3>2, <3>3 DEF History, PassedOn
  <2>4. Collected(gone)'
    <3>1. AllDone => AllDone'
      BY DEF AllDone, Done, WorkersOf
    <3>2. RootIn \in Edges
      BY EndsOfGraph
    <3> QED BY <2>1, <3>1, <3>2 DEF History, Collected
  <2> QED BY <2>2, <2>3, <2>4
<1> QED BY <1>1, <1>3, <1>4, <1>5, <1>6 DEF History

(* A worker takes a copy off its edge, to push it, to leave for good in a  *)
(* graph that is now cancelled, or, an operator, to do as it likes.        *)
LEMMA TakeKeepsHistory ==
  ASSUME GraphTypeOK, NEW when, NEW gone, NEW cur, History(when, gone, cur),
         NEW e \in Workers, Take(e), NEW to, at' = [at EXCEPT ![e] = to],
         to = "push" => held'[e] = Head(queue[e]) /\ left'[e] = Outputs[Consumer[e]],
         \A w \in Workers : w # e => held'[w] = held[w] /\ left'[w] = left[w],
         UNCHANGED <<closed, fed, kind, policy, stopped>>,
         \A n \in Nodes : cancelled[n] => cancelled'[n],
         Quiet' => Quiet,
         Lossless => to = "push" \/ (to = "exit" /\ ~Quiet')
  PROVE  \E w, g, c : History(w, g, c)'
<1>1. /\ e \in Edges /\ queue \in [Edges -> Seq(Items)] /\ queue[e] \in Seq(Items)
      /\ queue[e] # <<>> /\ at[e] = "loop" /\ queue' = [queue EXCEPT ![e] = Tail(queue[e])]
      /\ at \in [Workers -> {"loop", "push", "exit", "done"}]
  BY NodeOfWorker DEF Take, GraphTypeOK
<1>2. /\ when \in [Routes -> [Items -> Nat]] /\ gone \in [Edges -> Nat] /\ gone[e] \in Nat
      /\ cur \in [Workers -> Nat]
  BY <1>1 DEF History, Numbered, Holding
<1>3. /\ Tail(queue[e]) \in Seq(Items) /\ Len(queue[e]) = 1 + Len(Tail(queue[e]))
      /\ \A j \in 1..Len(Tail(queue[e])) : Tail(queue[e])[j] = queue[e][1 + j]
      /\ 1 \in 1..Len(queue[e]) /\ Head(queue[e]) = queue[e][1]
      /\ Len(Tail(queue[e])) \in Nat /\ Len(queue[e]) \in Nat
  <2>1. /\ Tail(queue[e]) \in Seq(Items) /\ Len(Tail(queue[e])) = Len(queue[e]) - 1
        /\ \A j \in 1..Len(Tail(queue[e])) : Tail(queue[e])[j] = queue[e][j + 1]
    BY <1>1, HeadTailProperties
  <2>2. Len(queue[e]) \in Nat \ {0}
    BY <1>1, EmptySeq
  <2>3. \A j \in 1..Len(Tail(queue[e])) : j + 1 = 1 + j
    BY <2>2, <2>1
  <2>4. 1 \in 1..Len(queue[e]) /\ Len(queue[e]) = 1 + (Len(queue[e]) - 1)
    BY <2>2
  <2> QED BY <1>1, <2>1, <2>2, <2>3, <2>4
<1>4. PICK g : g = [gone EXCEPT ![e] = gone[e] + 1]
  OBVIOUS
<1>5. PICK c : c = [cur EXCEPT ![e] = gone[e] + 1]
  OBVIOUS
<1>6. /\ g \in [Edges -> Nat] /\ c \in [Workers -> Nat]
      /\ g[e] = gone[e] + 1 /\ c[e] = gone[e] + 1
      /\ \A f \in Edges : f # e => g[f] = gone[f] /\ queue'[f] = queue[f]
      /\ \A w \in Workers : w # e => c[w] = cur[w]
      /\ \A w \in Workers : cur[w] <= gone[w] /\ w \in Edges
  BY <1>1, <1>2, <1>4, <1>5, NodeOfWorker DEF History, Holding
<1>7. /\ at'[e] = to /\ \A w \in Workers : w # e => at'[w] = at[w]
      /\ \A w \in Workers : w # e => held'[w] = held[w] /\ left'[w] = left[w]
  BY <1>1
<1>8. Numbered(queue', when, g)
  BY <1>1, <1>3, <1>4, DropNumbered DEF History
<1>9. Followed(when, c)'
  <2> SUFFICES ASSUME NEW p \in Routes, NEW o \in Edges, NEW m \in Items,
                      Append(p, o) \in Routes, when[Append(p, o)][m] # 0
               PROVE  /\ when[p][m] \in 1..c[Last(p)]
                      /\ at'[Last(p)] = "push" /\ when[p][m] = c[Last(p)] =>
                           o \notin ToSet(left'[Last(p)])
    BY DEF Followed
  <2>1. Last(p) \in Workers
    BY RouteStep
  <2>2. /\ when[p][m] \in 1..cur[Last(p)]
        /\ at[Last(p)] = "push" /\ when[p][m] = cur[Last(p)] => o \notin ToSet(left[Last(p)])
    BY DEF History, Followed
  <2>3. CASE Last(p) = e
    <3>1. cur[e] \in Nat /\ cur[e] <= gone[e] /\ when[p][m] \in 1..cur[e]
      BY <1>2, <1>6, <2>2, <2>3
    <3>2. when[p][m] \in 1..(gone[e] + 1) /\ when[p][m] # gone[e] + 1
      BY <1>2, <3>1
    <3> QED BY <1>6, <2>3, <3>2
  <2>4. CASE Last(p) # e
    BY <1>6, <1>7, <2>1, <2>2, <2>4
  <2> QED BY <2>3, <2>4
<1>10. Holding(when, g, c)'
  <2>1. ASSUME NEW w \in Workers PROVE c[w] <= g[w]
    <3>1. CASE w = e
      BY <1>2, <1>6, <3>1
    <3>2. CASE w # e
      BY <1>6, <3>2
    <3> QED BY <3>1, <3>2
  <2>2. ASSUME NEW w \in Workers, at'[w] = "push"
        PROVE  c[w] # 0 /\ \E p \in Routes : Last(p) = w /\ when[p][held'[w]] = c[w]
    <3>1. CASE w = e
      <4>1. \E p \in Routes : Last(p) = e /\ when[p][queue[e][1]] = gone[e] + 1
        BY <1>1, <1>3 DEF History, Numbered
      <4>2. held'[e] = queue[e][1] /\ c[e] = gone[e] + 1 /\ c[e] # 0
        BY <1>2, <1>3, <1>6, <1>7, <2>2, <3>1
      <4> QED BY <3>1, <4>1, <4>2
    <3>2. CASE w # e
      BY <1>6, <1>7, <2>2, <3>2 DEF History, Holding
    <3> QED BY <3>1, <3>2
  <2> QED BY <1>6, <2>1, <2>2 DEF Holding
<1>11. FedInTurn(when, g)'
  <2>1. g[RootIn] + Len(queue'[RootIn]) = gone[RootIn] + Len(queue[RootIn])
    <3>1. CASE RootIn = e
      <4>1. queue'[e] = Tail(queue[e])
        BY <1>1
      <4>2. (gone[e] + 1) + Len(Tail(queue[e])) = gone[e] + (1 + Len(Tail(queue[e])))
        BY <1>2, <1>3
      <4> QED BY <1>3, <1>6, <3>1, <4>1, <4>2
    <3>2. CASE RootIn # e
      BY <1>6, <3>2, EndsOfGraph
    <3> QED BY <3>1, <3>2
  <2> QED BY <2>1 DEF History, FedInTurn
<1>12. ASSUME Lossless' PROVE InTurn(when)' /\ PassedOn(when, g, c)' /\ Collected(g)'
  <2>1. Lossless
    BY <1>12 DEF Lossless
  <2>2. InTurn(when)'
    BY <2>1 DEF History, InTurn
  <2>3. PassedOn(when, g, c)'
    <3> SUFFICES ASSUME NEW p \in Routes, NEW o \in Edges, NEW m \in Items,
                        Append(p, o) \in Routes, StillTakes(Last(p), o)',
                        when[p][m] \in 1..g[Last(p)],
                        ~Owes(Last(p), o, when[p][m], c)'
                 PROVE  when[Append(p, o)][m] # 0
      BY DEF PassedOn
    <3>1. /\ Last(p) \in Workers /\ Consumer[Last(p)] \in Nodes
          /\ o \in ToSet(Outputs[Consumer[Last(p)]])
      BY RouteStep, NodeOfWorker
    <3>2. StillTakes(Last(p), o)
      BY <1>1, <1>7, <3>1 DEF StillTakes
    <3>3. when[p][m] \in 1..gone[Last(p)] /\ ~Owes(Last(p), o, when[p][m], cur)
      <4>1. CASE Last(p) = e
        <5>1. to = "push" /\ left'[e] = Outputs[Consumer[e]]
          BY <1>7, <2>1, <4>1 DEF StillTakes
        <5>2. when[p][m] # gone[e] + 1
          BY <1>6, <1>7, <3>1, <4>1, <5>1 DEF Owes
        <5>3. when[p][m] \in 1..(gone[e] + 1)
          BY <1>6, <4>1
        <5>4. when[p][m] \in 1..gone[e]
          BY <1>2, <5>2, <5>3, BelowTop
        <5> QED BY <1>1, <4>1, <5>4 DEF Owes
      <4>2. CASE Last(p) # e
        BY <1>6, <1>7, <3>1, <4>2 DEF Owes
      <4> QED BY <4>1, <4>2
    <3> QED BY <2>1, <3>2, <3>3 DEF History, PassedOn
  <2>4. Collected(g)'
    <3>1. ~AllDone
      BY <1>1, NodeOfWorker DEF AllDone, Done, WorkersOf
    <3>2. gone[RootOut] = 0
      BY <2>1, <3>1 DEF History, Collected
    <3> QED BY <1>6, <3>2, EndsOfGraph DEF Collected
  <2> QED BY <2>2, <2>3, <2>4
<1>13. History(when, g, c)'
  BY <1>8, <1>9, <1>10, <1>11, <1>12 DEF History
<1> QED BY <1>13

-----------------------------------------------------------------------------
(* In a quiet graph that may drop nothing, no push is turned away.         *)
LEMMA QuietPush ==
  ASSUME StreamInv, Lossless, Quiet, NEW e \in Workers, at[e] = "push",
         NEW o \in ToSet(Outputs[Consumer[e]])
  PROVE  ~closed[o] /\ ~cancelled[Consumer[e]]
<1>1. Consumer[e] \in Nodes
  BY NodeOfWorker
<1>2. ~cancelled[Consumer[e]]
  BY <1>1 DEF StreamInv, TokensQuiet, Lossless
<1>3. ~Done(Consumer[e])
  BY DEF Done, WorkersOf
<1> QED BY <1>1, <1>2, <1>3 DEF StreamInv, OutputsOpen

(* A worker pushes its copy to the first output it has left.               *)
LEMMA PushKeepsHistory ==
  ASSUME StreamInv, NoRepeats, NEW when, NEW gone, NEW cur, History(when, gone, cur),
         NEW e \in Workers, PushOne(e)
  PROVE  \E w, g, c : History(w, g, c)'
<1> DEFINE n == Consumer[e]
<1>0. PICK o, b, item : o = Head(left[e]) /\ b = cancelled[n] /\ item = held[e]
  OBVIOUS
<1> DEFINE top == gone[o] + Len(queue[o]) + 1
<1>1. /\ at[e] = "push" /\ Push(o, item, b)
      /\ left' = [left EXCEPT ![e] = Tail(@)]
      /\ held' = [held EXCEPT ![e] = IF Len(left[e]) = 1 THEN NoItem ELSE @]
      /\ at' = [at EXCEPT ![e] = IF kind[n] = "guard" /\ Rejects(o, b) THEN "exit"
                                 ELSE IF Len(left[e]) = 1 THEN NextRound(n) ELSE "push"]
      /\ UNCHANGED <<kind, policy, closed, rootCancelled, cancelled, stopped, started, call,
                     todo, fed>>
  BY <1>0 DEF PushOne, Goto, buildVars, tokenVars, runnerVars
<1>2. /\ GraphTypeOK /\ item \in Items /\ n \in Nodes /\ b \in BOOLEAN /\ e \in Edges
      /\ left[e] \in Seq(Edges) /\ left[e] # <<>>
      /\ \A i \in 1..Len(left[e]) : left[e][i] \in ToSet(Outputs[n])
      /\ at \in [Workers -> {"loop", "push", "exit", "done"}]
      /\ left \in [Workers -> Seq(Edges)]
      /\ held \in [Workers -> Items \cup {NoItem}]
  BY <1>0, <1>1, NodeOfWorker DEF StreamInv, GraphInv, GraphTypeOK, Pushing
<1>3. /\ 1 \in 1..Len(left[e]) /\ o = left[e][1] /\ Len(left[e]) \in Nat \ {0}
      /\ Len(Tail(left[e])) = Len(left[e]) - 1
      /\ \A i \in 1..Len(Tail(left[e])) : Tail(left[e])[i] = left[e][i + 1]
  <2>1. Len(left[e]) \in Nat \ {0}
    BY <1>0, <1>2, EmptySeq
  <2> QED BY <1>0, <1>2, <2>1, HeadTailProperties
<1>4. o \in ToSet(Outputs[n]) /\ o \in ToSet(left[e]) /\ o \in Edges /\ o # RootIn
  BY <1>0, <1>2, <1>3, EndsOfGraph, InToSet
<1>5. o \notin ToSet(Tail(left[e])) /\ ToSet(Tail(left[e])) \subseteq ToSet(left[e])
      /\ \A u \in ToSet(left[e]) : u # o => u \in ToSet(Tail(left[e])) /\ Len(left[e]) # 1
  <2>1. ASSUME NEW i \in 1..Len(Tail(left[e]))
        PROVE  i + 1 \in 1..Len(left[e]) /\ i + 1 # 1 /\ Tail(left[e])[i] = left[e][i + 1]
    BY <1>3
  <2>2. ASSUME NEW i \in 1..Len(Tail(left[e])) PROVE Tail(left[e])[i] # o
    BY <1>0, <1>1, <1>3, <2>1 DEF NoRepeats
  <2>3. ASSUME NEW i \in 1..Len(left[e]), left[e][i] # o
        PROVE  /\ i - 1 \in 1..Len(Tail(left[e])) /\ Tail(left[e])[i - 1] = left[e][i]
               /\ Len(left[e]) # 1
    <3>1. i # 1
      BY <1>0, <1>3, <2>3
    <3>2. i - 1 \in 1..(Len(left[e]) - 1) /\ (i - 1) + 1 = i /\ Len(left[e]) # 1
      BY <1>0, <1>3, <3>1, OneBelow
    <3> QED BY <1>0, <1>3, <3>2
  <2>4. Tail(left[e]) \in Seq(Edges)
    BY <1>2
  <2>5. o \notin ToSet(Tail(left[e]))
    BY <2>2, <2>4, InToSet
  <2>6. ToSet(Tail(left[e])) \subseteq ToSet(left[e])
    <3> SUFFICES ASSUME NEW u \in ToSet(Tail(left[e])) PROVE u \in ToSet(left[e])
      OBVIOUS
    <3>1. PICK i \in 1..Len(Tail(left[e])) : u = Tail(left[e])[i]
      BY <2>4, InToSet
    <3>2. i + 1 \in 1..Len(left[e]) /\ u = left[e][i + 1]
      BY <2>1, <3>1
    <3> QED BY <1>0, <1>2, <3>2, InToSet
  <2>7. ASSUME NEW u \in ToSet(left[e]), u # o
        PROVE  u \in ToSet(Tail(left[e])) /\ Len(left[e]) # 1
    <3>1. PICK i \in 1..Len(left[e]) : u = left[e][i]
      BY <1>0, <1>2, InToSet
    <3>2. /\ i - 1 \in 1..Len(Tail(left[e])) /\ Tail(left[e])[i - 1] = u
          /\ Len(left[e]) # 1
      BY <2>3, <2>7, <3>1
    <3> QED BY <2>4, <3>2, InToSet
  <2> QED BY <2>5, <2>6, <2>7
<1>6. /\ when \in [Routes -> [Items -> Nat]] /\ gone \in [Edges -> Nat] /\ cur \in [Workers -> Nat]
      /\ Numbered(queue, when, gone)
      /\ queue[o] \in Seq(Items) /\ Len(queue[o]) \in Nat /\ gone[o] \in Nat /\ top \in Nat
      /\ gone[o] < top /\ top # 0
  <2>1. /\ when \in [Routes -> [Items -> Nat]] /\ gone \in [Edges -> Nat]
        /\ cur \in [Workers -> Nat] /\ Numbered(queue, when, gone)
    BY DEF History, Numbered, Holding
  <2>2. queue[o] \in Seq(Items)
    BY <1>2, <1>4 DEF GraphTypeOK
  <2>3. Len(queue[o]) \in Nat /\ gone[o] \in Nat
    BY <1>4, <2>1, <2>2
  <2> QED BY <2>1, <2>2, <2>3
<1>7. PICK p \in Routes : Last(p) = e /\ when[p][item] = cur[e] /\ cur[e] # 0
  BY <1>0, <1>1 DEF History, Holding
<1>8. PICK r : r = Append(p, o)
  OBVIOUS
<1>9. r \in Routes /\ Last(r) = o /\ p # r
  <2>1. p \in Seq(Edges) /\ Len(r) = Len(p) + 1
    BY <1>4, <1>8, RouteTyped, AppendProperties
  <2>2. p # r
    BY <2>1
  <2> QED BY <1>4, <1>7, <1>8, <2>2, RouteStep
<1>10. when[r][item] = 0
  BY <1>0, <1>1, <1>2, <1>4, <1>7, <1>8, <1>9 DEF History, Followed
<1>11. PICK w, g :
         /\ Numbered(queue', w, g)
         /\ g \in [Edges -> Nat]
         /\ \A f \in Edges : gone[f] <= g[f]
         /\ \A f \in Edges : f # o \/ policy[o] # "dropOldest" => g[f] = gone[f]
         /\ \A f \in Edges : f # o => queue'[f] = queue[f]
         /\ Rejects(o, b) =>
              w = when /\ g[o] + Len(queue'[o]) = gone[o] + Len(queue[o])
         /\ ~Rejects(o, b) =>
              /\ w = Put(when, r, item, gone[o] + Len(queue[o]) + 1)
              /\ g[o] + Len(queue'[o]) = gone[o] + Len(queue[o]) + 1
  <2>1. /\ GraphTypeOK /\ Numbered(queue, when, gone) /\ o \in Edges /\ r \in Routes
        /\ Last(r) = o /\ item \in Items /\ b \in BOOLEAN /\ Push(o, item, b)
        /\ when[r][item] = 0
    BY <1>0, <1>1, <1>2, <1>4, <1>6, <1>9, <1>10
  <2> QED BY <2>1, PushNumbered
<1> HIDE DEF top
<1>12. /\ \A q \in Routes, m \in Items : q # r \/ m # item => w[q][m] = when[q][m]
       /\ w[r][item] = IF Rejects(o, b) THEN 0 ELSE top
       /\ w[p][item] = cur[e]
  <2>1. CASE Rejects(o, b)
    BY <1>0, <1>7, <1>10, <1>11, <2>1
  <2>2. CASE ~Rejects(o, b)
    <3>1. w = Put(when, r, item, top)
      BY <1>11, <2>2 DEF top
    <3>2. /\ Put(when, r, item, top)[r][item] = top
          /\ \A q \in Routes, m \in Items :
               Put(when, r, item, top)[q][m] = IF q = r /\ m = item THEN top ELSE when[q][m]
      BY <1>0, <1>2, <1>6, <1>9 DEF Put
    <3> QED BY <1>0, <1>2, <1>7, <1>9, <2>2, <3>1, <3>2
  <2> QED BY <2>1, <2>2
<1>13. /\ at'[e] = IF kind[n] = "guard" /\ Rejects(o, b) THEN "exit"
                   ELSE IF Len(left[e]) = 1 THEN NextRound(n) ELSE "push"
       /\ left'[e] = Tail(left[e])
       /\ Len(left[e]) # 1 => held'[e] = held[e]
       /\ \A v \in Workers : v # e => at'[v] = at[v] /\ left'[v] = left[v] /\ held'[v] = held[v]
  BY <1>0, <1>1, <1>2
<1>14. at'[e] = "push" => held'[e] = held[e]
  BY <1>13 DEF NextRound
<1>15. Followed(w, cur)'
  <2> SUFFICES ASSUME NEW q \in Routes, NEW u \in Edges, NEW m \in Items,
                      Append(q, u) \in Routes, w[Append(q, u)][m] # 0
               PROVE  /\ w[q][m] \in 1..cur[Last(q)]
                      /\ at'[Last(q)] = "push" /\ w[q][m] = cur[Last(q)] =>
                           u \notin ToSet(left'[Last(q)])
    BY DEF Followed
  <2>1. Last(q) \in Workers /\ cur[Last(q)] \in Nat
    BY <1>6, RouteStep
  <2>2. CASE Append(q, u) = r /\ m = item
    <3>1. q = p /\ u = o
      BY <1>4, <1>8, <2>2, RouteUnique
    <3>2. w[q][m] = cur[e] /\ cur[e] \in 1..cur[e] /\ Last(q) = e
      BY <1>0, <1>7, <1>12, <2>1, <2>2, <3>1
    <3> QED BY <1>5, <1>13, <3>1, <3>2
  <2>3. CASE ~(Append(q, u) = r /\ m = item)
    <3>1. when[Append(q, u)][m] # 0
      BY <1>12, <2>3
    <3>2. /\ when[q][m] \in 1..cur[Last(q)]
          /\ at[Last(q)] = "push" /\ when[q][m] = cur[Last(q)] => u \notin ToSet(left[Last(q)])
      BY <3>1 DEF History, Followed
    <3>3. w[q][m] = when[q][m]
      <4>1. ~(q = r /\ m = item)
        BY <1>10, <2>1, <3>2
      <4> QED BY <1>12, <4>1
    <3>4. CASE Last(q) = e
      BY <1>0, <1>1, <1>5, <1>13, <3>2, <3>3, <3>4
    <3>5. CASE Last(q) # e
      BY <1>13, <2>1, <3>2, <3>3, <3>5
    <3> QED BY <3>4, <3>5
  <2> QED BY <2>2, <2>3
<1>16. Holding(w, g, cur)'
  <2>1. ASSUME NEW v \in Workers PROVE cur[v] <= g[v]
    <3>1. v \in Edges /\ cur[v] <= gone[v] /\ gone[v] <= g[v]
      BY <1>11, NodeOfWorker DEF History, Holding
    <3>2. cur[v] \in Nat /\ gone[v] \in Nat /\ g[v] \in Nat
      BY <1>6, <1>11, <3>1
    <3> QED BY <3>1, <3>2
  <2>2. ASSUME NEW v \in Workers, at'[v] = "push"
        PROVE  cur[v] # 0 /\ \E q \in Routes : Last(q) = v /\ w[q][held'[v]] = cur[v]
    <3>1. CASE v = e
      BY <1>0, <1>7, <1>12, <1>14, <2>2, <3>1
    <3>2. CASE v # e
      <4>1. at[v] = "push" /\ held'[v] = held[v] /\ held[v] \in Items
        BY <1>13, <2>2, <3>2 DEF StreamInv, GraphInv, Pushing
      <4>2. PICK q \in Routes : Last(q) = v /\ when[q][held[v]] = cur[v] /\ cur[v] # 0
        BY <4>1 DEF History, Holding
      <4>3. w[q][held[v]] = when[q][held[v]]
        BY <1>10, <1>12, <4>1, <4>2
      <4> QED BY <4>1, <4>2, <4>3
    <3> QED BY <3>1, <3>2
  <2> QED BY <1>6, <2>1, <2>2 DEF Holding
<1>17. FedInTurn(w, g)'
  <2>1. <<RootIn>> \in Routes /\ <<RootIn>> # r
    BY <1>4, <1>9, RootRoute
  <2> QED BY <1>0, <1>1, <1>4, <1>11, <1>12, <2>1, EndsOfGraph DEF History, FedInTurn
<1>18. ASSUME Lossless'
       PROVE  InTurn(w)' /\ PassedOn(w, g, cur)' /\ Collected(g)'
  <2>1. Lossless
    BY <1>0, <1>1, <1>18 DEF Lossless
  <2>2. /\ policy[o] = "block" /\ g = gone
        /\ Rejects(o, b) => closed[o] \/ b
        /\ ~Rejects(o, b) => ~closed[o] /\ ~b
        /\ Quiet => ~Rejects(o, b)
    <3>1. policy[o] = "block" /\ \A f \in Edges : g[f] = gone[f]
      BY <1>4, <1>11, <2>1 DEF Lossless
    <3>2. g = gone
      BY <1>6, <1>11, <3>1
    <3>3. ~Blocks(o, b)
      BY <1>0, <1>1 DEF Push
    <3>4. (Rejects(o, b) => closed[o] \/ b) /\ (~Rejects(o, b) => ~closed[o] /\ ~b)
      BY <3>1, <3>3 DEF Rejects, Blocks
    <3>5. Quiet => ~closed[o] /\ ~b
      BY <1>0, <1>1, <1>4, <2>1, QuietPush
    <3> QED BY <3>1, <3>2, <3>4, <3>5
  <2>3. InTurn(w)'
    <3> SUFFICES ASSUME NEW q \in Routes, NEW m \in Items, m > 1, w[q][m] # 0
                 PROVE  m - 1 \in Items /\ w[q][m - 1] \in 1..(w[q][m] - 1)
      BY DEF InTurn
    <3>1. CASE q = r /\ m = item
      <4>1. ~Rejects(o, b) /\ w[r][item] = top
        BY <1>12, <3>1
      <4>2. m - 1 \in Items /\ when[p][m - 1] \in 1..(cur[e] - 1)
        BY <1>0, <1>7, <2>1, <3>1 DEF History, InTurn
      <4>3. /\ cur[e] \in Nat /\ gone[e] \in Nat /\ cur[e] <= gone[e] /\ m - 1 # m
        BY <1>0, <1>2, <1>6 DEF History, Holding, Items
      <4>4. when[p][m - 1] \in 1..gone[e] /\ when[p][m - 1] # cur[e]
        BY <4>2, <4>3
      <4>5. StillTakes(e, o) /\ ~Owes(e, o, when[p][m - 1], cur)
        BY <1>0, <1>1, <2>2, <4>1, <4>4 DEF StillTakes, Owes
      <4>6. when[r][m - 1] # 0
        BY <1>4, <1>7, <1>8, <1>9, <2>1, <4>2, <4>4, <4>5 DEF History, PassedOn
      <4>7. when[r][m - 1] <= gone[o] + Len(queue[o]) /\ when[r][m - 1] \in Nat
        BY <1>6, <1>9, <4>2 DEF Numbered
      <4>8. w[r][m - 1] = when[r][m - 1]
        BY <1>9, <1>12, <3>1, <4>2, <4>3
      <4>9. when[r][m - 1] \in 1..(top - 1)
        <5>1. gone[o] + Len(queue[o]) \in Nat /\ top - 1 = gone[o] + Len(queue[o])
          BY <1>6 DEF top
        <5> QED BY <4>6, <4>7, <5>1
      <4> QED BY <3>1, <4>1, <4>2, <4>8, <4>9
    <3>2. CASE ~(q = r /\ m = item)
      <4>1. w[q][m] = when[q][m]
        BY <1>12, <3>2
      <4>2. m - 1 \in Items /\ when[q][m - 1] \in 1..(when[q][m] - 1)
        BY <2>1, <4>1 DEF History, InTurn
      <4>3. ~(q = r /\ m - 1 = item)
        BY <1>10, <4>2
      <4> QED BY <1>12, <4>1, <4>2, <4>3
    <3> QED BY <3>1, <3>2
  <2>4. PassedOn(w, g, cur)'
    <3> SUFFICES ASSUME NEW q \in Routes, NEW u \in Edges, NEW m \in Items,
                        Append(q, u) \in Routes, StillTakes(Last(q), u)',
                        w[q][m] \in 1..g[Last(q)],
                        ~Owes(Last(q), u, w[q][m], cur)'
                 PROVE  w[Append(q, u)][m] # 0
      BY DEF PassedOn
    <3>1. Last(q) \in Workers /\ Last(q) \in Edges
      BY RouteStep, NodeOfWorker
    <3>2. w[q][m] = when[q][m] /\ when[q][m] \in 1..gone[Last(q)]
      <4>1. CASE q = r /\ m = item
        <5>1. w[q][m] \in 1..gone[o]
          BY <1>9, <2>2, <4>1
        <5> QED BY <1>6, <1>12, <4>1, <5>1
      <4>2. CASE ~(q = r /\ m = item)
        BY <1>12, <2>2, <4>2
      <4> QED BY <4>1, <4>2
    <3>3. StillTakes(Last(q), u)
      BY <1>0, <1>1, <1>13, <3>1 DEF StillTakes, Quiet
    <3>4. when[Append(q, u)][m] # 0 => w[Append(q, u)][m] # 0
      BY <1>10, <1>12
    <3>5. CASE ~Owes(Last(q), u, when[q][m], cur)
      <4>1. when[Append(q, u)][m] # 0
        BY <2>1, <3>2, <3>3, <3>5 DEF History, PassedOn
      <4> QED BY <3>4, <4>1
    <3>6. CASE Owes(Last(q), u, when[q][m], cur)
      <4>1. Last(q) = e
        BY <1>13, <3>1, <3>2, <3>6 DEF Owes
      <4>2. q = p /\ m = item
        BY <1>0, <1>2, <1>6, <1>7, <3>6, <4>1 DEF Owes, Numbered
      <4>3. u \in ToSet(left[e])
        BY <3>6, <4>1 DEF Owes
      <4>4. CASE ~Rejects(o, b)
        <5>1. u = o
          <6>1. ~(at'[e] = "push" /\ u \in ToSet(Tail(left[e])))
            BY <1>13, <3>2, <3>6, <4>1 DEF Owes
          <6>2. u # o => at'[e] = "push"
            BY <1>5, <1>13, <4>3, <4>4
          <6> QED BY <1>5, <4>3, <6>1, <6>2
        <5> QED BY <1>6, <1>8, <1>12, <4>2, <4>4, <5>1
      <4>5. CASE Rejects(o, b)
        <5>1. ~Quiet'
          BY <1>0, <1>1, <2>2, <4>5 DEF Quiet
        <5>2. at'[e] \in {"loop", "push"} /\ ~closed[u] /\ ~b
          BY <1>0, <1>1, <3>3, <4>1, <5>1 DEF StillTakes
        <5>3. closed[o] /\ u # o
          BY <2>2, <4>5, <5>2
        <5>4. u \in ToSet(Tail(left[e])) /\ Len(left[e]) # 1
          BY <1>5, <4>3, <5>3
        <5>5. at'[e] = "push"
          BY <1>13, <5>2, <5>4
        <5> QED BY <1>13, <3>2, <3>6, <4>1, <5>4, <5>5 DEF Owes
      <4> QED BY <4>4, <4>5
    <3> QED BY <3>5, <3>6
  <2>5. Collected(g)'
    <3>1. ~AllDone
      BY <1>0, <1>1, NodeOfWorker DEF AllDone, Done, WorkersOf
    <3> QED BY <2>1, <2>2, <3>1 DEF History, Collected
  <2> QED BY <2>3, <2>4, <2>5
<1>19. History(w, g, cur)'
  BY <1>11, <1>15, <1>16, <1>17, <1>18 DEF History
<1> QED BY <1>19

-----------------------------------------------------------------------------
(* feed() starts a copy on its way, numbered as its item is.               *)
LEMMA FeedKeepsHistory ==
  ASSUME StreamInv, NEW when, NEW gone, NEW cur, History(when, gone, cur),
         NEW cl \in Callers, FeedPush(cl)
  PROVE  \E w, g, c : History(w, g, c)'
<1>0. PICK o, b, item, r : o = RootIn /\ b = rootCancelled /\ item = fed + 1 /\ r = <<RootIn>>
  OBVIOUS
<1>1. /\ Push(o, item, b) /\ fed < MaxItems
      /\ fed' = IF Rejects(o, b) THEN fed ELSE fed + 1
      /\ UNCHANGED <<kind, policy, closed, rootCancelled, cancelled, at, held, left, stopped>>
  BY <1>0 DEF FeedPush, buildVars, tokenVars, workerVars
<1>2. /\ GraphTypeOK /\ item \in Items /\ b \in BOOLEAN /\ fed \in Nat /\ o \in Edges
      /\ item = fed + 1 /\ Items \subseteq Nat
  BY <1>0, <1>1, GraphAssumptions, EndsOfGraph
     DEF StreamInv, GraphInv, GraphTypeOK, GraphAssumptions, Items
<1>3. /\ r \in Routes /\ Last(r) = o /\ \A p \in Routes : Last(p) = o => p = r
  BY <1>0, RootRoute
<1>4. /\ when \in [Routes -> [Items -> Nat]] /\ gone \in [Edges -> Nat]
      /\ cur \in [Workers -> Nat] /\ Numbered(queue, when, gone)
      /\ \A w \in Workers : cur[w] <= gone[w]
      /\ \A m \in Items : when[r][m] = IF m <= fed THEN m ELSE 0
      /\ gone[o] + Len(queue[o]) = fed
  BY <1>0 DEF History, Numbered, Holding, FedInTurn
<1>5. when[r][item] = 0 /\ gone[o] \in Nat /\ queue[o] \in Seq(Items) /\ Len(queue[o]) \in Nat
  <2>1. queue[o] \in Seq(Items)
    BY <1>2 DEF GraphTypeOK
  <2>2. Len(queue[o]) \in Nat
    BY <2>1
  <2>3. ~(fed + 1 <= fed)
    BY <1>2
  <2> QED BY <1>2, <1>4, <2>1, <2>2, <2>3
<1>6. PICK w, g :
         /\ Numbered(queue', w, g)
         /\ g \in [Edges -> Nat]
         /\ \A f \in Edges : gone[f] <= g[f]
         /\ \A f \in Edges : f # o \/ policy[o] # "dropOldest" => g[f] = gone[f]
         /\ \A f \in Edges : f # o => queue'[f] = queue[f]
         /\ Rejects(o, b) =>
              w = when /\ g[o] + Len(queue'[o]) = gone[o] + Len(queue[o])
         /\ ~Rejects(o, b) =>
              /\ w = Put(when, r, item, gone[o] + Len(queue[o]) + 1)
              /\ g[o] + Len(queue'[o]) = gone[o] + Len(queue[o]) + 1
  <2>1. /\ GraphTypeOK /\ Numbered(queue, when, gone) /\ o \in Edges /\ r \in Routes
        /\ Last(r) = o /\ item \in Items /\ b \in BOOLEAN /\ Push(o, item, b)
        /\ when[r][item] = 0
    BY <1>1, <1>2, <1>3, <1>4, <1>5
  <2> QED BY <2>1, PushNumbered
<1>7. /\ \A q \in Routes, m \in Items : q # r \/ m # item => w[q][m] = when[q][m]
      /\ w[r][item] = IF Rejects(o, b) THEN 0 ELSE fed + 1
  <2>1. CASE Rejects(o, b)
    BY <1>5, <1>6, <2>1
  <2>2. CASE ~Rejects(o, b)
    <3>1. w = Put(when, r, item, fed + 1)
      BY <1>4, <1>6, <2>2
    <3> QED BY <1>2, <1>3, <2>2, <3>1 DEF Put
  <2> QED BY <2>1, <2>2
<1>8. Followed(w, cur)'
  <2> SUFFICES ASSUME NEW q \in Routes, NEW u \in Edges, NEW m \in Items,
                      Append(q, u) \in Routes, w[Append(q, u)][m] # 0
               PROVE  /\ w[q][m] \in 1..cur[Last(q)]
                      /\ at'[Last(q)] = "push" /\ w[q][m] = cur[Last(q)] =>
                           u \notin ToSet(left'[Last(q)])
    BY DEF Followed
  <2>1. Last(q) \in Workers /\ cur[Last(q)] \in Nat /\ Append(q, u) # r
    <3>1. Last(q) \in Workers /\ u \in ToSet(Outputs[Consumer[Last(q)]]) /\ Last(Append(q, u)) = u
      BY RouteStep
    <3> QED BY <1>0, <1>3, <1>4, <3>1, EndsOfGraph
  <2>2. when[Append(q, u)][m] # 0
    BY <1>7, <2>1
  <2>3. /\ when[q][m] \in 1..cur[Last(q)]
        /\ at[Last(q)] = "push" /\ when[q][m] = cur[Last(q)] => u \notin ToSet(left[Last(q)])
    BY <2>2 DEF History, Followed
  <2>4. w[q][m] = when[q][m]
    <3>1. ~(q = r /\ m = item)
      BY <1>5, <2>1, <2>3
    <3> QED BY <1>7, <3>1
  <2> QED BY <1>1, <2>3, <2>4
<1>9. Holding(w, g, cur)'
  <2>1. ASSUME NEW v \in Workers PROVE cur[v] <= g[v]
    <3>1. v \in Edges /\ cur[v] <= gone[v] /\ gone[v] <= g[v]
      BY <1>4, <1>6, NodeOfWorker
    <3>2. cur[v] \in Nat /\ gone[v] \in Nat /\ g[v] \in Nat
      BY <1>4, <1>6, <3>1
    <3> QED BY <3>1, <3>2
  <2>2. ASSUME NEW v \in Workers, at'[v] = "push"
        PROVE  cur[v] # 0 /\ \E q \in Routes : Last(q) = v /\ w[q][held'[v]] = cur[v]
    <3>1. at[v] = "push" /\ held'[v] = held[v] /\ held[v] \in Items
      BY <1>1, <2>2 DEF StreamInv, GraphInv, Pushing
    <3>2. PICK q \in Routes : Last(q) = v /\ when[q][held[v]] = cur[v] /\ cur[v] # 0
      BY <3>1 DEF History, Holding
    <3>3. w[q][held[v]] = when[q][held[v]]
      BY <1>5, <1>7, <3>1, <3>2
    <3> QED BY <3>1, <3>2, <3>3
  <2> QED BY <1>4, <2>1, <2>2 DEF Holding
<1>10. FedInTurn(w, g)'
  <2>1. ASSUME NEW m \in Items PROVE w[r][m] = IF m <= fed' THEN m ELSE 0
    <3>1. CASE m = item
      BY <1>1, <1>2, <1>7, <3>1
    <3>2. CASE m # item
      <4>1. w[r][m] = IF m <= fed THEN m ELSE 0
        BY <1>3, <1>4, <1>7, <3>2
      <4>2. m <= fed' <=> m <= fed
        BY <1>1, <1>2, <3>2
      <4> QED BY <4>1, <4>2
    <3> QED BY <3>1, <3>2
  <2>2. g[o] + Len(queue'[o]) = fed'
    BY <1>1, <1>2, <1>4, <1>6
  <2> QED BY <1>0, <2>1, <2>2 DEF FedInTurn
<1>11. ASSUME Lossless'
       PROVE  InTurn(w)' /\ PassedOn(w, g, cur)' /\ Collected(g)'
  <2>1. Lossless
    BY <1>1, <1>11 DEF Lossless
  <2>2. g = gone
    <3>1. \A f \in Edges : g[f] = gone[f]
      BY <1>2, <1>6, <2>1 DEF Lossless
    <3> QED BY <1>4, <1>6, <3>1
  <2>3. InTurn(w)'
    <3> SUFFICES ASSUME NEW q \in Routes, NEW m \in Items, m > 1, w[q][m] # 0
                 PROVE  m - 1 \in Items /\ w[q][m - 1] \in 1..(w[q][m] - 1)
      BY DEF InTurn
    <3>1. CASE q = r /\ m = item
      <4>1. w[q][m] = fed + 1 /\ m - 1 = fed /\ fed >= 1
        BY <1>2, <1>7, <3>1
      <4>2. fed \in Items /\ fed # item
        <5>1. MaxItems \in Nat /\ fed < MaxItems /\ fed \in Nat /\ fed >= 1 /\ item = fed + 1
          BY <1>1, <1>2, <4>1, GraphAssumptions DEF GraphAssumptions
        <5> QED BY <5>1 DEF Items
      <4>3. w[r][fed] = fed
        BY <1>2, <1>3, <1>4, <1>7, <4>2
      <4>4. fed \in 1..((fed + 1) - 1)
        BY <1>2, <4>1
      <4> QED BY <3>1, <4>1, <4>2, <4>3, <4>4
    <3>2. CASE ~(q = r /\ m = item)
      <4>1. w[q][m] = when[q][m]
        BY <1>7, <3>2
      <4>2. m - 1 \in Items /\ when[q][m - 1] \in 1..(when[q][m] - 1)
        BY <2>1, <4>1 DEF History, InTurn
      <4>3. ~(q = r /\ m - 1 = item)
        BY <1>5, <4>2
      <4> QED BY <1>7, <4>1, <4>2, <4>3
    <3> QED BY <3>1, <3>2
  <2>4. PassedOn(w, g, cur)'
    <3> SUFFICES ASSUME NEW q \in Routes, NEW u \in Edges, NEW m \in Items,
                        Append(q, u) \in Routes, StillTakes(Last(q), u)',
                        w[q][m] \in 1..g[Last(q)],
                        ~Owes(Last(q), u, w[q][m], cur)'
                 PROVE  w[Append(q, u)][m] # 0
      BY DEF PassedOn
    <3>1. ~(q = r /\ m = item)
      <4> SUFFICES ASSUME q = r, m = item PROVE FALSE
        OBVIOUS
      <4>1. w[r][item] \in 1..gone[o] /\ gone[o] <= fed
        BY <1>3, <1>4, <1>5, <2>2
      <4> QED BY <1>2, <1>5, <1>7, <4>1
    <3>2. w[q][m] = when[q][m] /\ when[q][m] \in 1..gone[Last(q)]
      BY <1>7, <2>2, <3>1
    <3>3. StillTakes(Last(q), u) /\ ~Owes(Last(q), u, when[q][m], cur)
      BY <1>1, <3>2 DEF StillTakes, Quiet, Owes
    <3>4. when[Append(q, u)][m] # 0
      BY <2>1, <3>2, <3>3 DEF History, PassedOn
    <3> QED BY <1>5, <1>7, <3>4
  <2>5. Collected(g)'
    <3>1. CASE gone[RootOut] = 0
      BY <2>2, <3>1 DEF Collected
    <3>2. CASE stopped /\ queue[RootOut] = <<>> /\ AllDone /\ closed[RootIn]
      <4>1. queue'[RootOut] = queue[RootOut]
        BY <1>0, <1>1, <1>2, <1>6, <3>2, EndsOfGraph, PushSparesClosed
      <4>2. AllDone'
        BY <1>1, <3>2 DEF AllDone, Done, WorkersOf
      <4> QED BY <1>1, <3>2, <4>1, <4>2 DEF Collected
    <3> QED BY <2>1, <3>1, <3>2 DEF History, Collected
  <2> QED BY <2>3, <2>4, <2>5
<1>12. History(w, g, cur)'
  BY <1>6, <1>8, <1>9, <1>10, <1>11 DEF History
<1> QED BY <1>12

(* wait() empties the root output when every node is joined.               *)
LEMMA WaitKeepsHistory ==
  ASSUME StreamInv, WaitersJoined, NEW when, NEW gone, NEW cur, History(when, gone, cur),
         NEW cl \in Callers, WaitReturns(cl)
  PROVE  \E w, g, c : History(w, g, c)'
<1>1. /\ queue' = [queue EXCEPT ![RootOut] = <<>>]
      /\ rootCancelled' = TRUE /\ stopped' = TRUE /\ call[cl] = "waiting" /\ todo[cl] = <<>>
      /\ UNCHANGED <<kind, policy, closed, cancelled, at, held, left, fed>>
  BY DEF WaitReturns, buildVars, workerVars
<1>2. /\ queue \in [Edges -> Seq(Items)] /\ RootOut \in Edges /\ RootOut \notin Workers
      /\ RootIn \in Edges /\ queue[RootOut] \in Seq(Items) /\ <<>> \in Seq(Items)
      /\ Len(queue[RootOut]) \in Nat /\ Len(<<>>) = 0
  <2>1. queue[RootOut] \in Seq(Items)
    BY EndsOfGraph DEF StreamInv, GraphInv, GraphTypeOK
  <2>2. Len(queue[RootOut]) \in Nat
    BY <2>1
  <2> QED BY <2>1, <2>2, EndsOfGraph DEF StreamInv, GraphInv, GraphTypeOK
<1>3. gone \in [Edges -> Nat] /\ gone[RootOut] \in Nat
  BY <1>2 DEF History, Numbered
<1>4. PICK g : g = [gone EXCEPT ![RootOut] = gone[RootOut] + Len(queue[RootOut])]
  OBVIOUS
<1>5. /\ Numbered(queue', when, g)
      /\ \A f \in Edges : f # RootOut => g[f] = gone[f] /\ queue'[f] = queue[f]
      /\ queue'[RootOut] = <<>> /\ g[RootOut] = gone[RootOut] + Len(queue[RootOut])
      /\ \A w \in Workers : g[w] = gone[w]
  <2>1. Len(queue[RootOut]) = Len(queue[RootOut]) + Len(<<>>)
    BY <1>2
  <2>2. \A j \in 1..Len(<<>>) : <<>>[j] = queue[RootOut][Len(queue[RootOut]) + j]
    BY <1>2
  <2>3. Numbered([queue EXCEPT ![RootOut] = <<>>], when,
                 [gone EXCEPT ![RootOut] = gone[RootOut] + Len(queue[RootOut])])
    BY <1>2, <2>1, <2>2, DropNumbered DEF History
  <2> QED BY <1>1, <1>2, <1>3, <1>4, <2>3, NodeOfWorker
<1>6. Followed(when, cur)'
  BY <1>1 DEF History, Followed
<1>7. Holding(when, g, cur)'
  BY <1>1, <1>5 DEF History, Holding
<1>8. FedInTurn(when, g)'
  <2>1. g[RootIn] + Len(queue'[RootIn]) = gone[RootIn] + Len(queue[RootIn])
    <3>1. CASE RootIn = RootOut
      <4>1. gone[RootOut] + Len(queue[RootOut]) + 0 = gone[RootOut] + Len(queue[RootOut])
        BY <1>2, <1>3
      <4> QED BY <1>2, <1>5, <3>1, <4>1
    <3>2. CASE RootIn # RootOut
      BY <1>2, <1>5, <3>2
    <3> QED BY <3>1, <3>2
  <2> QED BY <1>1, <2>1 DEF History, FedInTurn
<1>9. ASSUME Lossless'
      PROVE  InTurn(when)' /\ PassedOn(when, g, cur)' /\ Collected(g)'
  <2>1. Lossless
    BY <1>1, <1>9 DEF Lossless
  <2>2. InTurn(when)'
    BY <2>1 DEF History, InTurn
  <2>3. PassedOn(when, g, cur)'
    <3> SUFFICES ASSUME NEW p \in Routes, NEW o \in Edges, NEW m \in Items,
                        Append(p, o) \in Routes, StillTakes(Last(p), o)',
                        when[p][m] \in 1..g[Last(p)],
                        ~Owes(Last(p), o, when[p][m], cur)'
                 PROVE  when[Append(p, o)][m] # 0
      BY DEF PassedOn
    <3>1. when[p][m] \in 1..gone[Last(p)]
      BY <1>5, RouteStep
    <3>2. StillTakes(Last(p), o) /\ ~Owes(Last(p), o, when[p][m], cur)
      BY <1>1 DEF StillTakes, Quiet, Owes
    <3> QED BY <2>1, <3>1, <3>2 DEF History, PassedOn
  <2>4. Collected(g)'
    <3>1. \A n \in Nodes : n \notin ToSet(todo[cl])
      <4>1. ToSet(<<>>) = {}
        BY DEF ToSet
      <4> QED BY <1>1, <4>1
    <3>2. AllDone' /\ closed'[RootIn]
      BY <1>1, <3>1 DEF WaitersJoined, AllDone, Done, WorkersOf
    <3> QED BY <1>1, <1>5, <3>2 DEF Collected
  <2> QED BY <2>2, <2>3, <2>4
<1>10. History(when, g, cur)'
  BY <1>5, <1>6, <1>7, <1>8, <1>9 DEF History
<1> QED BY <1>10

-----------------------------------------------------------------------------
(* What every step keeps.                                                  *)
LEMMA StepsOnly ==
  ASSUME StreamInv, [GraphNext]_vars
  PROVE  /\ \A e \in Edges : closed[e] => closed'[e]
         /\ \A w \in Workers : at[w] = "done" => at'[w] = "done"
         /\ \A n \in Nodes : cancelled[n] => cancelled'[n]
         /\ Quiet' => Quiet
         /\ stopped => stopped'
         /\ kind' = kind /\ policy' = policy
<1> USE DEF buildVars, edgeVars, tokenVars, workerVars, runnerVars, Goto, Take
<1>1. GraphTypeOK
  BY DEF StreamInv, GraphInv
<1>2. ASSUME NEW e \in Workers, WorkerStep(e)
      PROVE  /\ \A f \in Edges : closed[f] => closed'[f]
             /\ \A w \in Workers : at[w] = "done" => at'[w] = "done"
             /\ \A n \in Nodes : cancelled[n] => cancelled'[n]
             /\ (rootCancelled => rootCancelled') /\ stopped' = stopped
             /\ kind' = kind /\ policy' = policy
  <2>1. CASE PopToPush(e) \/ PopViolation(e) \/ OperatorAbsorbs(e) \/ PushOne(e)
    BY <1>1, <2>1 DEF PopToPush, PopViolation, OperatorAbsorbs, PushOne, GraphTypeOK
  <2>2. CASE OperatorFails(e)
    BY <1>1, <2>2, NodeOfWorker DEF OperatorFails, GraphTypeOK
  <2>3. CASE Exit(e)
    BY <1>1, <2>3 DEF Exit, ClosedAnd, GraphTypeOK
  <2> QED BY <1>2, <2>1, <2>2, <2>3 DEF WorkerStep
<1>3. ASSUME NEW n \in Nodes, Cascade(n)
      PROVE  /\ closed' = closed /\ at' = at /\ rootCancelled' = rootCancelled
             /\ \A m \in Nodes : cancelled[m] => cancelled'[m]
             /\ stopped' = stopped /\ kind' = kind /\ policy' = policy
  BY <1>1, <1>3 DEF Cascade, GraphTypeOK
<1>4. ASSUME NEW c \in Callers, CallerContinues(c) \/ CallerStarts(c)
      PROVE  /\ \A e \in Edges : closed[e] => closed'[e]
             /\ at' = at
             /\ \A n \in Nodes : cancelled[n] => cancelled'[n]
             /\ (rootCancelled => rootCancelled') /\ (stopped => stopped')
             /\ kind' = kind /\ policy' = policy
  <2>1. CASE FeedPush(c) \/ FeedBegin(c) \/ StopReturns(c) \/ WaitReturns(c)
    BY <2>1 DEF FeedPush, FeedBegin, StopReturns, WaitReturns
  <2>2. CASE CloseInput(c) \/ StopRunner(c) \/ CancelRunner(c) \/ WaitBegin(c) \/ JoinNode(c)
    BY <1>1, <2>2 DEF CloseInput, StopRunner, CancelRunner, SchedulerStop, WaitBegin, JoinNode,
                      ClosedAnd, GraphTypeOK
  <2>3. CASE StopNode(c)
    <3>1. Head(todo[c]) \in Nodes
      BY <1>1, <2>3 DEF StopNode, GraphTypeOK
    <3> QED BY <1>1, <2>3, <3>1 DEF StopNode, ClosedAnd, GraphTypeOK
  <2> QED BY <1>4, <2>1, <2>2, <2>3 DEF CallerContinues, CallerStarts
<1>5. CASE UNCHANGED vars
  BY <1>5 DEF vars, Quiet
<1> QED BY <1>2, <1>3, <1>4, <1>5 DEF GraphNext, GraphProgress, Quiet

LEMMA WaitersStep ==
  ASSUME StreamInv, WaitersJoined, [GraphNext]_vars
  PROVE  WaitersJoined'
<1>1. GraphTypeOK
  BY DEF StreamInv, GraphInv
<1>2. (closed[RootIn] => closed'[RootIn]) /\ \A n \in Nodes : Done(n) => Done(n)'
  BY StepsOnly, EndsOfGraph DEF Done, WorkersOf
<1>3. ASSUME \A c \in Callers : call'[c] = "waiting" => call[c] = "waiting" /\ todo'[c] = todo[c]
      PROVE  WaitersJoined'
  BY <1>2, <1>3 DEF WaitersJoined
<1>4. CASE UNCHANGED <<call, todo>>
  BY <1>3, <1>4
<1>5. ASSUME NEW c \in Callers, CallerContinues(c) \/ CallerStarts(c)
      PROVE  WaitersJoined'
  <2>1. CASE WaitBegin(c)
    <3>1. /\ call' = [call EXCEPT ![c] = "waiting"] /\ todo' = [todo EXCEPT ![c] = JoinOrder]
          /\ closed'[RootIn]
      BY <2>1, EndsOfGraph DEF WaitBegin, Begin, ClosedAnd
    <3>2. ToSet(JoinOrder) = Nodes
      BY GraphAssumptions DEF GraphAssumptions
    <3> QED BY <1>1, <1>2, <3>1, <3>2 DEF WaitersJoined, GraphTypeOK
  <2>2. CASE JoinNode(c)
    <3>1. /\ call' = call /\ todo' = [todo EXCEPT ![c] = Tail(@)]
          /\ todo[c] # <<>> /\ todo[c] \in Seq(Nodes) /\ Done(Head(todo[c]))
      BY <1>1, <2>2 DEF JoinNode, GraphTypeOK
    <3>2. Len(todo[c]) \in Nat \ {0}
      BY <3>1, EmptySeq
    <3>3. /\ Tail(todo[c]) \in Seq(Nodes) /\ Len(Tail(todo[c])) = Len(todo[c]) - 1
          /\ \A i \in 1..Len(Tail(todo[c])) : Tail(todo[c])[i] = todo[c][i + 1]
          /\ Head(todo[c]) = todo[c][1]
      BY <3>1, HeadTailProperties
    <3>4. ASSUME NEW n \in Nodes, n \in ToSet(todo[c])
          PROVE  n = Head(todo[c]) \/ n \in ToSet(Tail(todo[c]))
      <4>1. PICK i \in 1..Len(todo[c]) : n = todo[c][i]
        BY <3>1, <3>4, InToSet
      <4>2. CASE i = 1
        BY <3>3, <4>1, <4>2
      <4>3. CASE i # 1
        <5>1. i - 1 \in 1..(Len(todo[c]) - 1) /\ (i - 1) + 1 = i
          BY <3>2, <4>3, OneBelow
        <5> QED BY <3>3, <4>1, <5>1, InToSet
      <4> QED BY <4>2, <4>3
    <3> SUFFICES ASSUME NEW d \in Callers, call'[d] = "waiting"
                 PROVE  closed'[RootIn] /\ \A n \in Nodes : n \in ToSet(todo'[d]) \/ Done(n)'
      BY DEF WaitersJoined
    <3>5. closed[RootIn] /\ \A n \in Nodes : n \in ToSet(todo[d]) \/ Done(n)
      BY <3>1 DEF WaitersJoined
    <3>6. todo'[d] = IF d = c THEN Tail(todo[c]) ELSE todo[d]
      BY <1>1, <3>1 DEF GraphTypeOK
    <3> QED BY <1>2, <3>1, <3>4, <3>5, <3>6
  <2>3. CASE FeedPush(c) \/ StopNode(c) \/ StopReturns(c) \/ WaitReturns(c) \/ FeedBegin(c)
             \/ CloseInput(c) \/ StopRunner(c) \/ CancelRunner(c)
    BY <1>1, <1>3, <2>3
       DEF FeedPush, StopNode, StopReturns, WaitReturns, FeedBegin, CloseInput, StopRunner,
           CancelRunner, SchedulerStop, Begin, runnerVars, GraphTypeOK
  <2> QED BY <1>5, <2>1, <2>2, <2>3 DEF CallerContinues, CallerStarts
<1>6. ASSUME GraphProgress PROVE WaitersJoined'
  BY <1>4, <1>6 DEF GraphProgress, WorkerStep, PopToPush, PopViolation, OperatorFails,
                    OperatorAbsorbs, PushOne, Exit, Cascade, runnerVars
<1>7. CASE UNCHANGED vars
  BY <1>4, <1>7 DEF vars, runnerVars
<1> QED BY <1>5, <1>6, <1>7 DEF GraphNext

LEMMA NoRepeatsStep ==
  ASSUME StreamInv, NoRepeats, [GraphNext]_vars
  PROVE  NoRepeats'
<1> USE DEF Goto
<1>1. GraphTypeOK
  BY DEF StreamInv, GraphInv
<1>2. ASSUME \A w \in Workers : at'[w] = "push" => at[w] = "push" /\ left'[w] = left[w]
      PROVE  NoRepeats'
  BY <1>2 DEF NoRepeats
<1>3. ASSUME NEW e \in Workers, PopToPush(e) PROVE NoRepeats'
  <2> SUFFICES ASSUME NEW w \in Workers, at'[w] = "push"
               PROVE  \A i, j \in 1..Len(left'[w]) : left'[w][i] = left'[w][j] => i = j
    BY DEF NoRepeats
  <2>1. CASE w = e
    <3>1. left'[e] = Outputs[Consumer[e]]
      BY <1>1, <1>3 DEF PopToPush, GraphTypeOK
    <3>2. /\ Consumer[e] \in Nodes /\ Outputs[Consumer[e]] \in Seq(Edges)
          /\ \A i, j \in DOMAIN Outputs[Consumer[e]] :
               Outputs[Consumer[e]][i] = Outputs[Consumer[e]][j] => i = j
      BY NodeOfWorker, GraphAssumptions DEF GraphAssumptions
    <3>3. DOMAIN Outputs[Consumer[e]] = 1..Len(Outputs[Consumer[e]])
      BY <3>2
    <3> QED BY <2>1, <3>1, <3>2, <3>3
  <2>2. CASE w # e
    <3>1. at[w] = "push" /\ left'[w] = left[w]
      BY <1>1, <1>3, <2>2 DEF PopToPush, GraphTypeOK
    <3> QED BY <3>1 DEF NoRepeats
  <2> QED BY <2>1, <2>2
<1>4. ASSUME NEW e \in Workers, PushOne(e) PROVE NoRepeats'
  <2> SUFFICES ASSUME NEW w \in Workers, at'[w] = "push"
               PROVE  \A i, j \in 1..Len(left'[w]) : left'[w][i] = left'[w][j] => i = j
    BY DEF NoRepeats
  <2>1. CASE w = e
    <3>1. /\ at[e] = "push" /\ left'[e] = Tail(left[e])
          /\ left[e] # <<>> /\ left[e] \in Seq(Edges)
      BY <1>1, <1>4 DEF PushOne, GraphTypeOK, StreamInv, GraphInv, Pushing
    <3>2. Len(left[e]) \in Nat \ {0}
      BY <3>1, EmptySeq
    <3>3. /\ Len(Tail(left[e])) = Len(left[e]) - 1
          /\ \A i \in 1..Len(Tail(left[e])) : Tail(left[e])[i] = left[e][i + 1]
      BY <3>1, HeadTailProperties
    <3>4. ASSUME NEW i \in 1..Len(Tail(left[e])), NEW j \in 1..Len(Tail(left[e])),
                 Tail(left[e])[i] = Tail(left[e])[j]
          PROVE  i = j
      <4>1. i + 1 \in 1..Len(left[e]) /\ j + 1 \in 1..Len(left[e])
        BY <3>2, <3>3
      <4>2. i + 1 = j + 1
        BY <3>1, <3>3, <3>4, <4>1 DEF NoRepeats
      <4> QED BY <4>2
    <3> QED BY <2>1, <3>1, <3>4
  <2>2. CASE w # e
    <3>1. at[w] = "push" /\ left'[w] = left[w]
      BY <1>1, <1>4, <2>2 DEF PushOne, GraphTypeOK
    <3> QED BY <3>1 DEF NoRepeats
  <2> QED BY <2>1, <2>2
<1>5. ASSUME NEW e \in Workers,
             PopViolation(e) \/ OperatorFails(e) \/ OperatorAbsorbs(e) \/ Exit(e)
      PROVE  NoRepeats'
  BY <1>1, <1>2, <1>5
     DEF PopViolation, OperatorFails, OperatorAbsorbs, NextRound, Exit, GraphTypeOK
<1>6. ASSUME NEW n \in Nodes, Cascade(n) PROVE NoRepeats'
  BY <1>2, <1>6 DEF Cascade, workerVars
<1>7. ASSUME NEW c \in Callers, CallerContinues(c) \/ CallerStarts(c) PROVE NoRepeats'
  <2>1. at' = at /\ left' = left
    BY <1>7 DEF CallerContinues, CallerStarts, FeedPush, FeedBegin, CloseInput, StopRunner,
                CancelRunner, StopNode, StopReturns, WaitBegin, JoinNode, WaitReturns, workerVars
  <2> QED BY <1>2, <2>1
<1>8. CASE UNCHANGED vars
  BY <1>2, <1>8 DEF vars, workerVars
<1> QED BY <1>3, <1>4, <1>5, <1>6, <1>7, <1>8 DEF GraphNext, GraphProgress, WorkerStep

-----------------------------------------------------------------------------
(* The invariant.                                                          *)
LEMMA InitHistory == GraphInit => HistoryInv
<1> SUFFICES ASSUME GraphInit PROVE HistoryInv
  OBVIOUS
<1>1. StreamInv
  BY InitStreamInv
<1>2. WaitersJoined /\ NoRepeats
  BY DEF GraphInit, WaitersJoined, NoRepeats
<1>3. PICK when, gone, cur :
        /\ when = [p \in Routes |-> [m \in Items |-> 0]]
        /\ gone = [e \in Edges |-> 0]
        /\ cur = [w \in Workers |-> 0]
  OBVIOUS
<1>4. /\ when \in [Routes -> [Items -> Nat]] /\ gone \in [Edges -> Nat] /\ cur \in [Workers -> Nat]
      /\ \A p \in Routes, m \in Items : when[p][m] = 0
      /\ \A e \in Edges : gone[e] = 0 /\ queue[e] = <<>> /\ Len(queue[e]) = 0
      /\ \A w \in Workers : cur[w] = 0 /\ w \in Edges /\ at[w] = "loop"
  BY <1>3, NodeOfWorker DEF GraphInit
<1>5. Numbered(queue, when, gone)
  <2>1. ASSUME NEW p \in Routes, NEW m \in Items
        PROVE  when[p][m] <= gone[Last(p)] + Len(queue[Last(p)])
    BY <1>4, RouteTyped
  <2>2. \A e \in Edges : \A j \in 1..Len(queue[e]) :
          \E p \in Routes : Last(p) = e /\ when[p][queue[e][j]] = gone[e] + j
    BY <1>4
  <2>3. \A p, r \in Routes : \A m, l \in Items :
          Last(p) = Last(r) /\ when[p][m] = when[r][l] /\ when[p][m] # 0 => p = r /\ m = l
    BY <1>4
  <2> QED BY <1>4, <2>1, <2>2, <2>3 DEF Numbered
<1>6. Followed(when, cur)
  BY <1>4 DEF Followed
<1>7. Holding(when, gone, cur)
  BY <1>4 DEF Holding
<1>8. FedInTurn(when, gone)
  <2>1. fed = 0 /\ \A m \in Items : ~(m <= 0)
    BY DEF GraphInit, Items
  <2> QED BY <1>4, <2>1, RootRoute, EndsOfGraph DEF FedInTurn
<1>9. InTurn(when) /\ PassedOn(when, gone, cur) /\ Collected(gone)
  <2>1. PassedOn(when, gone, cur)
    <3> SUFFICES ASSUME NEW p \in Routes, NEW m \in Items, when[p][m] \in 1..gone[Last(p)]
                 PROVE  FALSE
      BY DEF PassedOn
    <3> QED BY <1>4, RouteTyped
  <2> QED BY <1>4, <2>1, EndsOfGraph DEF InTurn, Collected
<1>10. History(when, gone, cur)
  BY <1>5, <1>6, <1>7, <1>8, <1>9 DEF History
<1> QED BY <1>1, <1>2, <1>10 DEF HistoryInv

LEMMA NextHistory == HistoryInv /\ [GraphNext]_vars => HistoryInv'
<1> SUFFICES ASSUME HistoryInv, [GraphNext]_vars PROVE HistoryInv'
  OBVIOUS
<1>1. StreamInv /\ WaitersJoined /\ NoRepeats /\ GraphTypeOK
  BY DEF HistoryInv, StreamInv, GraphInv
<1>2. StreamInv' /\ WaitersJoined' /\ NoRepeats'
  BY <1>1, NextStreamInv, WaitersStep, NoRepeatsStep
<1>3. PICK when, gone, cur : History(when, gone, cur)
  BY DEF HistoryInv
<1> DEFINE Kept == \E w, g, c : History(w, g, c)'
<1>4. ASSUME UNCHANGED <<queue, held, left, fed>>,
             \A w \in Workers : at'[w] = at[w] \/ (at'[w] = "done" /\ at[w] # "push")
      PROVE  Kept
  <2>1. History(when, gone, cur)'
    BY <1>1, <1>3, <1>4, StepsOnly, HistoryStill
  <2> QED BY <2>1
<1>5. ASSUME NEW e \in Workers, Take(e), NEW to, at' = [at EXCEPT ![e] = to],
             to = "push" => held'[e] = Head(queue[e]) /\ left'[e] = Outputs[Consumer[e]],
             \A w \in Workers : w # e => held'[w] = held[w] /\ left'[w] = left[w],
             UNCHANGED <<closed, fed, stopped>>,
             Lossless => to = "push" \/ (to = "exit" /\ ~Quiet')
      PROVE  Kept
  BY <1>1, <1>3, <1>5, StepsOnly, TakeKeepsHistory
<1>6. ASSUME NEW e \in Workers, PopToPush(e) PROVE Kept
  <2>1. /\ Take(e) /\ at' = [at EXCEPT ![e] = "push"]
        /\ held'[e] = Head(queue[e]) /\ left'[e] = Outputs[Consumer[e]]
        /\ \A w \in Workers : w # e => held'[w] = held[w] /\ left'[w] = left[w]
        /\ UNCHANGED <<closed, fed, stopped>>
    BY <1>1, <1>6 DEF PopToPush, Goto, GraphTypeOK, runnerVars
  <2> QED BY <1>5, <2>1
<1>7. ASSUME NEW e \in Workers, PopViolation(e) PROVE Kept
  <2>1. /\ Take(e) /\ at' = [at EXCEPT ![e] = "exit"] /\ ~Quiet'
        /\ UNCHANGED <<closed, fed, stopped, held, left>>
    BY <1>7 DEF PopViolation, Goto, runnerVars, Quiet
  <2> QED BY <1>5, <2>1
<1>8. ASSUME NEW e \in Workers, OperatorFails(e) \/ OperatorAbsorbs(e) PROVE Kept
  <2>1. PICK to : at' = [at EXCEPT ![e] = to] /\ to # "push"
    BY <1>8 DEF OperatorFails, OperatorAbsorbs, Goto, NextRound
  <2>2. Take(e) /\ UNCHANGED <<closed, fed, stopped, held, left>>
    BY <1>8 DEF OperatorFails, OperatorAbsorbs, runnerVars, tokenVars
  <2>3. ~Lossless
    BY <1>8, NodeOfWorker DEF OperatorFails, OperatorAbsorbs, Lossless
  <2> QED BY <1>5, <2>1, <2>2, <2>3
<1>9. ASSUME NEW e \in Workers, PushOne(e) PROVE Kept
  BY <1>1, <1>3, <1>9, PushKeepsHistory
<1>10. ASSUME NEW e \in Workers, Exit(e) PROVE Kept
  BY <1>1, <1>4, <1>10 DEF Exit, Goto, GraphTypeOK
<1>11. ASSUME NEW n \in Nodes, Cascade(n) PROVE Kept
  BY <1>4, <1>11 DEF Cascade, edgeVars, workerVars
<1>12. ASSUME NEW c \in Callers, CallerContinues(c) \/ CallerStarts(c) PROVE Kept
  <2>1. CASE FeedPush(c)
    BY <1>1, <1>3, <2>1, FeedKeepsHistory
  <2>2. CASE WaitReturns(c)
    BY <1>1, <1>3, <2>2, WaitKeepsHistory
  <2>3. CASE StopNode(c) \/ StopReturns(c) \/ JoinNode(c) \/ CallerStarts(c)
    BY <1>4, <2>3 DEF StopNode, StopReturns, JoinNode, CallerStarts, FeedBegin, CloseInput,
                      StopRunner, CancelRunner, WaitBegin, edgeVars, workerVars
  <2> QED BY <1>12, <2>1, <2>2, <2>3 DEF CallerContinues
<1>13. ASSUME UNCHANGED vars PROVE Kept
  <2>1. UNCHANGED <<queue, at, held, left, fed>>
    BY <1>13 DEF vars, edgeVars, workerVars
  <2> QED BY <1>4, <2>1
<1> HIDE DEF Kept
<1>14. ASSUME NEW e \in Workers, WorkerStep(e) PROVE Kept
  BY <1>6, <1>7, <1>8, <1>9, <1>10, <1>14 DEF WorkerStep
<1>15. Kept
  BY <1>11, <1>12, <1>13, <1>14 DEF GraphNext, GraphProgress
<1> QED BY <1>2, <1>15 DEF HistoryInv, Kept

-----------------------------------------------------------------------------
(* What the root output holds.                                             *)
Places(m) == {i \in DOMAIN queue[RootOut] : queue[RootOut][i] = m}

LEMMA PlacesFinite ==
  ASSUME GraphTypeOK, NEW m \in Items
  PROVE  /\ queue[RootOut] \in Seq(Items) /\ DOMAIN queue[RootOut] = 1..Len(queue[RootOut])
         /\ Len(queue[RootOut]) \in Nat
         /\ IsFiniteSet(Places(m)) /\ Delivered(m) = Cardinality(Places(m))
         /\ Delivered(m) \in Nat
<1>1. queue[RootOut] \in Seq(Items)
  BY EndsOfGraph DEF GraphTypeOK
<1>2. DOMAIN queue[RootOut] = 1..Len(queue[RootOut]) /\ Len(queue[RootOut]) \in Nat
  BY <1>1
<1>3. Places(m) \subseteq 1..Len(queue[RootOut])
  BY <1>2 DEF Places
<1>4. IsFiniteSet(1..Len(queue[RootOut]))
  BY <1>2, FS_Interval
<1>5. IsFiniteSet(Places(m))
  BY <1>3, <1>4, FS_Subset
<1> QED BY <1>1, <1>2, <1>5, FS_CardinalityType DEF Delivered, Places

(* Every place of the root output holds the copy of a path of its own.     *)
LEMMA PlaceHasPath ==
  ASSUME GraphTypeOK, NEW when, NEW gone, NEW cur, History(when, gone, cur),
         NEW m \in Items, NEW i \in Places(m)
  PROVE  \E p \in RootPaths : when[p][m] = gone[RootOut] + i
<1>1. i \in 1..Len(queue[RootOut]) /\ queue[RootOut][i] = m
  BY PlacesFinite DEF Places
<1> QED BY <1>1, EndsOfGraph DEF History, Numbered, RootPaths

(* No item comes out of a path twice.                                      *)
LEMMA AtMostPaths ==
  ASSUME PathsCounted, HistoryInv, NEW m \in Items
  PROVE  Delivered(m) <= Paths
<1>1. GraphTypeOK
  BY DEF HistoryInv, StreamInv, GraphInv
<1>2. PICK when, gone, cur : History(when, gone, cur)
  BY DEF HistoryInv
<1> DEFINE f == [i \in Places(m) |-> CHOOSE p \in RootPaths : when[p][m] = gone[RootOut] + i]
<1>3. \A i \in Places(m) : f[i] \in RootPaths /\ when[f[i]][m] = gone[RootOut] + i
  BY <1>1, <1>2, PlaceHasPath
<1>4. gone[RootOut] \in Nat /\ \A i \in Places(m) : i \in Nat
  BY <1>1, <1>2, EndsOfGraph, PlacesFinite DEF History, Numbered, Places
<1> HIDE DEF f
<1>5. \A i, j \in Places(m) : f[i] = f[j] => i = j
  <2> SUFFICES ASSUME NEW i \in Places(m), NEW j \in Places(m), f[i] = f[j] PROVE i = j
    OBVIOUS
  <2>1. gone[RootOut] + i = gone[RootOut] + j
    BY <1>3
  <2> QED BY <1>4, <2>1
<1>6. f \in Injection(Places(m), RootPaths)
  <2>1. f \in [Places(m) -> RootPaths]
    BY <1>3 DEF f
  <2> QED BY <1>5, <2>1 DEF Injection, IsInjective
<1>7. Cardinality(Places(m)) <= Cardinality(RootPaths)
  BY <1>1, <1>6, PlacesFinite, FS_Injection DEF PathsCounted, ExistsInjection
<1> QED BY <1>1, <1>7, PlacesFinite DEF PathsCounted

(* No item comes out before the one fed before it, on any path.            *)
LEMMA NeverOvertaken ==
  ASSUME HistoryInv, Lossless, NEW m \in Items, m > 1
  PROVE  m - 1 \in Items /\ Delivered(m) <= Delivered(m - 1)
<1>1. GraphTypeOK
  BY DEF HistoryInv, StreamInv, GraphInv
<1>2. PICK when, gone, cur : History(when, gone, cur)
  BY DEF HistoryInv
<1>3. m - 1 \in Items
  BY GraphAssumptions DEF Items, GraphAssumptions
<1>4. Delivered(m) = Cardinality(Places(m)) /\ Delivered(m - 1) = Cardinality(Places(m - 1))
      /\ Delivered(m - 1) \in Nat /\ IsFiniteSet(Places(m - 1))
  BY <1>1, <1>3, PlacesFinite
<1>5. CASE Places(m) = {}
  <2>1. Delivered(m) = 0
    BY <1>4, <1>5, FS_EmptySet
  <2> QED BY <1>3, <1>4, <2>1
<1>6. CASE Places(m) # {}
  <2>1. gone[RootOut] = 0
    <3>1. PICK i \in Places(m) : TRUE
      BY <1>6
    <3>2. i \in 1..Len(queue[RootOut])
      BY <1>1, <3>1, PlacesFinite DEF Places
    <3>3. queue[RootOut] # <<>>
      BY <3>2
    <3> QED BY <1>2, <3>3 DEF History, Collected
  <2>2. /\ \A p, r \in RootPaths : \A k, l \in Items :
             when[p][k] = when[r][l] /\ when[p][k] # 0 => p = r /\ k = l
        /\ \A p \in RootPaths : when[p][m - 1] <= Len(queue[RootOut])
        /\ \A j \in 1..Len(queue[RootOut]) : \E r \in RootPaths : when[r][queue[RootOut][j]] = j
    <3>1. Len(queue[RootOut]) \in Nat /\ RootOut \in Edges
      BY <1>1, PlacesFinite, EndsOfGraph
    <3>2. ASSUME NEW j \in 1..Len(queue[RootOut])
          PROVE  \E r \in RootPaths : when[r][queue[RootOut][j]] = j
      <4>1. PICK r \in Routes : Last(r) = RootOut /\ when[r][queue[RootOut][j]] = gone[RootOut] + j
        BY <1>2, <3>1 DEF History, Numbered
      <4>2. 0 + j = j
        OBVIOUS
      <4> QED BY <2>1, <4>1, <4>2 DEF RootPaths
    <3>3. ASSUME NEW p \in RootPaths PROVE when[p][m - 1] <= Len(queue[RootOut])
      <4>1. p \in Routes /\ when[p][m - 1] <= gone[RootOut] + Len(queue[RootOut])
        BY <1>2, <1>3 DEF History, Numbered, RootPaths
      <4>2. 0 + Len(queue[RootOut]) = Len(queue[RootOut])
        BY <3>1
      <4> QED BY <2>1, <4>1, <4>2
    <3>4. \A p, r \in RootPaths : \A k, l \in Items :
             when[p][k] = when[r][l] /\ when[p][k] # 0 => p = r /\ k = l
      BY <1>2 DEF History, Numbered, RootPaths
    <3> QED BY <3>2, <3>3, <3>4
  <2>3. ASSUME NEW i \in Places(m)
        PROVE  \E j \in Places(m - 1) : \E p \in RootPaths : when[p][m] = i /\ when[p][m - 1] = j
    <3>1. i \in 1..Len(queue[RootOut]) /\ Len(queue[RootOut]) \in Nat
      BY <1>1, PlacesFinite DEF Places
    <3>2. PICK p \in RootPaths : when[p][m] = i
      <4>1. PICK p \in RootPaths : when[p][m] = gone[RootOut] + i
        BY <1>1, <1>2, PlaceHasPath
      <4>2. 0 + i = i
        BY <3>1
      <4> QED BY <2>1, <4>1, <4>2
    <3>3. when[p][m - 1] \in 1..(i - 1)
      <4>1. p \in Routes /\ when[p][m] # 0
        BY <3>1, <3>2 DEF RootPaths
      <4> QED BY <1>2, <3>2, <4>1 DEF History, InTurn
    <3>4. PICK j \in 1..Len(queue[RootOut]) : j = when[p][m - 1]
      BY <3>1, <3>3
    <3>5. PICK r \in RootPaths : when[r][queue[RootOut][j]] = j
      BY <2>2
    <3>6. queue[RootOut][j] \in Items /\ j # 0
      BY <1>1, PlacesFinite, ElementOfSeq
    <3>7. queue[RootOut][j] = m - 1
      BY <1>3, <2>2, <3>4, <3>5, <3>6
    <3>8. j \in Places(m - 1)
      BY <1>1, <3>7, PlacesFinite DEF Places
    <3> QED BY <3>2, <3>4, <3>8
  <2> DEFINE f == [i \in Places(m) |->
                     CHOOSE j \in Places(m - 1) :
                       \E p \in RootPaths : when[p][m] = i /\ when[p][m - 1] = j]
  <2>4. \A i \in Places(m) : /\ f[i] \in Places(m - 1)
                             /\ \E p \in RootPaths : when[p][m] = i /\ when[p][m - 1] = f[i]
    BY <2>3
  <2>5. f \in [Places(m) -> Places(m - 1)]
    BY <2>4
  <2> HIDE DEF f
  <2>6. ASSUME NEW j \in Places(m - 1) PROVE j # 0
    <3>1. j \in 1..Len(queue[RootOut]) /\ Len(queue[RootOut]) \in Nat
      BY <1>1, PlacesFinite DEF Places
    <3> QED BY <3>1
  <2>7. \A i, k \in Places(m) : f[i] = f[k] => i = k
    <3> SUFFICES ASSUME NEW i \in Places(m), NEW k \in Places(m), f[i] = f[k] PROVE i = k
      OBVIOUS
    <3>1. PICK p \in RootPaths : when[p][m] = i /\ when[p][m - 1] = f[i]
      BY <2>4
    <3>2. PICK r \in RootPaths : when[r][m] = k /\ when[r][m - 1] = f[k]
      BY <2>4
    <3>3. f[i] # 0
      BY <2>4, <2>6
    <3>4. p = r
      BY <1>3, <2>2, <3>1, <3>2, <3>3
    <3> QED BY <3>1, <3>2, <3>4
  <2>8. f \in Injection(Places(m), Places(m - 1))
    BY <2>5, <2>7 DEF Injection, IsInjective
  <2>9. Cardinality(Places(m)) <= Cardinality(Places(m - 1))
    BY <1>4, <2>8, FS_Injection
  <2> QED BY <1>3, <1>4, <2>9
<1> QED BY <1>5, <1>6

(* A graph that ran to its end undisturbed has passed every item on, from  *)
(* the root input along every route.                                       *)
LEMMA QuietEnd ==
  ASSUME HistoryInv, AllDone, Lossless, Quiet, NEW w \in Workers
  PROVE  at[w] = "done" /\ queue[w] = <<>>
<1>1. /\ TokensQuiet /\ NoEarlyEndUndropped /\ w \in Edges /\ Consumer[w] \in Nodes
  BY NodeOfWorker DEF HistoryInv, StreamInv
<1>2. at[w] = "done"
  BY <1>1 DEF AllDone, Done, WorkersOf
<1>3. ~cancelled[Consumer[w]]
  BY <1>1 DEF TokensQuiet, Lossless
<1>4. GuardsNeverDrop
  <2> SUFFICES ASSUME NEW n \in Nodes, NEW o \in ToSet(Outputs[n]) PROVE policy[o] # "dropNewest"
    BY DEF GuardsNeverDrop
  <2>1. o \in Edges
    BY GraphAssumptions DEF GraphAssumptions, ToSet
  <2> QED BY <2>1 DEF Lossless
<1> QED BY <1>1, <1>2, <1>3, <1>4 DEF NoEarlyEndUndropped, NoEarlyEnd, Quiet

LEMMA AllArrive ==
  ASSUME HistoryInv, AllDone, Lossless, Quiet, NEW m \in Items, m <= fed,
         NEW when, NEW gone, NEW cur, History(when, gone, cur)
  PROVE  \A p \in Routes : when[p][m] # 0
<1>1. GraphTypeOK
  BY DEF HistoryInv, StreamInv, GraphInv
<1>2. when[<<RootIn>>][m] # 0
  <2>1. m # 0
    BY DEF Items
  <2> QED BY <2>1 DEF History, FedInTurn
<1>3. ASSUME NEW p \in Routes, NEW o \in Edges, Append(p, o) \in Routes, when[p][m] # 0
      PROVE  when[Append(p, o)][m] # 0
  <2>1. Last(p) \in Workers /\ Last(p) \in Edges
    BY <1>3, RouteStep, RouteTyped
  <2>2. at[Last(p)] = "done" /\ queue[Last(p)] = <<>>
    BY <2>1, QuietEnd
  <2>3. when[p][m] \in Nat /\ gone[Last(p)] \in Nat /\ when[p][m] <= gone[Last(p)] + Len(queue[Last(p)])
    BY <2>1 DEF History, Numbered
  <2>4. when[p][m] \in 1..gone[Last(p)]
    <3>1. gone[Last(p)] + Len(queue[Last(p)]) = gone[Last(p)]
      BY <2>2, <2>3
    <3> QED BY <1>3, <2>3, <3>1
  <2>5. StillTakes(Last(p), o) /\ ~Owes(Last(p), o, when[p][m], cur)
    BY <2>2 DEF StillTakes, Owes
  <2> QED BY <1>3, <2>4, <2>5 DEF History, PassedOn
<1> DEFINE Missed == {p \in Routes : when[p][m] = 0}
<1>4. SUFFICES ASSUME Missed # {} PROVE FALSE
  OBVIOUS
<1>5. PICK p \in Missed : \A r \in Missed : Len(p) <= Len(r)
  <2> DEFINE T == {Len(p) : p \in Missed}
  <2>1. T \subseteq Nat /\ T # {}
    BY <1>4, RouteTyped
  <2> HIDE DEF T
  <2>2. PICK x \in T : \A y \in T : x <= y
    BY <2>1, LeastOf
  <2> QED BY <2>2 DEF T
<1>6. p \in Routes /\ when[p][m] = 0 /\ p # <<RootIn>>
  BY <1>2
<1>7. PICK r \in Routes, o \in Edges : p = Append(r, o) /\ Len(p) = Len(r) + 1
  BY <1>6, RouteSplit
<1>8. when[r][m] # 0
  <2>1. ~(Len(p) <= Len(r))
    BY <1>7, RouteTyped
  <2> QED BY <1>5, <2>1
<1> QED BY <1>3, <1>6, <1>7, <1>8

(* So it comes out of every path once.                                     *)
LEMMA AllDelivered ==
  ASSUME PathsCounted, HistoryInv, AllDone, Lossless, Quiet, NEW m \in Items, m <= fed
  PROVE  Delivered(m) = Paths
<1>1. GraphTypeOK
  BY DEF HistoryInv, StreamInv, GraphInv
<1>2. PICK when, gone, cur : History(when, gone, cur)
  BY DEF HistoryInv
<1>3. \A p \in RootPaths : p \in Routes /\ Last(p) = RootOut /\ when[p][m] \in Nat /\ when[p][m] # 0
  BY <1>2, AllArrive DEF RootPaths, History, Numbered
<1>4. gone[RootOut] = 0
  BY <1>2 DEF History, Collected, Quiet
<1>5. ASSUME NEW p \in RootPaths PROVE when[p][m] \in Places(m)
  <2>1. when[p][m] <= gone[RootOut] + Len(queue[RootOut])
    BY <1>2, <1>3 DEF History, Numbered
  <2>2. gone[RootOut] + Len(queue[RootOut]) = Len(queue[RootOut]) /\ Len(queue[RootOut]) \in Nat
    BY <1>1, <1>4, PlacesFinite
  <2>3. PICK j \in 1..Len(queue[RootOut]) : j = when[p][m]
    BY <1>3, <2>1, <2>2
  <2>4. PICK r \in Routes : Last(r) = RootOut /\ when[r][queue[RootOut][j]] = gone[RootOut] + j
    BY <1>2, EndsOfGraph DEF History, Numbered
  <2>5. gone[RootOut] + j = when[p][m]
    BY <1>4, <2>3
  <2>6. queue[RootOut][j] \in Items
    BY <1>1, PlacesFinite, ElementOfSeq
  <2>7. queue[RootOut][j] = m
    BY <1>2, <1>3, <2>4, <2>5, <2>6 DEF History, Numbered
  <2> QED BY <1>1, <2>3, <2>7, PlacesFinite DEF Places
<1> DEFINE f == [p \in RootPaths |-> when[p][m]]
<1>6. f \in [RootPaths -> Places(m)]
  BY <1>5
<1>7. \A p, r \in RootPaths : f[p] = f[r] => p = r
  BY <1>2, <1>3 DEF History, Numbered
<1>8. f \in Injection(RootPaths, Places(m))
  BY <1>6, <1>7 DEF Injection, IsInjective
<1> HIDE DEF f
<1>9. Cardinality(RootPaths) <= Cardinality(Places(m))
  BY <1>1, <1>8, PlacesFinite, FS_Injection
<1>10. Paths <= Delivered(m) /\ Delivered(m) \in Nat
  BY <1>1, <1>9, PlacesFinite DEF PathsCounted
<1>11. Delivered(m) <= Paths /\ Paths \in Nat
  BY AtMostPaths, GraphAssumptions DEF GraphAssumptions
<1> QED BY <1>10, <1>11

(* In a graph of any shape, whatever is stopped or cancelled and whatever  *)
(* its operators and overflow policies drop, no item comes out twice on a  *)
(* path; and where nothing may be dropped no item overtakes or skips the   *)
(* one fed before it.                                                      *)
THEOREM DeliveryInOrder ==
  ASSUME PathsCounted
  PROVE  GraphSpec => []DeliveredInOrder
<1>1. HistoryInv => DeliveredInOrder
  BY AtMostPaths, NeverOvertaken DEF DeliveredInOrder
<1> QED BY InitHistory, NextHistory, <1>1, PTL DEF GraphSpec

(* A graph of any shape that ran to its end undisturbed has delivered      *)
(* every item it was fed, once on every path to the root output.           *)
THEOREM NothingIsLost ==
  ASSUME PathsCounted
  PROVE  GraphSpec => []NothingLost
<1>1. HistoryInv => NothingLost
  <2> SUFFICES ASSUME HistoryInv, AllDone, Lossless, Quiet, NEW m \in 1..fed
               PROVE  Delivered(m) = Paths
    BY DEF NothingLost, Quiet
  <2>1. fed \in 0..MaxItems /\ MaxItems \in Nat
    BY GraphAssumptions DEF HistoryInv, StreamInv, GraphInv, GraphTypeOK, GraphAssumptions
  <2>2. m \in Items /\ m <= fed
    BY <2>1 DEF Items
  <2> QED BY <2>2, AllDelivered
<1> QED BY InitHistory, NextHistory, <1>1, PTL DEF GraphSpec
===============================================================================
