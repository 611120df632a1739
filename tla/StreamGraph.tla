----------------------------- MODULE StreamGraph -----------------------------
(***************************************************************************)
(* The streaming graph of a running solution: bounded edges, one worker    *)
(* thread per node (one per input for a merge), a cancel token per node    *)
(* under the scheduler's root token, and the SolutionRunner calls that     *)
(* feed, close, stop, cancel and wait for it                               *)
(* (src/core/include/rac/graph, src/core/src/graph, src/core/src/solutions)*)
(*                                                                         *)
(* Every edge has one consumer, so a worker is named by the edge it        *)
(* drains.  Items are numbered in the order the root input accepted them.  *)
(* The initial state is the one SolutionRunner::start() returns in.        *)
(***************************************************************************)
EXTENDS Naturals, Sequences, SequencesExt, FiniteSets

CONSTANTS
  Nodes, Edges,
  Consumer,      \* the node that drains an edge; NoNode for one nobody reads
  Outputs,       \* the edges a node pushes to, in push order
  RootIn, RootOut,   \* root_input_, which feed pushes to, and root_output_
  JoinOrder,     \* GraphScheduler::nodes_
  Capacity,      \* per edge
  Builds,        \* the kinds of node and overflow policies it may be built with
  Feeders,       \* threads that feed the runner
  Owners,        \* threads that close, stop, cancel or wait for it
  MaxItems,      \* bound on the items fed
  Paths,         \* how many paths lead from the root input to the root output
  NoNode

ASSUME GraphAssumptions ==
  /\ NoNode \notin Nodes
  /\ Consumer \in [Edges -> Nodes \cup {NoNode}]
  /\ Outputs \in [Nodes -> Seq(Edges)]
  /\ \A n \in Nodes : Outputs[n] # <<>>
  /\ JoinOrder \in Seq(Nodes) /\ ToSet(JoinOrder) = Nodes
  /\ \A n, m \in Nodes : ToSet(Outputs[n]) \cap ToSet(Outputs[m]) # {} => n = m
  /\ \A n \in Nodes : \A i, j \in DOMAIN Outputs[n] : Outputs[n][i] = Outputs[n][j] => i = j
  /\ \A n \in Nodes : RootIn \notin ToSet(Outputs[n])
  /\ RootIn \in Edges /\ RootOut \in Edges /\ Consumer[RootOut] = NoNode
  /\ Capacity \in [Edges -> Nat \ {0}]
  /\ Builds \subseteq [kind   : [Nodes -> {"operator", "guard", "split", "merge"}],
                        policy : [Edges -> {"block", "dropNewest", "dropOldest"}]]
  /\ MaxItems \in Nat /\ Paths \in Nat

VARIABLES
  kind,            \* what each node is, fixed when the graph is built
  policy,          \* StreamEdge::policy_, fixed as well
  queue, closed,   \* StreamEdge::queue_, closed_
  rootCancelled,   \* GraphScheduler::root_
  cancelled,       \* the token each node forked from it
  at,              \* where a worker is in its run() loop
  held, left,      \* the item it is pushing, and the outputs still to push to
  stopped,         \* GraphScheduler::stopped_
  started,         \* SolutionRunner::started_
  call, todo,      \* the runner call a caller is in, and the nodes it has left
  fed              \* how many items the root input has accepted

buildVars == <<kind, policy>>
edgeVars == <<buildVars, queue, closed>>
tokenVars == <<rootCancelled, cancelled>>
workerVars == <<at, held, left>>
runnerVars == <<stopped, started, call, todo>>
vars == <<edgeVars, tokenVars, workerVars, runnerVars, fed>>

Callers == Feeders \cup Owners
Items == 1..MaxItems
NoItem == 0
Workers == {e \in Edges : Consumer[e] # NoNode}
WorkersOf(n) == {e \in Workers : Consumer[e] = n}
Done(n) == \A e \in WorkersOf(n) : at[e] = "done"
AllDone == \A n \in Nodes : Done(n)

-----------------------------------------------------------------------------
(* StreamEdge::push and pop: both sides hold the edge's mutex.             *)

(* Deviation: the capacity is compared off by one.                         *)
FullOffByOne(o) == Len(queue[o]) > Capacity[o]

Full(o) == Len(queue[o]) >= Capacity[o]

(* Deviation: the wait loop does not look at the cancel token.             *)
BlocksDeafly(o, isCancelled) == policy[o] = "block" /\ Full(o) /\ ~closed[o]

(* A BlockProducer push waits while the edge is full, open and wanted.     *)
Blocks(o, isCancelled) ==
  policy[o] = "block" /\ Full(o) /\ ~closed[o] /\ ~isCancelled

Rejects(o, isCancelled) ==
  closed[o] \/ isCancelled \/ (Full(o) /\ policy[o] # "dropOldest")

(* What is left of the queue when DropOldest has made room, which it does  *)
(* before it looks at the cancel token.                                    *)
Trimmed(o) ==
  IF policy[o] = "dropOldest" /\ Full(o) /\ ~closed[o] THEN Tail(queue[o]) ELSE queue[o]

Push(o, item, isCancelled) ==
  /\ ~Blocks(o, isCancelled)
  /\ queue' = [queue EXCEPT ![o] =
       IF Rejects(o, isCancelled) THEN Trimmed(o) ELSE Append(Trimmed(o), item)]

ClosedAnd(E) == [e \in Edges |-> closed[e] \/ e \in E]

-----------------------------------------------------------------------------
(* The worker loop of every node.                                          *)
Goto(e, to) == at' = [at EXCEPT ![e] = to]

(* Where the loop goes on: while (!cancelled) is checked once on the way   *)
(* to pop(), so a worker already in the loop may still take one item.      *)
NextRound(n) == IF cancelled[n] THEN "exit" ELSE "loop"

(* Deviation: the front is read and the back is popped.                    *)
PopsBack(e) ==
  /\ at[e] = "loop"
  /\ queue[e] # <<>>
  /\ queue' = [queue EXCEPT ![e] = Front(@)]

(* pop(): the oldest item leaves the edge.                                 *)
Take(e) ==
  /\ at[e] = "loop"
  /\ queue[e] # <<>>
  /\ queue' = [queue EXCEPT ![e] = Tail(@)]

(* An item to pass on: to every output, in order.                          *)
PopToPush(e) ==
  /\ Take(e)
  /\ Goto(e, "push")
  /\ held' = [held EXCEPT ![e] = Head(queue[e])]
  /\ left' = [left EXCEPT ![e] = Outputs[Consumer[e]]]
  /\ UNCHANGED <<buildVars, closed, tokenVars, runnerVars, fed>>

(* PayloadTypeGuardNode: an item may break its payload contract, which     *)
(* cancels the whole graph.                                                *)
PopViolation(e) ==
  /\ Take(e)
  /\ kind[Consumer[e]] = "guard"
  /\ Goto(e, "exit")
  /\ rootCancelled' = TRUE
  /\ UNCHANGED <<buildVars, closed, cancelled, held, left, runnerVars, fed>>

(* An operator that fails cancels its own token, and with it no other.     *)
OperatorFails(e) ==
  LET n == Consumer[e]
  IN /\ Take(e)
     /\ kind[n] = "operator"
     /\ Goto(e, "exit")
     /\ cancelled' = [cancelled EXCEPT ![n] = TRUE]
     /\ UNCHANGED <<buildVars, closed, rootCancelled, held, left, runnerVars, fed>>

(* An operator may consume an item and emit nothing: silence, or a window  *)
(* that is not full.                                                       *)
OperatorAbsorbs(e) ==
  /\ Take(e)
  /\ kind[Consumer[e]] = "operator"
  /\ Goto(e, NextRound(Consumer[e]))
  /\ UNCHANGED <<buildVars, closed, tokenVars, held, left, runnerVars, fed>>

(* A guard leaves its loop when a push fails; the others try the next      *)
(* output, then the next item.                                             *)
PushOne(e) ==
  LET n == Consumer[e]
      o == Head(left[e])
      last == Len(left[e]) = 1
  IN /\ at[e] = "push"
     /\ Push(o, held[e], cancelled[n])
     /\ Goto(e, IF kind[n] = "guard" /\ Rejects(o, cancelled[n]) THEN "exit"
                ELSE IF last THEN NextRound(n) ELSE "push")
     /\ left' = [left EXCEPT ![e] = Tail(@)]
     /\ held' = [held EXCEPT ![e] = IF last THEN NoItem ELSE @]
     /\ UNCHANGED <<buildVars, closed, tokenVars, runnerVars, fed>>

(* Deviation: the first worker of a merge to exit closes the output.       *)
FirstExitCloses(e) ==
  IF kind[Consumer[e]] = "split" THEN {} ELSE ToSet(Outputs[Consumer[e]])

(* The edges the exit of a worker closes: a split closes none, and the     *)
(* last worker of a merge closes its output.                               *)
ExitCloses(e) ==
  LET n == Consumer[e]
      lastOut == \A f \in WorkersOf(n) \ {e} : at[f] = "done"
  IN IF kind[n] # "split" /\ lastOut THEN ToSet(Outputs[n]) ELSE {}

(* Deviation: an empty edge is taken for a closed one.                     *)
ExitWhenIdle(e) ==
  /\ \/ at[e] = "exit"
     \/ at[e] = "loop" /\ queue[e] = <<>>
  /\ Goto(e, "done")
  /\ closed' = ClosedAnd(ExitCloses(e))
  /\ UNCHANGED <<buildVars, queue, tokenVars, held, left, runnerVars, fed>>

(* The loop is over, or pop() would return nullopt, or the token is        *)
(* cancelled before the worker gets to pop().                              *)
Exit(e) ==
  /\ \/ at[e] = "exit"
     \/ at[e] = "loop" /\ cancelled[Consumer[e]]
     \/ at[e] = "loop" /\ queue[e] = <<>> /\ closed[e]
  /\ Goto(e, "done")
  /\ closed' = ClosedAnd(ExitCloses(e))
  /\ UNCHANGED <<buildVars, queue, tokenVars, held, left, runnerVars, fed>>

WorkerStep(e) ==
  \/ PopToPush(e) \/ PopViolation(e) \/ OperatorFails(e) \/ OperatorAbsorbs(e)
  \/ PushOne(e) \/ Exit(e)

(* The cascade of a cancelled root token reaches the children one by one,  *)
(* in the order in which the nodes were started.                           *)
Cascade(n) ==
  /\ rootCancelled /\ ~cancelled[n]
  /\ \A i, j \in DOMAIN JoinOrder : JoinOrder[i] = n /\ j < i => cancelled[JoinOrder[j]]
  /\ cancelled' = [cancelled EXCEPT ![n] = TRUE]
  /\ UNCHANGED <<edgeVars, rootCancelled, workerVars, runnerVars, fed>>

-----------------------------------------------------------------------------
(* SolutionRunner and GraphScheduler calls.  A call that finds the runner  *)
(* not started changes nothing.                                            *)
Begin(c, what, nodes) ==
  /\ call[c] = "idle"
  /\ call' = [call EXCEPT ![c] = what]
  /\ todo' = [todo EXCEPT ![c] = nodes]

(* feed() copies the edge and the root token, and pushes unlocked.         *)
FeedBegin(c) ==
  /\ started
  /\ fed < MaxItems
  /\ Begin(c, "feeding", <<>>)
  /\ UNCHANGED <<edgeVars, tokenVars, workerVars, stopped, started, fed>>

FeedPush(c) ==
  /\ call[c] = "feeding"
  /\ fed < MaxItems
  /\ Push(RootIn, fed + 1, rootCancelled)
  /\ fed' = IF Rejects(RootIn, rootCancelled) THEN fed ELSE fed + 1
  /\ call' = [call EXCEPT ![c] = "idle"]
  /\ UNCHANGED <<buildVars, closed, tokenVars, workerVars, stopped, started, todo>>

CloseInput(c) ==
  /\ started /\ call[c] = "idle"
  /\ closed' = ClosedAnd({RootIn})
  /\ UNCHANGED <<buildVars, queue, tokenVars, workerVars, runnerVars, fed>>

(* stop() closes the root input, cancel() cancels the root token; both     *)
(* then run GraphScheduler::stop(), which does its work once.              *)
SchedulerStop(c) ==
  /\ started
  /\ IF stopped THEN call[c] = "idle" /\ UNCHANGED <<call, todo>>
     ELSE Begin(c, "stopping", JoinOrder)
  /\ stopped' = TRUE

StopRunner(c) ==
  /\ SchedulerStop(c)
  /\ closed' = ClosedAnd({RootIn})
  /\ UNCHANGED <<buildVars, queue, tokenVars, workerVars, started, fed>>

CancelRunner(c) ==
  /\ SchedulerStop(c)
  /\ rootCancelled' = TRUE
  /\ UNCHANGED <<edgeVars, cancelled, workerVars, started, fed>>

(* Every node's stop(): its token, then its inputs.                        *)
StopNode(c) ==
  LET n == Head(todo[c])
  IN /\ call[c] = "stopping" /\ todo[c] # <<>>
     /\ cancelled' = [cancelled EXCEPT ![n] = TRUE]
     /\ closed' = ClosedAnd(WorkersOf(n))
     /\ todo' = [todo EXCEPT ![c] = Tail(@)]
     /\ UNCHANGED <<buildVars, queue, rootCancelled, workerVars, stopped, started, call, fed>>

StopReturns(c) ==
  /\ call[c] = "stopping" /\ todo[c] = <<>>
  /\ call' = [call EXCEPT ![c] = "idle"]
  /\ UNCHANGED <<edgeVars, tokenVars, workerVars, stopped, started, todo, fed>>

(* wait() takes the graph away from the runner, closes the root input and  *)
(* joins the nodes one after the other.                                    *)
WaitBegin(c) ==
  /\ started
  /\ Begin(c, "waiting", JoinOrder)
  /\ started' = FALSE
  /\ closed' = ClosedAnd({RootIn})
  /\ UNCHANGED <<buildVars, queue, tokenVars, workerVars, stopped, fed>>

(* Deviation: a join leaves the outputs of the node open.                  *)
JoinLeavesOpen(n) == {}

JoinCloses(n) == ToSet(Outputs[n])

JoinNode(c) ==
  LET n == Head(todo[c])
  IN /\ call[c] = "waiting" /\ todo[c] # <<>>
     /\ Done(n)
     /\ closed' = ClosedAnd(JoinCloses(n))
     /\ todo' = [todo EXCEPT ![c] = Tail(@)]
     /\ UNCHANGED <<buildVars, queue, tokenVars, workerVars, stopped, started, call, fed>>

(* The output is emptied and the scheduler is destroyed, which cancels it. *)
WaitReturns(c) ==
  /\ call[c] = "waiting" /\ todo[c] = <<>>
  /\ call' = [call EXCEPT ![c] = "idle"]
  /\ queue' = [queue EXCEPT ![RootOut] = <<>>]
  /\ rootCancelled' = TRUE
  /\ stopped' = TRUE
  /\ UNCHANGED <<buildVars, closed, cancelled, workerVars, started, todo, fed>>

CallerContinues(c) ==
  FeedPush(c) \/ StopNode(c) \/ StopReturns(c) \/ JoinNode(c) \/ WaitReturns(c)

CallerStarts(c) ==
  \/ c \in Feeders /\ FeedBegin(c)
  \/ c \in Owners /\ (CloseInput(c) \/ StopRunner(c) \/ CancelRunner(c) \/ WaitBegin(c))

-----------------------------------------------------------------------------
GraphInit ==
  /\ \E b \in Builds : kind = b.kind /\ policy = b.policy
  /\ queue  = [e \in Edges |-> <<>>]
  /\ closed = [e \in Edges |-> FALSE]
  /\ rootCancelled = FALSE
  /\ cancelled = [n \in Nodes |-> FALSE]
  /\ at   = [e \in Workers |-> "loop"]
  /\ held = [e \in Workers |-> NoItem]
  /\ left = [e \in Workers |-> <<>>]
  /\ stopped = FALSE /\ started = TRUE
  /\ call = [c \in Callers |-> "idle"]
  /\ todo = [c \in Callers |-> <<>>]
  /\ fed  = 0

GraphProgress == (\E e \in Workers : WorkerStep(e)) \/ (\E n \in Nodes : Cascade(n))

GraphNext ==
  \/ GraphProgress
  \/ \E c \in Callers : CallerContinues(c) \/ CallerStarts(c)

GraphSpec == GraphInit /\ [][GraphNext]_vars

(* The graph does not stand still while one of its threads can run, and a  *)
(* caller that stops or waits is scheduled; nobody has to feed, stop,      *)
(* cancel or wait.  The items are bounded, so no thread of the graph can   *)
(* keep the others waiting for ever.                                       *)
FairGraphSpec ==
  /\ GraphSpec
  /\ WF_vars(GraphProgress)
  /\ \A c \in Owners : WF_vars(CallerContinues(c))

-----------------------------------------------------------------------------
(* The type invariant: among the rest, no edge outgrows its capacity.      *)
GraphTypeOK ==
  /\ [kind |-> kind, policy |-> policy] \in Builds
  /\ queue  \in [Edges -> Seq(Items)]
  /\ \A e \in Edges : Len(queue[e]) <= Capacity[e]
  /\ closed \in [Edges -> BOOLEAN]
  /\ rootCancelled \in BOOLEAN
  /\ cancelled \in [Nodes -> BOOLEAN]
  /\ at   \in [Workers -> {"loop", "push", "exit", "done"}]
  /\ held \in [Workers -> Items \cup {NoItem}]
  /\ left \in [Workers -> Seq(Edges)]
  /\ stopped \in BOOLEAN /\ started \in BOOLEAN
  /\ call \in [Callers -> {"idle", "feeding", "stopping", "waiting"}]
  /\ todo \in [Callers -> Seq(Nodes)]
  /\ fed  \in 0..MaxItems

(* Nobody is allowed to drop an item: no operator, no overflow policy.     *)
Lossless ==
  /\ \A e \in Edges : policy[e] = "block"
  /\ \A n \in Nodes : kind[n] # "operator"

(* The ways an item can go: from the root input through a worker's node to *)
(* one of its outputs, and on from there.  Paths is how many of them end   *)
(* in the root output.                                                     *)
IsRoute(p) ==
  /\ p # <<>> /\ p[1] = RootIn
  /\ \A i \in 1..(Len(p) - 1) :
       p[i] \in Workers /\ p[i + 1] \in ToSet(Outputs[Consumer[p[i]]])

(* How often an item has come out of the graph.                            *)
Delivered(m) == Cardinality({i \in DOMAIN queue[RootOut] : queue[RootOut][i] = m})

(* No item comes out twice on a path; and where nothing may be dropped the *)
(* items come out of every path in the order they were fed, none skipped,  *)
(* whatever is stopped or cancelled and wherever a producer was blocked    *)
(* when it happened.                                                       *)
DeliveredInOrder ==
  \A m \in Items : /\ Delivered(m) <= Paths
                   /\ Lossless /\ m > 1 => Delivered(m) <= Delivered(m - 1)

(* A graph that ran to its end undisturbed delivered every item on every   *)
(* path: no worker took an end-of-stream for the end of its input.         *)
NothingLost ==
  AllDone /\ Lossless /\ ~rootCancelled /\ ~stopped =>
    \A m \in 1..fed : Delivered(m) = Paths

(* A worker leaves its loop only at the end of its input, unless its own   *)
(* token was cancelled or somebody stopped or cancelled the graph: neither *)
(* a full edge nor a failed neighbour ends it ...                          *)
NoEarlyEnd ==
  \A e \in Workers :
    at[e] = "done" /\ ~cancelled[Consumer[e]] /\ ~rootCancelled /\ ~stopped =>
      closed[e] /\ queue[e] = <<>>

(* ... as long as no guard pushes to a DropNewest edge, whose overflow the *)
(* guard takes for a cancellation.                                         *)
GuardsNeverDrop ==
  \A n \in Nodes : kind[n] = "guard" =>
    \A o \in ToSet(Outputs[n]) : policy[o] # "dropNewest"

NoEarlyEndUndropped == GuardsNeverDrop => NoEarlyEnd

(* An operator failed, and nobody stopped or cancelled the graph.          *)
OperatorFailed == ~rootCancelled /\ ~stopped /\ \E n \in Nodes : cancelled[n]

(* A cancelled graph stops: no worker stays blocked on a full or an empty  *)
(* edge, even when it was a guard that cancelled and nobody closed edges.  *)
CancelStopsWorkers == rootCancelled ~> AllDone

(* wait() returns as long as no operator fails and the root output holds   *)
(* what comes out: closing the root input and joining the nodes in this    *)
(* order is enough for every worker to see its end.                        *)
WaitEnds == \A c \in Callers : call[c] = "waiting" ~> call[c] = "idle" \/ OperatorFailed
=============================================================================
