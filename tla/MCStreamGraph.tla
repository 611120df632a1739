---------------------------- MODULE MCStreamGraph ----------------------------
(* A small graph of the kind PipelineExecutor builds: a fan-out that is    *)
(* merged again.                                                           *)
EXTENDS StreamGraph, TLC

CONSTANTS split, guard, merge,              \* nodes
          in, typed, checked, direct, out   \* edges

DiamondKind == (split :> "split") @@ (guard :> "guard") @@ (merge :> "merge")
DiamondConsumer == (in :> split) @@ (typed :> guard) @@ (checked :> merge)
                     @@ (direct :> merge) @@ (out :> NoNode)
DiamondOutputs ==
  (split :> <<typed, direct>>) @@ (guard :> <<checked>>) @@ (merge :> <<out>>)
DiamondJoin == <<split, guard, merge>>

(* Two slots at the root, one slot inside, and room at the end for all     *)
(* that comes out.                                                         *)
RoomAtTheEnd ==
  [e \in Edges |-> CASE e = out -> Paths * MaxItems [] e = in -> 2 [] OTHER -> 1]

AllBlock == [e \in Edges |-> "block"]

(* A guard or an operator in one branch of the diamond; where it is an     *)
(* operator the branches may drop items.                                   *)
DiamondBuilds ==
  {[kind |-> DiamondKind, policy |-> AllBlock],
   [kind |-> [DiamondKind EXCEPT ![guard] = "operator"],
    policy |-> [AllBlock EXCEPT ![typed] = "dropOldest", ![direct] = "dropNewest"]]}

(* The paths of the diamond; a route passes every node once at most.       *)
ASSUME DiamondPaths ==
  Cardinality({p \in UNION {[1..k -> Edges] : k \in 1..(Cardinality(Nodes) + 1)} :
                 IsRoute(p) /\ Last(p) = RootOut}) = Paths
==============================================================================
