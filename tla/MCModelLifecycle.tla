-------------------------- MODULE MCModelLifecycle --------------------------
(* Small instances of the registry API.  Two components that the NPU       *)
(* engine serves, one of which a CPU engine serves too.                    *)
EXTENDS ModelLifecycle, TLC

CONSTANTS llm, vlm, chat, vision, npu, cpu

Load(m, c, engines, force, npuOnly) ==
  [model |-> m, component |-> c, candidates |-> engines, force |-> force, npuOnly |-> npuOnly]

MCServes == {<<npu, llm>>, <<npu, vlm>>, <<cpu, llm>>} \cap (Engines \X Components)
MCPriority == [g \in {npu, cpu} |-> IF g = npu THEN 150 ELSE 50]

(* Every request names an engine that is registered for its component.     *)
PinnedRequests ==
  {Load(chat, llm, <<npu>>, FALSE, TRUE), Load(chat, llm, <<npu>>, TRUE, FALSE),
   Load(vision, llm, <<cpu>>, FALSE, FALSE), Load(vision, vlm, <<npu>>, FALSE, FALSE)}

(* A CPU model, a placement the NPU policy must turn away, and a swap.     *)
PlacementRequests ==
  {Load(chat, llm, <<cpu>>, TRUE, FALSE), Load(vision, llm, <<cpu, npu>>, FALSE, TRUE),
   Load(vision, llm, <<npu>>, FALSE, TRUE)}

MCSymmetry == Permutations(Entries) \cup Permutations(Threads)
=============================================================================
