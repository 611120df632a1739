------------------------- MODULE MCLifecycleSystem -------------------------
(* One component reached through the registry and through one handle.      *)
EXTENDS LifecycleSystem, TLC

CONSTANTS llm, chat, cpu

OneHandle == [h \in Handles |-> llm]
OneServer == {<<cpu, llm>>}
OnePriority == [g \in Engines |-> 50]

OneModel ==
  {[model |-> chat, component |-> llm, candidates |-> <<cpu>>, force |-> f, npuOnly |-> FALSE]
     : f \in BOOLEAN}

MCSymmetry == Permutations(Entries) \cup Permutations(Threads)
=============================================================================
