------------------------- MODULE MCLifecycleFacade -------------------------
(* A small instance of the facade: two handles, each with a component of   *)
(* its own, so every entry in a slot is its handle's.                      *)
EXTENDS LifecycleFacade

CONSTANTS llm, vlm, h1, h2

OwnComponent == [h \in Handles |-> IF h = h1 THEN llm ELSE vlm]
=============================================================================
