------------------------------- MODULE Layers -------------------------------
(***************************************************************************)
(* Mappings laid over each other, as {**g, **f} and dict.update do it: the *)
(* @@ of module TLC, written so that the proofs can expand it.             *)
(***************************************************************************)
\* What f says, and what g says where f is silent.
Over(f, g) == [x \in DOMAIN f \cup DOMAIN g |-> IF x \in DOMAIN f THEN f[x] ELSE g[x]]
=============================================================================
