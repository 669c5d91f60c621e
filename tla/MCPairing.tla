----------------------------- MODULE MCPairing ------------------------------
(***************************************************************************)
(* Two agents and two tokens.  Agents, hosts and tokens are                *)
(* interchangeable.                                                        *)
(***************************************************************************)
EXTENDS Pairing, TLC

Symmetry == {a @@ h @@ t : a \in Permutations(Agents), h \in Permutations(Hosts),
                             t \in Permutations(Tokens)}
=============================================================================
