------------------------------- MODULE MCHub -------------------------------
(***************************************************************************)
(* Instances of Hub for TLC: an agent "a" and a human "h".                  *)
(***************************************************************************)
EXTENDS Hub, TLC

CONSTANTS c1, c2, a, h, g1, r1

\* Every member has a name of its own.
MCNameOf == [m \in Members |-> m]

\* The human has the agent's name, in another workspace.
SharedName == [m \in Members |-> a]

\* Everyone is in every channel at start.
MCRoster == [ch \in Channels |-> Members]

\* Connections are created alike and nothing orders them.
ConnSymmetry == Permutations(Conns)
=============================================================================
