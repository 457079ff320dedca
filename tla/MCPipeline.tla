----------------------------- MODULE MCPipeline -----------------------------
(***************************************************************************)
(* The instance of Pipeline for TLC.  Hosts are the addresses around both  *)
(* ends of 172.16.0.0/12, a name that is refused and one that is not.      *)
(***************************************************************************)
EXTENDS Pipeline, TLC

CONSTANTS r1, r2, i1, i2

MCRequests == {r1, r2}
MCInstances == {i1, i2}
MCLimit == [route \in {"login", "register"} |-> 1]
MCHosts ==
  {[kind |-> "address", ip |-> ip] :
     ip \in {<<172, 15, 255, 255>>, <<172, 16, 0, 0>>,
             <<172, 31, 255, 255>>, <<172, 32, 0, 0>>}}
  \cup {[kind |-> "name", name |-> n] : n \in {"localhost", "example.com"}}
Symmetry == Permutations(MCRequests) \cup Permutations(MCInstances)
=============================================================================
