----------------------------- MODULE MCTopoSort -----------------------------
(***************************************************************************)
(* Instances of TopoSort.                                                  *)
(***************************************************************************)
EXTENDS TopoSort, CircuitSamples

MCCircuits == SomeWirings \cup Samples
AllFaults == {"temp", "fdopen", "fork", "exec"}
=============================================================================
