-------------------------- MODULE MCResourceManager --------------------------
(***************************************************************************)
(* Instances of ResourceManager for TLC.  Each run lets its clients use    *)
(* the operations one question is about, plus the ones that disturb them.  *)
(***************************************************************************)
EXTENDS ResourceManager, TLC

MediaTraffic == MediaOps \cup {"GetSystem"}
PowerTraffic == {"PowerOff", "PowerCycle", "BootPxe"}

(* Requests and images are interchangeable, and no property checked with   *)
(* this symmetry is a liveness property.                                   *)
Symmetry == Permutations(Requests) \cup Permutations(Images)
=============================================================================
