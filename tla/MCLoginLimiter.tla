-------------------------- MODULE MCLoginLimiter --------------------------
(* LoginLimiter on interchangeable addresses. *)
EXTENDS LoginLimiter, TLC

Symmetry == Permutations(IPs)
=============================================================================
