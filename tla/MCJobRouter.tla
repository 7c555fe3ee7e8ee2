----------------------------- MODULE MCJobRouter -----------------------------
(* JobRouter on small instances.                                           *)
EXTENDS JobRouter

\* Every job has the one topic, and every module handles it.
OneTopic == {"compute"}
AllCompute == [c \in Jobs |-> "compute"]
AllHandle == [m \in Modules |-> {"compute"}]
=============================================================================
