----------------------------- MODULE MCEventPath -----------------------------
(* EventPath for TLC: one topic, one event more than its queue holds, and a  *)
(* module that subscribes.                                                   *)
EXTENDS EventPath

CONSTANT t1

OneTopic == <<t1>>
Subscriber == [m \in Modules |-> {<<"ON", t1>>}]
SameTopic == [e \in Events |-> t1]
OneEach == [e \in Events |-> IF e = 2 THEN "bridge" ELSE "proxy"]
=============================================================================
