----------------------------- MODULE JobService -----------------------------
(***************************************************************************)
(* What the engine promises those who use jobs: a request is answered at   *)
(* most once, with an error or with the response of a module that the job  *)
(* was offered to; it is offered to modules, perhaps to several, until it  *)
(* is answered and not after; and a response is thrown away only if it     *)
(* comes too late.                                                         *)
(*                                                                         *)
(* This is the abstract specification that JobRouter implements.           *)
(***************************************************************************)
EXTENDS Sequences

CONSTANTS Modules,   \* those who may handle a job
          Jobs,      \* the requests
          Errors     \* the errors a requester may get

VARIABLES asked,     \* jobs that were requested
          offered,   \* <<m, c>>: module m has job c and may respond
          answers    \* what each requester has got

vars == <<asked, offered, answers>>

Init ==
  /\ asked = {} /\ offered = {}
  /\ answers = [c \in Jobs |-> <<>>]

Open(c) == c \in asked /\ answers[c] = <<>>

Ask(c) ==
  /\ c \notin asked
  /\ asked' = asked \cup {c}
  /\ UNCHANGED <<offered, answers>>

Offer(m, c) ==
  /\ Open(c)
  /\ offered' = offered \cup {<<m, c>>}
  /\ UNCHANGED <<asked, answers>>

\* The module may have been offered the job twice, and then responds again.
Respond(m, c) ==
  /\ Open(c) /\ <<m, c>> \in offered
  /\ offered' \in {offered, offered \ {<<m, c>>}}
  /\ answers' = [answers EXCEPT ![c] = <<"response">>]
  /\ UNCHANGED asked

RespondLate(m, c) ==
  /\ answers[c] # <<>>
  /\ offered' = offered \ {<<m, c>>}
  /\ UNCHANGED <<asked, answers>>

Fail(c, error) ==
  /\ Open(c)
  /\ answers' = [answers EXCEPT ![c] = <<error>>]
  /\ UNCHANGED <<asked, offered>>

Next ==
  \E c \in Jobs :
    \/ Ask(c)
    \/ \E m \in Modules : Offer(m, c) \/ Respond(m, c) \/ RespondLate(m, c)
    \/ \E error \in Errors : Fail(c, error)

Spec == Init /\ [][Next]_vars
=============================================================================
