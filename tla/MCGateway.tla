------------------------------ MODULE MCGateway ------------------------------
(* Gateway with one product, a small option buffer and a trader API.       *)
EXTENDS Gateway

\* The market-data API reconnects once; the trader API matters only for the start.
MCMaxSessions == [md |-> 2, td |-> 1]
=============================================================================
