-------------------------------- MODULE MCWifi ---------------------------------
(***************************************************************************)
(* An instance of WifiInterface in which the modem is always in time.      *)
(***************************************************************************)
EXTENDS WifiInterface

PunctualSpec == Init /\ [][Next /\ ~late']_vars

\* A client is sent nothing of another's reply.  The log at WifiInterface.cpp
\* line 307 calls a reply that clashes with a request LOST.
NoPartOfAReplyAstray ==
  \A i \in DOMAIN delivered.data :
    delivered.data[i] \in {"AT", Printed(delivered.client)}
=============================================================================
