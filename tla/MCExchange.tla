------------------------------ MODULE MCExchange ------------------------------
(***************************************************************************)
(* Small instances of Exchange for TLC.                                    *)
(***************************************************************************)
EXTENDS Exchange

\* A request of one frame, a response of two.
OneAndTwo == [p \in Side |-> IF p = "server" THEN 1 ELSE 2]

\* proxyTo aborts; the tunnel client may close its session.
AbortAndClose == {<<"abort", "server">>, <<"close", "client">>}

\* The client closes its session, if at all, before the request is sent or while
\* the response is relayed, and then the viewer stays.
TunnelDies ==
  IF \E p \in Side : closed[p]
  THEN viewer' = viewer
  ELSE closed' # closed => viewer = "here" /\ h \in {"open", "opening", "relay"}
EXSpecDying == EXInit /\ [][EXNext /\ TunnelDies]_allVars /\ EXFairness
=============================================================================
