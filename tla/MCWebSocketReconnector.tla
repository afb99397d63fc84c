----------------------- MODULE MCWebSocketReconnector -----------------------
(* Connections that may overlap, few failures in a row, a short chain.     *)
EXTENDS WebSocketReconnector
==============================================================================
