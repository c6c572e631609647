--------------------------- MODULE MCWebSocketHub ---------------------------
(* Two clients, one of which may be slow while the other is not; buffers   *)
(* of one message fill at once.  Nothing else is bounded.                  *)
EXTENDS WebSocketHub, TLC
=============================================================================
