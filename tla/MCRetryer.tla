----------------------------- MODULE MCRetryer -----------------------------
(* One caller with as many channels as attempts: it may wait twice and     *)
(* leave channels behind; a channel of one place fills at once.  Nothing   *)
(* else is bounded: the network may change for ever.                       *)
EXTENDS Retryer

MCChannels == Callers \X (1 .. MaxAttempts)
=============================================================================
