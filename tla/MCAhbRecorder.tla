--------------------------- MODULE MCAhbRecorder ----------------------------
(* A window of three records and up to eight transfers: the buffer wraps   *)
(* twice, or wraps, is reset and wraps again.                              *)
EXTENDS AhbRecorder
=============================================================================
