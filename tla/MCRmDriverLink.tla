--------------------------- MODULE MCRmDriverLink ---------------------------
(* Two callback groups stand for the three; the controller is lost twice, so *)
(* that a reconnection follows a reconnection.                              *)
EXTENDS RmDriverLink

MCCallers == {"default", "group2"}
=============================================================================
