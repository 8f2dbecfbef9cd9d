---------------------------- MODULE MCRealSense ----------------------------
(* RealSense with enable_sync (one video callback) and the IMU held back.  *)
EXTENDS RealSense
=============================================================================
