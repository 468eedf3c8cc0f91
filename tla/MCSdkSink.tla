----------------------------- MODULE MCSdkSink -----------------------------
(* Instances of SdkSink for TLC.                                            *)
EXTENDS SdkSink
=============================================================================
