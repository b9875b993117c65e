----------------------------- MODULE MCDownload -----------------------------
(* Download instantiated for TLC.                                            *)
EXTENDS Download

AllFaults == {"path", "open", "write", "commit"}
=============================================================================
