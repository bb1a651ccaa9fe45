----------------------------- MODULE MCKubeview -----------------------------
(* Instances of KubeviewViewer for TLC. *)
EXTENDS KubeviewViewer, TLC
=============================================================================
