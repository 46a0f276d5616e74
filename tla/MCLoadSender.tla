---------------------------- MODULE MCLoadSender ----------------------------
(* Instances of LoadSender for TLC. *)
EXTENDS LoadSender

\* A second with several requests, a silent one, and one with a single request.
MCScript == <<3, 0, 1>>
=============================================================================
