------------------------------- MODULE MCCdcSink -------------------------------
(* One table with deletions, and one without a converter. *)
EXTENDS CdcSink
=============================================================================
