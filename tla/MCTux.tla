------------------------------- MODULE MCTux --------------------------------
(***************************************************************************)
(* A button of the first byte.  The driver's zeros differ from each report  *)
(* in both bytes: the first event can be mixed with them.                   *)
(***************************************************************************)
EXTENDS Tux

MCReports == {<<Idle, Idle>>, <<Held, Idle>>}
=============================================================================
