------------------------- MODULE MCScheduledDispatch -------------------------
(* One session.  Two fires may overlap: the job may run for half an hour    *)
(* and starts every ten minutes.  The window holds two fires, a third comes *)
(* after it.                                                                *)
EXTENDS ScheduledDispatch

=============================================================================
