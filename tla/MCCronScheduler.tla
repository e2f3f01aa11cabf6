-------------------------- MODULE MCCronScheduler --------------------------
(* A small instance of CronScheduler for TLC.  The threads are not taken as  *)
(* interchangeable: that is unsound for Converges.                           *)
EXTENDS CronScheduler
=============================================================================
