---------------------------- MODULE MCDispatcher ----------------------------
(***************************************************************************)
(* Dispatcher for TLC.  The timeouts are the code's, in seconds; the queue *)
(* is one job deep so that a slow consumer fills it.                       *)
(***************************************************************************)
EXTENDS Dispatcher

CONSTANTS all, picky

\* One endpoint takes every event, the other the usage events only.
Wants == [ep \in Endpoints |-> IF ep = all THEN Types ELSE {"usage"}]
=============================================================================
