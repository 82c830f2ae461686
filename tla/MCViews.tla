------------------------------ MODULE MCViews -------------------------------
(* Views for TLC: a width at which 20 * 100 fits and 21 * 100 does not. *)
EXTENDS Views

MCBytes == {0, 1, 15, 16, 18, 19, 20, 21, 24, 40}

MCQuotas == {1, 7, 19, 20, 24}
=============================================================================
