----------------------------- MODULE MCCalendar -----------------------------
(***************************************************************************)
(* Calendar from 1970 past the 400 years that begin at LEAPOCH, and around *)
(* the last year the handler accepts.                                      *)
(***************************************************************************)
EXTENDS Calendar

MCYears == 1970..2402 \cup 11898..11900
=============================================================================
