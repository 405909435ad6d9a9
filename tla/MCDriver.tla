------------------------------- MODULE MCDriver -------------------------------
(* One call at a time, since calls share nothing but the supply of ids; a page *)
(* holds two events, so that a turn is read in several.                        *)
EXTENDS Driver
=============================================================================
