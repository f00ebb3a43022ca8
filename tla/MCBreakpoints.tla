--------------------------- MODULE MCBreakpoints ---------------------------
(* A small breakpoint table: two slots fewer than there are additions, so  *)
(* that it fills up, is deleted from in every order, and overruns.  The    *)
(* configuration gives every constant its value.                           *)
EXTENDS M68KBreakpoints
=============================================================================
