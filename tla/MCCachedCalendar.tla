--------------------------- MODULE MCCachedCalendar ---------------------------
(* Small instances of CachedCalendar. *)
EXTENDS CachedCalendar
=============================================================================
