--------------------------- MODULE MCCalDavCalendar ---------------------------
(* Small instances of CalDavCalendar. *)
EXTENDS CalDavCalendar
=============================================================================
