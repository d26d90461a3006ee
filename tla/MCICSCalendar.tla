---------------------------- MODULE MCICSCalendar ----------------------------
(* Small instances of ICSCalendar. *)
EXTENDS ICSCalendar
=============================================================================
