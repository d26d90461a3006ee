---------------------------- MODULE MCAlarmService ----------------------------
(* Small instances of AlarmService. *)
EXTENDS AlarmService

\* A tick before the start; and two ticks after it, which is at the end of an item
\* of that length and after the end of one without length.
MCOffsets == {-1, 2}
=============================================================================
