---------------------------- MODULE OfflineJournal ----------------------------
(***************************************************************************)
(* What the offline journal promises, whatever database keeps it: per item *)
(* one of the flags of calIChangeLog.idl:153-155, changed as a unit.       *)
(***************************************************************************)
CONSTANT Items

VARIABLE journal

Init == journal = [i \in Items |-> "none"]

\* The item is (again) one the server has to be given.
Create(i) == journal' = [journal EXCEPT ![i] = "created"]

\* Only an item in step with the server becomes one it has to be updated about.
Modify(i) ==
    /\ journal[i] = "none"
    /\ journal' = [journal EXCEPT ![i] = "modified"]

\* Only an item the server knows becomes one it has to be told to delete.
Delete(i) ==
    /\ journal[i] \in {"none", "modified"}
    /\ journal' = [journal EXCEPT ![i] = "deleted"]

\* Nothing is owed to the server any more: it was told, the item was never
\* there, or the record was given up.
Discharge(i) == journal' = [journal EXCEPT ![i] = "none"]

DischargeAll == journal' = [i \in Items |-> "none"]

Next ==
    \/ \E i \in Items : Create(i) \/ Modify(i) \/ Delete(i) \/ Discharge(i)
    \/ DischargeAll

Spec == Init /\ [][Next]_journal
=============================================================================
