------------------------- MODULE MCEventSubmission --------------------------
(* Small instances of EventSubmission. *)
EXTENDS EventSubmission

\* All keys hash to one advisory lock.
OneLock == [k \in Keys |-> CHOOSE l \in LockKeys : TRUE]
=============================================================================
