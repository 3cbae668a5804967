---------------------------- MODULE MCPersistence ----------------------------
(* Small instances of Persistence for TLC. *)
EXTENDS Persistence

\* A peer's write and the delete that follows it.
MCRemoteEntries ==
    {NewEntry(CHOOSE v \in Values : TRUE, 1, 2, FALSE), NewEntry(None, 2, 2, TRUE)}
=============================================================================
