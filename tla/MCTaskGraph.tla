------------------------------ MODULE MCTaskGraph ------------------------------
(* Passes over one resource of two units: whole and partial, reads and writes. *)
EXTENDS TaskGraph

Access(mode, first, end) == [key |-> "buffer", mode |-> mode, first |-> first, end |-> end]

MCAccessLists == {
    <<Access("READ", 0, 2)>>,
    <<Access("WRITE", 0, 2)>>,
    <<Access("WRITE", 0, 1)>>,
    <<Access("READ", 1, 2)>>,
    <<Access("READ", 0, 1), Access("WRITE", 1, 2)>>
}
=============================================================================
