------------------------------ MODULE MCRWLock ------------------------------
(* Model checking of RWLock on the threads its .cfg names.                 *)
EXTENDS RWLock
=============================================================================
