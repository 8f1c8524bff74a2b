---------------------------- MODULE MCFdManager ----------------------------
(***************************************************************************)
(* FdManager for TLC: descriptors 0..2 and receive/send timeouts of one    *)
(* second and of 1000 microseconds.  MCFdManager.cfg starts m_datas with   *)
(* two entries (the code's 64 is more than a small program opens), so a    *)
(* third socket lands past the end of the table; MCFdManagerView.cfg       *)
(* checks the FdView refinement on the same instance.                      *)
(***************************************************************************)
EXTENDS FdManager

MCFds == {0, 1, 2}

MCTimeVals == {[sec |-> 1, usec |-> 0], [sec |-> 0, usec |-> 1000]}

=============================================================================
