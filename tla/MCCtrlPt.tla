------------------------------ MODULE MCCtrlPt ------------------------------
(***************************************************************************)
(* CtrlPt for TLC.  CtrlPt_expiry.cfg has the life of an advertisement and *)
(* the tick of ctrlpt.c, 5 and 30: a device is gone at the first tick.     *)
(* CtrlPt.cfg has a tick of 3, with which a device lives for two and the   *)
(* branch that renews it is taken as well.                                 *)
(***************************************************************************)
EXTENDS CtrlPt
=============================================================================
