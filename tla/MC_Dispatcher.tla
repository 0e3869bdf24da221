---------------------------- MODULE MC_Dispatcher ----------------------------
(* Model values for the dispatcher runs: two peers, the two loops started  *)
(* for the control port and the transfer port.                            *)
EXTENDS Dispatcher, TLC

CONSTANTS p1, p2, cBase, cTrans

\* Every kind the switch names, OTHER for default, and an unparsable body.
MCAllKinds == AllKinds \cup {Unparsable}

(* One kind of each shape the loop treats differently: answered after   *)
(* the handler, before it, not at all, unparsable, and the share apply   *)
(* and its reply whose handlers read and write the share address.       *)
MCShapes == {"LOGIN_INFO", "SHARE_STOP", "LOGIN_CONFIRM", Unparsable,
             "APPLY_SHARE_CONNECT", "APPLY_SHARE_CONNECT_RES"}

(* The share controller stops right after starting: the only kinds of    *)
(* the serial run, so that any violation is a start and a stop handled  *)
(* out of order.                                                           *)
MCStartStop == {"SHARE_START", "SHARE_STOP"}

\* Every peer may send every kind of the run.
MCAnyKind == [p \in Peers |-> Kinds]
=============================================================================
