-------------------------- MODULE MC_CompatWrapper --------------------------
(* One message of each shape the slot treats differently that a bound   *)
(* wrapper turns into a call: a found peer running the cooperation app   *)
(* (queued add), a lost peer without it (queued remove), a connect       *)
(* result (direct), a share request (queued), a failed login status     *)
(* (direct), and a message whose JSON does not parse.                    *)
EXTENDS CompatWrapper

Msg(t) ==
    [type |-> t, json |-> TRUE, inner |-> TRUE, find |-> TRUE, coop |-> TRUE,
     apply |-> "APPLY", negative |-> FALSE, login |-> FALSE]

MCMsgs ==
    { Msg("FRONT_PEER_CB"),
      [Msg("FRONT_PEER_CB") EXCEPT !.find = FALSE, !.coop = FALSE],
      Msg("FRONT_CONNECT_CB"),
      Msg("FRONT_SHARE_APPLY_CONNECT"),
      [Msg("FRONT_SEND_STATUS") EXCEPT !.negative = TRUE, !.login = TRUE],
      [Msg("FRONT_APPLY_TRANS_FILE") EXCEPT !.json = FALSE] }

=============================================================================
