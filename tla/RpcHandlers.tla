----------------------------- MODULE RpcHandlers -----------------------------
(***************************************************************************)
(* The effect of each remote-message handler of HandleRpcService           *)
(* (src/compat/plugins/daemon/core/service/rpc/handlerpcservice.cpp) on    *)
(* the session state the handlers share:                                   *)
(*                                                                         *)
(*   status   Comshare _cur_status, written through updateStatus           *)
(*   shareIp  DiscoveryJob's share_connect_ip (updateAnnouncShare)         *)
(*   sender   the peer SendRpcService talks to for the cooperation app     *)
(*            (createRpcSender / setTargetAppName).  Every peer registers  *)
(*            the same cooperation app name (CooperRegisterName), so the   *)
(*            map keyed by that name is one cell here.                     *)
(*                                                                         *)
(* Handlers are pure operators from an envelope and a state record to the  *)
(* next state record, used by the serial reference dispatcher and by the   *)
(* dispatcher of the code.  The heartbeat maps the same handlers touch are *)
(* modelled in Liveness; messages the handlers send to a peer or to the    *)
(* front-end leave the daemon and are not state here.                      *)
(***************************************************************************)
EXTENDS Naturals, Sequences

CONSTANTS
    Peers,     \* remote daemons (model values); a peer stands for its ip
    NoPeer,    \* no sender created yet / empty share_connect_ip
    Kinds      \* the envelope kinds the peers may send (subset of AllKinds)

\* ChanType values the dispatcher switch names, and OTHER for every other
\* tag (FS_ACTION, FS_DONE, FS_INFO, TRANS_PAUSE, ...) that reaches default.
AllKinds ==
    {"LOGIN_INFO", "LOGIN_CONFIRM", "LOGIN_RESULT", "TRANSJOB", "FS_DATA",
     "TRANS_CANCEL", "FS_REPORT", "TRANS_APPLY", "MISC", "RPC_PING",
     "APPLY_SHARE_CONNECT", "APPLY_SHARE_DISCONNECT",
     "APPLY_SHARE_CONNECT_RES", "SHARE_START", "SHARE_START_RES",
     "SHARE_STOP", "DISCONNECT_CB", "DISAPPLY_SHARE_CONNECT",
     "SEARCH_DEVICE_BY_IP", "DISCOVER_BY_TCP", "OTHER"}

\* A body for which json::parse yields null: the loop logs and continues.
Unparsable == "UNPARSABLE"

ASSUME Kinds \subseteq AllKinds \cup {Unparsable} /\ NoPeer \notin Peers

\* The kinds whose one boolean field decides the outcome: login accepted
\* (version and auth), job accepted, share confirmed, share start result.
ArgKinds == {"LOGIN_INFO", "TRANSJOB", "APPLY_SHARE_CONNECT_RES",
             "SHARE_START_RES"}

Envelopes ==
    {m \in [from : Peers, kind : Kinds, arg : BOOLEAN] :
        m.arg => m.kind \in ArgKinds}

Status == {"DISCONNECT", "TRAN_CONNECT", "TRAN_FILE_RCV", "SHARE_CONNECT",
           "SHARE_START"}

States == [status : Status, shareIp : Peers \cup {NoPeer},
           sender : Peers \cup {NoPeer}]

InitState == [status |-> "DISCONNECT", shareIp |-> NoPeer, sender |-> NoPeer]

(* Where the switch pushes the OutData answer on _outgo_chan: before the  *)
(* handler runs, after it, or not at all.                                 *)
ReplyFirst ==
    {"TRANS_APPLY", "MISC", "RPC_PING", "APPLY_SHARE_CONNECT",
     "APPLY_SHARE_DISCONNECT", "APPLY_SHARE_CONNECT_RES", "SHARE_START",
     "SHARE_START_RES", "SHARE_STOP", "DISCONNECT_CB",
     "DISAPPLY_SHARE_CONNECT"}
NoReply == {"LOGIN_CONFIRM", "LOGIN_RESULT", Unparsable}

(* The kinds whose handler writes its own answer as its last step: login, *)
(* job, file block (OK or IO_ERROR by handleFSData), cancel and report.   *)
AnsweredByHandler ==
    {"LOGIN_INFO", "TRANSJOB", "FS_DATA", "TRANS_CANCEL", "FS_REPORT"}

\* handleRemoteSearchIp / hanldeRemoteDiscover answer with this node's info.
DiscoveryAnswered == {"SEARCH_DEVICE_BY_IP", "DISCOVER_BY_TCP"}

\* The answers pushed after the handler; default pushes UNKOWN itself.
ReplyLast == AnsweredByHandler \cup DiscoveryAnswered \cup {"OTHER"}

-----------------------------------------------------------------------------
WithStatus(st, s) == [st EXCEPT !.status = s]

(* handleRemoteLogin / handleRpcLogin: an accepted login creates the      *)
(* sender for the peer and sets TRAN_CONNECT; a rejected one (version or  *)
(* auth) changes neither.                                                 *)
HandleRemoteLogin(m, st) ==
    IF m.arg THEN [st EXCEPT !.status = "TRAN_CONNECT", !.sender = m.from]
             ELSE st

\* handleTransJob: TRAN_FILE_RCV when the job manager accepts the job.
HandleTransJob(m, st) ==
    IF m.arg THEN WithStatus(st, "TRAN_FILE_RCV") ELSE st

(* handleRemoteShareConnect: the sender for the applicant is created and  *)
(* bound first; then, if this daemon already shares with another address *)
(* (share_connect_ip set and not its own), the apply is answered with    *)
(* SHARE_CONNECT_ERR_CONNECTED and the handler returns; otherwise the     *)
(* status becomes SHARE_CONNECT and the front-end is asked.              *)
HandleRemoteShareConnect(m, st) ==
    LET bound == [st EXCEPT !.sender = m.from] IN
    IF st.shareIp \in Peers THEN bound
                            ELSE WithStatus(bound, "SHARE_CONNECT")

\* handleRemoteShareDisConnect: updateAnnouncShare(true) clears the share
\* address, then DISCONNECT.
HandleRemoteShareDisConnect(m, st) ==
    [st EXCEPT !.shareIp = NoPeer, !.status = "DISCONNECT"]

\* handleRemoteShareConnectReply: a confirm announces the share with the
\* replying peer's address; anything else is DISCONNECT.
HandleRemoteShareConnectReply(m, st) ==
    IF m.arg THEN [st EXCEPT !.shareIp = m.from]
             ELSE WithStatus(st, "DISCONNECT")

\* handleRemoteShareStart: SHARE_START; the local result is always true, so
\* the DISCONNECT branch of the handler is never taken.
HandleRemoteShareStart(m, st) == WithStatus(st, "SHARE_START")

\* handleRemoteShareStartRes: DISCONNECT when the remote start failed.
HandleRemoteShareStartRes(m, st) ==
    IF m.arg THEN st ELSE WithStatus(st, "DISCONNECT")

\* handleRemoteJobCancel: the job manager cancels the job, then DISCONNECT.
HandleRemoteJobCancel(m, st) == WithStatus(st, "DISCONNECT")

\* handleRemoteShareStop: DISCONNECT.
HandleRemoteShareStop(m, st) == WithStatus(st, "DISCONNECT")

\* handleRemoteDisConnectCb: DISCONNECT (the ping to the app is removed).
HandleRemoteDisConnectCb(m, st) == WithStatus(st, "DISCONNECT")

\* handleRemoteDisApplyShareConnect: DISCONNECT (the ping is removed).
HandleRemoteDisApplyShareConnect(m, st) == WithStatus(st, "DISCONNECT")

(* The switch of the dispatcher loop: the handler of a well-formed        *)
(* envelope.  FS_DATA, FS_REPORT, TRANS_APPLY, MISC, RPC_PING, the        *)
(* discovery kinds, LOGIN_CONFIRM, LOGIN_RESULT and default change none   *)
(* of this state.                                                         *)
Handle(m, st) ==
    CASE m.kind = "LOGIN_INFO"              -> HandleRemoteLogin(m, st)
      [] m.kind = "TRANSJOB"                -> HandleTransJob(m, st)
      [] m.kind = "APPLY_SHARE_CONNECT"     -> HandleRemoteShareConnect(m, st)
      [] m.kind = "APPLY_SHARE_DISCONNECT"  -> HandleRemoteShareDisConnect(m, st)
      [] m.kind = "APPLY_SHARE_CONNECT_RES" -> HandleRemoteShareConnectReply(m, st)
      [] m.kind = "SHARE_START"             -> HandleRemoteShareStart(m, st)
      [] m.kind = "SHARE_START_RES"         -> HandleRemoteShareStartRes(m, st)
      [] m.kind = "TRANS_CANCEL"            -> HandleRemoteJobCancel(m, st)
      [] m.kind = "SHARE_STOP"              -> HandleRemoteShareStop(m, st)
      [] m.kind = "DISCONNECT_CB"           -> HandleRemoteDisConnectCb(m, st)
      [] m.kind = "DISAPPLY_SHARE_CONNECT"  -> HandleRemoteDisApplyShareConnect(m, st)
      [] OTHER                              -> st

=============================================================================
