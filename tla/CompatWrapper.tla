---------------------------- MODULE CompatWrapper ----------------------------
(***************************************************************************)
(* CompatWrapper (src/lib/cooperation/core/net/compatwrapper.cpp): the    *)
(* front-end's bridge to the compat daemon over IPC.  Its constructor      *)
(* starts a single-shot 500 ms timer; when it fires, onTimeConnectBackend  *)
(* connects to the daemon's IPC server and, on success, binds the         *)
(* daemon's cooperationSignal to ipcCompatSlot and registers the          *)
(* application with bindSignal; on failure it starts the timer again for  *)
(* 2 s.  Every signal the daemon then sends reaches ipcCompatSlot once    *)
(* per binding, in the order sent, on the front-end's main thread.  The   *)
(* slot parses the JSON and, by message type, posts a queued call to the  *)
(* discovery controller, the transfer helper or the share helper, emits  *)
(* compatConnectResult directly, or does nothing.                          *)
(*                                                                         *)
(* The daemon, its IPC server and the Qt event loop are not under src/:   *)
(* the daemon starting, sending, and the event loop running posted calls  *)
(* are environment actions.  The daemon is started once and keeps          *)
(* running; a message payload is abstracted to the fields the slot        *)
(* branches on.                                                            *)
(***************************************************************************)
EXTENDS Naturals, Sequences

CONSTANTS
    Msgs,       \* the messages the daemon may send (records, see Message)
    MaxMsgs     \* bound on the number of messages the daemon sends

(* A message: its IPC type; whether its JSON parses; for FRONT_PEER_CB    *)
(* whether the node info parses, the result is positive (the peer is      *)
(* found) and the node runs the cooperation app; for FRONT_APPLY_TRANS_FILE *)
(* the apply type; for FRONT_SEND_STATUS whether the status is negative,  *)
(* its msg parses and its type is 999 (LOGIN_INFO).                       *)
Message ==
    [type : STRING, json : BOOLEAN, inner : BOOLEAN, find : BOOLEAN,
     coop : BOOLEAN, apply : {"APPLY", "CONFIRM", "REFUSED"},
     negative : BOOLEAN, login : BOOLEAN]

ASSUME Msgs \subseteq Message /\ MaxMsgs \in Nat

VARIABLES
    daemon,     \* the compat daemon's IPC server: "down" or "up"
    timer,      \* ipcTimer: "active" or "idle"
    backendOk,  \* backendOk
    slots,      \* bindings of cooperationSignal to ipcCompatSlot
    chan,       \* signals on their way to ipcCompatSlot: <<id, message>>
    sent,       \* messages the daemon has sent
    handled,    \* how often ipcCompatSlot ran for each message sent
    posted,     \* queued calls (invokeMethod, Qt::QueuedConnection) not run
    delivered   \* calls and signals that reached their receiver, in order

vars == <<daemon, timer, backendOk, slots, chan, sent, handled, posted,
          delivered>>

Ids == 1..MaxMsgs

-----------------------------------------------------------------------------
(* A call on a receiver for message i, made directly (an emitted signal  *)
(* to a same-thread receiver) or queued for the event loop.               *)
Queued(name, i) == <<[call |-> name, msg |-> i, via |-> "queued"]>>
Direct(name, i) == <<[call |-> name, msg |-> i, via |-> "direct"]>>

(* FRONT_PEER_CB: a node info that does not parse is dropped; a node     *)
(* running the cooperation app is added to the discovery list, found or  *)
(* not; a node without it is removed when the peer is not found.         *)
PeerCalls(m, i) ==
    IF ~m.inner THEN <<>>
    ELSE IF m.coop THEN Queued("compatAddDeivces", i)
    ELSE IF ~m.find THEN Queued("compatRemoveDeivce", i)
    ELSE <<>>

(* The transfer messages: the connect result is emitted directly, the    *)
(* others are queued on the transfer helper.                              *)
TransferCalls(m, i) ==
    CASE m.type = "FRONT_CONNECT_CB" -> Direct("compatConnectResult", i)
      [] m.type = "FRONT_TRANS_STATUS_CB" ->
            Queued("compatTransJobStatusChanged", i)
      [] m.type = "FRONT_NOTIFY_FILE_STATUS" ->
            Queued("compatFileTransStatusChanged", i)
      [] m.type = "FRONT_APPLY_TRANS_FILE" ->
            CASE m.apply = "APPLY"   -> Queued("notifyTransferRequest", i)
              [] m.apply = "CONFIRM" -> Queued("accepted", i)
              [] OTHER               -> Queued("rejected", i)

(* The share messages go to the share helper; FRONT_SERVER_ONLINE, the   *)
(* daemon's start-up notice, is ignored.                                   *)
ShareCall ==
    [FRONT_SHARE_APPLY_CONNECT       |-> "notifyConnectRequest",
     FRONT_SHARE_APPLY_CONNECT_REPLY |-> "handleConnectResult",
     FRONT_SHARE_DISCONNECT          |-> "handleDisConnectResult",
     FRONT_SHARE_DISAPPLY_CONNECT    |-> "handleCancelCooperApply"]

ShareCalls(m, i) ==
    IF m.type \in DOMAIN ShareCall THEN Queued(ShareCall[m.type], i)
    ELSE <<>>

(* FRONT_SEND_STATUS reports a failed login (type 999, negative status)  *)
(* as a connect result, emitted directly; a search result is queued on    *)
(* the discovery controller.                                               *)
StatusCalls(m, i) ==
    IF m.type = "FRONT_SEARCH_IP_DEVICE_RESULT"
    THEN Queued("addSearchDeivce", i)
    ELSE IF m.negative /\ m.inner /\ m.login
         THEN Direct("compatConnectResult", i)
         ELSE <<>>

Transfer == {"FRONT_CONNECT_CB", "FRONT_TRANS_STATUS_CB",
             "FRONT_NOTIFY_FILE_STATUS", "FRONT_APPLY_TRANS_FILE"}
Share == {"FRONT_SERVER_ONLINE"} \cup DOMAIN ShareCall
Status == {"FRONT_SEND_STATUS", "FRONT_SEARCH_IP_DEVICE_RESULT"}

(* ipcCompatSlot(type, msg): a message whose JSON does not parse is      *)
(* dropped; IPC_PING and the types the switch does not list do nothing.  *)
Calls(m, i) ==
    IF ~m.json THEN <<>>
    ELSE CASE m.type = "FRONT_PEER_CB" -> PeerCalls(m, i)
           [] m.type \in Transfer      -> TransferCalls(m, i)
           [] m.type \in Share         -> ShareCalls(m, i)
           [] m.type \in Status        -> StatusCalls(m, i)
           [] OTHER                    -> <<>>

\* Variant: every call of the message taken, whichever way it is made.
ViaAll(cs, v) == cs

(* The calls of a message made directly, or queued.                        *)
Via(cs, v) == SelectSeq(cs, LAMBDA c : c.via = v)

\* Variant: the timer is started again whatever the outcome.
RetryAlways(ok) == "active"

\* Variant: no retry after a failed connect.
RetryNever(ok) == "idle"

(* The single-shot timer is idle after firing; a failed connect starts it *)
(* again (2 s).                                                            *)
RetryAfter(ok) == IF ok THEN "idle" ELSE "active"

-----------------------------------------------------------------------------
(* CompatWrapperPrivate's constructor: the IPC interface is created and  *)
(* the single-shot timer started; the daemon may or may not be up yet.    *)
Init ==
    /\ daemon \in {"down", "up"}
    /\ timer = "active"
    /\ backendOk = FALSE
    /\ slots = 0
    /\ chan = <<>>
    /\ sent = 0
    /\ handled = [i \in Ids |-> 0]
    /\ posted = <<>>
    /\ delivered = <<>>

(* onTimeConnectBackend: connectToServer succeeds exactly when the        *)
(* daemon's server is up; then the signal is bound to the slot (one more  *)
(* binding) and bindSignal registers the application.                     *)
TimeConnectBackend ==
    /\ timer = "active"
    /\ LET ok == daemon = "up"
       IN /\ backendOk' = ok
          /\ slots' = IF ok THEN slots + 1 ELSE slots
          /\ timer' = RetryAfter(ok)
    /\ UNCHANGED <<daemon, chan, sent, handled, posted, delivered>>

\* The daemon starts (environment).
DaemonStart ==
    /\ daemon = "down"
    /\ daemon' = "up"
    /\ UNCHANGED <<timer, backendOk, slots, chan, sent, handled, posted,
                   delivered>>

(* The daemon sends message m to the registered application: the signal  *)
(* is delivered once per binding (environment).                           *)
DaemonSend(m) ==
    /\ daemon = "up" /\ slots > 0 /\ sent < MaxMsgs
    /\ sent' = sent + 1
    /\ chan' = chan \o [k \in 1..slots |-> <<sent + 1, m>>]
    /\ UNCHANGED <<daemon, timer, backendOk, slots, handled, posted,
                   delivered>>

(* ipcCompatSlot runs for the oldest signal: direct emissions reach their *)
(* receiver at once, queued calls are posted.                             *)
IpcCompatSlot ==
    /\ chan # <<>>
    /\ LET i == Head(chan)[1]
           cs == Calls(Head(chan)[2], i)
       IN /\ handled' = [handled EXCEPT ![i] = @ + 1]
          /\ delivered' = delivered \o Via(cs, "direct")
          /\ posted' = posted \o Via(cs, "queued")
    /\ chan' = Tail(chan)
    /\ UNCHANGED <<daemon, timer, backendOk, slots, sent>>

\* The event loop runs the oldest posted call (environment).
Deliver ==
    /\ posted # <<>>
    /\ delivered' = Append(delivered, Head(posted))
    /\ posted' = Tail(posted)
    /\ UNCHANGED <<daemon, timer, backendOk, slots, chan, sent, handled>>

Next ==
    \/ TimeConnectBackend
    \/ DaemonStart
    \/ \E m \in Msgs : DaemonSend(m)
    \/ IpcCompatSlot
    \/ Deliver

(* The timer fires once its interval is up and the main thread's event   *)
(* loop runs it, the slot and the posted calls; the daemon needs no       *)
(* fairness: whether and when it starts is up to it.                      *)
Fairness ==
    /\ WF_vars(TimeConnectBackend)
    /\ WF_vars(IpcCompatSlot)
    /\ WF_vars(Deliver)

Spec == Init /\ [][Next]_vars /\ Fairness

-----------------------------------------------------------------------------
TypeOK ==
    /\ daemon \in {"down", "up"}
    /\ timer \in {"active", "idle"}
    /\ backendOk \in BOOLEAN
    /\ slots \in Nat
    /\ chan \in Seq(Ids \X Msgs)
    /\ sent \in 0..MaxMsgs
    /\ handled \in [Ids -> Nat]
    /\ posted \in Seq([call : STRING, msg : Ids, via : {"queued"}])
    /\ delivered \in Seq([call : STRING, msg : Ids, via : {"direct", "queued"}])

(* Each message is handled once: whatever the order in which the daemon  *)
(* comes up and the timer fires, every message the daemon sends runs      *)
(* ipcCompatSlot at most once, so no transfer request, share request or  *)
(* connect result reaches the GUI twice.                                  *)
HandledOnce == \A i \in Ids : handled[i] <= 1

(* The front-end always gets through: if the daemon comes up, however     *)
(* late, the wrapper is eventually connected and bound to its signal.     *)
BackendBound == <>(daemon = "up") => <>(backendOk /\ slots > 0)

=============================================================================
