---------------------------- MODULE SessionWorker ----------------------------
(***************************************************************************)
(* The session worker (src/lib/common/manager/sessionworker.cpp): one      *)
(* local worker that connects out to peers through a single ProtoClient    *)
(* and accepts peers on its ProtoServer, and the peers' workers answering *)
(* its login requests.                                                     *)
(*                                                                         *)
(* The caller (clientPing, connectRemote, disconnectRemote, startListen,   *)
(* stop) runs on the Qt thread; the client's connection completes or fails *)
(* later on the asio thread, which calls onStateChanged.  ProtoClient and   *)
(* ProtoServer are not under src/: their behaviour is the one their calls  *)
(* imply, ConnectAsync starting an attempt that IsConnected reports only   *)
(* once it has completed, and returning FALSE while one is in progress or *)
(* established.                                                            *)
(*                                                                         *)
(* A message is abstracted to its mask; the login's auth field, compared  *)
(* with the PIN hash by the peer, is not read by the client and is left   *)
(* out with the PIN.                                                        *)
(***************************************************************************)
CONSTANTS
    Addrs,          \* peer addresses
    NoAddr,         \* _client is null / _connectedAddress is empty
    DO_SUCCESS,     \* the response masks
    LOGIN_SUCCESS,
    NullMask        \* the mask of a default-constructed OriginMessage

ASSUME NoAddr \notin Addrs

VARIABLES
    clientAddr,         \* the address _client was made for, NoAddr if none
    clientState,        \* _client: "disconnected", "connecting", "connected"
    connectedAddress,   \* _connectedAddress
    loginHosts,         \* _login_hosts: Absent where the key is absent
    listening,          \* _server started
    inbound,            \* peers with a session on _server
    requested           \* history: the address the caller last asked for

vars == <<clientAddr, clientState, connectedAddress, loginHosts, listening,
          inbound, requested>>

Absent == "absent"

-----------------------------------------------------------------------------
(* The peer's onReceivedMessage as seen by the requester: an empty or      *)
(* unparsable body returns before anything is set; otherwise, whatever the *)
(* extension handler or the switch did (for REQ_LOGIN: LOGIN_SUCCESS or    *)
(* LOGIN_DENIED by the PIN hash), the mask is finally set to DO_SUCCESS.   *)
OnReceivedMessage(body) ==
    IF body \in {"empty", "malformed"} THEN NullMask ELSE DO_SUCCESS

(* sendRequest: through the client if it was made for the target and is  *)
(* connected, else through a server session of the target, else the      *)
(* default message.  A login request always carries a valid body.         *)
SendRequest(target) ==
    IF \/ clientAddr = target /\ clientState = "connected"
       \/ target \in inbound
    THEN OnReceivedMessage("login")
    ELSE NullMask

(* connect(address): with no client, or a client for another address than *)
(* _connectedAddress, a new client for the address is made (the old one   *)
(* disconnected and stopped) and ConnectAsync started; the result is      *)
(* IsConnected() right after, FALSE.  When the address equals             *)
(* _connectedAddress the existing client is kept, whatever address it was *)
(* made for: connected, the result is TRUE; otherwise ConnectAsync is      *)
(* called on it, TRUE when it starts an attempt.                          *)
ConnectKeeps(a) == clientAddr # NoAddr /\ connectedAddress = a

ConnectResult(a) ==
    ConnectKeeps(a) /\ clientState \in {"connected", "disconnected"}

ConnectNext(a) ==
    IF ConnectKeeps(a)
    THEN /\ clientState' = IF clientState = "connected" THEN "connected"
                                                          ELSE "connecting"
         /\ UNCHANGED clientAddr
    ELSE /\ clientAddr' = a
         /\ clientState' = "connecting"

(* clientPing: TRUE at once when the client was made for the address and  *)
(* is connected; otherwise connect.                                        *)
ClientPing(a) ==
    /\ requested' = a
    /\ IF clientAddr = a /\ clientState = "connected"
       THEN UNCHANGED <<clientAddr, clientState>>
       ELSE ConnectNext(a)
    /\ UNCHANGED <<connectedAddress, loginHosts, listening, inbound>>

(* connectRemote: connect; on success a login request is sent and         *)
(* _login_hosts records whether the answer's mask is LOGIN_SUCCESS.  The   *)
(* request goes out after connect returned, on the state connect left.    *)
ConnectRemote(a) ==
    /\ requested' = a
    /\ ConnectNext(a)
    /\ UNCHANGED <<connectedAddress, listening, inbound>>
    /\ loginHosts' =
         IF ConnectResult(a)
         THEN [loginHosts EXCEPT ![a] = (SendRequest(a)' = LOGIN_SUCCESS)]
         ELSE loginHosts

(* disconnectRemote: DisconnectAsync on the client, if any.               *)
DisconnectRemote ==
    /\ clientAddr # NoAddr
    /\ clientState' = "disconnected"
    /\ UNCHANGED <<clientAddr, connectedAddress, loginHosts, listening,
                   inbound, requested>>

(* listen: the server is made once, then started; starting a started    *)
(* server fails.  The asio service is alive while the worker is.          *)
Listen == listening' = TRUE

(* startListen: listen, a failure only logged.                           *)
StartListen ==
    /\ Listen
    /\ UNCHANGED <<clientAddr, clientState, connectedAddress, loginHosts,
                   inbound, requested>>

(* stop: the server stopped (its sessions closed), the client disconnected *)
(* and stopped; the objects are kept.                                      *)
Stop ==
    /\ listening' = FALSE
    /\ inbound' = {}
    /\ clientState' = "disconnected"
    /\ UNCHANGED <<clientAddr, connectedAddress, loginHosts, requested>>

-----------------------------------------------------------------------------
(* The asio thread.  onStateChanged(RPC_CONNECTED, address) records the    *)
(* address; RPC_DISCONNECTED and RPC_ERROR only log and notify.            *)
OnStateChanged(state) ==
    connectedAddress' = IF state = "connected" THEN clientAddr
                                               ELSE connectedAddress

Connected ==
    /\ clientState = "connecting"
    /\ clientState' = "connected"
    /\ OnStateChanged("connected")
    /\ UNCHANGED <<clientAddr, loginHosts, listening, inbound, requested>>

ConnectFailed ==
    /\ clientState = "connecting"
    /\ clientState' = "disconnected"
    /\ OnStateChanged("error")
    /\ UNCHANGED <<clientAddr, loginHosts, listening, inbound, requested>>

Dropped ==
    /\ clientState = "connected"
    /\ clientState' = "disconnected"
    /\ OnStateChanged("disconnected")
    /\ UNCHANGED <<clientAddr, loginHosts, listening, inbound, requested>>

(* Peers opening and closing sessions on the listening server.            *)
PeerSession(a) ==
    /\ listening
    /\ inbound' = IF a \in inbound THEN inbound \ {a} ELSE inbound \cup {a}
    /\ UNCHANGED <<clientAddr, clientState, connectedAddress, loginHosts,
                   listening, requested>>

Init ==
    /\ clientAddr = NoAddr /\ clientState = "disconnected"
    /\ connectedAddress = NoAddr
    /\ loginHosts = [a \in Addrs |-> Absent]
    /\ listening = FALSE /\ inbound = {}
    /\ requested = NoAddr

Next ==
    \/ \E a \in Addrs : ClientPing(a) \/ ConnectRemote(a) \/ PeerSession(a)
    \/ DisconnectRemote \/ StartListen \/ Stop
    \/ Connected \/ ConnectFailed \/ Dropped

Spec == Init /\ [][Next]_vars

-----------------------------------------------------------------------------
(* connect() is asked for an address, and the client it leaves in place,  *)
(* the one later requests and pings go through, is a client for that      *)
(* address.                                                                 *)
ConnectsToRequested ==
    requested # NoAddr => clientAddr = requested

=============================================================================
