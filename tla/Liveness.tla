------------------------------ MODULE Liveness ------------------------------
(***************************************************************************)
(* The heartbeat bookkeeping of the daemon's HandleRpcService              *)
(* (src/compat/plugins/daemon/core/service/rpc/handlerpcservice.cpp).      *)
(*                                                                         *)
(*   _ping_lost_count  app -> missed ticks      (pingLost)                 *)
(*   _remote_ping_ips  app -> ip of last ping   (remoteIps)                *)
(*   _timeOut          the 1 s QTimer           (timerActive)              *)
(*   startTimer        queued signal events     (startQueued)              *)
(*                                                                         *)
(* Every handler that touches the two maps is one action; all of them run *)
(* under the QWriteLocker _lock, so each is atomic with respect to the     *)
(* others.  The handlers run on three threads (the dispatcher coroutine,   *)
(* the Qt event loop for the timer, the RPC transport callback), which the *)
(* model covers by letting any enabled handler take the next step.         *)
(*                                                                         *)
(* The peers are the environment: a peer is alive (it may ping) or it has *)
(* gone silent.  silent, noPingNotes and connCbNotes are history          *)
(* variables for the properties; they are reset when the app pings again, *)
(* which is where SendIpcService::cancelOfflineStatus withdraws a pending  *)
(* offline notice.                                                         *)
(***************************************************************************)
EXTENDS Naturals, FiniteSets, Functions, TLC

CONSTANTS
    Apps,          \* logical application names of peers (model values)
    Ips,           \* peer addresses (model values)
    AppIp,         \* [Apps -> Ips]: the address each app pings from
    SearchPing,    \* an ip field containing "search-ping" (discovery probe)
    MaxSilence,    \* cap of the silent-tick history counter
    MaxQueued,     \* bound on queued startTimer events
    MaxNotes,      \* cap of the notification history counters
    NoApp          \* the empty app name a job request may carry

ASSUME AppIp \in [Apps -> Ips]
ASSUME SearchPing \notin Ips /\ NoApp \notin Apps
ASSUME MaxSilence \in Nat /\ MaxSilence >= 6
ASSUME MaxQueued \in Nat \ {0} /\ MaxNotes \in Nat \ {0}

\* Comshare::updateStatus values the handlers modelled here write.
Status == {"DISCONNECT", "TRAN_CONNECT", "TRAN_FILE_RCV"}

\* handleTimeOut reports an app once its count is above this.
LostLimit == 3

VARIABLES
    pingLost,      \* partial function Apps -> Nat   (_ping_lost_count)
    remoteIps,     \* partial function Apps -> Ips   (_remote_ping_ips)
    timerActive,   \* _timeOut.isActive()
    startQueued,   \* startTimer signals posted, not yet handled
    status,        \* Comshare _cur_status
    binding,       \* partial function Apps -> Ips: sender/comdata of a login
    alive,         \* environment: [Apps -> BOOLEAN], the peer still pings
    silent,        \* history: ticks since the app's last ping
    noPingNotes,   \* history: NOPING_TIMEOUT notices since the last ping
    connCbNotes    \* history: CONNCB_TIMEOUT notices since the last ping

vars == <<pingLost, remoteIps, timerActive, startQueued, status, binding,
          alive, silent, noPingNotes, connCbNotes>>

-----------------------------------------------------------------------------
(* Partial-function helpers: QMap::remove and QMap::insert.                *)

Drop(f, k) == Restrict(f, DOMAIN f \ {k})
Put(f, k, v) == (k :> v) @@ f

Capped(n, cap) == IF n < cap THEN n + 1 ELSE cap

\* emit startTimer() when the timer is not running (QueuedConnection).
RequestTimer ==
    IF timerActive THEN UNCHANGED startQueued
                   ELSE startQueued' = startQueued + 1

CanRequestTimer == timerActive \/ startQueued < MaxQueued

-----------------------------------------------------------------------------
(* Variants of handlers with a plausible defect, each defined before the  *)
(* handler it could replace; the properties below must reject them.       *)

\* handleRemotePing without the emit startTimer().
RemotePingNoTimer(a, ip) ==
    /\ alive[a]
    /\ IF ip = SearchPing
       THEN UNCHANGED <<pingLost, remoteIps, startQueued, silent,
                        noPingNotes, connCbNotes>>
       ELSE /\ pingLost' = Put(pingLost, a, 0)
            /\ remoteIps' = Put(remoteIps, a, ip)
            /\ silent' = [silent EXCEPT ![a] = 0]
            /\ noPingNotes' = [noPingNotes EXCEPT ![a] = 0]
            /\ connCbNotes' = [connCbNotes EXCEPT ![a] = 0]
            /\ UNCHANGED startQueued
    /\ UNCHANGED <<timerActive, status, binding, alive>>

\* handleTimeOut comparing count >= 3.
ExpiredEarly == {k \in DOMAIN pingLost : pingLost[k] >= LostLimit}

\* handleTimeOut without the continue: a reported app is re-inserted.
TimeOutNoContinue ==
    LET expired == {k \in DOMAIN pingLost : pingLost[k] > LostLimit} IN
    /\ timerActive
    /\ pingLost' = [k \in DOMAIN pingLost |-> pingLost[k] + 1]
    /\ noPingNotes' = [a \in Apps |->
                         IF a \in expired THEN Capped(noPingNotes[a], MaxNotes)
                                          ELSE noPingNotes[a]]
    /\ silent' = [a \in Apps |-> Capped(silent[a], MaxSilence)]
    /\ UNCHANGED <<remoteIps, timerActive, startQueued, status, binding,
                   alive, connCbNotes>>

\* handleOffline reporting without erasing the ip entry.
OfflineNoErase(ip) ==
    LET gone == {a \in DOMAIN remoteIps : remoteIps[a] = ip} IN
    /\ connCbNotes' = [a \in Apps |->
                         IF a \in gone THEN Capped(connCbNotes[a], MaxNotes)
                                       ELSE connCbNotes[a]]
    /\ UNCHANGED <<pingLost, remoteIps, timerActive, startQueued, status,
                   binding, alive, silent, noPingNotes>>

-----------------------------------------------------------------------------
(* handleRemotePing: a ping from app a carrying address ip.  A discovery   *)
(* probe ("search-ping") returns before touching anything.                 *)
RemotePing(a, ip) ==
    /\ alive[a]
    /\ IF ip = SearchPing
       THEN UNCHANGED <<pingLost, remoteIps, startQueued, silent,
                        noPingNotes, connCbNotes>>
       ELSE /\ CanRequestTimer
            /\ RequestTimer
            /\ pingLost' = Put(pingLost, a, 0)
            /\ remoteIps' = Put(remoteIps, a, ip)
            /\ silent' = [silent EXCEPT ![a] = 0]
            /\ noPingNotes' = [noPingNotes EXCEPT ![a] = 0]
            /\ connCbNotes' = [connCbNotes EXCEPT ![a] = 0]
    /\ UNCHANGED <<timerActive, status, binding, alive>>

\* The apps whose count exceeds the limit at this tick.
Expired == {k \in DOMAIN pingLost : pingLost[k] > LostLimit}

(* handleTimeOut: every tracked app is either reported (NOPING_TIMEOUT)   *)
(* and taken out of the map, or its count goes up by one.                 *)
TimeOut ==
    /\ timerActive
    /\ pingLost' = [k \in DOMAIN pingLost \ Expired |-> pingLost[k] + 1]
    /\ noPingNotes' = [a \in Apps |->
                         IF a \in Expired THEN Capped(noPingNotes[a], MaxNotes)
                                          ELSE noPingNotes[a]]
    /\ silent' = [a \in Apps |-> Capped(silent[a], MaxSilence)]
    /\ UNCHANGED <<remoteIps, timerActive, startQueued, status, binding,
                   alive, connCbNotes>>

\* handleStartTimer: a queued startTimer event reaches the Qt event loop.
StartTimer ==
    /\ startQueued > 0
    /\ startQueued' = startQueued - 1
    /\ timerActive' = TRUE
    /\ UNCHANGED <<pingLost, remoteIps, status, binding, alive, silent,
                   noPingNotes, connCbNotes>>

(* handleOffline: the transport reports that the connection from ip       *)
(* closed.  Every app whose last ping came from ip is reported            *)
(* (CONNCB_TIMEOUT) and its ip entry erased; _ping_lost_count is left     *)
(* alone.                                                                  *)
Offline(ip) ==
    LET gone == {a \in DOMAIN remoteIps : remoteIps[a] = ip} IN
    /\ remoteIps' = Restrict(remoteIps, DOMAIN remoteIps \ gone)
    /\ connCbNotes' = [a \in Apps |->
                         IF a \in gone THEN Capped(connCbNotes[a], MaxNotes)
                                       ELSE connCbNotes[a]]
    /\ UNCHANGED <<pingLost, timerActive, startQueued, status, binding,
                   alive, silent, noPingNotes>>

(* handleRpcLogin: an accepted login binds the sender and comdata, sets   *)
(* TRAN_CONNECT and requests the timer; a refused one removes the app's   *)
(* ping count.                                                            *)
RpcLogin(a, result) ==
    IF result
    THEN /\ CanRequestTimer
         /\ RequestTimer
         /\ status' = "TRAN_CONNECT"
         /\ binding' = Put(binding, a, AppIp[a])
         /\ UNCHANGED pingLost
    ELSE /\ pingLost' = Drop(pingLost, a)
         /\ UNCHANGED <<startQueued, status, binding>>

(* handleRemoteLogin: a version mismatch changes nothing.  Otherwise      *)
(* authOK is an empty auth with no confirmation required, or the decoded  *)
(* pin equal to the configured one, and handleRpcLogin gets the result.   *)
RemoteLogin(a) ==
    \E versionOk, authEmpty, needConfirm, pinMatches \in BOOLEAN :
        LET authOK == IF authEmpty THEN ~needConfirm ELSE pinMatches IN
        /\ alive[a]
        /\ IF versionOk THEN RpcLogin(a, authOK)
                        ELSE UNCHANGED <<pingLost, startQueued, status, binding>>
        /\ UNCHANGED <<remoteIps, timerActive, alive, silent, noPingNotes,
                       connCbNotes>>

(* handleRemoteApplyTransFile: the app named in the request stops being   *)
(* watched (the sender stops pinging during a transfer).                  *)
RemoteApplyTransFile(a) ==
    /\ pingLost' = Drop(pingLost, a)
    /\ UNCHANGED <<remoteIps, timerActive, startQueued, status, binding,
                   alive, silent, noPingNotes, connCbNotes>>

(* handleTransJob: the job manager accepts (res) or refuses the job and   *)
(* may name the requesting app, whose ping count is then removed.         *)
TransJob(a) ==
    \E res \in BOOLEAN :
        /\ status' = IF res THEN "TRAN_FILE_RCV" ELSE status
        /\ pingLost' = IF a \in Apps THEN Drop(pingLost, a) ELSE pingLost
        /\ UNCHANGED <<remoteIps, timerActive, startQueued, binding, alive,
                       silent, noPingNotes, connCbNotes>>

-----------------------------------------------------------------------------
(* Environment: a peer goes silent (crash, network loss, quit) or comes   *)
(* back.                                                                   *)
PeerStops(a) ==
    /\ alive[a]
    /\ alive' = [alive EXCEPT ![a] = FALSE]
    /\ UNCHANGED <<pingLost, remoteIps, timerActive, startQueued, status,
                   binding, silent, noPingNotes, connCbNotes>>

PeerRestarts(a) ==
    /\ ~alive[a]
    /\ alive' = [alive EXCEPT ![a] = TRUE]
    /\ UNCHANGED <<pingLost, remoteIps, timerActive, startQueued, status,
                   binding, silent, noPingNotes, connCbNotes>>

Init ==
    /\ pingLost = <<>>
    /\ remoteIps = <<>>
    /\ timerActive = FALSE
    /\ startQueued = 0
    /\ status = "DISCONNECT"
    /\ binding = <<>>
    /\ alive = [a \in Apps |-> TRUE]
    /\ silent = [a \in Apps |-> MaxSilence]
    /\ noPingNotes = [a \in Apps |-> 0]
    /\ connCbNotes = [a \in Apps |-> 0]

Next ==
    \/ \E a \in Apps : \E ip \in {AppIp[a], SearchPing} : RemotePing(a, ip)
    \/ TimeOut
    \/ StartTimer
    \/ \E ip \in Ips : Offline(ip)
    \/ \E a \in Apps : RemoteLogin(a)
    \/ \E a \in Apps : RemoteApplyTransFile(a)
    \/ \E a \in Apps \cup {NoApp} : TransJob(a)
    \/ \E a \in Apps : PeerStops(a) \/ PeerRestarts(a)

(* The QTimer fires every second once started and the Qt event loop       *)
(* handles queued signals: both are weakly fair.  Peers and the network   *)
(* are not.                                                                *)
Fairness == WF_vars(TimeOut) /\ WF_vars(StartTimer)

Spec == Init /\ [][Next]_vars /\ Fairness

-----------------------------------------------------------------------------
TypeOK ==
    /\ \E D \in SUBSET Apps : pingLost \in [D -> 0..LostLimit + 1]
    /\ \E D \in SUBSET Apps : remoteIps \in [D -> Ips]
    /\ \E D \in SUBSET Apps : binding \in [D -> Ips]
    /\ timerActive \in BOOLEAN
    /\ startQueued \in 0..MaxQueued
    /\ status \in Status
    /\ alive \in [Apps -> BOOLEAN]
    /\ silent \in [Apps -> 0..MaxSilence]
    /\ noPingNotes \in [Apps -> 0..MaxNotes]
    /\ connCbNotes \in [Apps -> 0..MaxNotes]

(* handleTimeOut only reports an app as lost (NOPING_TIMEOUT) after it    *)
(* has been silent for more than LostLimit + 1 ticks: the count is reset  *)
(* by every ping and raised by every tick, and no other handler raises it.*)
OfflineOnlyAfterSilence ==
    [][\A a \in Apps :
         noPingNotes'[a] > noPingNotes[a] => silent'[a] >= LostLimit + 2]_vars

(* Each way of losing a peer is reported at most once per silence: after  *)
(* handleTimeOut reports an app it is no longer in _ping_lost_count, and  *)
(* after handleOffline reports it its ip entry is gone, until it pings.   *)
ReportedOncePerReason ==
    \A a \in Apps : noPingNotes[a] <= 1 /\ connCbNotes[a] <= 1

(* A watched peer that goes silent is eventually dropped from the watch   *)
(* list: the ping or the login that watched it also started the timer,    *)
(* and handleTimeOut keeps counting until the limit.                      *)
SilentPeerDropped ==
    \A a \in Apps :
        (a \in DOMAIN pingLost /\ ~alive[a])
            ~> (a \notin DOMAIN pingLost \/ alive[a])

=============================================================================
