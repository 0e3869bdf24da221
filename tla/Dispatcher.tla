------------------------------ MODULE Dispatcher ------------------------------
(***************************************************************************)
(* The inbound dispatcher of HandleRpcService                             *)
(* (src/compat/plugins/daemon/core/service/rpc/handlerpcservice.cpp).     *)
(*                                                                         *)
(* Remote envelopes are put on the one global channel _income_chan        *)
(* (capacity 10, 300 ms receive timeout).  startRemoteServer(port) is      *)
(* called for the control port and for the transfer port, and each call   *)
(* starts its own UNIGO loop reading that same channel, so two consumers   *)
(* take envelopes from it concurrently.  A consumer takes an envelope,    *)
(* parses it, for most kinds pushes the answer on _outgo_chan (capacity   *)
(* 10, 20 ms write timeout) before calling the handler, for the others    *)
(* after it, and loops.  Each of those channel operations is a point at   *)
(* which the other consumer may run.                                       *)
(***************************************************************************)
EXTENDS RpcHandlers

CONSTANTS
    Consumers,   \* the UNIGO loops started by startRemoteServer (one per port)
    InCap,       \* capacity of _income_chan
    OutCap,      \* capacity of _outgo_chan
    MaxMsgs,     \* envelopes each peer sends in a behaviour
    PeerKinds    \* PeerKinds[p]: the kinds peer p sends (a scenario)

ASSUME /\ InCap \in Nat \ {0} /\ OutCap \in Nat \ {0} /\ MaxMsgs \in Nat
       /\ PeerKinds \in [Peers -> SUBSET Kinds]

VARIABLES
    income,   \* _income_chan: envelopes not yet taken, oldest first
    pc,       \* pc[c]: where loop c is (recv, echo, handle, reply)
    cur,      \* cur[c]: the envelope loop c took
    taken,    \* envelopes taken by a loop and not yet handled, in take order
    st,       \* the handlers' shared state (RpcHandlers!States)
    outgo,    \* number of answers queued on _outgo_chan
    sent      \* sent[p]: envelopes peer p has put on the channel

vars == <<income, pc, cur, taken, st, outgo, sent>>

NoEnv == [from |-> NoPeer, kind |-> "NONE", arg |-> FALSE]

Init ==
    /\ income = <<>>
    /\ pc = [c \in Consumers |-> "recv"]
    /\ cur = [c \in Consumers |-> NoEnv]
    /\ taken = <<>>
    /\ st = InitState
    /\ outgo = 0
    /\ sent = [p \in Peers |-> 0]

\* The first position of m in the sequence s.
IndexOf(s, m) == CHOOSE i \in 1..Len(s) : s[i] = m /\ \A j \in 1..i-1 : s[j] # m

RemoveAt(s, i) == SubSeq(s, 1, i - 1) \o SubSeq(s, i + 1, Len(s))

-----------------------------------------------------------------------------
(* Variants of loop steps with a plausible defect, each defined before    *)
(* the step it could replace; the properties below must reject them.      *)

\* _outgo_chan built without a write timeout: a full channel blocks.
PushOutBlocking(c) ==
    /\ pc[c] \in {"echo", "reply"}
    /\ outgo < OutCap
    /\ outgo' = outgo + 1
    /\ pc' = [pc EXCEPT ![c] = IF pc[c] = "echo" THEN "handle" ELSE "recv"]
    /\ UNCHANGED <<income, cur, taken, st, sent>>

\* An answer written to _outgo_chan regardless of its capacity.
PushOutUnbounded(c) ==
    /\ pc[c] \in {"echo", "reply"}
    /\ outgo' = outgo + 1
    /\ pc' = [pc EXCEPT ![c] = IF pc[c] = "echo" THEN "handle" ELSE "recv"]
    /\ UNCHANGED <<income, cur, taken, st, sent>>

-----------------------------------------------------------------------------
(* A peer's envelope is put on _income_chan by the RPC service; when the  *)
(* channel is full the producer blocks (this producer is not under src/,  *)
(* and follows the spec's back-pressure rule).                           *)
Arrive(m) ==
    /\ m.kind \in PeerKinds[m.from]
    /\ sent[m.from] < MaxMsgs
    /\ Len(income) < InCap
    /\ income' = Append(income, m)
    /\ sent' = [sent EXCEPT ![m.from] = @ + 1]
    /\ UNCHANGED <<pc, cur, taken, st, outgo>>

(* _income_chan >> indata returns an envelope (a receive that times out   *)
(* on the empty channel loops without any effect).  An envelope whose     *)
(* body does not parse is logged and dropped and the loop continues; any  *)
(* other goes to the switch, which first answers the ReplyFirst kinds.    *)
Receive(c) ==
    /\ pc[c] = "recv"
    /\ income # <<>>
    /\ LET m == Head(income) IN
         /\ income' = Tail(income)
         /\ IF m.kind = Unparsable
              THEN UNCHANGED <<pc, cur, taken>>
              ELSE /\ cur' = [cur EXCEPT ![c] = m]
                   /\ taken' = Append(taken, m)
                   /\ pc' = [pc EXCEPT ![c] = IF m.kind \in ReplyFirst
                                                 THEN "echo" ELSE "handle"]
    /\ UNCHANGED <<st, outgo, sent>>

(* The receive on the empty channel times out after 300 ms; the loop    *)
(* checks that the service still exists and reads again.                *)
ReceiveTimeout(c) ==
    /\ pc[c] = "recv"
    /\ income = <<>>
    /\ UNCHANGED vars

(* _outgo_chan << data: the answer is queued, or, when the channel stays  *)
(* full for the 20 ms write timeout, lost.  After an answer sent first   *)
(* the handler runs; after one sent last the loop reads again.           *)
PushOut(c) ==
    /\ pc[c] \in {"echo", "reply"}
    /\ outgo' = IF outgo < OutCap THEN outgo + 1 ELSE outgo
    /\ pc' = [pc EXCEPT ![c] = IF pc[c] = "echo" THEN "handle" ELSE "recv"]
    /\ UNCHANGED <<income, cur, taken, st, sent>>

(* The handler of the switch runs on the shared state; the kinds answered *)
(* inside or after their handler go on to push that answer.              *)
HandleEnvelope(c) ==
    /\ pc[c] = "handle"
    /\ st' = Handle(cur[c], st)
    /\ taken' = RemoveAt(taken, IndexOf(taken, cur[c]))
    /\ pc' = [pc EXCEPT ![c] = IF cur[c].kind \in ReplyLast
                                  THEN "reply" ELSE "recv"]
    /\ UNCHANGED <<income, cur, outgo, sent>>

(* The local front-end asks this daemon to apply for a share with peer p:  *)
(* the daemon creates the sender for p and sends APPLY_SHARE_CONNECT (the  *)
(* daemon's IPC side is not under src/; this follows the spec's Share     *)
(* Session, where the controller's apply binds the target).              *)
ApplyShare(p) ==
    /\ st' = [st EXCEPT !.sender = p]
    /\ UNCHANGED <<income, pc, cur, taken, outgo, sent>>

\* The RPC service takes an answer off _outgo_chan.
Drain ==
    /\ outgo > 0
    /\ outgo' = outgo - 1
    /\ UNCHANGED <<income, pc, cur, taken, st, sent>>

Next ==
    \/ \E m \in Envelopes : Arrive(m)
    \/ \E c \in Consumers : \/ Receive(c)
                           \/ ReceiveTimeout(c)
                           \/ PushOut(c)
                           \/ HandleEnvelope(c)
    \/ \E p \in Peers : ApplyShare(p)
    \/ Drain

(* The coroutine scheduler runs every ready loop; the receive timeout     *)
(* makes the loop come back to the channel, and a full _outgo_chan gives  *)
(* up after 20 ms, so each loop step is weakly fair.  Peers and the RPC   *)
(* service reading answers are the environment and get no fairness.      *)
Fairness ==
    \A c \in Consumers :
        WF_vars(Receive(c)) /\ WF_vars(PushOut(c)) /\ WF_vars(HandleEnvelope(c))

Spec == Init /\ [][Next]_vars /\ Fairness

-----------------------------------------------------------------------------
TypeOK ==
    /\ income \in Seq(Envelopes) /\ Len(income) <= InCap
    /\ pc \in [Consumers -> {"recv", "echo", "handle", "reply"}]
    /\ cur \in [Consumers -> Envelopes \cup {NoEnv}]
    /\ taken \in Seq(Envelopes)
    /\ st \in States
    /\ outgo \in 0..OutCap
    /\ sent \in [Peers -> 0..MaxMsgs]

\* Envelopes received and not yet handled, oldest first.
InFlight == taken \o income

(* Every envelope put on _income_chan is eventually handled or dropped,   *)
(* even when nobody reads the answers: a loop neither stops on a parse    *)
(* error nor waits for longer than the write timeout on a full            *)
(* _outgo_chan, so the channel drains whenever peers stop sending.        *)
EveryEnvelopeHandled == InFlight # <<>> ~> InFlight = <<>>

(* The dispatcher implements the serial dispatcher of the spec: envelopes *)
(* of the inbound channel are handled one at a time in arrival order (up  *)
(* to swapping handlers that commute), and a share apply rejected because *)
(* another share is established leaves the status, share address and     *)
(* sender as they were.                                                    *)
Serial == INSTANCE SerialDispatcher WITH pending <- InFlight
SerialRefinement == Serial!Spec

=============================================================================
