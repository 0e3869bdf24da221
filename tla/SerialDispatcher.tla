--------------------------- MODULE SerialDispatcher ---------------------------
(***************************************************************************)
(* What the dispatcher promises (spec, Message Router and Scheduling):     *)
(* envelopes of an inbound channel are handled one at a time, in arrival  *)
(* order; an unparsable envelope is logged and discarded; an apply for a *)
(* share while another share is established is rejected and changes      *)
(* nothing (Share Session).  This module is                               *)
(* the reference the dispatcher of the code is checked against.           *)
(***************************************************************************)
EXTENDS RpcHandlers

CONSTANT MaxMsgs     \* envelopes each peer sends in a behaviour

VARIABLES
    pending,   \* envelopes received and not yet handled, in arrival order
    st,        \* the handlers' shared state (RpcHandlers!States)
    sent       \* sent[p]: envelopes peer p has put on the channel

vars == <<pending, st, sent>>

Init ==
    /\ pending = <<>>
    /\ st = InitState
    /\ sent = [p \in Peers |-> 0]

\* A peer's envelope arrives at the end of the channel.
Arrive(m) ==
    /\ sent[m.from] < MaxMsgs
    /\ pending' = Append(pending, m)
    /\ sent' = [sent EXCEPT ![m.from] = @ + 1]
    /\ UNCHANGED st

(* The spec's Share Session: an apply while a share with another address *)
(* is established is answered AlreadyConnected and changes no state; every *)
(* other envelope has the effect of its handler.                          *)
Promised(m, s) ==
    IF m.kind = "APPLY_SHARE_CONNECT" /\ s.shareIp \in Peers THEN s
    ELSE Handle(m, s)

(* Two envelopes commute when handling them in either order leaves the   *)
(* same state from every state: no observer of the handlers' state can    *)
(* tell which was handled first.                                           *)
Commute(m1, m2) ==
    \A s \in States : Promised(m1, Promised(m2, s)) = Promised(m2, Promised(m1, s))

(* The envelope at position i is handled, atomically, when it commutes    *)
(* with every envelope that arrived before it and is still pending: that  *)
(* is handling in arrival order up to the order of commuting handlers.    *)
(* An unparsable envelope has no effect, so it commutes with all and may *)
(* be discarded at any position.                                         *)
HandleAt(i) ==
    /\ \A j \in 1..i - 1 : Commute(pending[j], pending[i])
    /\ st' = Promised(pending[i], st)
    /\ pending' = SubSeq(pending, 1, i - 1) \o SubSeq(pending, i + 1, Len(pending))
    /\ UNCHANGED sent

\* A local request binds the sender to a peer, independently of the channel.
ApplyShare(p) ==
    /\ st' = [st EXCEPT !.sender = p]
    /\ UNCHANGED <<pending, sent>>

Next ==
    \/ \E m \in Envelopes : Arrive(m)
    \/ \E p \in Peers : ApplyShare(p)
    \/ \E i \in 1..Len(pending) : HandleAt(i)

Spec == Init /\ [][Next]_vars

=============================================================================
