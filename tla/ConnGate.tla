------------------------------ MODULE ConnGate -------------------------------
(***************************************************************************)
(* The connection gate of the SMTP listeners: gateListener and limitedConn *)
(* of internal/smtpsrv/server.go, connLimiter of limits.go and the PROXY   *)
(* handshake of proxyproto.go.                                             *)
(*                                                                         *)
(* Each listener has one accept loop; all of them share one connLimiter.   *)
(* The handshake runs inside the accept loop, on the raw connection, so    *)
(* the slot is taken under the address of the peer.  A connection may be   *)
(* closed several times, by go-smtp and by the session.                    *)
(***************************************************************************)
EXTENDS Naturals, FiniteSets

CONSTANTS
    Conns,          \* connections
    Loops,          \* accept loops
    Clients,        \* client addresses
    Balancer,       \* the address of a load balancer
    Vias,           \* how connections arrive: subset of {"direct", "balanced"}
    Trusted,        \* addresses inside proxy_protocol.trusted_networks
    ProxyEnabled,   \* proxy_protocol.enabled
    MaxPerIP,       \* smtp.max_connections_per_ip, 0 for no limit
    MaxTotal        \* smtp.max_connections, 0 for no limit

Peers == Clients \cup {Balancer}

ASSUME GateAssumption ==
    /\ IsFiniteSet(Conns) /\ Clients # {} /\ Loops # {}
    /\ Balancer \notin Clients
    /\ Vias \subseteq {"direct", "balanced"} /\ Trusted \subseteq Peers
    /\ ProxyEnabled \in BOOLEAN /\ MaxPerIP \in Nat /\ MaxTotal \in Nat

VARIABLES
    conn,       \* the connections
    perIP,      \* connLimiter.perIP; a missing key is 0
    total       \* connLimiter.total

vars == <<conn, perIP, total>>

(* What the peer sends before it is greeted: a PROXY header that names the
   client, one that names nobody, a header that does not parse, something else,
   nothing until it hangs up, or nothing at all, as an SMTP client does. *)
Openings == {"header", "unknown", "malformed", "other", "hangup", "silent"}

(* A load balancer that speaks the PROXY protocol sends a header. *)
Sends(peer) == IF ~ProxyEnabled THEN {"silent"}
               ELSE IF peer = Balancer THEN {"header", "unknown"} ELSE Openings

Conn == [pc : {"new", "pending", "handshake", "open", "closed"},
         client : Clients, peer : Peers, at : Loops, opening : Openings,
         remote : Peers,            \* RemoteAddr as the session sees it
         released : BOOLEAN]        \* limitedConn.once

HoldsSlot(c) == conn[c].pc \in {"handshake", "open", "closed"} /\ ~conn[c].released

NoConn == [pc |-> "new", client |-> CHOOSE a \in Clients : TRUE, peer |-> Balancer,
           at |-> CHOOSE l \in Loops : TRUE, opening |-> "silent",
           remote |-> Balancer, released |-> TRUE]

Init ==
    /\ conn = [c \in Conns |-> NoConn]
    /\ perIP = [a \in Peers |-> 0]
    /\ total = 0

(* A client connects, directly or through the load balancer, which passes a
   header on; the kernel queues the connection. *)
Connect(c) ==
    /\ conn[c].pc = "new"
    /\ \E a \in Clients, via \in Vias, l \in Loops :
          LET peer == IF via = "direct" THEN a ELSE Balancer IN
          conn' = [conn EXCEPT ![c] =
              [NoConn EXCEPT !.pc = "pending", !.client = a, !.peer = peer, !.at = l,
                             !.remote = peer, !.released = FALSE]]
    /\ UNCHANGED <<perIP, total>>

(* Mutant: the limit per address is compared with the total. *)
OverLimitTogether(peer) ==
    \/ MaxTotal > 0 /\ total >= MaxTotal
    \/ MaxPerIP > 0 /\ total >= MaxPerIP

(* The two early returns of connLimiter.acquire. *)
OverLimit(peer) ==
    \/ MaxTotal > 0 /\ total >= MaxTotal
    \/ MaxPerIP > 0 /\ perIP[peer] >= MaxPerIP

(* The accept loop is not busy with a handshake. *)
LoopFree(l) == \A c \in Conns : ~(conn[c].at = l /\ conn[c].pc = "handshake")

Accept(c) ==
    /\ conn[c].pc = "pending"
    /\ LoopFree(conn[c].at)
    /\ ~OverLimit(conn[c].peer)
    /\ perIP' = [perIP EXCEPT ![conn[c].peer] = @ + 1]
    /\ total' = total + 1
    /\ \E o \in Sends(conn[c].peer) :
          conn' = [conn EXCEPT ![c].pc = IF ProxyEnabled THEN "handshake" ELSE "open",
                               ![c].opening = o]

(* A closed connection: all that matters is where its slot was. *)
ClosedConn(c) == [conn EXCEPT ![c] = [NoConn EXCEPT !.pc = "closed", !.peer = conn[c].peer]]

(* Over a limit the raw connection is closed; there is no slot to release. *)
Refuse(c) ==
    /\ conn[c].pc = "pending"
    /\ LoopFree(conn[c].at)
    /\ OverLimit(conn[c].peer)
    /\ conn' = ClosedConn(c)
    /\ UNCHANGED <<perIP, total>>

(* Mutant: the slot is given back to the address the session sees. *)
ReleaseRemote(c) ==
    LET a == conn[c].remote IN
    IF conn[c].released THEN UNCHANGED <<perIP, total>>
    ELSE /\ perIP' = [perIP EXCEPT ![a] = IF @ <= 1 THEN 0 ELSE @ - 1]
         /\ total' = IF total > 0 THEN total - 1 ELSE 0

(* limitedConn.Close: connLimiter.release runs once, under the peer's address. *)
ReleaseOnce(c) ==
    LET a == conn[c].peer IN
    IF conn[c].released THEN UNCHANGED <<perIP, total>>
    ELSE /\ perIP' = [perIP EXCEPT ![a] = IF @ <= 1 THEN 0 ELSE @ - 1]
         /\ total' = IF total > 0 THEN total - 1 ELSE 0

Close(c) ==
    /\ conn[c].pc \in {"open", "closed"}
    /\ ReleaseOnce(c)
    /\ conn' = ClosedConn(c)

(* The handshake fails; the gate closes the connection and accepts the next. *)
Reject(c) ==
    /\ ReleaseOnce(c)
    /\ conn' = ClosedConn(c)

Handshake(c) ==
    /\ conn[c].pc = "handshake"
    /\ \/ /\ \/ conn[c].opening \in {"other", "hangup"}
             \/ conn[c].opening \in {"header", "unknown"} /\ conn[c].peer \in Trusted
          /\ conn' = [conn EXCEPT ![c].pc = "open", ![c].opening = "silent",
                ![c].remote = IF conn[c].opening = "header" THEN conn[c].client ELSE @]
          /\ UNCHANGED <<perIP, total>>
       \/ /\ \/ conn[c].opening = "malformed"
             \/ conn[c].opening \in {"header", "unknown"} /\ conn[c].peer \notin Trusted
          /\ Reject(c)

(* Mutant: there is no deadline for the header. *)
HandshakeWaits(c) == conn[c].pc = "handshake" /\ UNCHANGED vars

(* proxyReadTimeout: Peek returns a timeout, which is an error like any other. *)
HandshakeTimeout(c) ==
    /\ conn[c].pc = "handshake"
    /\ conn[c].opening = "silent"
    /\ Reject(c)

(* The name is used for the next connection. *)
Forget(c) ==
    /\ conn[c].pc = "closed"
    /\ conn[c].released
    /\ conn' = [conn EXCEPT ![c] = NoConn]
    /\ UNCHANGED <<perIP, total>>

Next ==
    \E c \in Conns :
        Connect(c) \/ Accept(c) \/ Refuse(c) \/ Handshake(c) \/ HandshakeTimeout(c)
            \/ Close(c) \/ Forget(c)

Spec == Init /\ [][Next]_vars

(* Handshakes take their next step, and the kernel's accept queue is first in,
   first out, so no connection is passed over for ever. *)
Fairness ==
    \A c \in Conns :
        /\ WF_vars(Handshake(c)) /\ WF_vars(HandshakeTimeout(c))
        /\ SF_vars(Accept(c) \/ Refuse(c))

FairSpec == Spec /\ Fairness

-----------------------------------------------------------------------------
(* Properties *)

(* The counters equal the connections that hold a slot, per address and in
   total, and respect the limits: over refusals, failed handshakes, repeated
   closes and addresses taken from a header no slot leaks or is freed twice. *)
SlotsExact ==
    /\ total = Cardinality({c \in Conns : HoldsSlot(c)})
    /\ \A a \in Peers :
          perIP[a] = Cardinality({c \in Conns : HoldsSlot(c) /\ conn[c].peer = a})
    /\ MaxTotal > 0 => total <= MaxTotal
    /\ MaxPerIP > 0 => \A a \in Peers : perIP[a] <= MaxPerIP

(* A client that connects directly is refused only if it has reached its own
   limit, or everybody together the total: neither another device nor the
   clients behind a load balancer cost it anything below the total (the purpose
   limits.go:8-12 gives for the limiter). *)
RefusedForOwnConnections ==
    [][\A c \in Conns :
        conn[c].pc = "pending" /\ conn'[c].pc = "closed" /\ conn[c].peer = conn[c].client =>
            \/ MaxTotal > 0 /\ total >= MaxTotal
            \/ /\ MaxPerIP > 0
               /\ Cardinality({d \in Conns : HoldsSlot(d) /\ conn[d].client = conn[c].client})
                      >= MaxPerIP]_vars

(* A peer that says nothing pins neither its slot nor the accept loop: every
   handshake ends, and every queued connection is accepted or refused. *)
LoopGoesOn ==
    \A c \in Conns : conn[c].pc \in {"pending", "handshake"}
                        ~> conn[c].pc \in {"open", "closed"}
=============================================================================
