--------------------------- MODULE FrontEndProofs ---------------------------
(***************************************************************************)
(* Proofs about the SMTP front end.  ConnGate: for any number of           *)
(* connections, accept loops and addresses, any limits, and with or        *)
(* without the PROXY protocol.  SmtpFrontEnd: for any number of listeners  *)
(* and renewals of the certificate.                                        *)
(***************************************************************************)
EXTENDS ConnGate, SmtpFrontEnd, FiniteSetTheorems, TLAPS

-----------------------------------------------------------------------------
(* The connection gate *)

TypeInv ==
    /\ conn \in [Conns -> Conn]
    /\ perIP \in [Peers -> Nat]
    /\ total \in Nat

(* limitedConn.once has run exactly for what is closed, and a connection that is
   not the load balancer's is its client's own. *)
ConnOK(k) ==
    /\ k.pc \in {"new", "closed"} => k.released
    /\ k.pc \in {"pending", "handshake", "open"} =>
          ~k.released /\ (k.peer = Balancer \/ k.peer = k.client)

Holding == {c \in Conns : HoldsSlot(c)}
HoldingAs(a) == {c \in Conns : HoldsSlot(c) /\ conn[c].peer = a}

Inv ==
    /\ TypeInv
    /\ \A c \in Conns : ConnOK(conn[c])
    /\ SlotsExact

-----------------------------------------------------------------------------
LEMMA NoConnOK == NoConn \in Conn /\ ConnOK(NoConn)
<1>1. (CHOOSE a \in Clients : TRUE) \in Clients
  BY GateAssumption
<1>2. (CHOOSE l \in Loops : TRUE) \in Loops
  BY GateAssumption
<1> QED BY <1>1, <1>2 DEF NoConn, Conn, ConnOK, Peers, Openings

LEMMA Counted ==
    /\ IsFiniteSet(Holding) /\ Cardinality(Holding) \in Nat
    /\ \A a \in Peers : IsFiniteSet(HoldingAs(a)) /\ Cardinality(HoldingAs(a)) \in Nat
<1>1. Holding \subseteq Conns /\ \A a \in Peers : HoldingAs(a) \subseteq Conns
  BY DEF Holding, HoldingAs
<1> QED BY <1>1, GateAssumption, FS_Subset, FS_CardinalityType

LEMMA Exactly ==
    SlotsExact <=>
        /\ total = Cardinality(Holding)
        /\ \A a \in Peers : perIP[a] = Cardinality(HoldingAs(a))
        /\ MaxTotal > 0 => total <= MaxTotal
        /\ MaxPerIP > 0 => \A a \in Peers : perIP[a] <= MaxPerIP
BY DEF SlotsExact, Holding, HoldingAs

LEMMA Initially == Init => Inv
<1> SUFFICES ASSUME Init PROVE Inv
  OBVIOUS
<1>1. TypeInv /\ \A c \in Conns : ConnOK(conn[c])
  BY NoConnOK DEF Init, TypeInv
<1>2. Holding = {} /\ \A a \in Peers : HoldingAs(a) = {}
  BY DEF Init, Holding, HoldingAs, HoldsSlot, NoConn
<1>3. SlotsExact
  <2>1. Cardinality(Holding) = 0 /\ \A a \in Peers : Cardinality(HoldingAs(a)) = 0
    BY Zenon, <1>2, FS_EmptySet
  <2>2. total = 0 /\ \A a \in Peers : perIP[a] = 0
    BY Zenon DEF Init
  <2>3. (MaxTotal > 0 => 0 <= MaxTotal) /\ (MaxPerIP > 0 => 0 <= MaxPerIP)
    BY GateAssumption
  <2> QED BY Zenon, <2>1, <2>2, <2>3, Exactly
<1> QED BY <1>1, <1>3 DEF Inv

(* A step that takes no slot and gives none back. *)
LEMMA Keeps ==
    ASSUME Inv, NEW c \in Conns, NEW k \in Conn, ConnOK(k),
           conn' = [conn EXCEPT ![c] = k], UNCHANGED <<perIP, total>>,
           k.pc \in {"handshake", "open", "closed"} /\ ~k.released <=> HoldsSlot(c),
           HoldsSlot(c) => k.peer = conn[c].peer
    PROVE  Inv'
<1>1. TypeInv' /\ \A d \in Conns : ConnOK(conn[d])'
  BY DEF Inv, TypeInv, ConnOK
<1>2. \A d \in Conns : /\ HoldsSlot(d)' <=> HoldsSlot(d)
                       /\ HoldsSlot(d) => conn'[d].peer = conn[d].peer
  BY DEF Inv, TypeInv, HoldsSlot
<1>3. Holding' = Holding /\ \A a \in Peers : HoldingAs(a)' = HoldingAs(a)
  BY <1>2 DEF Holding, HoldingAs
<1>4. SlotsExact'
  BY Zenon, <1>3 DEF Inv, SlotsExact, Holding, HoldingAs
<1> QED BY <1>1, <1>4 DEF Inv

LEMMA AcceptStep ==
    ASSUME Inv, NEW c \in Conns, Accept(c)
    PROVE  Inv'
<1>1. TypeInv /\ ConnOK(conn[c]) /\ conn[c] \in Conn
  BY DEF Inv, TypeInv
<1>a. PICK a \in Peers : a = conn[c].peer
  BY <1>1 DEF Conn
<1>2. PICK o \in Sends(a) :
         conn' = [conn EXCEPT ![c].pc = IF ProxyEnabled THEN "handshake" ELSE "open",
                              ![c].opening = o]
  BY Zenon, <1>a DEF Accept
<1> DEFINE k == [conn[c] EXCEPT !.pc = IF ProxyEnabled THEN "handshake" ELSE "open",
                                !.opening = o]
<1>3. conn' = [conn EXCEPT ![c] = k] /\ o \in Openings
  BY Zenon, <1>2 DEF Sends, Openings
<1>4. k \in Conn /\ ConnOK(k) /\ k.peer = a /\ k.pc \in {"handshake", "open"} /\ ~k.released
  BY Zenon, <1>1, <1>a, <1>3 DEF Conn, ConnOK, Accept
<1> HIDE DEF k
<1>5. TypeInv' /\ \A d \in Conns : ConnOK(conn[d])'
  <2>1. conn' \in [Conns -> Conn] /\ \A d \in Conns : ConnOK(conn'[d])
    BY <1>1, <1>3, <1>4 DEF Inv, TypeInv
  <2>2. perIP' \in [Peers -> Nat] /\ total' \in Nat
    <3>1. perIP' = [perIP EXCEPT ![a] = perIP[a] + 1] /\ total' = total + 1
      BY <1>a DEF Accept
    <3>2. perIP[a] + 1 \in Nat /\ perIP \in [Peers -> Nat] /\ total \in Nat
      BY <1>1 DEF TypeInv
    <3> QED BY <3>1, <3>2
  <2> QED BY <2>1, <2>2 DEF TypeInv, ConnOK
<1>6. ~HoldsSlot(c) /\ HoldsSlot(c)' /\ conn'[c].peer = a
  BY Zenon, <1>1, <1>3, <1>4 DEF HoldsSlot, Accept, TypeInv
<1>7. \A d \in Conns \ {c} : conn'[d] = conn[d]
  BY <1>1, <1>3 DEF TypeInv
<1>8. Holding' = Holding \cup {c} /\ c \notin Holding
  BY <1>6, <1>7 DEF Holding, HoldsSlot
<1>9. /\ HoldingAs(a)' = HoldingAs(a) \cup {c} /\ c \notin HoldingAs(a)
      /\ \A b \in Peers \ {a} : HoldingAs(b)' = HoldingAs(b)
  BY <1>6, <1>7 DEF HoldingAs, HoldsSlot
<1>10. /\ total' = total + 1 /\ perIP' = [perIP EXCEPT ![a] = @ + 1]
       /\ MaxTotal > 0 => total < MaxTotal
       /\ MaxPerIP > 0 => perIP[a] < MaxPerIP
  BY <1>1, <1>a, GateAssumption DEF Accept, OverLimit, TypeInv
<1>11. total' = Cardinality(Holding') /\ (MaxTotal > 0 => total' <= MaxTotal)
  <2>1. Cardinality(Holding \cup {c}) = Cardinality(Holding) + 1
    BY Zenon, <1>8, Counted, FS_AddElement
  <2>2. total = Cardinality(Holding)
    BY Exactly DEF Inv
  <2> QED BY <1>1, <1>8, <1>10, <2>1, <2>2, GateAssumption DEF TypeInv
<1>12. ASSUME NEW b \in Peers
       PROVE  perIP'[b] = Cardinality(HoldingAs(b)') /\ (MaxPerIP > 0 => perIP'[b] <= MaxPerIP)
  <2>1. CASE b = a
    <3>1. Cardinality(HoldingAs(a) \cup {c}) = Cardinality(HoldingAs(a)) + 1
      BY Zenon, <1>1, <1>9, Counted, FS_AddElement
    <3>2. perIP[a] = Cardinality(HoldingAs(a)) /\ perIP[a] \in Nat /\ perIP'[a] = perIP[a] + 1
      BY <1>1, <1>10, Exactly DEF Inv, TypeInv
    <3>3. MaxPerIP > 0 => perIP'[a] <= MaxPerIP
      BY <1>10, <3>2, GateAssumption
    <3>4. perIP'[a] = Cardinality(HoldingAs(a)')
      BY <1>9, <3>1, <3>2
    <3> QED BY <2>1, <3>3, <3>4
  <2>2. CASE b # a
    BY <1>1, <1>9, <1>10, <2>2, Exactly DEF Inv, TypeInv
  <2> QED BY <2>1, <2>2
<1>13. SlotsExact'
  BY Zenon, <1>11, <1>12 DEF SlotsExact, Holding, HoldingAs
<1> QED BY <1>5, <1>13 DEF Inv

(* A closed connection gives back what it holds, under the address of its peer. *)
LEMMA ReleaseStep ==
    ASSUME Inv, NEW c \in Conns, conn[c].pc \in {"handshake", "open", "closed"},
           ReleaseOnce(c), conn' = ClosedConn(c)
    PROVE  Inv'
<1>1. TypeInv /\ ConnOK(conn[c]) /\ conn[c] \in Conn
  BY DEF Inv, TypeInv
<1>a. PICK a \in Peers : a = conn[c].peer
  BY <1>1 DEF Conn
<1> DEFINE k == [NoConn EXCEPT !.pc = "closed", !.peer = a]
<1>2. k \in Conn /\ ConnOK(k) /\ k.released /\ k.peer = a /\ conn' = [conn EXCEPT ![c] = k]
  BY Zenon, <1>1, <1>a, NoConnOK DEF Conn, ConnOK, NoConn, ClosedConn
<1> HIDE DEF k
<1>3. CASE conn[c].released
  BY Zenon, <1>1, <1>a, <1>2, <1>3, Keeps DEF ReleaseOnce, HoldsSlot
<1>4. CASE ~conn[c].released
  <2>1. HoldsSlot(c) /\ ~HoldsSlot(c)' /\ \A d \in Conns \ {c} : conn'[d] = conn[d]
    BY <1>1, <1>2, <1>4 DEF HoldsSlot, TypeInv
  <2>2. Holding' = Holding \ {c} /\ c \in Holding
    <3>1. \A d \in Conns \ {c} : HoldsSlot(d)' <=> HoldsSlot(d)
      BY <2>1 DEF HoldsSlot
    <3> QED BY <2>1, <3>1 DEF Holding
  <2>3. /\ HoldingAs(a)' = HoldingAs(a) \ {c} /\ c \in HoldingAs(a)
        /\ \A b \in Peers \ {a} : HoldingAs(b)' = HoldingAs(b)
    BY <1>a, <2>1 DEF HoldingAs, HoldsSlot
  <2>4. total = Cardinality(Holding) /\ perIP[a] = Cardinality(HoldingAs(a))
    BY <1>1, Exactly DEF Inv
  <2>5. total > 0 /\ perIP[a] > 0
    BY <1>1, <2>2, <2>3, <2>4, Counted, FS_EmptySet
  <2>6. total' = total - 1 /\ perIP' = [perIP EXCEPT ![a] = perIP[a] - 1]
    BY <1>1, <1>a, <1>4, <2>5 DEF ReleaseOnce, TypeInv
  <2>7. TypeInv' /\ \A d \in Conns : ConnOK(conn[d])'
    BY <1>1, <1>2, <2>5, <2>6 DEF Inv, TypeInv, ConnOK
  <2>8. total' = Cardinality(Holding') /\ (MaxTotal > 0 => total' <= MaxTotal)
    <3>1. Cardinality(Holding \ {c}) = Cardinality(Holding) - 1
      BY Zenon, <2>2, Counted, FS_RemoveElement
    <3>2. MaxTotal > 0 => total <= MaxTotal
      BY DEF Inv, SlotsExact
    <3> QED BY <1>1, <2>2, <2>4, <2>6, <3>1, <3>2, GateAssumption DEF TypeInv
  <2>9. ASSUME NEW b \in Peers
        PROVE  perIP'[b] = Cardinality(HoldingAs(b)') /\ (MaxPerIP > 0 => perIP'[b] <= MaxPerIP)
    <3>1. CASE b = a
      <4>1. Cardinality(HoldingAs(a) \ {c}) = Cardinality(HoldingAs(a)) - 1
        BY Zenon, <1>1, <2>3, Counted, FS_RemoveElement
      <4>2. perIP'[a] = perIP[a] - 1 /\ (MaxPerIP > 0 => perIP[a] <= MaxPerIP)
        BY <1>1, <2>6 DEF Inv, SlotsExact, TypeInv
      <4>3. PICK n, max : n = perIP[a] /\ max = MaxPerIP
        BY Zenon
      <4>4. n \in Nat /\ max \in Nat
        BY <1>1, <4>3, GateAssumption DEF TypeInv
      <4>5. max > 0 /\ n <= max => n - 1 <= max
        BY <4>4
      <4> QED BY Zenon, <2>3, <2>4, <3>1, <4>1, <4>2, <4>3, <4>5
    <3>2. CASE b # a
      BY <1>1, <2>3, <2>6, <3>2, Exactly DEF Inv, TypeInv
    <3> QED BY <3>1, <3>2
  <2>10. SlotsExact'
    BY Zenon, <2>8, <2>9 DEF SlotsExact, Holding, HoldingAs
  <2> QED BY <2>7, <2>10 DEF Inv
<1> QED BY <1>3, <1>4

LEMMA QuietSteps ==
    ASSUME Inv, NEW c \in Conns, Connect(c) \/ Refuse(c) \/ Forget(c)
    PROVE  Inv'
<1>1. TypeInv /\ conn[c] \in Conn
  BY DEF Inv, TypeInv
<1>2. CASE Connect(c)
  <2>1. PICK a \in Clients, via \in Vias, l \in Loops :
           LET peer == IF via = "direct" THEN a ELSE Balancer IN
           conn' = [conn EXCEPT ![c] =
              [NoConn EXCEPT !.pc = "pending", !.client = a, !.peer = peer, !.at = l,
                             !.remote = peer, !.released = FALSE]]
    BY Zenon, <1>2 DEF Connect
  <2> DEFINE peer == IF via = "direct" THEN a ELSE Balancer
             k == [NoConn EXCEPT !.pc = "pending", !.client = a, !.peer = peer, !.at = l,
                                 !.remote = peer, !.released = FALSE]
  <2>2. k \in Conn /\ ConnOK(k) /\ k.pc = "pending"
    BY Zenon, NoConnOK DEF NoConn, Conn, ConnOK, Peers
  <2>3. ~HoldsSlot(c) /\ conn' = [conn EXCEPT ![c] = k] /\ UNCHANGED <<perIP, total>>
    BY Zenon, <1>2, <2>1 DEF Connect, HoldsSlot
  <2> HIDE DEF k
  <2> QED BY Zenon, <2>2, <2>3, Keeps
<1>3. CASE Refuse(c)
  <2> DEFINE k == [NoConn EXCEPT !.pc = "closed", !.peer = conn[c].peer]
  <2>1. k \in Conn /\ ConnOK(k) /\ k.released
    BY Zenon, <1>1, NoConnOK DEF NoConn, Conn, ConnOK
  <2>2. ~HoldsSlot(c) /\ conn' = [conn EXCEPT ![c] = k] /\ UNCHANGED <<perIP, total>>
    BY <1>3 DEF Refuse, ClosedConn, HoldsSlot
  <2> HIDE DEF k
  <2> QED BY Zenon, <2>1, <2>2, Keeps
<1>4. CASE Forget(c)
  <2>1. ~HoldsSlot(c) /\ conn' = [conn EXCEPT ![c] = NoConn] /\ UNCHANGED <<perIP, total>>
    BY <1>4 DEF Forget, HoldsSlot
  <2>2. NoConn.pc = "new"
    BY DEF NoConn
  <2> QED BY Zenon, <2>1, <2>2, NoConnOK, Keeps
<1> QED BY <1>2, <1>3, <1>4

LEMMA HandshakeStep ==
    ASSUME Inv, NEW c \in Conns, Handshake(c) \/ HandshakeTimeout(c) \/ Close(c)
    PROVE  Inv'
<1>1. TypeInv /\ ConnOK(conn[c]) /\ conn[c] \in Conn
  BY DEF Inv, TypeInv
<1>2. CASE Close(c) \/ HandshakeTimeout(c) \/ (Handshake(c) /\ Reject(c))
  BY <1>2, ReleaseStep DEF Close, HandshakeTimeout, Handshake, Reject
<1>3. CASE /\ conn[c].pc = "handshake" /\ UNCHANGED <<perIP, total>>
           /\ conn' = [conn EXCEPT ![c].pc = "open", ![c].opening = "silent",
                 ![c].remote = IF conn[c].opening = "header" THEN conn[c].client ELSE @]
  <2> DEFINE k == [conn[c] EXCEPT !.pc = "open", !.opening = "silent",
                     !.remote = IF conn[c].opening = "header" THEN conn[c].client ELSE @]
  <2>1. k \in Conn /\ k.pc = "open" /\ k.peer = conn[c].peer /\ k.client = conn[c].client
        /\ k.released = conn[c].released
    BY Zenon, <1>1 DEF Conn, Peers, Openings
  <2>2. conn' = [conn EXCEPT ![c] = k]
    BY Zenon, <1>3
  <2> HIDE DEF k
  <2>3. ConnOK(k) /\ ~k.released /\ HoldsSlot(c)
    BY <1>1, <1>3, <2>1 DEF ConnOK, HoldsSlot
  <2> QED BY Zenon, <1>3, <2>1, <2>2, <2>3, Keeps
<1> QED BY <1>2, <1>3 DEF Handshake

LEMMA InvNext == Inv /\ [Next]_vars => Inv'
<1> SUFFICES ASSUME Inv, [Next]_vars PROVE Inv'
  OBVIOUS
<1>1. CASE Next
  BY <1>1, AcceptStep, QuietSteps, HandshakeStep DEF Next
<1>2. CASE UNCHANGED vars
  BY <1>2 DEF vars, Inv, TypeInv, ConnOK, SlotsExact, HoldsSlot
<1> QED BY <1>1, <1>2

LEMMA Invariance == Spec => []Inv
BY Initially, InvNext, PTL DEF Spec

(* The counters of connLimiter equal the connections that hold a slot and stay
   within the limits, over refusals, failed handshakes, repeated closes and
   addresses taken from a header. *)
THEOREM SlotsCorrect == Spec => []SlotsExact
<1>1. Inv => SlotsExact
  BY DEF Inv
<1> QED BY <1>1, Invariance, PTL

(* gateListener refuses a direct client only for its own connections, or for the
   total: what it holds is counted under its address, and nothing else is. *)
THEOREM RefusalCorrect == Spec => RefusedForOwnConnections
<1> DEFINE Own(c) == {d \in Conns : HoldsSlot(d) /\ conn[d].client = conn[c].client}
           Deserved == \A c \in Conns :
              conn[c].pc = "pending" /\ conn'[c].pc = "closed" /\ conn[c].peer = conn[c].client =>
                 \/ MaxTotal > 0 /\ total >= MaxTotal
                 \/ /\ MaxPerIP > 0
                    /\ Cardinality(Own(c)) >= MaxPerIP
<1>1. Inv /\ [Next]_vars => [Deserved]_vars
  <2> SUFFICES ASSUME Inv, Next, NEW c \in Conns, conn[c].pc = "pending",
                      conn'[c].pc = "closed", conn[c].peer = conn[c].client
               PROVE  \/ MaxTotal > 0 /\ total >= MaxTotal
                      \/ MaxPerIP > 0 /\ Cardinality(Own(c)) >= MaxPerIP
    OBVIOUS
  <2> DEFINE a == conn[c].peer
  <2>1. TypeInv /\ a \in Peers /\ a \in Clients
    BY DEF Inv, TypeInv, Conn
  <2>2. OverLimit(a)
    <3>1. PICK d \in Conns : Connect(d) \/ Accept(d) \/ Refuse(d) \/ Handshake(d)
                                 \/ HandshakeTimeout(d) \/ Close(d) \/ Forget(d)
      BY DEF Next
    <3>2. d = c
      BY Zenon, <2>1, <3>1 DEF TypeInv, Connect, Accept, Refuse, Handshake, HandshakeTimeout,
         Close, Forget, Reject, ClosedConn
    <3>3. ~Connect(c) /\ ~Accept(c)
      BY <2>1 DEF TypeInv, Connect, Accept, NoConn, Conn
    <3>4. ~Handshake(c) /\ ~HandshakeTimeout(c) /\ ~Close(c) /\ ~Forget(c)
      BY DEF Handshake, HandshakeTimeout, Close, Forget
    <3> QED BY <3>1, <3>2, <3>3, <3>4 DEF Refuse
  <2>3. HoldingAs(a) \subseteq Own(c)
    BY <2>1, GateAssumption DEF Inv, ConnOK, HoldingAs, HoldsSlot
  <2>4. Own(c) \subseteq Conns
    OBVIOUS
  <2>5. Cardinality(HoldingAs(a)) <= Cardinality(Own(c)) /\ Cardinality(Own(c)) \in Nat
    BY <2>3, <2>4, GateAssumption, FS_Subset, FS_CardinalityType
  <2>6. perIP[a] = Cardinality(HoldingAs(a)) /\ perIP[a] \in Nat
    BY <2>1, Exactly DEF Inv, TypeInv
  <2> QED BY <2>2, <2>5, <2>6, GateAssumption DEF OverLimit
<1>2. [][Deserved]_vars => RefusedForOwnConnections
  BY PTL DEF RefusedForOwnConnections
<1> QED BY <1>1, <1>2, Invariance, PTL DEF Spec

-----------------------------------------------------------------------------
(* Starting and stopping the listeners *)

ServePcs == {"bind", "publish", "cleanup", "failed", "wait", "returned"}
DownPcs == {"idle", "test", "announce", "loop", "done"}

ServeTypeOK ==
    /\ serve \in [pc : ServePcs, at : Listeners]
    /\ bound \in [Listeners -> BOOLEAN]
    /\ socket \in [Listeners -> BOOLEAN]
    /\ down \in [Callers -> [pc : DownPcs, at : Listeners]]
    /\ base \in BOOLEAN /\ ready \in BOOLEAN

(* Serve has published the listeners before the one it is at, and all of them
   once it waits.  A published socket listens until Shutdown has cancelled the
   base context, and so does the one Serve is about to publish, which Shutdown
   does not know of. *)
ServeInv ==
    /\ ServeTypeOK
    /\ \A l \in Listeners : l < serve.at => bound[l]
    /\ serve.pc \in {"wait", "returned"} => \A l \in Listeners : bound[l]
    /\ \A c \in Callers : down[c].pc = "loop" => base
    /\ \A l \in Listeners : bound[l] => socket[l] \/ base
    /\ serve.pc = "publish" => socket[serve.at] \/ base
    /\ ReadyMeansBound

LEMMA ServeInitially == ServeInit => ServeInv
<1> SUFFICES ASSUME ServeInit PROVE ServeInv
  OBVIOUS
<1>1. 1 \in Listeners /\ \A l \in Listeners : ~(l < 1)
  BY ListenersAssumption DEF Listeners
<1>2. ServeTypeOK
  BY Zenon, <1>1 DEF ServeInit, ServeTypeOK, Idle, ServePcs, DownPcs
<1> QED BY <1>1, <1>2 DEF ServeInit, ServeInv, Idle, ReadyMeansBound

(* The steps of Serve itself. *)
LEMMA ServeMoves ==
    ASSUME ServeInv, Bind \/ Publish \/ GiveUp \/ Return
    PROVE  ServeInv'
<1>0. /\ ServeTypeOK /\ serve.pc \in ServePcs /\ serve.at \in Listeners
      /\ \A c \in Callers : down[c] \in [pc : DownPcs, at : Listeners]
  BY DEF ServeInv, ServeTypeOK
<1>1. CASE Bind
  <2>1. serve.pc = "bind" /\ UNCHANGED <<base, ready, bound>>
    BY <1>1 DEF Bind, ServeAt
  <2>2. CASE /\ socket' = [socket EXCEPT ![serve.at] = TRUE]
             /\ serve' = [serve EXCEPT !.pc = "publish"] /\ UNCHANGED down
    <3>1. /\ serve' \in [pc : ServePcs, at : Listeners]
          /\ serve'.pc = "publish" /\ serve'.at = serve.at
      BY <1>0, <2>2 DEF ServeTypeOK, ServePcs
    <3>2. /\ socket' \in [Listeners -> BOOLEAN] /\ socket'[serve.at] = TRUE
          /\ \A l \in Listeners : socket[l] => socket'[l]
      BY <1>0, <2>2 DEF ServeTypeOK
    <3> QED BY <2>1, <2>2, <3>1, <3>2 DEF ServeInv, ServeTypeOK, ReadyMeansBound
  <2>3. CASE /\ serve' = [serve EXCEPT !.pc = "cleanup"]
             /\ down' = [down EXCEPT !["cleanup"].pc = "test"] /\ UNCHANGED socket
    <3>1. /\ serve' \in [pc : ServePcs, at : Listeners]
          /\ serve'.pc = "cleanup" /\ serve'.at = serve.at
      BY <1>0, <2>3 DEF ServeTypeOK, ServePcs
    <3>2. /\ down' \in [Callers -> [pc : DownPcs, at : Listeners]]
          /\ \A c \in Callers : down'[c].pc = "loop" => down[c].pc = "loop"
      BY <1>0, <2>3 DEF ServeTypeOK, DownPcs, Callers
    <3> QED BY <2>1, <2>3, <3>1, <3>2 DEF ServeInv, ServeTypeOK, ReadyMeansBound
  <2> QED BY <1>1, <2>2, <2>3 DEF Bind
<1>2. CASE Publish
  <2>1. /\ serve.pc = "publish" /\ UNCHANGED <<base, socket, down>>
        /\ bound' = [bound EXCEPT ![serve.at] = TRUE]
    BY <1>2 DEF Publish, ServeAt
  <2>2. /\ bound' \in [Listeners -> BOOLEAN] /\ bound'[serve.at] = TRUE
        /\ \A l \in Listeners : l # serve.at => bound'[l] = bound[l]
        /\ \A l \in Listeners : bound[l] => bound'[l]
    BY <1>0, <2>1 DEF ServeTypeOK
  <2>3. \A l \in Listeners : bound'[l] => socket[l] \/ base
    BY <2>1, <2>2 DEF ServeInv
  <2>4. CASE serve.at < N
    <3>1. serve' = [pc |-> "bind", at |-> serve.at + 1] /\ UNCHANGED ready
      BY <1>2, <2>4 DEF Publish
    <3>2. /\ serve'.pc = "bind" /\ serve'.at = serve.at + 1
          /\ serve' \in [pc : ServePcs, at : Listeners]
      BY <1>0, <2>4, <3>1, ListenersAssumption DEF Listeners, ServePcs
    <3>3. \A l \in Listeners : l < serve.at + 1 => bound'[l]
      <4>1. \A l \in Listeners : l < serve.at + 1 => l < serve.at \/ l = serve.at
        BY <1>0, ListenersAssumption DEF Listeners
      <4> QED BY <2>2, <4>1 DEF ServeInv
    <3> QED BY <1>0, <2>1, <2>2, <2>3, <3>1, <3>2, <3>3 DEF ServeInv, ServeTypeOK, ReadyMeansBound
  <2>5. CASE ~(serve.at < N)
    <3>1. serve' = [serve EXCEPT !.pc = "wait"] /\ ready' = TRUE
      BY <1>2, <2>5 DEF Publish
    <3>2. /\ serve'.pc = "wait" /\ serve'.at = serve.at
          /\ serve' \in [pc : ServePcs, at : Listeners]
      BY <1>0, <3>1 DEF ServeTypeOK, ServePcs
    <3>3. \A l \in Listeners : bound'[l]
      <4>1. \A l \in Listeners : l < serve.at \/ l = serve.at
        BY <1>0, <2>5, ListenersAssumption DEF Listeners
      <4> QED BY <2>2, <4>1 DEF ServeInv
    <3> QED BY <1>0, <2>1, <2>2, <2>3, <3>1, <3>2, <3>3 DEF ServeInv, ServeTypeOK, ReadyMeansBound
  <2> QED BY <2>4, <2>5
<1>3. CASE GiveUp \/ Return
  <2>1. \/ serve.pc = "cleanup" /\ serve' = [serve EXCEPT !.pc = "failed"] /\ ready' = TRUE
        \/ serve.pc = "wait" /\ serve' = [serve EXCEPT !.pc = "returned"] /\ ready' = ready
    BY <1>3 DEF GiveUp, Return, ServeAt
  <2>2. UNCHANGED <<base, bound, socket, down>>
    BY <1>3 DEF GiveUp, Return
  <2>3. /\ serve' \in [pc : ServePcs, at : Listeners] /\ serve'.at = serve.at
        /\ serve'.pc = (IF serve.pc = "wait" THEN "returned" ELSE "failed")
    BY <1>0, <2>1 DEF ServeTypeOK, ServePcs
  <2> QED BY Zenon, <1>0, <2>1, <2>2, <2>3 DEF ServeInv, ServeTypeOK, ReadyMeansBound
<1> QED BY <1>1, <1>2, <1>3

(* The steps of Shutdown, and of the goroutines around Serve. *)
LEMMA ShutdownMoves ==
    ASSUME ServeInv, NEW c \in Callers, CallShutdown(c) \/ Stopping(c)
    PROVE  ServeInv'
<1>0. /\ ServeTypeOK /\ down[c].at \in Listeners /\ down[c].pc \in DownPcs
      /\ \A b \in Callers : down[b] \in [pc : DownPcs, at : Listeners]
  BY DEF ServeInv, ServeTypeOK
<1>1. CASE CallShutdown(c) \/ TestFlag(c)
  <2>1. UNCHANGED <<base, ready, serve, bound, socket>>
    BY <1>1 DEF CallShutdown, TestFlag
  <2>2. PICK pc \in DownPcs \ {"loop"} : down' = [down EXCEPT ![c].pc = pc]
    BY <1>1 DEF CallShutdown, TestFlag, DownPcs
  <2>3. /\ down' \in [Callers -> [pc : DownPcs, at : Listeners]]
        /\ \A b \in Callers : down'[b].pc = "loop" => down[b].pc = "loop"
    BY <1>0, <2>2 DEF ServeTypeOK
  <2> QED BY <2>1, <2>3 DEF ServeInv, ServeTypeOK, ReadyMeansBound
<1>2. CASE Announce(c)
  <2>1. /\ base' = TRUE /\ ready' = TRUE /\ UNCHANGED <<serve, bound, socket>>
        /\ down' = [down EXCEPT ![c].pc = "loop"]
    BY <1>2 DEF Announce
  <2>2. down' \in [Callers -> [pc : DownPcs, at : Listeners]]
    BY <1>0, <2>1 DEF ServeTypeOK, DownPcs
  <2> QED BY <2>1, <2>2 DEF ServeInv, ServeTypeOK, ReadyMeansBound
<1>3. CASE StopListener(c)
  <2> DEFINE l == down[c].at
             next == IF l = N THEN [pc |-> "done", at |-> l] ELSE [pc |-> "loop", at |-> l + 1]
  <2>1. base = TRUE /\ UNCHANGED <<base, ready, serve, bound>>
    BY <1>3 DEF StopListener, ServeInv, ServeTypeOK
  <2>2. down' = [down EXCEPT ![c] = next]
    BY <1>3 DEF StopListener
  <2>3. next \in [pc : DownPcs, at : Listeners]
    BY <1>0, ListenersAssumption DEF DownPcs, Listeners
  <2>4. down' \in [Callers -> [pc : DownPcs, at : Listeners]]
    BY Zenon, <1>0, <2>2, <2>3 DEF ServeTypeOK
  <2>5. socket' \in [Listeners -> BOOLEAN]
    BY Zenon, <1>0, <1>3 DEF StopListener, ServeTypeOK
  <2> HIDE DEF next
  <2> QED BY Zenon, <2>1, <2>4, <2>5 DEF ServeInv, ServeTypeOK, ReadyMeansBound
<1> QED BY <1>1, <1>2, <1>3 DEF Stopping

LEMMA ServeKept ==
    ASSUME ServeInv,
           \/ Signal \/ \E p \in Parts : PartEnds(p)
           \/ \E l \in Listeners : Runner(l) \/ RunnerEnds(l) \/ AcceptFails(l)
           \/ UNCHANGED serveVars
    PROVE  ServeInv'
<1>1. UNCHANGED <<base, ready, serve, bound, socket, down>>
  BY Zenon DEF Signal, PartEnds, Runner, RunnerEnds, AcceptFails, serveVars
<1> QED BY Zenon, <1>1 DEF ServeInv, ServeTypeOK, ReadyMeansBound

LEMMA ServeInvNext == ServeInv /\ [FrontNext]_frontVars => ServeInv'
<1> SUFFICES ASSUME ServeInv, [FrontNext]_frontVars PROVE ServeInv'
  OBVIOUS
<1>1. CASE ServeNext
  BY Zenon, <1>1, ServeMoves, ShutdownMoves, ServeKept DEF ServeNext, Serving
<1>2. CASE UNCHANGED serveVars
  BY Zenon, <1>2, ServeKept
<1> QED BY Zenon, <1>1, <1>2 DEF FrontNext, Certificate, frontVars

(* Whoever waited on Ready finds every listener published and listening, for
   any number of listeners and any interleaving of Serve with three callers of
   Shutdown, until Serve has failed or a shutdown has begun. *)
THEOREM ReadyMeansBoundAlways == FrontSpec => []ReadyMeansBound
<1>1. FrontInit => ServeInv
  BY ServeInitially DEF FrontInit
<1>2. ServeInv => ReadyMeansBound
  BY DEF ServeInv
<1> QED BY <1>1, <1>2, ServeInvNext, PTL DEF FrontSpec

-----------------------------------------------------------------------------
(* The certificate *)

CertTypeOK ==
    /\ disk \in [cert : Nat, key : Nat, there : BOOLEAN]
    /\ reloader \in [cert : Nat, modTime : Nat, fresh : BOOLEAN]
    /\ loading \in [pc : {"idle", "load"}, stat : Nat \cup {-1}]

(* The time the reloader remembers is never that of a later file than the one
   it loaded: Stat comes before LoadX509KeyPair. *)
CertInv ==
    /\ CertTypeOK
    /\ reloader.modTime <= reloader.cert
    /\ reloader.cert <= disk.cert
    /\ loading.stat <= disk.cert

(* When load finds the modification time unchanged and keeps the certificate
   it has, that is the certificate in the file. *)
UnchangedMeansCurrent ==
    disk.there /\ disk.cert = reloader.modTime => reloader.cert = disk.cert

LEMMA CertInitially == CertInit => CertInv
BY DEF CertInit, CertInv, CertTypeOK, NotLoading

LEMMA RenewalStep == CertInv /\ Renewal => CertInv'
<1> SUFFICES ASSUME CertInv, Renewal PROVE CertInv'
  OBVIOUS
<1>1. /\ disk \in [cert : Nat, key : Nat, there : BOOLEAN]
      /\ disk.cert \in Nat /\ disk.key \in Nat
      /\ reloader.cert \in Nat /\ loading.stat \in Int
  BY DEF CertInv, CertTypeOK
<1>2. UNCHANGED <<reloader, loading>>
  BY DEF Renewal, RemoveCert, WriteCert, WriteKey
<1>3. disk' \in [cert : Nat, key : Nat, there : BOOLEAN] /\ disk.cert <= disk'.cert
  <2>1. CASE RemoveCert
    <3>1. disk' \in [cert : Nat, key : Nat, there : BOOLEAN] /\ disk'.cert = disk.cert
      BY Zenon, <1>1, <2>1 DEF RemoveCert
    <3> QED BY <1>1, <3>1
  <2>2. CASE WriteCert
    <3>1. PICK n \in Nat : n = disk.cert + 1
      BY <1>1
    <3>2. disk' = [disk EXCEPT !.there = TRUE, !.cert = n]
      BY <2>2, <3>1 DEF WriteCert
    <3>3. disk' \in [cert : Nat, key : Nat, there : BOOLEAN] /\ disk'.cert = n
      BY Zenon, <1>1, <3>2
    <3> QED BY <1>1, <3>1, <3>3
  <2>3. CASE WriteKey
    <3>1. PICK n \in Nat : n = disk.key + 1
      BY <1>1
    <3>2. disk' = [disk EXCEPT !.key = n]
      BY <2>3, <3>1 DEF WriteKey
    <3>3. disk' \in [cert : Nat, key : Nat, there : BOOLEAN] /\ disk'.cert = disk.cert
      BY Zenon, <1>1, <3>2
    <3> QED BY <1>1, <3>3
  <2> QED BY <2>1, <2>2, <2>3 DEF Renewal
<1> QED BY <1>1, <1>2, <1>3 DEF CertInv, CertTypeOK

LEMMA ReloadStep == CertInv /\ (Elapse \/ GetCertificate) => CertInv'
<1> SUFFICES ASSUME CertInv, Elapse \/ GetCertificate PROVE CertInv'
  OBVIOUS
<1>1. /\ reloader \in [cert : Nat, modTime : Nat, fresh : BOOLEAN]
      /\ reloader.cert \in Nat /\ reloader.modTime \in Nat /\ disk.cert \in Nat
      /\ loading.stat \in Nat \cup {-1}
  BY DEF CertInv, CertTypeOK
<1>2. UNCHANGED disk
  BY DEF Elapse, GetCertificate, Stat, Load
<1>3. /\ loading' \in [pc : {"idle", "load"}, stat : Nat \cup {-1}]
      /\ loading'.stat <= disk.cert
  BY <1>1 DEF CertInv, CertTypeOK, Elapse, GetCertificate, Stat, Load, NotLoading
<1>4. CASE Elapse \/ Stat
  <2>1. /\ reloader' \in [cert : Nat, modTime : Nat, fresh : BOOLEAN]
        /\ reloader'.cert = reloader.cert /\ reloader'.modTime = reloader.modTime
    BY Zenon, <1>1, <1>4 DEF Elapse, Stat
  <2> QED BY <1>1, <1>2, <1>3, <2>1 DEF CertInv, CertTypeOK
<1>5. CASE Load
  <2>1. CASE disk.there /\ disk.cert = disk.key
    <3>1. /\ reloader' \in [cert : Nat, modTime : Nat, fresh : BOOLEAN]
          /\ reloader'.cert = disk.cert
          /\ reloader'.modTime = (IF loading.stat >= 0 THEN loading.stat ELSE reloader.modTime)
      BY <1>1, <1>5, <2>1 DEF Load
    <3> QED BY <1>1, <1>2, <1>3, <3>1 DEF CertInv, CertTypeOK
  <2>2. CASE ~(disk.there /\ disk.cert = disk.key)
    <3>1. /\ reloader' \in [cert : Nat, modTime : Nat, fresh : BOOLEAN]
          /\ reloader'.cert = reloader.cert /\ reloader'.modTime = reloader.modTime
      BY Zenon, <1>1, <1>5, <2>2 DEF Load
    <3> QED BY <1>1, <1>2, <1>3, <3>1 DEF CertInv, CertTypeOK
  <2> QED BY <2>1, <2>2
<1> QED BY <1>4, <1>5 DEF GetCertificate

LEMMA CertInvNext == CertInv /\ [FrontNext]_frontVars => CertInv'
<1> SUFFICES ASSUME CertInv, [FrontNext]_frontVars PROVE CertInv'
  OBVIOUS
<1>1. CASE UNCHANGED certVars
  BY Zenon, <1>1 DEF certVars, CertInv, CertTypeOK
<1> QED BY Zenon, <1>1, RenewalStep, ReloadStep DEF FrontNext, Certificate, frontVars

(* However often the two files are replaced, and wherever a load is when they
   are: a handshake for which load skips the files, because the modification
   time is the one it remembers, presents the certificate in the file. *)
THEOREM UnchangedMeansCurrentAlways == FrontSpec => []UnchangedMeansCurrent
<1>1. FrontInit => CertInv
  BY CertInitially DEF FrontInit
<1>2. CertInv => UnchangedMeansCurrent
  BY DEF CertInv, CertTypeOK, UnchangedMeansCurrent
<1> QED BY <1>1, <1>2, CertInvNext, PTL DEF FrontSpec
=============================================================================
