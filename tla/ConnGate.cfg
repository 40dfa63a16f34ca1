\* PROXY protocol on: headers from the balancer and from direct clients.
CONSTANTS
    Conns = {c1, c2, c3}
    Loops = {l1, l2}
    Clients = {a, b}
    Balancer = lb
    Vias = {"direct", "balanced"}
    Trusted = {lb}
    ProxyEnabled = TRUE
    MaxPerIP = 1
    MaxTotal = 2
SPECIFICATION FairSpec
INVARIANTS SlotsExact
PROPERTIES RefusedForOwnConnections LoopGoesOn
