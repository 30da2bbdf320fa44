\* Two fetches; two hosts allowed of three; names resolve to any of an allowed
\* address, one refused by net.IP's predicates and one by the list only.
CONSTANTS
    Fetches = {f1, f2}
    Hosts = {h1, h2, h3}
    Schemes = {"https", "other"}
    Addrs = {"public", "loopback", "cgnat"}
    Allowed = {h1, h2}
    MaxRequests = 2
    MaxDials = 2
    None = None
SPECIFICATION Spec
INVARIANTS TypeOK OnlySafeConnections OwnConnection
PROPERTY ImplementsSafeFetch
