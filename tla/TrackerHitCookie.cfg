SPECIFICATION Spec
CONSTANTS
    r1 = r1
    r2 = r2
    c1 = c1
    c2 = c2
    u1 = u1
    ua = ua
    ip1 = ip1
    ip2 = ip2
    Requests = {r1, r2}
    Clients = {c1, c2}
    Browsers = {c1}
    Users = {u1}
    Agents = {ua}
    Addresses = {ip1, ip2}
    Agent <- MCAgent
    Address <- MCAddress
    NoUser = NoUser
    NoId = NoId
    MaxRestarts = 0
INVARIANT CookieIsBrowserId
CHECK_DEADLOCK FALSE
