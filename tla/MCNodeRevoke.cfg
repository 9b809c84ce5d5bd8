\* A node that asks for another capability and is revoked meanwhile.
SPECIFICATION NodesSpec
CONSTANTS
    i1 = i1  shell = shell  screen = screen
    Identities = {i1}
    Daemons = {d1}
    Sessions = {c1, c2}
    Powers = {shell, screen}
    Offers = {{shell}, {shell, screen}}
    Pairings = {p1, p2}
    Invocations = {}
    Unset = Unset
    IdentityOf <- Mine
    MaxNodeTrouble = 1
PROPERTY RevokedForGood
CHECK_DEADLOCK FALSE
