CONSTANTS
    tcp = tcp
    loop2 = loop2
    dns = dns
    NMon = 2
    NParse = 2
    Conns <- MCConns
    Local <- MCLocal
    Port <- MCPort
    Classified = {tcp, dns}
    Wire <- MCWire
    MaxPackets = 3
SPECIFICATION Spec
CHECK_DEADLOCK FALSE
INVARIANTS TypeOK OrderWithinThread ClosedForGood NothingLost JoinedNeverTouches
