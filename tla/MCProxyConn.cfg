SPECIFICATION ProxySpec
CONSTANTS
    Conn = {k1, k2}
    Ip = {c1}
    Host = {h1, h2}
    NoName = NoName
SYMMETRY Symmetry
INVARIANTS ProxyTypeOK SocketsPaired RefusedWhileBlocked
