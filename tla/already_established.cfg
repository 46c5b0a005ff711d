CONSTANTS
    p = p q = q Self = Self None = None
    pAddr = pAddr qAddr = qAddr p1 = p1
    h1 = h1 h2 = h2
    Nodes = {p, q, Self}
    Declared <- MCDeclared
    Local <- MCLocal
    Owner <- MCOwner
    Listening = {pAddr, qAddr}
    Sources = {p1}
    Forgers = {q} Misbehaving = {p}
    IsForgerNode = FALSE
    MaxIncoming = 1 MaxOutgoing = 1 MaxForger = 1
    Handlers = {h1, h2}
    MaxMail = 1
SPECIFICATION Spec
INVARIANT UndialableIsConnected
