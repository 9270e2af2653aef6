SPECIFICATION Spec
CONSTANTS
    p1 = p1
    p2 = p2
    c1 = c1
    c2 = c2
    key = key
    src = src
    other = other
    tmp = tmp
    None = None
    Client = {p1, p2}
    Port = {1, 2}
    GatewayPort = 1
    Change = {c1}
    ChangeOf <- MCChangeOf
    KeyOf <- MCKeyOf
    ModesOf <- MCModesOf
    Path = {src, other, tmp}
    Allowed = {src}
    Ephemeral = {tmp}
    Ignored = {}
    Required = {src}
    Absent = {src}
    MaxWrites <- MCMaxWrites
    MaxEdits = 1
INVARIANTS
    EndpointExclusive
    AcceptedSound
    ImplementedOnce
    Quiet
CHECK_DEADLOCK FALSE
