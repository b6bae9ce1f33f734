SPECIFICATION Spec
CONSTANTS
    Addresses = {a1, a2, a3}
    Networks <- MCNetworks
    Junk = Junk
    None = None
    NilIP = NilIP
    MaxListed = 2
    MaxSent = 2
    MaxHops = 2
SYMMETRY Symmetry
INVARIANTS
    TrustAsListed
    LastUntrusted
