CONSTANTS
    HostArg = HostArg
    NonceB64 = NonceB64
    KeyB64 = KeyB64
    BadB64 = BadB64
    Garbage = Garbage
    FixedNonce = FixedNonce
    RandNonce = RandNonce
    OtherNonce = OtherNonce
    RootKey = RootKey
    DeleKey = DeleKey
    AttKey = AttKey
    Argvs <- MCArgvs
    MaxTime = 2
    Skew = 0
    OffsetLimit = 2
    Attacker = TRUE
SPECIFICATION FairSpec
INVARIANTS TypeOK AcceptedIsAuthentic FreshEstimateWithinRoundTrip
PROPERTIES ImplementsSession Terminates
