\* One process at a time, as the README of the repository asks for.
SPECIFICATION Spec
CONSTANTS
    Procs = {c1}
    d1 = d1
    d2 = d2
    d3 = d3
    Delegations = {d1, d2, d3}
    Paths <- ChainPaths
    WriteSet <- Chain
    Verified = {d1}
    NoOne = NoOne
    MaxClaims = 2
    MaxDeaths = 0
INVARIANT IntentsClaimable

