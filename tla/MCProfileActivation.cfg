CONSTANTS
    a1 = a1
    a2 = a2
    b1 = b1
    c1 = c1
    ga = ga
    gb = gb
    gc = gc
    s1 = s1
    s2 = s2
    s3 = s3
    None = None
    Releases = {a1, a2, b1, c1}
    Gens = {ga, gb, gc}
    GenOf <- Builds
    Slots = {s1, s2, s3}
    MaxKills = 2
    MaxFaults = 2
SPECIFICATION FairSpec
INVARIANTS
    TypeOK
    
    HostRunsTheTemplate

    
