SPECIFICATION MigrationSpec
CONSTANTS
    alice = alice  bob = bob  carol = carol
    Local <- MCLocal
    Profile <- MCProfile
    SameDid <- MCSameDid
    KnownAs <- MCKnownAs
SYMMETRY UserSymmetry
INVARIANTS MigrationTypeOK CountersExact RemoteFollowHasRequest RequestAgrees
