SPECIFICATION Spec
CONSTANTS
    alice = alice  bob = bob  carol = carol
    Profile <- MCProfile
    Local <- MCLocal
    None = None
    MaxRows = 3
    MaxTags = 1
SYMMETRY Users
INVARIANTS ListsAgreeWithStatus ThreadComplete EmbeddedLoaded DeliveryAgrees
PROPERTIES RepliesDoNotWiden
