SPECIFICATION Spec
CONSTANTS
    alice = alice  bob = bob  carol = carol
    Profile <- MCProfile
    Local <- MCLocal
    PostId <- MCPostId
    None = None
    MaxReactions = 2
INVARIANTS TypeOK PostCountersExact
PROPERTIES FoundAreExtraneous
