SPECIFICATION Spec
CONSTANTS
    f = f  alice = alice  e1 = e1  e2 = e2
    p1 = p1  p2 = p2  a1 = a1  a2 = a2  r1 = r1  r2 = r2
    File <- MCFile
    Profile <- MCProfile
    RemoteEmoji <- MCRemote
    LocalEmoji <- MCLocal
    Post <- MCPost
    Attachment <- MCAttachment
    Request <- MCRequest
    None = None
SYMMETRY MCSymmetry
INVARIANTS FilesKept NothingLeaks
