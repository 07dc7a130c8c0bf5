SPECIFICATION Spec
CONSTANTS
    jo = jo  jo_0 = jo_0  Jo_0 = Jo_0  jox0 = jox0
    c1 = c1  c2 = c2  r1 = r1  r2 = r2
    Name <- MCName
    Lower <- MCLower
    Like <- MCLike
    Title <- MCTitle
    InviteCode <- MCInviteCode
    RegistrationType = "invite"
    Request <- MCRequest
    MaxUsers = 2
    Slot <- MCSlot
    None = None
SYMMETRY MCSymmetry
INVARIANTS OneAccountPerName InvitesSpentOnce
