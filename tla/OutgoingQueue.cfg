SPECIFICATION FairSpec
CONSTANTS
    note = note  farewell = farewell
    u1 = u1  u2 = u2  r1 = r1  r2 = r2
    JobId = {1, 2, 3, 4}
    Activity <- MCActivity
    Farewell <- MCFarewell
    Sender <- MCSender
    Recipients <- MCRecipients
    RetriesMax = 2
    MaxAborts = 1
INVARIANTS TypeOK NoRecipientForgotten NoNeedlessRedelivery UnreachableEarned
PROPERTIES QueueDrains
