SPECIFICATION FairSpec
CONSTANTS
    Nobody = Nobody
    Api = {api1, api2}
    Inbox = {in1, in2}
INVARIANTS TypeOK CounterExact AcceptedHasRelationship RequestToUndo
PROPERTIES Answered
