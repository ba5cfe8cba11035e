SPECIFICATION FairSpec
CONSTANTS
    Requests = {r1, r2}
    Labels = {l1, l2, l3}
    NoLabel = NoLabel
    GatewayReplies <- PlainGateway
    Secure = {r2}
    PlainTargets = {"http"}
INVARIANTS
    TypeOK
    KnownFailureNeverCommits
    AcknowledgedIsCommitted
    AtMostOnce
PROPERTIES
    AmbiguousOnlyAfterBody
    KeepsPromise
    EveryLoadConcludes
