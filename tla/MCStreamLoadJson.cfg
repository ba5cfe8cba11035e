SPECIFICATION Spec
CONSTANTS
    Requests = {r1}
    Labels = {l1}
    NoLabel = NoLabel
    GatewayReplies <- JsonGateway
    Secure = {r1}
    PlainTargets = {"http"}
INVARIANTS
    KnownFailureNeverCommits
