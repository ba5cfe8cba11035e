SPECIFICATION Spec
CONSTANTS
    Requests = {r1}
    Labels = {l1}
    NoLabel = NoLabel
    GatewayReplies <- PlainGateway
    Secure = {}
    PlainTargets = {"http", "https"}
INVARIANTS
    KnownFailureNeverCommits
