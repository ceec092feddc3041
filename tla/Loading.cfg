SPECIFICATION Spec
CONSTANTS
    Roles = {"server", "client"}
    MaxEdits = 2
INVARIANTS
    AcceptsTheDocumented
    KnownIsConfigured
    EveryGroupIsFound
    WholeOrGone
