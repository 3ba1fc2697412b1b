SPECIFICATION Spec
CONSTANTS
    web = web
    plain = plain
    listed = listed
    loose = loose
    unnamed = unnamed
    Policies = {web, plain, listed, loose, unnamed}
    ManifestOf <- MCManifestOf
    Broken = Broken
    NoName = "(none)"
    Invocations <- MCInvocations
CHECK_DEADLOCK FALSE
INVARIANTS
    TypeOK
    PlainFilesAsYAML
    AcceptedButForLabels
    EnvAndServerHeeded
    RunsWhereAsked
    DryRunHeeded
