CONSTANTS
    Content <- MCContent
    NoProject = "nothing"
    Waivers <- MCWaivers
    Label = {"from", "to"}
    HubSampleSize = 1
    MaxEdits = 1
SPECIFICATION Spec
INVARIANTS RowsWhole ReportExact DiffsLossless SchemaExact
