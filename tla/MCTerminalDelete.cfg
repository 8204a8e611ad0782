SPECIFICATION ClientSpec
CONSTANTS
    Nobody = Nobody
    Runs <- MCRuns
    Revisions <- MCRevisions
    PageSize = 2
    RenameTime = 6
    MaxPublishes = 3
    MaxKeys = 1
PROPERTIES
    ConfirmedIsDeleted
