SPECIFICATION CopiesFairSpec
CONSTANTS
    settings = settings  inbox = inbox  executor = executor
    Editor <- MCEditor
    Importer <- MCImporter
    Executor = executor
    Image = {picture}
    Alias = {other}
    None = None
    MaxEdits = 2
INVARIANT CopyCurrent
PROPERTY CopyConverges
