CONSTANTS
    Captures = {"drive", "noise", "packed"}
    Shape <- ThreeCaptures
    Outputs = {"corpus.dlf", "scratch.dlf"}
    Archived = {"corpus.dlf"}
    SomeJobs <- FewJobs
    RefusePercent = 50
    MaxRuns = 2
SPECIFICATION FilesSpec
INVARIANTS ExitsLeaveWhatTheySay F3LossIsTold PcapsMatchRecords
