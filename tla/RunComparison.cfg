\* Three runs, their summaries and the comparisons a user may ask for.
SPECIFICATION ComparisonSpec
CONSTANTS
    r1 = r1
    r2 = r2
    r3 = r3
    accuracy = accuracy
    recall = recall
    Absent = Absent
    Runs <- MCRuns
    Slots <- MCSlots
    CaseMetrics <- MCCaseMetrics
    MetricIds <- MCMetricIds
    Profiles <- MCProfiles
    Specs <- MCSpecs
    MaxStopped = 1
INVARIANTS
    
    WinnerIsTreatment
CHECK_DEADLOCK FALSE
