SPECIFICATION FairSpec
CONSTANTS
    Half = 4
    Wishes = {0, 2, 5}
    MaxWishes = 2
    MaxEdits = 3
    MaxFaults = 1
INVARIANTS
    TypeOK
    AdmittedAutoscalersPoll
PROPERTIES
    ScalesWhatItAskedAbout
    WebhookIsPolled
    ScalingSettles
CHECK_DEADLOCK FALSE
