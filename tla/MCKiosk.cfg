SPECIFICATION FairSpec
CONSTANTS
    MaxVisits = 2
    MaxMenus = 2
    MaxItems = 1
    MaxAttempts = 2
    MaxLookups = 1
    MaxAnswers = 1
INVARIANT TypeOK
 
 
PROPERTY ChargedIsShown
CHECK_DEADLOCK FALSE
