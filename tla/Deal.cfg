CONSTANTS
    Providers <- MCProviders
    Classes <- MCClasses
    Intents <- MCIntents
    Ballots <- MCBallots
    Rankers = 2
    Percents = {0, 5, 100}
    Scale = 10
    Averages = {0, 150, 270, 600}
    Tolerances = {0, 10}
SPECIFICATION DealSpec
INVARIANTS
    Chosen
    
CHECK_DEADLOCK FALSE
