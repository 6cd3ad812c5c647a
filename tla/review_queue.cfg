SPECIFICATION Spec
CONSTANTS
    t1 = t1
    t2 = t2
    a1 = a1
    a2 = a2
    NoArm = NoArm
    Nothing = Nothing
    Tasks <- TwoTasks
    Arms <- TwoArms
INVARIANTS TypeOK OneReviewPerArm OpenGateHoldsNothing
PROPERTIES LeasesExclude HeedsWhatItRead DueIsReviewed
