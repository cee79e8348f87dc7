SPECIFICATION Spec
CONSTANTS Nil = Nil  Void = Void
CHECK_DEADLOCK FALSE
INVARIANTS WorkAndFeedback IdsGrow PointsPreserved ContextOwned EstimatesExact
PROPERTIES SizesRespected AnswersInStep
