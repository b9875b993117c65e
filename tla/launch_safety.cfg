SPECIFICATION FairSpec
CONSTANTS
    Pipelines <- PipelinesMC
CHECK_DEADLOCK FALSE
INVARIANTS Undone GameGuarded StepsInOrder
PROPERTIES AbortStopsLaunch AbortEnds
