SPECIFICATION FairSpec
CONSTANTS
  Workers = {w1}
PROPERTIES PromiseFulfilled HealthyReachDb PipelineSettles
