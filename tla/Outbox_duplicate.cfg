\* A message accepted by the provider is sent again.
CONSTANTS
  j1 = j1
  j2 = j2
  w1 = w1
  w2 = w2
  NoJob = NoJob
  NoWorker = NoWorker
  Jobs <- MCJobs
  TemplateJobs <- MCTemplateJobs
  Workers <- MCWorkers
  MaxAttempts = 2

SPECIFICATION Spec
INVARIANT NoDuplicateSend
