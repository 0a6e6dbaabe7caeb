\* The same with receipts of a message that is delivered and read.
CONSTANTS
  j1 = j1
  w1 = w1
  w2 = w2
  h1 = h1
  h2 = h2
  NoJob = NoJob
  NoWorker = NoWorker
  Jobs <- MCJobs
  TemplateJobs <- MCTemplateJobs
  Workers <- MCWorkers
  MaxAttempts = 2
  Handlers <- MCHandlers
  Reports <- MCSuccesses
SPECIFICATION DeliverySpec
PROPERTIES StatusMonotonic
CHECK_DEADLOCK FALSE
