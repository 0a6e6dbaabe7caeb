\* One job of two attempts, so two messages at the provider, each with two receipts that are
\* processed by two handlers.  "deleted" is a status the code does not know.
CONSTANTS
  j1 = j1
  w1 = w1
  w2 = w2
  h1 = h1
  h2 = h2
  NoJob = NoJob
  NoWorker = NoWorker
  Jobs <- MCJobs
  TemplateJobs <- MCTemplateJobs
  Workers <- MCWorkers
  MaxAttempts = 2
  Handlers <- MCHandlers
  Reports <- MCReports
SPECIFICATION DeliverySpec
INVARIANTS DeliveryTypeOK StatusAttested LogIsTrue
PROPERTIES MarkNeverRegresses
CHECK_DEADLOCK FALSE
SYMMETRY MCSymmetry
