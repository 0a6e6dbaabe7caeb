\* Two workers, a text job and a template job, two attempts each.  No symmetry: temporal
\* properties are checked.
CONSTANTS
  j1 = j1
  j2 = j2
  w1 = w1
  w2 = w2
  NoJob = NoJob
  NoWorker = NoWorker
  Jobs <- MCJobs
  TemplateJobs <- MCTemplateJobs
  Workers <- MCWorkers
  MaxAttempts = 2
SPECIFICATION FairSpec
INVARIANTS TypeOK ExclusiveDelivery RetryBudget SentIsTrue
PROPERTIES ImplementsQueue EventuallySettled
