\* A submission and two reviews of it while Redis comes and goes, or goes and
\* does not come back; it stops, without Redis, when all have been answered.
CONSTANTS
  Submissions = {s1}
  Reviews = {v1, v2}
  Stores = {"postgres", "memory"}
  MaxAdds = 2
  None = None
SPECIFICATION FairSpec
PROPERTIES
  EveryJobEnds
  OnlyJobsWait
  ReviewTakesEffect
CHECK_DEADLOCK FALSE
