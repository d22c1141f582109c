\* The worker takes the job of a task nobody has approved.
CONSTANTS
  Submissions = {s1}
  Reviews = {v1}
  Stores = {"postgres"}
  MaxAdds = 1
  None = None
SPECIFICATION Spec
INVARIANTS
  GateHoldsJobs
CHECK_DEADLOCK FALSE
