SPECIFICATION Spec
CONSTANTS
  MaxRuns = 2
  MaxCrashes = 1
  MaxChanges = 1
  MaxDiagnoses = 1
  MaxFailures = 1
  MaxSends = 1
INVARIANTS ShownIsThisRun IdentityIsDurable RegistrationIsAdmitted
PROPERTY RegistersEventually
