CONSTANTS
  MaxForms = 2
  MaxWasted = 1
  Asked = {"HADCD_API", "ENROLLMENT_TOKENS", "HA_TOKEN", "HA_ENTITY_ID"}
SPECIFICATION FairSetupSpec
CHECK_DEADLOCK FALSE
INVARIANTS SkipMeansOnline EnrolledOnce
PROPERTY ConfiguredComesUp
