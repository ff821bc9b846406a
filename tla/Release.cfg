\* A frozen run, a retrieval arm that must be named and a mock run; two builds after a
\* killed or failed one, and two changes of the world at any moment.
SPECIFICATION Spec
CONSTANTS
  Runs = {"frozen", "arm", "mock"}
  Real = {"frozen", "arm"}
  Smoke = {"arm"}
  Frozen = {"frozen", "mock"}
  Nameable = {"arm", "mock"}
  Conforming = {"frozen", "arm"}
  Needs <- MCNeeds
  MaxEvaluator = 2
  MaxEvents = 4
  Absent = Absent
  Torn = Torn
  NoDigest = NoDigest
  NoRemote = NoRemote
INVARIANTS VerifiedBundleIsOneBuild TaggedReleaseIsSound GatesCanGoGreen
CHECK_DEADLOCK FALSE
