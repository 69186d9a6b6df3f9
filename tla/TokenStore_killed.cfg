\* A kept volume, no failing write: only the process may die, also mid-write.
SPECIFICATION StoreSpec
CONSTANTS
  Emails = {alice, bob}
  Keys = {k1}
  DiskFaults = {"killed"}
  NoAccount = NoAccount
  NoToken = NoToken
  Absent = Absent
  Corrupt = Corrupt
  MaxGrants = 2
PROPERTY AccountsSurviveReplacement
