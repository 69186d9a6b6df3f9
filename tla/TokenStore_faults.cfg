\* Every way a read or a write can go wrong, one encryption key.
SPECIFICATION StoreSpec
CONSTANTS
  Emails = {alice, bob}
  Keys = {k1}
  DiskFaults = {"unreadable", "unwritable", "torn", "killed", "volume"}
  NoAccount = NoAccount
  NoToken = NoToken
  Absent = Absent
  Corrupt = Corrupt
  MaxGrants = 2
INVARIANTS
  SavedIsRecoverable
PROPERTY RestartKeepsAccounts
