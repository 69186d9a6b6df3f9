\* Two consents for two mailboxes, two callbacks and two calls at once, under a
\* key that may change at a restart, on a disk that writes what it is told to
\* unless the process is killed meanwhile, and that a new container may not have.
\* The model stops when the nonces and the clock run out.
SPECIFICATION Spec
CONSTANTS
  Emails = {alice, bob}
  Keys = {k1, k2}
  DiskFaults = {"killed", "volume"}
  NoAccount = NoAccount
  NoToken = NoToken
  Absent = Absent
  Corrupt = Corrupt
  NoNonce = NoNonce
  Nonces = {n1, n2, n3}
  Callbacks = {b1, b2}
  Calls = {c1, c2}
  StateTTL = 1
  MaxTime = 2
  MaxGrants = 2
SYMMETRY Symmetry
CHECK_DEADLOCK FALSE
INVARIANTS
  CacheCoherent
  MailboxIsolation
  OneClientPerConsent
PROPERTIES
  SingleUseNonce
  ImplementsDirectory
