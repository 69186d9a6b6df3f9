\* Two mailboxes, one of which needs two chunks, under two keys,
\* with or without a TOKENS_DATA at a start.
SPECIFICATION Spec
CONSTANTS
  alice = alice
  bob = bob
  m1 = m1
  m2 = m2
  m3 = m3
  m4 = m4
  k1 = k1
  Emails = {alice, bob}
  Keys = {k1, k2}
  DiskFaults = {}
  NoAccount = NoAccount
  NoToken = NoToken
  Absent = Absent
  Corrupt = Corrupt
  Messages = {m1, m2, m3, m4}
  MailboxOf <- TwoMailboxes
  Concurrency = 2
  MaxResults = 3
  MaxGrants = 1
  Snapshots <- OneOrNone
INVARIANTS
  TypeOK
  EveryAccountAnswers
  AnswerIsWhole
  RemovedIsNotRead
  FetchesAreCapped
PROPERTY CallEnds
