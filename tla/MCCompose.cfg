\* Two calls on a conversation that begins with one of many messages.
SPECIFICATION Spec
CONSTANTS
  me = me
  ann = ann
  bob = bob
  Self = me
  Addresses = {me, ann, bob}
  Comma = Comma
  Quote = Quote
  Escape = Escape
  LineBreak = LineBreak
  Nobody = Nobody
  Originals <- Arrived
  Given <- GivenByCallers
  Subjects <- SubjectsByCallers
  Requests = {q1, q2}
  MaxMail = 3
SYMMETRY Symmetry
CHECK_DEADLOCK FALSE
INVARIANTS
  TypeOK
  RepliesReachEveryone
  ConversationThreads
  SentByRequest
  HeadersAreSafe
