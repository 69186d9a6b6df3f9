\* Every message with up to two links in its header, over small MIME trees.  A
\* call ends when it is answered.
SPECIFICATION Spec
CONSTANTS
  MaxLinks = 2
  Payloads <- Trees
  Nesting <- NestingOf
CHECK_DEADLOCK FALSE
INVARIANTS
  TypeOK
  MostReliableFirst
  FailureIsExhaustive
  BodyIsFound
PROPERTY Answered
