\* Three requests under each of the four configurations.
SPECIFICATION EndpointSpec
CONSTANT Requests = {r1, r2, r3}
CHECK_DEADLOCK FALSE
INVARIANTS
  EndpointTypeOK
  AdmittedWithCredential
PROPERTIES
  ServedAfterOutage
  TornDownWhenListening
