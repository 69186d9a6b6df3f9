\* One request is enough.
SPECIFICATION EndpointSpec
CONSTANT Requests = {r1}
CHECK_DEADLOCK FALSE
PROPERTY TornDown
