SPECIFICATION Spec
CONSTANT Requests = {r1, r2, r3}
PROPERTY SignalEndsProcess
