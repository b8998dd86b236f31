SPECIFICATION Spec
CONSTANTS
  k1 = k1
  k2 = k2
  k3 = k3
  Calls = {k1, k2, k3}
  MethodsOf <- Mixed
  NoCall = NoCall
  MaxConns = 2
  Timeout = 1
  Second = 2
INVARIANT TimeoutReported
