\* One logical order, one retry, a reconciler that answers for settled sends only,
\* and a clientOrderID that two attempts share.
CONSTANTS
  o1 = o1
  a1 = a1
  a2 = a2
  Proc = {p1, p2, p3}
  Op = {o1}
  Att = {a1, a2}
  MaxSeq = 1
  ClientOrderId <- MCClientOrderId
  CoidOf <- MCCoidOf
  Reason = {r1}
  Reconciler = "settled"
  Nil = Nil
SYMMETRY MCSymmetry
SPECIFICATION Spec
INVARIANTS
  AtMostOneSend
  OneOrderPerOperation
  NoSharedClientOrderId
  RetryHistoryComplete
  OutcomesFactual
PROPERTIES
  AttemptsSpec
