SPECIFICATION FairSpec
CONSTANTS
  o1 = o1  r1 = r1  r2 = r2  v1 = v1  v2 = v2  stripe = stripe  paypal = paypal
  Order = {o1}
  Request = {r1, r2}
  Visit = {v1}
  OrderOf <- OneOrder
  Provider = {stripe, paypal}
  CaptureOnReturn = {paypal}
  SettlesLater = {stripe}
  NoRequest = NoRequest
  NoProvider = NoProvider
CHECK_DEADLOCK FALSE
PROPERTY
  PendingEnds
