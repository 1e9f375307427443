SPECIFICATION Spec
CONSTANTS
  Streams = {s1, s2}
  Keys = {k1, k2, k3}
  Offers <- MCOffers
  Certificates <- MCCertificates
  Now = 2
  Nil = Nil
SYMMETRY Symmetry
INVARIANTS
  ResultIsNegotiated
  WeakTlsIsReportedWhenNamed
  AlarmsAreTrue
  TablesAgree
CHECK_DEADLOCK FALSE
