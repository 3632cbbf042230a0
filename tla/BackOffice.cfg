SPECIFICATION SpecBackOffice
CONSTANTS
  x = x
  y1 = y1  y2 = y2
  u1 = u1
  z1 = z1  z2 = z2
  k1 = k1  k2 = k2
  NoPayment = NoPayment
  Payments <- TwoRows
  Users <- OnePerson
  Schedule <- RentOnly
  Amount = 2
  MaxPaid = 3
  MaxBills = 2
  Validity = 0
  LastDay = 1
  None = None
  Reservations <- TwoRows
  Properties <- TwoPlaces
  Leads <- TwoPlaces
  Agents <- AgentAndManager
  Supervisors <- OnePerson
  NoTenancy = NoTenancy
  RenewalJob = RenewalJob
  Tenancies <- ThreeRows
  Managers <- OnePerson
  NoLine = NoLine
  Lines <- ThreeRows
  Clerks <- TwoRows
  Instalments <- OneToThree
  Contracts <- TwoContracts
  Sites = 2
  Period = 2
  Until <- Ends
  Horizon = 4
  MaxVisits = 1
SYMMETRY Symmetry
INVARIANT BackOfficeTypeOK
INVARIANT StateMatchesBalance
INVARIANT InvoicedOnce
INVARIANT ReservedOnceByAgent
INVARIANT RenewedOnce
INVARIANT StateFollowsLines
INVARIANT VisitsAPeriodApart
PROPERTY PaidStaysPaid
CHECK_DEADLOCK FALSE
