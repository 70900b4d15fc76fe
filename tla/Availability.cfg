SPECIFICATION FairSpec
CONSTANTS
  ana = ana cut = cut dye = dye perm = perm hair = hair care = care
  long = long mask = mask scalp = scalp vac = vac trip = trip lists = lists cats = cats
  NONE = NONE MISS = MISS REFUSED = REFUSED
  Staff = {ana}
  Service = {cut, dye, perm}
  Category = {hair, care}
  Variant = {long}
  Addon = {mask, scalp}
  ServiceOf <- MCServiceOf
  ServicesKey = lists
  CategoriesKey = cats
  PageKey <- MCPageKey
  Key <- MCKey
  Asked <- MCAsked
  Start <- MCStart
  TimeOffId = {vac, trip}
  EndOfDay = 3
  IntervalMin = 1
  TtlSec = 20
  MaxRequests = 3
  MaxOpen = 2
  MaxFaults = 1
INVARIANTS TypeOK StaleIsExplained TimesStaySound OfferedSlotsAreFree
PROPERTIES RowsMixOnlyInARace ArchivedActsOnlyInARace StaleEnds
