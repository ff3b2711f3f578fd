SPECIFICATION BookingSpec
CONSTANTS
  Calls = {c1, c2}
  Industries = {"restaurant", "finance"}
  Today <- MCToday
  Sayings <- MCSayings
  StaffTimes <- MCStaffTimes
  Dur = 2
  MaxEvents = 2
SYMMETRY Symmetry
INVARIANTS
  BookedTimeWasFree
  SuggestionIsOpen
  OfferSaidBackIsUnderstood
CHECK_DEADLOCK FALSE
