SPECIFICATION Spec
CONSTANTS
  s1 = s1
  s2 = s2
  s3 = s3
  s4 = s4
  i1 = i1
  NoOne = NoOne
  Slots = {s1, s2, s3, s4}
  Interviewers = {i1}
  Requests = {r1, r2}
  Booking <- MCBooking
  Types = {"TECHNICAL", "PANEL"}
  Default <- MCDefault
  Preferences <- MCPreferences
  Patches = {"CANCELLED", "SCHEDULED"}
  Answers = {"ACCEPTED"}
  Reports = {"ATTENDED"}
  Lengths = {1}
  Day = 2
  Week = 4
  MaxTime = 1
SYMMETRY Symmetry
INVARIANT OverrunIsBounded
