\* One message with up to three arguments, in every combination; the bytes may be
\* wrong in one place.  A message that failed or was decoded is the end.
CONSTANTS
  Base = 6
  DefaultMaxMessageSize = 96
  MaxArgs = 3
  Arguments <- MCArguments
  Requests <- MCRequests
SPECIFICATION Spec
CHECK_DEADLOCK FALSE
INVARIANTS RoundTrips ValidateExact DecodersExact PathsAgree 
