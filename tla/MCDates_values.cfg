SPECIFICATION Spec
CONSTANTS
  Numbers <- MCNumbers
  Years <- MCYears
  Spans <- MCSpans
  Lines <- MCLines
  LastSdns <- MCLastSdns
  MaxCalls = 2
INVARIANTS
  BoundsAreTight
  DatesConvert
  WrittenIsRead
PROPERTIES
  DaysFollow
CHECK_DEADLOCK FALSE
