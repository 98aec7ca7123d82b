SPECIFICATION Spec
CONSTANTS
  Rules <- MCRules
  Streams <- MCStreams
  Cuts = {1, 2, 5}
  MaxDigits = 2
  MaxHeader = 40
  MaxLength = 35
INVARIANTS
  Watched
  HandlersSeeWhatWasSent
  AnswersFit
  MalformedIsRefused
PROPERTY
  Released
