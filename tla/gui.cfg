\* The workstation's page and server, with failures and a kill.
CONSTANTS
  a = a
  b = b
  x = x
  y = y
  Cases <- MCCases
  DefaultCase = a
  DefaultImage = y
  Images <- MCImages
  Sources <- MCSources
  NoImage = NoImage
  Reference = Reference
  NoCase = NoCase
  MaxClicks = 3
  MaxKills = 1
SPECIFICATION Spec
INVARIANTS
  TypeOK
  ServedIsTheReport
  CertificateIsTheNewest
PROPERTIES
  EveryRequestIsHeard
\* The examiner may stop clicking.
CHECK_DEADLOCK FALSE
