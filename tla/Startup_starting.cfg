SPECIFICATION FairSpec
CONSTANTS
  Container = {c1, c2}
  Environments <- Deployments
  Migrations = 2
  TRIES = 1
  MaxFaults = 1
CHECK_DEADLOCK FALSE
INVARIANTS
  TypeOK
  PagesFollowTheSchema
  SameMail
  PanelHasItsAdministrator
PROPERTIES
  PasswordsStay
  NeverHalfADemo
