CONSTANTS
  Remember = 3
  Ordinary = 1
  Addresses = {1,2}
  MaxLogins = 1
  MaxAccounts = 2
  MaxPasswords = 2
  MaxIncidents = 1
  None = None
SPECIFICATION Spec
INVARIANT SessionsKnowPassword
INVARIANT LoggedOutStaysOut
PROPERTY RowGoesLast
PROPERTY AskerIsServed
CHECK_DEADLOCK FALSE
