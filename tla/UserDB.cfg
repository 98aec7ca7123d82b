CONSTANTS
  Degree = 2
  Key <- MCEmails
  Val <- MCVal
  MaxPage = 4
  MaxUserId = 4
SPECIFICATION DBSpec
INVARIANTS OneAccountEach SuperAdmin StaysDeactivated
PROPERTY ImplementsAccounts
