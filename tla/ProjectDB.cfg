CONSTANTS
  Degree = 2
  Key <- MCIds
  Val <- MCVal
  MaxPage = 4
  User <- MCUsers
  ApiKey <- MCApiKeys
  MaxProjectId = 5
SPECIFICATION DBSpec
INVARIANTS OneKeyEach RevokedIsDead
PROPERTIES ImplementsProjects
