\* In place of GroupsApart, OwnRoster is violated: a name changes in all rosters.
CONSTANTS
  User = {"foo", "bar"}
  Client = {"c1", "c2", "c3"}
  UserOf <- TwoAndOne
  Contact = {"k"}
  Name = {"n", "m"}
  Group = {"friends"}
  Absent = Absent
  MaxRequests = 3
SPECIFICATION Safety
INVARIANTS TypeOK ViewCurrent
PROPERTY GroupsApart
CHECK_DEADLOCK FALSE
