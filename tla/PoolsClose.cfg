\* A pool that enters the map after Close.
SPECIFICATION Spec
CONSTANTS
  admin = admin
  app = app
  c1 = c1
  c2 = c2
  AdminDB = admin
  Databases = {admin, app}
  Commands = {c1, c2}
  Plans <- LoadAndForce
\* The commands end.
CHECK_DEADLOCK FALSE
INVARIANT CloseClosesAll
