\* Two commands that meet on a database nobody used yet, while the manager closes.
SPECIFICATION FairSpec
CONSTANTS
  admin = admin
  app = app
  c1 = c1
  c2 = c2
  AdminDB = admin
  Databases = {admin, app}
  Commands = {c1, c2}
  Plans <- LoadAndForce
\* The commands end.
CHECK_DEADLOCK FALSE
INVARIANT TypeOK
INVARIANT MapHoldsOpenPools
INVARIANT RightDatabase
INVARIANT NoOtherLeak
PROPERTY EverybodyEnds
