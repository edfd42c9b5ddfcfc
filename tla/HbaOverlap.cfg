\* A second change is confirmed while the first one runs, and no statement fails.
SPECIFICATION Spec
CONSTANTS
  note = note
  me = me
  other = other
  refuse = refuse
  broken = broken
  Lines = {note, me, other, refuse, broken}
  Comments = {note}
  Broken = {broken}
  Admitting = {me}
  Refusing = {refuse}
  StartFiles <- ShortFiles
  FormLines = {refuse, broken}
  MaxChanges = 2
  MaxFaults = 0
  MaxEvents = 2
  MaxLoads = 0
\* The bounds end the behaviour.
CHECK_DEADLOCK FALSE
INVARIANT CantLockYouOut
