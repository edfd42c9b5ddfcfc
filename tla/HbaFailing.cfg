\* One change while statements may fail.
SPECIFICATION Spec
CONSTANTS
  note = note
  me = me
  other = other
  refuse = refuse
  broken = broken
  Lines = {note, me, other, refuse, broken}
  Comments = {note}
  Broken = {broken}
  Admitting = {me}
  Refusing = {refuse}
  StartFiles <- MCFiles
  FormLines = {other}
  MaxChanges = 1
  MaxFaults = 1
  MaxEvents = 2
  MaxLoads = 1
\* The bounds end the behaviour.
CHECK_DEADLOCK FALSE
INVARIANT AnyFailureRestores
