\* Two changes, one after the other or at the same time, and a statement that fails.
SPECIFICATION FairSpec
CONSTANTS
  note = note
  me = me
  other = other
  refuse = refuse
  broken = broken
  Lines = {note, me, other, refuse, broken}
  Comments = {note}
  Broken = {broken}
  Admitting = {me}
  Refusing = {refuse}
  StartFiles <- ShortFiles
  FormLines = {refuse, broken}
  MaxChanges = 2
  MaxFaults = 2
  MaxEvents = 3
  MaxLoads = 1
\* The bounds end the behaviour.
CHECK_DEADLOCK FALSE
INVARIANT TypeOK
INVARIANT NeverLockedOut
INVARIANT RefusedIsUndone
INVARIANT OldFileKept
INVARIANT SuccessIsInUse
PROPERTY ApplyAnswered
