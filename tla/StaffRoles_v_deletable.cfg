SPECIFICATION StaffSpec
CONSTANTS
  StaffUsers = {u1, u2}
  BootstrapUsers = {u1}
  StaffCalls = {c1}
INVARIANT AccountDeletable
CHECK_DEADLOCK FALSE
