CONSTANTS
  Core = {c1, c2}  Control = c1  Null = Null
  Name = {help, h, dlevel, app}  help = help  h = h  dlevel = dlevel  Func = {f}
  MaxCmds = 2  Levels = {0, 5}  Typed = {9, 10, 255, 265}
  Synced = TRUE  MaxBytes = 2
SPECIFICATION Spec
INVARIANTS TypeOK NoSelfDeadlock WholeMessages
PROPERTY CallsKeepPromise
