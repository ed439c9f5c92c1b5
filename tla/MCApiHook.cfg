SPECIFICATION FairSpec
CONSTANTS
  Threads = {t1}
  Modules = {"exe", "own", "kernel32", "user32", "plugin"}
  Functions = {"LoadLibrary", "MessageBox"}
  Hooks = {"h1", "h2", "h3"}
  Imports <- MCImports
  Home <- MCHome
  Target <- MCTarget
  LoadLibrary = "LoadLibrary"
  Own = "own"
  AtStart = {"exe", "own", "kernel32"}
  Guarded = {"plugin"}
  Nil = Nil
INVARIANTS
  HookTypeOK
  ListIntact
  NoneDangles
  SameWay
PROPERTIES
  LoadReturns
