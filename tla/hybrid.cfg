\* Every dependency graph of four blobs, every exporter of a function, and tables of slots.
SPECIFICATION FairSpec
CONSTANTS
  main = main
  inst = inst
  other = other
  plain = plain
  libc = libc
  libpthread = libpthread
  runtime = runtime
  f = f
  g = g
  Lib <- MCLib
  Binary = main
  Runtime = runtime
  Libc = libc
  Libpthread = libpthread
  Function <- MCFunction
  Layouts <- MCLayouts
  MaxDepth = 8
INVARIANT HybridInv
PROPERTY ImplementsLinker
