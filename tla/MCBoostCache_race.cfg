\* Two clones share a cache and a toolchain, overlap their runs and meet no fault.
SPECIFICATION Spec
CONSTANTS
  a = a
  b = b
  gcc = gcc
  clang = clang
  usr = usr
  opt = opt
  Cache = Cache
  NoClone = NoClone
  NoCompiler = NoCompiler
  Clones = {a, b}
  CacheUsers = {a, b}
  CacheDirExists = TRUE
  Toolchains = {gcc, clang}
  Toolchain <- SameToolchain
  Compilers = {usr, opt}
  Compiler <- TwoCompilers
  NumParts = 2
  Overlap = TRUE
  MaxFaults = 0
INVARIANT SourceComplete
