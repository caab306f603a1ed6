\* Two clones, two toolchains, one cache, runs of one clone at a time.
SPECIFICATION FairSpec
CONSTANTS
  a = a
  b = b
  gcc = gcc
  clang = clang
  usr = usr
  opt = opt
  Cache = Cache
  NoClone = NoClone
  NoCompiler = NoCompiler
  Clones = {a, b}
  CacheUsers = {a, b}
  CacheDirExists = TRUE
  Toolchains = {gcc, clang}
  Toolchain <- TwoToolchains
  Compilers = {usr, opt}
  Compiler <- TwoCompilers
  NumParts = 2
  Overlap = FALSE
  MaxFaults = 2
INVARIANTS TypeOK SourceComplete ConfiguredUsable 
PROPERTY EventuallyConfigured
