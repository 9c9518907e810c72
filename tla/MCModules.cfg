SPECIFICATION Spec
CONSTANTS
  cwd = cwd
  lib = lib
  a = a
  b = b
  ext = ext
  other = other
  fileCwd = fileCwd
  fileLib = fileLib
  NoFile = NoFile
  Names = {a, b, ext, other}
  Roots = {cwd, lib}
  SearchPaths <- ThePaths
  StdlibDir = lib
  Files <- TheFiles
  Libs <- TheLibs
  Native = {}
  Embedded = {a}
  MaxImportDepth = 2
  MaxModules = 3
  MaxFrames = 3
  MaxTries = 1
INVARIANTS LoadsAreTracked GlobalsNest CacheIsHonest OneModulePerFile SafeModeHolds
