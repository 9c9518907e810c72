------------------------------ MODULE MCModules ------------------------------
(* Instances of Modules for TLC.                                           *)
EXTENDS Modules, TLC

CONSTANTS cwd, lib          \* the script's directory and the standard library's
CONSTANTS a, b, ext, other \* names
CONSTANTS fileCwd, fileLib

(* b is a file of both directories; a is a link to one of them, and        *)
(* embedded.                                                               *)
TheFiles ==
  cwd :> (a :> fileCwd @@ b :> fileCwd @@ ext :> NoFile @@ other :> NoFile)
  @@ lib :> (a :> NoFile @@ b :> fileLib @@ ext :> NoFile @@ other :> NoFile)

(* The libraries ext and other define a module of the same name, ext.      *)
TheLibs ==
  cwd :> (a :> NoFile @@ b :> NoFile @@ ext :> ext @@ other :> NoFile)
  @@ lib :> (a :> NoFile @@ b :> NoFile @@ ext :> NoFile @@ other :> ext)
ThePaths == <<cwd, lib>>
=============================================================================
