------------------------------- MODULE Modules -------------------------------
(***************************************************************************)
(* The module loader: how an import is resolved, the cache and the set of  *)
(* modules that are loading, and what executes a module: a run_loop on top *)
(* of the importer's, with the VM's one table of globals exchanged.        *)
(*                                                                         *)
(* A program is not given: the running frame chooses its next statement,   *)
(* and a file may fail to be read or compiled.  A table of globals is known*)
(* by the module whose load installed it, the values in it are left out;   *)
(* the value stack, the defers and the other coroutines are too.           *)
(***************************************************************************)
EXTENDS Integers, Sequences, FiniteSetsExt, SequencesExt

CONSTANTS
  Names,           \* names that a program imports
  Roots,           \* directories that hold modules
  SearchPaths,     \* ModuleResolver.search_paths, a sequence of Roots
  StdlibDir,       \* stdlib_dir
  Files,           \* [Roots -> [Names -> path of the file]], NoFile where there is none
  Libs,            \* [Roots -> [Names -> module that the library of that name defines]]
  NoFile,
  Native,          \* names in native_modules when the program begins
  Embedded,        \* names in embedded_modules
  MaxImportDepth,  \* MAX_IMPORT_DEPTH
  MaxModules,      \* bound: modules that are ever allocated
  MaxFrames,       \* bound: length of call_stack when a function is called
  MaxTries         \* bound: length of exception_handlers

Paths == {Files[r][n] : r \in Roots, n \in Names} \ {NoFile}
EmbeddedPath(n) == <<"@embedded", n>>

(* The keys of the cache: canonical paths, and pseudo paths.               *)
Keys == Paths \cup {EmbeddedPath(n) : n \in Embedded}

ASSUME ConstantsAssumption ==
  /\ SearchPaths \in Seq(Roots) /\ StdlibDir \in Roots
  /\ DOMAIN Files = Roots /\ \A r \in Roots : DOMAIN Files[r] = Names
  /\ DOMAIN Libs = Roots /\ \A r \in Roots : DOMAIN Libs[r] = Names
  /\ Native \subseteq Names /\ Embedded \subseteq Names
  /\ \A n \in Names : EmbeddedPath(n) # NoFile
  /\ {MaxImportDepth, MaxModules, MaxFrames, MaxTries} \subseteq Nat

VARIABLES
  safe,     \* safe_mode
  native,   \* names in native_modules
  libs,     \* loaded_libs: the name of the import that loaded each, and its prefix
  modules,  \* the Module objects, in the order they were allocated
  cache,    \* the module that a key is cached as, None where there is none
  loading,  \* loading_stack, a set in spite of its name
  loads,    \* the load_modules on the Rust stack, the innermost last
  globals,  \* whose table self.globals is
  frames,   \* call_stack
  tries,    \* exception_handlers: the depth of the frame of each
  yielding, \* a yield signal was set by a run_loop that nobody asked
  mode      \* who acts: the interpreter, an error on its way out, the host

vars == <<safe, native, libs, modules, cache, loading, loads, globals, frames, tries, yielding, mode>>

Main == 0  \* the script, in the place of a module
None == 0  \* not cached

(* A frame executes code of a module, its top level or a function of it,   *)
(* with some tries open; it is over when its HALT has been executed.       *)
Frame(code, top) == [code |-> code, top |-> top, tries |-> 0, over |-> FALSE]

Init ==
  /\ safe \in BOOLEAN /\ native = Native /\ libs = {}
  /\ modules = <<>> /\ loading = {} /\ loads = <<>>
  /\ cache = [k \in Keys |-> None]
  /\ globals = Main /\ frames = <<Frame(Main, TRUE)>> /\ tries = <<>>
  /\ yielding = FALSE /\ mode = "run"

-----------------------------------------------------------------------------
Top == Last(frames)
WithTop(f) == [frames EXCEPT ![Len(frames)] = f]
Running == mode = "run" /\ ~Top.over

originVars == <<safe, native, libs>>
resolverVars == <<modules, cache, loading>>
loaderVars == <<resolverVars, loads, globals>>

(* throw and drive_unwind: the last handlers are dropped while their frame *)
(* is gone, frames are popped down to that of the last one that is left.   *)
(* Nothing stops at the frame of a module: the importer below it may catch *)
(* the exception.  A handler that outlived its frame may send another      *)
(* frame of that depth anywhere in its code.                               *)
Handlers(fs) ==
  SubSeq(tries, 1, Max({i \in DOMAIN tries : tries[i] <= Len(fs)} \cup {0}))
Throws(fs) ==
  IF Handlers(fs) = <<>>
  THEN frames' = <<fs[1]>> /\ tries' = <<>> /\ mode' = "error"
  ELSE LET depth == Last(Handlers(fs)) IN
       /\ frames' = [SubSeq(fs, 1, depth) EXCEPT ![depth].tries = Max({@ - 1, 0})]
       /\ tries' = Front(Handlers(fs))
       /\ mode' = "run"

-----------------------------------------------------------------------------
(* load_module, up to the cache.  `std` is the prefix @std of the name.    *)

SearchRoots_Anywhere(std) == IF std THEN <<StdlibDir>> ELSE SearchPaths
SearchRoots(std) == IF std \/ safe THEN <<StdlibDir>> ELSE SearchPaths

(* What the first of the directories that has something of that name has.  *)
FirstOf(roots, table, n) ==
  LET hits == {i \in DOMAIN roots : table[roots[i]][n] # NoFile}
  IN  IF hits = {} THEN NoFile ELSE table[roots[Min(hits)]][n]

Resolve(n, std) == FirstOf(SearchRoots(std), Files, n)

(* What a name stands for: the path of a file or, when there is none, an   *)
(* embedded module.                                                        *)
Key(n, std) ==
  LET path == Resolve(n, std)
  IN  IF path = NoFile /\ n \in Embedded THEN EmbeddedPath(n) ELSE path

TooDeep == Cardinality(loading) >= MaxImportDepth

IsCached_Complete(n, std) ==
  Key(n, std) # NoFile /\ cache[Key(n, std)] # None /\ Key(n, std) \notin loading
IsCached(n, std) == LET key == Key(n, std) IN key # NoFile /\ cache[key] # None

(* IMPORT of a module that is there: a native one, or a cached one, be it  *)
(* complete or an empty shell that is still loading.                       *)
ImportKnown(n, std) ==
  /\ Running
  /\ n \in native \/ (~TooDeep /\ IsCached(n, std))
  /\ UNCHANGED vars

(* The module that the library of that name registers.                     *)
Library(n) == FirstOf(SearchPaths, Libs, n)

(* IMPORT of what is neither a file nor embedded, when it is not restricted *)
(* by the safe mode: load_native_module loads the first library of that    *)
(* name of all search_paths, whatever the prefix, and the library's        *)
(* msModuleInit registers a module, which need not have the name of the    *)
(* import: then the import fails, and the module is there for the next.    *)
ImportLibrary(n, std) ==
  /\ Running
  /\ n \notin native /\ ~TooDeep /\ (safe => std) /\ Key(n, std) = NoFile
  /\ Library(n) # NoFile /\ Library(n) \notin native
  /\ native' = native \cup {Library(n)}
  /\ libs' = libs \cup {[name |-> n, std |-> std]}
  /\ \/ Library(n) = n /\ UNCHANGED <<frames, tries, mode>>
     \/ Library(n) # n /\ Throws(frames)
  /\ UNCHANGED <<safe, loaderVars, yielding>>

(* IMPORT of what cannot be found, or whose library cannot be loaded or    *)
(* defines a module that is there, or too deep an import: an ImportError.  *)
ImportNotFound(n, std) ==
  /\ Running
  /\ n \notin native /\ (TooDeep \/ Key(n, std) = NoFile)
  /\ Throws(frames)
  /\ UNCHANGED <<originVars, loaderVars, yielding>>

-----------------------------------------------------------------------------
(* load_module: the cache is missed.  An empty shell is cached and the key *)
(* is loading while the file is read, compiled and executed.               *)

IsNew(n, std) ==
  /\ Running /\ n \notin native /\ ~TooDeep /\ Len(modules) < MaxModules
  /\ Key(n, std) # NoFile /\ ~IsCached(n, std)

Allocated(key) == Append(modules, [key |-> key, filled |-> FALSE])

(* The file cannot be read or compiled: cleanup_failed_load.               *)
ImportBroken(n, std) ==
  /\ IsNew(n, std)
  /\ modules' = Allocated(Key(n, std))
  /\ Throws(frames)
  /\ UNCHANGED <<originVars, cache, loading, loads, globals, yielding>>

(* execute_module installs a copy of the baseline as the globals, and      *)
(* run_top_level_chunk pushes a frame for the module and calls run.        *)
ImportExecutes(n, std) ==
  /\ IsNew(n, std)
  /\ LET key == Key(n, std)
         new == Len(modules) + 1
     IN  /\ modules' = Allocated(key)
         /\ cache' = [cache EXCEPT ![key] = new]
         /\ loading' = loading \cup {key}
         /\ loads' = Append(loads, [key |-> key, module |-> new, saved |-> globals,
                                    depth |-> Len(frames)])
         /\ globals' = new
         /\ frames' = Append(frames, Frame(new, TRUE))
  /\ UNCHANGED <<originVars, tries, yielding, mode>>

(* The import statement binds a module, `from` takes attributes of it and  *)
(* imports it again for each of them.                                      *)
Import(n, std) ==
  \/ ImportKnown(n, std)
  \/ ImportLibrary(n, std)
  \/ ImportNotFound(n, std)
  \/ ImportBroken(n, std)
  \/ ImportExecutes(n, std)

-----------------------------------------------------------------------------
(* The innermost run_loop returns: run_top_level_chunk cuts the call stack *)
(* back, without popping what is below the importer, and execute_module    *)
(* puts the importer's globals back.                                       *)

Load == Last(loads)
CutBack(fs) == SubSeq(fs, 1, Min({Len(fs), Load.depth}))

Restored_Main == Main
Restored == Load.saved
EndLoad_OtherKey ==
  /\ loads # <<>>
  /\ loads' = Front(loads)
  /\ loading' = loading \ {loads[1].key}
  /\ globals' = Restored
EndLoad ==
  /\ loads # <<>>
  /\ loads' = Front(loads)
  /\ loading' = loading \ {Load.key}
  /\ globals' = Restored

(* It returned Ok: the module gets its exports, whoever it was that ended. *)
LoadSucceeds(fs) ==
  /\ EndLoad
  /\ modules' = [modules EXCEPT ![Load.module].filled = TRUE]
  /\ frames' = CutBack(fs)
  /\ UNCHANGED <<originVars, cache, tries, mode>>

(* It returned Err: the shell is taken out of the cache, and the importer  *)
(* throws an ImportError.                                                  *)
Uncached_Stays == cache
Uncached == [cache EXCEPT ![Load.key] = None]
LoadFails ==
  /\ mode = "error" /\ EndLoad
  /\ cache' = Uncached
  /\ Throws(CutBack(frames))
  /\ UNCHANGED <<originVars, modules, yielding>>

(* HALT at the end of the top level ends the innermost run_loop: that of   *)
(* the module or, when an importer had caught an exception of the module,  *)
(* the importer's own HALT.  A main coroutine that ends with a yield signal*)
(* set is parked, and resumed behind its HALT.                             *)
Halt ==
  /\ Running /\ Top.top /\ Top.tries = 0
  /\ LET fs == WithTop([Top EXCEPT !.over = TRUE]) IN
     \/ LoadSucceeds(fs) /\ UNCHANGED yielding
     \/ /\ loads = <<>> /\ frames' = fs
        /\ mode' = IF yielding THEN "run" ELSE "over"
        /\ yielding' = FALSE
        /\ UNCHANGED <<originVars, loaderVars, tries>>

(* The importer's HALT was executed by the run_loop of an import, and the  *)
(* importer's own run_loop goes on behind it: "ip past end of bytecode".   *)
PastEnd ==
  /\ mode = "run" /\ Top.over /\ mode' = "error"
  /\ UNCHANGED <<originVars, loaderVars, frames, tries, yielding>>

(* await, or an operation on a channel, that must wait: run_loop returns Ok*)
(* with a yield signal set.  Under an import nobody looks at it: the module*)
(* is left where it is and counts as loaded.  (A script that waits outside *)
(* an import is parked and goes on later.)                                 *)
AwaitInLoad ==
  /\ Running
  /\ LoadSucceeds(frames)
  /\ yielding' = TRUE

-----------------------------------------------------------------------------
(* The statements that matter to the loader.                               *)

EnterTry ==
  /\ Running /\ Len(tries) < MaxTries
  /\ tries' = Append(tries, Len(frames))
  /\ frames' = WithTop([Top EXCEPT !.tries = @ + 1])
  /\ UNCHANGED <<originVars, loaderVars, yielding, mode>>

ExitTry ==
  /\ Running /\ Top.tries > 0
  /\ tries' = SubSeq(tries, 1, Len(tries) - 1)
  /\ frames' = WithTop([Top EXCEPT !.tries = @ - 1])
  /\ UNCHANGED <<originVars, loaderVars, yielding, mode>>

Throw ==
  /\ Running /\ Throws(frames)
  /\ UNCHANGED <<originVars, loaderVars, yielding>>

(* An error of the VM is no exception: it passes every handler.            *)
Fail ==
  /\ Running /\ mode' = "error"
  /\ UNCHANGED <<originVars, loaderVars, frames, tries, yielding>>

(* A function of a module is an attribute of it: what a shell does not have*)
(* yet is a NameError.  Code calls functions of its own module by name.    *)
Call(m) ==
  /\ Running /\ Len(frames) < MaxFrames
  /\ IF m = Top.code \/ modules[m].filled
     THEN /\ frames' = Append(frames, Frame(m, FALSE))
          /\ UNCHANGED <<tries, mode>>
     ELSE Throws(frames)
  /\ UNCHANGED <<originVars, loaderVars, yielding>>

Return ==
  /\ Running /\ ~Top.top /\ Top.tries = 0
  /\ frames' = Front(frames)
  /\ UNCHANGED <<originVars, loaderVars, tries, yielding, mode>>

-----------------------------------------------------------------------------
(* The host: an error ends the script, and the REPL executes the next input*)
(* with the modules and globals that are there.                            *)

ScriptFails ==
  /\ mode = "error" /\ loads = <<>> /\ mode' = "over"
  /\ UNCHANGED <<originVars, loaderVars, frames, tries, yielding>>

NextInput ==
  /\ mode = "over"
  /\ frames' = <<Frame(Main, TRUE)>> /\ tries' = <<>>
  /\ yielding' = FALSE /\ mode' = "run"
  /\ UNCHANGED <<originVars, loaderVars>>

Next ==
  \/ \E n \in Names, std \in BOOLEAN : Import(n, std)
  \/ LoadFails \/ Halt \/ PastEnd \/ AwaitInLoad
  \/ EnterTry \/ ExitTry \/ Throw \/ Fail
  \/ (\E m \in DOMAIN modules \cup {Top.code} : Call(m)) \/ Return
  \/ ScriptFails \/ NextInput

Spec == Init /\ [][Next]_vars

-----------------------------------------------------------------------------
Loading == {loads[i].key : i \in DOMAIN loads}

(* loading_stack is what the load_modules on the Rust stack are loading: no*)
(* file is loaded twice at a time, whatever the cycle of imports and       *)
(* however loads end, and nesting stays within MAX_IMPORT_DEPTH            *)
(* (load_module's insert and its four removals).                           *)
LoadsAreTracked ==
  /\ loading = Loading
  /\ Len(loads) <= MaxImportDepth
  /\ \A i, j \in DOMAIN loads : i # j => loads[i].key # loads[j].key

(* The globals are those of the innermost load, every load keeps those of  *)
(* the one below it, and the script's are back when no load is left:       *)
(* execute_module's exchange nests although loads end by HALT, by waiting, *)
(* by errors and by exceptions somebody else caught.                       *)
GlobalsNest ==
  /\ globals = IF loads = <<>> THEN Main ELSE Load.module
  /\ \A i \in DOMAIN loads :
       loads[i].saved = IF i = 1 THEN Main ELSE loads[i - 1].module

(* What an import takes from the cache is a module of that file which is   *)
(* complete, or the shell of the load of that file that is in progress: no *)
(* import is left with a shell that nobody will fill (load_module, 8 and 9,*)
(* and cleanup_failed_load).                                               *)
CacheIsHonest ==
  /\ \A k \in Keys : cache[k] # None =>
       /\ modules[cache[k]].key = k
       /\ modules[cache[k]].filled <=> k \notin loading
  /\ \A i \in DOMAIN loads : cache[loads[i].key] = loads[i].module

(* However often a file fails to load and is imported again, and whatever  *)
(* shells of it importers still hold, one module of it at most is complete:*)
(* everybody who can use it shares its state (load_module's cache).        *)
OneModulePerFile ==
  \A i, j \in DOMAIN modules :
    modules[i].filled /\ modules[j].filled /\ modules[i].key = modules[j].key => i = j

(* In safe mode every file that is executed is a file of the standard      *)
(* library or an embedded module, also when a directory that is searched   *)
(* earlier has one of that name; and what is not is a library that an      *)
(* import with the prefix @std has loaded, under a name that neither the   *)
(* standard library nor the embedded modules have (load_module, steps 1    *)
(* and 3, and resolve).                                                    *)
SafeModeHolds ==
  safe =>
    /\ \A i \in DOMAIN modules :
         \/ modules[i].key \in {Files[StdlibDir][n] : n \in Names}
         \/ modules[i].key \in {EmbeddedPath(n) : n \in Embedded}
    /\ \A l \in libs : l.std /\ Files[StdlibDir][l.name] = NoFile /\ l.name \notin Embedded

=============================================================================
