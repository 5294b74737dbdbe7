------------------------------- MODULE Loader -------------------------------
(***************************************************************************)
(* The life of the services module: its configuration loads libraries of   *)
(* service modules, start() starts them, the console loads more, and the   *)
(* destructors unload them (source/module.cpp, source/lib/modules.cpp,     *)
(* module.cpp, config.cpp and console.cpp).                                *)
(*                                                                         *)
(* The list of modules is a map keyed by the pointer to the short name in  *)
(* the library, so its keys are the open libraries: a file loaded twice    *)
(* has one key, a name typed by a user is a key of no module.  libltdl     *)
(* counts how often a file is opened and keeps the library while the count *)
(* is not 0.  KineIRCd keeps the registered services and the registered    *)
(* language tag maps, both of which are code and data of the libraries.    *)
(*                                                                         *)
(* affirmTable answers true to every table until there is new database     *)
(* code, so every realStart() returns a service.  What the services do     *)
(* with the events they are handed is in NickServ, ChanServ and ChanStatus.*)
(* A console command refused for want of access changes nothing.           *)
(*                                                                         *)
(* The process may die: the database classes call exit(1), and their       *)
(* destructors "delete this", which never comes to an end.                 *)
(***************************************************************************)
EXTENDS Integers, FiniteSets

CONSTANTS
  File,        \* the files named in the configuration and on the console
  Missing,     \* those that lt_dlopen cannot open
  Foreign,     \* libraries without an initialisation function
  Translated,  \* modules with a language tag map
  MaxOpens     \* bound on the count of one file

ASSUME LoaderAssumption ==
  /\ Missing \subseteq File
  /\ Foreign \subseteq File
  /\ Translated \subseteq File
  /\ MaxOpens \in Nat

VARIABLES
  phase,       \* how far the services module is
  opens,       \* the count libltdl keeps of each file
  mapped,      \* the files of the modules in the list
  services,    \* how many service objects each file's modules have created
  registered,  \* the files whose service KineIRCd has in its registry
  tagMaps      \* the files whose tag map KineIRCd has

hostVars == <<services, registered, tagMaps>>
loaderVars == <<phase, opens, mapped, hostVars>>

Phase == {"configuring", "refused", "running", "stopping", "stopped", "dead"}

LoaderInit ==
  /\ phase = "configuring"
  /\ opens = [f \in File |-> 0]
  /\ mapped = {}
  /\ services = [f \in File |-> 0]
  /\ registered = {}
  /\ tagMaps = {}

(* The key of a file's module, and the one that a typed name makes.        *)
KeyOf(f) == <<"library", f>>
TypedKey(f) == <<"typed", f>>

exists(key) == \E f \in mapped : KeyOf(f) = key

(* Mutant: the list is not searched.                                       *)
Loads_again(f) == f \notin Missing \cup Foreign

(* Whether loadModule returns a module: only one that is not in the list.  *)
Loads(f) == f \notin Missing \cup Foreign /\ ~exists(KeyOf(f))

(* A library that opens stays open, whatever comes of it.                  *)
loadModule(f) ==
  /\ opens[f] < MaxOpens
  /\ opens' = IF f \in Missing THEN opens ELSE [opens EXCEPT ![f] = @ + 1]
  /\ mapped' = IF Loads(f) THEN mapped \cup {f} ELSE mapped

(* The modules of F start: each registers its tag map and creates a        *)
(* service, which the host may refuse; nobody looks at the answer.         *)
startModules(F) ==
  /\ services' = [f \in File |-> IF f \in F THEN services[f] + 1 ELSE services[f]]
  /\ tagMaps' = tagMaps \cup (F \cap Translated)
  /\ \E accepted \in SUBSET F : registered' = registered \cup accepted

(* Mutant: every file is closed, opened or not.                            *)
closeModules_everyFile(F) ==
  /\ opens' = [f \in File |-> opens[f] - 1]
  /\ mapped' = mapped \ F

(* ~ModuleDescriptor for the modules of F.  The module objects stay, so    *)
(* nothing deletes their services or deregisters their tag maps.           *)
closeModules(F) ==
  /\ opens' = [f \in File |-> IF f \in F THEN opens[f] - 1 ELSE opens[f]]
  /\ mapped' = mapped \ F

(* Module::stop.                                                           *)
stop(F) == registered' = registered \ F

-----------------------------------------------------------------------------
(* A module{} class or module variable of the configuration.               *)
handleModule(f) ==
  /\ phase = "configuring"
  /\ loadModule(f)
  /\ UNCHANGED <<phase, hostVars>>

(* The engine in the configuration is not in the build, or no connection.  *)
exitWithoutDatabase ==
  /\ phase = "configuring"
  /\ phase' = "dead"
  /\ UNCHANGED <<opens, mapped, hostVars>>

(* mod_exordium::start: without its logger the module refuses to start;    *)
(* else the constructor of the services starts every module in the list.   *)
start ==
  /\ phase = "configuring"
  /\ \/ phase' = "refused" /\ UNCHANGED hostVars
     \/ phase' = "running" /\ startModules(mapped)
  /\ UNCHANGED <<opens, mapped>>

(* A console command of somebody who is not an online user.                *)
parseLine_stranger ==
  /\ phase = "running"
  /\ phase' = "dead"
  /\ UNCHANGED <<opens, mapped, hostVars>>

(* Mutant: the module is loaded and not started.                           *)
parseMODULE_load_only(f) ==
  /\ phase = "running"
  /\ loadModule(f)
  /\ UNCHANGED <<phase, hostVars>>

(* MODULE LOAD.                                                            *)
parseMODULE_load(f) ==
  /\ phase = "running"
  /\ loadModule(f)
  /\ IF Loads(f) THEN startModules({f}) ELSE UNCHANGED hostVars
  /\ UNCHANGED phase

unloadModule(key) ==
  LET F == {f \in mapped : KeyOf(f) = key} IN stop(F) /\ closeModules(F)

(* Mutant: the name is compared with the names of the modules.             *)
parseMODULE_unload_byName(f) ==
  /\ phase = "running"
  /\ unloadModule(KeyOf(f))
  /\ UNCHANGED <<phase, services, tagMaps>>

(* MODULE UNLOAD, by the name of the module of a file.                     *)
parseMODULE_unload(f) ==
  /\ phase = "running"
  /\ unloadModule(TypedKey(f))
  /\ UNCHANGED <<phase, services, tagMaps>>

(* An event of the network: each module in the list is asked for its       *)
(* service, and for the events the service wants.                          *)
handleEvent ==
  /\ phase = "running"
  /\ phase' = IF \E f \in mapped : services[f] = 0 THEN "dead" ELSE "running"
  /\ UNCHANGED <<opens, mapped, hostVars>>

(* ~ServicesInternal: unloadAll returns after the first module, which is   *)
(* the one with the lowest address.                                        *)
unloadAll ==
  /\ phase = "running"
  /\ phase' = "stopping"
  /\ IF mapped = {}
       THEN UNCHANGED <<opens, mapped, registered>>
       ELSE \E f \in mapped : stop({f}) /\ closeModules({f})
  /\ UNCHANGED <<services, tagMaps>>

(* Then, and after a start that was refused, the database is deleted.      *)
deleteDatabase ==
  /\ phase \in {"refused", "stopping"}
  /\ phase' = "dead"
  /\ UNCHANGED <<opens, mapped, hostVars>>

(* ~Modules, with the configuration, when the module was never started.    *)
destroyModules ==
  /\ phase = "configuring"
  /\ phase' = "stopped"
  /\ closeModules(mapped)
  /\ UNCHANGED hostVars

LoaderNext ==
  \/ exitWithoutDatabase
  \/ start
  \/ parseLine_stranger
  \/ handleEvent
  \/ unloadAll
  \/ deleteDatabase
  \/ destroyModules
  \/ \E f \in File : handleModule(f) \/ parseMODULE_load(f) \/ parseMODULE_unload(f)

LoaderSpec == LoaderInit /\ [][LoaderNext]_loaderVars

-----------------------------------------------------------------------------
(* Properties.                                                             *)

(* The type of the state; no count of a file goes below 0.                 *)
LoaderTypeOK ==
  /\ phase \in Phase
  /\ opens \in [File -> 0..MaxOpens]
  /\ mapped \subseteq File
  /\ services \in [File -> Nat]
  /\ registered \subseteq File
  /\ tagMaps \subseteq Translated

(* Until the services are destroyed, the libraries of the modules in the   *)
(* list, of the registered services and of the registered tag maps are     *)
(* open: loading files again and unloading by name pulls no code from      *)
(* under the host.                                                         *)
CodeStaysOpen ==
  phase \in {"configuring", "refused", "running"} =>
    \A f \in mapped \cup registered \cup tagMaps : opens[f] > 0

(* While the services run, every module in the list has a service, which   *)
(* the event handlers dereference without a look, and every registered     *)
(* service is one of a module in the list, so that it hears the events.    *)
ListIsStarted ==
  phase = "running" =>
    /\ \A f \in mapped : services[f] > 0
    /\ registered \subseteq mapped

(* However often a file is named, in the configuration or on the console,  *)
(* it is started once: no event is handled by two services of one file.    *)
StartedOnce == \A f \in File : services[f] <= 1
=============================================================================
