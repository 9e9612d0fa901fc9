------------------------------- MODULE Startup -------------------------------
(***************************************************************************)
(* How the VM comes up and goes down.  The startup manager of the glue     *)
(* (StartupManagerImpl.cpp) is asked by OMR for the options, for what each *)
(* of them means that OMR does not know, for the collector language        *)
(* interface, for a configuration and for a verbose manager.  The          *)
(* configuration asks its delegate (ConfigurationDelegate.hpp) on the way. *)
(* Whatever fails, OMR shuts down what was made, the last first.           *)
(***************************************************************************)
EXTENDS Naturals, Sequences

CONSTANTS
    InterfaceMayFail,   \* may the initialize of a language's interface fail?
    Builds,   \* the sets of flags that a build can define
    Given     \* what OMR_GC_OPTIONS can hold: sequences of options

SEGREGATED_HEAP == "OMR_GC_SEGREGATED_HEAP"
SCAVENGER       == "OMR_GC_MODRON_SCAVENGER"
CONCURRENT_MARK == "OMR_GC_MODRON_CONCURRENT_MARK"

\* An option is the sequence of its parts; the prefix that handleOption
\* compares (strncmp) is two of them.
OMR_SEGREGATEDHEAP == <<"-Xgcpolicy:", "segregated">>
GENCON             == <<"-Xgcpolicy:", "gencon">>
VERBOSEGCLOG       == <<"-Xverbosegclog">>
COMPACTGC          == <<"-Xcompactgc">>

ASSUME StartupAssumption ==
    /\ InterfaceMayFail \in BOOLEAN
    /\ \A flags \in Builds : flags \subseteq STRING
    /\ \A options \in Given : options \in Seq(Seq(STRING))

VARIABLES
    build,             \* the flags defined in this build
    given,             \* the options
    handled,           \* how many of them have been handled
    extensions,        \* what OMR's own options have set in the extensions
    useSegregatedGC,   \* _useSegregatedGC
    gcPolicy,          \* _gcPolicy of the delegate, once there is one
    forge,             \* memory of the forge that the glue has allocated
    parts,             \* what has been made and not been shut down
    stage

startup == <<build, given, handled, extensions, useSegregatedGC, gcPolicy,
             forge, parts, stage>>

NoPolicy == "none"

\* MM_StartupManagerImpl::MM_StartupManagerImpl
StartupInit ==
    /\ build \in Builds /\ given \in Given
    /\ handled = 0 /\ extensions = {} /\ useSegregatedGC = FALSE
    /\ gcPolicy = NoPolicy /\ forge = {} /\ parts = {}
    /\ stage = "models"

-----------------------------------------------------------------------------
(* What the glue answers.                                                  *)

\* initialize of the object models.
ObjectModelInitialized       == TRUE
MixedObjectModelInitialized  == TRUE
ArrayletModelInitialized     == TRUE

\* initialize of the collector language interface, for a language to fill in: as
\* it stands here it does not fail.
InterfaceInitialized == IF InterfaceMayFail THEN BOOLEAN ELSE {TRUE}

\* The configuration delegate.
DelegateInitialized      == TRUE
HeapInitialized          == TRUE
RegionExtended           == TRUE
HeapRangeAdded           == TRUE
SegregatedSizeClasses    == {}      \* NULL, in every build

\* initialize of the delegates that a collector of the configuration has.
GlobalDelegateInitialized     == TRUE
ConcurrentDelegateInitialized == TRUE

-----------------------------------------------------------------------------
(* The options.                                                            *)

\* MM_StartupManager::handleOption
KnownToOMR(option) ==
    \/ option \in {VERBOSEGCLOG, COMPACTGC}
    \/ option = GENCON /\ SCAVENGER \in build

IsSegregatedPolicy(option) ==
    Len(option) >= 2 /\ <<option[1], option[2]>> = OMR_SEGREGATEDHEAP

\* handleOption, for the next option.  One that nobody knows ends startup.
HandleOption ==
    /\ stage = "options" /\ handled < Len(given)
    /\ handled' = handled + 1
    /\ LET option == given[handled + 1] IN
         \/ /\ KnownToOMR(option)
            /\ extensions' = extensions \cup {option}
            /\ UNCHANGED <<useSegregatedGC, stage>>
         \/ /\ ~KnownToOMR(option)
            /\ SEGREGATED_HEAP \in build /\ IsSegregatedPolicy(option)
            /\ useSegregatedGC' = TRUE
            /\ UNCHANGED <<extensions, stage>>
         \/ /\ ~KnownToOMR(option)
            /\ ~(SEGREGATED_HEAP \in build /\ IsSegregatedPolicy(option))
            /\ stage' = "shutdown"
            /\ UNCHANGED <<extensions, useSegregatedGC>>
    /\ UNCHANGED <<build, given, gcPolicy, forge, parts>>

-----------------------------------------------------------------------------
(* Coming up.                                                              *)

\* The next stage if this one succeeded.
GoOn(ok, next) == stage' = IF ok THEN next ELSE "shutdown"

InitializeModels ==
    /\ stage = "models"
    /\ GoOn(ObjectModelInitialized /\ MixedObjectModelInitialized
                /\ ArrayletModelInitialized, "options")
    /\ UNCHANGED <<build, given, handled, extensions, useSegregatedGC, gcPolicy,
                   forge, parts>>

\* Mutant: the interface is torn down and not freed.
KillWithoutFree(allocated) == allocated

\* MM_CollectorLanguageInterfaceImpl::kill: what the forge has left of it.
Kill(allocated) == allocated \ {"interface"}

\* MM_CollectorLanguageInterfaceImpl::newInstance.  An interface that cannot be
\* initialized is killed.
CreateInterface ==
    /\ stage = "options" /\ handled = Len(given)
    /\ \/ /\ stage' = "shutdown"        \* no memory
          /\ UNCHANGED <<forge, parts>>
       \/ \E ok \in InterfaceInitialized :
            LET allocated == forge \cup {"interface"} IN
            /\ forge' = IF ok THEN allocated ELSE Kill(allocated)
            /\ parts' = IF ok THEN parts \cup {"interface"} ELSE parts
            /\ GoOn(ok, "configuration")
    /\ UNCHANGED <<build, given, handled, extensions, useSegregatedGC, gcPolicy>>

\* Mutant: the scavenger is asked about first.
ScavengerFirst ==
    CASE SCAVENGER \in build /\ GENCON \in extensions      -> "generational"
      [] SEGREGATED_HEAP \in build /\ useSegregatedGC      -> "segregated"
      [] OTHER                                             -> "flat"

\* createConfiguration
Configuration ==
    IF SEGREGATED_HEAP \in build /\ useSegregatedGC        THEN "segregated"
    ELSE IF SCAVENGER \in build /\ GENCON \in extensions   THEN "generational"
    ELSE "flat"

\* The configuration initializes itself with the help of its delegate; one
\* for a segregated heap needs size classes to part the heap with.
Configured(policy) ==
    /\ DelegateInitialized /\ HeapInitialized /\ RegionExtended /\ HeapRangeAdded
    /\ GlobalDelegateInitialized
    /\ CONCURRENT_MARK \in build => ConcurrentDelegateInitialized
    /\ policy = "segregated" => SegregatedSizeClasses # {}

CreateConfiguration ==
    /\ stage = "configuration"
    /\ \E allocated \in BOOLEAN :
         LET made == allocated /\ Configured(Configuration) IN
         /\ gcPolicy' = IF made THEN Configuration ELSE gcPolicy
         /\ parts' = IF made THEN parts \cup {"configuration"} ELSE parts
         /\ GoOn(made, "verbose")
    /\ UNCHANGED <<build, given, handled, extensions, useSegregatedGC, forge>>

\* createVerboseManager, where a log was asked for.
CreateVerboseManager ==
    /\ stage = "verbose"
    /\ \/ /\ VERBOSEGCLOG \notin extensions
          /\ stage' = "up"
          /\ UNCHANGED <<forge, parts>>
       \/ /\ VERBOSEGCLOG \in extensions
          /\ \E made \in BOOLEAN :
               /\ forge' = IF made THEN forge \cup {"verbose"} ELSE forge
               /\ parts' = IF made THEN parts \cup {"verbose"} ELSE parts
               /\ GoOn(made, "up")
    /\ UNCHANGED <<build, given, handled, extensions, useSegregatedGC, gcPolicy>>

-----------------------------------------------------------------------------
(* Going down.                                                             *)

\* The program has ended.
Leave ==
    /\ stage = "up" /\ stage' = "shutdown"
    /\ UNCHANGED <<build, given, handled, extensions, useSegregatedGC, gcPolicy,
                   forge, parts>>

\* The part made last is shut down first; those of OMR free what is theirs.
ShutDown ==
    /\ stage = "shutdown"
    /\ \/ /\ "verbose" \in parts
          /\ parts' = parts \ {"verbose"} /\ forge' = forge \ {"verbose"}
          /\ UNCHANGED <<gcPolicy, stage>>
       \/ /\ "verbose" \notin parts /\ "configuration" \in parts
          /\ parts' = parts \ {"configuration"} /\ gcPolicy' = NoPolicy
          /\ UNCHANGED <<forge, stage>>
       \/ /\ parts = {"interface"}
          /\ parts' = {} /\ forge' = Kill(forge)
          /\ UNCHANGED <<gcPolicy, stage>>
       \/ /\ parts = {}
          /\ stage' = "down"
          /\ UNCHANGED <<forge, parts, gcPolicy>>
    /\ UNCHANGED <<build, given, handled, extensions, useSegregatedGC>>

StartUp ==
    \/ InitializeModels
    \/ HandleOption
    \/ CreateInterface
    \/ CreateConfiguration
    \/ CreateVerboseManager

StartupNext == StartUp \/ Leave \/ ShutDown

StartupSpec == StartupInit /\ [][StartupNext]_startup

-----------------------------------------------------------------------------
(* Properties                                                              *)

SegregatedAsked == \E i \in DOMAIN given : IsSegregatedPolicy(given[i])
GenconAsked     == \E i \in DOMAIN given : given[i] = GENCON

\* A VM that is up has the collector that its options ask for, in whatever
\* order they are given, and that its build has: an option that cannot be
\* honoured stops it from coming up, and it never runs with another one.
\* Where two are asked for it is the segregated heap that was.
AskedForCollector ==
    stage = "up" =>
        gcPolicy = IF SegregatedAsked THEN "segregated"
                   ELSE IF GenconAsked THEN "generational" ELSE "flat"
=============================================================================
