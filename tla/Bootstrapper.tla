---------------------------- MODULE Bootstrapper ----------------------------
(***************************************************************************)
(* reader_node_bootstraper.go: the reader prepares the data directory of   *)
(* its node before it starts it.  If the directory holds no file,          *)
(* GenesisBootstrapper.Bootstrap downloads genesis.json into it and runs   *)
(* "<node> --datadir=... init genesis.json"; an error ends the process,    *)
(* which is started again.  The process can be killed at any point, and    *)
(* what is in the directory stays.                                         *)
(*                                                                         *)
(* The node is not in this repository: started on a directory that was not *)
(* initialised, it initialises it for its default network; it makes its    *)
(* identity (the node key) the first time.                                 *)
(***************************************************************************)
EXTENDS Integers, Sequences, FiniteSetsExt

CONSTANTS
    ArgumentLists,  \* reader-node-arguments to try
    MaxStops,       \* bound on the times the process is killed
    MaxFaults,      \* bound on the failures of disk, network and commands
    MaxWipes        \* bound on the times the data directory is emptied

ASSUME BootstrapperAssumption ==
    /\ MaxStops \in Nat /\ MaxFaults \in Nat /\ MaxWipes \in Nat
    /\ \A args \in ArgumentLists :
           /\ args \in Seq(STRING)
           /\ \A i \in 1..Len(args) :
                  args[i] = "--datadir" => i < Len(args) /\ args[i+1] = "D"

VARIABLES
    arguments,   \* resolvedNodeArguments
    genesis,     \* genesis.json: "none", "partial" or "whole"
    database,    \* of the node: "none", "begun", "ours" or "default" (network)
    identity,    \* of the node: 0 before it has one
    process,     \* "down", "check", "download", "write", "init", "initialising",
                 \* "start" or "running"
    stops, faults,
    wipes,       \* history: times the directory was emptied
    interrupted, \* history: a bootstrap of this directory ended halfway
    unread       \* history: the directory could not be read when last checked

directoryVars == <<arguments, genesis, database, identity, wipes>>
bootVars == <<directoryVars, process, stops, faults, interrupted, unread>>

\* An empty directory, or one that a node already ran on.
Init ==
    /\ arguments \in ArgumentLists
    /\ genesis = "none" /\ process = "down"
    /\ \/ database = "none" /\ identity = 0
       \/ database = "ours" /\ identity = 1
    /\ stops = 0 /\ faults = 0 /\ wipes = 0 /\ interrupted = FALSE /\ unread = FALSE

Fault == faults < MaxFaults /\ faults' = faults + 1

-----------------------------------------------------------------------------
(***************************************************************************)
(* The arguments.  The node takes its directory from --datadir, in one     *)
(* argument or two; other flags of it begin with the same letters.         *)
(***************************************************************************)
LooksLikeDataDir == {"--datadir", "--datadir=D", "--datadir.ancient=A"}

\* The directory that "init" works in, by the first argument that begins with
\* --datadir: findDataDirArgument.
InitDirectoryMutant(args) ==
    LET found == {i \in 1..Len(args) : args[i] \in LooksLikeDataDir} IN
    IF found # {} /\ args[Min(found)] = "--datadir=D" THEN "D" ELSE "default"

InitDirectory(args) ==
    LET found == {i \in 1..Len(args) : args[i] \in LooksLikeDataDir}
        first == Min(found)
    IN  IF found = {} THEN "default"
        ELSE CASE args[first] = "--datadir=D" -> "D"
               [] args[first] = "--datadir" ->
                      IF first < Len(args) THEN args[first + 1] ELSE "invalid"
               [] args[first] = "--datadir.ancient=A" -> "default"

NodeDirectory(args) ==
    IF \E i \in 1..Len(args) :
           \/ args[i] = "--datadir=D"
           \/ i > 1 /\ args[i-1] = "--datadir" /\ args[i] = "D"
    THEN "D" ELSE "default"

\* The reader looks for files in {node-data-dir}, and every configuration here passes
\* --datadir={node-data-dir}: what the node leaves in its directory is found there.
ASSUME DataDirAssumption == \A args \in ArgumentLists : NodeDirectory(args) = "D"

InitFindsNode == InitDirectory(arguments) = NodeDirectory(arguments)

-----------------------------------------------------------------------------
(***************************************************************************)
(* Bootstrap.                                                              *)
(***************************************************************************)
Launch ==
    /\ process = "down" /\ process' = "check"
    /\ UNCHANGED <<directoryVars, stops, faults, interrupted, unread>>

\* "As soon as there is a file, we assume it's bootstrapped."
DatabaseIsEnoughMutant == database # "none"
IsBootstrapped == genesis # "none" \/ database # "none"

SkipBootstrap ==
    /\ process = "check" /\ IsBootstrapped
    /\ process' = "start" /\ unread' = FALSE
    /\ UNCHANGED <<directoryVars, stops, faults, interrupted>>

\* isBootstrapped also answers no when it cannot read the directory.
BeginBootstrap ==
    /\ process = "check"
    /\ \/ ~IsBootstrapped /\ unread' = FALSE /\ UNCHANGED faults
       \/ IsBootstrapped /\ unread' = TRUE /\ Fault
    /\ process' = IF genesis = "none" THEN "download" ELSE "init"
    /\ UNCHANGED <<directoryVars, stops, interrupted>>

\* Bootstrap returns an error; files may be left.
Abort ==
    /\ process' = "down"
    /\ interrupted' = (interrupted \/ genesis # "none")
    /\ UNCHANGED <<directoryVars, stops, unread>>

DownloadFails == process = "download" /\ Fault /\ Abort

\* The whole file was read into memory; os.WriteFile creates it empty first.
CreateGenesisFile ==
    /\ process = "download" /\ process' = "write"
    /\ genesis' = "partial"
    /\ UNCHANGED <<arguments, database, identity, wipes, stops, faults, interrupted, unread>>

WriteGenesisFile ==
    /\ process = "write" /\ process' = "init"
    /\ genesis' = "whole"
    /\ UNCHANGED <<arguments, database, identity, wipes, stops, faults, interrupted, unread>>

WriteFails == process = "write" /\ Fault /\ Abort

\* The node's init command reads the file, then writes its database.
BeginInit ==
    /\ process = "init" /\ genesis = "whole" /\ database # "default"
    /\ process' = "initialising"
    /\ database' = IF InitFindsNode /\ database = "none" THEN "begun" ELSE database
    /\ UNCHANGED <<arguments, genesis, identity, wipes, stops, faults, interrupted, unread>>

EndInit ==
    /\ process = "initialising" /\ process' = "start"
    /\ database' = IF InitFindsNode THEN "ours" ELSE database
    /\ UNCHANGED <<arguments, genesis, identity, wipes, stops, faults, interrupted, unread>>

InitFails ==
    /\ \/ process = "init" /\ (genesis = "partial" \/ database = "default")
          /\ UNCHANGED faults
       \/ process \in {"init", "initialising"} /\ Fault
    /\ Abort

StartNode ==
    /\ process = "start" /\ process' = "running"
    /\ database' = IF database \in {"none", "begun"} THEN "default" ELSE database
    /\ identity' = IF identity = 0 THEN wipes + 1 ELSE identity
    /\ UNCHANGED <<arguments, genesis, wipes, stops, faults, interrupted, unread>>

Bootstrap ==
    \/ Launch \/ SkipBootstrap \/ BeginBootstrap
    \/ DownloadFails \/ CreateGenesisFile \/ WriteGenesisFile \/ WriteFails
    \/ BeginInit \/ EndInit \/ InitFails \/ StartNode

\* The reader and its node go away, at any point.
Kill ==
    /\ process # "down" /\ stops < MaxStops
    /\ process' = "down" /\ stops' = stops + 1
    /\ interrupted' = (interrupted \/ process \in {"write", "init", "initialising"})
    /\ UNCHANGED <<directoryVars, faults, unread>>

\* An operator starts over.
Wipe ==
    /\ process = "down" /\ wipes < MaxWipes
    /\ genesis' = "none" /\ database' = "none" /\ identity' = 0
    /\ wipes' = wipes + 1 /\ interrupted' = FALSE
    /\ UNCHANGED <<arguments, process, stops, faults, unread>>

BootNext == Bootstrap \/ Kill \/ Wipe

\* Something else in the pod fails.
OtherFault == Fault /\ UNCHANGED <<directoryVars, process, stops, interrupted, unread>>

BootSpec == Init /\ [][BootNext \/ OtherFault]_bootVars

-----------------------------------------------------------------------------
BootTypeOK ==
    /\ arguments \in ArgumentLists
    /\ genesis \in {"none", "partial", "whole"}
    /\ database \in {"none", "begun", "ours", "default"}
    /\ identity \in 0..(MaxWipes + 1)
    /\ process \in {"down", "check", "download", "write", "init", "initialising",
                    "start", "running"}
    /\ stops \in 0..MaxStops /\ faults \in 0..MaxFaults /\ wipes \in 0..MaxWipes
    /\ interrupted \in BOOLEAN /\ unread \in BOOLEAN

\* A flag that only begins with --datadir comes first.
AncientFirst(args) ==
    \E i \in 1..Len(args) :
        /\ args[i] = "--datadir.ancient=A"
        /\ \A j \in 1..(i - 1) : args[j] \notin LooksLikeDataDir

\* The node runs on the chain of the genesis file.  It does not when a bootstrap of
\* this directory ended between the creation of genesis.json and the end of "init"
\* (the next one takes the file for a bootstrapped directory), nor when a flag that
\* only begins with --datadir comes first.
NodeRunsOnItsGenesis ==
    (process = "running" /\ database # "ours") => interrupted \/ AncientFirst(arguments)

\* "init" is never run on a directory that a node has used, unless the directory
\* could not be read when it was checked.
InitOnFreshDirectory ==
    process = "initialising" => identity = 0 \/ unread
=============================================================================
