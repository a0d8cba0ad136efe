------------------------------ MODULE Replayor ------------------------------
(***************************************************************************)
(* The whole process (cmd/replayor/main.go): it loads its configuration,   *)
(* dials the source, the destination's execution port and its engine port  *)
(* (packages/clients), opens the storage (packages/stats), and then hands  *)
(* over to the service of Service.tla. The destination may be starting at  *)
(* the same time, its two ports opening in either order or never.          *)
(*                                                                         *)
(* The command line library, the lifecycle library around main's steps and *)
(* the clients' libraries are external. An error out of a step ends the    *)
(* process.                                                                *)
(***************************************************************************)
EXTENDS Service, Config

CONSTANTS
  FlagSets,       \* the option values that are considered
  DialAttempts,   \* attempts to dial each port (120 in the code)
  SetUpFaults     \* "source": it cannot be dialled; "mkdir": no directory;
                  \* "hostname": the host's name cannot be read

ASSUME ReplayorAssumption ==
  /\ {ReplayorConfig(flags) : flags \in FlagSets} \subseteq Configs
  /\ DialAttempts \in Nat \ {0}
  /\ SetUpFaults \subseteq {"source", "mkdir", "hostname"}

VARIABLES
  flags,          \* the options, the same for every process
  main,           \* where main is: the step it is about to make
  dials           \* failed attempts to dial the port at hand

mainVars == <<flags, main, dials>>
allVars == <<vars, mainVars>>

MainInit ==
  /\ Init
  /\ flags \in FlagSets
  /\ cfg = ReplayorConfig(flags)
  /\ main = "config"
  /\ dials = 0

-----------------------------------------------------------------------------
(* The steps before Start.                                                  *)

Preparing(step) == ~crashed /\ main = step

Proceed(step) ==
  /\ main' = step
  /\ dials' = 0
  /\ UNCHANGED <<vars, flags>>

LoadConfig ==
  /\ Preparing("config")
  /\ Valid(flags)
  /\ Proceed("source")

ConfigInvalid ==
  /\ Preparing("config")
  /\ ~Valid(flags) \/ (NeedsHostname(flags) /\ "hostname" \in SetUpFaults)
  /\ SetUpFails
  /\ UNCHANGED mainVars

DialSource == Preparing("source") /\ Proceed("execution")

SourceFails ==
  /\ Preparing("source")
  /\ "source" \in SetUpFaults
  /\ SetUpFails
  /\ UNCHANGED mainVars

\* A bug: the engine's port is not waited for either.
DialledUnchecked(port) == TRUE

\* Dialling an http URL makes no connection, dialling a ws URL does; the
\* engine's client looks whether its URL can be reached in any case.
Dialled(port) ==
  \/ port \in up
  \/ port = "execution" /\ flags.executionUrl = "http"

Dial(port, next) ==
  /\ Preparing(port)
  /\ ~appDone
  /\ Dialled(port)
  /\ Proceed(next)

\* A bug: dialling goes on until it succeeds.
DialFailsUncounted(port) ==
  /\ Preparing(port)
  /\ ~appDone
  /\ ~Dialled(port)
  /\ UNCHANGED allVars

\* A failed attempt is followed by another, a second later, up to the last.
DialFails(port) ==
  /\ Preparing(port)
  /\ ~appDone
  /\ ~Dialled(port)
  /\ dials' = dials + 1
  /\ IF dials' = DialAttempts THEN SetUpFails ELSE UNCHANGED vars
  /\ UNCHANGED <<flags, main>>

\* No attempt is made on a done context.
DialCancelled(port) ==
  /\ Preparing(port)
  /\ appDone
  /\ SetUpFails
  /\ UNCHANGED mainVars

StorageKnown == flags.storageType \in {"s3", "disk"}

\* Neither storage is tried out: S3 is not even connected to.
OpenStorage ==
  /\ Preparing("storage")
  /\ StorageKnown
  /\ Proceed("started")

StorageFails ==
  /\ Preparing("storage")
  /\ ~StorageKnown \/ (flags.storageType = "disk" /\ "mkdir" \in SetUpFaults)
  /\ SetUpFails
  /\ UNCHANGED mainVars

SetUp ==
  \/ LoadConfig \/ ConfigInvalid \/ DialSource \/ SourceFails
  \/ Dial("execution", "engine") \/ Dial("engine", "storage")
  \/ \E port \in Ports : DialFails(port) \/ DialCancelled(port)
  \/ OpenStorage \/ StorageFails

-----------------------------------------------------------------------------
(* Start, once it has been called, and the world around the process.        *)

Started == main = "started" /\ UNCHANGED mainVars

ServiceStep == Started /\ StartStep
Leftover == Started /\ (AbandonedLands \/ LeftoverCrashes)
World == (Stop \/ Interrupt \/ PortOpens \/ NodeSynced) /\ UNCHANGED mainVars

RestartProcess ==
  /\ Restart
  /\ main' = "config"
  /\ dials' = 0
  /\ UNCHANGED flags

MainTerminated == Terminated /\ UNCHANGED mainVars

MainNext == \/ SetUp \/ ServiceStep \/ Leftover \/ World
            \/ RestartProcess \/ MainTerminated

\* main waits for an answer that no timeout bounds. Dialling connects to a ws
\* URL; Start reads the destination's latest block; a run reads from both nodes.
\* Only the engine's client bounds its calls (ten minutes), and a context that
\* is done ends every call main waits for.
MayWait ==
  /\ ~crashed
  /\ CASE main = "source" -> TRUE
       [] main = "execution" -> flags.executionUrl = "ws" /\ "execution" \in up
       [] main = "engine" -> "engine" \in up
       [] main = "started" ->
            \/ service \in {"load", "reload"} /\ ~appDone /\ "execution" \in up
            \/ Running /\ ~BenchmarkDone
       [] OTHER -> FALSE

\* main is one goroutine that makes its next step unless it waits for an answer.
\* Nothing is assumed of the nodes: the ports may stay closed, the sync may never
\* end, and a call may never be answered.
MainFairness == WF_allVars((SetUp \/ ServiceStep) /\ ~MayWait)

MainSpec == MainInit /\ [][MainNext]_allVars /\ MainFairness

-----------------------------------------------------------------------------
(* Properties                                                               *)

\* The state's shape, and that of the service.
MainTypeOK ==
  /\ TypeOK
  /\ flags \in FlagSets
  /\ main \in {"config", "source", "execution", "engine", "storage", "started"}
  /\ dials \in 0 .. DialAttempts

\* Once the set-up has taken its time over a destination that is starting, the
\* ports that the two dials can tell to be closed are open when Start is called.
StartsOnReachableNode ==
  main = "started" =>
    "engine" \in up /\ (flags.executionUrl = "ws" => "execution" \in up)

\* The process ends one way or another: a destination that never comes up or
\* never syncs, a source that runs out, an interrupt or a Stop at whatever moment,
\* none leaves it waiting. Only a node that does not answer a call can, if nobody
\* interrupts the process.
ProcessEnds == (main = "config" ~> (Ended \/ crashed)) \/ <>[]MayWait

\* The name of the strategy is looked up only after the walk-up. A name that
\* nothing has costs that walk-up and no more, however often the process is
\* started again and whatever an earlier run left behind, and the blocks it costs
\* are the source's own.
UnknownStrategyOnlyWalksUp ==
  [][head' # head /\ flags.strategy = "other" =>
       head' <= flags.benchmarkStartBlock /\ faithfulTo' = head']_allVars

\* The set-up waits for a destination that starts at the same time.
StartsOnLiveDestination == main = "started" => up = Ports
=============================================================================
