------------------------------ MODULE Process ------------------------------
(***************************************************************************)
(* The process (cmd/echo-mcp/main.go): startup from the environment, the   *)
(* two planes in goroutines that report to one channel, and the exit with  *)
(* the first report.  Contracts are loaded at startup and later through    *)
(* the tool by the same LoadOpenAPIContract, which resolves the path,      *)
(* reads the file and activates the contract in turn, while the developer  *)
(* edits the file system.                                                  *)
(*                                                                         *)
(* Loads that the tool refuses before they come to the path (their mode, a *)
(* stored behavior), and loads that race, are ControlPlane's.              *)
(***************************************************************************)
EXTENDS ContractPath, FiniteSets

CONSTANTS
  Environments,  \* what the process may be started with
  Trees,         \* the states of the file system
  Paths,         \* the paths given to load_openapi_contract
  MaxRequests    \* bound: REST requests in flight

ASSUME ProcessAssumption == MaxRequests \in Nat

VARIABLES
  tree,       \* the file system
  env,        \* the environment of the process
  phase,      \* of main
  root,       \* the contract root
  load,       \* the load in progress
  active,     \* the active contract: where it was read, how it is shown
  planes,     \* whether each plane runs
  errs,       \* the channel of their reports
  signalled,  \* whether an interrupt or SIGTERM cancelled the context
  stdin,      \* the client's end of the control plane
  requests,   \* REST requests in flight
  exit        \* the exit status

vars ==
  <<tree, env, phase, root, load, active, planes, errs, signalled, stdin,
    requests, exit>>

control == <<planes, errs, signalled, stdin, requests>>

\* An unset or empty ECHO_MCP_OPENAPI_FILE; a blank one is a path.
Unset == [absolute |-> FALSE, names |-> NoPath]

ASSUME FilesAssumption ==
  /\ \A files \in Trees : IsTree(files)
  /\ Paths \subseteq PathInputs
  /\ \A e \in Environments : e.openAPIFile \in PathInputs \cup {Unset}

NoContract == [file |-> NoPath, sourcePath |-> NoPath]

\* seen is history: the tree the path was resolved in, and read in if it was.
NoLoad ==
  [step |-> "idle", path |-> Unset, code |-> "", readPath |-> NoPath,
   sourcePath |-> NoPath, seen |-> <<>>]

Running == exit = "running"
Serving == Running /\ phase = "serving"

Init ==
  /\ tree \in Trees
  /\ env \in Environments
  /\ phase = "root"
  /\ root = NoPath
  /\ load = NoLoad
  /\ active = NoContract
  /\ planes = [data |-> FALSE, control |-> FALSE]
  /\ errs = <<>>
  /\ signalled = FALSE
  /\ stdin = "open"
  /\ requests = 0
  /\ exit = "running"

-----------------------------------------------------------------------------
(***************************************************************************)
(* LoadOpenAPIContract from the path on: it is resolved, then read.        *)
(***************************************************************************)
ResolvePath(path) ==
  \E resolved \in {Resolve(tree, root, path)} :
    load' = [step |-> IF resolved.code = "resolved" THEN "reading" ELSE "ended",
             path |-> path, code |-> resolved.code,
             readPath |-> resolved.readPath,
             sourcePath |-> resolved.sourcePath, seen |-> tree]

ReadContract ==
  /\ Running
  /\ load.step = "reading"
  /\ load' = [load EXCEPT !.step = "ended", !.code = LoadFrom(tree, load.readPath),
                          !.seen = IF @ = tree THEN @ ELSE <<>>]
  /\ active' = IF load'.code = "loaded"
                 THEN [file |-> EvalSymlinks(tree, load.readPath),
                       sourcePath |-> load.sourcePath]
                 ELSE active
  /\ UNCHANGED <<tree, env, phase, root, control, exit>>

-----------------------------------------------------------------------------
(***************************************************************************)
(* main up to the planes: each step is fatal if it fails.                  *)
(***************************************************************************)
SetContractRoot ==
  /\ Running
  /\ phase = "root"
  /\ root' = NewContractRoot(tree, env.workingDirectory, env.contractRoot)
  /\ exit' = IF root' = NoPath THEN "1" ELSE exit
  /\ phase' = IF env.openAPIFile = Unset THEN "endpoint" ELSE "contract"
  /\ UNCHANGED <<tree, env, load, active, control>>

LoadContract ==
  /\ Running
  /\ phase = "contract"
  /\ load = NoLoad
  /\ ResolvePath(env.openAPIFile)
  /\ UNCHANGED <<tree, env, phase, root, active, control, exit>>

\* Mutant of TakeContract: a contract that cannot be loaded is done without.
TakeContractIfAny ==
  /\ Running
  /\ phase = "contract"
  /\ load.step = "ended"
  /\ phase' = "endpoint"
  /\ load' = NoLoad
  /\ UNCHANGED <<tree, env, root, active, control, exit>>

TakeContract ==
  /\ Running
  /\ phase = "contract"
  /\ load.step = "ended"
  /\ exit' = IF load.code = "loaded" THEN exit ELSE "1"
  /\ phase' = "endpoint"
  /\ load' = NoLoad
  /\ UNCHANGED <<tree, env, root, active, control>>

\* LoadEndpointFromEnvironment (WebhookSender).
StartPlanes ==
  /\ Running
  /\ phase = "endpoint"
  /\ IF env.endpointIsValid
       THEN /\ phase' = "serving"
            /\ planes' = [data |-> TRUE, control |-> TRUE]
            /\ UNCHANGED exit
       ELSE /\ exit' = "1"
            /\ UNCHANGED <<phase, planes>>
  /\ UNCHANGED <<tree, env, root, load, active, errs, signalled, stdin, requests>>

Startup == SetContractRoot \/ LoadContract \/ TakeContract \/ StartPlanes

-----------------------------------------------------------------------------
(***************************************************************************)
(* The data plane: requests take as long as their clients do; nothing asks *)
(* the server to shut down, so it only ever ends with an error.            *)
(***************************************************************************)
AcceptRequest ==
  /\ Serving
  /\ planes.data
  /\ requests < MaxRequests
  /\ requests' = requests + 1
  /\ UNCHANGED <<tree, env, phase, root, load, active, planes, errs, signalled,
                 stdin, exit>>

AnswerRequest ==
  /\ Serving
  /\ requests > 0
  /\ requests' = requests - 1
  /\ UNCHANGED <<tree, env, phase, root, load, active, planes, errs, signalled,
                 stdin, exit>>

\* Mutant of StopDataPlane: the error is reported and the server tried again.
RetryDataPlane ==
  /\ Serving
  /\ planes.data
  /\ Len(errs) <= 2
  /\ errs' = Append(errs, "error")
  /\ UNCHANGED <<tree, env, phase, root, load, active, planes, signalled, stdin,
                 requests, exit>>

\* The address is taken, or the listener breaks.
StopDataPlane ==
  /\ Serving
  /\ planes.data
  /\ planes' = [planes EXCEPT !.data = FALSE]
  /\ errs' = Append(errs, "error")
  /\ UNCHANGED <<tree, env, phase, root, load, active, signalled, stdin,
                 requests, exit>>

-----------------------------------------------------------------------------
(***************************************************************************)
(* The control plane.  Run returns nil when the client closed its end, and *)
(* an error if reading from it broke or the context was cancelled; from    *)
(* then on it takes no more calls.  Whether it waits for a call in flight  *)
(* is the SDK's affair: here it may and it may not.                        *)
(***************************************************************************)
CallLoad ==
  /\ Serving
  /\ planes.control /\ ~ signalled /\ stdin = "open"
  /\ load = NoLoad
  /\ \E path \in Paths : ResolvePath(path)
  /\ UNCHANGED <<tree, env, phase, root, active, control, exit>>

AnswerLoad ==
  /\ Serving
  /\ load.step = "ended"
  /\ load' = NoLoad
  /\ UNCHANGED <<tree, env, phase, root, active, control, exit>>

Unload ==
  /\ Serving
  /\ planes.control /\ ~ signalled /\ stdin = "open"
  /\ active' = NoContract
  /\ UNCHANGED <<tree, env, phase, root, load, control, exit>>

\* Mutant of StopControlPlane: a cancelled context counts as a clean end.
StopControlPlaneCleanly ==
  /\ Serving
  /\ planes.control
  /\ signalled \/ stdin # "open"
  /\ planes' = [planes EXCEPT !.control = FALSE]
  /\ errs' = Append(errs, IF stdin = "broken" THEN "error" ELSE "nil")
  /\ UNCHANGED <<tree, env, phase, root, load, active, signalled, stdin,
                 requests, exit>>

StopControlPlane ==
  /\ Serving
  /\ planes.control
  /\ planes' = [planes EXCEPT !.control = FALSE]
  /\ \/ /\ signalled \/ stdin = "broken"
        /\ errs' = Append(errs, "error")
     \/ /\ stdin = "closed"
        /\ errs' = Append(errs, "nil")
  /\ UNCHANGED <<tree, env, phase, root, load, active, signalled, stdin,
                 requests, exit>>

-----------------------------------------------------------------------------
\* Mutant of Exit: the requests in flight are waited for.
ExitWhenQuiet ==
  /\ Serving
  /\ errs # <<>>
  /\ requests = 0
  /\ exit' = IF Head(errs) = "error" THEN "1" ELSE "0"
  /\ UNCHANGED <<tree, env, phase, root, load, active, control>>

\* main receives one report and returns: all else is cut off.
Exit ==
  /\ Serving
  /\ errs # <<>>
  /\ exit' = IF Head(errs) = "error" THEN "1" ELSE "0"
  /\ UNCHANGED <<tree, env, phase, root, load, active, control>>

(***************************************************************************)
(* What goes on around the process.                                        *)
(***************************************************************************)
EditFiles ==
  /\ Running
  /\ tree' \in Trees
  /\ UNCHANGED <<env, phase, root, load, active, control, exit>>

\* Until NotifyContext is called, when the planes start, a signal kills.
Signal ==
  /\ Running
  /\ IF phase = "serving" THEN signalled' = TRUE /\ UNCHANGED exit
                          ELSE exit' = "killed" /\ UNCHANGED signalled
  /\ UNCHANGED <<tree, env, phase, root, load, active, planes, errs, stdin, requests>>

LoseClient ==
  /\ Running
  /\ stdin = "open"
  /\ stdin' \in {"closed", "broken"}
  /\ UNCHANGED <<tree, env, phase, root, load, active, planes, errs, signalled,
                 requests, exit>>

Next ==
  \/ ReadContract
  \/ Startup
  \/ AcceptRequest
  \/ AnswerRequest
  \/ StopDataPlane
  \/ CallLoad
  \/ AnswerLoad
  \/ Unload
  \/ StopControlPlane
  \/ Exit
  \/ EditFiles
  \/ Signal
  \/ LoseClient

\* The goroutines run on: main's, that of a call, and Run's, which is sure
\* to return only when there is no call left for it to wait for.
Main == Startup \/ Exit
Call == ReadContract \/ AnswerLoad

Fairness ==
  /\ WF_vars(Main)
  /\ WF_vars(Call)
  /\ WF_vars(StopControlPlane /\ load = NoLoad)

Spec == Init /\ [][Next]_vars /\ Fairness

-----------------------------------------------------------------------------
(***************************************************************************)
(* Types of the process; both planes can leave their report without a      *)
(* receiver.                                                               *)
(***************************************************************************)
TypeOK ==
  /\ tree \in Trees /\ env \in Environments
  /\ phase \in {"root", "contract", "endpoint", "serving"}
  /\ load.step \in {"idle", "reading", "ended"}
  /\ planes \in [data : BOOLEAN, control : BOOLEAN]
  /\ errs \in Seq({"error", "nil"}) /\ Len(errs) <= 2
  /\ signalled \in BOOLEAN
  /\ stdin \in {"open", "closed", "broken"}
  /\ requests \in 0 .. MaxRequests
  /\ exit \in {"running", "0", "1", "killed"}

(***************************************************************************)
(* The file a path opens, on its own or from the root, by the system's     *)
(* rules; and whether a path leads into the root as far as it exists.  The *)
(* two ways to take ".." differ: Clean drops the name before it, the       *)
(* system goes up from where the name led.                                 *)
(***************************************************************************)
Opened(path) ==
  Walk(tree, IF path.absolute THEN <<>> ELSE root, path.names, MaxLinks)

LeadsInside(path) ==
  LET parent == Opened([path EXCEPT !.names = Front(@)])
  IN  \/ Opened(path) # NoPath /\ IsPrefix(root, Opened(path))
      \/ /\ IsDirectory(tree, parent) /\ IsPrefix(root, parent)
         /\ Append(parent, Last(path.names)) \notin DOMAIN tree

Plain(path) == path.names # <<>> /\ ".." \notin ToSet(path.names)

\* No part of the path fails only for the number of its links.  (Such a part
\* counts as missing, and is read from its parent on with links to spare.)
LinksSuffice(path) ==
  LET candidate == Candidate(root, path)
  IN  \A n \in 0 .. Len(candidate) :
        LET part == SubSeq(candidate, 1, n)
        IN  Walk(tree, <<>>, part, 2 * MaxLinks) # NoPath =>
              EvalSymlinks(tree, part) # NoPath

(***************************************************************************)
(* If the files do not change while a contract is loaded, it lies under    *)
(* the root, "the only filesystem tree from which Echo MCP may load        *)
(* OpenAPI contracts" (docs/reference/configuration.md:49), whatever links *)
(* lead to it, and is the file that the path opens.  (A "." at the end     *)
(* asks the system for a directory; Clean drops it.)                       *)
(***************************************************************************)
JustLoaded ==
  /\ load.step = "ended" /\ load.code = "loaded" /\ load.seen = tree
  /\ active # NoContract
  /\ LinksSuffice(load.path)

ContractIsTheFileNamed ==
  JustLoaded =>
    /\ IsPrefix(root, active.file)
    /\ (Plain(load.path) /\ Last(load.path.names) # ".") =>
         active.file = Opened(load.path)

(***************************************************************************)
(* The source path that get_contract_status shows, relative to the root    *)
(* however the file was named, is one that loads the same file again, as   *)
(* long as the root is the directory it was.                               *)
(***************************************************************************)
SourcePathLeadsBack ==
  JustLoaded /\ IsDirectory(tree, root) =>
    LET again == Resolve(tree, root, Relative(active.sourcePath))
    IN  again.code = "resolved" /\ again.readPath = active.file

(***************************************************************************)
(* A path is refused as outside the root only if it leads there: a file    *)
(* under the root that is missing is reported as unreadable, even where    *)
(* the path comes to the root through links.                               *)
(***************************************************************************)
RefusedIsOutside ==
  (load.step = "ended" /\ load.code = "contract_path_not_allowed"
     /\ load.seen = tree /\ Plain(load.path)) =>
    ~ LeadsInside(load.path)

(***************************************************************************)
(* The planes start with the contract that the environment names, or with  *)
(* none if it names none: a startup that fails halfway never serves.       *)
(***************************************************************************)
StartsAsConfigured ==
  [][phase # "serving" /\ phase' = "serving" =>
       /\ root # NoPath
       /\ (active = NoContract) <=> (env.openAPIFile = Unset)
       /\ env.endpointIsValid]_vars

(***************************************************************************)
(* The exit status is 0 only if the client closed its end, and after       *)
(* startup 1 only if a plane failed or a signal came, whichever of several *)
(* causes was first.                                                       *)
(***************************************************************************)
ExitTellsCause ==
  /\ exit = "0" => stdin = "closed" /\ phase = "serving"
  /\ exit = "1" /\ phase = "serving" =>
       signalled \/ stdin = "broken" \/ ~ planes.data

(***************************************************************************)
(* A signal, a plane that ends or a client that goes away ends the         *)
(* process, whatever clients of the data plane are waiting for.            *)
(***************************************************************************)
ProcessEnds == (signalled \/ errs # <<>> \/ stdin # "open") ~> ~ Running

=============================================================================
