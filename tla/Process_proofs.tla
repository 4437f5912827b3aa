--------------------------- MODULE Process_proofs ---------------------------
(***************************************************************************)
(* Proofs about Process, for any environments, file systems and paths: its *)
(* types, that it never serves after a startup that failed, that the exit  *)
(* status tells why it ended, and that a contract is loaded from the file  *)
(* under the root that its path names, or refused.                         *)
(***************************************************************************)
EXTENDS Process, ContractPath_proofs

(***************************************************************************)
(* How far the startup has come says what it has established; a process    *)
(* that an earlier step ended stays where that step left it.               *)
(***************************************************************************)
Contracted == load.step = "ended" /\ load.code = "loaded" => active # NoContract

StartupInv ==
  /\ phase = "root" => load = NoLoad /\ active = NoContract
  /\ Running /\ phase # "root" => root # NoPath
  /\ phase = "contract" => env.openAPIFile # Unset /\ Contracted
  /\ Running /\ phase = "endpoint" =>
       /\ load = NoLoad
       /\ (active = NoContract) <=> (env.openAPIFile = Unset)
  /\ phase # "serving" =>
       /\ planes = [data |-> FALSE, control |-> FALSE]
       /\ errs = <<>>
       /\ exit # "0"

(***************************************************************************)
(* Each plane reports once, and each report has a cause that remains.      *)
(***************************************************************************)
Reports == (IF planes.data THEN 0 ELSE 1) + (IF planes.control THEN 0 ELSE 1)

Trouble == signalled \/ stdin = "broken" \/ ~ planes.data

ChannelInv ==
  /\ phase = "serving" => Len(errs) = Reports
  /\ \A i \in 1 .. Len(errs) :
       /\ errs[i] = "nil" => stdin = "closed"
       /\ errs[i] = "error" => Trouble

ProcessInv ==
  /\ TypeOK
  /\ StartupInv
  /\ ChannelInv
  /\ ExitTellsCause

-----------------------------------------------------------------------------
(***************************************************************************)
(* A path that resolves is not loaded yet; a file that loads exists.       *)
(***************************************************************************)
LEMMA ResolveStep ==
  ASSUME NEW path, ResolvePath(path)
  PROVE  load'.step \in {"reading", "ended"} /\ load'.code # "loaded"
<1>. DEFINE resolved == Resolve(tree, root, path)
<1>1. resolved.code \in {"missing_path", "contract_path_not_allowed", "resolved"}
  BY DEF Resolve, Refusal, Resolved
<1>2. /\ load'.step \in {"reading", "ended"}
      /\ load'.code = resolved.code
  BY DEF ResolvePath
<1>. QED
  BY <1>1, <1>2

\* The step of no load.
LEMMA NoLoadIsIdle == NoLoad.step = "idle"
BY Zenon DEF NoLoad

\* A file that loads exists.
LEMMA LoadedFileExists ==
  ASSUME TypeOK, NEW path, LoadFrom(tree, path) = "loaded"
  PROVE  EvalSymlinks(tree, path) # NoPath
BY FilesAssumption, NodeKinds DEF TypeOK, LoadFrom, IsFile

\* The first state.
LEMMA InitInv == Init => ProcessInv
<1>. SUFFICES ASSUME Init PROVE ProcessInv
  OBVIOUS
<1>. USE ProcessAssumption DEF Init
<1>1. TypeOK
  <2>1. load.step \in {"idle", "reading", "ended"}
    BY NoLoadIsIdle
  <2>2. planes \in [data : BOOLEAN, control : BOOLEAN]
    OBVIOUS
  <2>3. errs \in Seq({"error", "nil"}) /\ Len(errs) <= 2
    OBVIOUS
  <2>4. requests \in 0 .. MaxRequests
    OBVIOUS
  <2>. QED
    BY <2>1, <2>2, <2>3, <2>4, Zenon DEF TypeOK
<1>2. StartupInv
  BY DEF StartupInv
<1>3. ChannelInv /\ ExitTellsCause
  BY DEF ChannelInv, ExitTellsCause
<1>. QED
  BY <1>1, <1>2, <1>3 DEF ProcessInv

-----------------------------------------------------------------------------
\* Reading a contract.
LEMMA ReadStep ==
  ASSUME ProcessInv, ReadContract
  PROVE  ProcessInv'
<1>. USE DEF ProcessInv
<1>1. /\ load.step = "reading" /\ load'.step = "ended"
      /\ load'.code = LoadFrom(tree, load.readPath)
      /\ UNCHANGED <<tree, env, phase, root, planes, errs, signalled, stdin,
                     requests, exit>>
      /\ Running
  <2>1. load'.step = "ended" /\ load'.code = LoadFrom(tree, load.readPath)
    BY DEF ReadContract
  <2>. QED
    BY <2>1 DEF ReadContract, control
<1>2. TypeOK'
  BY <1>1 DEF TypeOK
<1>3. Contracted'
  <2>. SUFFICES ASSUME load'.code = "loaded" PROVE active' # NoContract
    BY DEF Contracted, NoContract
  <2>1. active'.file = EvalSymlinks(tree, load.readPath)
    BY DEF ReadContract
  <2>2. active'.file # NoPath
    BY <1>1, <2>1, LoadedFileExists
  <2>. QED
    BY <2>2 DEF NoContract
<1>4. phase \notin {"root", "endpoint"}
  BY <1>1, NoLoadIsIdle DEF StartupInv
<1>5. StartupInv'
  BY <1>1, <1>3, <1>4 DEF StartupInv, Running
<1>6. ChannelInv' /\ ExitTellsCause'
  BY <1>1 DEF ChannelInv, Reports, Trouble, ExitTellsCause
<1>. QED
  BY <1>2, <1>5, <1>6

\* The steps of the startup.
LEMMA StartupStep ==
  ASSUME ProcessInv, Startup
  PROVE  ProcessInv'
<1>. USE DEF ProcessInv, control
<1>1. CASE SetContractRoot
  <2>1. /\ Running /\ phase = "root" /\ load = NoLoad /\ active = NoContract
        /\ exit' = IF root' = NoPath THEN "1" ELSE exit
        /\ phase' = IF env.openAPIFile = Unset THEN "endpoint" ELSE "contract"
        /\ UNCHANGED <<tree, env, load, active, planes, errs, signalled, stdin, requests>>
    BY <1>1 DEF SetContractRoot, StartupInv
  <2>2. TypeOK'
    BY <2>1 DEF TypeOK
  <2>3. StartupInv'
    BY <2>1, NoLoadIsIdle DEF StartupInv, Contracted, Running
  <2>4. ChannelInv' /\ ExitTellsCause'
    BY <2>1 DEF ChannelInv, Reports, Trouble, ExitTellsCause, Running, StartupInv
  <2>. QED
    BY <2>2, <2>3, <2>4
<1>2. CASE LoadContract
  <2>1. /\ phase = "contract"
        /\ UNCHANGED <<tree, env, phase, root, active, planes, errs, signalled,
                       stdin, requests, exit>>
        /\ load'.step \in {"reading", "ended"} /\ load'.code # "loaded"
    BY <1>2, ResolveStep DEF LoadContract
  <2>2. TypeOK'
    BY <2>1 DEF TypeOK
  <2>3. StartupInv'
    BY <2>1 DEF StartupInv, Contracted, Running
  <2>4. ChannelInv' /\ ExitTellsCause'
    BY <2>1 DEF ChannelInv, Reports, Trouble, ExitTellsCause
  <2>. QED
    BY <2>2, <2>3, <2>4
<1>3. CASE TakeContract
  <2>1. /\ Running /\ phase = "contract" /\ phase' = "endpoint"
        /\ load.step = "ended" /\ load' = NoLoad
        /\ exit' = IF load.code = "loaded" THEN exit ELSE "1"
        /\ UNCHANGED <<tree, env, root, active, planes, errs, signalled, stdin, requests>>
    BY <1>3 DEF TakeContract
  <2>2. TypeOK'
    BY <2>1, NoLoadIsIdle DEF TypeOK
  <2>3. StartupInv'
    BY <2>1 DEF StartupInv, Contracted, Running
  <2>4. ChannelInv' /\ ExitTellsCause'
    BY <2>1 DEF ChannelInv, Reports, Trouble, ExitTellsCause, Running, StartupInv
  <2>. QED
    BY <2>2, <2>3, <2>4
<1>4. CASE StartPlanes /\ env.endpointIsValid
  <2>1. /\ Running /\ phase = "endpoint" /\ phase' = "serving"
        /\ planes' = [data |-> TRUE, control |-> TRUE]
        /\ UNCHANGED <<tree, env, root, load, active, errs, signalled, stdin,
                       requests, exit>>
    BY <1>4 DEF StartPlanes
  <2>2. TypeOK'
    BY <2>1 DEF TypeOK
  <2>3. StartupInv'
    BY <2>1 DEF StartupInv, Running
  <2>4. errs' = <<>> /\ Reports' = 0
    BY <2>1 DEF StartupInv, Reports
  <2>5. ChannelInv' /\ ExitTellsCause'
    BY <2>1, <2>4 DEF ChannelInv, ExitTellsCause, Running
  <2>. QED
    BY <2>2, <2>3, <2>5
<1>5. CASE StartPlanes /\ ~ env.endpointIsValid
  <2>1. /\ phase = "endpoint" /\ exit' = "1"
        /\ UNCHANGED <<tree, env, phase, root, load, active, planes, errs,
                       signalled, stdin, requests>>
    BY <1>5 DEF StartPlanes
  <2>2. TypeOK'
    BY <2>1 DEF TypeOK
  <2>3. StartupInv'
    BY <2>1 DEF StartupInv, Running
  <2>4. ChannelInv' /\ ExitTellsCause'
    BY <2>1 DEF ChannelInv, Reports, Trouble, ExitTellsCause
  <2>. QED
    BY <2>2, <2>3, <2>4
<1>. QED
  BY <1>1, <1>2, <1>3, <1>4, <1>5 DEF Startup

(***************************************************************************)
(* Requests, calls and edits: neither a plane nor the exit is touched.     *)
(***************************************************************************)
LEMMA ServingStep ==
  ASSUME ProcessInv,
         AcceptRequest \/ AnswerRequest \/ CallLoad \/ AnswerLoad \/ Unload
  PROVE  ProcessInv'
<1>. USE ProcessAssumption DEF ProcessInv, control
<1>1. /\ phase = "serving" /\ Running
      /\ UNCHANGED <<tree, env, phase, root, planes, errs, signalled, stdin, exit>>
  BY DEF AcceptRequest, AnswerRequest, CallLoad, AnswerLoad, Unload, Serving
<1>2. requests' \in 0 .. MaxRequests
  BY DEF AcceptRequest, AnswerRequest, CallLoad, AnswerLoad, Unload, TypeOK
<1>3. load'.step \in {"idle", "reading", "ended"}
  <2>1. CASE CallLoad
    BY <2>1, ResolveStep DEF CallLoad
  <2>2. CASE AcceptRequest \/ AnswerRequest \/ AnswerLoad \/ Unload
    BY <2>2, NoLoadIsIdle DEF AcceptRequest, AnswerRequest, AnswerLoad, Unload, TypeOK
  <2>. QED
    BY <2>1, <2>2
<1>4. TypeOK'
  BY <1>1, <1>2, <1>3 DEF TypeOK
<1>5. StartupInv'
  BY <1>1 DEF StartupInv, Running
<1>6. ChannelInv' /\ ExitTellsCause'
  BY <1>1 DEF ChannelInv, Reports, Trouble, ExitTellsCause
<1>. QED
  BY <1>4, <1>5, <1>6

\* A plane that ends leaves its report.
LEMMA StopStep ==
  ASSUME ProcessInv, StopDataPlane \/ StopControlPlane
  PROVE  ProcessInv'
<1>. USE DEF ProcessInv
<1>1. PICK report \in {"error", "nil"} :
        /\ errs' = Append(errs, report)
        /\ report = "nil" => stdin = "closed"
        /\ report = "error" => Trouble'
  BY DEF StopDataPlane, StopControlPlane, Trouble, TypeOK
<1>2. /\ phase = "serving" /\ Running
      /\ UNCHANGED <<tree, env, phase, root, load, active, signalled, stdin,
                     requests, exit>>
  BY DEF StopDataPlane, StopControlPlane, Serving
<1>3. /\ planes' \in [data : BOOLEAN, control : BOOLEAN]
      /\ Reports' = Reports + 1 /\ Reports' <= 2
      /\ ~ planes.data => ~ planes'.data
  <2>1. planes \in [data : BOOLEAN, control : BOOLEAN]
    BY DEF TypeOK
  <2>2. CASE StopDataPlane
    <3>1. /\ planes.data /\ ~ planes'.data /\ planes'.control = planes.control
          /\ planes' \in [data : BOOLEAN, control : BOOLEAN]
      BY <2>1, <2>2 DEF StopDataPlane
    <3>. QED
      BY <3>1 DEF Reports
  <2>3. CASE StopControlPlane
    <3>1. /\ planes.control /\ ~ planes'.control /\ planes'.data = planes.data
          /\ planes' \in [data : BOOLEAN, control : BOOLEAN]
      BY <2>1, <2>3 DEF StopControlPlane
    <3>. QED
      BY <3>1 DEF Reports
  <2>. QED
    BY <2>2, <2>3
<1>4. Len(errs) = Reports /\ errs \in Seq({"error", "nil"})
  BY <1>2 DEF ChannelInv, TypeOK
<1>5. /\ errs' \in Seq({"error", "nil"}) /\ Len(errs') = Len(errs) + 1
      /\ \A i \in 1 .. Len(errs') :
           errs'[i] = IF i <= Len(errs) THEN errs[i] ELSE report
  BY <1>1, <1>4
<1>6. TypeOK'
  BY <1>2, <1>3, <1>4, <1>5 DEF TypeOK
<1>7. StartupInv'
  BY <1>2 DEF StartupInv, Running
<1>8. Trouble => Trouble'
  BY <1>2, <1>3 DEF Trouble
<1>9. ChannelInv'
  <2>1. Len(errs') = Reports'
    BY <1>3, <1>4, <1>5
  <2>2. ASSUME NEW i \in 1 .. Len(errs')
        PROVE  /\ errs'[i] = "nil" => stdin' = "closed"
               /\ errs'[i] = "error" => Trouble'
    <3>1. CASE i <= Len(errs)
      <4>1. i \in 1 .. Len(errs) /\ errs'[i] = errs[i]
        BY <1>4, <1>5, <3>1
      <4>. QED
        BY <1>2, <1>8, <4>1 DEF ChannelInv
    <3>2. CASE ~ (i <= Len(errs))
      <4>1. errs'[i] = report
        BY <1>5, <3>2
      <4>. QED
        BY <1>1, <1>2, <4>1
    <3>. QED
      BY <3>1, <3>2
  <2>. QED
    BY <2>1, <2>2 DEF ChannelInv
<1>10. ExitTellsCause'
  BY <1>2 DEF ExitTellsCause, Running
<1>. QED
  BY <1>6, <1>7, <1>9, <1>10

\* The first report is the exit status.
LEMMA ExitStep ==
  ASSUME ProcessInv, Exit
  PROVE  ProcessInv'
<1>. USE DEF ProcessInv, control
<1>1. /\ phase = "serving" /\ errs # <<>>
      /\ exit' = IF Head(errs) = "error" THEN "1" ELSE "0"
      /\ UNCHANGED <<tree, env, phase, root, load, active, planes, errs,
                     signalled, stdin, requests>>
  BY DEF Exit, Serving
<1>2. Head(errs) = errs[1] /\ 1 \in 1 .. Len(errs) /\ errs[1] \in {"error", "nil"}
  BY <1>1 DEF TypeOK
<1>3. TypeOK'
  BY <1>1 DEF TypeOK
<1>4. StartupInv'
  BY <1>1 DEF StartupInv, Running
<1>5. ChannelInv'
  BY <1>1 DEF ChannelInv, Reports, Trouble
<1>6. ExitTellsCause'
  BY <1>1, <1>2 DEF ExitTellsCause, ChannelInv, Trouble
<1>. QED
  BY <1>3, <1>4, <1>5, <1>6

\* Edits, signals and the client.
LEMMA SurroundingsStep ==
  ASSUME ProcessInv, EditFiles \/ Signal \/ LoseClient
  PROVE  ProcessInv'
<1>. USE DEF ProcessInv, control
<1>1. /\ Running /\ UNCHANGED <<env, phase, root, load, active, planes, errs, requests>>
      /\ tree' \in Trees
      /\ signalled' \in BOOLEAN /\ (signalled => signalled')
      /\ stdin' \in {"open", "closed", "broken"}
      /\ stdin # "open" => stdin' = stdin
      /\ exit' \in {exit, "killed"}
  BY DEF EditFiles, Signal, LoseClient, TypeOK
<1>2. TypeOK'
  BY <1>1 DEF TypeOK
<1>3. StartupInv'
  BY <1>1 DEF StartupInv, Contracted, Running
<1>4. Trouble => Trouble'
  BY <1>1 DEF Trouble
<1>5. ChannelInv'
  BY <1>1, <1>4 DEF ChannelInv, Reports
<1>6. ExitTellsCause'
  BY <1>1 DEF ExitTellsCause, Running
<1>. QED
  BY <1>2, <1>3, <1>5, <1>6

\* No step.
LEMMA IdleStep ==
  ASSUME ProcessInv, UNCHANGED vars
  PROVE  ProcessInv'
BY DEF ProcessInv, TypeOK, StartupInv, Contracted, Running, ChannelInv, Reports,
       Trouble, ExitTellsCause, vars, control

(***************************************************************************)
(* However the planes' reports, the signal and the client's end interleave *)
(* with requests and loads, the process is where its startup and its       *)
(* reports say it is.                                                      *)
(***************************************************************************)
THEOREM ProcessCorrectness == Spec => []ProcessInv
<1>1. ProcessInv /\ [Next]_vars => ProcessInv'
  BY ReadStep, StartupStep, ServingStep, StopStep, ExitStep, SurroundingsStep,
     IdleStep DEF Next
<1>. QED
  BY InitInv, <1>1, PTL DEF Spec

(***************************************************************************)
(* Types of the process; no report is ever without room in the channel.    *)
(***************************************************************************)
THEOREM ProcessTypeCorrectness == Spec => []TypeOK
<1>1. ProcessInv => TypeOK
  BY DEF ProcessInv
<1>. QED
  BY ProcessCorrectness, <1>1, PTL

(***************************************************************************)
(* The exit status tells why the process ended.                            *)
(***************************************************************************)
THEOREM ExitCorrectness == Spec => []ExitTellsCause
<1>1. ProcessInv => ExitTellsCause
  BY DEF ProcessInv
<1>. QED
  BY ProcessCorrectness, <1>1, PTL

(***************************************************************************)
(* A startup that fails halfway never serves: the step that starts the     *)
(* planes has a root, the contract of the environment and an endpoint      *)
(* that is valid.                                                          *)
(***************************************************************************)
THEOREM StartupCorrectness == Spec => StartsAsConfigured
<1>1. ASSUME ProcessInv, Next, phase # "serving", phase' = "serving"
      PROVE  /\ root # NoPath
             /\ (active = NoContract) <=> (env.openAPIFile = Unset)
             /\ env.endpointIsValid
  <2>1. StartPlanes
    BY <1>1 DEF Next, Startup, ReadContract, SetContractRoot, LoadContract,
       TakeContract, AcceptRequest, AnswerRequest, StopDataPlane, CallLoad,
       AnswerLoad, Unload, StopControlPlane, Exit, EditFiles, Signal, LoseClient,
       Serving
  <2>2. Running /\ phase = "endpoint" /\ env.endpointIsValid
    BY <1>1, <2>1 DEF StartPlanes
  <2>. QED
    BY <1>1, <2>2 DEF ProcessInv, StartupInv
<1>2. ProcessInv /\ [Next]_vars =>
        [phase # "serving" /\ phase' = "serving" =>
           /\ root # NoPath
           /\ (active = NoContract) <=> (env.openAPIFile = Unset)
           /\ env.endpointIsValid]_vars
  BY <1>1 DEF vars
<1>. QED
  BY ProcessCorrectness, <1>2, PTL DEF Spec, StartsAsConfigured

-----------------------------------------------------------------------------
(***************************************************************************)
(* What is known of a load: it was resolved from the root in a tree of     *)
(* files, and, if it was read in the same, what it came to there.          *)
(***************************************************************************)
LoadShape ==
  \E step, path, code, readPath, sourcePath, seen :
    load = [step |-> step, path |-> path, code |-> code, readPath |-> readPath,
            sourcePath |-> sourcePath, seen |-> seen]

RootIsPath == root # NoPath => root \in Names /\ DotFree(root)

ResolvedIn(files) ==
  /\ Resolve(files, root, load.path).code = "resolved"
  /\ Resolve(files, root, load.path).readPath = load.readPath
  /\ Resolve(files, root, load.path).sourcePath = load.sourcePath

Reading == load.seen \in Trees /\ ResolvedIn(load.seen)

RefusedIn(files) ==
  load.code = "contract_path_not_allowed" =>
    Resolve(files, root, load.path).code = "contract_path_not_allowed"

LoadedIn(files) ==
  load.code = "loaded" /\ active # NoContract =>
    /\ ResolvedIn(files)
    /\ LoadFrom(files, load.readPath) = "loaded"
    /\ active = [file |-> EvalSymlinks(files, load.readPath),
                 sourcePath |-> load.sourcePath]

LoadInv ==
  /\ LoadShape
  /\ RootIsPath
  /\ load.step # "idle" => root # NoPath /\ load.path \in PathInputs
  /\ load.step = "reading" => Reading
  /\ load.step = "ended" /\ load.seen \in Trees =>
       RefusedIn(load.seen) /\ LoadedIn(load.seen)

\* A path that exists is one that a root can be.
LEMMA ExistingRoot ==
  ASSUME NEW files \in Trees, NEW path \in DOMAIN files
  PROVE  path \in Names /\ DotFree(path)
BY FilesAssumption, NodeKinds DEF IsTree, DotFree

\* A record that is not a tree of files.
LEMMA EmptyIsNoTree == <<>> \notin Trees
BY FilesAssumption DEF IsTree, IsDirectory

\* What a file comes to is not what a path is refused for.
LEMMA ReadIsNoRefusal ==
  ASSUME NEW files \in Trees, NEW path
  PROVE  LoadFrom(files, path) # "contract_path_not_allowed"
<1>. DEFINE file == EvalSymlinks(files, path)
<1>1. CASE IsFile(files, file)
  <2>1. file \in DOMAIN files /\ ~ IsDirectory(files, file) /\ ~ IsLink(files, file)
    BY <1>1, FilesAssumption, NodeKinds DEF IsFile
  <2>2. files[file].content \in LoadOutcomes
    BY <2>1, FilesAssumption DEF IsTree
  <2>. QED
    BY <1>1, <2>2 DEF LoadFrom, LoadOutcomes
<1>2. CASE ~ IsFile(files, file)
  BY <1>2 DEF LoadFrom
<1>. QED
  BY <1>1, <1>2

\* No load, and a root that is a path or none.
LEMMA IdleLoad ==
  ASSUME load = NoLoad, RootIsPath
  PROVE  LoadInv
<1>1. LoadShape
  BY Zenon DEF LoadShape, NoLoad
<1>. QED
  BY <1>1, NoLoadIsIdle DEF LoadInv

\* The same after a step.
LEMMA NoLoadNext ==
  ASSUME load' = NoLoad, RootIsPath'
  PROVE  LoadInv'
<1>1. LoadShape'
  BY Zenon DEF LoadShape, NoLoad
<1>. QED
  BY <1>1, NoLoadIsIdle DEF LoadInv

\* A path is resolved.
LEMMA ResolvingStep ==
  ASSUME TypeOK, LoadInv, root # NoPath, NEW path \in PathInputs,
         ResolvePath(path), UNCHANGED <<root, active>>
  PROVE  LoadInv'
<1>1. PICK resolved : resolved = Resolve(tree, root, path)
  OBVIOUS
<1>2. load' = [step |-> IF resolved.code = "resolved" THEN "reading" ELSE "ended",
               path |-> path, code |-> resolved.code,
               readPath |-> resolved.readPath,
               sourcePath |-> resolved.sourcePath, seen |-> tree]
  BY <1>1 DEF ResolvePath
<1>3. LoadShape'
  BY <1>2, Zenon DEF LoadShape
<1>4. /\ load'.path = path /\ load'.seen = tree /\ load'.code = resolved.code
      /\ load'.readPath = resolved.readPath /\ load'.sourcePath = resolved.sourcePath
      /\ load'.step = "reading" => resolved.code = "resolved"
      /\ load'.code # "loaded"
  BY <1>2, ResolveStep
<1>5. RootIsPath'
  BY DEF LoadInv, RootIsPath
<1>6. load'.step = "reading" => Reading'
  BY <1>1, <1>4 DEF Reading, ResolvedIn, TypeOK
<1>7. RefusedIn(load.seen)' /\ LoadedIn(load.seen)'
  BY <1>1, <1>4 DEF RefusedIn, LoadedIn
<1>. QED
  BY <1>3, <1>4, <1>5, <1>6, <1>7 DEF LoadInv

\* A file is read, in the tree in which its path was resolved or another.
LEMMA ReadingStep ==
  ASSUME TypeOK, LoadInv, ReadContract
  PROVE  LoadInv'
<1>1. /\ load.step = "reading" /\ UNCHANGED <<tree, root>>
      /\ load' = [load EXCEPT !.step = "ended", !.code = LoadFrom(tree, load.readPath),
                              !.seen = IF @ = tree THEN @ ELSE <<>>]
      /\ active' = IF load'.code = "loaded"
                     THEN [file |-> EvalSymlinks(tree, load.readPath),
                           sourcePath |-> load.sourcePath]
                     ELSE active
  BY DEF ReadContract
<1>2. PICK step, path, code, readPath, sourcePath, seen :
        load = [step |-> step, path |-> path, code |-> code, readPath |-> readPath,
                sourcePath |-> sourcePath, seen |-> seen]
  BY DEF LoadInv, LoadShape
<1>3. load' = [step |-> "ended", path |-> path, code |-> LoadFrom(tree, readPath),
               readPath |-> readPath, sourcePath |-> sourcePath,
               seen |-> IF seen = tree THEN seen ELSE <<>>]
  BY <1>1, <1>2
<1>4. LoadShape'
  BY <1>3, Zenon DEF LoadShape
<1>5. /\ load'.step = "ended" /\ load'.path = load.path
      /\ load'.code = LoadFrom(tree, load.readPath)
      /\ load'.readPath = load.readPath /\ load'.sourcePath = load.sourcePath
      /\ load'.seen = IF load.seen = tree THEN load.seen ELSE <<>>
  BY <1>2, <1>3
<1>6. RootIsPath' /\ root' # NoPath /\ load'.path \in PathInputs
  BY <1>1, <1>5 DEF LoadInv, RootIsPath
<1>7. ASSUME load'.seen \in Trees
      PROVE  RefusedIn(load.seen)' /\ LoadedIn(load.seen)'
  <2>1. load.seen = tree /\ load'.seen = tree
    BY <1>5, <1>7, EmptyIsNoTree
  <2>2. ResolvedIn(tree)
    BY <1>1, <2>1 DEF LoadInv, Reading
  <2>3. load'.code # "contract_path_not_allowed"
    BY <1>5, ReadIsNoRefusal DEF TypeOK
  <2>4. ResolvedIn(tree)'
    BY <1>1, <1>5, <2>2 DEF ResolvedIn
  <2>5. LoadedIn(load.seen)'
    BY <1>1, <1>5, <2>1, <2>4 DEF LoadedIn, ResolvedIn
  <2>. QED
    BY <2>3, <2>5 DEF RefusedIn
<1>. QED
  BY <1>4, <1>5, <1>6, <1>7 DEF LoadInv

\* A load stays as it is, and so does the contract, unless it is unloaded.
LEMMA LoadKept ==
  ASSUME LoadInv, UNCHANGED <<root, load>>, active' \in {active, NoContract}
  PROVE  LoadInv'
<1>1. LoadShape' /\ RootIsPath'
  BY DEF LoadInv, LoadShape, RootIsPath
<1>2. Reading => Reading'
  BY DEF Reading, ResolvedIn
<1>3. /\ RefusedIn(load.seen) => RefusedIn(load.seen)'
      /\ LoadedIn(load.seen) => LoadedIn(load.seen)'
  BY DEF RefusedIn, LoadedIn, ResolvedIn
<1>. QED
  BY <1>1, <1>2, <1>3 DEF LoadInv

(***************************************************************************)
(* Every load is where its path and the files it saw have brought it,      *)
(* however edits, unloads and the other steps come in between.             *)
(***************************************************************************)
LEMMA LoadInvariance == Spec => []LoadInv
<1>1. Init => LoadInv
  BY IdleLoad DEF Init, RootIsPath
<1>2. ProcessInv /\ LoadInv /\ [Next]_vars => LoadInv'
  <2>. SUFFICES ASSUME ProcessInv, LoadInv, [Next]_vars
                PROVE  LoadInv'
    OBVIOUS
  <2>1. TypeOK /\ (Running /\ phase # "root" => root # NoPath)
    BY DEF ProcessInv, StartupInv
  <2>2. CASE ReadContract
    BY <2>1, <2>2, ReadingStep
  <2>3. CASE SetContractRoot
    <3>1. load' = NoLoad
      BY <2>3 DEF SetContractRoot, ProcessInv, StartupInv
    <3>2. root' # NoPath => root' \in DOMAIN tree
      BY <2>3 DEF SetContractRoot, NewContractRoot, IsDirectory
    <3>3. RootIsPath'
      BY <2>1, <3>2, ExistingRoot DEF TypeOK, RootIsPath
    <3>. QED
      BY <3>1, <3>3, NoLoadNext
  <2>4. CASE LoadContract
    <3>1. /\ env.openAPIFile \in PathInputs /\ root # NoPath
          /\ ResolvePath(env.openAPIFile) /\ UNCHANGED <<root, active>>
      BY <2>1, <2>4, FilesAssumption
      DEF LoadContract, ProcessInv, StartupInv, TypeOK
    <3>. QED
      BY <2>1, <3>1, ResolvingStep
  <2>5. CASE TakeContract \/ AnswerLoad
    <3>1. load' = NoLoad /\ UNCHANGED root
      BY <2>5 DEF TakeContract, AnswerLoad
    <3>2. RootIsPath'
      BY <3>1 DEF LoadInv, RootIsPath
    <3>. QED
      BY <3>1, <3>2, NoLoadNext
  <2>6. CASE CallLoad
    <3>1. PICK path \in Paths : ResolvePath(path)
      BY <2>6 DEF CallLoad
    <3>2. path \in PathInputs /\ root # NoPath /\ UNCHANGED <<root, active>>
      BY <2>1, <2>6, FilesAssumption DEF CallLoad, Serving
    <3>. QED
      BY <2>1, <3>1, <3>2, ResolvingStep
  <2>7. CASE \/ StartPlanes \/ AcceptRequest \/ AnswerRequest \/ StopDataPlane
             \/ Unload \/ StopControlPlane \/ Exit \/ EditFiles \/ Signal
             \/ LoseClient \/ UNCHANGED vars
    <3>1. UNCHANGED <<root, load>> /\ active' \in {active, NoContract}
      BY <2>7
      DEF StartPlanes, AcceptRequest, AnswerRequest, StopDataPlane, Unload,
          StopControlPlane, Exit, EditFiles, Signal, LoseClient, vars
    <3>. QED
      BY <3>1, LoadKept
  <2>. QED
    BY <2>2, <2>3, <2>4, <2>5, <2>6, <2>7 DEF Next, Startup
<1>. QED
  BY <1>1, <1>2, ProcessCorrectness, PTL DEF Spec

\* A load that has just succeeded read the boundary of its path.
LEMMA JustLoadedReads ==
  ASSUME TypeOK, LoadInv, JustLoaded
  PROVE  /\ IsTree(tree) /\ root \in Names /\ DotFree(root)
         /\ load.path \in PathInputs
         /\ ReadsBoundary(tree, root, load.path, active.file)
         /\ active.sourcePath = After(active.file, Len(root))
<1>1. /\ IsTree(tree) /\ root \in Names /\ DotFree(root)
      /\ load.path \in PathInputs
  BY FilesAssumption DEF TypeOK, LoadInv, RootIsPath, JustLoaded
<1>2. /\ ResolvedIn(tree) /\ LoadFrom(tree, load.readPath) = "loaded"
      /\ active = [file |-> EvalSymlinks(tree, load.readPath),
                   sourcePath |-> load.sourcePath]
  BY DEF TypeOK, LoadInv, JustLoaded, LoadedIn
<1>3. LinksReach(tree, Candidate(root, load.path))
  BY DEF JustLoaded, LinksSuffice, LinksReach, UpTo
<1>4. /\ ReadsBoundary(tree, root, load.path, load.readPath)
      /\ load.sourcePath = After(load.readPath, Len(root))
  BY <1>1, <1>2, <1>3, LoadsBoundary DEF ResolvedIn
<1>5. active.file = load.readPath /\ active.sourcePath = load.sourcePath
  BY <1>2, <1>4 DEF ReadsBoundary
<1>. QED
  BY <1>1, <1>4, <1>5

(***************************************************************************)
(* Whatever links the file system has and wherever they lead, a contract   *)
(* that is loaded lies under the root and is the file that its path opens. *)
(***************************************************************************)
THEOREM ContractCorrectness == Spec => []ContractIsTheFileNamed
<1>1. TypeOK /\ LoadInv => ContractIsTheFileNamed
  <2>. SUFFICES ASSUME TypeOK, LoadInv, JustLoaded
                PROVE  /\ IsPrefix(root, active.file)
                       /\ (Plain(load.path) /\ Last(load.path.names) # ".") =>
                            active.file = Opened(load.path)
    BY DEF ContractIsTheFileNamed
  <2>1. /\ IsTree(tree) /\ root \in Names /\ DotFree(root)
        /\ load.path \in PathInputs
        /\ ReadsBoundary(tree, root, load.path, active.file)
    BY JustLoadedReads
  <2>2. IsPrefix(root, active.file)
    BY <2>1 DEF ReadsBoundary
  <2>3. ASSUME Plain(load.path), Last(load.path.names) # "."
        PROVE  active.file = Opened(load.path)
    <3>1. OpenedIn(tree, root, load.path) = active.file
      BY <2>1, <2>3, LoadsFileNamed DEF Plain
    <3>. QED
      BY <3>1 DEF OpenedIn, Opened
  <2>. QED
    BY <2>2, <2>3
<1>. QED
  BY <1>1, ProcessTypeCorrectness, LoadInvariance, PTL

(***************************************************************************)
(* The path shown for it loads the same file again.                        *)
(***************************************************************************)
THEOREM SourcePathCorrectness == Spec => []SourcePathLeadsBack
<1>1. TypeOK /\ LoadInv => SourcePathLeadsBack
  <2>. SUFFICES ASSUME TypeOK, LoadInv, JustLoaded, IsDirectory(tree, root)
                PROVE  /\ Resolve(tree, root, Relative(active.sourcePath)).code = "resolved"
                       /\ Resolve(tree, root, Relative(active.sourcePath)).readPath
                            = active.file
    BY DEF SourcePathLeadsBack
  <2>. QED
    BY JustLoadedReads, SourceLeadsBack
<1>. QED
  BY <1>1, ProcessTypeCorrectness, LoadInvariance, PTL

(***************************************************************************)
(* A path without ".." is refused as outside the root only if it leads     *)
(* there.                                                                  *)
(***************************************************************************)
THEOREM RefusalCorrectness == Spec => []RefusedIsOutside
<1>1. TypeOK /\ LoadInv => RefusedIsOutside
  <2>. SUFFICES ASSUME TypeOK, LoadInv, load.step = "ended",
                       load.code = "contract_path_not_allowed", load.seen = tree,
                       Plain(load.path), LeadsInside(load.path)
                PROVE  FALSE
    BY DEF RefusedIsOutside
  <2>1. /\ IsTree(tree) /\ root \in Names /\ DotFree(root)
        /\ load.path \in PathInputs
    BY FilesAssumption DEF TypeOK, LoadInv, RootIsPath
  <2>2. Resolve(tree, root, load.path).code = "contract_path_not_allowed"
    BY DEF TypeOK, LoadInv, RefusedIn
  <2>3. LeadsInto(tree, root, load.path)
    BY DEF LeadsInside, LeadsInto, Opened, OpenedIn
  <2>. QED
    BY <2>1, <2>2, <2>3, InsideIsNotRefused DEF Plain
<1>. QED
  BY <1>1, ProcessTypeCorrectness, LoadInvariance, PTL

=============================================================================
