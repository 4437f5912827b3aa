# Echo MCP in TLA+

Echo MCP is a test double for HTTP dependencies: an AI agent or a test drives
it through MCP tools (the *control plane*), the application under test sends
it REST requests (the *data plane*) or receives webhook posts from it, and the
agent reads back *observations* as evidence of what happened. This directory
holds TLA+ modules of the program, the TLC configurations that check them and
the proofs that TLAPS checks.

## Inventory

One process, two servers over one in-memory store (`cmd/echo-mcp/main.go`).

| component | source | state | operations | module |
|---|---|---|---|---|
| Runtime state store | `internal/state/store.go` | generation, response rule, observations, webhook deliveries; one RWMutex | `Reset`, `ConfigureResponseRule`, `MatchResponseRule`, `HasResponseRule`, `RecordObservation`, `RecordWebhookDeliveryObservation`, the copying readers | `Store` |
| REST data plane | `internal/httpserver/server.go` | none but the handlers' locals | `handleDataPlane` per request: match, respond, record, or 501 | `DataPlane` |
| MCP control plane | `internal/control/mcp_server.go`, `control.go` | none but the handlers' locals | seven tools: `configure_behavior`, `load_openapi_contract`, `unload_openapi_contract`, `get_contract_status`, `reset`, `send_webhook_event`, `get_observations` | `ControlPlane` |
| Contract manager | `internal/control/contract_manager.go` | the active contract and its validation mode; an RWMutex of its own | load, unload, status, verdict on a rule | `ContractManager` |
| OpenAPI contract | `internal/contract/openapi.go` | immutable once loaded | load a file and scan it, find the operation, validate a response | `OpenAPIContract` |
| Webhook sender | `internal/webhook` | the registered endpoint, fixed at startup | `Send`: checks, one `http.Client.Do`, the body | `WebhookSender`, abstractly `Sending` |
| Process | `cmd/echo-mcp/main.go` | wiring of the above; a channel of two reports | startup, two goroutines, signals, exit with the first that ends | `Process`, `EchoMCP` (composition) |
| Contract root boundary | `internal/control/contract_path.go` | the root directory | resolve a path inside the root | `ContractPath` |
| Tool adapter | `internal/control/adapter.go` | none | configures the store without the tool's checks; tests only | `DataPlane!Reconfigure` |
| Guidance | `internal/control/mcp_guidance.go` | none | static text | not modelled |

How they interact: the MCP SDK and net/http run every call and every request
in a goroutine of its own. No goroutine holds a lock across two operations; a
handler is a sequence of atomic steps, each under the store's lock or the
manager's, and what it read in one step it uses in a later one. That is where
the hard behaviours are:

* *check, then act* across two locks: a load or unload asks the store for a
  behavior and changes the contract later; a configuration is validated
  against a copy of the contract and stored later;
* *serve, then record*: a handler serves a copy of the rule, and the rule may
  be replaced or reset before its observation is appended;
* *several reads, one reply*: `configure_behavior` and `get_observations` read
  shared state up to four times for one reply;
* *net/http at the edges*: informational and invalid status codes, clients
  that go away, redirects, timeouts and bodies that break off;
* *the validator's recursion* through references, objects and arrays, and a
  second walk over the raw document that must agree with it;
* *resolve, then read*: a contract's path is resolved through symbolic links
  while the developer may edit the tree, and a path that does not exist is
  judged by the part of it that does;
* *the end of the process*: reports, signals and a client that goes away come
  in any order, and one of them decides the exit status.

`PROJECT.json` lists each hazard at its line with the properties that cover it.

## Modules

```
Store ── ContractManager ── ControlPlane ──┐
  │                           │            ├── EchoMCP ──implements──> Simulator
  └───────────── DataPlane ───┼────────────┘
                       WebhookDelivery
                              └── Sending <──implements── WebhookSender
ContractPath ── Process
OpenAPIContract  (what ContractManager's Conforms stands for)
```

An `MC…` module gives constants to a specification; a `…_proofs` module holds
its theorems. **Recursion** has the lemmas that those about recursive
definitions need: induction over a set with a measure or a well-founded order,
and that a recursive function is what its definition says (see below).

**Store** has the four fields of `state.Store` as variables and one operator
per method. The lock makes each a single step. It has no specification: the
planes that call it do. The generation is a natural number, since nothing but a
log line reads it and 2^64 resets are out of reach.

**ContractManager** adds `active`, and the verdicts of the manager on a rule,
a load and an unload as operators. A contract is abstracted to the set of
rules that conform to it (`Conforms`), a path to what it leads to
(`ContractAt`). Error codes of the same consequence are one: what a file or its
parsing can do wrong is `load_failed`, the boundary's refusal
`path_not_allowed`, the codes of a failed validation
`contract_validation_failed`. `ResponseRuleValidator`, the older hook of
`LocalPlane`, is nil in the program and left out.

**ControlPlane** gives each caller a program counter and the locals of its
handler: the input, the contract its validation copied, and the reply so far.
`configure_behavior` is eight actions: refuse or validate, disclose a rejection
or store, then the separate reads for the warning, the guidance (one or two)
and the disclosure. A load or unload is a check and a change; `reset` a
clearing and a read; `get_observations` three reads (a fourth, which only sizes
a slice, is left out); `send_webhook_event` a check, the post, the record.
`wrote` and `admission` are history variables for the properties: they guard
no action.

**DataPlane** is `handleDataPlane` per request: `Arrive`, `Match`,
`WriteResponse`, `Record`, `Return`. What net/http does is external: it panics on
a status that has not three digits, sends 200 after an informational status,
completes the response when the handler has returned, and lets the client go
away at any time. `Spec` runs the handlers against the most general control
plane (any rule, any time), so that what holds there, and is proved there,
holds with any control plane that uses the store's methods.
`matchedIn`, `recordedIn` and `recordedAt` are history.

**EchoMCP** interleaves the handlers of ControlPlane and DataPlane over one
store. `DisciplinedSpec` adds what `docs/guides/ai-agent-usage.md` asks of a
client: it resets when no request is being served.

**Simulator** is what the program promises such a client: every call and every
request happens at once. `EchoMCP!Abstract` is the refinement mapping. A
request counts as served when it is *matched*, although its observation is
appended later, so the mapped evidence is the bag of the log plus the
observations of the handlers between `Match` and `Record`. It is a bag because
handlers record in another order than they match.

**WebhookSender** is one delivery at a time: the endpoint from the
environment, the checks, the exchanges of `http.Client.Do` (external) with
their redirects, the reading of the body, and a failure at any point of it.
The sender keeps no state between events, so concurrent sends are independent
instances.

**WebhookDelivery** and **Sending** are what lies between it and ControlPlane:
the verdict on an event, the deliveries an attempt can end with, and the
abstract `Send` that is one step and sure to end. ControlPlane's `CheckEvent`
and `Post` are built from WebhookDelivery's operators, WebhookSender implements
Sending (`ImplementsSending`).

**OpenAPIContract** translates `LoadOpenAPIFileWithSourcePath` with its errors in their
order, `scanUnsupportedFeatures`, `findOperation`, the selection of the response
and `validateSchema` as operators. A behavior loads one document and validates
one rule. JSON values and schemas are trees of records; the text of a scalar is
kept for `enum`, and a number has the kind that `ParseInt` and `ParseFloat`
give it. What the decoder's Go types do not take of a document is its
`misfits`. The validator, its comparison `Admits` (an independent definition of
what the supported keywords mean) and the set of schemas in reach are recursive
functions over the constants `Schemas` and `Values`, trees whose `Depth` falls
from a node to its parts, and over the references being resolved. A schema
without a type whose other keywords the validator does not look at
(`IgnoresKeywords`) is the finding UntypedEnum, and left out of
`AcceptsOnlyAdmitted`.

**ContractPath** is the file system as a map from absolute paths to
directories, files and links; `filepath`'s `Clean`, `EvalSymlinks` and `Rel`
(external) over it; and `newContractRoot`, `resolve`, `evaluatePathForBoundary`
and `pathWithinRoot` from the source. `Clean` takes `..` lexically, the system's
`Walk` goes up from where a link led: properties about the file that a path
*opens* are stated with `Walk` and for paths without `..`. They also leave out
a path with a part that exists but lies beyond one link too many
(`LinksSuffice`), which the code takes for a part that does not exist.

**Process** is `main`: the contract root, the contract, the endpoint, each
fatal if it fails; then the two goroutines with their channel, `signal`'s
context, and the exit with the first report. A load is two steps, `Resolve` in
the tree of that moment and `ReadContract` in the tree of a later one, and
`EditFiles` changes the tree at any time. `load.seen` is history. Rules and
observations do not appear: the planes' own modules have them.

## What the runs check

All with `tlc -config <run>.cfg <module>`; the longest takes one to two minutes.

| run | instance | checks |
|---|---|---|
| DataPlane | 2 requests, 4 rules (final, informational, invalid status, other method), 2 resets | types; `EvidenceIsExact`, `AnswerImpliesEvidence`, `OutcomeIsResponseWhenFinal`, `HandlersInStep` (the inductive invariant), `EvidenceOnlyGrows`, `MatchedIsRecorded` (liveness) |
| ControlPlaneRules | 2 callers, 15 calls about rules and contracts with every way to be refused, 2 contracts that disagree, 1 reset; symmetry of the callers | types; `ReplyTellsEffect`, `StoredRuleIsJustified` |
| ControlPlaneEvidence | 2 callers, 7 calls: webhooks, evidence, a configuration, a load; 2 deliveries, 1 reset | `ReplyTellsEffect`, `DeliveriesOnlyGrow`, `CallsAreAnswered` (liveness) |
| EchoMCP | 1 caller with 11 calls, 2 requests, 1 reset; `DisciplinedSpec` | `ImplementsSimulator`, `EvidenceReplyIsCoherent`, `BehaviorBelongsToContract`, `ReplyIsCoherent`, `NoHandlerPanics` |
| WebhookSender | 4 addresses (two usable), statuses 200, 302, 307, 3 redirects | types; `DeliveryIsTruthful`, `RequestsGoWhereLed`, `SendEnds` (liveness), `ImplementsSending` (refinement, with its liveness) |
| OpenAPIContract | schemas of depth 2 over every type, enum, null, reference and composition × bodies of depth 3 with every kind of number; sets of up to two operations with overlapping templates × rules; documents that fail to load in each way | `AcceptsOnlyAdmitted`, `AdmittedIsNoViolation`, `RoutesAreUnambiguous`, `RefusedFeatureIsAnnounced` |
| Process | 6 environments (4 of them fatal), 3 states of a tree with links into, out of and around the root, 14 paths, 1 request | types; `ContractIsTheFileNamed`, `SourcePathLeadsBack`, `RefusedIsOutside`, `ExitTellsCause`, `StartsAsConfigured`, `ProcessEnds` (liveness) |

Five more runs are expected to end in a counterexample. Each states a
sentence of the documentation or the source and shows that the code does otherwise; the
quotations are in `PROJECT.json` under `findings`.

| run | what the counterexample shows |
|---|---|
| ContractRace | two calls at once, neither forced (a configuration and a load or unload), leave a behavior under a contract that never accepted it |
| LateEvidence | a request matched before a reset is in the evidence after it |
| RepeatedPost | an application that answers 307 gets the event a second time |
| UntypedEnum | an `enum` without a `type` is not enforced |
| ReferencedResponse | a response given as a `$ref` accepts every body, and nothing says that it was not checked |

The first needs two tool calls in flight: the MCP SDK allows it and no lock
forbids it. EchoMCP checks the same property with one call at a time, where it
holds, and `SequentialCorrectness` proves it: a client that waits for its replies is
safe.

RepeatedPost is about the redirects of `http.Client`. The documents promise one
request to the configured endpoint (ADR-0005:71, :137), one delivery attempt
(`webhook-style-event-delivery.md:108`), no retries (`mcp-tools.md:453`), and say
nothing of redirects. The code leaves the client's policy in place: it
follows a redirect to any http or https host, repeats the POST with its body on
307 and 308 and turns it into a GET on 301, 302 and 303. `RequestsGoWhereLed`
says what that policy does guarantee, and RepeatedPost that it is not "once".

Three smaller disagreements are in the model without a run of their own. A path
with `parameters` of its own (or a summary, servers, `$ref`) makes a contract
"not valid JSON" (`openapi.go:138`) that is JSON and OpenAPI 3.0 (`misfits`). A rule
with an informational status is recorded with it while the client gets 200
(`FinalStatus`; `OutcomeIsResponseWhenFinal` excepts it), and a response whose
body breaks off is a transport error although `sender.go:17` says that none was
received (`Fail` from `draining`).

### Bounds

* **Callers, requests: 2.** Every hazard is a race of two handlers, or of a
  handler and a reset, over one field: no step reads what more than one other
  handler has written. The theorems below hold for any number.
* **Resets: 1 or 2** (`MaxGeneration`). Generations are only compared for
  equality; two resets let a handler span one while another is entirely after
  it. **Deliveries: 1 or 2** (`MaxDeliveries`), so that one can be appended
  behind another. Both bounds are guards on what clients ask for and stop no
  handler that runs.
* **Rules and contracts.** Each contract accepts one of two rules and rejects
  the other, so that a rule under the wrong contract shows; a third rule has a
  status net/http refuses. The request line matches one rule and not the other.
* **Redirects: 3** instead of net/http's 10: two hops in a row suffice to mix
  up statuses and requests, and the limit itself is reached.
* **Schemas.** The validator recurs through `properties`, `items` and `$ref`,
  one level at a time with the set of references being resolved as its only
  state. Depth two with leaves that refer to a leaf, to a tree through itself
  and to themselves reaches each pair of recursive cases.
* **Links followed: 4** (`MaxLinks`) instead of 255: the longest chain of the
  tree that ends has four links, and `loop` reaches the limit.
* **REST requests in flight: 1** (`MaxRequests` of Process). Their only part
  there is that the exit does not wait for them.
* **The tree.** The root is a directory beside another, reached by itself,
  by a link, and by `..`; below it are a file whose name begins with `..`, a
  link within, a link out, one in a loop, and outside one back in. The edits
  turn a file into a link that leads out, and take a directory away between
  the resolving and the reading of a path.

### Fairness

The Go scheduler runs every goroutine that can run and the RWMutexes are held
for bounded time, so each handler's next step is weakly fair (`DataFairness`,
`ControlFairness`, `EchoFairness`). Arrivals, tool calls, the client's taking of
its reply and the loss of a connection are not fair: nobody has to call. A post
ends because `http.Client.Timeout` covers connecting, redirects and the
body: in WebhookSender only `Fail` is fair, nothing the application does is.

In Process main's goroutine (`Main`), that of a call (`Call`) and that of
`Run` are weakly fair. `Run` is the SDK's: it is assumed to return, once its
context is cancelled or its input has ended, when no call is in flight
(`StopControlPlane /\ load = NoLoad`), and may return earlier. Requests,
signals, edits and the client are not fair.

## What is proved

TLAPS proves, for every value of the constants under their assumptions:

| theorem | module | says |
|---|---|---|
| `TypeCorrectness`, `HandlerCorrectness` | DataPlane_proofs | `TypeOK`, `HandlersInStep` |
| `EvidenceCorrectness` | DataPlane_proofs | the log is exactly the evidence of the requests recorded since the last reset |
| `AnswerCorrectness` | DataPlane_proofs | an answered client's evidence is there |
| `OutcomeCorrectness` | DataPlane_proofs | the recorded outcome is the status sent, for final statuses |
| `EvidenceGrowth` | DataPlane_proofs | the log only grows at its end between resets |
| `ControlTypeCorrectness` | ControlPlane_proofs | `TypeOKControl` |
| `JustificationCorrectness` | ControlPlane_proofs | the stored rule got past its checks, any number of callers |
| `ReplyCorrectness` | ControlPlane_proofs | a reply reports success exactly when the call changed the state |
| `DeliveryGrowth` | ControlPlane_proofs | the webhook evidence only grows at its end between resets |
| `SerialCorrectness` | ControlPlane_proofs | with one caller `BehaviorBelongsToContract` and `ReplyIsCoherent`, of the control plane alone |
| `NoPanicCorrectness` | EchoMCP_proofs | no handler of the composed program panics |
| `ComposedCorrectness` | EchoMCP_proofs | `EvidenceIsExact` and `StoredRuleIsJustified` in the composed program |
| `SequentialCorrectness` | EchoMCP_proofs | with one caller the same two, while requests are served |
| `EvidenceReplyCorrectness` | EchoMCP_proofs | with one caller `EvidenceReplyIsCoherent`, whatever requests are served between its reads |
| `SimulatorRefinement` | EchoMCP_proofs | with one caller, under `DisciplinedSpec`, `ImplementsSimulator`: calls and requests are atomic |
| `CheckedCorrectness` | EchoMCP_proofs | the same program keeps a checked behavior with the active contract until a forced change |
| `SenderTypeCorrectness`, `DeliveryCorrectness`, `RequestsCorrectness` | WebhookSender_proofs | `TypeOK`, `DeliveryIsTruthful`, `RequestsGoWhereLed` |
| `SendingRefinement` | WebhookSender_proofs | the sender implements the safety part of Sending |
| `ProcessTypeCorrectness`, `ExitCorrectness` | Process_proofs | `TypeOK` (the channel has room for every report), `ExitTellsCause` |
| `StartupCorrectness` | Process_proofs | the planes start only with what the environment asked for |
| `ContractCorrectness` | Process_proofs | `ContractIsTheFileNamed`: a loaded contract lies under the root and is the file its path opens |
| `SourcePathCorrectness` | Process_proofs | `SourcePathLeadsBack` |
| `RefusalCorrectness` | Process_proofs | `RefusedIsOutside` |
| `AcceptanceCorrectness` | OpenAPIContract_proofs | `AcceptsOnlyAdmitted`: the validator is sound |
| `ViolationCorrectness` | OpenAPIContract_proofs | `AdmittedIsNoViolation`: it is complete, except where it says it cannot decide |
| `AnnouncementCorrectness` | OpenAPIContract_proofs | `RefusedFeatureIsAnnounced`: its walk stays within the scan's |
| `RouteCorrectness` | OpenAPIContract_proofs | `RoutesAreUnambiguous` |

*Assumptions.* TLC evaluates each in the runs.

* `StoreAssumption`, `ContractAssumption`, `DataPlaneAssumption`,
  `ControlAssumption`, `SenderAssumption`, `ProcessAssumption`: the constants have
  their types, the sentinels are not values, callers configure rules of
  `Behaviors`.
* `TreesAssumption`, `SchemasAssumption`, `ReferencesAssumption`,
  `InputsAssumption`: a schema or a JSON value is a tree of finite depth, the
  references to components are finitely many, `NameOrder` (Go's sorted keys)
  has every property name, and no two operations share method and path. They
  hold of what a JSON decoder returns.
* `LinksAssumption`, `FilesAssumption`: the limit of links is a number, and a
  file system is a tree (`IsTree`): whatever exists lies in a directory, the
  root is one, and no name is empty, `.` or `..`. Loops of links are allowed.
* `SerialCorrectness`, `EvidenceReplyCorrectness`, `SequentialCorrectness`,
  `SimulatorRefinement` and `CheckedCorrectness` assume that any two callers are
  the same one. With two, ContractRace is a counterexample.

*The data plane.* `EvidenceIsExact` says nothing of handlers that have not
recorded yet, and `AnswerImpliesEvidence` nothing of how a client comes to be
answered, so neither is inductive. `DataInv` adds the types and
`HandlersInStep`, which ties each handler's state to its copy of the rule, the
response it sent, the position it recorded at, and a generation that is not in
the future. A reset then empties `Recorded` because every `recordedIn` lies
behind the new generation, and an append takes a position nobody has. The
proof has a lemma per action.

*The control plane.* `ControlInv` adds `CallsInStep`: where a handler is
determines whether it has written, which kind of code is in its reply, that a
handler about to store holds a verdict of the contract it copied, and that one
about to activate has something to activate. The lemma `VerdictMeaning` turns
the CASE of the manager's verdict into those facts; since `CallsInStep` speaks
of locals only, the steps of other callers leave it alone (`OthersUntouched`).

*One caller.* `BehaviorBelongsToContract` is false with two callers, so its
invariant speaks of what the only handler has read: `ReadsHold` says that the
contract it validated against is still the active one and that the behavior it
found absent still is; `ReplyHolds` says that each answer already in the reply
is still true. Every step of a call is a step of the only caller, so nothing
comes between a read and its use.

*The composition.* `EchoInv` is `ControlInv`, `DataInv` and two facts that need
both planes: a handler that has matched holds a status net/http writes, because
the stored rule is justified, and so none panics. A call acts on the data
plane's state through the store only (`CallOnStore`: it resets, configures or
leaves the log alone), a request on the control plane's not at all but for the log
(`RequestOnStore`), so the lemmas of both proofs carry over.

*The sender.* `SenderInv` ties the stage to the exchange: requests and
responses alternate (`Alternation`), the first is the POST to the endpoint
(`Beginning`), the result is empty until the last step (`AtRest`, `Underway`)
and then one of `Deliveries` (`Ending`). The last is also what the refinement
needs: the steps of the exchange stutter, the one that delivers is `Post`.
`RequestsGoWhereLed` is about requests that were sent; `Led` adds that the one
about to be sent goes where the last response led, and is a POST if all
responses so far repeat the request. A response that arrives later changes
nothing of what led to an earlier request (`SentStaysLed`).

*The process.* `ExitTellsCause` is not inductive, since it says nothing of
reports that have not been received. `ChannelInv` adds that each plane reports
once, an error has a cause that remains and nil a client that closed its end;
`StartupInv` what each phase has established, and that no plane runs before the
last.

*The refinement.* The evidence of the mapping, `EvidenceBag`, is the bag of the
log plus the bag of the entries still to be appended. The lemmas about `ToBag`
say what it becomes when a request is matched (one more), recorded (the same:
an entry changes sides) and reset (empty, since a disciplined client resets when
nothing is pending). They need both sides to be finite, so `RefinementInv` has that
of the pending entries, which each step changes by one request at most;
`PostedIsPossible` adds that a delivery about to be recorded is one that the
Simulator may deliver, and the serial invariant that what a handler read still
holds when it writes. Then each action is a step of the Simulator or a stutter
(`RefinementStep`), one lemma per action. `CheckedCorrectness` is an invariant of
the Simulator carried through the refinement.

*Recursion.* The library's induction theorems take an operator as a parameter,
which the provers here cannot instantiate. `Recursion` states induction over
*sets* instead: a set that contains an element whenever it contains those with a
smaller measure is everything (`MeasureInduction`; `Inductive` for well-founded
orders, of which the lexicographic one is proved), and a recursive function over
a set equals its body if the body reads it only where the measure is smaller
(`FixedPoint`, `RecursiveFunction`). What is proved by induction is then a set
comprehension, and the recursive definitions of the modules are functions.

*The validator.* A check is a schema, a value and the references being
resolved. Its `Weight` is the depth of the value times one more than the number of
references, plus the references not yet seen: a property or an item is less deep, a
reference resolved leaves one fewer, and what sees a reference twice stops.
`ValidateUnfolds` and `AdmitsUnfolds` follow by `FixedPoint`; `Soundness`,
`Completeness` and `RefusedFeatureIsWithin` by induction on the weight, with
lemmas for the cases of `validateSchema`.

*Paths.* A walk ends because each step follows a link, of which there are so
many, or takes a name off the way ahead: the lexicographic order again. The
lemmas say that a walk can be cut in two anywhere, so that a path resolves
only if its parts do, and that `Clean` leads where the system's walk does for a
path without `..`. What `evaluatePathForBoundary` takes literally is behind the
longest part that resolves: so a path that exists resolves to its own end,
inside or outside as the system has it (`LoadsFileNamed`, `InsideIsNotRefused`),
and the source path leads back to it (`SourceLeadsBack`). `LoadInv` says of each
stage of a load what the file system that it saw answered;
`ContractIsTheFileNamed` by itself says nothing of a load between its two steps.
The proofs made three preconditions explicit that the small tree never shows:
`LinksSuffice`, the `.` at the end of a path (for the system it asks for a
directory), and that the root still be a directory when its source path is tried
again.

*Left to TLC.* Liveness under fairness (`MatchedIsRecorded`, `CallsAreAnswered`,
`SendEnds`, `ProcessEnds`, and the liveness of `ImplementsSending`), which needs
ENABLED, out of the prover's reach. Every invariant and every action property of
a passing run is proved.

## What is not modelled, and why

* The text of prompts, resources, warnings and errors; logging.
* What a path leads to in ControlPlane and EchoMCP: there it is the same
  contract or error for the life of the process (`ContractAt`). Files that
  change are Process's, but only before and after a load or between its two
  steps, not inside `EvalSymlinks` or `ReadFile`. FIFOs and other files whose
  reading blocks are left out: such a load, and a call waiting for it, do not end.
* Case folding and volumes: paths are those of Unix.
* In a contract: response keys such as `2XX`, which the code compares as
  strings; the decoding of text that is no OpenAPI at all; counts of operations,
  schemas and features; contract ids and load times.
* Go matches the keys of a JSON object to the fields of its types in any case,
  while the scan compares them exactly: the keys of a document are as OpenAPI
  spells them. The case and the parameters of a content type are modelled on
  one example of each (`NormalizeContentType`), as is a method's case (`Lower`).
* Waits for a lock. A step under a lock is atomic, and the code holds none
  during the POST, the reading of a file or the writing of a response: that
  comes from reading it and is assumed. `CallsAreAnswered` says that no handler
  has to wait for another for any other reason, and would not notice a lock
  held too long.
* The transport's own repetition of a request on a reused connection that turns
  out to be closed: net/http repeats a POST there only if none of it was sent.
* The listening address, and what a client sees of a process that has ended:
  nothing is persisted.
* The guidance prompts and resources: static text.
* HTTP below the handler: the mux's cleaning of paths, headers, the body sent.

## Plan

The modules were written in this order, each where the most important behaviour
not yet covered was: Store, DataPlane, ContractManager, ControlPlane, EchoMCP
and Simulator, WebhookSender, OpenAPIContract; then ContractPath and Process,
Sending, loading and scanning in OpenAPIContract, numbers, and the proofs of
the sender, the process, one caller and the composition. Then came the
refinement, recursion over data, the validator and the paths as theorems. What
is left, in this order:

1. **Serving an accepted rule.** OpenAPIContract and Store together: which
   rules a contract accepts and no request can match (method case, slashes).
   No document promises that there are none.
2. **Several callers under a discipline of their own**, weaker than one call at
   a time: what of `ReplyIsCoherent` and of the refinement stays when calls
   that only read run beside one that writes.
3. **Paths with `..`** that no link precedes, where `Clean` and the system agree.
